--------------------------- MODULE Import_proofs ---------------------------
(***************************************************************************)
(* Proofs about Import.  Every path that is worked with is one of the      *)
(* scenario, and a run never removes a file that a store claims when the   *)
(* run is over.                                                            *)
(*                                                                         *)
(* The second follows what each operation of a store does with the claims  *)
(* of files: all of them forget some, or add those of the items they get.  *)
(***************************************************************************)
EXTENDS Import, FunctionTheorems, FiniteSetTheorems, WellFoundedInduction, TLAPS

-----------------------------------------------------------------------------
(* 1. Partial functions *)

\* What is left of a partial function without some keys.
LEMMA LessFacts ==
  ASSUME NEW f, NEW S
  PROVE  /\ DOMAIN Less(f, S) = DOMAIN f \ S
         /\ \A x \in DOMAIN f \ S : Less(f, S)[x] = f[x]
BY DEF Less, Restrict

\* One over another.
LEMMA OverFacts ==
  ASSUME NEW f, NEW g
  PROVE  /\ DOMAIN Over(f, g) = DOMAIN f \cup DOMAIN g
         /\ \A x \in DOMAIN f : Over(f, g)[x] = f[x]
         /\ \A x \in DOMAIN g \ DOMAIN f : Over(f, g)[x] = g[x]
BY DEF Over

\* One with one key set.
LEMMA PutFacts ==
  ASSUME NEW f, NEW k, NEW v
  PROVE  /\ DOMAIN Put(f, k, v) = DOMAIN f \cup {k}
         /\ Put(f, k, v)[k] = v
         /\ \A x \in DOMAIN f \ {k} : Put(f, k, v)[x] = f[x]
BY DEF Put, Over

\* A set of indices has a first one.
LEMMA FirstIndex ==
  ASSUME NEW S \in SUBSET Nat, S # {}
  PROVE  \E x \in S : \A y \in S : x <= y
<1> DEFINE R == OpToRel(<, Nat)
<1>1. IsWellFoundedOn(R, Nat)
  BY NatLessThanWellFounded
<1>2. \A x, y \in Nat : <<y, x>> \in R <=> y < x
  BY DEF OpToRel
<1> HIDE DEF R
<1>3. PICK x \in S : \A y \in S : ~(<<y, x>> \in R)
  BY <1>1, WFMin
<1>4. \A y \in S : ~(y < x)
  BY <1>2, <1>3
<1> QED
  BY <1>4, SMT

\* The first of some drives is one of them.
LEMMA FirstDrive ==
  ASSUME NEW S \in SUBSET DriveSet, S # {}
  PROVE  FirstOf(S) \in S
<1> DEFINE I == {i \in DOMAIN Drives : Drives[i] \in S}
<1>1. Drives \in Seq(DriveSet) /\ DOMAIN Drives = 1..Len(Drives) /\ Len(Drives) \in Nat
  BY ImportAssumption
<1>2. I # {} /\ I \subseteq Nat
  <2>1. PICK d \in S : d \in DriveSet
    OBVIOUS
  <2>2. PICK i \in DOMAIN Drives : Drives[i] = d
    BY <2>1 DEF DriveSet, Range
  <2> QED
    BY <1>1, <2>2
<1>3. PICK i \in I : \A j \in I : i <= j
  <2> HIDE DEF I
  <2> QED
    BY <1>2, FirstIndex
<1>4. Drives[i] \in S /\ \A j \in 1..i-1 : Drives[j] \notin S
  BY <1>1, <1>3
<1> QED
  BY <1>4 DEF FirstOf

-----------------------------------------------------------------------------
(* 2. The operations of a store *)

StoreFields == {"base", "ext", "zips", "filtered", "print"}

\* A store of known paths on known drives.
IsStore(s) ==
  /\ DOMAIN s = StoreFields
  /\ IsIndex(s.base)
  /\ DOMAIN s.ext \subseteq DriveSet
  /\ \A d \in DOMAIN s.ext : IsIndex(s.ext[d])
  /\ \A z \in DOMAIN s.filtered : IsIndex(s.filtered[z])

\* Store t claims no file that s does not claim.
ClaimsLess(t, s) == \A place, p : ClaimsFile(t, place, p) => ClaimsFile(s, place, p)

\* Store t claims files of store s and those of the items.
ClaimsMore(t, s, items) ==
  \A place, p : ClaimsFile(t, place, p) =>
    ClaimsFile(s, place, p) \/ (p \in DOMAIN items /\ ~IsDir(items[p]))

\* Parts of an index are an index.
LEMMA LessIndex ==
  ASSUME NEW f, IsIndex(f), NEW S
  PROVE  IsIndex(Less(f, S)) /\ IsIndex(Restrict(f, DOMAIN f \cap S))
BY DEF IsIndex, Less, Restrict

\* An index over another is an index.
LEMMA OverIndex ==
  ASSUME NEW f, NEW g, IsIndex(f), IsIndex(g)
  PROVE  IsIndex(Over(f, g))
<1> DEFINE o == Over(f, g)
<1>1. /\ DOMAIN o = DOMAIN f \cup DOMAIN g
      /\ \A x \in DOMAIN f : o[x] = f[x]
      /\ \A x \in DOMAIN g \ DOMAIN f : o[x] = g[x]
  BY OverFacts
<1> HIDE DEF o
<1>2. IsIndex(o)
  BY <1>1 DEF IsIndex
<1> QED
  BY <1>2 DEF o

\* The empty index, and the empty store.
LEMMA Empties ==
  IsIndex(NoMap) /\ IsStore(EmptyStore)
BY DEF IsIndex, NoMap, IsStore, EmptyStore, StoreFields

\* The fingerprint says nothing of the claims.
LEMMA PrintKeeps ==
  ASSUME NEW s, IsStore(s), NEW print
  PROVE  IsStore(SetPrint(s, print)) /\ ClaimsLess(SetPrint(s, print), s)
<1>1. /\ SetPrint(s, print).base = s.base /\ SetPrint(s, print).ext = s.ext
      /\ SetPrint(s, print).filtered = s.filtered
      /\ DOMAIN SetPrint(s, print) = StoreFields
  BY DEF SetPrint, IsStore, StoreFields
<1> QED
  BY <1>1 DEF IsStore, ClaimsLess, ClaimsFile, Claims, Section, OnDrive

\* An operation that leaves parts of the sections leaves parts of the claims.
LEMMA Sections ==
  ASSUME NEW s, IsStore(s), NEW t, DOMAIN t = StoreFields, t.filtered = s.filtered,
         DOMAIN t.base \subseteq DOMAIN s.base, \A p \in DOMAIN t.base : t.base[p] = s.base[p],
         DOMAIN t.ext \subseteq DOMAIN s.ext,
         \A d \in DOMAIN t.ext : /\ DOMAIN t.ext[d] \subseteq DOMAIN s.ext[d]
                                 /\ \A p \in DOMAIN t.ext[d] : t.ext[d][p] = s.ext[d][p]
  PROVE  IsStore(t) /\ ClaimsLess(t, s)
<1>1. IsStore(t)
  BY DEF IsStore, IsIndex
<1>2. ASSUME NEW place, NEW p, ClaimsFile(t, place, p)
      PROVE  ClaimsFile(s, place, p)
  BY <1>2 DEF ClaimsFile, Claims, Section, OnDrive, NoMap
<1> QED
  BY <1>1, <1>2 DEF ClaimsLess

\* What is forgotten is not claimed any more.
LEMMA ForgetKeeps ==
  ASSUME NEW s, IsStore(s), NEW paths
  PROVE  /\ IsStore(Forget(s, paths)) /\ ClaimsLess(Forget(s, paths), s)
         /\ \A place, p : p \in paths => ~ClaimsFile(Forget(s, paths), place, p)
<1> DEFINE t == Forget(s, paths)
<1>1. /\ DOMAIN t = StoreFields /\ t.filtered = s.filtered
      /\ t.base = Less(s.base, paths)
      /\ t.ext = [d \in DOMAIN s.ext |-> Less(s.ext[d], paths)]
  BY DEF Forget, IsStore, StoreFields
<1> HIDE DEF t
<1>2. /\ DOMAIN t.base = DOMAIN s.base \ paths /\ \A p \in DOMAIN t.base : t.base[p] = s.base[p]
      /\ DOMAIN t.ext = DOMAIN s.ext
      /\ \A d \in DOMAIN t.ext : /\ DOMAIN t.ext[d] = DOMAIN s.ext[d] \ paths
                                 /\ \A p \in DOMAIN t.ext[d] : t.ext[d][p] = s.ext[d][p]
  BY <1>1 DEF Less, Restrict
<1>3. IsStore(t) /\ ClaimsLess(t, s)
  BY <1>1, <1>2, Sections
<1>4. \A place, p : p \in paths => ~ClaimsFile(t, place, p)
  BY <1>2 DEF ClaimsFile, Claims, Section, OnDrive, NoMap
<1> QED
  BY <1>3, <1>4 DEF t

\* The entries of an archive that goes stay, as entries of no archive.
LEMMA RemoveZipsKeeps ==
  ASSUME NEW s, IsStore(s), NEW zips
  PROVE  IsStore(RemoveZips(s, zips)) /\ ClaimsLess(RemoveZips(s, zips), s)
<1> DEFINE t == RemoveZips(s, zips)
           b == [p \in DOMAIN s.base |-> IF s.base[p].zip \in zips
                                         THEN [s.base[p] EXCEPT !.zip = "none", !.tags = {}]
                                         ELSE s.base[p]]
<1>1. /\ DOMAIN t = StoreFields /\ t.filtered = Less(s.filtered, zips)
      /\ t.base = b /\ t.ext = s.ext
  BY DEF RemoveZips, IsStore, StoreFields
<1>2. DOMAIN b = DOMAIN s.base
  OBVIOUS
<1>3. ASSUME NEW p \in DOMAIN b
      PROVE  DOMAIN b[p] = EntryFields /\ b[p].hash = s.base[p].hash
  <2> DEFINE e == s.base[p]
  <2>1. DOMAIN e = EntryFields
    BY DEF IsStore, IsIndex
  <2>2. b[p] = IF e.zip \in zips THEN [e EXCEPT !.zip = "none", !.tags = {}] ELSE e
    OBVIOUS
  <2> HIDE DEF e, b
  <2>3. DOMAIN b[p] = EntryFields /\ b[p].hash = e.hash
    BY <2>1, <2>2 DEF EntryFields
  <2> QED
    BY <2>3 DEF e
<1> HIDE DEF t, b
<1>4. /\ DOMAIN t.filtered = DOMAIN s.filtered \ zips
      /\ \A z \in DOMAIN t.filtered : t.filtered[z] = s.filtered[z]
  BY <1>1 DEF Less, Restrict
<1>5. IsStore(t)
  BY <1>1, <1>2, <1>3, <1>4 DEF IsStore, IsIndex
<1>6. ClaimsLess(t, s)
  BY <1>1, <1>2, <1>3 DEF ClaimsLess, ClaimsFile, Claims, Section, OnDrive, NoMap, IsDir
<1> QED
  BY <1>5, <1>6 DEF t

\* The drives that have nothing left claimed nothing.
LEMMA CleanKeeps ==
  ASSUME NEW s, IsStore(s)
  PROVE  IsStore(CleanExternals(s)) /\ ClaimsLess(CleanExternals(s), s)
<1> DEFINE t == CleanExternals(s)
           S == {d \in DOMAIN s.ext : s.ext[d] # NoMap}
<1>1. /\ DOMAIN t = StoreFields /\ t.filtered = s.filtered
      /\ t.base = s.base
      /\ t.ext = [d \in S |-> s.ext[d]]
  BY DEF CleanExternals, IsStore, StoreFields, Restrict
<1> HIDE DEF t
<1>2. IsStore(t) /\ ClaimsLess(t, s)
  BY <1>1, Sections
<1> QED
  BY <1>2 DEF t

\* What a filter left out is claimed by none.
LEMMA SaveFilteredKeeps ==
  ASSUME NEW s, IsStore(s), NEW data, \A z \in DOMAIN data : IsIndex(data[z])
  PROVE  IsStore(SaveFiltered(s, data)) /\ ClaimsLess(SaveFiltered(s, data), s)
<1> DEFINE t == SaveFiltered(s, data)
           S == {z \in DOMAIN data : data[z] # NoMap}
<1>1. /\ DOMAIN t = StoreFields /\ t.base = s.base /\ t.ext = s.ext
      /\ t.filtered = [z \in S |-> data[z]]
  BY DEF SaveFiltered, IsStore, StoreFields, Restrict
<1> HIDE DEF t
<1>2. IsStore(t)
  BY <1>1 DEF IsStore
<1>3. ClaimsLess(t, s)
  BY <1>1 DEF ClaimsLess, ClaimsFile, Claims, Section, OnDrive
<1> QED
  BY <1>2, <1>3 DEF t

\* What is added is claimed in one place, and nothing else is claimed more than before.
LEMMA AddKeeps ==
  ASSUME NEW s, IsStore(s), NEW items, IsIndex(items), NEW places,
         DOMAIN places = DOMAIN items, \A p \in DOMAIN items : places[p] \in {"base"} \cup DriveSet,
         NEW repeated
  PROVE  /\ IsStore(AddPkgs(s, items, places, repeated))
         /\ ClaimsMore(AddPkgs(s, items, places, repeated), s, items)
<1> DEFINE t == AddPkgs(s, items, places, repeated)
           at(place) == {p \in DOMAIN items : places[p] = place}
           new(place) == [p \in at(place) |-> Stripped(items[p])]
           single == {p \in DOMAIN items \ at("base") : p \notin repeated /\ ~IsDir(items[p])}
           gone(d) == at("base") \cup (single \ (at(d) \cup DOMAIN s.base))
           rest(d) == IF d \in DOMAIN s.ext THEN Less(s.ext[d], gone(d)) ELSE NoMap
           drives == DOMAIN s.ext \cup (Range(places) \ {"base"})
<1>1. /\ DOMAIN t = StoreFields /\ t.filtered = s.filtered
      /\ t.base = Over(new("base"), Less(s.base, single))
      /\ t.ext = [d \in drives |-> Over(new(d), rest(d))]
  BY DEF AddPkgs, IsStore, StoreFields
<1>2. ASSUME NEW p \in DOMAIN items
      PROVE  DOMAIN Stripped(items[p]) = EntryFields /\ Stripped(items[p]).hash = items[p].hash
  <2>1. DOMAIN items[p] = EntryFields
    BY DEF IsIndex
  <2> QED
    BY <2>1 DEF Stripped, EntryFields
<1>3. \A place : IsIndex(new(place))
  BY <1>2 DEF IsIndex
<1>4. drives \subseteq DriveSet
  BY DEF IsStore, Range
<1>5. \A d : IsIndex(rest(d))
  <2> TAKE d
  <2>1. CASE d \in DOMAIN s.ext
    BY <2>1, LessIndex DEF IsStore
  <2>2. CASE d \notin DOMAIN s.ext
    BY <2>2, Empties
  <2> QED
    BY <2>1, <2>2
<1>6. \A d, p : p \in DOMAIN rest(d) =>
        d \in DOMAIN s.ext /\ p \in DOMAIN s.ext[d] /\ rest(d)[p] = s.ext[d][p]
  <2> TAKE d, p
  <2>1. CASE d \in DOMAIN s.ext
    <3> HIDE DEF gone
    <3> QED
      BY <2>1 DEF Less, Restrict
  <2>2. CASE d \notin DOMAIN s.ext
    BY <2>2 DEF NoMap
  <2> QED
    BY <2>1, <2>2
<1>7. \A place : /\ DOMAIN new(place) \subseteq DOMAIN items
                 /\ \A p \in DOMAIN new(place) : new(place)[p].hash = items[p].hash
  BY <1>2
<1> HIDE DEF new, rest, t, single, drives, at, gone
<1>8. IsStore(t)
  <2>1. IsIndex(t.base)
    <3>1. IsIndex(Less(s.base, single)) /\ IsIndex(new("base"))
      BY <1>3, LessIndex DEF IsStore
    <3> QED
      BY <1>1, <3>1, OverIndex
  <2>2. \A d \in DOMAIN t.ext : IsIndex(t.ext[d])
    BY <1>1, <1>3, <1>5, OverIndex
  <2> QED
    BY <1>1, <1>4, <2>1, <2>2 DEF IsStore
<1>9. ClaimsMore(t, s, items)
  <2> SUFFICES ASSUME NEW place, NEW p, ClaimsFile(t, place, p)
               PROVE  ClaimsFile(s, place, p) \/ (p \in DOMAIN items /\ ~IsDir(items[p]))
    BY DEF ClaimsMore
  <2>1. CASE place = "base"
    <3>1. p \in DOMAIN t.base /\ t.base[p].hash # "dir"
      BY <2>1 DEF ClaimsFile, Claims, Section, IsDir
    <3>2. CASE p \in DOMAIN new("base")
      BY <1>1, <1>7, <3>1, <3>2 DEF Over, IsDir
    <3>3. CASE p \notin DOMAIN new("base")
      <4>1. p \in DOMAIN Less(s.base, single) /\ t.base[p] = Less(s.base, single)[p]
        BY <1>1, <3>1, <3>3 DEF Over
      <4>2. p \in DOMAIN s.base /\ t.base[p] = s.base[p]
        BY <4>1 DEF Less, Restrict
      <4> QED
        BY <2>1, <3>1, <4>2 DEF ClaimsFile, Claims, Section, IsDir
    <3> QED
      BY <3>2, <3>3
  <2>2. CASE place # "base"
    <3>1. place \in DOMAIN t.ext /\ p \in DOMAIN t.ext[place] /\ t.ext[place][p].hash # "dir"
      BY <2>2 DEF ClaimsFile, Claims, Section, OnDrive, NoMap, IsDir
    <3>2. t.ext[place] = Over(new(place), rest(place))
      BY <1>1, <3>1
    <3>3. CASE p \in DOMAIN new(place)
      BY <1>7, <3>1, <3>2, <3>3 DEF Over, IsDir
    <3>4. CASE p \notin DOMAIN new(place)
      <4>1. p \in DOMAIN rest(place) /\ t.ext[place][p] = rest(place)[p]
        BY <3>1, <3>2, <3>4 DEF Over
      <4> QED
        BY <1>6, <2>2, <3>1, <4>1 DEF ClaimsFile, Claims, Section, OnDrive, IsDir
    <3> QED
      BY <3>3, <3>4
  <2> QED
    BY <2>1, <2>2
<1> QED
  BY <1>8, <1>9 DEF t

-----------------------------------------------------------------------------
(* 3. What is read from a store, and where items go *)

\* What a store has is known paths.
LEMMA AllItemsIndex ==
  ASSUME NEW s, IsStore(s)
  PROVE  IsIndex(AllItems(s))
<1> DEFINE D == DOMAIN s.base \cup UNION {DOMAIN s.ext[d] : d \in DOMAIN s.ext}
<1>1. DOMAIN AllItems(s) = D /\ D \subseteq DOMAIN Key
  BY DEF AllItems, IsStore, IsIndex
<1>2. ASSUME NEW p \in D
      PROVE  DOMAIN AllItems(s)[p] = EntryFields
  <2>1. CASE p \in DOMAIN s.base
    <3>1. AllItems(s)[p] = s.base[p]
      BY <2>1 DEF AllItems
    <3> QED
      BY <2>1, <3>1 DEF IsStore, IsIndex
  <2>2. CASE p \notin DOMAIN s.base
    <3>1. DrivesWith(s, p) # {} /\ DrivesWith(s, p) \subseteq DriveSet
      BY <2>2 DEF DrivesWith, IsStore
    <3>2. FirstOf(DrivesWith(s, p)) \in DrivesWith(s, p)
      BY <3>1, FirstDrive
    <3>3. AllItems(s)[p] = s.ext[FirstOf(DrivesWith(s, p))][p]
      BY <2>2 DEF AllItems
    <3> DEFINE d == FirstOf(DrivesWith(s, p))
    <3>4. d \in DOMAIN s.ext /\ p \in DOMAIN s.ext[d]
      BY <3>2 DEF DrivesWith
    <3>5. DOMAIN s.ext[d][p] = EntryFields
      <4> HIDE DEF d
      <4> QED
        BY <3>4 DEF IsStore, IsIndex
    <3> QED
      BY <3>3, <3>5
  <2> QED
    BY <2>1, <2>2
<1> QED
  BY <1>1, <1>2 DEF IsIndex

\* So is the index of an archive that is made of it.
LEMMA SummaryIndex ==
  ASSUME NEW s, IsStore(s), NEW z
  PROVE  IsIndex(ZipSummary(s, z))
<1> DEFINE own == {p \in DOMAIN AllItems(s) : AllItems(s)[p].zip = z}
           rest == IF z \in DOMAIN s.filtered THEN s.filtered[z] ELSE NoMap
<1>1. IsIndex(rest)
  BY Empties DEF IsStore
<1>2. IsIndex(Restrict(AllItems(s), own))
  BY AllItemsIndex DEF IsIndex, Restrict
<1>3. ZipSummary(s, z) = Over(Restrict(AllItems(s), own), rest)
  BY DEF ZipSummary
<1> HIDE DEF own, rest
<1> QED
  BY <1>1, <1>2, <1>3, OverIndex

\* An item goes to the base or to a drive.
LEMMA PlaceIsKnown ==
  ASSUME NEW p, NEW entry
  PROVE  Place(p, entry) \in {"base"} \cup DriveSet
<1>1. \A S \in SUBSET DriveSet : S # {} => FirstOf(S) \in DriveSet
  BY FirstDrive
<1>2. \A priority, plugged, hasFolder :
        SearchDrive(priority, plugged, hasFolder) \in {"base"} \cup DriveSet
  BY <1>1 DEF SearchDrive, Connected
<1> QED
  BY <1>2 DEF Place, PlaceOf

-----------------------------------------------------------------------------
(* 4. The state of a run *)

JobFields == {"st", "items", "left", "new", "dup", "gone", "need", "present", "repeated",
              "got", "bad", "fresh", "full"}

\* An index job: each of its files is new or a duplicate, and only new ones are
\* fetched, found or still needed.
IsJob(j) ==
  /\ DOMAIN j = JobFields
  /\ IsIndex(j.items) /\ IsIndex(j.left)
  /\ Files(j.items) = j.new \cup j.dup
  /\ j.need \cup Installed(j) \subseteq j.new

RunFields == {"pc", "mode", "folders", "mem", "db", "claimed", "room", "failed", "jobs"}

\* While the jobs run: only databases that are processed have index jobs.
IndexInv ==
  /\ DOMAIN run = RunFields
  /\ DOMAIN run.mem = Dbs /\ DOMAIN run.db = Dbs /\ DOMAIN run.jobs = Dbs
  /\ \A db \in Dbs : IsStore(run.mem[db])
  /\ \A db \in Dbs : \A part \in DOMAIN Jobs(db) :
       Running(db) /\ part \in Parts(db) /\ IsJob(Jobs(db)[part])
  /\ \A place \in DOMAIN run.room : run.room[place] \in Nat \ {0}

\* The phases of a run, and between two runs.
RunInv ==
  /\ run.pc \in {"idle", "index", "save", "trust"}
  /\ run.pc = "index" => IndexInv
  /\ run.pc = "save" => DOMAIN run.mem = Dbs /\ \A db \in Dbs : IsStore(run.mem[db])

\* The world, the disk and the saved stores.
WorldInv ==
  /\ world \in Worlds /\ setup \in Setups /\ trust \in BOOLEAN
  /\ edition \in [Dbs -> Nat] /\ \A db \in Dbs : edition[db] \in DOMAIN world.editions[db]
  /\ DOMAIN disk = {"base"} \cup DriveSet
  /\ \A place \in DOMAIN disk : DOMAIN disk[place] \subseteq Range(Key) \cup DOMAIN Key
  /\ DOMAIN saved = Dbs /\ \A db \in Dbs : IsStore(saved[db])

ImportInv == WorldInv /\ RunInv

-----------------------------------------------------------------------------
(* 5. What the importer does with the claims *)

\* The items that are gathered are those of one of the parts.
LEMMA GatheredItems ==
  ASSUME IndexInv, NEW db \in Dbs, NEW f, DOMAIN f \subseteq DOMAIN Jobs(db),
         \A part \in DOMAIN f : f[part] \subseteq DOMAIN Jobs(db)[part].items
  PROVE  /\ IsIndex(Gathered(db, f))
         /\ \A p \in DOMAIN Gathered(db, f) : \E part \in DOMAIN f :
              p \in f[part] /\ Gathered(db, f)[p] = Jobs(db)[part].items[p]
<1> DEFINE g == Gathered(db, f)
<1>1. /\ DOMAIN g = UNION Range(f)
      /\ \A p \in DOMAIN g : g[p] = Jobs(db)[PartOf(f, p)].items[p]
  BY DEF Gathered
<1>2. ASSUME NEW p \in DOMAIN g
      PROVE  PartOf(f, p) \in DOMAIN f /\ p \in f[PartOf(f, p)]
  <2>1. \E part \in DOMAIN f : p \in f[part]
    BY <1>1 DEF Range
  <2> QED
    BY <2>1 DEF PartOf
<1> HIDE DEF g
<1>3. IsIndex(g)
  BY <1>1, <1>2 DEF IndexInv, IsJob, IsIndex
<1>4. \A p \in DOMAIN g : \E part \in DOMAIN f : p \in f[part] /\ g[p] = Jobs(db)[part].items[p]
  BY <1>1, <1>2
<1> QED
  BY <1>3, <1>4 DEF g

\* What is dropped of folders claims no file.
LEMMA ForgetFoldersKeeps ==
  ASSUME NEW s, IsStore(s), NEW db, NEW d
  PROVE  IsStore(ForgetFolders(s, db, d)) /\ ClaimsLess(ForgetFolders(s, db, d), s)
<1> DEFINE t == ForgetFolders(s, db, d)
<1>1. \E local : \E outside :
        /\ DOMAIN t = StoreFields /\ t.filtered = s.filtered
        /\ t.base = Less(s.base, local)
        /\ t.ext = [e \in DOMAIN s.ext |-> Less(s.ext[e], outside[e])]
  <2> DEFINE mine == {p \in Dropped(TRUE) : db \in Consumers(p)}
             local == {p \in mine : InUse(p) \/ (p \in DroppedFolders(d) /\ (GonePlace(p) = "base" \/ ~HasItems(d, "base", p)))}
             away(e) == {p \in mine \cap DroppedFolders(d) : GonePlace(p) = e /\ FolderOf[p] # p}
             outside == [e \in DOMAIN s.ext |-> away(e)]
  <2>1. t = [s EXCEPT !.base = Less(@, local), !.ext = [e \in DOMAIN @ |-> Less(@[e], away(e))]]
    BY DEF ForgetFolders
  <2> HIDE DEF local, away, t
  <2>2. /\ DOMAIN t = StoreFields /\ t.filtered = s.filtered
        /\ t.base = Less(s.base, local)
        /\ t.ext = [e \in DOMAIN s.ext |-> Less(s.ext[e], away(e))]
    BY <2>1 DEF IsStore, StoreFields
  <2>3. [e \in DOMAIN s.ext |-> Less(s.ext[e], away(e))] = [e \in DOMAIN s.ext |-> Less(s.ext[e], outside[e])]
    OBVIOUS
  <2> HIDE DEF outside
  <2> QED
    BY <2>2, <2>3
<1> HIDE DEF t
<1>2. PICK local : \E outside :
        /\ DOMAIN t = StoreFields /\ t.filtered = s.filtered
        /\ t.base = Less(s.base, local)
        /\ t.ext = [e \in DOMAIN s.ext |-> Less(s.ext[e], outside[e])]
  BY <1>1
<1>3. PICK outside :
        /\ DOMAIN t = StoreFields /\ t.filtered = s.filtered
        /\ t.base = Less(s.base, local)
        /\ t.ext = [e \in DOMAIN s.ext |-> Less(s.ext[e], outside[e])]
  BY <1>2
<1>4. /\ DOMAIN t.base = DOMAIN s.base \ local /\ \A p \in DOMAIN t.base : t.base[p] = s.base[p]
      /\ DOMAIN t.ext = DOMAIN s.ext
      /\ \A e \in DOMAIN t.ext : /\ DOMAIN t.ext[e] = DOMAIN s.ext[e] \ outside[e]
                                 /\ \A p \in DOMAIN t.ext[e] : t.ext[e][p] = s.ext[e][p]
  BY <1>3 DEF Less, Restrict
<1>5. IsStore(t) /\ ClaimsLess(t, s)
  BY <1>3, <1>4, Sections
<1> QED
  BY <1>5 DEF t

\* The files that are added are those that were fetched or found, which are new.
LEMMA InstallKeeps ==
  ASSUME IndexInv, NEW db \in Dbs, NEW s, IsStore(s), NEW parts \in SUBSET DOMAIN Jobs(db)
  PROVE  /\ IsStore(Install(s, db, parts))
         /\ \A place, p : ClaimsFile(Install(s, db, parts), place, p) =>
              ClaimsFile(s, place, p) \/ \E part \in parts : p \in Jobs(db)[part].new
<1> DEFINE f == [part \in parts |-> Installed(Jobs(db)[part]) \cup Folders(Jobs(db)[part].items)]
           items == Gathered(db, f)
           places == [p \in DOMAIN items |-> Place(p, items[p])]
           repeated == UNION {Jobs(db)[part].repeated : part \in parts}
           copies(e) == {p \in Folders(items) : e \in OtherPlaces(s, p, places[p]) /\ ~IsThere(e, p)}
           added == AddPkgs(s, items, places, repeated)
           t == Install(s, db, parts)
<1>1. \A part \in parts : f[part] \subseteq DOMAIN Jobs(db)[part].items
  BY DEF IndexInv, IsJob, Files, Folders
<1>2. /\ IsIndex(items)
      /\ \A p \in DOMAIN items : \E part \in parts :
           p \in f[part] /\ items[p] = Jobs(db)[part].items[p]
  <2>1. DOMAIN f = parts
    OBVIOUS
  <2> HIDE DEF f
  <2> QED
    BY <1>1, <2>1, GatheredItems
<1>3. ASSUME NEW p \in DOMAIN items, ~IsDir(items[p])
      PROVE  \E part \in parts : p \in Jobs(db)[part].new
  <2>1. PICK part \in parts : p \in f[part] /\ items[p] = Jobs(db)[part].items[p]
    BY <1>2
  <2>2. p \notin Folders(Jobs(db)[part].items)
    BY <1>3, <2>1 DEF Folders, Files
  <2>3. p \in Installed(Jobs(db)[part])
    BY <2>1, <2>2
  <2> QED
    BY <2>3 DEF IndexInv, IsJob
<1>4. t = [added EXCEPT !.base = Less(@, copies("base")),
                        !.ext = [e \in DOMAIN @ |-> Less(@[e], copies(e))]]
  BY DEF Install
<1>5. IsStore(added) /\ ClaimsMore(added, s, items)
  <2>1. DOMAIN places = DOMAIN items /\ \A p \in DOMAIN items : places[p] \in {"base"} \cup DriveSet
    BY PlaceIsKnown
  <2> HIDE DEF places, items, repeated
  <2> QED
    BY <1>2, <2>1, AddKeeps
<1> HIDE DEF f, items, places, copies, added, t
<1>6. /\ DOMAIN t = StoreFields /\ t.filtered = added.filtered
      /\ t.base = Less(added.base, copies("base"))
      /\ t.ext = [e \in DOMAIN added.ext |-> Less(added.ext[e], copies(e))]
  BY <1>4, <1>5 DEF IsStore, StoreFields
<1>7. /\ DOMAIN t.base = DOMAIN added.base \ copies("base")
      /\ \A p \in DOMAIN t.base : t.base[p] = added.base[p]
      /\ DOMAIN t.ext = DOMAIN added.ext
      /\ \A e \in DOMAIN t.ext : /\ DOMAIN t.ext[e] = DOMAIN added.ext[e] \ copies(e)
                                 /\ \A p \in DOMAIN t.ext[e] : t.ext[e][p] = added.ext[e][p]
  BY <1>6 DEF Less, Restrict
<1>8. IsStore(t) /\ ClaimsLess(t, added)
  BY <1>5, <1>6, <1>7, Sections
<1> QED
  BY <1>3, <1>5, <1>8 DEF t, ClaimsLess, ClaimsMore

\* The files of new summaries are those of the index jobs.
LEMMA SummariseKeeps ==
  ASSUME IndexInv, NEW db \in Dbs, NEW s, IsStore(s), NEW archives \in SUBSET DOMAIN Jobs(db)
  PROVE  /\ IsStore(Summarise(s, db, archives))
         /\ \A place, p : ClaimsFile(Summarise(s, db, archives), place, p) =>
              ClaimsFile(s, place, p) \/ \E part \in archives : p \in Files(Jobs(db)[part].items)
<1> DEFINE paths == [z \in {y \in archives : Jobs(db)[y].fresh} |-> DOMAIN Jobs(db)[z].items]
           items == Gathered(db, paths)
           places == [p \in DOMAIN items |-> LET z == PartOf(paths, p)
                                             IN At(Jobs(db)[z], CHOOSE q \in paths[z] : TRUE)]
           hashes == [z \in DOMAIN paths |-> Published(db).zips[z].hash]
           added == AddPkgs(s, items, places, {})
           t == Summarise(s, db, archives)
<1>1. /\ DOMAIN paths \subseteq archives
      /\ \A part \in DOMAIN paths : paths[part] = DOMAIN Jobs(db)[part].items
  OBVIOUS
<1>2. /\ IsIndex(items)
      /\ \A p \in DOMAIN items : \E part \in DOMAIN paths :
           p \in paths[part] /\ items[p] = Jobs(db)[part].items[p]
  <2> HIDE DEF paths
  <2> QED
    BY <1>1, GatheredItems
<1>3. DOMAIN places = DOMAIN items /\ \A p \in DOMAIN items : places[p] \in {"base"} \cup DriveSet
  BY PlaceIsKnown DEF At
<1>4. t = [added EXCEPT !.zips = Over(hashes, @)]
  BY DEF Summarise, AddZipSummaries
<1> HIDE DEF paths, items, places, hashes, added, t
<1>5. IsStore(added) /\ ClaimsMore(added, s, items)
  BY <1>2, <1>3, AddKeeps DEF added
<1>6. /\ DOMAIN t = StoreFields /\ t.filtered = added.filtered
      /\ t.base = added.base /\ t.ext = added.ext
  BY <1>4, <1>5 DEF IsStore, StoreFields
<1>7. IsStore(t) /\ ClaimsLess(t, added)
  BY <1>5, <1>6 DEF IsStore, ClaimsLess, ClaimsFile, Claims, Section, OnDrive
<1>8. ASSUME NEW p \in DOMAIN items, ~IsDir(items[p])
      PROVE  \E part \in archives : p \in Files(Jobs(db)[part].items)
  BY <1>1, <1>2, <1>8 DEF Files
<1> QED
  BY <1>5, <1>7, <1>8 DEF t, ClaimsLess, ClaimsMore

\* After a run, a database that was processed claims the files it claimed before and
\* was not freed of, those that are new, and those of its indexes.
LEMMA ImportedKeeps ==
  ASSUME IndexInv, NEW db \in Dbs, NEW d
  PROVE  /\ IsStore(Imported(db, d))
         /\ \A place, p : ClaimsFile(Imported(db, d), place, p) =>
              \/ ClaimsFile(Forget(run.mem[db], {q \in Freed : db \in Consumers(q)}), place, p)
              \/ \E part \in DOMAIN Jobs(db) :
                   <<db, part>> \in Checked /\ p \in Files(Jobs(db)[part].items)
<1> DEFINE parts == {part \in DOMAIN Jobs(db) : <<db, part>> \in Checked}
           archives == parts \ {"main"}
           freed == {p \in Freed : db \in Consumers(p)}
           mem == run.mem[db]
           printed == SetPrint(mem, PrintOf(db))
           zips == DOMAIN mem.zips \ Archives(db)
           known == RemoveZips(printed, zips)
           forgot == Forget(known, freed)
           folders == ForgetFolders(forgot, db, d)
           installed == Install(folders, db, parts)
           summed == Summarise(installed, db, archives)
           left == [z \in archives |-> Jobs(db)[z].left]
           filtered == SaveFiltered(summed, left)
           last == IF archives = {} THEN installed ELSE filtered
           IsOfJob(p) == \E part \in parts : p \in Files(Jobs(db)[part].items)
<1>1. Imported(db, d) = CleanExternals(last)
  BY DEF Imported
<1>2. parts \subseteq DOMAIN Jobs(db) /\ archives \subseteq parts
  OBVIOUS
<1>3. IsStore(mem)
  BY DEF IndexInv
<1>4. \A z \in DOMAIN left : IsIndex(left[z])
  BY DEF IndexInv, IsJob
<1>5. \A part \in parts : Jobs(db)[part].new \subseteq Files(Jobs(db)[part].items)
  BY DEF IndexInv, IsJob
<1>6. IsStore(known) /\ ClaimsLess(known, mem)
  <2>1. IsStore(printed) /\ ClaimsLess(printed, mem)
    BY <1>3, PrintKeeps
  <2> HIDE DEF printed, zips, mem
  <2>2. IsStore(known) /\ ClaimsLess(known, printed)
    BY <2>1, RemoveZipsKeeps
  <2> HIDE DEF known
  <2> QED
    BY <2>1, <2>2 DEF ClaimsLess
<1> HIDE DEF parts, archives, freed, mem, known, left
<1>7. IsStore(forgot) /\ \A place, p : ClaimsFile(forgot, place, p) => ClaimsFile(Forget(mem, freed), place, p)
  <2>1. IsStore(forgot) /\ ClaimsLess(forgot, known) /\ \A place, p : p \in freed => ~ClaimsFile(forgot, place, p)
    BY <1>6, ForgetKeeps
  <2>2. ASSUME NEW place, NEW p, ClaimsFile(mem, place, p), p \notin freed
        PROVE  ClaimsFile(Forget(mem, freed), place, p)
    <3> DEFINE t == Forget(mem, freed)
    <3>1. t.base = Less(mem.base, freed) /\ t.ext = [e \in DOMAIN mem.ext |-> Less(mem.ext[e], freed)]
      BY <1>3 DEF Forget, IsStore, StoreFields
    <3> HIDE DEF t
    <3>2. ClaimsFile(t, place, p)
      BY <2>2, <3>1 DEF ClaimsFile, Claims, Section, OnDrive, NoMap, Less, Restrict
    <3> QED
      BY <3>2 DEF t
  <2> HIDE DEF forgot
  <2> QED
    BY <1>6, <2>1, <2>2 DEF ClaimsLess
<1> HIDE DEF forgot
<1>8. IsStore(folders) /\ ClaimsLess(folders, forgot)
  BY <1>7, ForgetFoldersKeeps
<1> HIDE DEF folders
<1>9. /\ IsStore(installed)
      /\ \A place, p : ClaimsFile(installed, place, p) => ClaimsFile(folders, place, p) \/ IsOfJob(p)
  <2>1. /\ IsStore(installed)
        /\ \A place, p : ClaimsFile(installed, place, p) =>
             ClaimsFile(folders, place, p) \/ \E part \in parts : p \in Jobs(db)[part].new
    BY <1>2, <1>8, InstallKeeps
  <2> HIDE DEF installed
  <2> QED
    BY <1>5, <2>1
<1> HIDE DEF installed
<1>10. /\ IsStore(summed)
       /\ \A place, p : ClaimsFile(summed, place, p) => ClaimsFile(installed, place, p) \/ IsOfJob(p)
  <2>1. /\ IsStore(summed)
        /\ \A place, p : ClaimsFile(summed, place, p) =>
             ClaimsFile(installed, place, p) \/ \E part \in archives : p \in Files(Jobs(db)[part].items)
    BY <1>2, <1>9, SummariseKeeps
  <2> HIDE DEF summed
  <2> QED
    BY <1>2, <2>1
<1> HIDE DEF summed
<1>11. IsStore(filtered) /\ ClaimsLess(filtered, summed)
  BY <1>4, <1>10, SaveFilteredKeeps
<1> HIDE DEF filtered
<1>12. /\ IsStore(last)
       /\ \A place, p : ClaimsFile(last, place, p) => ClaimsFile(installed, place, p) \/ IsOfJob(p)
  BY <1>9, <1>10, <1>11 DEF ClaimsLess
<1> HIDE DEF last
<1>13. IsStore(Imported(db, d)) /\ ClaimsLess(Imported(db, d), last)
  BY <1>1, <1>12, CleanKeeps
<1>14. ASSUME NEW place, NEW p, ClaimsFile(Imported(db, d), place, p)
       PROVE  ClaimsFile(Forget(mem, freed), place, p) \/ IsOfJob(p)
  BY <1>7, <1>8, <1>9, <1>12, <1>13, <1>14 DEF ClaimsLess
<1> QED
  BY <1>13, <1>14 DEF parts, freed, mem

\* A database that did not take part only makes way.
LEMMA DisplaceKeeps ==
  ASSUME NEW s, IsStore(s)
  PROVE  IsStore(Displace(s)) /\ ClaimsLess(Displace(s), s)
<1> DEFINE lost == MatchingFiles(s, NewNames)
           left == Forget(s, lost)
<1>1. IsStore(left) /\ ClaimsLess(left, s)
  BY ForgetKeeps
<1> HIDE DEF left
<1>2. IsStore(InvalidatePrint(left)) /\ ClaimsLess(InvalidatePrint(left), left)
  BY <1>1, PrintKeeps DEF InvalidatePrint
<1>3. Displace(s) \in {left, InvalidatePrint(left)}
  BY DEF Displace, left
<1> QED
  BY <1>1, <1>2, <1>3 DEF ClaimsLess

\* The stores after a run.
LEMMA StoreAfterIsStore ==
  ASSUME IndexInv, NEW db \in Dbs, NEW d
  PROVE  IsStore(StoreAfter(db, d))
<1>1. IsStore(run.mem[db]) /\ IsStore(Displace(run.mem[db])) /\ IsStore(Imported(db, d))
  BY ImportedKeeps, DisplaceKeeps DEF IndexInv
<1> QED
  BY <1>1 DEF StoreAfter

-----------------------------------------------------------------------------
(* 6. What is removed *)

\* A path with the key of one that is removed is not new in this run.
LEMMA RemovedIsNotNew ==
  ASSUME NEW q \in Removed, NEW c \in Checked, NEW p \in Job(c).new
  PROVE  Key[p] # Key[q]
BY DEF Removed, Processed

\* A store that claims the key of a path that is removed dropped it, in some spelling.
LEMMA RemovedIsDropped ==
  ASSUME NEW q \in Removed, NEW db \in Dbs, Key[q] \in ClaimedKeys(run.mem[db], FALSE)
  PROVE  \E r \in Dropped(FALSE) : Key[r] = Key[q] /\ db \in Consumers(r)
<1>1. ~ClaimedByOther(Key[q], FALSE)
  BY DEF Removed
<1> QED
  BY <1>1 DEF ClaimedByOther

\* Only databases that are processed drop anything.
LEMMA ConsumerRuns ==
  ASSUME IndexInv, NEW r, NEW db \in Consumers(r)
  PROVE  db \in Dbs /\ Running(db)
<1>1. PICK c \in Checked : c[1] = db
  BY DEF Consumers
<1>2. PICK e \in Dbs : c \in {<<e, part>> : part \in DOMAIN Jobs(e)}
  BY <1>1 DEF Checked
<1>3. PICK part \in DOMAIN Jobs(e) : c = <<e, part>>
  BY <1>2
<1> QED
  BY <1>1, <1>3 DEF IndexInv

\* The key of a file that is claimed somewhere is a claimed key.
LEMMA ClaimHasKey ==
  ASSUME NEW s, IsStore(s), NEW place, NEW p, ClaimsFile(s, place, p)
  PROVE  Key[p] \in ClaimedKeys(s, FALSE)
<1>1. CASE place = "base"
  BY <1>1 DEF ClaimsFile, Claims, Section, ClaimedKeys, IsDir
<1>2. CASE place # "base"
  BY <1>2 DEF ClaimsFile, Claims, Section, OnDrive, NoMap, ClaimedKeys, IsDir
<1> QED
  BY <1>1, <1>2

\* What is taken from a disk is what some path names, and nothing else changes.
LEMMA WithoutFacts ==
  ASSUME NEW d, NEW S
  PROVE  /\ DOMAIN Without(d, S) = DOMAIN d
         /\ \A place \in DOMAIN d :
              /\ DOMAIN Without(d, S)[place] \subseteq DOMAIN d[place]
              /\ \A k \in DOMAIN Without(d, S)[place] : Without(d, S)[place][k] = d[place][k]
              /\ \A k \in DOMAIN d[place] \ DOMAIN Without(d, S)[place] :
                   \E u \in S : u[1] = place /\ KeyAt(u[1], u[2]) = k
BY DEF Without, Less, Restrict

\* No file that is removed is claimed by a store when the run is over.
LEMMA UnlinkedIsFree ==
  ASSUME IndexInv, ~NoOwner, NEW d, "cased" \notin Defects(d), "unowned" \notin Defects(d),
         NEW q \in Removed, NEW db \in Dbs, NEW place, NEW p, Key[p] = Key[q],
         ClaimsFile(StoreAfter(db, d), place, p)
  PROVE  FALSE
<1> DEFINE freed == {r \in Freed : db \in Consumers(r)}
           kept == Forget(run.mem[db], freed)
<1>1. IsStore(run.mem[db])
  BY DEF IndexInv
<1>2. CASE ~Running(db)
  <2>1. ClaimsFile(run.mem[db], place, p)
    <3>1. ClaimsLess(Displace(run.mem[db]), run.mem[db])
      BY <1>1, DisplaceKeeps
    <3>2. StoreAfter(db, d) \in {Displace(run.mem[db]), run.mem[db]}
      BY <1>2 DEF StoreAfter, Running
    <3> QED
      BY <3>1, <3>2 DEF ClaimsLess
  <2>2. Key[q] \in ClaimedKeys(run.mem[db], FALSE)
    BY <1>1, <2>1, ClaimHasKey
  <2> QED
    BY <1>2, <2>2, RemovedIsDropped, ConsumerRuns
<1>3. CASE Running(db) /\ ClaimsFile(kept, place, p)
  <2>1. IsStore(kept) /\ ClaimsLess(kept, run.mem[db])
    BY <1>1, ForgetKeeps
  <2>2. Key[q] \in ClaimedKeys(run.mem[db], FALSE)
    BY <1>1, <1>3, <2>1, ClaimHasKey DEF ClaimsLess
  <2>3. PICK r \in Dropped(FALSE) : Key[r] = Key[q] /\ db \in Consumers(r)
    BY <2>2, RemovedIsDropped
  <2>4. Key[q] \in ClaimedKeys(kept, FALSE)
    BY <1>3, <2>1, ClaimHasKey
  <2>5. "cased" \in Defects(d)
    BY <2>3, <2>4 DEF Defects
  <2> QED
    BY <2>5
<1>4. CASE Running(db) /\ \E part \in DOMAIN Jobs(db) :
             <<db, part>> \in Checked /\ p \in Files(Jobs(db)[part].items)
  <2>1. PICK part \in DOMAIN Jobs(db) : <<db, part>> \in Checked /\ p \in Files(Jobs(db)[part].items)
    BY <1>4
  <2> DEFINE c == <<db, part>>
  <2>2. c \in Checked /\ Job(c) = Jobs(db)[part] /\ c[1] = db
    BY <2>1 DEF Job
  <2>3. p \in Job(c).new \cup Job(c).dup
    BY <2>1, <2>2 DEF IndexInv, IsJob
  <2> HIDE DEF c
  <2>4. p \notin Job(c).new
    BY <2>2, RemovedIsNotNew
  <2>5. p \in Removed \/ \E e \in Checked : p \in Job(e).new
    BY <2>2, <2>3, <2>4 DEF NoOwner
  <2>6. p \in Removed
    <3>1. \A e \in Checked : p \notin Job(e).new
      BY RemovedIsNotNew
    <3> QED
      BY <2>5, <3>1
  <2>7. "unowned" \in Defects(d)
    BY <2>2, <2>3, <2>4, <2>6 DEF Defects
  <2> QED
    BY <2>7
<1>5. Running(db) => ClaimsFile(Imported(db, d), place, p)
  BY DEF StoreAfter, Running
<1> HIDE DEF kept
<1> QED
  BY <1>2, <1>3, <1>4, <1>5, ImportedKeeps DEF kept

\* The importer removes no file that a store claims when the run is over.
LEMMA ApplyKeepsClaimed ==
  ASSUME WorldInv, IndexInv, Apply, run.pc = "index", run'.pc = "save",
         defects' \cap {"cased", "unowned"} = {},
         NEW place \in DOMAIN disk, NEW k \in DOMAIN disk[place] \ DOMAIN disk'[place],
         disk[place][k] # "dir",
         NEW db \in Dbs, NEW p, KeyAt(place, p) = k, ClaimsFile(run'.mem[db], place, p)
  PROVE  FALSE
<1>1. PICK kept \in {{}} \cup {{u} : u \in {v \in Unlinks : IsFileAt(v)}} :
        LET d == Without(disk, {u \in Unlinks \ kept : IsFileAt(u)})
        IN /\ Struck((IF kept = {} THEN {} ELSE {"kept"})
                        \cup IF NoOwner THEN {"unsaved"} ELSE Defects(d))
           /\ IF NoNetwork THEN run' = NoRun /\ UNCHANGED disk
              ELSE IF NoOwner THEN run' = NoRun /\ disk' = d
              ELSE /\ disk' = Without(d, RemovedFolders(d))
                   /\ run' = [pc |-> "save", failed |-> run.failed, done |-> {e \in Dbs : Running(e)},
                              mem |-> [e \in Dbs |-> StoreAfter(e, d)]]
  BY DEF Apply
<1> DEFINE gone == {u \in Unlinks \ kept : IsFileAt(u)}
           d == Without(disk, gone)
<1>2. ~NoNetwork /\ ~NoOwner
  BY <1>1 DEF NoRun
<1>3. /\ disk' = Without(d, RemovedFolders(d)) /\ run'.mem[db] = StoreAfter(db, d)
      /\ Defects(d) \subseteq defects'
  BY <1>1, <1>2 DEF Struck
<1>4. "cased" \notin Defects(d) /\ "unowned" \notin Defects(d)
  BY <1>3
<1>5. /\ DOMAIN d = DOMAIN disk
      /\ k \notin DOMAIN d[place] => \E u \in gone : u[1] = place /\ KeyAt(u[1], u[2]) = k
      /\ k \in DOMAIN d[place] => d[place][k] = disk[place][k]
  <2> HIDE DEF gone
  <2> QED
    BY WithoutFacts
<1> HIDE DEF d
<1>6. k \notin DOMAIN d[place]
  <2> SUFFICES ASSUME k \in DOMAIN d[place]
               PROVE  FALSE
    OBVIOUS
  <2>1. PICK u \in RemovedFolders(d) : u[1] = place /\ KeyAt(u[1], u[2]) = k
    BY <1>3, <1>5, WithoutFacts
  <2>2. IsFolderAt(d, u)
    BY <2>1 DEF RemovedFolders
  <2> QED
    BY <1>5, <2>1, <2>2 DEF IsFolderAt
<1>7. PICK u \in gone : u[1] = place /\ KeyAt(u[1], u[2]) = k
  BY <1>5, <1>6
<1>8. PICK q \in Removed : u[2] = q
  BY <1>7 DEF Unlinks
<1>9. Key[p] = Key[q]
  BY <1>7, <1>8 DEF KeyAt
<1> QED
  BY <1>2, <1>3, <1>4, <1>8, <1>9, UnlinkedIsFree

-----------------------------------------------------------------------------
(* 7. Each step keeps the invariant *)

\* What a database publishes is an index, and so is each of its archives.
LEMMA PublishedIndex ==
  ASSUME WorldInv, NEW db \in Dbs
  PROVE  /\ IsIndex(Published(db).items)
         /\ \A z \in DOMAIN Published(db).zips : IsIndex(Published(db).zips[z].items)
<1>1. edition[db] \in DOMAIN world.editions[db] /\ world \in Worlds /\ db \in DOMAIN world.editions
  BY DEF WorldInv, Dbs
<1> QED
  BY <1>1, ImportAssumption DEF Published

\* A part of a store that is loaded is a store.
LEMMA LoadedIsStore ==
  ASSUME WorldInv, NEW db \in Dbs
  PROVE  IsStore(Loaded(db))
<1> DEFINE s == saved[db]
           t == Loaded(db)
           S == DOMAIN s.ext \cap setup.drives
<1>1. IsStore(s)
  BY DEF WorldInv
<1>2. t = [s EXCEPT !.ext = Restrict(@, DOMAIN @ \cap setup.drives)]
  BY DEF Loaded
<1> HIDE DEF s, t
<1>3. /\ DOMAIN t = StoreFields /\ t.filtered = s.filtered /\ t.base = s.base
      /\ t.ext = [d \in S |-> s.ext[d]]
  BY <1>1, <1>2 DEF IsStore, StoreFields, Restrict
<1>4. IsStore(t)
  BY <1>1, <1>3, Sections
<1> QED
  BY <1>4 DEF t

\* A job with nothing in it.
LEMMA NoJobIsJob ==
  /\ DOMAIN NoJob = JobFields /\ IsJob(NoJob)
  /\ IsJob([NoJob EXCEPT !.st = "failed"])
  /\ IsJob([NoJob EXCEPT !.st = "failed", !.full = TRUE])
<1>1. DOMAIN NoJob = JobFields
  BY DEF NoJob, JobFields
<1>2. ASSUME NEW j, DOMAIN j = JobFields, j.items = NoMap, j.left = NoMap, j.new = {}, j.dup = {},
             j.need = {}, j.got = {}, j.present = {}
      PROVE  IsJob(j)
  <2>1. Files(NoMap) = {}
    BY DEF Files, NoMap
  <2> QED
    BY <1>2, <2>1, Empties DEF IsJob, Installed
<1>3. IsJob(NoJob)
  <2>1. /\ NoJob.items = NoMap /\ NoJob.left = NoMap /\ NoJob.new = {} /\ NoJob.dup = {}
        /\ NoJob.need = {} /\ NoJob.got = {} /\ NoJob.present = {}
    BY DEF NoJob
  <2> QED
    BY <1>1, <1>2, <2>1
<1>4. IsJob([NoJob EXCEPT !.st = "failed"])
  <2> DEFINE j == [NoJob EXCEPT !.st = "failed"]
  <2>1. /\ DOMAIN j = JobFields
        /\ j.items = NoMap /\ j.left = NoMap /\ j.new = {} /\ j.dup = {}
        /\ j.need = {} /\ j.got = {} /\ j.present = {}
    BY DEF NoJob, JobFields
  <2> HIDE DEF j
  <2>2. IsJob(j)
    BY <1>2, <2>1
  <2> QED
    BY <2>2 DEF j
<1>5. IsJob([NoJob EXCEPT !.st = "failed", !.full = TRUE])
  <2> DEFINE j == [NoJob EXCEPT !.st = "failed", !.full = TRUE]
  <2>1. /\ DOMAIN j = JobFields
        /\ j.items = NoMap /\ j.left = NoMap /\ j.new = {} /\ j.dup = {}
        /\ j.need = {} /\ j.got = {} /\ j.present = {}
    BY DEF NoJob, JobFields
  <2> HIDE DEF j
  <2>2. IsJob(j)
    BY <1>2, <2>1
  <2> QED
    BY <2>2 DEF j
<1> QED
  BY <1>1, <1>3, <1>4, <1>5

\* A step of one index job.
LEMMA SetJobKeeps ==
  ASSUME IndexInv, NEW db \in Dbs, NEW part \in DOMAIN Jobs(db), NEW j, IsJob(j),
         UNCHANGED <<world, edition>>,
         DOMAIN run' = RunFields, run'.mem = run.mem, run'.db = run.db,
         run'.jobs = [run.jobs EXCEPT ![db] = Put(@, part, j)],
         \A place \in DOMAIN run'.room : run'.room[place] \in Nat \ {0}
  PROVE  IndexInv'
<1>1. Dbs' = Dbs /\ \A e \in Dbs : Parts(e)' = Parts(e)
  BY DEF Dbs, Parts, Published
<1>2. DOMAIN run'.jobs = Dbs /\ DOMAIN run'.mem = Dbs /\ DOMAIN run'.db = Dbs
  BY DEF IndexInv
<1>3. \A e \in Dbs : IsStore(run'.mem[e])
  BY DEF IndexInv
<1>4. ASSUME NEW e \in Dbs, NEW q \in DOMAIN run'.jobs[e]
      PROVE  run'.db[e] = "run" /\ q \in Parts(e) /\ IsJob(run'.jobs[e][q])
  <2>1. CASE e # db
    <3>1. run'.jobs[e] = Jobs(e)
      BY <2>1 DEF IndexInv, Jobs
    <3> QED
      BY <1>4, <3>1 DEF IndexInv, Running
  <2>2. CASE e = db
    <3>1. run'.jobs[e] = Put(Jobs(db), part, j)
      BY <2>2 DEF IndexInv, Jobs
    <3>2. q \in DOMAIN Jobs(db) /\ (q = part => run'.jobs[e][q] = j)
             /\ (q # part => run'.jobs[e][q] = Jobs(db)[q])
      BY <1>4, <3>1 DEF Put, Over
    <3> QED
      BY <2>2, <3>2 DEF IndexInv, Running
  <2> QED
    BY <2>1, <2>2
<1> QED
  BY <1>1, <1>2, <1>3, <1>4 DEF IndexInv, Jobs, Running

\* The start of a run.
LEMMA BeginKeeps ==
  ASSUME ImportInv, Begin
  PROVE  ImportInv'
<1> DEFINE r == [pc |-> "index", mode |-> ModeOf(setup.options.checking), folders |-> DrivesWithFolder,
                 mem |-> [db \in Dbs |-> Loaded(db)],
                 db |-> [db \in Dbs |-> IF db \in setup.ini THEN "open" ELSE "none"],
                 claimed |-> {}, room |-> world.room, failed |-> FALSE,
                 jobs |-> [db \in Dbs |-> NoMap]]
<1>1. run' = r
  BY DEF Begin
<1>2. /\ DOMAIN r = RunFields /\ r.pc = "index" /\ r.room = world.room
      /\ r.mem = [db \in Dbs |-> Loaded(db)]
      /\ r.db = [db \in Dbs |-> IF db \in setup.ini THEN "open" ELSE "none"]
      /\ r.jobs = [db \in Dbs |-> NoMap]
  BY DEF RunFields
<1> HIDE DEF r
<1>3. WorldInv' /\ Dbs' = Dbs
  BY DEF Begin, ImportInv, WorldInv, Setups, Dbs
<1>4. IndexInv'
  <2>1. \A db \in Dbs : IsStore(run'.mem[db])
    BY <1>1, <1>2, LoadedIsStore DEF ImportInv
  <2>2. \A db \in Dbs : DOMAIN run'.jobs[db] = {}
    BY <1>1, <1>2 DEF NoMap
  <2>3. \A place \in DOMAIN world.room : world.room[place] \in Nat \ {0}
    BY ImportAssumption DEF ImportInv, WorldInv
  <2> QED
    BY <1>1, <1>2, <1>3, <2>1, <2>2, <2>3 DEF IndexInv, Jobs
<1> QED
  BY <1>1, <1>2, <1>3, <1>4 DEF ImportInv, RunInv

\* A database is skipped, opened, or cannot be had.
LEMMA OpenKeeps ==
  ASSUME ImportInv, NEW db \in Dbs, Open(db)
  PROVE  ImportInv'
<1>1. IndexInv /\ run.db[db] = "open" /\ run.pc = "index"
  BY DEF Open, ImportInv, RunInv
<1>2. DOMAIN Jobs(db) = {}
  BY <1>1 DEF IndexInv, Running
<1>3. WorldInv' /\ Dbs' = Dbs /\ \A e \in Dbs : Parts(e)' = Parts(e)
  BY DEF Open, ImportInv, WorldInv, Setups, Dbs, Parts, Published
<1>4. ASSUME NEW new, NEW failed,
             \/ run' = [run EXCEPT !.db[db] = new]
             \/ run' = [run EXCEPT !.db[db] = new, !.failed = failed]
      PROVE  ImportInv'
  <2>1. /\ DOMAIN run' = RunFields /\ run'.pc = "index" /\ run'.mem = run.mem
        /\ run'.db = [run.db EXCEPT ![db] = new] /\ run'.jobs = run.jobs /\ run'.room = run.room
    BY <1>1, <1>4 DEF IndexInv, RunFields
  <2>2. IndexInv'
    BY <1>1, <1>2, <1>3, <2>1 DEF IndexInv, Jobs, Running
  <2> QED
    BY <1>3, <2>1, <2>2 DEF ImportInv, RunInv
<1>5. ASSUME run' = [run EXCEPT !.db[db] = "run", !.jobs[db] = [part \in Parts(db) |-> NoJob]]
      PROVE  ImportInv'
  <2> DEFINE jobs == [part \in Parts(db) |-> NoJob]
  <2>1. DOMAIN jobs = Parts(db) /\ \A part \in Parts(db) : IsJob(jobs[part])
    BY NoJobIsJob
  <2>2. run' = [run EXCEPT !.db[db] = "run", !.jobs[db] = jobs]
    BY <1>5
  <2> HIDE DEF jobs
  <2>3. /\ DOMAIN run' = RunFields /\ run'.pc = "index" /\ run'.mem = run.mem
        /\ run'.db = [run.db EXCEPT ![db] = "run"]
        /\ run'.jobs = [run.jobs EXCEPT ![db] = jobs] /\ run'.room = run.room
    BY <1>1, <2>2 DEF IndexInv, RunFields
  <2>4. IndexInv'
    <3>1. ASSUME NEW e \in Dbs, NEW part \in DOMAIN run'.jobs[e]
          PROVE  run'.db[e] = "run" /\ part \in Parts(e) /\ IsJob(run'.jobs[e][part])
      <4>1. CASE e = db
        BY <1>1, <2>1, <2>3, <3>1, <4>1 DEF IndexInv
      <4>2. CASE e # db
        BY <1>1, <2>3, <3>1, <4>2 DEF IndexInv, Jobs, Running
      <4> QED
        BY <4>1, <4>2
    <3> QED
      BY <1>1, <1>3, <2>3, <3>1 DEF IndexInv, Jobs, Running
  <2> QED
    BY <1>3, <2>3, <2>4 DEF ImportInv, RunInv
<1>6. CASE /\ failures < MaxFailures /\ failures' = failures + 1
           /\ \E lost \in BOOLEAN :
                run' = [run EXCEPT !.db[db] = IF lost THEN "lost" ELSE "failed", !.failed = @ \/ lost]
           /\ UNCHANGED defects
  <2>1. PICK lost \in BOOLEAN :
          run' = [run EXCEPT !.db[db] = IF lost THEN "lost" ELSE "failed", !.failed = @ \/ lost]
    BY <1>6
  <2> DEFINE new == IF lost THEN "lost" ELSE "failed"
             failed == run.failed \/ lost
  <2>2. run' = [run EXCEPT !.db[db] = new, !.failed = failed]
    BY <2>1
  <2> HIDE DEF new, failed
  <2> QED
    BY <1>4, <2>2
<1>7. CASE CanSkip(db) /\ run' = [run EXCEPT !.db[db] = "skipped"]
  BY <1>4, <1>7
<1> QED
  BY <1>5, <1>6, <1>7 DEF Open

\* An index is had and its files are claimed.
LEMMA ClaimKeeps ==
  ASSUME ImportInv, NEW db \in Dbs, NEW part \in DOMAIN Jobs(db), Claim(db, part)
  PROVE  ImportInv'
<1>1. IndexInv /\ WorldInv /\ run.pc = "index"
  BY DEF Claim, ImportInv, RunInv
<1>2. WorldInv' /\ UNCHANGED <<world, edition>>
  BY DEF Claim, ImportInv, WorldInv, Setups, Dbs
<1>3. PICK index \in IndexOf(db, part) :
        LET left == FilteredPaths(Terms, index.items)
            items == Less(index.items, left)
            failed == BadFilter(Terms) \/ (index.fails > 0 /\ index.items = NoMap)
            j == [NoJob EXCEPT !.st = "claimed", !.items = items, !.fresh = index.fresh,
                    !.left = Restrict(index.items, left),
                    !.new = Files(items) \ Taken(items), !.dup = Taken(items),
                    !.gone = Less(AllItems(StoredPart(db, part, index.items)), DOMAIN items)]
        IN run' = IF failed
                  THEN [SetJob(db, part, [NoJob EXCEPT !.st = "failed"])
                          EXCEPT !.failed = @ \/ index.fails > 0]
                  ELSE [SetJob(db, part, j) EXCEPT !.claimed = @ \cup Files(items),
                                                   !.failed = @ \/ index.fails > 0]
  BY DEF Claim
<1>4. IsIndex(index.items)
  <2>1. part \in Parts(db) /\ IsStore(run.mem[db])
    BY <1>1 DEF IndexInv
  <2>2. IsIndex(ZipSummary(run.mem[db], part))
    BY <2>1, SummaryIndex
  <2>3. CASE part = "main"
    BY <1>1, <2>3, PublishedIndex DEF IndexOf
  <2>4. CASE part # "main"
    <3>1. IsIndex(Published(db).zips[part].items)
      BY <1>1, <2>1, <2>4, PublishedIndex DEF Parts
    <3>2. index.items \in {ZipSummary(run.mem[db], part), Published(db).zips[part].items}
      BY <2>4 DEF IndexOf
    <3> QED
      BY <2>2, <3>1, <3>2
  <2> QED
    BY <2>3, <2>4
<1> DEFINE left == FilteredPaths(Terms, index.items)
           items == Less(index.items, left)
           out == Restrict(index.items, left)
           gone == Less(AllItems(StoredPart(db, part, index.items)), DOMAIN items)
           new == Files(items) \ Taken(items)
           j == [NoJob EXCEPT !.st = "claimed", !.items = items, !.fresh = index.fresh,
                   !.left = out, !.new = new, !.dup = Taken(items), !.gone = gone]
<1>5. left \subseteq DOMAIN index.items
  BY DEF FilteredPaths
<1> HIDE DEF left
<1>6. IsIndex(items) /\ IsIndex(out)
  BY <1>4, <1>5 DEF IsIndex, Less, Restrict
<1>7. new \cup Taken(items) = Files(items)
  BY DEF Taken
<1> HIDE DEF items, out, gone, new
<1>8. IsJob(j)
  <2>1. /\ DOMAIN j = JobFields /\ j.items = items /\ j.left = out
        /\ j.new = new /\ j.dup = Taken(items) /\ j.need = {} /\ j.got = {} /\ j.present = {}
    BY DEF NoJob, JobFields
  <2> HIDE DEF j
  <2> QED
    BY <1>6, <1>7, <2>1 DEF IsJob, Installed
<1>9. IsJob([NoJob EXCEPT !.st = "failed"])
  BY NoJobIsJob
<1>10. \E k : \E claimed : \E failed :
         IsJob(k) /\ run' \in {[SetJob(db, part, k) EXCEPT !.failed = failed],
                               [SetJob(db, part, k) EXCEPT !.claimed = claimed, !.failed = failed]}
  <2> DEFINE bad == BadFilter(Terms) \/ (index.fails > 0 /\ index.items = NoMap)
             nothing == [NoJob EXCEPT !.st = "failed"]
  <2>1. run' = IF bad
               THEN [SetJob(db, part, nothing) EXCEPT !.failed = @ \/ index.fails > 0]
               ELSE [SetJob(db, part, j) EXCEPT !.claimed = @ \cup Files(items),
                                                !.failed = @ \/ index.fails > 0]
    BY <1>3 DEF left, items, out, gone, new
  <2> HIDE DEF j, bad, nothing
  <2>2. CASE bad
    BY <1>9, <2>1, <2>2 DEF nothing
  <2>3. CASE ~bad
    BY <1>8, <2>1, <2>3
  <2> QED
    BY <2>2, <2>3
<1>11. PICK k : \E claimed : \E failed :
         IsJob(k) /\ run' \in {[SetJob(db, part, k) EXCEPT !.failed = failed],
                               [SetJob(db, part, k) EXCEPT !.claimed = claimed, !.failed = failed]}
  BY <1>10
<1>12. /\ DOMAIN run' = RunFields /\ run'.pc = "index" /\ run'.mem = run.mem /\ run'.db = run.db
       /\ run'.jobs = [run.jobs EXCEPT ![db] = Put(@, part, k)] /\ run'.room = run.room
  BY <1>1, <1>11 DEF SetJob, IndexInv, RunFields
<1>13. IndexInv'
  <2>1. IsJob(k) /\ \A place \in DOMAIN run'.room : run'.room[place] \in Nat \ {0}
    BY <1>1, <1>11, <1>12 DEF IndexInv
  <2> QED
    BY <1>1, <1>2, <1>12, <2>1, SetJobKeeps
<1> QED
  BY <1>2, <1>12, <1>13 DEF ImportInv, RunInv

\* A reservation that fits leaves something free.
LEMMA ReservedIsPositive ==
  ASSUME IndexInv, NEW j, IsJob(j), NEW need \in SUBSET j.new, Fits(j, need),
         NEW place \in DOMAIN run.room
  PROVE  Reserved(j, need)[place] \in Nat \ {0}
<1> DEFINE D == {p \in need : At(j, p) = place}
<1>1. IsFiniteSet(D)
  <2>1. D \subseteq DOMAIN Key
    BY DEF IsJob, IsIndex, Files
  <2> QED
    BY <2>1, ImportAssumption, FS_Subset
<1>2. Demand(j, need, place) \in Nat
  BY <1>1, FS_CardinalityType DEF Demand
<1>3. run.room[place] \in Nat \ {0}
  BY DEF IndexInv
<1>4. Demand(j, need, place) > 0 => run.room[place] > Demand(j, need, place)
  BY DEF Fits
<1>5. Reserved(j, need)[place] = run.room[place] - Demand(j, need, place)
  BY DEF Reserved
<1> QED
  BY <1>2, <1>3, <1>4, <1>5

\* The files of an index are checked, space is reserved, folders are made.
LEMMA CheckKeeps ==
  ASSUME ImportInv, NEW db \in Dbs, NEW part \in DOMAIN Jobs(db), Check(db, part)
  PROVE  ImportInv'
<1>1. IndexInv /\ WorldInv /\ run.pc = "index" /\ UNCHANGED <<world, edition>>
  BY DEF Check, ImportInv, RunInv
<1> DEFINE j == Jobs(db)[part]
           need == Need(db, j)
           present == Same(j, Unsure(db, j))
           checked == [j EXCEPT !.st = "checked", !.need = need, !.present = present,
                                !.repeated = Repeated(db, j, need \cup present)]
           made == [place \in DOMAIN disk |-> Over([p \in Made(j, place) |-> "dir"], disk[place])]
<1>2. IsJob(j)
  BY <1>1 DEF IndexInv
<1>3. need \subseteq j.new /\ present \subseteq j.new
  BY DEF Need, Missing, Changed, Corrupt, Same, Unsure
<1>4. IsJob(checked)
  <2> DEFINE repeated == Repeated(db, j, need \cup present)
             k == [j EXCEPT !.st = "checked", !.need = need, !.present = present, !.repeated = repeated]
  <2> HIDE DEF j, need, present, repeated
  <2>1. /\ DOMAIN k = JobFields /\ k.items = j.items /\ k.left = j.left /\ k.new = j.new
        /\ k.dup = j.dup /\ k.need = need /\ k.got = j.got /\ k.present = present
    BY <1>2 DEF IsJob, JobFields
  <2> HIDE DEF k
  <2>2. IsJob(k)
    BY <1>2, <1>3, <2>1 DEF IsJob, Installed
  <2> QED
    BY <2>2 DEF k, repeated
<1>5. IsJob([NoJob EXCEPT !.st = "failed"]) /\ IsJob([NoJob EXCEPT !.st = "failed", !.full = TRUE])
  BY NoJobIsJob
<1>6. \/ Fits(j, need) /\ run' = [SetJob(db, part, checked) EXCEPT !.room = Reserved(j, need)] /\ disk' = made
      \/ run' = [SetJob(db, part, [NoJob EXCEPT !.st = "failed", !.full = TRUE]) EXCEPT !.failed = TRUE]
         /\ UNCHANGED disk
      \/ Fits(j, need) /\ UNCHANGED disk
         /\ run' = [SetJob(db, part, [NoJob EXCEPT !.st = "failed"]) EXCEPT !.room = Reserved(j, need)]
  BY DEF Check
<1>7. WorldInv'
  <2>1. /\ DOMAIN disk' = DOMAIN disk
        /\ \A place \in DOMAIN disk : DOMAIN disk'[place] \subseteq DOMAIN disk[place] \cup DOMAIN Key
    <3>1. \A place : Made(j, place) \subseteq DOMAIN Key
      BY <1>2 DEF Made, Folders, IsJob, IsIndex
    <3>2. DOMAIN made = DOMAIN disk /\ \A place \in DOMAIN disk :
            DOMAIN made[place] = Made(j, place) \cup DOMAIN disk[place]
      BY DEF Over
    <3> HIDE DEF made, j, need, checked
    <3> QED
      BY <1>6, <3>1, <3>2
  <2>2. world' = world /\ setup' = setup /\ trust' = trust /\ edition' = edition /\ saved' = saved
    BY DEF Check
  <2>3. Setups' = Setups /\ Dbs' = Dbs
    BY <2>2 DEF Setups, Dbs
  <2> QED
    BY <1>1, <2>1, <2>2, <2>3 DEF WorldInv
<1>8. ASSUME NEW k, IsJob(k), NEW r, \A place \in DOMAIN r : r[place] \in Nat \ {0},
             \/ run' = [SetJob(db, part, k) EXCEPT !.room = r]
             \/ run' = [SetJob(db, part, k) EXCEPT !.failed = TRUE]
      PROVE  ImportInv'
  <2>1. /\ DOMAIN run' = RunFields /\ run'.pc = "index" /\ run'.mem = run.mem /\ run'.db = run.db
        /\ run'.jobs = [run.jobs EXCEPT ![db] = Put(@, part, k)] /\ run'.room \in {r, run.room}
    BY <1>1, <1>8 DEF SetJob, IndexInv, RunFields
  <2>2. \A place \in DOMAIN run'.room : run'.room[place] \in Nat \ {0}
    BY <1>1, <1>8, <2>1 DEF IndexInv
  <2>3. IndexInv'
    BY <1>1, <1>8, <2>1, <2>2, SetJobKeeps
  <2> QED
    BY <1>7, <2>1, <2>3 DEF ImportInv, RunInv
<1>9. Fits(j, need) => \A place \in DOMAIN Reserved(j, need) : Reserved(j, need)[place] \in Nat \ {0}
  <2>1. DOMAIN Reserved(j, need) = DOMAIN run.room
    BY DEF Reserved
  <2> HIDE DEF j, need
  <2> QED
    BY <1>1, <1>2, <1>3, <2>1, ReservedIsPositive
<1>10. \A place \in DOMAIN run.room : run.room[place] \in Nat \ {0}
  BY <1>1 DEF IndexInv
<1> HIDE DEF j, need, checked, made
<1> QED
  BY <1>4, <1>5, <1>6, <1>8, <1>9, <1>10

\* A file is fetched, or cannot be.
LEMMA FetchKeeps ==
  ASSUME ImportInv, NEW db \in Dbs, NEW part \in DOMAIN Jobs(db), NEW p \in Jobs(db)[part].need,
         Fetch(db, part, p)
  PROVE  ImportInv'
<1>1. IndexInv /\ WorldInv /\ run.pc = "index" /\ UNCHANGED <<world, edition>>
  BY DEF Fetch, ImportInv, RunInv
<1> DEFINE j == Jobs(db)[part]
           place == At(j, p)
           got == [j EXCEPT !.need = @ \ {p}, !.got = @ \cup {p}]
           bad == [j EXCEPT !.need = @ \ {p}, !.bad = @ \cup {p}]
           written == [disk EXCEPT ![place] = Put(@, KeyAt(place, p), j.items[p].hash)]
<1>2. IsJob(j) /\ p \in j.need
  BY <1>1 DEF IndexInv
<1>3. IsJob(got) /\ IsJob(bad)
  <2> HIDE DEF j
  <2>1. /\ DOMAIN got = JobFields /\ got.items = j.items /\ got.left = j.left /\ got.new = j.new
        /\ got.dup = j.dup /\ got.need = j.need \ {p} /\ got.got = j.got \cup {p}
        /\ got.present = j.present
    BY <1>2 DEF IsJob, JobFields
  <2>2. /\ DOMAIN bad = JobFields /\ bad.items = j.items /\ bad.left = j.left /\ bad.new = j.new
        /\ bad.dup = j.dup /\ bad.need = j.need \ {p} /\ bad.got = j.got
        /\ bad.present = j.present
    BY <1>2 DEF IsJob, JobFields
  <2> HIDE DEF got, bad
  <2> QED
    BY <1>2, <2>1, <2>2 DEF IsJob, Installed
<1>4. \/ disk' = written /\ run' = SetJob(db, part, got)
      \/ UNCHANGED disk /\ run' = [SetJob(db, part, bad) EXCEPT !.failed = TRUE]
  BY DEF Fetch
<1>5. WorldInv'
  <2>1. KeyAt(place, p) \in Range(Key) \cup DOMAIN Key
    <3>1. p \in DOMAIN Key
      BY <1>2 DEF IsJob, IsIndex, Files
    <3> QED
      BY <3>1 DEF KeyAt, Range
  <2>2. /\ DOMAIN disk' = DOMAIN disk
        /\ \A q \in DOMAIN disk : DOMAIN disk'[q] \subseteq DOMAIN disk[q] \cup {KeyAt(place, p)}
    <3> DEFINE key == KeyAt(place, p)
               hash == j.items[p].hash
    <3>1. disk' \in {disk, [disk EXCEPT ![place] = Put(disk[place], key, hash)]}
      BY <1>4
    <3> HIDE DEF key, hash, place
    <3>2. DOMAIN Put(disk[place], key, hash) = DOMAIN disk[place] \cup {key}
      BY PutFacts
    <3>3. \A q \in DOMAIN disk : DOMAIN disk'[q] \subseteq DOMAIN disk[q] \cup {key}
      BY <3>1, <3>2
    <3> QED
      BY <3>1, <3>3 DEF key
  <2>3. world' = world /\ setup' = setup /\ trust' = trust /\ edition' = edition /\ saved' = saved
    BY DEF Fetch
  <2>4. Setups' = Setups /\ Dbs' = Dbs
    BY <2>3 DEF Setups, Dbs
  <2> HIDE DEF place
  <2> QED
    BY <1>1, <2>1, <2>2, <2>3, <2>4 DEF WorldInv
<1> HIDE DEF j, got, bad, written
<1>6. \E k : IsJob(k) /\ run' \in {SetJob(db, part, k), [SetJob(db, part, k) EXCEPT !.failed = TRUE]}
  BY <1>3, <1>4
<1>7. PICK k : IsJob(k) /\ run' \in {SetJob(db, part, k), [SetJob(db, part, k) EXCEPT !.failed = TRUE]}
  BY <1>6
<1>8. /\ DOMAIN run' = RunFields /\ run'.pc = "index" /\ run'.mem = run.mem /\ run'.db = run.db
      /\ run'.jobs = [run.jobs EXCEPT ![db] = Put(@, part, k)] /\ run'.room = run.room
  BY <1>1, <1>7 DEF SetJob, IndexInv, RunFields
<1>9. IndexInv'
  <2>1. \A q \in DOMAIN run'.room : run'.room[q] \in Nat \ {0}
    BY <1>1, <1>8 DEF IndexInv
  <2> QED
    BY <1>1, <1>7, <1>8, <2>1, SetJobKeeps
<1> QED
  BY <1>5, <1>8, <1>9 DEF ImportInv, RunInv

\* The importer makes the stores of the next run, and takes files from the disk.
LEMMA ApplyKeeps ==
  ASSUME ImportInv, Apply
  PROVE  ImportInv'
<1>1. IndexInv /\ WorldInv
  BY DEF Apply, ImportInv, RunInv
<1>2. /\ world' = world /\ setup' = setup /\ trust' = trust /\ edition' = edition /\ saved' = saved
      /\ Setups' = Setups /\ Dbs' = Dbs
  BY DEF Apply, Setups, Dbs
<1>3. PICK kept \in {{}} \cup {{u} : u \in {v \in Unlinks : IsFileAt(v)}} :
        LET d == Without(disk, {u \in Unlinks \ kept : IsFileAt(u)})
        IN IF NoNetwork THEN run' = NoRun /\ UNCHANGED disk
           ELSE IF NoOwner THEN run' = NoRun /\ disk' = d
           ELSE /\ disk' = Without(d, RemovedFolders(d))
                /\ run' = [pc |-> "save", failed |-> run.failed, done |-> {e \in Dbs : Running(e)},
                           mem |-> [e \in Dbs |-> StoreAfter(e, d)]]
  BY DEF Apply
<1> DEFINE gone == {u \in Unlinks \ kept : IsFileAt(u)}
           d == Without(disk, gone)
<1>4. /\ DOMAIN d = DOMAIN disk
      /\ \A place \in DOMAIN disk : DOMAIN d[place] \subseteq DOMAIN disk[place]
  <2> HIDE DEF gone
  <2> QED
    BY WithoutFacts
<1>5. disk' \in {disk, d, Without(d, RemovedFolders(d))}
  BY <1>3
<1>6. \/ run' = NoRun
      \/ run' = [pc |-> "save", failed |-> run.failed, done |-> {e \in Dbs : Running(e)},
                 mem |-> [e \in Dbs |-> StoreAfter(e, d)]]
  BY <1>3
<1> HIDE DEF d
<1>7. WorldInv'
  <2>1. /\ DOMAIN disk' = DOMAIN disk
        /\ \A place \in DOMAIN disk : DOMAIN disk'[place] \subseteq DOMAIN disk[place]
    BY <1>4, <1>5, WithoutFacts
  <2> QED
    BY <1>1, <1>2, <2>1 DEF WorldInv
<1>8. RunInv'
  BY <1>1, <1>2, <1>6, StoreAfterIsStore DEF RunInv, NoRun
<1> QED
  BY <1>7, <1>8 DEF ImportInv

\* The stores are saved, with the parts on drives that are away.
LEMMA SaveKeeps ==
  ASSUME ImportInv, Save
  PROVE  ImportInv'
<1>1. WorldInv /\ DOMAIN run.mem = Dbs /\ \A db \in Dbs : IsStore(run.mem[db])
  BY DEF Save, ImportInv, RunInv
<1>2. /\ world' = world /\ setup' = setup /\ trust' = trust /\ edition' = edition /\ disk' = disk
      /\ Setups' = Setups /\ Dbs' = Dbs
  BY DEF Save, Setups, Dbs
<1>3. ASSUME NEW db \in Dbs
      PROVE  IsStore(saved'[db])
  <2> DEFINE s == run.mem[db]
             old == Restrict(saved[db].ext, DOMAIN saved[db].ext \ setup.drives)
             t == saved'[db]
  <2>1. t = [s EXCEPT !.ext = Over(@, old)]
    BY DEF Save
  <2>2. DOMAIN old \subseteq DriveSet /\ \A d \in DOMAIN old : IsIndex(old[d])
    BY <1>1 DEF WorldInv, IsStore, Restrict
  <2>3. IsStore(s)
    BY <1>1
  <2> HIDE DEF s, old, t
  <2>4. /\ DOMAIN t = StoreFields /\ t.base = s.base /\ t.filtered = s.filtered
        /\ t.ext = Over(s.ext, old)
    BY <2>1, <2>3 DEF IsStore, StoreFields
  <2>5. DOMAIN t.ext = DOMAIN s.ext \cup DOMAIN old /\ \A d \in DOMAIN t.ext : IsIndex(t.ext[d])
    BY <2>2, <2>3, <2>4 DEF IsStore, Over
  <2>6. IsStore(t)
    BY <2>2, <2>3, <2>4, <2>5 DEF IsStore
  <2> QED
    BY <2>6 DEF t
<1>4. DOMAIN saved' = Dbs
  BY DEF Save
<1>5. RunInv'
  BY DEF Save, RunInv
<1> QED
  BY <1>1, <1>2, <1>3, <1>4, <1>5 DEF ImportInv, WorldInv

\* The end of a run, a kill, and what happens between two runs.
LEMMA RestKeeps ==
  ASSUME ImportInv, Remember \/ Crash \/ Change
  PROVE  ImportInv'
<1>1. CASE Remember
  <2>1. trust' \in BOOLEAN
    BY <1>1 DEF Remember, ImportInv, WorldInv
  <2> QED
    BY <1>1, <2>1 DEF Remember, ImportInv, WorldInv, RunInv, NoRun, Setups, Dbs
<1>2. CASE Crash
  BY <1>2 DEF Crash, ImportInv, WorldInv, RunInv, NoRun, Setups, Dbs
<1>3. CASE Change
  <2>1. RunInv' /\ Dbs' = Dbs /\ Setups' = Setups
    BY <1>3 DEF Change, ImportInv, RunInv, Setups, Dbs
  <2>2. edition' \in [Dbs -> Nat] /\ \A db \in Dbs : edition'[db] \in DOMAIN world.editions[db]
    <3>1. CASE UNCHANGED edition
      BY <3>1 DEF ImportInv, WorldInv
    <3>2. CASE \E db \in Dbs : /\ edition[db] < Len(world.editions[db])
                               /\ edition' = [edition EXCEPT ![db] = @ + 1]
      <4>1. PICK db \in Dbs : /\ edition[db] < Len(world.editions[db])
                              /\ edition' = [edition EXCEPT ![db] = @ + 1]
        BY <3>2
      <4>2. world.editions[db] \in Seq(Range(world.editions[db]))
        BY ImportAssumption DEF ImportInv, WorldInv, Dbs
      <4>3. DOMAIN world.editions[db] = 1..Len(world.editions[db]) /\ Len(world.editions[db]) \in Nat
        BY <4>2
      <4> QED
        BY <4>1, <4>3 DEF ImportInv, WorldInv
    <3> QED
      BY <1>3, <3>1, <3>2 DEF Change
  <2>3. setup' \in Setups /\ trust' \in BOOLEAN
    BY <1>3 DEF Change, ImportInv, WorldInv
  <2> QED
    BY <1>3, <2>1, <2>2, <2>3 DEF Change, ImportInv, WorldInv
<1> QED
  BY <1>1, <1>2, <1>3

-----------------------------------------------------------------------------
(* 8. The theorems *)

\* The invariant holds at the start.
LEMMA InitHolds ==
  ASSUME Init
  PROVE  ImportInv
<1>1. world \in Worlds /\ setup \in Setups
  BY DEF Init
<1>2. \A db \in Dbs : world.editions[db] \in Seq(Range(world.editions[db])) /\ world.editions[db] # <<>>
  BY <1>1, ImportAssumption DEF Dbs
<1>3. edition \in [Dbs -> Nat] /\ \A db \in Dbs : edition[db] \in DOMAIN world.editions[db]
  <2>1. edition = [db \in Dbs |-> 1]
    BY DEF Init
  <2>2. \A db \in Dbs : 1 \in DOMAIN world.editions[db]
    BY <1>2
  <2> QED
    BY <2>1, <2>2
<1>4. DOMAIN saved = Dbs /\ \A db \in Dbs : IsStore(saved[db])
  BY Empties DEF Init
<1>5. RunInv
  BY DEF Init, RunInv, NoRun
<1> QED
  BY <1>1, <1>3, <1>4, <1>5, ImportAssumption DEF Init, ImportInv, WorldInv

\* And each step keeps it.
LEMMA NextKeeps ==
  ASSUME ImportInv, [Next]_vars
  PROVE  ImportInv'
<1>1. CASE Work
  <2>1. CASE Begin \/ Apply \/ Save
    BY <2>1, BeginKeeps, ApplyKeeps, SaveKeeps
  <2>2. CASE Remember
    BY <2>2, RestKeeps
  <2>3. CASE run.pc = "index" /\ \E db \in Dbs : Step(db)
    <3>1. PICK db \in Dbs : Step(db)
      BY <2>3
    <3> QED
      BY <3>1, OpenKeeps, ClaimKeeps, CheckKeeps, FetchKeeps DEF Step
  <2> QED
    BY <1>1, <2>1, <2>2, <2>3 DEF Work
<1>2. CASE Crash \/ Change
  BY <1>2, RestKeeps
<1>3. CASE UNCHANGED vars
  BY <1>3 DEF vars, ImportInv, WorldInv, RunInv, IndexInv, Setups, Dbs, Jobs, Running, Parts, Published
<1> QED
  BY <1>1, <1>2, <1>3 DEF Next

\* The stores, the disk and the index jobs of a run have only the paths of the
\* scenario, each file of an index is new or a duplicate, and no reservation takes
\* the last free unit of a partition (free_space_reservation.py).
THEOREM ImportTyped == Spec => []ImportTypeOK
<1>1. ImportInv => ImportTypeOK
  BY DEF ImportInv, WorldInv, RunInv, IndexInv, ImportTypeOK
<1> QED
  BY <1>1, InitHolds, NextKeeps, PTL DEF Spec

\* For all scenarios: the importer never removes a file that a store claims when
\* the run is over, the two known defects aside (online_importer.py).
THEOREM ClaimedIsKept == Spec => ClaimedKept
<1> DEFINE A == run.pc = "index" /\ run'.pc = "save" /\ defects' \cap {"cased", "unowned"} = {} =>
                  \A place \in DOMAIN disk : \A k \in DOMAIN disk[place] \ DOMAIN disk'[place] :
                    disk[place][k] # "dir" =>
                      ~\E db \in Dbs, p \in DOMAIN Key :
                         KeyAt(place, p) = k /\ ClaimsFile(run'.mem[db], place, p)
<1>1. ImportInv /\ [Next]_vars => [A]_vars
  <2> SUFFICES ASSUME ImportInv, [Next]_vars, run.pc = "index", run'.pc = "save",
                      defects' \cap {"cased", "unowned"} = {},
                      NEW place \in DOMAIN disk, NEW k \in DOMAIN disk[place] \ DOMAIN disk'[place],
                      disk[place][k] # "dir", NEW db \in Dbs, NEW p \in DOMAIN Key,
                      KeyAt(place, p) = k, ClaimsFile(run'.mem[db], place, p)
               PROVE  FALSE
    OBVIOUS
  <2>1. WorldInv /\ IndexInv
    BY DEF ImportInv, RunInv
  <2>2. CASE Apply
    BY <2>1, <2>2, ApplyKeepsClaimed
  <2>3. CASE \E e \in Dbs : Step(e)
    <3>1. PICK e \in Dbs : Step(e)
      BY <2>3
    <3>2. Open(e) \/ \E part \in DOMAIN Jobs(e) :
                       Claim(e, part) \/ Check(e, part) \/ \E q \in Jobs(e)[part].need : Fetch(e, part, q)
      BY <3>1 DEF Step
    <3>3. run'.pc = run.pc
      BY <2>1, <3>2, ZenonT(40) DEF Open, Claim, Check, Fetch, SetJob, IndexInv, RunFields
    <3> QED
      BY <3>3
  <2>4. CASE Begin \/ Save \/ Remember \/ Crash \/ Change
    BY <2>4 DEF Begin, Save, Remember, Crash, Change, NoRun
  <2>5. CASE UNCHANGED vars
    BY <2>5 DEF vars
  <2> QED
    BY <2>2, <2>3, <2>4, <2>5 DEF Next, Work
<1>2. ClaimedKept <=> [][A]_vars
  BY DEF ClaimedKept
<1> HIDE DEF A
<1> QED
  BY <1>1, <1>2, InitHolds, NextKeeps, PTL DEF Spec

=============================================================================
