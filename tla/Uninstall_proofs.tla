-------------------------- MODULE Uninstall_proofs --------------------------
(***************************************************************************)
(* Proofs about Uninstall, for any databases, drives, drop-in files and    *)
(* numbers of failures: what other databases claim is never removed, a     *)
(* database that comes back has been announced, an uninstall that ends     *)
(* well has left nothing, and a database that an update skips, or that a   *)
(* check finds up to date, has all its files.                              *)
(*                                                                         *)
(* The inductive invariant says which phases a session goes through, what  *)
(* the claims of the start have to do with the stores it has loaded, and   *)
(* what is left of the sections it removes.  For what an uninstall leaves  *)
(* it goes on with the drives (5): the main store expects as many          *)
(* fragments of a database as there are drives with one, so that when all  *)
(* that it expects are at hand, no drive that is away has any, since a bag *)
(* within another that is no larger is all of it.                          *)
(*                                                                         *)
(* For what is skipped (7 to 11): a fingerprint of the main store accounts *)
(* for every file of its edition, which is in a place that is always there *)
(* or in the fragment of a drive that it expects, and what the stores of   *)
(* the drives list of such a database is there.  Thus a database whose     *)
(* fragments are all at hand has its files.  That the fingerprints stay    *)
(* true while a session is cut short between two of its writes needs the   *)
(* same of the stores in memory, of those that are half saved and of the   *)
(* claims of the main store; it is shown of the states that none of the    *)
(* unfounded defects has struck.                                           *)
(***************************************************************************)
EXTENDS Uninstall, SequenceTheorems, FunctionTheorems, FiniteSetTheorems, WellFoundedInduction,
        TLAPS

-----------------------------------------------------------------------------
(* 1. The inductive invariant *)

UpdatePcs == {"import", "prints", "main", "table", "drives", "free"} \cup DriveSet
UninstallPcs == {"remove", "prints", "main", "table", "drives", "config"} \cup DriveSet
UninstallFields ==
  {"kind", "pc", "force", "refused", "process", "mem", "was", "claims", "ini", "todo", "gone",
   "broken", "failed", "done", "warned", "cleaned", "left"}

\* An update never removes and never cleans; an uninstall never imports.
RunInv ==
  \/ run = Idle
  \/ {"kind", "pc"} \subseteq DOMAIN run /\ run.kind = "update" /\ run.pc \in UpdatePcs
  \/ DOMAIN run = UninstallFields /\ run.kind = "uninstall" /\ run.pc \in UninstallPcs

FilesInv == files = [place \in Places |-> files[place]]

\* An ini that the updater accepts.
Accepted(i) ==
  /\ i \in [ToSet(IniFiles) -> Seq(Dbs)]
  /\ \A f \in ToSet(DropIns) : DefaultDb \notin ToSet(i[f])
IniInv == Accepted(ini) /\ (Uninstalling => Accepted(run.ini))

\* While files are removed: what was claimed at the start is in the stores that were
\* loaded, but for drives that were away; or these are empty, and nothing is removed.
RemoveInv ==
  Uninstalling /\ run.pc = "remove" =>
    /\ ini = run.ini
    /\ \A c \in run.claims :
         c[1] \in Known(run.was) \ run.process /\ c[2] \in {"base"} \cup plugged =>
           run.todo = {} \/ (c[1] \in DOMAIN run.was.dbs /\ c[3] \in Recorded(run.was, c[1]))

\* After that, as long as nothing fails: the sections of those that are done are gone,
\* and the base ini that became empty was announced, and so was a default database
\* that has no section.
CleanInv ==
  Uninstalling /\ run.pc # "remove" /\ run.cleaned /\ run.failed = {} /\ "twice" \notin defects =>
    /\ run.done \subseteq run.process
    /\ \A f \in ToSet(IniFiles) :
         Sections(ini, f) \subseteq Sections(run.ini, f) \ (run.process \ run.done)
    /\ run.ini[Base] # <<>> /\ ini[Base] = <<>> => run.warned # {}
    /\ run.ini[Base] = <<>> /\ DefaultDb \in run.process \ run.done => run.warned # {}

UninstallInv == RunInv /\ FilesInv /\ IniInv /\ RemoveInv /\ CleanInv

-----------------------------------------------------------------------------
(* 2. The sections of an ini *)

\* A set of numbers that is not empty has a smallest one.
LEMMA SmallestOfSet ==
  ASSUME NEW S \in SUBSET Nat, S # {}
  PROVE  \E x \in S : \A y \in S : x <= y
<1> DEFINE R == OpToRel(<, Nat)
<1>1. IsWellFoundedOn(R, Nat)
  BY NatLessThanWellFounded
<1>2. \A x, y \in Nat : <<y, x>> \in R <=> y < x
  BY DEF OpToRel
<1> HIDE DEF R
<1>3. PICK x \in S : \A y \in S : ~(<<y, x>> \in R)
  BY <1>1, WFMin
<1>4. \A y \in S : ~(y < x)
  BY <1>2, <1>3
<1> QED
  BY <1>4, SMT

\* The first section of a database is one of those there are.
LEMMA FirstSection ==
  ASSUME NEW S, NEW s \in Seq(S), NEW db \in ToSet(s)
  PROVE  \E i \in 1..Len(s) : s[i] = db /\ RemoveFirst(s, db) = SubSeq(s, 1, i-1) \o SubSeq(s, i+1, Len(s))
<1> DEFINE I == {i \in 1..Len(s) : s[i] = db}
<1>1. I # {} /\ I \subseteq Nat
  BY DEF ToSet
<1>2. \E x \in I : \A y \in I : x <= y
  <2> HIDE DEF I
  <2> QED BY <1>1, SmallestOfSet
<1>3. Min(I) \in I
  BY <1>2 DEF Min
<1>4. SelectInSeq(s, LAMBDA v : v = db) = Min(I)
  BY <1>1 DEF SelectInSeq
<1>5. RemoveFirst(s, db) = RemoveAt(s, Min(I))
  BY <1>1, <1>4 DEF RemoveFirst
<1> QED
  BY <1>3, <1>5 DEF RemoveAt

\* Removing a section leaves the others, and none of the database if it had but one.
LEMMA SectionRemoved ==
  ASSUME NEW S, NEW s \in Seq(S), NEW db
  PROVE  /\ WithoutSection(s, db) \in Seq(S)
         /\ ToSet(WithoutSection(s, db)) \subseteq ToSet(s)
         /\ ToSet(s) \ {db} \subseteq ToSet(WithoutSection(s, db))
         /\ db \notin ToSet(s) => WithoutSection(s, db) = s
         /\ ~(\E i, j \in DOMAIN s : i # j /\ s[i] = db /\ s[j] = db) =>
              ToSet(WithoutSection(s, db)) \subseteq ToSet(s) \ {db}
<1>1. CASE db \notin ToSet(s)
  BY <1>1 DEF WithoutSection
<1>2. CASE db \in ToSet(s)
  <2>1. PICK i \in 1..Len(s) : s[i] = db /\ RemoveFirst(s, db) = SubSeq(s, 1, i-1) \o SubSeq(s, i+1, Len(s))
    BY <1>2, FirstSection
  <2> DEFINE front == SubSeq(s, 1, i-1)
             back == SubSeq(s, i+1, Len(s))
  <2>2. /\ Len(s) \in Nat /\ DOMAIN s = 1..Len(s) /\ i \in Nat
        /\ \A k \in 1..Len(s) : s[k] \in S
    BY LenProperties, ElementOfSeq
  <2>3. /\ front \in Seq(S) /\ Len(front) = i-1
        /\ \A k \in 1..i-1 : front[k] = s[k]
    BY <2>1, <2>2, SubSeqProperties, SMT
  <2>4. /\ back \in Seq(S) /\ Len(back) = Len(s) - i
        /\ \A k \in 1..Len(s)-i : back[k] = s[i+k]
    <3>1. \A k \in i+1..Len(s) : s[k] \in S
      BY <2>2
    <3>2. /\ back \in Seq(S)
          /\ Len(back) = IF i+1 <= Len(s) THEN Len(s) - (i+1) + 1 ELSE 0
          /\ \A k \in 1..Len(s)-(i+1)+1 : back[k] = s[i+1+k-1]
      BY <2>2, <3>1, SubSeqProperties, SMT
    <3>3. Len(back) = Len(s) - i
      <4>1. \A n \in Nat : \A j \in 1..n : (IF j+1 <= n THEN n - (j+1) + 1 ELSE 0) = n - j
        BY SMT
      <4> QED
        BY <2>2, <3>2, <4>1, Zenon
    <3>4. ASSUME NEW k \in 1..Len(s)-i PROVE back[k] = s[i+k]
      <4>1. k \in 1..Len(s)-(i+1)+1 /\ i+1+k-1 = i+k
        BY <2>1, <2>2, SMT
      <4> HIDE DEF back
      <4> QED BY <3>2, <4>1
    <3> QED
      BY <3>2, <3>3, <3>4
  <2> HIDE DEF front, back
  <2> DEFINE r == front \o back
  <2>5. /\ r \in Seq(S) /\ Len(r) = Len(s) - 1
        /\ \A k \in 1..Len(s)-1 : r[k] = IF k <= i-1 THEN front[k] ELSE back[k - (i-1)]
    <3>1. /\ r \in Seq(S) /\ Len(r) = Len(front) + Len(back)
          /\ \A k \in 1..Len(front)+Len(back) :
               r[k] = IF k <= Len(front) THEN front[k] ELSE back[k - Len(front)]
      BY <2>3, <2>4, ConcatProperties
    <3>2. Len(front) + Len(back) = Len(s) - 1
      BY <2>2, <2>3, <2>4, SMT
    <3> HIDE DEF r
    <3> QED
      BY <2>3, <3>1, <3>2
  <2>6. WithoutSection(s, db) = r
    BY <1>2, <2>1 DEF WithoutSection, front, back
  <2> HIDE DEF r
  <2>7. DOMAIN r = 1..Len(s)-1
    BY <2>5, LenProperties
  <2>8. \A k \in 1..Len(s)-1 : \E j \in 1..Len(s) : j # i /\ r[k] = s[j]
    <3> TAKE k \in 1..Len(s)-1
    <3>1. CASE k <= i-1
      BY <2>2, <2>3, <2>5, <3>1, SMT
    <3>2. CASE ~(k <= i-1)
      <4>1. k - (i-1) \in 1..Len(s)-i
        BY <2>2, <3>2, SMT
      <4>2. r[k] = s[i + (k - (i-1))]
        BY <2>4, <2>5, <3>2, <4>1
      <4> QED
        BY <2>2, <3>2, <4>1, <4>2, SMT
    <3> QED
      BY <3>1, <3>2
  <2>9. \A x \in ToSet(r) : \E j \in DOMAIN s : j # i /\ x = s[j]
    BY <2>2, <2>7, <2>8 DEF ToSet
  <2>10. ToSet(r) \subseteq ToSet(s)
    BY <2>9 DEF ToSet
  <2>11. ~(\E k, j \in DOMAIN s : k # j /\ s[k] = db /\ s[j] = db) => db \notin ToSet(r)
    BY <2>1, <2>2, <2>9
  <2>12. \A j \in 1..Len(s) : j # i => \E k \in 1..Len(s)-1 : r[k] = s[j]
    <3> SUFFICES ASSUME NEW j \in 1..Len(s), j # i PROVE \E k \in 1..Len(s)-1 : r[k] = s[j]
      OBVIOUS
    <3>1. CASE j < i
      <4>1. j \in 1..Len(s)-1 /\ j \in 1..i-1 /\ j <= i-1
        BY <2>1, <2>2, <3>1
      <4>2. r[j] = s[j]
        BY <2>3, <2>5, <4>1
      <4> QED
        BY <4>1, <4>2
    <3>2. CASE ~(j < i)
      <4>1. /\ j-1 \in 1..Len(s)-1 /\ ~(j-1 <= i-1) /\ (j-1) - (i-1) \in 1..Len(s)-i
            /\ i + ((j-1) - (i-1)) = j
        BY <2>1, <2>2, <3>2
      <4>2. r[j-1] = s[j]
        BY <2>4, <2>5, <4>1
      <4> QED
        BY <4>1, <4>2
    <3> QED
      BY <3>1, <3>2
  <2>13. ToSet(s) \ {db} \subseteq ToSet(r)
    BY <2>1, <2>2, <2>7, <2>12 DEF ToSet
  <2> QED
    BY <1>2, <2>5, <2>6, <2>10, <2>11, <2>13
<1> QED
  BY <1>1, <1>2

\* The files of an ini.
LEMMA IniFileSet == ToSet(IniFiles) = {Base} \cup ToSet(DropIns)
<1> DEFINE n == Len(DropIns)
<1>1. /\ n \in Nat /\ DOMAIN DropIns = 1..n
      /\ <<Base>> \in Seq(STRING) /\ Len(<<Base>>) = 1 /\ <<Base>>[1] = Base
  <2>1. n \in Nat /\ DOMAIN DropIns = 1..n
    BY ConfigAssumption, LenProperties
  <2>2. \A T : Base \in T => <<Base>> \in Seq(T)
    OBVIOUS
  <2>3. Len(<<Base>>) = 1 /\ <<Base>>[1] = Base
    BY SMT
  <2> QED
    BY ConfigAssumption, <2>1, <2>2, <2>3
<1>2. /\ IniFiles \in Seq(STRING) /\ Len(IniFiles) = 1 + n
      /\ \A i \in 1..1+n : IniFiles[i] = IF i <= 1 THEN <<Base>>[i] ELSE DropIns[i - 1]
  BY <1>1, ConfigAssumption, ConcatProperties DEF IniFiles
<1>3. DOMAIN IniFiles = 1..1+n
  BY <1>2, LenProperties
<1> HIDE DEF n
<1>4. \A f \in ToSet(IniFiles) : f = Base \/ f \in ToSet(DropIns)
  <2> SUFFICES ASSUME NEW i \in 1..1+n PROVE IniFiles[i] = Base \/ IniFiles[i] \in ToSet(DropIns)
    BY <1>3 DEF ToSet
  <2>1. CASE i = 1
    BY <1>1, <1>2, <2>1
  <2>2. CASE i # 1
    <3>1. i - 1 \in 1..n /\ ~(i <= 1)
      BY <1>1, <2>2
    <3> QED
      BY <1>1, <1>2, <3>1 DEF ToSet
  <2> QED
    BY <2>1, <2>2
<1>5. Base \in ToSet(IniFiles)
  <2>1. 1 \in 1..1+n
    BY <1>1
  <2> QED
    BY <1>1, <1>2, <1>3, <2>1 DEF ToSet
<1>6. \A k \in 1..n : DropIns[k] \in ToSet(IniFiles)
  <2> TAKE k \in 1..n
  <2>1. k + 1 \in 1..1+n /\ ~(k + 1 <= 1) /\ (k + 1) - 1 = k
    BY <1>1
  <2>2. IniFiles[k + 1] = DropIns[k]
    BY <1>2, <2>1
  <2> QED
    BY <1>3, <2>1, <2>2 DEF ToSet
<1> QED
  BY <1>1, <1>4, <1>5, <1>6 DEF ToSet

\* Every file with a section of a database is one of its source files.
LEMMA SectionHasSource ==
  ASSUME NEW read, NEW db, NEW f \in ToSet(IniFiles), db \in Sections(read, f)
  PROVE  f \in SourceFiles(read, db)
BY DEF SourceFiles, Sourced, IgnoredIn

\* DatabaseConfigRemover takes the sections of the database from its source files, and
\* changes nothing else.
LEMMA SectionsRemoved ==
  ASSUME NEW i, Accepted(i), NEW read, NEW db, NEW failing
  PROVE  /\ Accepted(RemovedFrom(i, read, db, failing))
         /\ \A f \in ToSet(IniFiles) :
              /\ Sections(RemovedFrom(i, read, db, failing), f) \subseteq Sections(i, f)
              /\ Sections(i, f) \ {db} \subseteq Sections(RemovedFrom(i, read, db, failing), f)
              /\ f \in SourceFiles(read, db) \ failing /\ db \notin Repeated(i, f) =>
                   db \notin Sections(RemovedFrom(i, read, db, failing), f)
              /\ RemovedFrom(i, read, db, failing)[f] # i[f] =>
                   f \in SourceFiles(read, db) \ failing /\ db \in ToSet(i[f])
<1> DEFINE j == RemovedFrom(i, read, db, failing)
<1>1. \A f \in ToSet(IniFiles) : i[f] \in Seq(Dbs)
  BY DEF Accepted
<1>2. /\ j = [f \in ToSet(IniFiles) |-> j[f]]
      /\ \A f \in ToSet(IniFiles) :
           j[f] = IF f \in SourceFiles(read, db) \ failing THEN WithoutSection(i[f], db) ELSE i[f]
  BY DEF Accepted, RemovedFrom
<1> HIDE DEF j
<1>3. ASSUME NEW f \in ToSet(IniFiles)
      PROVE  /\ j[f] \in Seq(Dbs) /\ ToSet(j[f]) \subseteq ToSet(i[f])
             /\ ToSet(i[f]) \ {db} \subseteq ToSet(j[f])
             /\ f \in SourceFiles(read, db) \ failing /\ db \notin Repeated(i, f) => db \notin ToSet(j[f])
             /\ j[f] # i[f] => f \in SourceFiles(read, db) \ failing /\ db \in ToSet(i[f])
  <2>1. CASE f \notin SourceFiles(read, db) \ failing
    BY <1>1, <1>2, <2>1
  <2>2. CASE f \in SourceFiles(read, db) \ failing
    <3>1. j[f] = WithoutSection(i[f], db)
      BY <1>2, <2>2
    <3>2. /\ j[f] \in Seq(Dbs) /\ ToSet(j[f]) \subseteq ToSet(i[f]) /\ (j[f] # i[f] => db \in ToSet(i[f]))
          /\ ToSet(i[f]) \ {db} \subseteq ToSet(j[f])
      BY <1>1, <3>1, SectionRemoved
    <3>3. ASSUME db \notin Repeated(i, f) PROVE db \notin ToSet(j[f])
      <4>1. CASE db \notin ToSet(i[f])
        BY <3>2, <4>1
      <4>2. CASE db \in ToSet(i[f])
        <5>1. ~(\E k, l \in DOMAIN i[f] : k # l /\ i[f][k] = db /\ i[f][l] = db)
          BY <3>3, <4>2 DEF Repeated, Sections
        <5>2. ToSet(WithoutSection(i[f], db)) \subseteq ToSet(i[f]) \ {db}
          BY <1>1, <5>1, SectionRemoved
        <5> QED
          BY <3>1, <5>2
      <4> QED
        BY <4>1, <4>2
    <3> QED
      BY <2>2, <3>2, <3>3
  <2> QED
    BY <2>1, <2>2
<1>4. Accepted(j)
  BY <1>2, <1>3, IniFileSet DEF Accepted
<1> QED
  BY <1>3, <1>4 DEF Sections, j

-----------------------------------------------------------------------------
(* 3. The invariant is inductive *)

\* At the start nothing runs.
LEMMA InitInv == Init => UninstallInv
<1> SUFFICES ASSUME Init PROVE UninstallInv
  OBVIOUS
<1>1. RunInv
  BY DEF Init, RunInv
<1>2. FilesInv
  BY DEF Init, FilesInv, Nothing, Legacy
<1>3. run.pc = "idle" /\ ~Uninstalling
  BY DEF Init, Idle, Uninstalling
<1>4. IniInv
  BY <1>3, StoreAssumption DEF Init, IniInv, Accepted
<1> QED
  BY <1>1, <1>2, <1>3, <1>4 DEF UninstallInv, RemoveInv, CleanInv

\* A session that ends.
LEMMA NoSession ==
  ASSUME UninstallInv, run' = Idle, ini' = ini, FilesInv'
  PROVE  UninstallInv'
BY DEF UninstallInv, RunInv, IniInv, RemoveInv, CleanInv, Uninstalling, Idle, Accepted

\* A session of an update.
LEMMA UpdateSession ==
  ASSUME UninstallInv, {"kind", "pc"} \subseteq DOMAIN run', run'.kind = "update", run'.pc \in UpdatePcs,
         ini' = ini, FilesInv'
  PROVE  UninstallInv'
BY DEF UninstallInv, RunInv, IniInv, RemoveInv, CleanInv, Uninstalling, Accepted

\* The phases of a session are not "idle", and no drive is named like a phase.
LEMMA PcsAreNotIdle ==
  /\ "idle" \notin UpdatePcs \cup UninstallPcs
  /\ {"import", "free", "remove", "config", "prints", "main", "table", "drives"} \cap DriveSet = {}
BY StoreAssumption DEF UpdatePcs, UninstallPcs, DriveSet, Phases

\* Each action keeps the invariant: an update begins,
LEMMA BeginKeeps == ASSUME UninstallInv, Begin PROVE UninstallInv'
<1>1. FilesInv' /\ ini' = ini
  BY DEF Begin, FilesInv, UninstallInv, Places
<1>2. \/ run' = Idle
      \/ /\ {"kind", "pc"} \subseteq DOMAIN run' /\ run'.kind = "update"
         /\ run'.pc \in {"import", "prints", "free"}
  BY DEF Begin
<1> QED
  BY <1>1, <1>2, NoSession, UpdateSession DEF UpdatePcs

\* What the import of files does when the database 'first' has the shared files and
\* those of 'bad' fail.
ImportedRun(first, bad) ==
  [run EXCEPT !.pc = IF run.dirty \/ StoresAfter(first, bad) # run.mem THEN "prints" ELSE "free",
              !.mem = StoresAfter(first, bad), !.failed = @ \/ bad # {}]
ImportsWith(first, bad) ==
  /\ files' = [place \in Places |->
                 (files[place] \ GoneFrom(place)) \cup {p \in Needed \ bad : At(p) = place}]
  /\ run' = ImportedRun(first, bad)
  /\ Struck((IF bad # {} /\ option # "balanced" THEN {"failed"} ELSE {})
       \cup (IF \E d \in DriveSet \ plugged : bad \cap files[d] # {} THEN {"returned"} ELSE {})
       \cup IF \E db \in Configured(ini) \ run.process, place \in Places :
                  GoneFrom(place) \cap Wanted(db) # {} THEN {"dropped"} ELSE {})

\* That is all that Import does, and only an update does it.
LEMMA ImportStep ==
  ASSUME UninstallInv, Import
  PROVE  /\ run.pc = "import" /\ run # Idle /\ {"kind", "pc"} \subseteq DOMAIN run /\ run.kind = "update"
         /\ UNCHANGED <<ini, edition, option, plugged, knowledge>>
         /\ \E first \in run.process : \E bad \in {{}} \cup {{p} : p \in Needed} : ImportsWith(first, bad)
<1>1. run.pc = "import" /\ UNCHANGED <<ini, edition, option, plugged, knowledge>>
  BY DEF Import
<1>2. run # Idle /\ run.pc \notin UninstallPcs
  BY <1>1, PcsAreNotIdle DEF Idle, UninstallPcs
<1>3. {"kind", "pc"} \subseteq DOMAIN run /\ run.kind = "update"
  BY <1>2 DEF UninstallInv, RunInv
<1>4. \E first \in run.process : \E bad \in {{}} \cup {{p} : p \in Needed} : ImportsWith(first, bad)
  BY Zenon DEF Import, ImportsWith, ImportedRun
<1> QED
  BY <1>1, <1>2, <1>3, <1>4

\* What the session is after an import that goes this way.
LEMMA ImportRun ==
  ASSUME NEW first, NEW bad, run' = ImportedRun(first, bad), {"kind", "pc"} \subseteq DOMAIN run
  PROVE  /\ DOMAIN run' = DOMAIN run /\ run'.pc \in {"prints", "free"}
         /\ \A x \in DOMAIN run \ {"pc", "mem", "failed"} : run'[x] = run[x]
         /\ "mem" \in DOMAIN run => run'.mem = StoresAfter(first, bad)
<1> DEFINE new == StoresAfter(first, bad)
           pc == IF run.dirty \/ new # run.mem THEN "prints" ELSE "free"
           failed == run.failed \/ bad # {}
<1>1. run' = [run EXCEPT !.pc = pc, !.mem = new, !.failed = failed]
  BY DEF ImportedRun
<1>2. pc \in {"prints", "free"}
  OBVIOUS
<1> HIDE DEF new, pc, failed
<1>3. DOMAIN run' = DOMAIN run /\ run'.pc = pc /\ ("mem" \in DOMAIN run => run'.mem = new)
  BY <1>1
<1>4. \A x \in DOMAIN run \ {"pc", "mem", "failed"} : run'[x] = run[x]
  BY <1>1
<1> QED
  BY <1>2, <1>3, <1>4 DEF new

\* files are imported,
LEMMA ImportKeeps == ASSUME UninstallInv, Import PROVE UninstallInv'
<1>1. PICK first \in run.process : \E bad \in {{}} \cup {{p} : p \in Needed} : ImportsWith(first, bad)
  BY ImportStep
<1>2. PICK bad : ImportsWith(first, bad)
  BY <1>1
<1>3. {"kind", "pc"} \subseteq DOMAIN run /\ run.kind = "update" /\ ini' = ini
  BY ImportStep
<1>4. {"kind", "pc"} \subseteq DOMAIN run' /\ run'.kind = "update" /\ run'.pc \in UpdatePcs
  BY <1>2, <1>3, ImportRun DEF ImportsWith, UpdatePcs
<1>5. FilesInv'
  BY <1>2 DEF ImportsWith, FilesInv, Places
<1> QED
  BY <1>3, <1>4, <1>5, UpdateSession

\* The steps of save_store.
Saves ==
  \/ RemovePrints \/ SaveMain \/ SavePrints \/ Touch
  \/ \E d \in DriveSet : SaveDrive(d) \/ SaveManifest(d)

\* Only the phase and the drives that are left change.
Proceeds(pc) ==
  /\ DOMAIN run' = DOMAIN run /\ run'.pc = pc
  /\ \A x \in DOMAIN run \ {"pc", "left"} : run'[x] = run[x]

\* A step of save_store changes neither the ini nor the files, and goes on.
LEMMA SavingStep ==
  ASSUME UninstallInv, Saves
  PROVE  /\ UNCHANGED <<ini, files, plugged>> /\ defects \subseteq defects'
         /\ run.pc \in {"prints", "main", "table", "drives"} \cup DriveSet
         /\ \E pc \in {"main", "table", "drives"} \cup DriveSet
                        \cup {IF run.kind = "update" THEN "free" ELSE "config"} : Proceeds(pc)
<1>0. "pc" \in DOMAIN run
  BY DEF UninstallInv, RunInv, UninstallFields, Idle
<1>1. CASE RemovePrints
  BY <1>0, <1>1 DEF RemovePrints, Step, Proceeds
<1>2. CASE SaveMain
  BY <1>0, <1>2 DEF SaveMain, Step, Proceeds, Struck
<1>3. CASE SavePrints
  BY <1>0, <1>3 DEF SavePrints, Step, Proceeds
<1>4. CASE Touch
  BY <1>0, <1>4 DEF Touch, Step, Proceeds
<1>5. ASSUME NEW d \in DriveSet, SaveDrive(d)
      PROVE  /\ UNCHANGED <<ini, files, plugged>> /\ defects \subseteq defects'
             /\ run.pc = "drives" /\ (Proceeds("drives") \/ Proceeds(d))
  BY <1>0, <1>5 DEF SaveDrive, Proceeds, Struck
<1>6. ASSUME NEW d \in DriveSet, SaveManifest(d)
      PROVE  /\ UNCHANGED <<ini, files, plugged>> /\ defects \subseteq defects'
             /\ run.pc = d /\ Proceeds("drives")
  BY <1>0, <1>6 DEF SaveManifest, Step, Proceeds
<1> QED
  BY <1>1, <1>2, <1>3, <1>4, <1>5, <1>6 DEF Saves

\* The stores and fingerprints are saved,
LEMMA SavesKeep == ASSUME UninstallInv, Saves PROVE UninstallInv'
<1>1. FilesInv' /\ ini' = ini /\ defects \subseteq defects' /\ plugged' = plugged
  BY SavingStep DEF FilesInv, UninstallInv, Places
<1>2. PICK pc \in {"main", "table", "drives"} \cup DriveSet
                        \cup {IF run.kind = "update" THEN "free" ELSE "config"} : Proceeds(pc)
  BY SavingStep
<1>3. run.pc \in {"prints", "main", "table", "drives"} \cup DriveSet
  BY SavingStep
<1>4. run # Idle /\ run.pc \notin {"idle", "remove"} /\ pc \notin {"idle", "remove"}
  BY <1>2, <1>3, PcsAreNotIdle DEF Idle, UpdatePcs
<1>5. CASE {"kind", "pc"} \subseteq DOMAIN run /\ run.kind = "update"
  <2>1. {"kind", "pc"} \subseteq DOMAIN run' /\ run'.kind = "update" /\ run'.pc \in UpdatePcs
    BY <1>2, <1>5 DEF Proceeds, UpdatePcs
  <2> QED
    BY <1>1, <2>1, UpdateSession
<1>6. CASE DOMAIN run = UninstallFields /\ run.kind = "uninstall" /\ run.pc \in UninstallPcs
  <2>1. /\ DOMAIN run' = UninstallFields /\ run'.kind = "uninstall" /\ run'.pc \in UninstallPcs
        /\ run'.pc = pc
    BY <1>2, <1>6 DEF Proceeds, UninstallPcs, UninstallFields
  <2>2. /\ run'.ini = run.ini /\ run'.cleaned = run.cleaned /\ run'.failed = run.failed
        /\ run'.done = run.done /\ run'.process = run.process /\ run'.warned = run.warned
    BY <1>2, <1>6 DEF Proceeds, UninstallFields
  <2>3. RunInv'
    BY <2>1 DEF RunInv
  <2>4. IniInv'
    BY <1>1, <1>4, <1>6, <2>2 DEF UninstallInv, IniInv, Accepted, Uninstalling
  <2>5. RemoveInv'
    BY <1>4, <2>1 DEF RemoveInv
  <2>6. CleanInv'
    BY <1>1, <1>4, <1>6, <2>2 DEF UninstallInv, CleanInv, Uninstalling, Sections
  <2> QED
    BY <1>1, <2>3, <2>4, <2>5, <2>6 DEF UninstallInv
<1> QED
  BY <1>4, <1>5, <1>6 DEF UninstallInv, RunInv

\* What is known of an uninstall in one of its phases.
LEMMA InUninstall ==
  ASSUME UninstallInv, run.pc \in {"remove", "config"}
  PROVE  DOMAIN run = UninstallFields /\ run.kind = "uninstall" /\ run.pc \in UninstallPcs /\ Uninstalling
BY PcsAreNotIdle DEF UninstallInv, RunInv, Uninstalling, UpdatePcs, Idle

\* What the stores claim is in the main store, or in that of a drive.
LEMMA ClaimIs ==
  ASSUME NEW c \in AllClaims
  PROVE  /\ c = <<c[1], c[2], c[3]>> /\ c[1] \in Dbs /\ c[2] \in Places
         /\ \/ /\ main.st = "whole" /\ c[1] \in DOMAIN main.is.dbs
               /\ c[2] = "base" /\ c[3] \in main.is.dbs[c[1]]
            \/ /\ c[2] \in DriveSet /\ ext[c[2]].st = "whole" /\ c[1] \in DOMAIN ext[c[2]].is
               /\ c[3] \in ext[c[2]].is[c[1]]
<1> DEFINE inBase(x) == IF main.st = "whole" /\ x \in DOMAIN main.is.dbs
                        THEN {<<x, "base", p>> : p \in main.is.dbs[x]} ELSE {}
           inDrive(x, d) == IF ext[d].st = "whole" /\ x \in DOMAIN ext[d].is
                            THEN {<<x, d, p>> : p \in ext[d].is[x]} ELSE {}
<1>1. c \in UNION {inBase(x) : x \in Dbs} \/ c \in UNION {inDrive(x, d) : x \in Dbs, d \in DriveSet}
  BY DEF AllClaims
<1>2. ASSUME NEW x \in Dbs, c \in inBase(x)
      PROVE  /\ c = <<c[1], c[2], c[3]>> /\ c[1] \in Dbs
             /\ main.st = "whole" /\ c[1] \in DOMAIN main.is.dbs
             /\ c[2] = "base" /\ c[3] \in main.is.dbs[c[1]]
  <2>1. main.st = "whole" /\ x \in DOMAIN main.is.dbs
    BY <1>2
  <2>2. PICK p \in main.is.dbs[x] : c = <<x, "base", p>>
    BY <1>2
  <2> QED
    BY <2>1, <2>2
<1>3. ASSUME NEW x \in Dbs, NEW d \in DriveSet, c \in inDrive(x, d)
      PROVE  /\ c = <<c[1], c[2], c[3]>> /\ c[1] \in Dbs
             /\ c[2] \in DriveSet /\ ext[c[2]].st = "whole"
             /\ c[1] \in DOMAIN ext[c[2]].is /\ c[3] \in ext[c[2]].is[c[1]]
  <2>1. ext[d].st = "whole" /\ x \in DOMAIN ext[d].is
    BY <1>3
  <2>2. PICK p \in ext[d].is[x] : c = <<x, d, p>>
    BY <1>3
  <2> QED
    BY <2>1, <2>2
<1> HIDE DEF inBase, inDrive
<1>4. (\E x \in Dbs : c \in inBase(x)) \/ \E x \in Dbs, d \in DriveSet : c \in inDrive(x, d)
  BY <1>1
<1> QED
  BY <1>2, <1>3, <1>4 DEF Places

\* What the stores claim of databases that are known, and not only on drives that are
\* away, is loaded.
LEMMA ClaimIsLoaded ==
  ASSUME NEW c \in AllClaims, c[1] \in DOMAIN Loaded.dbs \cup Configured(ini),
         c[2] \in {"base"} \cup plugged, main.st # "torn"
  PROVE  c[1] \in DOMAIN Loaded.dbs /\ c[3] \in Recorded(Loaded, c[1])
<1> DEFINE own == IF main.st = "whole" THEN main.is ELSE NewStore
           on(x) == {d \in plugged : /\ ext[d].st = "whole" /\ x \in DOMAIN ext[d].is
                                     /\ \/ main.st = "absent"
                                        \/ x \in DOMAIN own.dbs \cup Configured(ini)}
           known == DOMAIN own.dbs \cup {x \in Dbs : on(x) # {}}
           base(x) == IF x \in DOMAIN own.dbs THEN own.dbs[x] ELSE {}
           db == c[1]
<1>1. Loaded.dbs = [x \in known |-> [place \in {"base"} \cup on(x) |->
                                       IF place = "base" THEN base(x) ELSE ext[place].is[x]]]
  BY DEF Loaded
<1>2. \/ /\ main.st = "whole" /\ db \in DOMAIN main.is.dbs
         /\ c[2] = "base" /\ c[3] \in main.is.dbs[db]
      \/ /\ db \in Dbs /\ c[2] \in DriveSet /\ ext[c[2]].st = "whole" /\ db \in DOMAIN ext[c[2]].is
         /\ c[3] \in ext[c[2]].is[db]
  BY ClaimIs
<1>3. CASE /\ main.st = "whole" /\ db \in DOMAIN main.is.dbs
           /\ c[2] = "base" /\ c[3] \in main.is.dbs[db]
  <2>1. db \in known /\ c[3] \in Loaded.dbs[db]["base"] /\ "base" \in DOMAIN Loaded.dbs[db]
    BY <1>1, <1>3
  <2> QED
    BY <1>1, <2>1 DEF Recorded, Range
<1>4. CASE /\ db \in Dbs /\ c[2] \in DriveSet /\ ext[c[2]].st = "whole" /\ db \in DOMAIN ext[c[2]].is
           /\ c[3] \in ext[c[2]].is[db]
  <2>1. c[2] # "base"
    BY <1>4, StoreAssumption DEF DriveSet
  <2>2. db \in known \/ db \in Configured(ini)
    BY <1>1
  <2>3. c[2] \in on(db)
    BY <1>4, <2>1, <2>2
  <2>4. db \in known
    BY <1>4, <2>3
  <2>5. c[3] \in Loaded.dbs[db][c[2]] /\ c[2] \in DOMAIN Loaded.dbs[db]
    <3> HIDE DEF on, known, base
    <3> QED
      BY <1>1, <1>4, <2>1, <2>3, <2>4
  <2> QED
    BY <1>1, <2>4, <2>5 DEF Recorded, Range
<1> QED
  BY <1>2, <1>3, <1>4

\* an uninstall begins, with what the stores claim,
LEMMA BeginUninstallKeeps == ASSUME UninstallInv, BeginUninstall PROVE UninstallInv'
<1>1. FilesInv' /\ ini' = ini /\ plugged' = plugged
  BY DEF BeginUninstall, FilesInv, UninstallInv, Places
<1>2. /\ DOMAIN run' = UninstallFields /\ run'.kind = "uninstall" /\ run'.pc = "remove"
      /\ run'.ini = ini /\ run'.was = Loaded /\ run'.claims = AllClaims
      /\ run'.todo = UNION {Items(Loaded, db) : db \in run'.process \cap DOMAIN Loaded.dbs}
  BY DEF BeginUninstall, UninstallFields
<1>3. RunInv' /\ CleanInv'
  BY <1>2 DEF RunInv, CleanInv, UninstallPcs
<1>4. IniInv'
  BY <1>1, <1>2 DEF UninstallInv, IniInv, Accepted, Uninstalling
<1>5. ASSUME NEW c \in AllClaims, c[1] \in DOMAIN Loaded.dbs \cup Configured(ini), c[2] \in {"base"} \cup plugged,
             main.st # "torn"
      PROVE  c[1] \in DOMAIN Loaded.dbs /\ c[3] \in Recorded(Loaded, c[1])
  BY <1>5, ClaimIsLoaded
<1>6. ASSUME main.st = "torn" PROVE DOMAIN Loaded.dbs = {}
  BY <1>6 DEF Loaded, NewStore, NoMap
<1>7. RemoveInv'
  <2>1. Configured(ini)' = Configured(ini) /\ Known(run.was)' = DOMAIN Loaded.dbs \cup Configured(ini)
    BY <1>1, <1>2 DEF Known
  <2>2. main.st = "torn" => run'.todo = {}
    BY <1>2, <1>6
  <2> QED
    BY <1>1, <1>2, <1>5, <2>1, <2>2 DEF RemoveInv
<1> QED
  BY <1>1, <1>3, <1>4, <1>7 DEF UninstallInv

\* The removal of a file changes what is left to do and what is known of the files.
LEMMA RemovingStep ==
  ASSUME UninstallInv, NEW db, NEW place, NEW p, RemoveFile(db, place, p)
  PROVE  /\ DOMAIN run' = DOMAIN run /\ run.todo # {}
         /\ \A x \in UninstallFields \ {"todo", "mem", "gone", "broken"} : run'[x] = run[x]
         /\ files' = files \/ (files' = [files EXCEPT ![place] = @ \ {p}]
                               /\ place \in {"base"} \cup plugged /\ ~Claimed(p))
<1>1. DOMAIN run = UninstallFields
  BY InUninstall DEF RemoveFile
<1> DEFINE rest == [run EXCEPT !.todo = @ \ {<<db, place, p>>}]
           popped == [rest EXCEPT !.mem = Forgotten(db, place, p)]
           away == [rest EXCEPT !.gone = @ \cup {<<db, place>>}]
           stuck == [rest EXCEPT !.broken = @ \cup {db}]
<1>2. /\ DOMAIN rest = DOMAIN run
      /\ \A x \in UninstallFields \ {"todo", "mem", "gone", "broken"} : rest[x] = run[x]
  BY <1>1
<1>3. /\ DOMAIN popped = DOMAIN rest /\ DOMAIN away = DOMAIN rest /\ DOMAIN stuck = DOMAIN rest
      /\ \A x \in DOMAIN rest \ {"mem", "gone", "broken"} :
           popped[x] = rest[x] /\ away[x] = rest[x] /\ stuck[x] = rest[x]
  <2> HIDE DEF rest
  <2> QED OBVIOUS
<1>4. run' = popped \/ run' = away \/ run' = stuck
  BY DEF RemoveFile
<1>5. files' = files \/ (files' = [files EXCEPT ![place] = @ \ {p}]
                         /\ place \in {"base"} \cup plugged /\ ~Claimed(p))
  BY DEF RemoveFile, Reachable
<1>6. run.todo # {}
  BY DEF RemoveFile
<1> HIDE DEF rest, popped, away, stuck
<1> QED
  BY <1>1, <1>2, <1>3, <1>4, <1>5, <1>6

\* a file is removed or kept,
LEMMA RemoveFileKeeps ==
  ASSUME UninstallInv, NEW db, NEW place, NEW p, RemoveFile(db, place, p)
  PROVE  UninstallInv'
<1>1. run.pc = "remove" /\ UNCHANGED <<ini, plugged>>
  BY DEF RemoveFile
<1>2. DOMAIN run = UninstallFields /\ run.kind = "uninstall" /\ run.pc \in UninstallPcs /\ Uninstalling
  BY <1>1, InUninstall
<1>3. /\ run'.pc = "remove" /\ run'.kind = "uninstall" /\ DOMAIN run' = UninstallFields
      /\ run'.ini = run.ini /\ run'.was = run.was /\ run'.process = run.process
      /\ run'.claims = run.claims
  BY <1>1, <1>2, RemovingStep DEF UninstallFields
<1>4. RunInv' /\ CleanInv'
  BY <1>3 DEF RunInv, CleanInv, UninstallPcs
<1>5. FilesInv'
  BY RemovingStep DEF UninstallInv, FilesInv, Places
<1>6. IniInv'
  BY <1>1, <1>2, <1>3 DEF UninstallInv, IniInv, Accepted
<1>7. RemoveInv'
  <2>1. Known(run.was)' = Known(run.was)
    BY <1>1, <1>3 DEF Known, Configured, Sourced, Sections
  <2>2. \A c \in run.claims :
          c[1] \in Known(run.was) \ run.process /\ c[2] \in {"base"} \cup plugged =>
             c[1] \in DOMAIN run.was.dbs /\ c[3] \in Recorded(run.was, c[1])
    BY <1>1, <1>2, RemovingStep DEF UninstallInv, RemoveInv
  <2> QED
    BY <1>1, <1>2, <1>3, <2>1, <2>2 DEF UninstallInv, RemoveInv, Recorded
<1> QED
  BY <1>4, <1>5, <1>6, <1>7 DEF UninstallInv

\* the databases with nothing left are forgotten,
LEMMA ForgetKeeps == ASSUME UninstallInv, Forget PROVE UninstallInv'
<1>1. run.pc = "remove" /\ UNCHANGED <<ini, files, plugged>> /\ defects \subseteq defects'
  BY DEF Forget, Struck
<1>2. DOMAIN run = UninstallFields /\ run.kind = "uninstall" /\ Uninstalling
  BY <1>1, InUninstall
<1>3. PICK pc \in {"config", "prints"} : \E failing, mem :
        run' = [run EXCEPT !.done = run.process \ failing, !.failed = failing, !.pc = pc, !.mem = mem]
  BY DEF Forget
<1>s. PICK failing, mem :
      run' = [run EXCEPT !.done = run.process \ failing, !.failed = failing, !.pc = pc, !.mem = mem]
  BY <1>3
<1>4. /\ DOMAIN run' = UninstallFields /\ run'.kind = "uninstall" /\ run'.pc = pc
      /\ run'.ini = run.ini /\ run'.process = run.process
      /\ run'.done = run.process \ failing /\ run'.failed = failing
  BY <1>2, <1>s DEF UninstallFields
<1>5. FilesInv'
  BY <1>1 DEF UninstallInv, FilesInv, Places
<1>6. RunInv' /\ RemoveInv'
  BY <1>3, <1>4 DEF RunInv, RemoveInv, UninstallPcs
<1>7. IniInv'
  BY <1>1, <1>2, <1>4 DEF UninstallInv, IniInv, Accepted
<1>8. CleanInv'
  BY <1>1, <1>2, <1>4 DEF UninstallInv, RemoveInv, CleanInv, Sections
<1> QED
  BY <1>5, <1>6, <1>7, <1>8 DEF UninstallInv

\* the sections of a database are removed,
LEMMA CleanConfigKeeps == ASSUME UninstallInv, CleanConfig PROVE UninstallInv'
<1>1. run.pc = "config" /\ UNCHANGED <<files, plugged>> /\ defects \subseteq defects'
  BY DEF CleanConfig, Struck
<1>2. DOMAIN run = UninstallFields /\ run.kind = "uninstall" /\ Uninstalling
  BY <1>1, InUninstall
<1>3. PICK db, failing :
        /\ db \in run.done
        /\ ini' = RemovedFrom(ini, run.ini, db, failing)
        /\ run' = [run EXCEPT !.done = @ \ {db}, !.cleaned = @ /\ failing = {},
                     !.warned = IF Reappears(ini, ini', run.ini, db, failing) THEN @ \cup {db} ELSE @]
        /\ Struck(IF failing = {} /\ \E f \in DOMAIN ini : db \in Repeated(ini, f) THEN {"twice"} ELSE {})
  BY DEF CleanConfig
<1>4. /\ DOMAIN run' = UninstallFields /\ run'.kind = "uninstall" /\ run'.pc = "config"
      /\ run'.ini = run.ini /\ run'.process = run.process /\ run'.failed = run.failed
      /\ run'.done = run.done \ {db}
      /\ run'.cleaned = (run.cleaned /\ failing = {})
      /\ run'.warned = IF Reappears(ini, ini', run.ini, db, failing) THEN run.warned \cup {db} ELSE run.warned
  BY <1>1, <1>2, <1>3 DEF UninstallFields
<1>5. FilesInv'
  BY <1>1 DEF UninstallInv, FilesInv, Places
<1>6. RunInv' /\ RemoveInv'
  BY <1>4 DEF RunInv, RemoveInv, UninstallPcs
<1>7. IniInv'
  BY <1>2, <1>3, <1>4, SectionsRemoved DEF UninstallInv, IniInv, Accepted
<1>8. ASSUME run'.cleaned, run'.failed = {}, "twice" \notin defects'
      PROVE  /\ run'.done \subseteq run'.process
             /\ \A f \in ToSet(IniFiles) :
                  Sections(ini', f) \subseteq Sections(run'.ini, f) \ (run'.process \ run'.done)
             /\ run'.ini[Base] # <<>> /\ ini'[Base] = <<>> => run'.warned # {}
             /\ run'.ini[Base] = <<>> /\ DefaultDb \in run'.process \ run'.done => run'.warned # {}
  <2>1. run.cleaned /\ run.failed = {} /\ "twice" \notin defects /\ failing = {}
    BY <1>1, <1>4, <1>8
  <2>2. /\ run.done \subseteq run.process
        /\ \A f \in ToSet(IniFiles) :
             Sections(ini, f) \subseteq Sections(run.ini, f) \ (run.process \ run.done)
        /\ run.ini[Base] # <<>> /\ ini[Base] = <<>> => run.warned # {}
        /\ run.ini[Base] = <<>> /\ DefaultDb \in run.process \ run.done => run.warned # {}
    BY <1>1, <1>2, <2>1 DEF UninstallInv, CleanInv
  <2>3. \A f \in ToSet(IniFiles) : db \notin Repeated(ini, f)
    <3>1. DOMAIN ini = ToSet(IniFiles)
      BY DEF UninstallInv, IniInv, Accepted
    <3> QED
      BY <1>3, <1>8, <2>1, <3>1 DEF Struck
  <2>4. \A f \in ToSet(IniFiles) :
          /\ Sections(ini', f) \subseteq Sections(ini, f)
          /\ f \in SourceFiles(run.ini, db) => db \notin Sections(ini', f)
          /\ ini'[f] # ini[f] => f \in SourceFiles(run.ini, db) /\ db \in ToSet(ini[f])
    BY <1>3, <2>1, <2>3, SectionsRemoved DEF UninstallInv, IniInv
  <2>5. \A f \in ToSet(IniFiles) : db \notin Sections(ini', f)
    <3> SUFFICES ASSUME NEW f \in ToSet(IniFiles), db \in Sections(ini', f) PROVE FALSE
      OBVIOUS
    <3>1. db \in Sections(run.ini, f)
      BY <2>2, <2>4
    <3> QED
      BY <2>4, <3>1, SectionHasSource
  <2>6. \A f \in ToSet(IniFiles) :
          Sections(ini', f) \subseteq Sections(run'.ini, f) \ (run'.process \ run'.done)
    BY <1>4, <2>2, <2>4, <2>5
  <2>7. run.warned # {} => run'.warned # {}
    BY <1>4
  <2>8. ASSUME run.ini[Base] # <<>>, ini'[Base] = <<>> PROVE run'.warned # {}
    <3>1. CASE ini[Base] = <<>>
      BY <2>2, <2>7, <2>8, <3>1
    <3>2. CASE ini[Base] # <<>>
      <4>1. Base \in SourceFiles(run.ini, db) /\ db \in ToSet(ini[Base])
        BY <2>4, <2>8, <3>2, IniFileSet
      <4>2. ToSet(ini'[Base]) = {}
        BY <2>8 DEF ToSet
      <4>3. ~OtherInBase(ini', run.ini, db)
        BY <4>2 DEF OtherInBase
      <4>4. Reappears(ini, ini', run.ini, db, failing)
        BY <2>1, <4>1, <4>3 DEF Reappears
      <4> QED
        BY <1>4, <4>4
    <3> QED
      BY <3>1, <3>2
  <2>9. ASSUME run.ini[Base] = <<>>, DefaultDb \in run'.process \ run'.done PROVE run'.warned # {}
    <3>1. CASE DefaultDb \in run.process \ run.done
      BY <2>2, <2>7, <2>9, <3>1
    <3>2. CASE DefaultDb = db
      <4>1. DefaultDb \notin Sourced(run.ini)
        <5>1. Sections(run.ini, Base) = {}
          BY <1>4, <2>9 DEF Sections, ToSet
        <5>2. \A f \in ToSet(DropIns) : DefaultDb \notin Sections(run.ini, f)
          BY <1>2 DEF UninstallInv, IniInv, Accepted, Sections
        <5> QED
          BY <5>1, <5>2, IniFileSet DEF Sourced
      <4>2. SourceFiles(run.ini, db) = {} /\ db \in Configured(run.ini)
        BY <2>9, <3>2, <4>1 DEF SourceFiles, Configured
      <4>3. Reappears(ini, ini', run.ini, db, failing)
        BY <4>2 DEF Reappears
      <4> QED
        BY <1>4, <4>3
    <3> QED
      BY <1>4, <2>9, <3>1, <3>2
  <2> QED
    BY <1>4, <2>2, <2>6, <2>8, <2>9
<1>9. CleanInv'
  BY <1>8 DEF CleanInv
<1> QED
  BY <1>5, <1>6, <1>7, <1>9 DEF UninstallInv

\* a session ends or dies,
LEMMA SurroundingsKeep ==
  ASSUME UninstallInv, EndUninstall \/ FreeSpaces \/ Crash
  PROVE  UninstallInv'
<1>1. run' = Idle /\ ini' = ini /\ files' = files
  BY DEF EndUninstall, FreeSpaces, Crash
<1>2. FilesInv'
  BY <1>1 DEF UninstallInv, FilesInv, Places
<1> QED
  BY <1>1, <1>2, NoSession

\* a database or a drive changes between two sessions, or a drive goes,
LEMMA ChangeKeeps == ASSUME UninstallInv, Change PROVE UninstallInv'
<1>1. UNCHANGED <<ini, files, run>> /\ defects \subseteq defects'
  BY DEF Change, Struck
<1>2. run.pc = "remove" => plugged' \subseteq plugged
  BY DEF Change
<1>3. RunInv' /\ FilesInv' /\ IniInv' /\ CleanInv'
  BY <1>1 DEF UninstallInv, RunInv, FilesInv, IniInv, CleanInv, Accepted, Uninstalling, Places, Sections
<1>4. RemoveInv'
  <2>1. Uninstalling' = Uninstalling /\ Known(run.was)' = Known(run.was)
    BY <1>1 DEF Uninstalling, Known, Configured, Sourced, Sections
  <2>2. \A s, db : Recorded(s, db)' = Recorded(s, db)
    BY DEF Recorded
  <2> QED
    BY <1>1, <1>2, <2>1, <2>2 DEF UninstallInv, RemoveInv
<1> QED
  BY <1>3, <1>4 DEF UninstallInv

\* or nothing changes.
LEMMA StutterKeeps == ASSUME UninstallInv, UNCHANGED vars PROVE UninstallInv'
<1>1. UNCHANGED <<ini, files, run, defects, plugged>>
  BY DEF vars
<1>2. RunInv' /\ FilesInv' /\ IniInv' /\ CleanInv'
  BY <1>1 DEF UninstallInv, RunInv, FilesInv, IniInv, CleanInv, Accepted, Uninstalling, Places, Sections
<1>3. RemoveInv'
  <2>1. Uninstalling' = Uninstalling /\ Known(run.was)' = Known(run.was)
    BY <1>1 DEF Uninstalling, Known, Configured, Sourced, Sections
  <2>2. \A s, db : Recorded(s, db)' = Recorded(s, db)
    BY DEF Recorded
  <2> QED
    BY <1>1, <2>1, <2>2 DEF UninstallInv, RemoveInv
<1> QED
  BY <1>2, <1>3 DEF UninstallInv

\* A store that cannot be saved ends what is saved: an update goes on to the free spaces,
\* an uninstall with nothing to clean, and a defect strikes.
LEMMA FailingStep ==
  ASSUME UninstallInv, SaveFails
  PROVE  /\ run.pc = "main" /\ run # Idle /\ DOMAIN run' = DOMAIN run /\ defects \subseteq defects'
         /\ UNCHANGED <<ini, edition, option, plugged, files, main, prints, ext, manifest, free, marked>>
         /\ \A x \in DOMAIN run \ {"pc", "process", "done", "cleaned"} : run'[x] = run[x]
         /\ \/ /\ Updating /\ Updating' /\ ~Uninstalling /\ ~Uninstalling'
               /\ run' = [run EXCEPT !.pc = "free", !.process = {}] /\ run'.pc = "free"
            \/ /\ Uninstalling /\ Uninstalling' /\ ~Updating /\ ~Updating'
               /\ DOMAIN run = UninstallFields /\ run'.pc = "config" /\ run'.process = run.process
               /\ run'.done = {} /\ ~run'.cleaned /\ "half" \in defects'
<1>1. /\ run.pc = "main" /\ run # Idle /\ defects \subseteq defects'
      /\ UNCHANGED <<ini, edition, option, plugged, files, main, prints, ext, manifest, free, marked>>
      /\ run' = IF run.kind = "update" THEN [run EXCEPT !.pc = "free", !.process = {}]
                ELSE [run EXCEPT !.pc = "config", !.done = {}, !.cleaned = FALSE]
      /\ run.kind = "uninstall" => "half" \in defects'
  BY DEF SaveFails, Struck, knowledge, Idle
<1>2. CASE {"kind", "pc"} \subseteq DOMAIN run /\ run.kind = "update"
  <2>1. /\ run' = [run EXCEPT !.pc = "free", !.process = {}] /\ run'.pc = "free" /\ run'.kind = "update"
        /\ DOMAIN run' = DOMAIN run
    BY <1>1, <1>2
  <2>2. \A x \in DOMAIN run \ {"pc", "process", "done", "cleaned"} : run'[x] = run[x]
    BY <2>1
  <2> QED
    BY <1>1, <1>2, <2>1, <2>2 DEF Updating, Uninstalling
<1>3. CASE DOMAIN run = UninstallFields /\ run.kind = "uninstall"
  <2>1. run' = [run EXCEPT !.pc = "config", !.done = {}, !.cleaned = FALSE]
    BY <1>1, <1>3
  <2>2. /\ run'.pc = "config" /\ run'.kind = "uninstall" /\ DOMAIN run' = DOMAIN run
        /\ run'.process = run.process /\ run'.done = {} /\ ~run'.cleaned
    BY <1>3, <2>1 DEF UninstallFields
  <2>3. \A x \in DOMAIN run \ {"pc", "process", "done", "cleaned"} : run'[x] = run[x]
    BY <1>3, <2>1 DEF UninstallFields
  <2> QED
    BY <1>1, <1>3, <2>2, <2>3 DEF Updating, Uninstalling
<1> QED
  BY <1>1, <1>2, <1>3 DEF UninstallInv, RunInv

\* What it did is not recorded, and the sections stay.
LEMMA FailingKeeps == ASSUME UninstallInv, SaveFails PROVE UninstallInv'
<1>1. RunInv'
  BY FailingStep DEF Updating, Uninstalling, UninstallFields, RunInv, UpdatePcs, UninstallPcs, UninstallInv
<1>2. FilesInv' /\ IniInv'
  <2>1. ini' = ini /\ files' = files /\ (Uninstalling' => Uninstalling /\ run'.ini = run.ini)
    BY FailingStep DEF UninstallFields
  <2> QED
    BY <2>1 DEF UninstallInv, FilesInv, IniInv, Accepted, Places
<1>3. RemoveInv' /\ CleanInv'
  BY FailingStep DEF RemoveInv, CleanInv
<1> QED
  BY <1>1, <1>2, <1>3 DEF UninstallInv

\* The steps of the specification, one by one.
Steps ==
  \/ Begin \/ Import \/ Saves \/ BeginUninstall \/ Forget \/ CleanConfig
  \/ (EndUninstall \/ FreeSpaces \/ Crash) \/ Change \/ SaveFails
  \/ \E c \in run.todo : RemoveFile(c[1], c[2], c[3])

\* They are all there are.
LEMMA AllSteps == Next => Steps
BY DEF Next, Update, GoesOn, Steps, Saves

\* So every step keeps it.
LEMMA NextInv == UninstallInv /\ [Next]_vars => UninstallInv'
<1> SUFFICES ASSUME UninstallInv, Steps \/ UNCHANGED vars PROVE UninstallInv'
  BY AllSteps
<1>1. CASE Begin            BY <1>1, BeginKeeps
<1>2. CASE Import           BY <1>2, ImportKeeps
<1>3. CASE Saves            BY <1>3, SavesKeep
<1>4. CASE BeginUninstall   BY <1>4, BeginUninstallKeeps
<1>5. CASE Forget           BY <1>5, ForgetKeeps
<1>6. CASE CleanConfig      BY <1>6, CleanConfigKeeps
<1>7. CASE EndUninstall \/ FreeSpaces \/ Crash  BY <1>7, SurroundingsKeep
<1>8. CASE Change           BY <1>8, ChangeKeeps
<1>9. CASE \E c \in run.todo : RemoveFile(c[1], c[2], c[3])
  <2>1. PICK c \in run.todo : RemoveFile(c[1], c[2], c[3])
    BY <1>9
  <2> QED
    BY <2>1, RemoveFileKeeps
<1>10. CASE UNCHANGED vars  BY <1>10, StutterKeeps
<1>11. CASE SaveFails       BY <1>11, FailingKeeps
<1> QED
  BY <1>1, <1>2, <1>3, <1>4, <1>5, <1>6, <1>7, <1>8, <1>9, <1>10, <1>11 DEF Steps

\* The invariant holds in every state of the specification.
LEMMA UninstallInvariant == Spec => []UninstallInv
BY InitInv, NextInv, PTL DEF Spec

-----------------------------------------------------------------------------
(* 4. The theorems *)

\* While a session uninstalls, only the removal of a file changes what is on the
\* drives, and only the file it is about.
LEMMA OnlyRemovalsRemove ==
  ASSUME UninstallInv, Uninstalling, Steps \/ UNCHANGED vars
  PROVE  files' = files \/ \E c \in run.todo : RemoveFile(c[1], c[2], c[3])
<1>1. ~Begin /\ ~BeginUninstall
  BY DEF Uninstalling, Begin, BeginUninstall
<1>2. ~Import
  <2>1. run # Idle
    BY DEF Uninstalling, Idle
  <2>2. run.pc \in UninstallPcs
    BY <2>1 DEF Uninstalling, UninstallInv, RunInv
  <2> QED
    BY <2>2, PcsAreNotIdle DEF Import, UninstallPcs
<1>3. Saves => files' = files
  BY SavingStep
<1>4. Forget \/ CleanConfig \/ EndUninstall \/ FreeSpaces \/ Crash \/ Change \/ SaveFails
        \/ UNCHANGED vars => files' = files
  BY DEF Forget, CleanConfig, EndUninstall, FreeSpaces, Crash, Change, SaveFails, vars
<1> QED
  BY <1>1, <1>2, <1>3, <1>4 DEF Steps

\* What a database that stays claims in a place, with a store that is read there, is
\* never removed there by the uninstall of others (_claimants_by_kind_and_path).
THEOREM OthersAreKept == Spec => OthersKept
<1> DEFINE Claims(place, p) == \E db \in Known(run.was) \ run.process : <<db, place, p>> \in run.claims
           A == Uninstalling => \A place \in Places : \A p \in files[place] \ files'[place] : ~Claims(place, p)
<1>1. UninstallInv /\ [Next]_vars => A
  <2> SUFFICES ASSUME UninstallInv, Steps \/ UNCHANGED vars, Uninstalling,
                      NEW place \in Places, NEW p \in files[place] \ files'[place],
                      NEW db \in Known(run.was) \ run.process, <<db, place, p>> \in run.claims
               PROVE  FALSE
    BY AllSteps
  <2>1. PICK c \in run.todo : RemoveFile(c[1], c[2], c[3])
    BY OnlyRemovalsRemove
  <2>2. /\ files' = [files EXCEPT ![c[2]] = @ \ {c[3]}] /\ c[2] \in {"base"} \cup plugged
        /\ ~Claimed(c[3]) /\ run.todo # {}
    BY <2>1, RemovingStep
  <2>3. place = c[2] /\ p = c[3]
    BY <2>2 DEF UninstallInv, FilesInv
  <2>4. run.pc = "remove"
    BY <2>1 DEF RemoveFile
  <2>5. db \in DOMAIN run.was.dbs /\ p \in Recorded(run.was, db)
    <3> DEFINE claim == <<db, place, p>>
    <3>1. claim \in run.claims /\ claim[1] = db /\ claim[2] = place /\ claim[3] = p
      OBVIOUS
    <3> HIDE DEF claim
    <3> QED
      BY <2>2, <2>3, <2>4, <3>1 DEF UninstallInv, RemoveInv
  <2> QED
    BY <2>2, <2>3, <2>5 DEF Claimed
<1>2. UninstallInv /\ [Next]_vars => [A]_vars
  BY <1>1
<1> QED
  BY UninstallInvariant, <1>2, PTL DEF Spec, OthersKept

\* A database that comes back after all were uninstalled was announced to come back
\* (reappearance_reason): it has no section left, so it is the one that is read when
\* the base ini has none.
THEOREM ReturnAnnounced == Spec => []ReturnIsAnnounced
<1>1. UninstallInv => ReturnIsAnnounced
  <2> SUFFICES ASSUME UninstallInv, Uninstalling, run.pc = "config", run.done = {}, Result(run) = "ok",
                      "twice" \notin defects, run.process \cap Configured(ini) # {}
               PROVE  run.warned # {}
    BY DEF ReturnIsAnnounced
  <2>1. run.cleaned /\ run.failed = {}
    BY DEF Result
  <2>2. /\ \A f \in ToSet(IniFiles) : Sections(ini, f) \subseteq Sections(run.ini, f) \ run.process
        /\ run.ini[Base] # <<>> /\ ini[Base] = <<>> => run.warned # {}
        /\ run.ini[Base] = <<>> /\ DefaultDb \in run.process => run.warned # {}
    BY <2>1 DEF UninstallInv, CleanInv
  <2>3. run.process \cap Sourced(ini) = {}
    BY <2>2 DEF Sourced
  <2>4. ini[Base] = <<>> /\ DefaultDb \in run.process
    BY <2>3 DEF Configured
  <2> QED
    BY <2>2, <2>4
<1> QED
  BY <1>1, UninstallInvariant, PTL

-----------------------------------------------------------------------------
(* 5. What the main store expects on the drives *)

\* A store as it is read and as a session has it: what has a fingerprint has a store,
\* and what is in a place is in one there can be.
StoreOK(s) ==
  /\ DOMAIN s = {"dbs", "prints"} /\ DOMAIN s.prints \subseteq DOMAIN s.dbs
  /\ \A db \in DOMAIN s.prints : "exp" \in DOMAIN s.prints[db]
InPlaces(s) == \A db \in DOMAIN s.dbs : DOMAIN s.dbs[db] \subseteq Places

StoreInv ==
  /\ plugged \subseteq DriveSet /\ DOMAIN ext = DriveSet
  /\ main.st = "whole" => StoreOK(main.is)
  /\ run # Idle => /\ {"kind", "pc", "mem", "left"} \subseteq DOMAIN run
                   /\ StoreOK(run.mem) /\ InPlaces(run.mem)
                   /\ run.pc \in {"import", "prints", "main", "table", "remove"} => run.left = DriveSet

\* The drives that have a fragment of a database, be they there or not.
HasOn(db) == {d \in DriveSet : ext[d].st = "whole" /\ db \in DOMAIN ext[d].is}

\* A bag of fragments, one for each drive of a set that has all of S.
AccountsFor(bag, S) ==
  \E D \in SUBSET DriveSet : S \subseteq D /\ \E f : DOMAIN f = D /\ bag = BagOf(f)

\* The main store is saved, and not yet what it expects on the drives.
Saving == run.pc \in {"table", "drives"} \cup DriveSet

\* As long as no defect has struck, the main store expects as many fragments of a
\* database as there are drives with one.  While they are saved, the drives that are
\* done or away have only what the session has there.
CoverInv ==
  Sound /\ main.st = "whole" =>
    IF Saving
    THEN /\ main.is.prints = Stamped(run.mem)
         /\ \A db \in DOMAIN run.mem.dbs : \A d \in HasOn(db) :
              d \notin plugged \cap run.left => d \in DOMAIN run.mem.dbs[db]
    ELSE \A db \in DOMAIN main.is.prints : \A bag \in main.is.prints[db].exp :
           AccountsFor(bag, HasOn(db))

DrivesInv == StoreInv /\ CoverInv

\* The drives are finitely many, and none is the base.
LEMMA DrivesAreFinite == IsFiniteSet(DriveSet) /\ "base" \notin DriveSet /\ "idle" \notin DriveSet
<1>1. Drives \in Seq(STRING) /\ DriveSet \cap (Phases \cup {"base"}) = {}
  BY StoreAssumption DEF DriveSet
<1>2. IsFiniteSet(1..Len(Drives))
  BY <1>1, FS_Interval
<1>3. Drives \in Surjection(1..Len(Drives), DriveSet)
  BY <1>1 DEF Surjection, DriveSet, ToSet
<1>4. IsFiniteSet(DriveSet)
  BY <1>2, <1>3, FS_Surjection
<1> QED
  BY <1>1, <1>4 DEF Phases

\* A set that has no more elements than another goes into it.
LEMMA GoesInto ==
  ASSUME NEW S, NEW T, IsFiniteSet(S), IsFiniteSet(T), Cardinality(S) <= Cardinality(T)
  PROVE  Injection(S, T) # {}
<1> DEFINE m == Cardinality(S)
           n == Cardinality(T)
<1>1. /\ m \in Nat /\ ExistsBijection(1..m, S)
      /\ n \in Nat /\ ExistsBijection(1..n, T)
  BY FS_CardinalityType
<1> HIDE DEF m, n
<1>2. m <= n
  BY DEF m, n
<1>3. ExistsInjection(1..m, 1..n)
  BY <1>1, <1>2, Fun_NatInjLeq
<1>4. ExistsInjection(S, 1..m)
  BY <1>1, Fun_ExistsBijEquiv
<1>5. ExistsInjection(1..n, T)
  BY <1>1, Fun_ExistsBijEquiv
<1>6. ExistsInjection(S, T)
  BY <1>3, <1>4, <1>5, Fun_ExistsInjTransitive
<1> QED
  BY <1>6 DEF ExistsInjection

\* A bag that is within another is of no more elements.
LEMMA BagWithin ==
  ASSUME NEW f, NEW g, IsFiniteSet(DOMAIN f), IsFiniteSet(DOMAIN g), BagOf(f) \sqsubseteq BagOf(g)
  PROVE  Cardinality(DOMAIN f) <= Cardinality(DOMAIN g)
<1> DEFINE F(x) == {d \in DOMAIN f : f[d] = x}
           G(x) == {d \in DOMAIN g : g[d] = x}
           h(x) == CHOOSE j \in Injection(F(x), G(x)) : TRUE
           all == [d \in DOMAIN f |-> h(f[d])[d]]
<1>1. ASSUME NEW x \in Range(f) PROVE h(x) \in Injection(F(x), G(x))
  <2>1. IsFiniteSet(F(x)) /\ IsFiniteSet(G(x))
    <3>1. F(x) \in SUBSET DOMAIN f /\ G(x) \in SUBSET DOMAIN g
      OBVIOUS
    <3> HIDE DEF F, G
    <3> QED
      BY <3>1, FS_Subset
  <2>2. Cardinality(F(x)) <= Cardinality(G(x))
    <3>1. DOMAIN BagOf(f) = Range(f) /\ DOMAIN BagOf(g) = Range(g)
      BY DEF BagOf
    <3>2. x \in Range(g) /\ BagOf(f)[x] <= BagOf(g)[x]
      BY <3>1 DEF \sqsubseteq
    <3>3. BagOf(f)[x] = Cardinality(F(x)) /\ BagOf(g)[x] = Cardinality(G(x))
      BY <3>2 DEF BagOf
    <3> QED
      BY <3>2, <3>3
  <2>3. Injection(F(x), G(x)) # {}
    <3> HIDE DEF F, G
    <3> QED
      BY <2>1, <2>2, GoesInto
  <2> QED
    BY <2>3
<1>2. ASSUME NEW d \in DOMAIN f
      PROVE  /\ f[d] \in Range(f) /\ d \in F(f[d])
             /\ all[d] = h(f[d])[d] /\ all[d] \in G(f[d])
  <2>1. f[d] \in Range(f) /\ d \in F(f[d]) /\ all[d] = h(f[d])[d]
    BY DEF Range
  <2>2. h(f[d]) \in [F(f[d]) -> G(f[d])]
    BY <1>1, <2>1 DEF Injection
  <2> QED
    BY <2>1, <2>2
<1>3. all \in Injection(DOMAIN f, DOMAIN g)
  <2>1. all \in [DOMAIN f -> DOMAIN g]
    BY <1>2
  <2>2. ASSUME NEW d \in DOMAIN f, NEW e \in DOMAIN f, all[d] = all[e] PROVE d = e
    <3>1. f[d] = f[e]
      BY <1>2, <2>2
    <3>2. IsInjective(h(f[d])) /\ DOMAIN h(f[d]) = F(f[d])
      BY <1>1, <1>2 DEF Injection
    <3>3. d \in F(f[d]) /\ e \in F(f[d]) /\ h(f[d])[d] = h(f[d])[e]
      BY <1>2, <2>2, <3>1
    <3> QED
      BY <3>2, <3>3 DEF IsInjective
  <2> QED
    BY <2>1, <2>2 DEF Injection, IsInjective
<1> QED
  BY <1>3, FS_Injection

\* When the fragments on some drives are what is expected, no other drive has one.
LEMMA CoveredIsAll ==
  ASSUME NEW S, NEW g, NEW bag, AccountsFor(bag, S), DOMAIN g \subseteq S, bag \sqsubseteq BagOf(g)
  PROVE  DOMAIN g = S
<1>1. PICK D \in SUBSET DriveSet : S \subseteq D /\ \E f : DOMAIN f = D /\ bag = BagOf(f)
  BY DEF AccountsFor
<1>2. PICK f : DOMAIN f = D /\ bag = BagOf(f)
  BY <1>1
<1>3. IsFiniteSet(D) /\ DOMAIN g \in SUBSET D
  BY <1>1, DrivesAreFinite, FS_Subset
<1>4. IsFiniteSet(DOMAIN g) /\ Cardinality(DOMAIN g) <= Cardinality(D)
  BY <1>3, FS_Subset
<1>5. Cardinality(D) <= Cardinality(DOMAIN g)
  BY <1>2, <1>3, <1>4, BagWithin
<1>6. Cardinality(DOMAIN g) \in Nat /\ Cardinality(D) \in Nat
  BY <1>3, <1>4, FS_CardinalityType
<1>7. DOMAIN g = D
  BY <1>3, <1>4, <1>5, <1>6, FS_Subset
<1> QED
  BY <1>1, <1>7

\* At the start nothing is expected.
LEMMA DrivesInit == Init => DrivesInv
<1> SUFFICES ASSUME Init PROVE DrivesInv
  OBVIOUS
<1>1. plugged \subseteq DriveSet /\ DOMAIN ext = DriveSet /\ run = Idle /\ ~Saving
  BY DrivesAreFinite DEF Init, Saving, Idle
<1>2. ASSUME main.st = "whole"
      PROVE  StoreOK(main.is) /\ \A db \in DOMAIN main.is.prints : main.is.prints[db].exp = {}
  <2>1. Legacy
    BY <1>2 DEF Init, Nothing, Absent
  <2>2. main.is = [dbs |-> [db \in Configured(ini) |-> Editions[db][1]],
                   prints |-> [db \in Configured(ini) |-> [edition |-> 1, exp |-> {}]]]
    BY <2>1 DEF Legacy, Whole
  <2> QED
    BY <2>2 DEF StoreOK
<1> QED
  BY <1>1, <1>2 DEF DrivesInv, StoreInv, CoverInv

\* The stores that a session loads or makes.
LEMMA NewStoreOK == StoreOK(NewStore) /\ InPlaces(NewStore)
BY DEF StoreOK, InPlaces, NewStore, NoMap

\* What is loaded from the stores that are there is well formed,
LEMMA LoadedOK ==
  ASSUME StoreInv
  PROVE  StoreOK(Loaded) /\ InPlaces(Loaded)
<1> DEFINE own == IF main.st = "whole" THEN main.is ELSE NewStore
           on(x) == {d \in plugged : /\ ext[d].st = "whole" /\ x \in DOMAIN ext[d].is
                                     /\ \/ main.st = "absent"
                                        \/ x \in DOMAIN own.dbs \cup Configured(ini)}
           known == DOMAIN own.dbs \cup {x \in Dbs : on(x) # {}}
           base(x) == IF x \in DOMAIN own.dbs THEN own.dbs[x] ELSE {}
           all == [dbs |-> [x \in known |-> [place \in {"base"} \cup on(x) |->
                                               IF place = "base" THEN base(x) ELSE ext[place].is[x]]],
                   prints |-> own.prints]
<1>1. StoreOK(own)
  BY NewStoreOK DEF StoreInv
<1>2. \A x : {"base"} \cup on(x) \subseteq Places
  BY DEF StoreInv, Places
<1>3. Loaded = IF main.st = "torn" THEN NewStore ELSE all
  BY DEF Loaded
<1>4. StoreOK(all) /\ InPlaces(all)
  <2> HIDE DEF own, on, base
  <2>1. DOMAIN own.dbs \subseteq known
    OBVIOUS
  <2> QED
    BY <1>1, <1>2, <2>1 DEF StoreOK, InPlaces
<1> QED
  BY <1>3, <1>4, NewStoreOK

\* and so is it with the new stores of databases that had none.
LEMMA WithStoresOK ==
  ASSUME NEW s, NEW dbs, StoreOK(s), InPlaces(s)
  PROVE  StoreOK(WithStores(s, dbs)) /\ InPlaces(WithStores(s, dbs))
<1>1. \A db \in DOMAIN s.prints \cup dbs : "exp" \in DOMAIN PrintIn(s.prints, db)
  BY DEF StoreOK, PrintIn, NoPrint
<1>2. \A db \in DOMAIN s.dbs \cup dbs :
        DOMAIN (IF db \in DOMAIN s.dbs THEN s.dbs[db] ELSE [place \in {"base"} |-> {}]) \subseteq Places
  BY DEF InPlaces, Places
<1> QED
  BY <1>1, <1>2 DEF WithStores, StoreOK, InPlaces

\* What is saved expects what the session has on the drives.
LEMMA StampedIs ==
  ASSUME NEW s, StoreOK(s)
  PROVE  /\ DOMAIN Stamped(s) = DOMAIN s.prints
         /\ \A db \in DOMAIN s.prints : /\ "exp" \in DOMAIN Stamped(s)[db]
                                        /\ Stamped(s)[db].exp = {BagOf(Fragments(s, db))}
BY DEF Stamped, StoreOK

\* That accounts for the drives that have nothing else.
LEMMA StampedAccounts ==
  ASSUME NEW s, StoreOK(s), InPlaces(s), NEW db \in DOMAIN s.prints, NEW S \in SUBSET DriveSet,
         S \subseteq DOMAIN s.dbs[db], NEW bag \in Stamped(s)[db].exp
  PROVE  AccountsFor(bag, S)
<1> DEFINE D == DOMAIN s.dbs[db] \ {"base"}
<1>1. bag = BagOf(Fragments(s, db))
  BY StampedIs
<1>2. DOMAIN Fragments(s, db) = D
  BY DEF Fragments
<1>3. D \in SUBSET DriveSet /\ S \subseteq D
  BY DrivesAreFinite DEF StoreOK, InPlaces, Places
<1> QED
  BY <1>1, <1>2, <1>3 DEF AccountsFor

\* Where files go there is a place.
LEMMA AtAPlace == ASSUME StoreInv, NEW p PROVE At(p) \in {"base"} \cup plugged /\ At(p) \in Places
<1> DEFINE I == {i \in DOMAIN Drives : Drives[i] \in plugged}
<1>0. Drives \in Seq(STRING)
  BY StoreAssumption
<1>1. CASE p \in Outer /\ plugged # {}
  <2>1. I \in SUBSET Nat /\ I # {}
    <3>1. PICK d \in plugged : TRUE
      BY <1>1
    <3>2. d \in DriveSet
      BY <3>1 DEF StoreInv
    <3> QED
      BY <1>0, <3>2 DEF DriveSet, ToSet
  <2>2. PICK i \in I : \A j \in I : i <= j
    <3> HIDE DEF I
    <3> QED BY <2>1, SmallestOfSet
  <2>3. \A j \in 1..i-1 : Drives[j] \notin plugged
    BY <1>0, <2>1, <2>2
  <2>4. \E k \in DOMAIN Drives : Drives[k] \in plugged /\ \A j \in 1..k-1 : Drives[j] \notin plugged
    BY <2>2, <2>3
  <2>5. At(p) \in plugged
    BY <1>1, <2>4 DEF At
  <2> QED
    BY <2>5 DEF StoreInv, Places
<1>2. CASE ~(p \in Outer /\ plugged # {})
  BY <1>2 DEF At, Places
<1> QED
  BY <1>1, <1>2

\* The defects are never taken back.
LEMMA SoundBefore == ASSUME defects \subseteq defects', Sound' PROVE Sound
BY DEF Sound

\* What is expected stays so as long as the stores do.
LEMMA ExpectedStays ==
  ASSUME CoverInv, ~Saving, ~Saving', UNCHANGED <<main, ext>>, defects \subseteq defects'
  PROVE  CoverInv'
<1>1. \A db : HasOn(db)' = HasOn(db)
  BY DEF HasOn
<1>2. \A bag, S : AccountsFor(bag, S)' = AccountsFor(bag, S)
  BY DEF AccountsFor
<1>3. Sound' => Sound
  BY DEF Sound
<1> QED
  BY <1>1, <1>2, <1>3 DEF CoverInv

\* The phases before and after the main store is saved.
LEMMA NotSaving ==
  ASSUME run.pc \in {"idle", "import", "prints", "main", "free", "remove", "config"}
  PROVE  ~Saving
BY PcsAreNotIdle, DrivesAreFinite DEF Saving

\* The step that begins an update of the databases 'only', of which 'bad' fail.
BeginsWith(only, bad, lost) ==
  LET early == {db \in only \ bad : SkipsOpen(db)}
      mixed == only \ (bad \cup early)
      stored == IF mixed = {} THEN NewStore ELSE WithStores(Loaded, mixed)
      late == {db \in mixed : SkipsMix(stored, db)}
      dirty == \E db \in mixed : db \notin DOMAIN Loaded.dbs \/ Forces(stored, db)
  IN /\ troubles + Cardinality(bad) <= MaxTroubles /\ (bad = {} => ~lost)
     /\ troubles' = troubles + Cardinality(bad)
     /\ run' = IF lost /\ bad = only THEN Idle
               ELSE [kind |-> "update", pc |-> IF mixed \ late # {} THEN "import"
                                               ELSE IF dirty THEN "prints" ELSE "free",
                     skipped |-> early \cup late, process |-> mixed \ late, mem |-> stored,
                     dirty |-> dirty, failed |-> lost, left |-> DriveSet]
     /\ TornLoad(mixed # {})

\* Each action keeps what is known of the drives: an update begins,
LEMMA BeginDrives == ASSUME DrivesInv, Begin PROVE DrivesInv'
<1>1. run.pc = "idle" /\ UNCHANGED <<plugged, main, ext>> /\ defects \subseteq defects'
  BY DEF Begin, knowledge, TornLoad, Struck
<1>2. PICK dbs :
        \/ run' = Idle
        \/ /\ {"kind", "pc", "mem", "left"} \subseteq DOMAIN run' /\ run'.pc \in {"import", "prints", "free"}
           /\ run'.left = DriveSet
           /\ run'.mem = IF dbs = {} THEN NewStore ELSE WithStores(Loaded, dbs)
  <2>1. PICK only \in {Configured(ini)} \cup {{db} : db \in Configured(ini)} :
          \E bad \in SUBSET only, lost \in BOOLEAN : BeginsWith(only, bad, lost)
    BY Zenon DEF Begin, BeginsWith
  <2>2. PICK bad \in SUBSET only, lost \in BOOLEAN : BeginsWith(only, bad, lost)
    BY <2>1
  <2> DEFINE early == {db \in only \ bad : SkipsOpen(db)}
             mixed == only \ (bad \cup early)
             stored == IF mixed = {} THEN NewStore ELSE WithStores(Loaded, mixed)
             late == {db \in mixed : SkipsMix(stored, db)}
             dirty == \E db \in mixed : db \notin DOMAIN Loaded.dbs \/ Forces(stored, db)
             session == [kind |-> "update", pc |-> IF mixed \ late # {} THEN "import"
                                                   ELSE IF dirty THEN "prints" ELSE "free",
                         skipped |-> early \cup late, process |-> mixed \ late, mem |-> stored,
                         dirty |-> dirty, failed |-> lost, left |-> DriveSet]
  <2>3. run' = Idle \/ run' = session
    BY <2>2 DEF BeginsWith
  <2> HIDE DEF mixed, late, dirty, early
  <2>4. /\ {"kind", "pc", "mem", "left"} \subseteq DOMAIN session /\ session.mem = stored
        /\ session.pc \in {"import", "prints", "free"} /\ session.left = DriveSet
    OBVIOUS
  <2> QED
    BY <2>3, <2>4
<1>3. run' = Idle \/ (StoreOK(run'.mem) /\ InPlaces(run'.mem))
  BY <1>2, NewStoreOK, LoadedOK, WithStoresOK DEF DrivesInv
<1>4. StoreInv'
  <2>1. \A r : StoreOK(r)' = StoreOK(r) /\ InPlaces(r)' = InPlaces(r)
    BY DEF StoreOK, InPlaces, Places
  <2> QED
    BY <1>1, <1>2, <1>3 DEF DrivesInv, StoreInv, StoreOK, InPlaces, Places
<1>5. ~Saving /\ ~Saving'
  BY <1>1, <1>2, NotSaving, PcsAreNotIdle, DrivesAreFinite DEF Saving, Idle
<1> QED
  BY <1>1, <1>4, <1>5, ExpectedStays DEF DrivesInv

\* The stores after the files are imported.
LEMMA StoresAfterOK ==
  ASSUME StoreInv, run # Idle, NEW first, NEW bad
  PROVE  StoreOK(StoresAfter(first, bad)) /\ InPlaces(StoresAfter(first, bad))
<1>1. StoreOK(run.mem) /\ InPlaces(run.mem)
  BY DEF StoreInv
<1>2. ASSUME NEW db \in DOMAIN run.mem.dbs PROVE DOMAIN ClaimsAfter(first, bad, db) \subseteq Places
  BY <1>1, AtAPlace DEF ClaimsAfter, InPlaces
<1>3. ASSUME NEW db \in DOMAIN run.mem.prints
      PROVE  "exp" \in DOMAIN [run.mem.prints[db] EXCEPT !.edition = edition[db]]
  BY <1>1 DEF StoreOK
<1> QED
  BY <1>1, <1>2, <1>3 DEF StoresAfter, StoreOK, InPlaces

\* files are imported,
LEMMA ImportDrives == ASSUME UninstallInv, DrivesInv, Import PROVE DrivesInv'
<1>1. /\ run.pc = "import" /\ run # Idle /\ {"kind", "pc"} \subseteq DOMAIN run
      /\ UNCHANGED <<plugged, main, ext>>
  BY ImportStep DEF knowledge
<1>2. PICK first \in run.process : \E bad \in {{}} \cup {{p} : p \in Needed} : ImportsWith(first, bad)
  BY ImportStep
<1>3. PICK bad : ImportsWith(first, bad)
  BY <1>2
<1>4. defects \subseteq defects'
  BY <1>3 DEF ImportsWith, Struck
<1>5. StoreInv /\ {"kind", "pc", "mem", "left"} \subseteq DOMAIN run
  BY <1>1 DEF DrivesInv, StoreInv
<1>6. /\ DOMAIN run' = DOMAIN run /\ run'.mem = StoresAfter(first, bad) /\ run'.pc \in {"prints", "free"}
      /\ run'.left = run.left
  BY <1>1, <1>3, <1>5, ImportRun DEF ImportsWith
<1>7. StoreOK(run'.mem) /\ InPlaces(run'.mem)
  BY <1>1, <1>5, <1>6, StoresAfterOK
<1>8. run.left = DriveSet
  BY <1>1, <1>5 DEF StoreInv
<1>9. StoreInv'
  BY <1>1, <1>5, <1>6, <1>7, <1>8 DEF StoreInv, StoreOK, InPlaces, Places
<1>10. ~Saving /\ ~Saving'
  BY <1>1, <1>6, NotSaving, PcsAreNotIdle DEF Saving
<1> QED
  BY <1>1, <1>4, <1>9, <1>10, ExpectedStays DEF DrivesInv

\* What a session has in memory stays while it is saved.
LEMMA SavesKeepStores ==
  ASSUME UninstallInv, StoreInv, Saves
  PROVE  /\ StoreInv' /\ run # Idle /\ run'.mem = run.mem /\ plugged' = plugged
         /\ defects \subseteq defects'
<1>1. /\ plugged' = plugged /\ defects \subseteq defects'
      /\ run.pc \in {"prints", "main", "table", "drives"} \cup DriveSet
  BY SavingStep
<1>2. run # Idle
  BY <1>1, DrivesAreFinite DEF Idle
<1>3. DOMAIN run' = DOMAIN run /\ run'.mem = run.mem
  BY <1>2, SavingStep DEF StoreInv, Proceeds
<1>4. DOMAIN ext' = DOMAIN ext
  BY DEF Saves, RemovePrints, SaveMain, SavePrints, Touch, SaveDrive, SaveManifest
<1>5. main' = main \/ SaveMain
  BY DEF Saves, RemovePrints, SavePrints, Touch, SaveDrive, SaveManifest
<1>6. StoreOK(run.mem) /\ InPlaces(run.mem)
  BY <1>2 DEF StoreInv
<1>7. ASSUME SaveMain PROVE StoreOK(main'.is)
  <2> DEFINE base == [db \in DOMAIN run.mem.dbs |-> run.mem.dbs[db]["base"]]
             expected == Stamped(run.mem)
  <2>1. main'.is = [dbs |-> base, prints |-> expected]
    BY <1>7 DEF SaveMain, Whole
  <2>2. DOMAIN base = DOMAIN run.mem.dbs /\ DOMAIN expected = DOMAIN run.mem.prints
    BY <1>6, StampedIs
  <2>3. \A db \in DOMAIN expected : "exp" \in DOMAIN expected[db]
    BY <1>6, StampedIs
  <2>4. DOMAIN run.mem.prints \subseteq DOMAIN run.mem.dbs
    BY <1>6 DEF StoreOK
  <2> HIDE DEF base, expected
  <2> QED
    BY <2>1, <2>2, <2>3, <2>4 DEF StoreOK
<1>8. run'.pc \in {"import", "prints", "main", "table", "remove"} => run'.left = DriveSet
  <2>1. ASSUME NEW d \in DriveSet, SaveDrive(d) \/ SaveManifest(d) PROVE run'.pc \in {"drives", d}
    BY <1>2, <2>1 DEF SaveDrive, SaveManifest, Step, StoreInv
  <2>2. RemovePrints \/ SaveMain => run.pc \in {"prints", "main"} /\ run'.left = run.left
    BY <1>2 DEF RemovePrints, SaveMain, Step, StoreInv
  <2>3. SavePrints \/ Touch => run'.pc \in {"drives", "free", "config"}
    BY <1>2 DEF SavePrints, Touch, Step, StoreInv
  <2> QED
    BY <1>2, <2>1, <2>2, <2>3, PcsAreNotIdle DEF Saves, StoreInv
<1> QED
  BY <1>1, <1>2, <1>3, <1>4, <1>5, <1>6, <1>7, <1>8 DEF StoreInv, StoreOK, InPlaces, Places

\* The main store is saved: it expects what the session has, and what is on a drive
\* that is away was loaded, or a defect strikes.
LEMMA MainCovers == ASSUME UninstallInv, DrivesInv, SaveMain PROVE CoverInv'
<1> SUFFICES ASSUME Sound' PROVE CoverInv'
  BY DEF CoverInv
<1>0. run'.mem = run.mem /\ plugged' = plugged
  BY SavesKeepStores DEF Saves, DrivesInv
<1>1. UNCHANGED ext /\ run'.pc = "table" /\ main'.is.prints = Stamped(run.mem)
  <2>1. "pc" \in DOMAIN run
    BY SavesKeepStores DEF Saves, DrivesInv, StoreInv
  <2> QED
    BY <2>1 DEF SaveMain, Step, Whole
<1>2. Saving'
  BY <1>1 DEF Saving
<1>3. Stamped(run.mem)' = Stamped(run.mem)
  BY <1>0 DEF Stamped, Fragments
<1>4. ASSUME NEW db \in DOMAIN run.mem.dbs PROVE ~Unread(db)
  <2>1. CASE db \in run.process
    BY <2>1 DEF SaveMain, Struck, Sound
  <2>2. CASE db \notin run.process
    BY <2>2 DEF SaveMain, Struck, Neglected, Sound
  <2> QED
    BY <2>1, <2>2
<1>5. ASSUME NEW db \in DOMAIN run.mem.dbs, NEW d \in HasOn(db), d \notin plugged
      PROVE  d \in DOMAIN run.mem.dbs[db]
  BY <1>4, <1>5 DEF Unread, HasOn
<1>6. run'.left = DriveSet
  BY <1>0, <1>1, SavesKeepStores DEF StoreInv, Saves, DrivesInv, Idle
<1> QED
  BY <1>0, <1>1, <1>2, <1>3, <1>5, <1>6 DEF CoverInv, HasOn

\* A drive is saved: what it has now is what the session has there; or what it still
\* has is too, or a defect strikes.
LEMMA DriveCovers ==
  ASSUME UninstallInv, DrivesInv, NEW d \in DriveSet, SaveDrive(d), Sound',
         NEW db \in DOMAIN run.mem.dbs, NEW e \in DriveSet, ext'[e].st = "whole", db \in DOMAIN ext'[e].is,
         e \notin plugged \cap (run.left \ {d})
  PROVE  e \in DOMAIN run.mem.dbs[db] \/ (e # d /\ ext'[e] = ext[e] /\ e \notin plugged \cap run.left)
                                      \/ (e = d /\ ext'[e] = ext[e] /\ e \notin plugged)
<1>1. run'.mem = run.mem /\ DOMAIN ext = DriveSet
  BY SavesKeepStores DEF Saves, DrivesInv, StoreInv
<1>2. CASE e # d
  <2>1. ext'[e] = ext[e]
    BY <1>1, <1>2 DEF SaveDrive
  <2> QED
    BY <1>2, <2>1
<1>3. CASE e = d /\ e \notin plugged
  BY <1>3 DEF SaveDrive
<1>4. CASE e = d /\ e \in plugged
  <2>1. CASE ext' = [ext EXCEPT ![d] = IF FragmentsOn(run.mem, d) = NoMap THEN Absent
                                       ELSE Whole(FragmentsOn(run.mem, d))]
    <3>1. ext'[d] = Absent \/ ext'[d] = Whole(FragmentsOn(run.mem, d))
      BY <1>1, <2>1
    <3>2. db \in DOMAIN FragmentsOn(run.mem, d)
      BY <1>4, <3>1 DEF Absent, Whole
    <3> QED
      BY <1>4, <3>2 DEF FragmentsOn
  <2>2. CASE Outlived(d)' => "outlived" \in defects'
    <3>1. ~Outlived(d)'
      BY <2>2 DEF Sound
    <3> QED
      BY <1>1, <1>4, <3>1 DEF Outlived
  <2> QED
    BY <1>4, <2>1, <2>2 DEF SaveDrive, Struck
<1> QED
  BY <1>2, <1>3, <1>4

\* The other files are saved: what is expected stays, and what the drives have.
LEMMA SavesDrives == ASSUME UninstallInv, DrivesInv, Saves PROVE DrivesInv'
<1>1. /\ StoreInv' /\ run # Idle /\ run'.mem = run.mem /\ plugged' = plugged
      /\ defects \subseteq defects' /\ {"pc", "left"} \subseteq DOMAIN run
      /\ StoreOK(run.mem) /\ InPlaces(run.mem)
  BY SavesKeepStores DEF DrivesInv, StoreInv
<1>2. Stamped(run.mem)' = Stamped(run.mem)
  BY <1>1 DEF Stamped, Fragments
<1>4. ASSUME Saving, Sound', main.st = "whole", NEW db \in DOMAIN run.mem.dbs, NEW d \in HasOn(db),
             d \notin plugged \cap run.left
      PROVE  d \in DOMAIN run.mem.dbs[db]
  BY <1>1, <1>4 DEF DrivesInv, CoverInv, Sound
<1>5. CASE RemovePrints
  <2>1. ~Saving /\ ~Saving' /\ UNCHANGED <<main, ext>>
    BY <1>1, <1>5, PcsAreNotIdle DEF RemovePrints, Step, Saving
  <2> QED
    BY <1>1, <2>1, ExpectedStays DEF DrivesInv
<1>6. CASE SaveMain
  BY <1>1, <1>6, MainCovers DEF DrivesInv
<1>7. CASE SavePrints
  <2>1. Saving /\ Saving' /\ UNCHANGED <<main, ext>> /\ run'.left = run.left
    BY <1>1, <1>7 DEF SavePrints, Step, Saving
  <2> QED
    BY <1>1, <1>2, <2>1 DEF DrivesInv, CoverInv, HasOn, Sound
<1>8. ASSUME NEW d \in DriveSet, SaveManifest(d) PROVE CoverInv'
  <2>1. Saving /\ Saving' /\ UNCHANGED <<main, ext>> /\ run'.left = run.left
    BY <1>1, <1>8 DEF SaveManifest, Step, Saving
  <2> QED
    BY <1>1, <1>2, <2>1 DEF DrivesInv, CoverInv, HasOn, Sound
<1>9. ASSUME NEW d \in DriveSet, SaveDrive(d) PROVE CoverInv'
  <2>1. Saving /\ Saving' /\ UNCHANGED main /\ run'.left = run.left \ {d}
    BY <1>1, <1>9 DEF SaveDrive, Saving
  <2> SUFFICES ASSUME Sound', main.st = "whole", NEW db \in DOMAIN run.mem.dbs, NEW e \in HasOn(db)',
                      e \notin plugged \cap run'.left
               PROVE  e \in DOMAIN run.mem.dbs[db]
    BY <1>1, <1>2, <2>1 DEF DrivesInv, CoverInv, Sound
  <2>2. e \in DriveSet /\ ext'[e].st = "whole" /\ db \in DOMAIN ext'[e].is
    BY DEF HasOn
  <2>3. \/ e \in DOMAIN run.mem.dbs[db]
        \/ ext'[e] = ext[e] /\ e \notin plugged \cap run.left
    BY <1>9, <2>1, <2>2, DriveCovers
  <2> QED
    BY <1>4, <2>1, <2>2, <2>3 DEF HasOn
<1>10. CASE Touch
  <2>1. ~Saving' /\ UNCHANGED <<main, ext>> /\ Saving
    BY <1>1, <1>10, PcsAreNotIdle DEF Touch, Step, Saving
  <2>2. run.left \cap plugged = {}
    BY <1>10 DEF Touch, NextDrives
  <2> SUFFICES ASSUME Sound', main.st = "whole", NEW db \in DOMAIN main.is.prints,
                      NEW bag \in main.is.prints[db].exp
               PROVE  AccountsFor(bag, HasOn(db))
    <3>1. \A x : HasOn(x)' = HasOn(x)
      BY <2>1 DEF HasOn
    <3>2. \A b, S : AccountsFor(b, S)' = AccountsFor(b, S)
      BY DEF AccountsFor
    <3> QED
      BY <1>1, <2>1, <3>1, <3>2 DEF CoverInv, DrivesInv
  <2>3. main.is.prints = Stamped(run.mem)
    BY <1>1, <2>1 DEF DrivesInv, CoverInv, Sound
  <2>4. db \in DOMAIN run.mem.prints /\ db \in DOMAIN run.mem.dbs
    BY <1>1, <2>3, StampedIs DEF StoreOK
  <2>5. HasOn(db) \subseteq DOMAIN run.mem.dbs[db] /\ HasOn(db) \in SUBSET DriveSet
    BY <1>4, <2>1, <2>2, <2>4 DEF HasOn
  <2> QED
    BY <1>1, <2>3, <2>4, <2>5, StampedAccounts
<1> QED
  BY <1>1, <1>5, <1>6, <1>7, <1>8, <1>9, <1>10 DEF Saves, DrivesInv

\* The process dies: what the drives have that were not saved yet is expected, or a
\* defect strikes.
LEMMA CrashDrives == ASSUME DrivesInv, Crash PROVE DrivesInv'
<1>1. /\ run' = Idle /\ plugged' = plugged /\ defects \subseteq defects' /\ run # Idle
      /\ main' = main \/ (main' = Torn /\ run.pc = "main")
  BY DEF Crash, Struck, Idle
<1>2. \A d \in DriveSet : ext'[d] = ext[d] \/ ext'[d] = Torn
  BY DEF Crash, DrivesInv, StoreInv
<1>3. DOMAIN ext' = DOMAIN ext
  BY DEF Crash
<1>4. StoreInv'
  BY <1>1, <1>3 DEF DrivesInv, StoreInv, StoreOK, Torn
<1>5. \A db : HasOn(db)' \subseteq HasOn(db)
  BY <1>2 DEF HasOn, Torn
<1>6. ~Saving'
  BY <1>1, DrivesAreFinite DEF Saving, Idle
<1>7. \A b, S : AccountsFor(b, S)' = AccountsFor(b, S)
  BY DEF AccountsFor
<1> SUFFICES ASSUME Sound', main.st = "whole", main' = main, NEW db \in DOMAIN main.is.prints,
                    NEW bag \in main.is.prints[db].exp
             PROVE  AccountsFor(bag, HasOn(db)')
  <2>1. main'.st = "whole" => main' = main
    BY <1>1 DEF Torn
  <2> QED
    BY <1>4, <1>6, <1>7, <2>1 DEF DrivesInv, CoverInv
<1>8. CASE Saving
  <2>1. StoreOK(run.mem) /\ InPlaces(run.mem) /\ main.is.prints = Stamped(run.mem)
    BY <1>1, <1>8 DEF DrivesInv, StoreInv, CoverInv, Sound
  <2>2. db \in DOMAIN run.mem.prints /\ db \in DOMAIN run.mem.dbs
    BY <2>1, StampedIs DEF StoreOK
  <2>3. \A d \in DriveSet : ~Outlived(d)
    BY <1>8 DEF Crash, Struck, Saving, Sound
  <2>4. HasOn(db) \subseteq DOMAIN run.mem.dbs[db]
    BY <2>2, <2>3 DEF HasOn, Outlived
  <2>5. HasOn(db)' \in SUBSET DriveSet
    BY <1>5 DEF HasOn
  <2> QED
    BY <1>5, <2>1, <2>2, <2>4, <2>5, StampedAccounts
<1>9. CASE ~Saving
  <2>1. AccountsFor(bag, HasOn(db))
    BY <1>1, <1>9 DEF DrivesInv, CoverInv, Sound
  <2>2. PICK D \in SUBSET DriveSet : HasOn(db) \subseteq D /\ \E f : DOMAIN f = D /\ bag = BagOf(f)
    BY <2>1 DEF AccountsFor
  <2>3. HasOn(db)' \subseteq D
    BY <1>5, <2>2
  <2> QED
    BY <2>2, <2>3 DEF AccountsFor
<1> QED
  BY <1>8, <1>9

\* An uninstall begins, with the stores it has loaded,
LEMMA BeginUninstallDrives == ASSUME DrivesInv, BeginUninstall PROVE DrivesInv'
<1>1. run.pc = "idle" /\ UNCHANGED <<plugged, main, ext>> /\ defects \subseteq defects'
  BY DEF BeginUninstall, knowledge, TornLoad, Struck
<1>2. /\ {"kind", "pc", "mem", "left"} \subseteq DOMAIN run' /\ run'.mem = Loaded
      /\ run'.pc = "remove" /\ run'.left = DriveSet
  BY DEF BeginUninstall
<1>3. StoreInv'
  BY <1>1, <1>2, LoadedOK DEF DrivesInv, StoreInv, StoreOK, InPlaces, Places
<1>4. ~Saving /\ ~Saving'
  BY <1>1, <1>2, NotSaving, PcsAreNotIdle DEF Saving
<1> QED
  BY <1>1, <1>3, <1>4, ExpectedStays DEF DrivesInv

\* a file is forgotten or kept,
LEMMA RemoveFileDrives ==
  ASSUME UninstallInv, DrivesInv, NEW db, NEW place, NEW p, RemoveFile(db, place, p)
  PROVE  DrivesInv'
<1>1. run.pc = "remove" /\ UNCHANGED <<plugged, main, ext>> /\ defects \subseteq defects' /\ run # Idle
  BY DEF RemoveFile, knowledge, Struck, Idle
<1>2. /\ DOMAIN run' = DOMAIN run /\ DOMAIN run = UninstallFields /\ run'.pc = "remove"
      /\ run'.left = run.left /\ run'.kind = run.kind
  BY <1>1, RemovingStep, InUninstall DEF UninstallFields
<1>3. run'.mem = run.mem \/ run'.mem = Forgotten(db, place, p)
  <2> DEFINE rest == [run EXCEPT !.todo = @ \ {<<db, place, p>>}]
  <2>1. DOMAIN rest = DOMAIN run /\ rest.mem = run.mem
    BY <1>2 DEF UninstallFields
  <2>2. \/ run' = [rest EXCEPT !.gone = @ \cup {<<db, place>>}]
        \/ run' = [rest EXCEPT !.mem = Forgotten(db, place, p)]
        \/ run' = [rest EXCEPT !.broken = @ \cup {db}]
    BY DEF RemoveFile
  <2> HIDE DEF rest
  <2> QED
    BY <1>2, <2>1, <2>2 DEF UninstallFields
<1>4. StoreOK(run.mem) /\ InPlaces(run.mem)
  BY <1>1 DEF DrivesInv, StoreInv
<1>5. StoreOK(Forgotten(db, place, p)) /\ InPlaces(Forgotten(db, place, p))
  <2> DEFINE after == [run.mem.dbs EXCEPT ![db][place] = @ \ {p}]
  <2>1. /\ DOMAIN Forgotten(db, place, p) = {"dbs", "prints"}
        /\ Forgotten(db, place, p).dbs = after /\ Forgotten(db, place, p).prints = run.mem.prints
    BY <1>4 DEF Forgotten, StoreOK
  <2>2. DOMAIN after = DOMAIN run.mem.dbs /\ \A x \in DOMAIN after : DOMAIN after[x] = DOMAIN run.mem.dbs[x]
    OBVIOUS
  <2> HIDE DEF after
  <2> QED
    BY <1>4, <2>1, <2>2 DEF StoreOK, InPlaces
<1>6. StoreInv'
  BY <1>1, <1>2, <1>3, <1>4, <1>5 DEF DrivesInv, StoreInv, StoreOK, InPlaces, Places
<1>7. ~Saving /\ ~Saving'
  BY <1>1, <1>2, NotSaving, PcsAreNotIdle DEF Saving
<1> QED
  BY <1>1, <1>6, <1>7, ExpectedStays DEF DrivesInv

\* the databases with nothing left are forgotten,
LEMMA ForgetDrives == ASSUME UninstallInv, DrivesInv, Forget PROVE DrivesInv'
<1>1. run.pc = "remove" /\ UNCHANGED <<plugged, main, ext>> /\ defects \subseteq defects' /\ run # Idle
  BY DEF Forget, knowledge, Struck, Idle
<1>2. DOMAIN run = UninstallFields
  BY <1>1, InUninstall
<1>3. PICK pc \in {"config", "prints"} : \E done, failing :
        run' = [run EXCEPT !.done = done, !.failed = failing, !.pc = pc,
                  !.mem = [dbs |-> Restrict(run.mem.dbs, DOMAIN run.mem.dbs \ done),
                           prints |-> Restrict(run.mem.prints, DOMAIN run.mem.prints \ done)]]
  BY DEF Forget
<1>s. PICK done :
        \E failing :
          run' = [run EXCEPT !.done = done, !.failed = failing, !.pc = pc,
                  !.mem = [dbs |-> Restrict(run.mem.dbs, DOMAIN run.mem.dbs \ done),
                           prints |-> Restrict(run.mem.prints, DOMAIN run.mem.prints \ done)]]
  BY <1>3
<1> DEFINE after == [dbs |-> Restrict(run.mem.dbs, DOMAIN run.mem.dbs \ done),
                     prints |-> Restrict(run.mem.prints, DOMAIN run.mem.prints \ done)]
<1>4. PICK failing : run' = [run EXCEPT !.done = done, !.failed = failing, !.pc = pc, !.mem = after]
  BY <1>s
<1>5. StoreOK(after) /\ InPlaces(after)
  BY <1>1 DEF DrivesInv, StoreInv, StoreOK, InPlaces, Restrict
<1> HIDE DEF after
<1>6. DOMAIN run' = DOMAIN run /\ run'.mem = after /\ run'.pc = pc /\ run'.left = run.left
  BY <1>2, <1>4 DEF UninstallFields
<1>7. StoreInv'
  BY <1>1, <1>5, <1>6 DEF DrivesInv, StoreInv, StoreOK, InPlaces, Places
<1>8. ~Saving /\ ~Saving'
  BY <1>1, <1>6, NotSaving, PcsAreNotIdle DEF Saving
<1> QED
  BY <1>1, <1>7, <1>8, ExpectedStays DEF DrivesInv

\* the sections of a database are removed, a session ends, a drive comes or goes.
LEMMA OthersDrives ==
  ASSUME UninstallInv, DrivesInv, CleanConfig \/ EndUninstall \/ FreeSpaces \/ Change
  PROVE  DrivesInv'
<1>1. UNCHANGED <<main, ext>> /\ defects \subseteq defects'
  BY DEF CleanConfig, EndUninstall, FreeSpaces, Change, knowledge, Struck
<1>2. run.pc \in {"config", "free"} \/ Change
  BY DEF CleanConfig, EndUninstall, FreeSpaces
<1>3. CASE Change
  <2>1. run' = run /\ plugged' \subseteq DriveSet
    BY <1>3 DEF Change, DrivesInv, StoreInv
  <2>2. ~Saving \/ plugged' = plugged
    BY <1>3, NotSaving DEF Change
  <2>3. StoreInv'
    BY <1>1, <2>1 DEF DrivesInv, StoreInv, StoreOK, InPlaces, Places
  <2>4. Saving' = Saving /\ Stamped(run.mem)' = Stamped(run.mem)
    BY <2>1 DEF Saving, Stamped, Fragments
  <2>5. CASE ~Saving
    BY <1>1, <2>3, <2>4, <2>5, ExpectedStays DEF DrivesInv
  <2>6. CASE plugged' = plugged
    BY <1>1, <2>1, <2>3, <2>4, <2>6 DEF DrivesInv, CoverInv, HasOn, AccountsFor, Sound
  <2> QED
    BY <2>2, <2>5, <2>6
<1>4. CASE CleanConfig \/ EndUninstall \/ FreeSpaces
  <2>1. run.pc \in {"config", "free"} /\ plugged' = plugged
    BY <1>4 DEF CleanConfig, EndUninstall, FreeSpaces
  <2>2. run # Idle
    BY <2>1 DEF Idle
  <2>3. \/ run' = Idle
        \/ DOMAIN run' = DOMAIN run /\ run'.mem = run.mem /\ run'.left = run.left /\ run'.pc = run.pc
    <3>1. CASE CleanConfig
      <4>1. PICK done, cleaned, warned :
              run' = [run EXCEPT !.done = done, !.cleaned = cleaned, !.warned = warned]
        BY <3>1 DEF CleanConfig
      <4>2. DOMAIN run = UninstallFields
        BY <3>1, InUninstall DEF CleanConfig
      <4> QED
        BY <4>1, <4>2 DEF UninstallFields
    <3> QED
      BY <1>4, <3>1 DEF EndUninstall, FreeSpaces
  <2>4. StoreInv'
    BY <1>1, <2>1, <2>2, <2>3 DEF DrivesInv, StoreInv, StoreOK, InPlaces, Places
  <2>5. ~Saving /\ ~Saving'
    BY <2>1, <2>3, NotSaving, PcsAreNotIdle, DrivesAreFinite DEF Saving, Idle
  <2> QED
    BY <1>1, <2>4, <2>5, ExpectedStays DEF DrivesInv
<1> QED
  BY <1>3, <1>4

\* A step that changes nothing keeps the invariant of the drives.
LEMMA DrivesStutter == ASSUME DrivesInv, UNCHANGED vars PROVE DrivesInv'
<1>1. UNCHANGED <<plugged, main, ext, run, defects>>
  BY DEF vars, knowledge
<1>2. StoreInv'
  BY <1>1 DEF DrivesInv, StoreInv, StoreOK, InPlaces, Places
<1>3. CoverInv'
  BY <1>1 DEF DrivesInv, CoverInv, Sound, Saving, Stamped, Fragments, HasOn, AccountsFor
<1> QED
  BY <1>2, <1>3 DEF DrivesInv

\* The store cannot be saved: the main store and the drives are as they were.
LEMMA FailingDrives == ASSUME UninstallInv, DrivesInv, SaveFails PROVE DrivesInv'
<1>1. /\ UNCHANGED <<plugged, ext, main>> /\ defects \subseteq defects' /\ run.pc = "main"
      /\ DOMAIN run' = DOMAIN run /\ run'.pc \in {"free", "config"}
      /\ run'.mem = run.mem /\ run'.left = run.left
  <2>1. {"mem", "left"} \subseteq DOMAIN run
    BY FailingStep DEF DrivesInv, StoreInv
  <2> QED
    BY <2>1, FailingStep
<1>2. StoreInv'
  BY <1>1, FailingStep DEF DrivesInv, StoreInv, StoreOK, InPlaces, Places
<1>3. ~Saving /\ ~Saving'
  BY <1>1, PcsAreNotIdle DEF Saving
<1>4. \A db : HasOn(db)' = HasOn(db)
  BY <1>1 DEF HasOn
<1>5. \A b, S : AccountsFor(b, S)' = AccountsFor(b, S)
  BY DEF AccountsFor
<1>6. Sound' => Sound
  BY <1>1 DEF Sound
<1> QED
  BY <1>1, <1>2, <1>3, <1>4, <1>5, <1>6 DEF DrivesInv, CoverInv

\* So every step keeps it.
LEMMA NextDrivesInv == UninstallInv /\ DrivesInv /\ [Next]_vars => DrivesInv'
<1> SUFFICES ASSUME UninstallInv, DrivesInv, Steps \/ UNCHANGED vars PROVE DrivesInv'
  BY AllSteps
<1>1. CASE Begin            BY <1>1, BeginDrives
<1>2. CASE Import           BY <1>2, ImportDrives
<1>3. CASE Saves            BY <1>3, SavesDrives
<1>4. CASE BeginUninstall   BY <1>4, BeginUninstallDrives
<1>5. CASE Forget           BY <1>5, ForgetDrives
<1>6. CASE Crash            BY <1>6, CrashDrives
<1>7. CASE CleanConfig \/ EndUninstall \/ FreeSpaces \/ Change  BY <1>7, OthersDrives
<1>8. CASE \E c \in run.todo : RemoveFile(c[1], c[2], c[3])
  <2>1. PICK c \in run.todo : RemoveFile(c[1], c[2], c[3])
    BY <1>8
  <2> QED
    BY <2>1, RemoveFileDrives
<1>9. CASE UNCHANGED vars   BY <1>9, DrivesStutter
<1>10. CASE SaveFails       BY <1>10, FailingDrives
<1> QED
  BY <1>1, <1>2, <1>3, <1>4, <1>5, <1>6, <1>7, <1>8, <1>9, <1>10 DEF Steps

-----------------------------------------------------------------------------
(* 6. What an uninstall leaves *)

\* What a store claimed for a database that is removed is gone or is kept for others;
\* until the session forgets the databases it may still be waiting, or have failed.
Pending(c) == c \in run.todo \/ <<c[1], c[2]>> \in run.gone \/ c[1] \in run.broken
CompleteInv ==
  Uninstalling =>
    /\ \A c \in run.claims : c = <<c[1], c[2], c[3]>> /\ c[2] \in Places
    /\ ~run.force /\ Sound =>
         \A c \in run.claims : c[1] \in run.process \cap DOMAIN run.was.dbs =>
           c[3] \notin files[c[2]] \/ Claimed(c[3]) \/ (run.pc = "remove" /\ Pending(c))

\* All that the stores claim for a database whose fragments are there is loaded: the
\* main store expects as many as there are drives with one.
LEMMA ClaimsAreLoaded ==
  ASSUME DrivesInv, Sound, ~Saving, NEW db \in DOMAIN Loaded.dbs,
         Covered(PrintIn(Loaded.prints, db), BagOf(Fragments(Loaded, db))),
         NEW c \in AllClaims, c[1] = db
  PROVE  c \in Items(Loaded, db)
<1> DEFINE own == IF main.st = "whole" THEN main.is ELSE NewStore
           on(x) == {d \in plugged : /\ ext[d].st = "whole" /\ x \in DOMAIN ext[d].is
                                     /\ \/ main.st = "absent"
                                        \/ x \in DOMAIN own.dbs \cup Configured(ini)}
           known == DOMAIN own.dbs \cup {x \in Dbs : on(x) # {}}
           base(x) == IF x \in DOMAIN own.dbs THEN own.dbs[x] ELSE {}
<1>1. PICK bag \in PrintIn(Loaded.prints, db).exp : bag \sqsubseteq BagOf(Fragments(Loaded, db))
  BY DEF Covered
<1>2. db \in DOMAIN Loaded.prints /\ bag \in Loaded.prints[db].exp
  BY <1>1 DEF PrintIn, NoPrint
<1>3. main.st = "whole" /\ Loaded.prints = main.is.prints
  BY <1>2 DEF Loaded, NewStore, NoMap
<1>4. db \in DOMAIN main.is.dbs
  BY <1>2, <1>3 DEF DrivesInv, StoreInv, StoreOK
<1>5. Loaded.dbs = [x \in known |-> [place \in {"base"} \cup on(x) |->
                                       IF place = "base" THEN base(x) ELSE ext[place].is[x]]]
  BY <1>3 DEF Loaded
<1>6. /\ DOMAIN Loaded.dbs[db] = {"base"} \cup on(db)
      /\ Loaded.dbs[db]["base"] = main.is.dbs[db]
      /\ \A d \in on(db) : d # "base" => Loaded.dbs[db][d] = ext[d].is[db]
  BY <1>3, <1>4, <1>5, SMTT(20)
<1>7. "base" \notin on(db) /\ on(db) \subseteq HasOn(db)
  BY DrivesAreFinite DEF DrivesInv, StoreInv, HasOn
<1>8. DOMAIN Fragments(Loaded, db) = on(db)
  <2> HIDE DEF on
  <2> QED
    BY <1>6, <1>7 DEF Fragments
<1>9. AccountsFor(bag, HasOn(db))
  BY <1>2, <1>3 DEF DrivesInv, CoverInv
<1>10. on(db) = HasOn(db)
  <2> HIDE DEF on
  <2> QED
    BY <1>1, <1>7, <1>8, <1>9, CoveredIsAll
<1>11. c[2] \in DOMAIN Loaded.dbs[db] /\ c[3] \in Loaded.dbs[db][c[2]] /\ c = <<db, c[2], c[3]>>
  <2>1. CASE c[2] = "base" /\ c[3] \in main.is.dbs[c[1]]
    BY <1>6, <2>1, ClaimIs
  <2>2. CASE /\ c[2] \in DriveSet /\ ext[c[2]].st = "whole" /\ c[1] \in DOMAIN ext[c[2]].is
             /\ c[3] \in ext[c[2]].is[c[1]]
    <3>1. c[2] \in HasOn(db)
      BY <2>2 DEF HasOn
    <3> HIDE DEF on
    <3> QED
      BY <1>6, <1>7, <1>10, <2>2, <3>1, ClaimIs
  <2> QED
    BY <2>1, <2>2, ClaimIs
<1> QED
  BY <1>11 DEF Items

\* A session that does not uninstall.
LEMMA NotUninstalling ==
  ASSUME run' = Idle \/ run'.kind = "update"
  PROVE  CompleteInv'
BY DEF CompleteInv, Uninstalling, Idle

\* An uninstall whose files and databases stay as they are.
LEMMA CompleteStays ==
  ASSUME CompleteInv, Uninstalling, files' = files, defects \subseteq defects',
         run'.claims = run.claims, run'.process = run.process, run'.was = run.was, run'.force = run.force,
         run.pc # "remove" \/ (run'.pc = "remove" /\ run'.todo = run.todo /\ run'.gone = run.gone
                               /\ run'.broken = run.broken)
  PROVE  CompleteInv'
<1>1. \A p : Claimed(p)' = Claimed(p)
  BY DEF Claimed, Recorded
<1>2. Sound' => Sound
  BY DEF Sound
<1>3. Places' = Places
  BY DEF Places
<1> QED
  BY <1>1, <1>2, <1>3 DEF CompleteInv, Uninstalling, Pending

\* Each action keeps it: an uninstall begins, of databases whose fragments are there,
LEMMA BeginUninstallCompletes == ASSUME DrivesInv, BeginUninstall PROVE CompleteInv'
<1>1. run.pc = "idle" /\ UNCHANGED <<plugged, main, ext>> /\ defects \subseteq defects'
  BY DEF BeginUninstall, knowledge, TornLoad, Struck
<1>2. PICK ids :
        /\ run'.process = ids \ run'.refused
        /\ run'.refused = IF run'.force THEN {} ELSE Refused(Loaded, ids)
        /\ run'.was = Loaded /\ run'.claims = AllClaims /\ run'.pc = "remove"
        /\ run'.todo = UNION {Items(Loaded, db) : db \in run'.process \cap DOMAIN Loaded.dbs}
  BY DEF BeginUninstall
<1>3. \A c \in run'.claims : c = <<c[1], c[2], c[3]>> /\ c[2] \in Places
  BY <1>2, ClaimIs
<1>4. ASSUME ~run'.force, Sound', NEW c \in AllClaims, c[1] \in run'.process \cap DOMAIN Loaded.dbs
      PROVE  c \in run'.todo
  <2>1. Covered(PrintIn(Loaded.prints, c[1]), BagOf(Fragments(Loaded, c[1])))
    BY <1>2, <1>4 DEF Refused
  <2>2. Sound
    BY <1>1, <1>4, SoundBefore
  <2>3. c \in Items(Loaded, c[1])
    BY <1>1, <1>4, <2>1, <2>2, NotSaving, ClaimsAreLoaded
  <2> QED
    BY <1>2, <1>4, <2>3
<1> QED
  BY <1>2, <1>3, <1>4 DEF CompleteInv, Pending, Places

\* a file is removed or kept, or it is known that it could not be,
LEMMA RemoveFileCompletes ==
  ASSUME UninstallInv, DrivesInv, CompleteInv, NEW db, NEW place, NEW p, RemoveFile(db, place, p)
  PROVE  CompleteInv'
<1>1. run.pc = "remove" /\ defects \subseteq defects'
  BY DEF RemoveFile, Struck
<1>2. DOMAIN run = UninstallFields /\ Uninstalling
  BY <1>1, InUninstall
<1>3. /\ run'.pc = "remove" /\ run'.claims = run.claims /\ run'.process = run.process
      /\ run'.was = run.was /\ run'.force = run.force
  BY <1>1, <1>2, RemovingStep DEF UninstallFields
<1>4. \A x : Claimed(x)' = Claimed(x)
  BY <1>3 DEF Claimed, Recorded
<1>5. \A x \in Places : files'[x] \subseteq files[x]
  BY RemovingStep DEF UninstallInv, FilesInv
<1>6. /\ run'.todo = run.todo \ {<<db, place, p>>}
      /\ run.gone \subseteq run'.gone /\ run.broken \subseteq run'.broken
      /\ \/ <<db, place>> \in run'.gone \/ db \in run'.broken
         \/ Claimed(p) \/ p \notin files[place]
         \/ place \in Places /\ p \notin files'[place]
  <2> DEFINE rest == [run EXCEPT !.todo = @ \ {<<db, place, p>>}]
  <2>1. /\ DOMAIN rest = DOMAIN run /\ rest.todo = run.todo \ {<<db, place, p>>}
        /\ rest.gone = run.gone /\ rest.broken = run.broken
    BY <1>2 DEF UninstallFields
  <2>5. \/ run' = [rest EXCEPT !.gone = @ \cup {<<db, place>>}]
        \/ run' = [rest EXCEPT !.broken = @ \cup {db}]
        \/ /\ run' = [rest EXCEPT !.mem = Forgotten(db, place, p)]
           /\ \/ Claimed(p) \/ p \notin files[place]
              \/ Reachable(db, place) /\ files' = [files EXCEPT ![place] = @ \ {p}]
    BY DEF RemoveFile
  <2> HIDE DEF rest
  <2>2. CASE run' = [rest EXCEPT !.gone = @ \cup {<<db, place>>}]
    BY <1>2, <2>1, <2>2 DEF UninstallFields
  <2>3. CASE run' = [rest EXCEPT !.broken = @ \cup {db}]
    BY <1>2, <2>1, <2>3 DEF UninstallFields
  <2>4. CASE /\ run' = [rest EXCEPT !.mem = Forgotten(db, place, p)]
             /\ \/ Claimed(p) \/ p \notin files[place]
                \/ Reachable(db, place) /\ files' = [files EXCEPT ![place] = @ \ {p}]
    <3>1. run'.todo = rest.todo /\ run'.gone = rest.gone /\ run'.broken = rest.broken
      BY <1>2, <2>1, <2>4 DEF UninstallFields
    <3>2. CASE Reachable(db, place) /\ files' = [files EXCEPT ![place] = @ \ {p}]
      BY <2>1, <3>1, <3>2 DEF Reachable, UninstallInv, FilesInv, Places, DrivesInv, StoreInv
    <3> QED
      BY <2>1, <2>4, <3>1, <3>2
  <2> QED
    BY <2>2, <2>3, <2>4, <2>5
<1> SUFFICES ASSUME ~run.force, Sound', NEW c \in run.claims, c[1] \in run.process \cap DOMAIN run.was.dbs
             PROVE  c[3] \notin files'[c[2]] \/ Claimed(c[3]) \/ Pending(c)'
  BY <1>2, <1>3, <1>4 DEF CompleteInv, Places
<1>7. c = <<c[1], c[2], c[3]>> /\ c[2] \in Places
  BY <1>2 DEF CompleteInv
<1>8. c[3] \notin files[c[2]] \/ Claimed(c[3]) \/ Pending(c)
  BY <1>1, <1>2 DEF CompleteInv, Sound
<1>9. CASE c = <<db, place, p>>
  <2>1. c[1] = db /\ c[2] = place /\ c[3] = p
    BY <1>9
  <2> QED
    BY <1>5, <1>6, <1>7, <2>1 DEF Pending
<1>10. CASE c # <<db, place, p>>
  BY <1>5, <1>6, <1>7, <1>8, <1>10 DEF Pending
<1> QED
  BY <1>9, <1>10

\* the databases are forgotten, and nothing has failed or a defect strikes,
LEMMA ForgetCompletes == ASSUME UninstallInv, CompleteInv, Forget PROVE CompleteInv'
<1>1. run.pc = "remove" /\ run.todo = {} /\ files' = files /\ defects \subseteq defects'
  BY DEF Forget, Struck
<1>2. DOMAIN run = UninstallFields /\ Uninstalling
  BY <1>1, InUninstall
<1>3. PICK failing :
        /\ \A db \in run.process : db \in {c[1] : c \in run.gone} \cup run.broken => db \in failing
        /\ failing # {} => ~Sound'
        /\ \E done, pc, mem : run' = [run EXCEPT !.done = done, !.failed = failing, !.pc = pc, !.mem = mem]
  BY DEF Forget, Struck, Sound
<1>4. PICK done, pc, mem : run' = [run EXCEPT !.done = done, !.failed = failing, !.pc = pc, !.mem = mem]
  BY <1>3
<1>5. /\ run'.claims = run.claims /\ run'.process = run.process
      /\ run'.was = run.was /\ run'.force = run.force
  BY <1>2, <1>4 DEF UninstallFields
<1>6. \A x : Claimed(x)' = Claimed(x)
  BY <1>5 DEF Claimed, Recorded
<1>7. ASSUME Sound', NEW c, c[1] \in run.process, Pending(c) PROVE FALSE
  <2> DEFINE mark == <<c[1], c[2]>>
  <2>1. mark[1] = c[1]
    OBVIOUS
  <2>2. mark \notin run.gone
    <3> HIDE DEF mark
    <3> QED BY <1>3, <1>7, <2>1
  <2> QED
    BY <1>1, <1>3, <1>7, <2>2 DEF Pending
<1> QED
  BY <1>1, <1>2, <1>5, <1>6, <1>7, SoundBefore DEF CompleteInv, Places

\* and what was removed stays so to the end.
LEMMA OthersComplete ==
  ASSUME UninstallInv, CompleteInv,
         \/ Begin \/ Import \/ Saves \/ CleanConfig \/ EndUninstall \/ FreeSpaces \/ Crash \/ Change
         \/ SaveFails \/ UNCHANGED vars
  PROVE  CompleteInv'
<1>1. CASE Begin
  <2>1. run' = Idle \/ run'.kind = "update"
    BY <1>1 DEF Begin
  <2> QED
    BY <2>1, NotUninstalling
<1>2. CASE Import
  <2>1. PICK first \in run.process : \E bad \in {{}} \cup {{p} : p \in Needed} : ImportsWith(first, bad)
    BY <1>2, ImportStep
  <2>2. PICK bad : ImportsWith(first, bad)
    BY <2>1
  <2>3. {"kind", "pc"} \subseteq DOMAIN run /\ run.kind = "update"
    BY <1>2, ImportStep
  <2>4. run'.kind = "update"
    BY <2>2, <2>3, ImportRun DEF ImportsWith
  <2> QED
    BY <2>4, NotUninstalling
<1>3. CASE Saves
  <2>1. PICK pc : Proceeds(pc)
    BY <1>3, SavingStep
  <2>2. /\ files' = files /\ defects \subseteq defects'
        /\ run.pc \in {"prints", "main", "table", "drives"} \cup DriveSet
    BY <1>3, SavingStep
  <2>3. run # Idle /\ run.pc # "remove"
    BY <2>2, PcsAreNotIdle, DrivesAreFinite DEF Idle
  <2>4. CASE {"kind", "pc"} \subseteq DOMAIN run /\ run.kind = "update"
    BY <2>1, <2>4, NotUninstalling DEF Proceeds
  <2>5. CASE DOMAIN run = UninstallFields /\ run.kind = "uninstall" /\ run.pc \in UninstallPcs
    <3>1. /\ run'.claims = run.claims /\ run'.process = run.process
          /\ run'.was = run.was /\ run'.force = run.force
      BY <2>1, <2>5 DEF Proceeds, UninstallFields
    <3>2. Uninstalling
      BY <2>5, PcsAreNotIdle DEF Uninstalling
    <3> QED
      BY <2>2, <2>3, <3>1, <3>2, CompleteStays
  <2> QED
    BY <2>3, <2>4, <2>5 DEF UninstallInv, RunInv
<1>4. CASE CleanConfig
  <2>1. run.pc = "config" /\ files' = files /\ defects \subseteq defects'
    BY <1>4 DEF CleanConfig, Struck
  <2>2. DOMAIN run = UninstallFields /\ Uninstalling
    BY <2>1, InUninstall
  <2>3. PICK done, cleaned, warned :
          run' = [run EXCEPT !.done = done, !.cleaned = cleaned, !.warned = warned]
    BY <1>4 DEF CleanConfig
  <2>4. /\ run'.claims = run.claims /\ run'.process = run.process
        /\ run'.was = run.was /\ run'.force = run.force
    BY <2>2, <2>3 DEF UninstallFields
  <2> QED
    BY <2>1, <2>2, <2>4, CompleteStays
<1>5. CASE EndUninstall \/ FreeSpaces \/ Crash
  BY <1>5, NotUninstalling DEF EndUninstall, FreeSpaces, Crash
<1>6. CASE Change \/ UNCHANGED vars
  <2>1. run' = run /\ files' = files /\ defects \subseteq defects'
    BY <1>6 DEF Change, Struck, vars
  <2>2. CASE Uninstalling
    BY <2>1, <2>2, CompleteStays
  <2>3. CASE ~Uninstalling
    BY <2>1, <2>3 DEF CompleteInv, Uninstalling
  <2> QED
    BY <2>2, <2>3
<1>7. CASE SaveFails
  <2>1. CASE Uninstalling'
    <3>1. /\ Uninstalling /\ run.pc = "main" /\ files' = files /\ defects \subseteq defects'
          /\ run'.claims = run.claims /\ run'.process = run.process
          /\ run'.was = run.was /\ run'.force = run.force
      BY <1>7, <2>1, FailingStep DEF UninstallFields
    <3> QED
      BY <3>1, CompleteStays
  <2>2. CASE ~Uninstalling'
    BY <2>2 DEF CompleteInv
  <2> QED
    BY <2>1, <2>2
<1> QED
  BY <1>1, <1>2, <1>3, <1>4, <1>5, <1>6, <1>7

\* Every step keeps that a complete uninstall leaves nothing.
LEMMA NextCompleteInv == UninstallInv /\ DrivesInv /\ CompleteInv /\ [Next]_vars => CompleteInv'
<1> SUFFICES ASSUME UninstallInv, DrivesInv, CompleteInv, Steps \/ UNCHANGED vars PROVE CompleteInv'
  BY AllSteps
<1>1. CASE BeginUninstall   BY <1>1, BeginUninstallCompletes
<1>2. CASE Forget           BY <1>2, ForgetCompletes
<1>3. CASE \E c \in run.todo : RemoveFile(c[1], c[2], c[3])
  <2>1. PICK c \in run.todo : RemoveFile(c[1], c[2], c[3])
    BY <1>3
  <2> QED
    BY <2>1, RemoveFileCompletes
<1> QED
  BY <1>1, <1>2, <1>3, OthersComplete DEF Steps

\* An uninstall that was not forced, of databases that a store at hand knows, and that
\* ends well has left no file on any drive that a store claimed for them, but for those
\* of others (verify_external_fragments, _remove_db).
THEOREM UninstallIsComplete == Spec => []UninstallComplete
<1> DEFINE All == UninstallInv /\ DrivesInv /\ CompleteInv
<1>1. Init => All
  BY InitInv, DrivesInit DEF Init, CompleteInv, Uninstalling, Idle
<1>2. All /\ [Next]_vars => All'
  BY NextInv, NextDrivesInv, NextCompleteInv
<1>3. All => UninstallComplete
  BY DEF CompleteInv, UninstallComplete
<1> HIDE DEF All
<1> QED
  BY <1>1, <1>2, <1>3, PTL DEF Spec

-----------------------------------------------------------------------------
(* 7. What the files of the updater have *)

Sane == defects \cap Unfounded = {}
Removing(db) == Uninstalling /\ db \in run.process
Lists(store, db) == store.st = "whole" /\ db \in DOMAIN store.is
Current(table, db) == db \in DOMAIN table /\ table[db].edition = edition[db]
\* The main store has the database as it is published.
Recalled(db) == main.st = "whole" /\ Current(main.is.prints, db)

UpdateFields == {"kind", "pc", "skipped", "process", "mem", "dirty", "failed", "left"}

\* A fingerprint is of an edition that was published, and expects at most one bag.
PrintOK(print, db) ==
  /\ DOMAIN print = {"edition", "exp"} /\ print.edition \in 0..edition[db]
  /\ \E bag : print.exp \subseteq {bag}
TableOK(table) == \A db \in DOMAIN table : db \in Dbs /\ PrintOK(table[db], db)

TypedInv ==
  /\ DOMAIN edition = Dbs /\ \A db \in Dbs : edition[db] \in 1..Len(Editions[db])
  /\ DOMAIN manifest = DriveSet
  /\ main.st = "whole" => TableOK(main.is.prints)
  /\ run # Idle => TableOK(run.mem.prints)

\* The fingerprints are those of the main store, or there are none.
PrintsInv ==
  /\ prints.st = "whole" => main.st = "whole" /\ prints.is = main.is.prints
  /\ run.pc \in {"main", "table"} => prints.st # "whole"
  /\ Saving => main.st = "whole" /\ main.is.prints = Stamped(run.mem)

\* An update processes some databases of the ini, and skips others.
SessionInv ==
  Updating =>
    /\ DOMAIN run = UpdateFields
    /\ run.process \cup run.skipped \subseteq Configured(ini) /\ run.process \cap run.skipped = {}
    /\ run.process \subseteq DOMAIN run.mem.dbs \cap DOMAIN run.mem.prints
    /\ run.skipped # {} => option = "fastest" \/ free.st = "whole"

TablesInv == TypedInv /\ PrintsInv /\ SessionInv

\* The databases of an ini are among those there are.
LEMMA ConfiguredKnown == UninstallInv => Configured(ini) \subseteq Dbs
<1> SUFFICES ASSUME UninstallInv PROVE Configured(ini) \subseteq Dbs
  OBVIOUS
<1>1. ASSUME NEW f \in ToSet(IniFiles) PROVE Sections(ini, f) \subseteq Dbs
  <2>1. ini[f] \in Seq(Dbs)
    BY DEF UninstallInv, IniInv, Accepted
  <2> QED
    BY <2>1, LenProperties, ElementOfSeq DEF Sections, ToSet
<1>2. Sourced(ini) \subseteq Dbs
  BY <1>1 DEF Sourced
<1> QED
  BY <1>2, EditionsAssumption DEF Configured

\* What Begin does with the databases 'only', of which 'bad' fail.
LEMMA BeginStep ==
  ASSUME Begin
  PROVE  /\ run.pc = "idle" /\ UNCHANGED <<ini, edition, option, plugged, files, knowledge>>
         /\ defects \subseteq defects'
         /\ \E only \in SUBSET Configured(ini) : \E bad \in SUBSET only, lost \in BOOLEAN :
              BeginsWith(only, bad, lost)
<1>1. PICK only \in {Configured(ini)} \cup {{db} : db \in Configured(ini)} :
        \E bad \in SUBSET only, lost \in BOOLEAN : BeginsWith(only, bad, lost)
  BY Zenon DEF Begin, BeginsWith
<1>2. only \in SUBSET Configured(ini)
  OBVIOUS
<1>3. run.pc = "idle" /\ UNCHANGED <<ini, edition, option, plugged, files, knowledge>>
  BY DEF Begin
<1>4. defects \subseteq defects'
  BY DEF Begin, TornLoad, Struck
<1> QED
  BY <1>1, <1>2, <1>3, <1>4

\* A session of an update begins with nothing, or with what is loaded.
LEMMA BeginRun ==
  ASSUME NEW only \in SUBSET Configured(ini), NEW bad \in SUBSET only, NEW lost \in BOOLEAN,
         BeginsWith(only, bad, lost)
  PROVE  \/ run' = Idle
         \/ \E early \in SUBSET Configured(ini), mixed \in SUBSET Configured(ini) :
              /\ early \cap mixed = {} /\ \A db \in early : SkipsOpen(db)
              /\ DOMAIN run' = UpdateFields /\ run'.kind = "update"
              /\ run'.pc \in {"import", "prints", "free"} /\ (run'.pc # "import" => run'.process = {})
              /\ run'.mem = IF mixed = {} THEN NewStore ELSE WithStores(Loaded, mixed)
              /\ run'.process \subseteq mixed /\ run'.skipped = early \cup (mixed \ run'.process)
              /\ \A db \in mixed \ run'.process : SkipsMix(run'.mem, db)
              /\ ~run'.dirty => mixed \subseteq DOMAIN Loaded.dbs
<1> DEFINE early == {db \in only \ bad : SkipsOpen(db)}
           mixed == only \ (bad \cup early)
           stored == IF mixed = {} THEN NewStore ELSE WithStores(Loaded, mixed)
           late == {db \in mixed : SkipsMix(stored, db)}
           dirty == \E db \in mixed : db \notin DOMAIN Loaded.dbs \/ Forces(stored, db)
           pc == IF mixed \ late # {} THEN "import" ELSE IF dirty THEN "prints" ELSE "free"
           session == [kind |-> "update", pc |-> pc, skipped |-> early \cup late,
                       process |-> mixed \ late, mem |-> stored,
                       dirty |-> dirty, failed |-> lost, left |-> DriveSet]
<1>1. run' = Idle \/ run' = session
  BY DEF BeginsWith
<1>2. /\ early \in SUBSET Configured(ini) /\ mixed \in SUBSET Configured(ini) /\ early \cap mixed = {}
      /\ \A db \in early : SkipsOpen(db)
  OBVIOUS
<1>3. late \subseteq mixed /\ \A db \in late : SkipsMix(stored, db)
  OBVIOUS
<1>4. ~dirty => mixed \subseteq DOMAIN Loaded.dbs
  OBVIOUS
<1>5. pc \in {"import", "prints", "free"} /\ (pc # "import" => mixed \ late = {})
  OBVIOUS
<1>6. stored = IF mixed = {} THEN NewStore ELSE WithStores(Loaded, mixed)
  OBVIOUS
<1> HIDE DEF early, mixed, stored, late, dirty, pc
<1>7. /\ DOMAIN session = UpdateFields /\ session.kind = "update" /\ session.pc = pc
      /\ session.process = mixed \ late /\ session.skipped = early \cup late /\ session.mem = stored
      /\ session.dirty = dirty
  BY DEF UpdateFields
<1> HIDE DEF session
<1> QED
  BY <1>1, <1>2, <1>3, <1>4, <1>5, <1>6, <1>7

\* What the removal of a file makes of the stores in memory.
LEMMA RemovingMem ==
  ASSUME UninstallInv, StoreInv, NEW db, NEW place, NEW p, RemoveFile(db, place, p)
  PROVE  /\ run.pc = "remove" /\ run'.pc = "remove" /\ run' # Idle /\ Uninstalling /\ Uninstalling'
         /\ run'.process = run.process /\ run'.was = run.was
         /\ run'.mem.prints = run.mem.prints /\ DOMAIN run'.mem.dbs = DOMAIN run.mem.dbs
         /\ \A x \in DOMAIN run.mem.dbs :
              /\ DOMAIN run'.mem.dbs[x] = DOMAIN run.mem.dbs[x]
              /\ \A q \in DOMAIN run.mem.dbs[x] : run'.mem.dbs[x][q] \subseteq run.mem.dbs[x][q]
<1>1. run.pc = "remove" /\ run # Idle
  BY DEF RemoveFile, Idle
<1>2. DOMAIN run = UninstallFields /\ Uninstalling
  BY <1>1, InUninstall
<1>3. /\ DOMAIN run' = DOMAIN run /\ run'.pc = "remove" /\ run'.kind = run.kind
      /\ run'.process = run.process /\ run'.was = run.was
  BY <1>1, <1>2, RemovingStep DEF UninstallFields
<1>4. run' # Idle /\ Uninstalling'
  BY <1>2, <1>3 DEF Uninstalling, Idle, UninstallFields
<1>5. run'.mem = run.mem \/ run'.mem = Forgotten(db, place, p)
  <2> DEFINE rest == [run EXCEPT !.todo = @ \ {<<db, place, p>>}]
  <2>1. DOMAIN rest = DOMAIN run /\ rest.mem = run.mem
    BY <1>2 DEF UninstallFields
  <2>2. \/ run' = [rest EXCEPT !.gone = @ \cup {<<db, place>>}]
        \/ run' = [rest EXCEPT !.mem = Forgotten(db, place, p)]
        \/ run' = [rest EXCEPT !.broken = @ \cup {db}]
    BY DEF RemoveFile
  <2> HIDE DEF rest
  <2> QED
    BY <1>2, <2>1, <2>2 DEF UninstallFields
<1>6. DOMAIN run.mem = {"dbs", "prints"}
  BY <1>1 DEF StoreInv, StoreOK
<1>7. CASE run'.mem = Forgotten(db, place, p)
  <2> DEFINE after == [run.mem.dbs EXCEPT ![db][place] = @ \ {p}]
  <2>1. run'.mem.dbs = after /\ run'.mem.prints = run.mem.prints
    BY <1>6, <1>7 DEF Forgotten
  <2>2. DOMAIN after = DOMAIN run.mem.dbs
    OBVIOUS
  <2>3. ASSUME NEW x \in DOMAIN run.mem.dbs
        PROVE  /\ DOMAIN after[x] = DOMAIN run.mem.dbs[x]
               /\ \A q \in DOMAIN run.mem.dbs[x] : after[x][q] \subseteq run.mem.dbs[x][q]
    <3>1. after[x] = run.mem.dbs[x] \/ after[x] = [run.mem.dbs[x] EXCEPT ![place] = @ \ {p}]
      OBVIOUS
    <3> HIDE DEF after
    <3> QED
      BY <3>1
  <2> HIDE DEF after
  <2> QED
    BY <1>1, <1>2, <1>3, <1>4, <2>1, <2>2, <2>3
<1> QED
  BY <1>1, <1>2, <1>3, <1>4, <1>5, <1>7

\* What is in memory of the databases that are not done stays, and when some are not
\* done a defect strikes.
LEMMA ForgetMem ==
  ASSUME UninstallInv, StoreInv, Forget
  PROVE  \E done \in SUBSET run.process :
           /\ run.pc = "remove" /\ run' # Idle /\ Uninstalling /\ Uninstalling'
           /\ run'.pc = IF run.process \cap DOMAIN run.was.dbs = {} THEN "config" ELSE "prints"
           /\ run'.process = run.process /\ run'.was = run.was
           /\ done # run.process => "half" \in defects'
           /\ DOMAIN run'.mem.dbs = DOMAIN run.mem.dbs \ done
           /\ DOMAIN run'.mem.prints = DOMAIN run.mem.prints \ done
           /\ \A x \in DOMAIN run'.mem.dbs : run'.mem.dbs[x] = run.mem.dbs[x]
           /\ \A x \in DOMAIN run'.mem.prints : run'.mem.prints[x] = run.mem.prints[x]
<1>1. run.pc = "remove" /\ run # Idle
  BY DEF Forget, Idle
<1>2. DOMAIN run = UninstallFields /\ Uninstalling
  BY <1>1, InUninstall
<1> DEFINE after(done) == [dbs |-> Restrict(run.mem.dbs, DOMAIN run.mem.dbs \ done),
                           prints |-> Restrict(run.mem.prints, DOMAIN run.mem.prints \ done)]
           pc == IF run.process \cap DOMAIN run.was.dbs = {} THEN "config" ELSE "prints"
<1>3. PICK failing :
        /\ run' = [run EXCEPT !.done = run.process \ failing, !.failed = failing, !.pc = pc,
                              !.mem = after(run.process \ failing)]
        /\ failing \subseteq run.process
        /\ Struck(IF failing = {} THEN {} ELSE {"half"})
  BY DEF Forget
<1> DEFINE done == run.process \ failing
           mem == after(done)
<1>4. run' = [run EXCEPT !.done = done, !.failed = failing, !.pc = pc, !.mem = mem]
  BY <1>3
<1>5. done # run.process => "half" \in defects'
  BY <1>3 DEF Struck
<1>6. /\ DOMAIN mem.dbs = DOMAIN run.mem.dbs \ done /\ DOMAIN mem.prints = DOMAIN run.mem.prints \ done
      /\ \A x \in DOMAIN mem.dbs : mem.dbs[x] = run.mem.dbs[x]
      /\ \A x \in DOMAIN mem.prints : mem.prints[x] = run.mem.prints[x]
  BY DEF Restrict
<1>7. done \in SUBSET run.process /\ pc \in {"config", "prints"}
  OBVIOUS
<1> HIDE DEF after, done, mem
<1>8. /\ DOMAIN run' = DOMAIN run /\ run'.pc = pc /\ run'.mem = mem /\ run'.kind = run.kind
      /\ run'.process = run.process /\ run'.was = run.was
  BY <1>2, <1>4 DEF UninstallFields
<1>9. run' # Idle /\ Uninstalling'
  BY <1>2, <1>7, <1>8 DEF Uninstalling, Idle, UninstallFields
<1> QED
  BY <1>1, <1>2, <1>5, <1>6, <1>7, <1>8, <1>9

\* The fingerprints that are loaded are those of the main store.
LEMMA LoadedPrints == Loaded.prints = IF main.st = "whole" THEN main.is.prints ELSE NoMap
BY DEF Loaded, NewStore

\* The fingerprints that are loaded are those of databases,
LEMMA LoadedTable == TypedInv => TableOK(Loaded.prints)
BY LoadedPrints DEF TypedInv, TableOK, NoMap

\* those of the new stores with them, too,
LEMMA WithStoresTable ==
  ASSUME TypedInv, NEW s, TableOK(s.prints), NEW dbs \in SUBSET Dbs
  PROVE  TableOK(WithStores(s, dbs).prints)
<1>1. WithStores(s, dbs).prints = [db \in DOMAIN s.prints \cup dbs |-> PrintIn(s.prints, db)]
  BY DEF WithStores
<1>2. ASSUME NEW db \in DOMAIN s.prints \cup dbs PROVE db \in Dbs /\ PrintOK(PrintIn(s.prints, db), db)
  <2>1. CASE db \in DOMAIN s.prints
    BY <2>1 DEF TableOK, PrintIn
  <2>2. CASE db \notin DOMAIN s.prints
    <3>1. PrintIn(s.prints, db) = [edition |-> 0, exp |-> {}] /\ db \in Dbs
      BY <2>2 DEF PrintIn, NoPrint
    <3>2. edition[db] \in Nat
      BY <3>1, EditionsAssumption, LenProperties DEF TypedInv
    <3> QED
      BY <3>1, <3>2 DEF PrintOK
  <2> QED
    BY <2>1, <2>2
<1> QED
  BY <1>1, <1>2 DEF TableOK

\* and so are those that are saved; they expect what is saved with them.
LEMMA StampedTable ==
  ASSUME NEW s, StoreOK(s), TableOK(s.prints)
  PROVE  /\ DOMAIN Stamped(s) = DOMAIN s.prints
         /\ \A db \in DOMAIN s.prints : /\ Stamped(s)[db].edition = s.prints[db].edition
                                        /\ Stamped(s)[db].exp = {BagOf(Fragments(s, db))}
         /\ TableOK(Stamped(s))
<1>1. DOMAIN Stamped(s) = DOMAIN s.prints
  BY DEF Stamped
<1>2. ASSUME NEW db \in DOMAIN s.prints
      PROVE  /\ DOMAIN Stamped(s)[db] = DOMAIN s.prints[db]
             /\ Stamped(s)[db].edition = s.prints[db].edition
             /\ Stamped(s)[db].exp = {BagOf(Fragments(s, db))}
  <2>1. db \in DOMAIN s.dbs /\ DOMAIN s.prints[db] = {"edition", "exp"}
    BY DEF StoreOK, TableOK, PrintOK
  <2>2. Stamped(s)[db] = [s.prints[db] EXCEPT !.exp = {BagOf(Fragments(s, db))}]
    BY <2>1 DEF Stamped
  <2> QED
    BY <2>1, <2>2
<1> QED
  BY <1>1, <1>2 DEF TableOK, PrintOK

\* A session that ends, or one that is no update, of tables as before.
LEMMA TablesStay ==
  ASSUME TablesInv, UNCHANGED <<edition, main, prints>>, DOMAIN manifest' = DriveSet,
         run' = Idle \/ (/\ TableOK(run'.mem.prints) /\ run'.kind # "update"
                         /\ run'.pc \notin {"main", "table"} /\ ~Saving')
  PROVE  TablesInv'
<1>1. ~Updating' /\ run'.pc \notin {"main", "table"} /\ ~Saving'
  BY DrivesAreFinite DEF Updating, Idle, Saving
<1>2. \A t : TableOK(t)' <=> TableOK(t)
  BY DEF TableOK, PrintOK
<1>3. TypedInv'
  BY <1>2 DEF TablesInv, TypedInv
<1>4. PrintsInv'
  BY <1>1 DEF TablesInv, PrintsInv
<1> QED
  BY <1>1, <1>3, <1>4 DEF TablesInv, SessionInv

\* At the start there are no fingerprints but those that an older store gave the configured.
LEMMA TablesInit == Init => TablesInv
<1> SUFFICES ASSUME Init PROVE TablesInv
  OBVIOUS
<1>1. run = Idle /\ edition = [db \in Dbs |-> 1] /\ DOMAIN manifest = DriveSet
  BY DEF Init
<1>2. Configured(ini) \subseteq Dbs
  BY InitInv, ConfiguredKnown
<1>3. ASSUME NEW db \in Dbs PROVE edition[db] \in 1..Len(Editions[db])
  <2>1. Len(Editions[db]) \in Nat /\ Len(Editions[db]) # 0
    BY EditionsAssumption, LenProperties, EmptySeq
  <2> QED
    BY <1>1, <2>1
<1>4. main.st = "whole" => Legacy
  BY DEF Init, Nothing, Absent
<1>5. ASSUME Legacy
      PROVE  /\ TableOK(main.is.prints) /\ main.st = "whole" /\ prints.is = main.is.prints
  <2>1. main.is.prints = [db \in Configured(ini) |-> [edition |-> 1, exp |-> {}]]
    BY <1>5 DEF Legacy, Whole
  <2>2. \A db \in Configured(ini) : PrintOK([edition |-> 1, exp |-> {}], db)
    BY <1>1, <1>2 DEF PrintOK
  <2> QED
    BY <1>2, <1>5, <2>1, <2>2 DEF TableOK, Legacy, Whole
<1>6. prints.st = "whole" => Legacy
  BY DEF Init, Nothing, Absent
<1>7. run.pc = "idle" /\ ~Saving
  BY <1>1, DrivesAreFinite DEF Idle, Saving
<1> QED
  BY <1>1, <1>3, <1>4, <1>5, <1>6, <1>7 DEF TablesInv, TypedInv, PrintsInv, SessionInv, Updating

\* Only "fastest" skips, or "balanced" with the free spaces at hand.
LEMMA FastestMode ==
  ASSUME Mode = "fastest"
  PROVE  (option = "fastest" \/ free.st = "whole") /\ (option # "fastest" => option = "balanced")
BY DEF Mode, Whole

\* An update begins,
LEMMA BeginTables == ASSUME UninstallInv, StoreInv, TablesInv, Begin PROVE TablesInv'
<1>1. UNCHANGED <<ini, edition, option, main, prints, manifest, free>>
  BY BeginStep DEF knowledge
<1>2. PICK only \in SUBSET Configured(ini) : \E bad \in SUBSET only, lost \in BOOLEAN :
             BeginsWith(only, bad, lost)
  BY BeginStep
<1>3. PICK bad \in SUBSET only, lost \in BOOLEAN : BeginsWith(only, bad, lost)
  BY <1>2
<1>4. CASE run' = Idle
  BY <1>1, <1>4, TablesStay DEF TablesInv, TypedInv
<1>5. ASSUME NEW early \in SUBSET Configured(ini), NEW mixed \in SUBSET Configured(ini),
             early \cap mixed = {} /\ \A db \in early : SkipsOpen(db),
             DOMAIN run' = UpdateFields /\ run'.kind = "update",
             run'.pc \in {"import", "prints", "free"} /\ (run'.pc # "import" => run'.process = {}),
             run'.mem = IF mixed = {} THEN NewStore ELSE WithStores(Loaded, mixed),
             run'.process \subseteq mixed /\ run'.skipped = early \cup (mixed \ run'.process),
             \A db \in mixed \ run'.process : SkipsMix(run'.mem, db)
      PROVE  TablesInv'
  <2>1. \A t : TableOK(t)' <=> TableOK(t)
    BY <1>1 DEF TableOK, PrintOK
  <2>2. TableOK(run'.mem.prints)
    <3>1. TableOK(NewStore.prints)
      BY DEF NewStore, NoMap, TableOK
    <3>2. mixed \in SUBSET Dbs /\ TableOK(Loaded.prints)
      BY ConfiguredKnown, LoadedTable DEF TablesInv
    <3> QED
      BY <1>5, <3>1, <3>2, WithStoresTable DEF TablesInv
  <2>3. TypedInv'
    BY <1>1, <2>1, <2>2 DEF TablesInv, TypedInv
  <2>4. PrintsInv'
    BY <1>1, <1>5, NotSaving, PcsAreNotIdle DEF TablesInv, PrintsInv, Saving
  <2>5. run'.process \subseteq DOMAIN run'.mem.dbs \cap DOMAIN run'.mem.prints
    BY <1>5 DEF WithStores
  <2>6. run'.skipped # {} => option = "fastest" \/ free.st = "whole"
    BY <1>5, FastestMode DEF SkipsOpen, SkipsMix
  <2>7. SessionInv'
    BY <1>1, <1>5, <2>5, <2>6 DEF SessionInv
  <2> QED
    BY <2>3, <2>4, <2>7 DEF TablesInv
<1>6. CASE \E early \in SUBSET Configured(ini), mixed \in SUBSET Configured(ini) :
              /\ early \cap mixed = {} /\ \A db \in early : SkipsOpen(db)
              /\ DOMAIN run' = UpdateFields /\ run'.kind = "update"
              /\ run'.pc \in {"import", "prints", "free"} /\ (run'.pc # "import" => run'.process = {})
              /\ run'.mem = IF mixed = {} THEN NewStore ELSE WithStores(Loaded, mixed)
              /\ run'.process \subseteq mixed /\ run'.skipped = early \cup (mixed \ run'.process)
              /\ \A db \in mixed \ run'.process : SkipsMix(run'.mem, db)
              /\ ~run'.dirty => mixed \subseteq DOMAIN Loaded.dbs
  BY <1>5, <1>6
<1> QED
  BY <1>3, <1>4, <1>6, BeginRun

\* files are imported,
LEMMA ImportTables == ASSUME UninstallInv, StoreInv, TablesInv, Import PROVE TablesInv'
<1>1. /\ run.pc = "import" /\ run # Idle /\ {"kind", "pc"} \subseteq DOMAIN run /\ run.kind = "update"
      /\ UNCHANGED <<ini, edition, option, main, prints, manifest, free>>
  BY ImportStep DEF knowledge
<1>2. PICK first \in run.process : \E bad \in {{}} \cup {{p} : p \in Needed} : ImportsWith(first, bad)
  BY ImportStep
<1>3. PICK bad : ImportsWith(first, bad)
  BY <1>2
<1>4. Updating /\ DOMAIN run = UpdateFields
  BY <1>1 DEF TablesInv, SessionInv, Updating
<1>5. /\ DOMAIN run' = UpdateFields /\ run'.pc \in {"prints", "free"} /\ run'.kind = "update"
      /\ run'.process = run.process /\ run'.skipped = run.skipped
      /\ run'.mem = StoresAfter(first, bad)
  BY <1>1, <1>3, <1>4, ImportRun DEF ImportsWith, UpdateFields
<1>6. /\ DOMAIN StoresAfter(first, bad).dbs = DOMAIN run.mem.dbs
      /\ DOMAIN StoresAfter(first, bad).prints = DOMAIN run.mem.prints
      /\ \A db \in DOMAIN run.mem.prints :
           StoresAfter(first, bad).prints[db] = IF db \in run.process
                                                THEN [run.mem.prints[db] EXCEPT !.edition = edition[db]]
                                                ELSE run.mem.prints[db]
  BY DEF StoresAfter
<1>7. \A t : TableOK(t)' <=> TableOK(t)
  BY <1>1 DEF TableOK, PrintOK
<1>8. TableOK(run'.mem.prints)
  <2>1. TableOK(run.mem.prints)
    BY <1>1 DEF TablesInv, TypedInv
  <2>2. ASSUME NEW db \in DOMAIN run.mem.prints, db \in run.process
        PROVE  PrintOK([run.mem.prints[db] EXCEPT !.edition = edition[db]], db)
    <3>1. PrintOK(run.mem.prints[db], db) /\ edition[db] \in Nat
      BY <2>1, EditionsAssumption, LenProperties DEF TableOK, TablesInv, TypedInv
    <3> QED
      BY <3>1 DEF PrintOK
  <2> QED
    BY <1>5, <1>6, <2>1, <2>2 DEF TableOK
<1>9. TypedInv'
  BY <1>1, <1>7, <1>8 DEF TablesInv, TypedInv
<1>10. PrintsInv'
  BY <1>1, <1>5, PcsAreNotIdle DEF TablesInv, PrintsInv, Saving
<1>11. SessionInv'
  BY <1>1, <1>4, <1>5, <1>6 DEF TablesInv, SessionInv
<1> QED
  BY <1>9, <1>10, <1>11 DEF TablesInv

\* the stores and fingerprints are saved,
LEMMA SavesTables == ASSUME UninstallInv, StoreInv, TablesInv, Saves PROVE TablesInv'
<1>1. UNCHANGED <<ini, edition, option, free>>
  BY DEF Saves, RemovePrints, SaveMain, SavePrints, Touch, SaveDrive, SaveManifest
<1>2. run # Idle /\ run'.mem = run.mem
  BY SavesKeepStores
<1>3. PICK pc \in {"main", "table", "drives"} \cup DriveSet
                        \cup {IF run.kind = "update" THEN "free" ELSE "config"} : Proceeds(pc)
  BY SavingStep
<1>4. \A t : TableOK(t)' <=> TableOK(t)
  BY <1>1 DEF TableOK, PrintOK
<1>5. StoreOK(run.mem) /\ TableOK(run.mem.prints)
  BY <1>2 DEF StoreInv, TablesInv, TypedInv
<1>6. main' = main \/ (main'.st = "whole" /\ main'.is.prints = Stamped(run.mem))
  <2>1. ASSUME SaveMain PROVE main'.st = "whole" /\ main'.is.prints = Stamped(run.mem)
    BY <2>1 DEF SaveMain, Whole
  <2> QED
    BY <2>1 DEF Saves, RemovePrints, SavePrints, Touch, SaveDrive, SaveManifest
<1>7. DOMAIN manifest' = DriveSet
  BY DEF Saves, RemovePrints, SaveMain, SavePrints, Touch, SaveDrive, SaveManifest, TablesInv, TypedInv
<1>8. TypedInv'
  BY <1>1, <1>2, <1>4, <1>5, <1>6, <1>7, StampedTable DEF TablesInv, TypedInv
<1>9. Stamped(run.mem)' = Stamped(run.mem)
  BY <1>2 DEF Stamped, Fragments
<1>10. /\ "pc" \in DOMAIN run
       /\ {"main", "table", "prints", "free", "config", "drives"} \cap DriveSet = {}
  BY <1>2, PcsAreNotIdle DEF StoreInv
<1>11. PrintsInv'
  <2>1. CASE RemovePrints
    <3>1. run'.pc = "main" /\ prints'.st # "whole"
      BY <1>10, <2>1 DEF RemovePrints, Step, Absent
    <3> QED
      BY <1>10, <3>1 DEF PrintsInv, Saving
  <2>2. CASE SaveMain
    <3>1. /\ run.pc = "main" /\ run'.pc = "table" /\ prints' = prints
          /\ main'.st = "whole" /\ main'.is.prints = Stamped(run.mem)
      BY <1>10, <2>2 DEF SaveMain, Step, Whole
    <3> QED
      BY <1>9, <3>1 DEF TablesInv, PrintsInv
  <2>3. CASE SavePrints
    <3>1. /\ run.pc = "table" /\ run'.pc = "drives" /\ main' = main /\ prints'.is = Stamped(run.mem)
      BY <1>10, <2>3 DEF SavePrints, Step, Whole
    <3> QED
      BY <1>9, <3>1 DEF TablesInv, PrintsInv, Saving
  <2>4. CASE Touch
    <3>1. UNCHANGED <<main, prints>> /\ run'.pc \in {"free", "config"}
      BY <1>10, <2>4 DEF Touch, Step
    <3> QED
      BY <1>10, <3>1 DEF TablesInv, PrintsInv, Saving
  <2>5. ASSUME NEW d \in DriveSet, SaveDrive(d) \/ SaveManifest(d) PROVE PrintsInv'
    <3>1. UNCHANGED <<main, prints>> /\ run'.pc \in {"drives", d} /\ run.pc \in {"drives", d}
      BY <1>10, <2>5 DEF SaveDrive, SaveManifest, Step
    <3> QED
      BY <1>9, <1>10, <3>1 DEF TablesInv, PrintsInv, Saving
  <2> QED
    BY <2>1, <2>2, <2>3, <2>4, <2>5 DEF Saves
<1>12. SessionInv'
  <2> SUFFICES ASSUME Updating' PROVE SessionInv'
    BY DEF SessionInv
  <2>1. Updating /\ DOMAIN run = UpdateFields
    <3>1. run'.kind = "update" /\ run.pc # "idle"
      BY SavingStep, PcsAreNotIdle, DrivesAreFinite DEF Updating
    <3>2. DOMAIN run' = DOMAIN run /\ ("kind" \in DOMAIN run => run'.kind = run.kind)
      BY <1>3 DEF Proceeds
    <3>3. "kind" \in DOMAIN run
      BY <1>2 DEF StoreInv
    <3> QED
      BY <3>1, <3>2, <3>3 DEF Updating, TablesInv, SessionInv
  <2>2. DOMAIN run' = UpdateFields /\ run'.process = run.process /\ run'.skipped = run.skipped
    BY <1>3, <2>1 DEF Proceeds, UpdateFields
  <2> QED
    BY <1>1, <1>2, <2>1, <2>2 DEF TablesInv, SessionInv
<1> QED
  BY <1>8, <1>11, <1>12 DEF TablesInv

\* a session ends, or dies,
LEMMA EndTables ==
  ASSUME UninstallInv, StoreInv, TablesInv, FreeSpaces \/ EndUninstall \/ Crash
  PROVE  TablesInv'
<1>1. CASE FreeSpaces \/ EndUninstall
  BY <1>1, TablesStay DEF FreeSpaces, EndUninstall, knowledge, TablesInv, TypedInv
<1>2. CASE Crash
  <2>1. /\ UNCHANGED edition /\ DOMAIN manifest' = DriveSet /\ run' = Idle
        /\ (main' = main \/ (main' = Torn /\ run.pc = "main"))
        /\ (prints' = prints \/ prints' = Torn)
    BY <1>2 DEF Crash
  <2>2. \A t : TableOK(t)' <=> TableOK(t)
    BY <2>1 DEF TableOK, PrintOK
  <2>3. TypedInv'
    BY <2>1, <2>2 DEF TablesInv, TypedInv, Torn
  <2>4. PrintsInv' /\ SessionInv'
    <3>1. run'.pc = "idle" /\ ~Saving' /\ ~Updating'
      BY <2>1, DrivesAreFinite DEF Idle, Saving, Updating
    <3> QED
      BY <2>1, <3>1 DEF TablesInv, PrintsInv, SessionInv, Torn
  <2> QED
    BY <2>3, <2>4 DEF TablesInv
<1> QED
  BY <1>1, <1>2

\* databases are uninstalled,
LEMMA UninstallTables ==
  ASSUME UninstallInv, StoreInv, TablesInv,
         \/ BeginUninstall \/ Forget \/ CleanConfig
         \/ \E db, place, p : RemoveFile(db, place, p)
  PROVE  TablesInv'
<1>1. CASE BeginUninstall
  <2>1. UNCHANGED <<edition, main, prints, manifest>>
    BY <1>1 DEF BeginUninstall, knowledge
  <2>2. run'.mem = Loaded /\ run'.kind = "uninstall" /\ run'.pc = "remove"
    BY <1>1 DEF BeginUninstall
  <2> QED
    BY <2>1, <2>2, LoadedTable, TablesStay, PcsAreNotIdle DEF TablesInv, TypedInv, Saving
<1>2. CASE Forget
  <2>1. UNCHANGED <<edition, main, prints, manifest>>
    BY <1>2 DEF Forget, knowledge
  <2>2. PICK done \in SUBSET run.process :
          /\ Uninstalling' /\ run'.pc \in {"config", "prints"} /\ run # Idle
          /\ DOMAIN run'.mem.prints = DOMAIN run.mem.prints \ done
          /\ \A x \in DOMAIN run'.mem.prints : run'.mem.prints[x] = run.mem.prints[x]
    BY <1>2, ForgetMem DEF Idle
  <2>3. TableOK(run'.mem.prints)
    BY <2>2 DEF TablesInv, TypedInv, TableOK
  <2> QED
    BY <2>1, <2>2, <2>3, TablesStay, PcsAreNotIdle DEF TablesInv, TypedInv, Saving, Uninstalling
<1>3. CASE CleanConfig
  <2>1. UNCHANGED <<edition, main, prints, manifest>>
    BY <1>3 DEF CleanConfig, knowledge
  <2>2. DOMAIN run = UninstallFields /\ Uninstalling /\ run.pc = "config" /\ run # Idle
    <3>1. run.pc = "config"
      BY <1>3 DEF CleanConfig
    <3>2. run # Idle
      BY <3>1 DEF Idle
    <3> QED
      BY <3>1, <3>2, InUninstall
  <2>3. PICK done, cleaned, warned :
              run' = [run EXCEPT !.done = done, !.cleaned = cleaned, !.warned = warned]
    BY <1>3 DEF CleanConfig
  <2>4. run'.mem = run.mem /\ run'.kind = "uninstall" /\ run'.pc = "config"
    BY <2>2, <2>3 DEF UninstallFields, Uninstalling
  <2> QED
    BY <2>1, <2>2, <2>4, TablesStay, PcsAreNotIdle DEF TablesInv, TypedInv, Saving
<1>4. ASSUME NEW db, NEW place, NEW p, RemoveFile(db, place, p) PROVE TablesInv'
  <2>1. UNCHANGED <<edition, main, prints, manifest>>
    BY <1>4 DEF RemoveFile, knowledge
  <2>2. Uninstalling' /\ run # Idle /\ run'.pc = "remove" /\ run'.mem.prints = run.mem.prints
    BY <1>4, RemovingMem DEF Idle
  <2> QED
    BY <2>1, <2>2, TablesStay, PcsAreNotIdle DEF TablesInv, TypedInv, Saving, Uninstalling
<1> QED
  BY <1>1, <1>2, <1>3, <1>4

\* or something changes outside.
LEMMA ChangeTables == ASSUME TablesInv, Change \/ UNCHANGED vars PROVE TablesInv'
<1>1. UNCHANGED <<ini, option, main, prints, manifest, free, run>>
  BY DEF Change, knowledge, vars
<1>2. /\ DOMAIN edition' = Dbs
      /\ \A db \in Dbs : edition'[db] \in 1..Len(Editions[db]) /\ edition[db] <= edition'[db]
  <2>1. \A db \in Dbs : edition[db] \in 1..Len(Editions[db]) /\ Len(Editions[db]) \in Nat
    BY EditionsAssumption, LenProperties DEF TablesInv, TypedInv
  <2>2. \/ edition' = edition
        \/ \E db \in Dbs : edition[db] < Len(Editions[db]) /\ edition' = [edition EXCEPT ![db] = @ + 1]
    BY DEF Change, vars
  <2>3. ASSUME NEW db \in Dbs, edition[db] < Len(Editions[db]), edition' = [edition EXCEPT ![db] = @ + 1]
        PROVE  /\ DOMAIN edition' = Dbs
               /\ \A x \in Dbs : edition'[x] \in 1..Len(Editions[x]) /\ edition[x] <= edition'[x]
    <3>1. DOMAIN edition = Dbs
      BY DEF TablesInv, TypedInv
    <3> QED
      BY <2>1, <2>3, <3>1
  <2>4. DOMAIN edition = Dbs
    BY DEF TablesInv, TypedInv
  <2> QED
    BY <2>1, <2>2, <2>3, <2>4
<1>3. ASSUME NEW t, TableOK(t) PROVE TableOK(t)'
  <2>1. \A db \in Dbs : edition[db] \in Nat /\ edition'[db] \in Nat
    BY <1>2, EditionsAssumption, LenProperties DEF TablesInv, TypedInv
  <2>2. ASSUME NEW db \in DOMAIN t PROVE db \in Dbs /\ PrintOK(t[db], db)'
    <3>1. db \in Dbs /\ PrintOK(t[db], db)
      BY <1>3 DEF TableOK
    <3>2. t[db].edition \in 0..edition[db]
      BY <3>1 DEF PrintOK
    <3>3. t[db].edition \in 0..edition'[db]
      BY <1>2, <2>1, <3>1, <3>2
    <3> QED
      BY <3>1, <3>3 DEF PrintOK
  <2> QED
    BY <2>2 DEF TableOK
<1>4. TypedInv'
  BY <1>1, <1>2, <1>3 DEF TablesInv, TypedInv
<1>5. PrintsInv' /\ SessionInv'
  BY <1>1 DEF TablesInv, PrintsInv, SessionInv, Updating, Saving, Stamped, Fragments, Configured, Sourced,
              Sections
<1> QED
  BY <1>4, <1>5 DEF TablesInv

\* or what it has cannot be saved.
LEMMA FailingTables ==
  ASSUME UninstallInv, StoreInv, TablesInv, SaveFails
  PROVE  TablesInv'
<1>1. /\ UNCHANGED <<ini, edition, option, main, prints, manifest, free>> /\ run # Idle
      /\ run'.mem = run.mem /\ run.pc = "main" /\ run'.pc \in {"free", "config"}
  <2>1. "mem" \in DOMAIN run
    BY FailingStep DEF StoreInv
  <2> QED
    BY <2>1, FailingStep
<1>2. \A t : TableOK(t)' <=> TableOK(t)
  BY <1>1 DEF TableOK, PrintOK
<1>3. TypedInv'
  BY <1>1, <1>2 DEF TablesInv, TypedInv
<1>4. PrintsInv'
  <2>1. ~Saving' /\ run'.pc \notin {"main", "table"}
    BY <1>1, PcsAreNotIdle DEF Saving
  <2> QED
    BY <1>1, <2>1 DEF TablesInv, PrintsInv
<1>5. ASSUME Updating' PROVE SessionInv'
  <2>1. Updating /\ run' = [run EXCEPT !.pc = "free", !.process = {}]
    BY <1>5, FailingStep
  <2>2. DOMAIN run = UpdateFields
    BY <2>1 DEF TablesInv, SessionInv
  <2>3. run'.process = {} /\ run'.skipped = run.skipped /\ DOMAIN run' = UpdateFields
    BY <2>1, <2>2 DEF UpdateFields
  <2>4. Configured(ini)' = Configured(ini)
    BY <1>1 DEF Configured, Sourced, Sections
  <2> QED
    BY <1>1, <2>1, <2>3, <2>4 DEF TablesInv, SessionInv
<1> QED
  BY <1>3, <1>4, <1>5 DEF TablesInv, SessionInv

\* So every step keeps them.
LEMMA NextTables == ASSUME UninstallInv, StoreInv, TablesInv, Steps \/ UNCHANGED vars PROVE TablesInv'
BY BeginTables, ImportTables, SavesTables, EndTables, UninstallTables, ChangeTables,
   FailingTables DEF Steps

\* The databases with a fingerprint are configured, or are being removed; those that
\* are done have none any more.
ConfInv ==
  /\ Uninstalling => run.done \subseteq run.process
  /\ Uninstalling /\ run.pc = "remove" /\ main.st = "whole" =>
       DOMAIN main.is.prints \subseteq DOMAIN run.was.dbs
  /\ Sane /\ main.st = "whole" =>
       \A db \in DOMAIN main.is.prints : /\ db \in Configured(ini) \/ Removing(db)
                                         /\ ~(Removing(db) /\ run.pc = "config")
  /\ Sane /\ run # Idle =>
       \A db \in DOMAIN run.mem.prints : /\ db \in Configured(ini) \/ Removing(db)
                                         /\ ~(Removing(db) /\ run.pc # "remove")

\* What a session has, whatever it is: no defect is ever taken back.
LEMMA DefectsStay == ASSUME UninstallInv, Steps \/ UNCHANGED vars PROVE defects \subseteq defects'
<1>1. CASE Saves
  BY <1>1, SavingStep
<1>2. CASE Begin
  BY <1>2, BeginStep
<1>3. CASE Import
  <2>1. PICK first, bad : ImportsWith(first, bad)
    BY <1>3, ImportStep
  <2> QED
    BY <2>1 DEF ImportsWith, Struck
<1>4. CASE BeginUninstall \/ Forget \/ CleanConfig
  BY <1>4 DEF BeginUninstall, TornLoad, Struck, Forget, CleanConfig
<1>5. CASE EndUninstall \/ FreeSpaces \/ Crash \/ Change \/ SaveFails \/ UNCHANGED vars
  BY <1>5 DEF EndUninstall, FreeSpaces, Crash, Change, SaveFails, Struck, vars
<1>6. ASSUME NEW db, NEW place, NEW p, RemoveFile(db, place, p) PROVE defects \subseteq defects'
  BY <1>6 DEF RemoveFile, Struck
<1> QED
  BY <1>1, <1>2, <1>3, <1>4, <1>5, <1>6 DEF Steps

\* An unfounded defect stays: a state without one had none before.
LEMMA SaneBefore == ASSUME UninstallInv, Steps \/ UNCHANGED vars, Sane' PROVE Sane
BY DefectsStay DEF Sane

\* At the start nothing but the configured has a fingerprint.
LEMMA ConfInit == Init => ConfInv
<1> SUFFICES ASSUME Init PROVE ConfInv
  OBVIOUS
<1>1. run = Idle /\ run.pc = "idle"
  BY DEF Init, Idle
<1>2. main.st = "whole" => DOMAIN main.is.prints = Configured(ini)
  BY DEF Init, Nothing, Legacy, Absent, Whole
<1> QED
  BY <1>1, <1>2 DEF ConfInv, Uninstalling, Removing

\* The databases of the store that is loaded.
LEMMA LoadedDbs ==
  ASSUME main.st = "whole"
  PROVE  DOMAIN main.is.dbs \subseteq DOMAIN Loaded.dbs
BY DEF Loaded

\* Each action keeps the fingerprints to the configured: an update begins,
LEMMA BeginConf == ASSUME UninstallInv, StoreInv, TablesInv, ConfInv, Begin PROVE ConfInv'
<1>1. UNCHANGED <<ini, main>> /\ run.pc = "idle" /\ defects \subseteq defects'
  BY BeginStep DEF knowledge
<1>2. run' = Idle \/ (run'.kind = "update" /\ \E mixed \in SUBSET Configured(ini) :
                        run'.mem = IF mixed = {} THEN NewStore ELSE WithStores(Loaded, mixed))
  <2>1. PICK only \in SUBSET Configured(ini) : \E bad \in SUBSET only, lost \in BOOLEAN :
             BeginsWith(only, bad, lost)
    BY BeginStep
  <2>2. PICK bad \in SUBSET only, lost \in BOOLEAN : BeginsWith(only, bad, lost)
    BY <2>1
  <2> QED
    BY <2>2, BeginRun
<1>3. ~Uninstalling' /\ ~Uninstalling /\ Configured(ini)' = Configured(ini) /\ (Sane' => Sane)
  BY <1>1, <1>2 DEF Uninstalling, Idle, Sane, Configured, Sourced, Sections
<1>4. \A db : ~Removing(db) /\ ~Removing(db)'
  BY <1>3 DEF Removing
<1>5. ASSUME Sane, run' # Idle PROVE DOMAIN run'.mem.prints \subseteq Configured(ini)
  <2>1. DOMAIN Loaded.prints \subseteq Configured(ini)
    BY <1>4, <1>5, LoadedPrints DEF ConfInv, NoMap
  <2>2. \A mixed : DOMAIN WithStores(Loaded, mixed).prints = DOMAIN Loaded.prints \cup mixed
    BY DEF WithStores
  <2>3. DOMAIN NewStore.prints = {}
    BY DEF NewStore, NoMap
  <2> QED
    BY <1>2, <1>5, <2>1, <2>2, <2>3
<1> QED
  BY <1>1, <1>3, <1>4, <1>5 DEF ConfInv

\* it imports,
LEMMA ImportConf == ASSUME UninstallInv, StoreInv, TablesInv, ConfInv, Import PROVE ConfInv'
<1>1. /\ run.pc = "import" /\ run # Idle /\ {"kind", "pc"} \subseteq DOMAIN run /\ run.kind = "update"
      /\ UNCHANGED <<ini, main>>
  BY ImportStep DEF knowledge
<1>2. PICK first, bad : ImportsWith(first, bad)
  BY ImportStep
<1>3. DOMAIN run' = DOMAIN run /\ run'.mem = StoresAfter(first, bad) /\ run'.kind = "update"
  BY <1>1, <1>2, ImportRun DEF ImportsWith, StoreInv
<1>4. DOMAIN run'.mem.prints = DOMAIN run.mem.prints
  BY <1>3 DEF StoresAfter
<1>5. ~Uninstalling' /\ ~Uninstalling /\ Configured(ini)' = Configured(ini) /\ (Sane' => Sane)
  BY <1>1, <1>2, <1>3 DEF Uninstalling, Sane, Configured, Sourced, Sections, ImportsWith, Struck
<1>6. \A db : ~Removing(db) /\ ~Removing(db)'
  BY <1>5 DEF Removing
<1> QED
  BY <1>1, <1>4, <1>5, <1>6 DEF ConfInv

\* While the stores are saved, the session is as it was.
LEMMA SavingSession ==
  ASSUME UninstallInv, StoreInv, Saves
  PROVE  /\ run # Idle /\ run' # Idle /\ run'.mem = run.mem /\ run'.kind = run.kind
         /\ (Updating' <=> Updating)
         /\ (Uninstalling' <=> Uninstalling) /\ (Sane' => Sane)
         /\ UNCHANGED <<ini, edition, option, plugged, files, free>>
         /\ run.pc \in {"prints", "main", "table", "drives"} \cup DriveSet
         /\ run'.pc \in {"main", "table", "drives"} \cup DriveSet \cup
                          {IF run.kind = "update" THEN "free" ELSE "config"}
         /\ DOMAIN run' = DOMAIN run /\ \A x \in DOMAIN run \ {"pc", "left"} : run'[x] = run[x]
<1>1. PICK pc \in {"main", "table", "drives"} \cup DriveSet
                        \cup {IF run.kind = "update" THEN "free" ELSE "config"} : Proceeds(pc)
  BY SavingStep
<1>2. /\ UNCHANGED <<ini, files, plugged>> /\ defects \subseteq defects'
      /\ run.pc \in {"prints", "main", "table", "drives"} \cup DriveSet
  BY SavingStep
<1>3. run # Idle /\ run'.mem = run.mem /\ {"kind", "pc"} \subseteq DOMAIN run
  BY SavesKeepStores DEF StoreInv
<1>4. UNCHANGED <<edition, option, free>>
  BY DEF Saves, RemovePrints, SaveMain, SavePrints, Touch, SaveDrive, SaveManifest
<1>5. DOMAIN run' = DOMAIN run /\ run'.kind = run.kind /\ run'.pc = pc
      /\ \A x \in DOMAIN run \ {"pc", "left"} : run'[x] = run[x]
  BY <1>1, <1>3 DEF Proceeds
<1>6. run.pc # "idle" /\ pc # "idle"
  BY <1>2, DrivesAreFinite
<1>7. run' # Idle
  BY <1>5, <1>6 DEF Idle
<1>8. Sane' => Sane
  BY <1>2 DEF Sane
<1> QED
  BY <1>2, <1>3, <1>4, <1>5, <1>6, <1>7, <1>8 DEF Updating, Uninstalling

\* The fields of an uninstall.
LEMMA UninstallHas == ASSUME UninstallInv, Uninstalling PROVE DOMAIN run = UninstallFields
BY DEF UninstallInv, RunInv, Uninstalling, Idle

\* a store or a manifest is saved,
LEMMA SavesConf == ASSUME UninstallInv, StoreInv, TablesInv, ConfInv, Saves PROVE ConfInv'
<1>1. /\ run # Idle /\ run'.mem = run.mem /\ ini' = ini
      /\ (Uninstalling' <=> Uninstalling) /\ (Sane' => Sane)
      /\ run.pc \in {"prints", "main", "table", "drives"} \cup DriveSet
      /\ run'.pc \in {"main", "table", "drives", "free", "config"} \cup DriveSet
      /\ (run'.pc = "config" => Touch \/ "config" \in DriveSet)
  <2>1. run'.pc = "config" => Touch \/ "config" \in DriveSet
    <3>1. "pc" \in DOMAIN run
      BY SavingSession DEF StoreInv
    <3> QED
      BY <3>1 DEF Saves, RemovePrints, SaveMain, SavePrints, SaveDrive, SaveManifest, Step
  <2>2. run'.pc \in {"main", "table", "drives", "free", "config"} \cup DriveSet
    BY SavingSession
  <2>3. /\ run # Idle /\ run'.mem = run.mem /\ ini' = ini
        /\ (Uninstalling' <=> Uninstalling) /\ (Sane' => Sane)
        /\ run.pc \in {"prints", "main", "table", "drives"} \cup DriveSet
    BY SavingSession
  <2> QED
    BY <2>1, <2>2, <2>3
<1>2. ASSUME Uninstalling PROVE run'.done = run.done /\ run'.process = run.process
  BY <1>2, SavingSession, UninstallHas DEF UninstallFields
<1>3. \A db : (Removing(db)' <=> Removing(db))
  BY <1>1, <1>2 DEF Removing
<1>4. Configured(ini)' = Configured(ini)
  BY <1>1 DEF Configured, Sourced, Sections
<1>5. run.pc \notin {"remove", "config"} /\ run'.pc # "remove"
  BY <1>1, PcsAreNotIdle
<1>6. main' = main \/ (main'.is.prints = Stamped(run.mem) /\ ~Touch)
  <2>1. SaveMain => main'.is.prints = Stamped(run.mem) /\ ~Touch
    BY DEF SaveMain, Whole, Touch
  <2> QED
    BY <2>1 DEF Saves, RemovePrints, SavePrints, Touch, SaveDrive, SaveManifest
<1>7. DOMAIN Stamped(run.mem) = DOMAIN run.mem.prints
  BY <1>1, StampedIs DEF StoreInv
<1>8. Touch => main' = main /\ main.is.prints = Stamped(run.mem)
  <2>1. Touch => main' = main /\ Saving
    BY DEF Touch, Saving
  <2> QED
    BY <2>1 DEF TablesInv, PrintsInv
<1>9. ASSUME Sane', main'.st = "whole", NEW db \in DOMAIN main'.is.prints
      PROVE  /\ db \in Configured(ini)' \/ Removing(db)'
             /\ ~(Removing(db)' /\ run'.pc = "config")
  <2>1. CASE run'.pc = "config"
    <3>1. Touch /\ db \in DOMAIN run.mem.prints
      BY <1>1, <1>7, <1>8, <1>9, <2>1, PcsAreNotIdle
    <3> QED
      BY <1>1, <1>3, <1>4, <1>5, <1>9, <3>1 DEF ConfInv
  <2>2. CASE run'.pc # "config"
    <3>1. CASE main' = main
      BY <1>1, <1>3, <1>4, <1>9, <2>2, <3>1 DEF ConfInv
    <3>2. CASE db \in DOMAIN run.mem.prints
      BY <1>1, <1>3, <1>4, <1>9, <2>2, <3>2 DEF ConfInv
    <3> QED
      BY <1>6, <1>7, <1>9, <3>1, <3>2
  <2> QED
    BY <2>1, <2>2
<1>10. ASSUME Sane', NEW db \in DOMAIN run'.mem.prints
       PROVE  db \in Configured(ini)' /\ ~Removing(db)'
  BY <1>1, <1>3, <1>4, <1>5, <1>10 DEF ConfInv
<1>11. Uninstalling' => run'.done \subseteq run'.process
  BY <1>1, <1>2 DEF ConfInv
<1> QED
  BY <1>5, <1>9, <1>10, <1>11 DEF ConfInv

\* A session ends, or dies.
LEMMA EndConf ==
  ASSUME UninstallInv, StoreInv, TablesInv, ConfInv, FreeSpaces \/ EndUninstall \/ Crash
  PROVE  ConfInv'
<1>1. /\ run' = Idle /\ ini' = ini /\ ~Uninstalling' /\ run # Idle
      /\ main' = main \/ main' = Torn
  <2>1. run' = Idle /\ ini' = ini /\ run.pc # "idle" /\ (main' = main \/ main' = Torn)
    BY DEF FreeSpaces, EndUninstall, Crash, knowledge
  <2> QED
    BY <2>1 DEF Uninstalling, Idle
<1>2. Sane' => Sane
  BY SaneBefore DEF Steps
<1>3. Configured(ini)' = Configured(ini)
  BY <1>1 DEF Configured, Sourced, Sections
<1>4. CASE FreeSpaces
  <2>1. run.pc = "free" /\ main' = main
    BY <1>4 DEF FreeSpaces, knowledge
  <2>2. ~Uninstalling
    BY <2>1, PcsAreNotIdle DEF UninstallInv, RunInv, Uninstalling, UninstallPcs, Idle
  <2> QED
    BY <1>1, <1>2, <1>3, <2>1, <2>2 DEF ConfInv, Removing
<1>5. CASE EndUninstall
  <2>1. run.pc = "config" /\ main' = main
    BY <1>5 DEF EndUninstall, knowledge
  <2> QED
    BY <1>1, <1>2, <1>3, <2>1 DEF ConfInv, Removing
<1>6. CASE Crash
  <2>1. ~Sane' \/ ~Uninstalling
    BY <1>6 DEF Crash, Struck, Sane, Unfounded, Uninstalling
  <2> QED
    BY <1>1, <1>2, <1>3, <2>1 DEF ConfInv, Removing, Torn
<1> QED
  BY <1>4, <1>5, <1>6

\* Databases are uninstalled.
LEMMA UninstallConf ==
  ASSUME UninstallInv, StoreInv, TablesInv, ConfInv,
         BeginUninstall \/ Forget \/ \E db, place, p : RemoveFile(db, place, p)
  PROVE  ConfInv'
<1>1. ini' = ini /\ main' = main
  <2>1. CASE BeginUninstall
    BY <2>1 DEF BeginUninstall, knowledge
  <2>2. CASE Forget
    BY <2>2 DEF Forget, knowledge
  <2>3. ASSUME NEW db, NEW place, NEW p, RemoveFile(db, place, p)
        PROVE  ini' = ini /\ main' = main
    <3>1. UNCHANGED <<ini, edition, option, plugged, knowledge, changes>>
      BY <2>3 DEF RemoveFile
    <3> QED
      BY <3>1 DEF knowledge
  <2> QED
    BY <2>1, <2>2, <2>3
<1>2. Configured(ini)' = Configured(ini)
  BY <1>1 DEF Configured, Sourced, Sections
<1>3. CASE BeginUninstall
  <2>1. /\ run.pc = "idle" /\ run'.mem = Loaded /\ run'.was = Loaded /\ run'.pc = "remove" /\ run'.done = {}
        /\ defects \subseteq defects'
    BY <1>3 DEF BeginUninstall, TornLoad, Struck
  <2>2. \A db : ~Removing(db)
    BY <2>1 DEF Removing, Uninstalling
  <2>3. Sane' => Sane
    BY <2>1 DEF Sane
  <2>4. main.st = "whole" => DOMAIN main.is.prints \subseteq DOMAIN Loaded.dbs
    BY LoadedDbs DEF StoreInv, StoreOK
  <2>5. Sane => DOMAIN Loaded.prints \subseteq Configured(ini)
    BY <2>2, LoadedPrints DEF ConfInv, NoMap
  <2> QED
    BY <1>1, <1>2, <2>1, <2>2, <2>3, <2>4, <2>5 DEF ConfInv
<1>4. CASE Forget
  <2>1. PICK done \in SUBSET run.process :
           /\ run.pc = "remove" /\ run' # Idle /\ Uninstalling /\ Uninstalling'
           /\ run'.pc = IF run.process \cap DOMAIN run.was.dbs = {} THEN "config" ELSE "prints"
           /\ run'.process = run.process
           /\ done # run.process => "half" \in defects'
           /\ DOMAIN run'.mem.prints = DOMAIN run.mem.prints \ done
    BY <1>4, ForgetMem
  <2>2. run'.done \subseteq run'.process
    <3>1. DOMAIN run = UninstallFields
      BY <2>1, UninstallHas
    <3>2. PICK pc, failing, mem :
            run' = [run EXCEPT !.done = run.process \ failing, !.failed = failing, !.pc = pc, !.mem = mem]
      BY <1>4 DEF Forget
    <3>3. run'.done = run.process \ failing
      BY <3>1, <3>2 DEF UninstallFields
    <3> QED
      BY <2>1, <3>3
  <2>3. Sane' => Sane /\ done = run.process
    BY <1>4, <2>1, SaneBefore DEF Steps, Sane, Unfounded
  <2>4. \A db : (Removing(db)' <=> Removing(db))
    BY <2>1 DEF Removing
  <2>5. run # Idle
    BY <2>1 DEF Idle
  <2>6. ASSUME Sane', main.st = "whole", NEW db \in DOMAIN main.is.prints
        PROVE  /\ db \in Configured(ini) \/ Removing(db)
               /\ ~(Removing(db) /\ run'.pc = "config")
    BY <2>1, <2>3, <2>6 DEF ConfInv, Removing
  <2>7. ASSUME Sane', NEW db \in DOMAIN run'.mem.prints PROVE db \in Configured(ini) /\ ~Removing(db)
    BY <2>1, <2>3, <2>5, <2>7 DEF ConfInv, Removing
  <2>8. run'.pc # "remove"
    BY <2>1
  <2> QED
    BY <1>1, <1>2, <2>2, <2>4, <2>6, <2>7, <2>8 DEF ConfInv
<1>5. ASSUME NEW db, NEW place, NEW p, RemoveFile(db, place, p) PROVE ConfInv'
  <2>1. /\ run.pc = "remove" /\ run'.pc = "remove" /\ run' # Idle /\ Uninstalling /\ Uninstalling'
        /\ run'.process = run.process /\ run'.was = run.was /\ run'.mem.prints = run.mem.prints
    BY <1>5, RemovingMem
  <2>2. run'.done = run.done
    BY <1>5, RemovingStep DEF UninstallFields
  <2>3. defects \subseteq defects' /\ run # Idle
    <3>1. defects \subseteq defects'
      BY <1>5 DEF RemoveFile, Struck
    <3>2. run # Idle
      BY <2>1 DEF Idle
    <3> QED
      BY <3>1, <3>2
  <2>4. (Sane' => Sane) /\ \A x : (Removing(x)' <=> Removing(x))
    BY <2>1, <2>3 DEF Sane, Removing
  <2> QED
    BY <1>1, <1>2, <2>1, <2>2, <2>3, <2>4 DEF ConfInv
<1> QED
  BY <1>3, <1>4, <1>5

\* The sections of a database are removed: those of others stay.
LEMMA CleanConfigConf == ASSUME UninstallInv, StoreInv, TablesInv, ConfInv, CleanConfig PROVE ConfInv'
<1>1. run.pc = "config" /\ main' = main /\ defects \subseteq defects'
  BY DEF CleanConfig, Struck, knowledge
<1>2. DOMAIN run = UninstallFields /\ Uninstalling /\ run # Idle
  BY <1>1, InUninstall DEF Idle
<1>3. PICK db, failing :
        /\ db \in run.done
        /\ ini' = RemovedFrom(ini, run.ini, db, failing)
        /\ run' = [run EXCEPT !.done = @ \ {db}, !.cleaned = @ /\ failing = {},
                     !.warned = IF Reappears(ini, ini', run.ini, db, failing) THEN @ \cup {db} ELSE @]
  BY DEF CleanConfig
<1>4. PICK cleaned, warned :
        /\ db \in run.done
        /\ ini' = RemovedFrom(ini, run.ini, db, failing)
        /\ run' = [run EXCEPT !.done = @ \ {db}, !.cleaned = cleaned, !.warned = warned]
  BY <1>3
<1>5. /\ run'.mem = run.mem /\ run'.pc = "config" /\ run'.done = run.done \ {db} /\ Uninstalling'
      /\ run'.process = run.process /\ run' # Idle
  BY <1>1, <1>2, <1>4 DEF UninstallFields, Uninstalling, Idle
<1>6. Configured(ini) \ {db} \subseteq Configured(ini')
  <2>1. Accepted(ini)
    BY DEF UninstallInv, IniInv
  <2>2. /\ \A f \in ToSet(IniFiles) : /\ Sections(ini', f) \subseteq Sections(ini, f)
                                       /\ Sections(ini, f) \ {db} \subseteq Sections(ini', f)
        /\ \A f \in ToSet(IniFiles) : ini'[f] # ini[f] => db \in ToSet(ini[f])
    BY <1>4, <2>1, SectionsRemoved
  <2>3. Sourced(ini) \ {db} \subseteq Sourced(ini') /\ Sourced(ini') \subseteq Sourced(ini)
    BY <2>2 DEF Sourced
  <2>4. ini[Base] = <<>> => ini'[Base] = <<>>
    <3>1. Base \in ToSet(IniFiles) /\ ToSet(<<>>) = {}
      BY IniFileSet DEF ToSet
    <3> QED
      BY <2>2, <3>1
  <2> QED
    BY <2>3, <2>4 DEF Configured
<1>7. \A x : (Removing(x)' <=> Removing(x))
  BY <1>2, <1>5 DEF Removing
<1>8. db \in run.process
  BY <1>2, <1>4 DEF ConfInv
<1>9. Sane' => Sane
  BY <1>1 DEF Sane
<1>10. Removing(db)
  BY <1>2, <1>8 DEF Removing
<1> QED
  BY <1>1, <1>2, <1>5, <1>6, <1>7, <1>8, <1>9, <1>10 DEF ConfInv

\* or something happens between the sessions.
LEMMA ChangeConf == ASSUME ConfInv, Change \/ UNCHANGED vars PROVE ConfInv'
<1>1. UNCHANGED <<ini, main, run>> /\ defects \subseteq defects'
  BY DEF Change, knowledge, vars, Struck
<1>2. (Sane' => Sane) /\ (Uninstalling' <=> Uninstalling) /\ Configured(ini)' = Configured(ini)
  BY <1>1 DEF Sane, Uninstalling, Configured, Sourced, Sections
<1> QED
  BY <1>1, <1>2 DEF ConfInv, Removing

\* The store cannot be saved.
LEMMA FailingConf ==
  ASSUME UninstallInv, StoreInv, TablesInv, ConfInv, SaveFails
  PROVE  ConfInv'
<1>1. CASE Uninstalling'
  <2>1. run'.done = {} /\ run'.pc = "config" /\ ~Sane'
    BY <1>1, FailingStep DEF Updating, Uninstalling, Sane, Unfounded
  <2> QED
    BY <2>1 DEF ConfInv
<1>2. CASE ~Uninstalling'
  <2>1. /\ ~Uninstalling /\ ini' = ini /\ main' = main /\ run # Idle
        /\ run'.mem = run.mem /\ defects \subseteq defects'
    <3>1. "mem" \in DOMAIN run
      BY FailingStep DEF StoreInv
    <3> QED
      BY <1>2, <3>1, FailingStep
  <2>2. Sane' => Sane
    BY <2>1 DEF Sane
  <2>3. Configured(ini)' = Configured(ini)
    BY <2>1 DEF Configured, Sourced, Sections
  <2> QED
    BY <1>2, <2>1, <2>2, <2>3 DEF ConfInv, Removing
<1> QED
  BY <1>1, <1>2

\* Every step keeps the fingerprints to the configured databases.
LEMMA NextConf ==
  ASSUME UninstallInv, StoreInv, TablesInv, ConfInv, Steps \/ UNCHANGED vars
  PROVE  ConfInv'
BY BeginConf, ImportConf, SavesConf, EndConf, UninstallConf, CleanConfigConf, ChangeConf,
   FailingConf DEF Steps

-----------------------------------------------------------------------------
(* 8. What is on the drives is what the stores say *)

GroundInv == UninstallInv /\ DrivesInv /\ TablesInv /\ ConfInv

\* The invariants of the sections before hold at the start,
LEMMA GroundInit == Init => GroundInv
BY InitInv, DrivesInit, TablesInit, ConfInit DEF GroundInv

\* every step keeps them,
LEMMA GroundNext == ASSUME GroundInv, [Next]_vars PROVE GroundInv'
<1>1. UninstallInv' /\ DrivesInv'
  BY NextInv, NextDrivesInv DEF GroundInv
<1>2. TablesInv' /\ ConfInv'
  BY AllSteps, NextTables, NextConf DEF GroundInv, DrivesInv
<1> QED
  BY <1>1, <1>2 DEF GroundInv

\* and they are these.
LEMMA Grounds == ASSUME GroundInv PROVE UninstallInv /\ StoreInv /\ TablesInv /\ ConfInv
BY DEF GroundInv, DrivesInv

\* Files that a configured database lists are not removed, or a defect strikes.
LEMMA ImportLeaves ==
  ASSUME GroundInv, Import, Sane', NEW db \in Configured(ini), NEW place \in Places
  PROVE  files[place] \cap Wanted(db) \subseteq files'[place]
<1>1. PICK first, bad : ImportsWith(first, bad)
  BY Grounds, ImportStep
<1>2. files'[place] = (files[place] \ GoneFrom(place)) \cup {p \in Needed \ bad : At(p) = place}
  BY <1>1 DEF ImportsWith
<1>3. GoneFrom(place) \cap Wanted(db) = {}
  <2>1. CASE db \in run.process
    <3>1. Updating
      BY Grounds, ImportStep, PcsAreNotIdle DEF Updating, UpdatePcs
    <3>2. db \in DOMAIN run.mem.dbs
      BY <2>1, <3>1 DEF GroundInv, TablesInv, SessionInv
    <3> QED
      BY <2>1, <3>2 DEF GoneFrom, Kept
  <2>2. CASE db \notin run.process
    <3>1. "dropped" \notin defects'
      BY DEF Sane, Unfounded
    <3> QED
      BY <1>1, <2>2, <3>1 DEF ImportsWith, Struck
  <2> QED
    BY <2>1, <2>2
<1> QED
  BY <1>2, <1>3

\* Files that a configured database lists are not removed with another, or a defect strikes.
LEMMA RemovalLeaves ==
  ASSUME GroundInv, NEW x, NEW y, NEW p, RemoveFile(x, y, p), Sane',
         NEW db \in Configured(ini), ~Removing(db), NEW place \in Places
  PROVE  files[place] \cap Wanted(db) \subseteq files'[place]
<1>1. Uninstalling
  BY Grounds, RemovingMem
<1>2. db \notin run.process
  BY <1>1 DEF Removing
<1>3. "dropped" \notin defects'
  BY DEF Sane, Unfounded
<1>4. files' = files \/ (files' = [files EXCEPT ![y] = @ \ {p}] /\ p \notin Wanted(db))
  BY <1>2, <1>3 DEF RemoveFile, Struck
<1>5. files = [q \in Places |-> files[q]]
  BY DEF GroundInv, UninstallInv, FilesInv
<1> QED
  BY <1>4, <1>5

\* The steps that write the main store, or that of a drive.
Writes == SaveMain \/ \E d \in DriveSet : SaveDrive(d) \/ SaveManifest(d)

\* The others write nothing there but what cannot be read.
LEMMA OthersForget ==
  ASSUME GroundInv, Steps \/ UNCHANGED vars, ~Writes
  PROVE  /\ main' = main \/ main'.st # "whole"
         /\ \A d \in DriveSet : /\ ext'[d] = ext[d] \/ ext'[d].st # "whole"
                                /\ manifest'[d] = manifest[d] \/ manifest'[d].st # "whole"
<1>1. CASE Saves
  BY <1>1 DEF Saves, Writes, RemovePrints, SavePrints, Touch
<1>2. CASE Begin \/ Import \/ BeginUninstall \/ Forget \/ CleanConfig
  BY <1>2 DEF Begin, Import, BeginUninstall, Forget, CleanConfig, knowledge
<1>3. CASE EndUninstall \/ FreeSpaces \/ Change \/ SaveFails \/ UNCHANGED vars
  BY <1>3 DEF EndUninstall, FreeSpaces, Change, SaveFails, knowledge, vars
<1>4. CASE Crash
  <2>1. main' = main \/ main' = Torn
    BY <1>4 DEF Crash
  <2>2. ext' = ext \/ \E d \in DriveSet : ext' = [ext EXCEPT ![d] = Torn]
    BY <1>4 DEF Crash, GroundInv, DrivesInv, StoreInv
  <2>3. \A d \in DriveSet : manifest'[d] = manifest[d] \/ manifest'[d] = Torn
    BY <1>4 DEF Crash
  <2>4. DOMAIN ext = DriveSet
    BY DEF GroundInv, DrivesInv, StoreInv
  <2> QED
    BY <2>1, <2>2, <2>3, <2>4 DEF Torn
<1>5. ASSUME NEW db, NEW place, NEW p, RemoveFile(db, place, p) PROVE UNCHANGED <<main, ext, manifest>>
  BY <1>5 DEF RemoveFile, knowledge
<1> QED
  BY <1>1, <1>2, <1>3, <1>4, <1>5 DEF Steps

\* Who is removed is so until the sections are gone.
LEMMA StillRemoving ==
  ASSUME GroundInv, Steps \/ UNCHANGED vars, Sane', NEW db, Removing(db), ~Removing(db)'
  PROVE  EndUninstall
<1>1. Uninstalling /\ DOMAIN run = UninstallFields /\ db \in run.process /\ run.kind = "uninstall"
  BY UninstallHas DEF Removing, GroundInv, Uninstalling
<1>2. run.pc # "idle" /\ run.pc \in UninstallPcs /\ run # Idle
  BY <1>1, PcsAreNotIdle DEF GroundInv, UninstallInv, RunInv, Uninstalling, Idle
<1>3. ~Saves
  <2>1. ASSUME Saves PROVE FALSE
    <3>1. Uninstalling' /\ run'.process = run.process
      BY <1>1, <2>1, SavingSession, Grounds DEF UninstallFields
    <3> QED
      BY <1>1, <3>1 DEF Removing
  <2> QED
    BY <2>1
<1>4. ~(Begin \/ BeginUninstall)
  BY <1>2 DEF Begin, BeginUninstall
<1>5. ~(Import \/ FreeSpaces)
  BY <1>2, PcsAreNotIdle DEF Import, FreeSpaces, UninstallPcs
<1>6. ~Forget /\ ~(\E c \in run.todo : RemoveFile(c[1], c[2], c[3]))
  <2>1. ASSUME Forget PROVE Uninstalling' /\ run'.process = run.process
    BY <2>1, ForgetMem, Grounds
  <2>2. ASSUME NEW x, NEW y, NEW p, RemoveFile(x, y, p) PROVE Uninstalling' /\ run'.process = run.process
    BY <2>2, RemovingMem, Grounds
  <2> QED
    BY <1>1, <2>1, <2>2 DEF Removing
<1>7. ~CleanConfig
  <2>1. ASSUME CleanConfig PROVE FALSE
    <3>1. PICK done, cleaned, warned :
              run' = [run EXCEPT !.done = done, !.cleaned = cleaned, !.warned = warned]
      BY <2>1 DEF CleanConfig
    <3>2. Uninstalling' /\ run'.process = run.process
      BY <1>1, <1>2, <3>1 DEF UninstallFields, Uninstalling
    <3> QED
      BY <1>1, <3>2 DEF Removing
  <2> QED
    BY <2>1
<1>8. ~Crash /\ ~SaveFails
  BY <1>1 DEF Crash, SaveFails, Struck, Sane, Unfounded
<1>9. ~(Change \/ UNCHANGED vars)
  <2>1. ASSUME run' = run PROVE FALSE
    BY <2>1 DEF Removing, Uninstalling
  <2> QED
    BY <2>1 DEF Change, vars
<1> QED
  BY <1>3, <1>4, <1>5, <1>6, <1>7, <1>8, <1>9 DEF Steps

\* Who is current after a step that writes none of the stores was so before, and
\* nothing it lists is gone.
LEMMA StillRecalled ==
  ASSUME GroundInv, Steps \/ UNCHANGED vars, ~Writes, Sane',
         NEW db \in Dbs, Recalled(db)', ~Removing(db)'
  PROVE  /\ Recalled(db) /\ ~Removing(db) /\ main' = main /\ edition'[db] = edition[db]
         /\ Wanted(db)' = Wanted(db)
         /\ \A place \in Places : files[place] \cap Wanted(db) \subseteq files'[place]
<1>1. main' = main /\ main.st = "whole" /\ db \in DOMAIN main.is.prints
  BY OthersForget DEF Recalled, Current
<1>2. edition' = edition \/ Change
  BY DEF Steps, Begin, Import, Saves, RemovePrints, SaveMain, SavePrints, Touch, SaveDrive, SaveManifest,
         BeginUninstall, Forget, CleanConfig, EndUninstall, FreeSpaces, Crash, SaveFails, RemoveFile, vars
<1>3. edition'[db] = edition[db]
  <2>1. CASE Change
    <3>1. /\ main.is.prints[db].edition \in 0..edition[db] /\ edition[db] \in Nat /\ DOMAIN edition = Dbs
      BY <1>1, EditionsAssumption, LenProperties DEF GroundInv, TablesInv, TypedInv, TableOK, PrintOK
    <3>2. edition' = edition \/ \E x \in Dbs : edition' = [edition EXCEPT ![x] = @ + 1]
      BY <2>1 DEF Change
    <3>3. main.is.prints[db].edition = edition'[db]
      BY <1>1 DEF Recalled, Current
    <3> QED
      BY <3>1, <3>2, <3>3
  <2> QED
    BY <1>2, <2>1
<1>4. Sane /\ Recalled(db)
  BY <1>1, <1>3, SaneBefore, Grounds DEF Recalled, Current
<1>5. ~Removing(db)
  <2>1. ASSUME Removing(db) PROVE FALSE
    <3>1. EndUninstall
      BY <2>1, StillRemoving
    <3>2. run.pc = "config"
      BY <3>1 DEF EndUninstall
    <3> QED
      BY <1>1, <1>4, <2>1, <3>2 DEF GroundInv, ConfInv
  <2> QED
    BY <2>1
<1>6. db \in Configured(ini)
  BY <1>1, <1>4, <1>5 DEF GroundInv, ConfInv
<1>7. \A place \in Places : files[place] \cap Wanted(db) \subseteq files'[place]
  <2>1. CASE Import
    BY <1>6, <2>1, ImportLeaves
  <2>2. CASE \E c \in run.todo : RemoveFile(c[1], c[2], c[3])
    BY <1>5, <1>6, <2>2, RemovalLeaves
  <2>3. CASE ~Import /\ ~(\E c \in run.todo : RemoveFile(c[1], c[2], c[3]))
    <3>1. files' = files
      BY <2>3 DEF Steps, Begin, Saves, RemovePrints, SaveMain, SavePrints, Touch, SaveDrive, SaveManifest,
             BeginUninstall, Forget, CleanConfig, EndUninstall, FreeSpaces, Crash, SaveFails, Change, vars
    <3> QED
      BY <3>1
  <2> QED
    BY <2>1, <2>2, <2>3
<1>8. Wanted(db)' = Wanted(db)
  BY <1>3 DEF Wanted
<1> QED
  BY <1>1, <1>3, <1>4, <1>5, <1>7, <1>8

\* A session that imports has what is on the drives that are there, and the fingerprints
\* of the main store.
LoadedInv ==
  Updating /\ run.pc = "import" =>
    /\ \A db \in DOMAIN run.mem.dbs : \A d \in DOMAIN run.mem.dbs[db] \ {"base"} :
         d \in plugged /\ Lists(ext[d], db) /\ run.mem.dbs[db][d] = ext[d].is[db]
    /\ \A db \in DOMAIN run.mem.prints : Current(run.mem.prints, db) =>
         Recalled(db) /\ run.mem.prints[db] = main.is.prints[db]

\* Until the main store is saved, a session has the fingerprints it has, but for those
\* it processes; and what it has on a drive is there, or was read from the store there.
Early == run.pc \in {"import", "prints", "main", "remove"}
MemInv ==
  Early =>
    /\ \A db \in DOMAIN run.mem.prints :
         \/ Updating /\ db \in run.process
         \/ main.st = "whole" /\ db \in DOMAIN main.is.prints /\ run.mem.prints[db] = main.is.prints[db]
    /\ Sane => \A db \in DOMAIN run.mem.prints : ~Removing(db) =>
         \A d \in DOMAIN run.mem.dbs[db] \ {"base"} : \A p \in run.mem.dbs[db][d] \cap Wanted(db) :
           p \in files[d] \/ (Lists(ext[d], db) /\ p \in ext[d].is[db])
    /\ Updating => \A db \in DOMAIN run.mem.dbs : DOMAIN run.mem.dbs[db] \subseteq {"base"} \cup plugged

\* A fragment that is loaded is that of the store of a drive that is there.
LEMMA LoadedFragments ==
  ASSUME StoreInv, NEW db \in DOMAIN Loaded.dbs, NEW d \in DOMAIN Loaded.dbs[db] \ {"base"}
  PROVE  d \in plugged /\ Lists(ext[d], db) /\ Loaded.dbs[db][d] = ext[d].is[db]
<1> DEFINE own == IF main.st = "whole" THEN main.is ELSE NewStore
           on(x) == {e \in plugged : /\ ext[e].st = "whole" /\ x \in DOMAIN ext[e].is
                                     /\ \/ main.st = "absent"
                                        \/ x \in DOMAIN own.dbs \cup Configured(ini)}
           known == DOMAIN own.dbs \cup {x \in Dbs : on(x) # {}}
           base(x) == IF x \in DOMAIN own.dbs THEN own.dbs[x] ELSE {}
<1>1. main.st # "torn"
  BY DEF Loaded, NewStore, NoMap
<1>2. Loaded.dbs = [x \in known |-> [place \in {"base"} \cup on(x) |->
                                       IF place = "base" THEN base(x) ELSE ext[place].is[x]]]
  BY <1>1 DEF Loaded
<1>3. db \in known /\ d \in on(db) /\ Loaded.dbs[db][d] = ext[d].is[db]
  <2> HIDE DEF on, known, base
  <2> QED
    BY <1>2
<1> QED
  BY <1>3 DEF Lists

\* What an update has in memory when it begins.
LoadedFor(mixed) == IF mixed = {} THEN NewStore ELSE WithStores(Loaded, mixed)
HasLoaded(mem) ==
  /\ \A db \in DOMAIN mem.dbs : \A d \in DOMAIN mem.dbs[db] \ {"base"} :
       /\ d \in plugged /\ Lists(ext[d], db) /\ mem.dbs[db][d] = ext[d].is[db]
  /\ \A db \in DOMAIN mem.prints :
       \/ mem.prints[db] = NoPrint
       \/ main.st = "whole" /\ db \in DOMAIN main.is.prints /\ mem.prints[db] = main.is.prints[db]

\* An update has in memory what the stores have.
LEMMA BeginMem == ASSUME StoreInv, NEW mixed PROVE HasLoaded(LoadedFor(mixed))
<1> DEFINE mem == LoadedFor(mixed)
<1>1. CASE mixed = {}
  BY <1>1 DEF HasLoaded, LoadedFor, NewStore, NoMap
<1>2. CASE mixed # {}
  <2>1. mem = WithStores(Loaded, mixed)
    BY <1>2 DEF LoadedFor
  <2>2. /\ mem.dbs = [db \in DOMAIN Loaded.dbs \cup mixed |-> IF db \in DOMAIN Loaded.dbs THEN Loaded.dbs[db]
                                                             ELSE [place \in {"base"} |-> {}]]
        /\ mem.prints = [db \in DOMAIN Loaded.prints \cup mixed |-> PrintIn(Loaded.prints, db)]
    BY <2>1 DEF WithStores
  <2> HIDE DEF mem
  <2>3. ASSUME NEW db \in DOMAIN mem.dbs, NEW d \in DOMAIN mem.dbs[db] \ {"base"}
        PROVE  db \in DOMAIN Loaded.dbs /\ mem.dbs[db] = Loaded.dbs[db]
    BY <2>2, <2>3
  <2>4. ASSUME NEW db \in DOMAIN mem.prints
        PROVE  mem.prints[db] = NoPrint
              \/ (main.st = "whole" /\ db \in DOMAIN main.is.prints /\ mem.prints[db] = main.is.prints[db])
    BY <2>2, LoadedPrints DEF PrintIn, NoMap
  <2>5. ASSUME NEW db \in DOMAIN mem.dbs, NEW d \in DOMAIN mem.dbs[db] \ {"base"}
        PROVE  d \in plugged /\ Lists(ext[d], db) /\ mem.dbs[db][d] = ext[d].is[db]
    BY <2>3, LoadedFragments
  <2>6. HasLoaded(mem)
    BY <2>4, <2>5, Zenon DEF HasLoaded
  <2> QED
    BY <2>6 DEF mem
<1> QED
  BY <1>1, <1>2 DEF mem

\* An update that begins has loaded what is on the drives,
LEMMA BeginLoads == ASSUME GroundInv, Begin PROVE LoadedInv' /\ MemInv'
<1>1. UNCHANGED <<edition, plugged, main, ext, files>>
  BY BeginStep DEF knowledge
<1>2. PICK only \in SUBSET Configured(ini) : \E bad \in SUBSET only, lost \in BOOLEAN :
             BeginsWith(only, bad, lost)
  BY BeginStep
<1>3. PICK bad \in SUBSET only, lost \in BOOLEAN : BeginsWith(only, bad, lost)
  BY <1>2
<1>4. CASE run' = Idle
  BY <1>4 DEF LoadedInv, MemInv, Early, Updating, Idle
<1>5. CASE run' # Idle
  <2>1. PICK mixed \in SUBSET Configured(ini) :
              /\ run'.kind = "update" /\ run'.pc \in {"import", "prints", "free"}
              /\ run'.mem = IF mixed = {} THEN NewStore ELSE WithStores(Loaded, mixed)
              /\ run'.process \subseteq mixed
              /\ \A db \in mixed \ run'.process : SkipsMix(run'.mem, db)
    BY <1>3, <1>5, BeginRun
  <2>2. /\ \A db \in DOMAIN run'.mem.dbs : \A d \in DOMAIN run'.mem.dbs[db] \ {"base"} :
              /\ d \in plugged /\ Lists(ext[d], db) /\ run'.mem.dbs[db][d] = ext[d].is[db]
        /\ \A db \in DOMAIN run'.mem.prints :
              run'.mem.prints[db] = NoPrint
              \/ /\ main.st = "whole" /\ db \in DOMAIN main.is.prints
                 /\ run'.mem.prints[db] = main.is.prints[db]
    <3>1. StoreInv
      BY Grounds
    <3>2. run'.mem = LoadedFor(mixed)
      BY <2>1 DEF LoadedFor
    <3>3. HasLoaded(run'.mem)
      BY <3>1, <3>2, BeginMem
    <3> QED
      BY <3>3 DEF HasLoaded
  <2>3. ASSUME NEW db \in DOMAIN run'.mem.prints, run'.mem.prints[db] = NoPrint
        PROVE  run'.mem.prints[db].edition # edition[db]
    <3>1. db \in Dbs
      <4>1. TablesInv' /\ run' # Idle
        BY <1>5, BeginTables, Grounds
      <4> QED
        BY <4>1 DEF TablesInv, TypedInv, TableOK
    <3>2. edition[db] \in 1..Len(Editions[db])
      BY <3>1 DEF GroundInv, TablesInv, TypedInv
    <3> QED
      BY <2>3, <3>2 DEF NoPrint
  <2>4. ASSUME NEW db \in DOMAIN run'.mem.prints, db \notin run'.process
        PROVE  main.st = "whole" /\ db \in DOMAIN main.is.prints /\ run'.mem.prints[db] = main.is.prints[db]
    <3>1. CASE db \in mixed
      <4>1. SkipsMix(run'.mem, db)
        BY <2>1, <2>4, <3>1
      <4>2. run'.mem.prints[db].edition = edition[db]
        BY <4>1 DEF SkipsMix, MixTrusts, Unchanged, PrintIn
      <4> QED
        BY <2>2, <2>3, <4>2
    <3>2. CASE db \notin mixed
      <4>1. mixed # {}
        BY <2>1 DEF NewStore, NoMap
      <4>2. db \in DOMAIN Loaded.prints /\ run'.mem.prints[db] = PrintIn(Loaded.prints, db)
        BY <2>1, <3>2, <4>1 DEF WithStores
      <4> QED
        BY <4>2, LoadedPrints DEF PrintIn, NoMap
    <3> QED
      BY <3>1, <3>2
  <2>5. Updating'
    BY <2>1 DEF Updating
  <2>6. LoadedInv'
    BY <1>1, <2>2, <2>3 DEF LoadedInv, Lists, Recalled, Current
  <2>7. MemInv'
    <3>1. \A db : ~Removing(db)'
      BY <2>1 DEF Removing, Uninstalling
    <3>2. DOMAIN run'.mem.prints \subseteq DOMAIN run'.mem.dbs
      <4>1. StoreInv'
        BY BeginDrives DEF GroundInv, DrivesInv
      <4> QED
        BY <1>5, <4>1 DEF StoreInv, StoreOK
    <3> QED
      BY <1>1, <2>2, <2>4, <2>5, <3>1, <3>2 DEF MemInv, Lists
  <2> QED
    BY <2>6, <2>7
<1> QED
  BY <1>4, <1>5

\* The session stays as it was while the sections are removed.
LEMMA CleanRun ==
  ASSUME UninstallInv, CleanConfig
  PROVE  /\ run.pc = "config" /\ run'.pc = "config" /\ DOMAIN run' = DOMAIN run
         /\ \A x \in DOMAIN run \ {"pc", "done", "cleaned", "warned"} : run'[x] = run[x]
<1>1. PICK done, cleaned, warned :
         run' = [run EXCEPT !.done = done, !.cleaned = cleaned, !.warned = warned]
  BY DEF CleanConfig
<1>2. run.pc = "config"
  BY DEF CleanConfig
<1>3. DOMAIN run = UninstallFields
  BY <1>2, InUninstall
<1> QED
  BY <1>1, <1>2, <1>3 DEF UninstallFields

\* The other steps load nothing.
LEMMA OthersLoad ==
  ASSUME GroundInv, LoadedInv, Steps \/ UNCHANGED vars, ~Begin
  PROVE  LoadedInv'
<1> SUFFICES ASSUME Updating', run'.pc = "import" PROVE LoadedInv'
  BY DEF LoadedInv
<1> USE Grounds
<1>1. CASE Import
  <2>1. run'.pc \in {"prints", "free"}
    BY <1>1, ImportStep, ImportRun DEF ImportsWith
  <2> QED
    BY <2>1
<1>2. CASE Saves
  <2>1. run'.pc # "import"
    BY <1>2, SavingSession, PcsAreNotIdle
  <2> QED
    BY <2>1
<1>3. CASE BeginUninstall \/ Forget
  <2>1. BeginUninstall => run'.pc = "remove"
    BY DEF BeginUninstall
  <2>2. Forget => run'.pc # "import"
    BY ForgetMem
  <2> QED
    BY <1>3, <2>1, <2>2
<1>4. CASE CleanConfig
  BY <1>4, CleanRun
<1>5. CASE EndUninstall \/ FreeSpaces \/ Crash \/ SaveFails
  BY <1>5, FailingStep DEF EndUninstall, FreeSpaces, Crash, Idle
<1>6. CASE Change
  BY <1>6 DEF Change, Updating
<1>7. ASSUME NEW db, NEW place, NEW p, RemoveFile(db, place, p) PROVE FALSE
  BY <1>7, RemovingMem
<1>8. CASE UNCHANGED vars
  BY <1>8 DEF vars, knowledge, LoadedInv, Updating, Lists, Recalled, Current
<1> QED
  BY <1>1, <1>2, <1>3, <1>4, <1>5, <1>6, <1>7, <1>8 DEF Steps

\* What is imported is where it goes, and what was there and is listed stays.
LEMMA ImportGets ==
  ASSUME GroundInv, Import, Sane', NEW first, NEW bad, ImportsWith(first, bad),
         NEW db \in run.process, NEW p \in Wanted(db) \ bad
  PROVE  p \in files'[At(p)]
<1>1. Updating /\ db \in Configured(ini) /\ At(p) \in Places
  <2>1. Updating
    BY Grounds, ImportStep, PcsAreNotIdle DEF Updating, UpdatePcs
  <2> QED
    BY <2>1, AtAPlace, Grounds DEF TablesInv, SessionInv
<1>2. CASE p \in files[At(p)]
  BY <1>1, <1>2, ImportLeaves
<1>3. CASE p \notin files[At(p)]
  <2>1. p \in Needed \ bad
    BY <1>3 DEF Needed
  <2> QED
    BY <1>1, <2>1 DEF ImportsWith
<1> QED
  BY <1>2, <1>3

\* The stores of a database that was processed.
LEMMA ImportedStore ==
  ASSUME StoreInv, run # Idle, NEW first, NEW bad, NEW db \in run.process \cap DOMAIN run.mem.dbs,
         NEW place \in DOMAIN StoresAfter(first, bad).dbs[db]
  PROVE  /\ place \in DOMAIN run.mem.dbs[db] \/ place \in {"base"} \cup plugged
         /\ \A p \in StoresAfter(first, bad).dbs[db][place] :
              \/ place \in DOMAIN run.mem.dbs[db] /\ p \in run.mem.dbs[db][place]
              \/ p \in Wanted(db) \ bad /\ At(p) = place
<1> DEFINE c == ClaimsAfter(first, bad, db)
           got == Owned(first, db) \ bad
<1>1. StoresAfter(first, bad).dbs[db] = [q \in {q \in DOMAIN c : q = "base" \/ c[q] # {}} |-> c[q]]
  BY DEF StoresAfter
<1>2. place \in DOMAIN c /\ StoresAfter(first, bad).dbs[db][place] = c[place]
  <2> HIDE DEF c
  <2> QED
    BY <1>1
<1>3. got \subseteq Wanted(db) \ bad
  BY DEF Owned
<1>4. /\ DOMAIN c = DOMAIN run.mem.dbs[db] \cup {At(p) : p \in got}
      /\ c[place] = (IF place \in DOMAIN run.mem.dbs[db] THEN run.mem.dbs[db][place] \cap Wanted(db) ELSE {})
                       \cup {p \in got : At(p) = place}
  BY <1>2 DEF ClaimsAfter
<1> HIDE DEF c, got
<1> QED
  BY <1>2, <1>3, <1>4, AtAPlace

\* and one that imports leaves the databases it does not process as they were.
LEMMA ImportMem == ASSUME GroundInv, MemInv, Import PROVE MemInv'
<1> USE Grounds
<1>1. PICK first, bad : ImportsWith(first, bad)
  BY ImportStep
<1> DEFINE new == StoresAfter(first, bad)
<1>2. /\ run.pc = "import" /\ run # Idle /\ Updating /\ UNCHANGED <<ini, edition, option, plugged, main, ext>>
      /\ "mem" \in DOMAIN run /\ {"kind", "pc"} \subseteq DOMAIN run
  BY ImportStep, PcsAreNotIdle DEF Updating, UpdatePcs, knowledge, StoreInv
<1>3. DOMAIN run = UpdateFields
  BY <1>2 DEF TablesInv, SessionInv
<1>4. /\ run'.mem = new /\ run'.process = run.process /\ run'.kind = run.kind
      /\ run'.pc \in {"prints", "free"}
  BY <1>1, <1>2, <1>3, ImportRun DEF ImportsWith, UpdateFields
<1>5. Updating' /\ ~Uninstalling'
  BY <1>2, <1>4 DEF Updating, Uninstalling
<1>6. /\ DOMAIN new.dbs = DOMAIN run.mem.dbs /\ DOMAIN new.prints = DOMAIN run.mem.prints
      /\ \A db \in DOMAIN run.mem.dbs \ run.process : new.dbs[db] = run.mem.dbs[db]
      /\ \A db \in DOMAIN run.mem.prints \ run.process : new.prints[db] = run.mem.prints[db]
  BY DEF StoresAfter
<1>7. DOMAIN run.mem.prints \subseteq DOMAIN run.mem.dbs
  BY <1>2 DEF StoreInv, StoreOK
<1> HIDE DEF new
<1>8. Early
  BY <1>2 DEF Early
<1>9. \A db \in DOMAIN new.prints : \/ db \in run.process
                                   \/ /\ main.st = "whole" /\ db \in DOMAIN main.is.prints
                                      /\ new.prints[db] = main.is.prints[db]
  BY <1>6, <1>8, <1>2 DEF MemInv
<1>10. ASSUME Sane', NEW db \in DOMAIN new.prints, NEW d \in DOMAIN new.dbs[db] \ {"base"},
              NEW p \in new.dbs[db][d] \cap Wanted(db)
       PROVE  p \in files'[d] \/ (Lists(ext[d], db) /\ p \in ext[d].is[db])
  <2>1. Sane /\ db \in Configured(ini) /\ ~Removing(db) /\ d \in Places
    <3>1. Sane
      BY <1>10, SaneBefore DEF Steps
    <3>2. ~Removing(db)
      BY <1>2 DEF Removing, Updating, Uninstalling
    <3>3. db \in Configured(ini)
      BY <1>2, <1>6, <3>1, <3>2 DEF ConfInv
    <3>4. db \in DOMAIN new.dbs /\ InPlaces(new)
      BY <1>2, <1>6, <1>7, StoresAfterOK DEF new
    <3> QED
      BY <3>1, <3>2, <3>3, <3>4 DEF InPlaces
  <2>2. ASSUME d \in DOMAIN run.mem.dbs[db], p \in run.mem.dbs[db][d]
        PROVE  p \in files'[d] \/ (Lists(ext[d], db) /\ p \in ext[d].is[db])
    <3>1. p \in files[d] \/ (Lists(ext[d], db) /\ p \in ext[d].is[db])
      BY <1>6, <1>8, <1>10, <2>1, <2>2 DEF MemInv
    <3>2. files[d] \cap Wanted(db) \subseteq files'[d]
      BY <1>10, <2>1, ImportLeaves
    <3> QED
      BY <3>1, <3>2
  <2>3. CASE db \in run.process
    <3>1. db \in run.process \cap DOMAIN run.mem.dbs
      BY <1>6, <1>7, <2>3
    <3>2. \/ d \in DOMAIN run.mem.dbs[db] /\ p \in run.mem.dbs[db][d]
          \/ p \in Wanted(db) \ bad /\ At(p) = d
      BY <1>2, <3>1, ImportedStore DEF new
    <3> QED
      BY <1>1, <1>10, <2>2, <2>3, <3>2, ImportGets
  <2>4. CASE db \notin run.process
    BY <1>6, <1>7, <2>2, <2>4
  <2> QED
    BY <2>3, <2>4
<1>11. \A db \in DOMAIN new.dbs : DOMAIN new.dbs[db] \subseteq {"base"} \cup plugged
  <2> SUFFICES ASSUME NEW db \in DOMAIN new.dbs, NEW place \in DOMAIN new.dbs[db]
               PROVE  place \in {"base"} \cup plugged
    OBVIOUS
  <2>1. DOMAIN run.mem.dbs[db] \subseteq {"base"} \cup plugged
    BY <1>2, <1>6, <1>8 DEF MemInv
  <2>2. CASE db \in run.process
    BY <1>2, <1>6, <2>1, <2>2, ImportedStore DEF new
  <2>3. CASE db \notin run.process
    BY <1>6, <2>1, <2>3
  <2> QED
    BY <2>2, <2>3
<1>12. \A db : Wanted(db)' = Wanted(db)
  BY <1>2 DEF Wanted
<1> QED
  BY <1>2, <1>4, <1>5, <1>9, <1>10, <1>11, <1>12 DEF MemInv, Lists

\* What an uninstall has in memory is what was loaded,
LEMMA LoadMem == ASSUME GroundInv, BeginUninstall PROVE MemInv'
<1>1. /\ run'.mem = Loaded /\ run'.kind = "uninstall"
      /\ UNCHANGED <<edition, files, main, ext>>
  BY DEF BeginUninstall, knowledge
<1>2. ~Updating'
  BY <1>1 DEF Updating
<1>3. \A db \in DOMAIN Loaded.prints : /\ main.st = "whole" /\ db \in DOMAIN main.is.prints
                                      /\ Loaded.prints[db] = main.is.prints[db]
  BY LoadedPrints DEF NoMap
<1>4. DOMAIN Loaded.prints \subseteq DOMAIN Loaded.dbs
  BY LoadedOK, Grounds DEF StoreOK
<1>5. ASSUME NEW db \in DOMAIN Loaded.prints, NEW d \in DOMAIN Loaded.dbs[db] \ {"base"},
             NEW p \in Loaded.dbs[db][d]
      PROVE  Lists(ext[d], db) /\ p \in ext[d].is[db]
  <2>1. db \in DOMAIN Loaded.dbs /\ Loaded.dbs[db][d] = ext[d].is[db] /\ Lists(ext[d], db)
    BY <1>4, LoadedFragments, Grounds
  <2> QED
    BY <2>1
<1> QED
  BY <1>1, <1>2, <1>3, <1>5 DEF MemInv, Lists

\* less what is removed,
LEMMA RemoveMem ==
  ASSUME GroundInv, MemInv, NEW x, NEW y, NEW z, RemoveFile(x, y, z)
  PROVE  MemInv'
<1>1. /\ run.pc = "remove" /\ run'.pc = "remove" /\ run # Idle /\ Uninstalling /\ Uninstalling'
      /\ run'.process = run.process /\ run'.mem.prints = run.mem.prints
      /\ DOMAIN run'.mem.dbs = DOMAIN run.mem.dbs
      /\ \A db \in DOMAIN run.mem.dbs :
           /\ DOMAIN run'.mem.dbs[db] = DOMAIN run.mem.dbs[db]
           /\ \A q \in DOMAIN run.mem.dbs[db] : run'.mem.dbs[db][q] \subseteq run.mem.dbs[db][q]
  BY RemovingMem, Grounds DEF Idle
<1>2. UNCHANGED <<ini, edition, main, ext>>
  BY DEF RemoveFile, knowledge
<1>3. /\ DOMAIN run.mem.prints \subseteq DOMAIN run.mem.dbs /\ InPlaces(run.mem)
  BY <1>1, Grounds DEF StoreInv, StoreOK
<1>4. Early /\ ~Updating /\ ~Updating'
  BY <1>1 DEF Early, Updating, Uninstalling
<1>5. \A db \in DOMAIN run.mem.prints : /\ main.st = "whole" /\ db \in DOMAIN main.is.prints
                                       /\ run.mem.prints[db] = main.is.prints[db]
  BY <1>4 DEF MemInv
<1>6. ASSUME Sane', NEW db \in DOMAIN run.mem.prints, ~Removing(db)',
             NEW d \in DOMAIN run'.mem.dbs[db] \ {"base"}, NEW p \in run'.mem.dbs[db][d] \cap Wanted(db)
      PROVE  p \in files'[d] \/ (Lists(ext[d], db) /\ p \in ext[d].is[db])
  <2>1. Sane
    <3>1. defects \subseteq defects'
      BY DEF RemoveFile, Struck
    <3> QED
      BY <1>6, <3>1 DEF Sane
  <2>2. ~Removing(db)
    BY <1>1, <1>6 DEF Removing
  <2>3. db \in Configured(ini)
    BY <1>1, <2>1, <2>2, Grounds DEF ConfInv
  <2>4. d \in DOMAIN run.mem.dbs[db] /\ p \in run.mem.dbs[db][d] /\ d \in Places
    BY <1>1, <1>3, <1>6 DEF InPlaces
  <2>5. p \in files[d] \/ (Lists(ext[d], db) /\ p \in ext[d].is[db])
    BY <1>4, <1>6, <2>1, <2>2, <2>4 DEF MemInv
  <2>6. files[d] \cap Wanted(db) \subseteq files'[d]
    BY <1>6, <2>2, <2>3, <2>4, RemovalLeaves
  <2> QED
    BY <1>6, <2>5, <2>6
<1>7. \A db : Wanted(db)' = Wanted(db)
  BY <1>2 DEF Wanted
<1> QED
  BY <1>1, <1>2, <1>4, <1>5, <1>6, <1>7 DEF MemInv, Lists

\* and less who is done.
LEMMA ForgetKeepsMem == ASSUME GroundInv, MemInv, Forget PROVE MemInv'
<1>1. PICK done \in SUBSET run.process :
           /\ run.pc = "remove" /\ run' # Idle /\ Uninstalling /\ Uninstalling'
           /\ run'.process = run.process
           /\ DOMAIN run'.mem.dbs = DOMAIN run.mem.dbs \ done
           /\ DOMAIN run'.mem.prints = DOMAIN run.mem.prints \ done
           /\ \A x \in DOMAIN run'.mem.dbs : run'.mem.dbs[x] = run.mem.dbs[x]
           /\ \A x \in DOMAIN run'.mem.prints : run'.mem.prints[x] = run.mem.prints[x]
  BY ForgetMem, Grounds
<1>2. UNCHANGED <<edition, main, ext, files>> /\ defects \subseteq defects'
  BY DEF Forget, knowledge, Struck
<1>3. Early /\ ~Updating /\ ~Updating' /\ (Sane' => Sane) /\ \A db : Removing(db)' <=> Removing(db)
  BY <1>1, <1>2 DEF Early, Updating, Uninstalling, Sane, Removing
<1>4. DOMAIN run'.mem.prints \subseteq DOMAIN run'.mem.dbs
  <2>1. run # Idle
    BY <1>1 DEF Idle
  <2>2. DOMAIN run.mem.prints \subseteq DOMAIN run.mem.dbs
    BY <2>1, Grounds DEF StoreInv, StoreOK
  <2> QED
    BY <1>1, <2>2
<1>5. \A db : Wanted(db)' = Wanted(db)
  BY <1>2 DEF Wanted
<1>6. \A db \in DOMAIN run'.mem.prints : /\ main.st = "whole" /\ db \in DOMAIN main.is.prints
                                        /\ run'.mem.prints[db] = main.is.prints[db]
  BY <1>1, <1>3 DEF MemInv
<1>7. ASSUME Sane', NEW db \in DOMAIN run'.mem.prints, ~Removing(db)',
             NEW d \in DOMAIN run'.mem.dbs[db] \ {"base"}, NEW p \in run'.mem.dbs[db][d] \cap Wanted(db)
      PROVE  p \in files[d] \/ (Lists(ext[d], db) /\ p \in ext[d].is[db])
  <2>1. db \in DOMAIN run.mem.prints /\ run'.mem.dbs[db] = run.mem.dbs[db]
    BY <1>1, <1>4, <1>7
  <2> QED
    BY <1>3, <1>7, <2>1 DEF MemInv
<1> QED
  BY <1>2, <1>3, <1>5, <1>6, <1>7 DEF MemInv, Lists

\* The others do not change it, or it is no longer needed.
LEMMA OthersMem ==
  ASSUME GroundInv, MemInv,
         \/ Saves \/ CleanConfig \/ (EndUninstall \/ FreeSpaces \/ Crash) \/ Change \/ SaveFails
         \/ UNCHANGED vars
  PROVE  MemInv'
<1> SUFFICES ASSUME Early' PROVE MemInv'
  BY DEF MemInv
<1>1. CASE run'.mem = run.mem /\ run'.process = run.process /\ (Updating' <=> Updating) /\ Early
           /\ (Uninstalling' <=> Uninstalling) /\ (Updating => plugged' = plugged) /\ (Sane' => Sane)
           /\ UNCHANGED <<edition, main, ext, files>>
  <2>1. (\A db : Wanted(db)' = Wanted(db)) /\ \A db : Removing(db)' <=> Removing(db)
    BY <1>1 DEF Wanted, Removing
  <2> QED
    BY <1>1, <2>1 DEF MemInv, Lists
<1>2. CASE Saves
  <2>1. run.pc = "prints" /\ UNCHANGED <<main, ext>>
    <3>1. RemovePrints \/ run'.pc \in {"table", "drives", "free", "config"} \cup DriveSet
      <4>1. "pc" \in DOMAIN run
        BY DEF GroundInv, UninstallInv, RunInv, UninstallFields, Idle
      <4>2. CASE SaveMain \/ SavePrints \/ Touch
        BY <4>1, <4>2 DEF SaveMain, SavePrints, Touch, Step
      <4>3. ASSUME NEW d \in DriveSet, SaveDrive(d) \/ SaveManifest(d)
            PROVE run'.pc \in {"drives"} \cup DriveSet
        BY <4>1, <4>3 DEF SaveDrive, SaveManifest, Step
      <4> QED
        BY <1>2, <4>2, <4>3 DEF Saves
    <3>2. RemovePrints
      BY <3>1, PcsAreNotIdle, DrivesAreFinite DEF Early
    <3> QED
      BY <3>2 DEF RemovePrints
  <2>2. /\ run'.mem = run.mem /\ (Updating' <=> Updating)
        /\ (Uninstalling' <=> Uninstalling) /\ (Sane' => Sane)
        /\ UNCHANGED <<edition, plugged, files>>
        /\ \A x \in DOMAIN run \ {"pc", "left"} : run'[x] = run[x]
    BY <1>2, SavingSession, Grounds
  <2>3. "process" \in DOMAIN run
    <3>1. run.pc # "idle" /\ run # Idle
      BY <2>1 DEF Idle
    <3>2. Updating \/ Uninstalling
      BY <3>1 DEF GroundInv, UninstallInv, RunInv, Updating, Uninstalling
    <3> QED
      BY <3>2, UninstallHas, Grounds DEF TablesInv, SessionInv, UpdateFields, UninstallFields
  <2> QED
    BY <1>1, <2>1, <2>2, <2>3 DEF Early
<1>3. CASE CleanConfig
  <2>1. "pc" \in DOMAIN run /\ run.pc = "config"
    BY <1>3, CleanRun, Grounds, InUninstall DEF UninstallFields
  <2>2. run'.pc = "config"
    BY <1>3, <2>1, CleanRun, Grounds
  <2> QED
    BY <2>2 DEF Early
<1>4. CASE EndUninstall \/ FreeSpaces \/ Crash \/ SaveFails
  BY <1>4, FailingStep, Grounds DEF EndUninstall, FreeSpaces, Crash, Early, Idle
<1>5. CASE Change
  <2>1. run' = run /\ UNCHANGED <<main, ext, files>> /\ defects \subseteq defects'
    BY <1>5 DEF Change, knowledge, Struck
  <2>2. Early /\ run.pc # "idle"
    BY <2>1 DEF Early
  <2>3. run.pc = "remove" /\ edition' = edition
    BY <1>5, <2>2 DEF Change, Early
  <2>4. ~Updating /\ ~Updating' /\ (Uninstalling' <=> Uninstalling)
    BY <2>1, <2>3, InUninstall, Grounds DEF Updating, Uninstalling
  <2> QED
    BY <1>1, <2>1, <2>2, <2>3, <2>4 DEF Sane
<1>6. CASE UNCHANGED vars
  BY <1>1, <1>6 DEF vars, knowledge, Updating, Uninstalling, Sane, Early
<1> QED
  BY <1>2, <1>3, <1>4, <1>5, <1>6

LoadsInv == LoadedInv /\ MemInv

\* Every step keeps what the session has in memory to what the stores say.
LEMMA NextLoads == ASSUME GroundInv, LoadsInv, Steps \/ UNCHANGED vars PROVE LoadsInv'
<1>1. CASE Begin
  BY <1>1, BeginLoads DEF LoadsInv
<1>2. CASE ~Begin
  <2>1. LoadedInv'
    BY <1>2, OthersLoad DEF LoadsInv
  <2>2. CASE \E c \in run.todo : RemoveFile(c[1], c[2], c[3])
    BY <2>1, <2>2, RemoveMem DEF LoadsInv
  <2>3. CASE Import \/ BeginUninstall \/ Forget
    BY <2>1, <2>3, ImportMem, LoadMem, ForgetKeepsMem DEF LoadsInv
  <2>4. CASE \/ Saves \/ CleanConfig \/ (EndUninstall \/ FreeSpaces \/ Crash) \/ Change \/ SaveFails
             \/ UNCHANGED vars
    BY <2>1, <2>4, OthersMem DEF LoadsInv
  <2> QED
    BY <1>2, <2>2, <2>3, <2>4 DEF Steps
<1> QED
  BY <1>1, <1>2

-----------------------------------------------------------------------------
(* 9. The files that the stores list are there *)

\* What is being saved of a database that is current is on its drives.
HeldInv ==
  Sane /\ Saving =>
    \A db \in DOMAIN run.mem.prints : Current(run.mem.prints, db) =>
      \A d \in DOMAIN run.mem.dbs[db] \ {"base"} : run.mem.dbs[db][d] \cap Wanted(db) \subseteq files[d]

\* What a drive is said to have of a database that is current is there,
ThereInv ==
  Sane =>
    \A db \in Dbs : Recalled(db) /\ ~Removing(db) =>
      \A d \in DriveSet : \A store \in {ext[d], manifest[d]} :
        Lists(store, db) => store.is[db] \cap Wanted(db) \subseteq files[d]

\* and on a drive that is away all is there.
AwayInv ==
  Sane =>
    \A d \in DriveSet \ plugged : \A store \in {ext[d], manifest[d]} : \A db :
      Lists(store, db) => store.is[db] \subseteq files[d]

ShelfInv == GroundInv /\ LoadsInv /\ HeldInv /\ ThereInv /\ AwayInv

\* No session takes a file from a drive that is away.
LEMMA AwayFiles ==
  ASSUME GroundInv, LoadsInv, Steps \/ UNCHANGED vars, NEW d \in DriveSet \ plugged
  PROVE  files[d] \subseteq files'[d]
<1>1. d \in Places /\ d # "base"
  BY DrivesAreFinite DEF Places
<1>2. CASE Import
  <2>1. PICK first, bad : ImportsWith(first, bad)
    BY <1>2, ImportStep, Grounds
  <2>2. Updating /\ Early
    BY <1>2, ImportStep, PcsAreNotIdle, Grounds DEF Updating, UpdatePcs, Early
  <2>3. run.process \subseteq DOMAIN run.mem.dbs
    BY <2>2, Grounds DEF TablesInv, SessionInv
  <2>4. \A db \in run.process : d \notin DOMAIN run.mem.dbs[db]
    BY <1>1, <2>2, <2>3 DEF LoadsInv, MemInv
  <2>5. GoneFrom(d) = {}
    BY <2>4 DEF GoneFrom
  <2> QED
    BY <1>1, <2>1, <2>5 DEF ImportsWith
<1>3. CASE \E c \in run.todo : RemoveFile(c[1], c[2], c[3])
  <2>1. PICK c : RemoveFile(c[1], c[2], c[3])
    BY <1>3
  <2>2. files' = files \/ (files' = [files EXCEPT ![c[2]] = @ \ {c[3]}] /\ Reachable(c[1], c[2]))
    BY <2>1 DEF RemoveFile
  <2>3. Reachable(c[1], c[2]) => c[2] # d
    BY <1>1 DEF Reachable
  <2>4. files = [q \in Places |-> files[q]]
    BY Grounds DEF UninstallInv, FilesInv
  <2> QED
    BY <1>1, <2>2, <2>3, <2>4
<1>4. CASE ~Import /\ ~(\E c \in run.todo : RemoveFile(c[1], c[2], c[3]))
  <2>1. files' = files
    BY <1>4 DEF Steps, Begin, Saves, RemovePrints, SaveMain, SavePrints, Touch, SaveDrive, SaveManifest,
           BeginUninstall, Forget, CleanConfig, EndUninstall, FreeSpaces, Crash, SaveFails, Change, vars
  <2> QED
    BY <2>1
<1> QED
  BY <1>2, <1>3, <1>4

\* A drive that goes has all that it is said to have, or a defect strikes.
LEMMA GoesAway ==
  ASSUME GroundInv, Steps \/ UNCHANGED vars, Sane', NEW d \in DriveSet, d \in plugged, d \notin plugged'
  PROVE  UNCHANGED <<files, ext, manifest>> /\ ~Dangling(d)
<1>1. Change
  BY DEF Steps, Begin, Import, Saves, RemovePrints, SaveMain, SavePrints, Touch, SaveDrive, SaveManifest,
         BeginUninstall, Forget, CleanConfig, EndUninstall, FreeSpaces, Crash, SaveFails, RemoveFile, vars
<1>2. \E e \in DriveSet : /\ plugged' = IF e \in plugged THEN plugged \ {e} ELSE plugged \cup {e}
                          /\ Struck(IF e \in plugged /\ Dangling(e) THEN {"dangling"} ELSE {})
  BY <1>1 DEF Change
<1>3. Struck(IF d \in plugged /\ Dangling(d) THEN {"dangling"} ELSE {})
  BY <1>2
<1> QED
  BY <1>1, <1>3 DEF Change, knowledge, Struck, Sane, Unfounded

\* No step but the saving of a store changes what is away,
LEMMA AwayOthers ==
  ASSUME ShelfInv, Steps \/ UNCHANGED vars, ~Writes
  PROVE  AwayInv'
<1> SUFFICES ASSUME Sane', NEW d \in DriveSet \ plugged', NEW store \in {ext'[d], manifest'[d]}, NEW db,
                    Lists(store, db)
             PROVE  store.is[db] \subseteq files'[d]
  BY DEF AwayInv, Lists
<1>1. GroundInv /\ LoadsInv /\ Sane
  BY SaneBefore DEF ShelfInv, GroundInv
<1>2. store \in {ext[d], manifest[d]}
  BY <1>1, OthersForget DEF Lists
<1>3. CASE d \notin plugged
  <2>1. store.is[db] \subseteq files[d]
    BY <1>1, <1>2, <1>3 DEF ShelfInv, AwayInv
  <2> QED
    BY <1>1, <1>3, <2>1, AwayFiles
<1>4. CASE d \in plugged
  <2>1. files' = files /\ ~Dangling(d)
    BY <1>1, <1>4, GoesAway
  <2> QED
    BY <1>2, <2>1 DEF Dangling, Lists
<1> QED
  BY <1>3, <1>4

\* nor what is there,
LEMMA ThereOthers ==
  ASSUME ShelfInv, Steps \/ UNCHANGED vars, ~Writes
  PROVE  ThereInv'
<1> SUFFICES ASSUME Sane', NEW db \in Dbs, Recalled(db)', ~Removing(db)', NEW d \in DriveSet,
                    NEW store \in {ext'[d], manifest'[d]}, Lists(store, db)
             PROVE  store.is[db] \cap Wanted(db)' \subseteq files'[d]
  BY DEF ThereInv, Lists
<1>1. GroundInv /\ Sane
  BY SaneBefore DEF ShelfInv, GroundInv
<1>2. store \in {ext[d], manifest[d]}
  BY <1>1, OthersForget DEF Lists
<1>3. /\ Recalled(db) /\ ~Removing(db) /\ Wanted(db)' = Wanted(db)
      /\ files[d] \cap Wanted(db) \subseteq files'[d]
  BY <1>1, StillRecalled DEF Places
<1>4. store.is[db] \cap Wanted(db) \subseteq files[d]
  BY <1>1, <1>2, <1>3 DEF ShelfInv, ThereInv
<1> QED
  BY <1>3, <1>4

\* Once the main store is saved, nothing changes in memory until all are.
LEMMA SavingGoesOn ==
  ASSUME GroundInv, Steps \/ UNCHANGED vars, Saving', ~SaveMain
  PROVE  /\ Saving /\ run # Idle /\ (Updating' <=> Updating) /\ (Uninstalling' <=> Uninstalling)
         /\ UNCHANGED <<ini, edition, option, plugged, files, main, free>>
         /\ {"mem", "process"} \subseteq DOMAIN run /\ DOMAIN run' = DOMAIN run
         /\ \A x \in DOMAIN run \ {"pc", "left"} : run'[x] = run[x]
<1>1. CASE Saves
  <2>1. /\ run # Idle /\ (Updating' <=> Updating) /\ (Uninstalling' <=> Uninstalling)
        /\ UNCHANGED <<ini, edition, option, plugged, files, free>>
        /\ DOMAIN run' = DOMAIN run /\ \A x \in DOMAIN run \ {"pc", "left"} : run'[x] = run[x]
        /\ run.pc \in {"prints", "main", "table", "drives"} \cup DriveSet
    BY <1>1, SavingSession, Grounds
  <2>2. ~RemovePrints
    <3>1. ASSUME RemovePrints PROVE run'.pc = "main"
      BY <3>1 DEF RemovePrints, Step, GroundInv, UninstallInv, RunInv, UninstallFields, Idle
    <3> QED
      BY <3>1, DrivesAreFinite, PcsAreNotIdle DEF Saving
  <2>3. Saving /\ main' = main
    BY <1>1, <2>2 DEF Saves, SavePrints, Touch, SaveDrive, SaveManifest, Saving
  <2>4. {"mem", "process"} \subseteq DOMAIN run
    <3>1. run.pc # "idle"
      BY <2>3, DrivesAreFinite DEF Saving
    <3>2. Updating \/ Uninstalling
      BY <2>1, <3>1 DEF GroundInv, UninstallInv, RunInv, Updating, Uninstalling
    <3> QED
      BY <3>2, UninstallHas, Grounds DEF TablesInv, SessionInv, UpdateFields, UninstallFields
  <2> QED
    BY <2>1, <2>3, <2>4
<1>2. CASE UNCHANGED vars
  <2>1. Saving /\ run # Idle /\ run.pc # "idle"
    BY <1>2, DrivesAreFinite DEF vars, Saving, Idle
  <2>2. Updating \/ Uninstalling
    BY <2>1 DEF GroundInv, UninstallInv, RunInv, Updating, Uninstalling
  <2>3. {"mem", "process"} \subseteq DOMAIN run
    BY <2>2, UninstallHas, Grounds DEF TablesInv, SessionInv, UpdateFields, UninstallFields
  <2> QED
    BY <1>2, <2>1, <2>3 DEF vars, knowledge, Updating, Uninstalling
<1>3. ASSUME run'.pc \in {"idle", "import", "prints", "free", "remove", "config"} PROVE FALSE
  BY <1>3, DrivesAreFinite, PcsAreNotIdle DEF Saving
<1>4. ~Begin
  <2> SUFFICES ASSUME Begin PROVE FALSE
    OBVIOUS
  <2>1. PICK only \in SUBSET Configured(ini) : \E bad \in SUBSET only, lost \in BOOLEAN :
               BeginsWith(only, bad, lost)
    BY BeginStep
  <2>2. PICK bad \in SUBSET only, lost \in BOOLEAN : BeginsWith(only, bad, lost)
    BY <2>1
  <2>3. run' = Idle \/ run'.pc \in {"import", "prints", "free"}
    BY <2>2, BeginRun
  <2> QED
    BY <1>3, <2>3 DEF Idle
<1>5. ~Import
  <2>1. ASSUME Import PROVE run'.pc \in {"prints", "free"}
    BY <2>1, ImportStep, ImportRun, Grounds DEF ImportsWith
  <2> QED
    BY <1>3, <2>1
<1>6. ~(BeginUninstall \/ EndUninstall \/ FreeSpaces \/ Crash \/ SaveFails)
  <2>1. BeginUninstall => run'.pc = "remove"
    BY DEF BeginUninstall
  <2>2. EndUninstall \/ FreeSpaces \/ Crash => run'.pc = "idle"
    BY DEF EndUninstall, FreeSpaces, Crash, Idle
  <2>3. SaveFails => run'.pc \in {"free", "config"}
    BY FailingStep, Grounds
  <2> QED
    BY <1>3, <2>1, <2>2, <2>3
<1>7. ~Forget
  BY <1>3, ForgetMem, Grounds
<1>8. ~CleanConfig
  <2>1. ASSUME CleanConfig PROVE run'.pc = "config"
    BY <2>1, CleanRun, Grounds, InUninstall DEF UninstallFields
  <2> QED
    BY <1>3, <2>1
<1>9. ~Change
  <2>1. Change => run' = run /\ run.pc \in {"idle", "remove"}
    BY DEF Change
  <2> QED
    BY <1>3, <2>1
<1>10. ~(\E c \in run.todo : RemoveFile(c[1], c[2], c[3]))
  BY <1>3, RemovingMem, Grounds
<1> QED
  BY <1>1, <1>2, <1>4, <1>5, <1>6, <1>7, <1>8, <1>9, <1>10 DEF Steps

\* and none but the saving of the main store begins to save.
LEMMA HeldOthers ==
  ASSUME ShelfInv, Steps \/ UNCHANGED vars, ~SaveMain
  PROVE  HeldInv'
<1> SUFFICES ASSUME Sane', Saving' PROVE HeldInv'
  BY DEF HeldInv
<1>1. GroundInv /\ Sane
  BY SaneBefore DEF ShelfInv, GroundInv
<1>2. Saving /\ UNCHANGED <<edition, files>> /\ run'.mem = run.mem
  BY <1>1, SavingGoesOn
<1>3. \A db : Wanted(db)' = Wanted(db)
  BY <1>2 DEF Wanted
<1> QED
  BY <1>1, <1>2, <1>3 DEF ShelfInv, HeldInv, Current

\* What the main store has once it is saved.
LEMMA MainSaved ==
  ASSUME GroundInv, SaveMain
  PROVE  /\ run.pc = "main" /\ run'.pc = "table" /\ Saves /\ run # Idle /\ ~Saving /\ Early
         /\ main'.st = "whole" /\ main'.is.prints = Stamped(run.mem)
         /\ UNCHANGED <<ini, edition, option, plugged, files, ext, manifest, free>>
         /\ run'.mem = run.mem /\ run'.process = run.process
         /\ {"mem", "process", "left"} \subseteq DOMAIN run
         /\ DOMAIN run' = DOMAIN run /\ run.left = DriveSet
         /\ \A x \in DOMAIN run \ {"pc"} : run'[x] = run[x]
         /\ (Updating' <=> Updating) /\ (Uninstalling' <=> Uninstalling) /\ (Updating \/ Uninstalling)
         /\ StoreOK(run.mem) /\ InPlaces(run.mem) /\ TableOK(run.mem.prints)
<1>1. Saves
  BY DEF Saves
<1>2. /\ run.pc = "main" /\ main'.st = "whole" /\ main'.is.prints = Stamped(run.mem)
      /\ UNCHANGED <<ini, edition, option, plugged, files, ext, manifest, free>>
  BY DEF SaveMain, Whole
<1>3. ~Saving /\ Early
  BY <1>2, NotSaving DEF Early
<1>4. run.pc # "idle" /\ run # Idle
  BY <1>2 DEF Idle
<1>5. Updating \/ Uninstalling
  BY <1>4 DEF GroundInv, UninstallInv, RunInv, Updating, Uninstalling
<1>6. {"pc", "mem", "process", "left"} \subseteq DOMAIN run
  BY <1>5, UninstallHas, Grounds DEF TablesInv, SessionInv, UpdateFields, UninstallFields
<1>7. run' = Step("table")
  BY DEF SaveMain
<1>8. /\ DOMAIN run' = DOMAIN run /\ run'.pc = "table" /\ \A x \in DOMAIN run \ {"pc"} : run'[x] = run[x]
  BY <1>6, <1>7 DEF Step
<1>9. /\ (Updating' <=> Updating) /\ (Uninstalling' <=> Uninstalling)
  BY <1>1, SavingSession, Grounds
<1>10. StoreOK(run.mem) /\ InPlaces(run.mem) /\ run.left = DriveSet
  BY <1>2, <1>4, Grounds DEF StoreInv
<1>11. TableOK(run.mem.prints)
  BY <1>4, Grounds DEF TablesInv, TypedInv
<1> QED
  BY <1>1, <1>2, <1>3, <1>4, <1>5, <1>6, <1>8, <1>9, <1>10, <1>11

\* Whose files it then has: those that were processed, and those that it had.
LEMMA MainRecalled ==
  ASSUME GroundInv, LoadsInv, SaveMain, Sane', NEW db, Current(run.mem.prints, db)
  PROVE  /\ db \in DOMAIN run.mem.prints /\ db \in DOMAIN run.mem.dbs /\ db \in Configured(ini) /\ db \in Dbs
         /\ ~Removing(db)
         /\ \/ Updating /\ db \in run.process /\ ~Astray(db)
            \/ db \notin run.process /\ Recalled(db)
               /\ run.mem.prints[db] = main.is.prints[db] /\ ~Neglected(db)
<1>1. /\ run.pc = "main" /\ run # Idle /\ Early /\ StoreOK(run.mem) /\ (Updating \/ Uninstalling)
  BY MainSaved
<1>2. db \in DOMAIN run.mem.prints /\ db \in DOMAIN run.mem.dbs
  BY <1>1 DEF Current, StoreOK
<1>3. Sane
  BY SaneBefore, MainSaved DEF GroundInv, Steps
<1>4. db \in Configured(ini) /\ ~Removing(db)
  BY <1>1, <1>2, <1>3, Grounds DEF ConfInv
<1>5. db \in Dbs
  BY <1>4, ConfiguredKnown, Grounds
<1>6. CASE db \in run.process
  <2>1. Updating
    BY <1>1, <1>4, <1>6 DEF Removing
  <2>2. "dangling" \notin defects'
    BY DEF Sane, Unfounded
  <2>3. ~Astray(db)
    BY <1>2, <1>6, <2>2 DEF SaveMain, Struck
  <2> QED
    BY <1>2, <1>4, <1>5, <1>6, <2>1, <2>3
<1>7. CASE db \notin run.process
  <2>1. "neglected" \notin defects'
    BY DEF Sane, Unfounded
  <2>2. ~Neglected(db)
    BY <1>2, <1>7, <2>1 DEF SaveMain, Struck
  <2>3. main.st = "whole" /\ db \in DOMAIN main.is.prints /\ run.mem.prints[db] = main.is.prints[db]
    BY <1>1, <1>2, <1>7 DEF LoadsInv, MemInv
  <2>4. Recalled(db)
    BY <2>3 DEF Recalled, Current
  <2> QED
    BY <1>2, <1>4, <1>5, <1>7, <2>2, <2>3, <2>4
<1> QED
  BY <1>6, <1>7

\* Who is current in the main store then was so in memory.
LEMMA MainCurrent ==
  ASSUME GroundInv, SaveMain, NEW db, Recalled(db)'
  PROVE  Current(run.mem.prints, db)
<1>1. /\ main'.is.prints = Stamped(run.mem) /\ edition' = edition
      /\ StoreOK(run.mem) /\ TableOK(run.mem.prints)
  BY MainSaved
<1> QED
  BY <1>1, StampedTable DEF Recalled, Current

\* When the main store is saved with a database that is current, what the stores of the
\* drives still list of it is there.
LEMMA MainThere ==
  ASSUME ShelfInv, SaveMain, Sane', NEW db \in Dbs, Current(run.mem.prints, db), NEW d \in DriveSet,
         NEW store \in {ext[d], manifest[d]}, Lists(store, db)
  PROVE  store.is[db] \cap Wanted(db) \subseteq files[d]
<1>1. GroundInv /\ LoadsInv
  BY DEF ShelfInv
<1>2. Sane
  BY <1>1, SaneBefore, MainSaved DEF GroundInv, Steps
<1>3. /\ ~Removing(db)
      /\ \/ Updating /\ db \in run.process /\ ~Astray(db)
         \/ db \notin run.process /\ Recalled(db)
  BY <1>1, MainRecalled
<1>4. CASE Updating /\ db \in run.process /\ ~Astray(db)
  <2>1. CASE d \in plugged
    BY <1>4, <2>1 DEF Astray, Lists
  <2>2. CASE d \notin plugged
    BY <1>2, <2>2 DEF ShelfInv, AwayInv
  <2> QED
    BY <2>1, <2>2
<1>5. CASE Recalled(db)
  BY <1>2, <1>3, <1>5 DEF ShelfInv, ThereInv
<1> QED
  BY <1>3, <1>4, <1>5

\* Thus the main store is saved with drives that have what they should,
LEMMA MainShelf == ASSUME ShelfInv, SaveMain PROVE HeldInv' /\ ThereInv' /\ AwayInv'
<1>1. GroundInv /\ LoadsInv
  BY DEF ShelfInv
<1>2. /\ UNCHANGED <<edition, plugged, files, ext, manifest>> /\ run'.mem = run.mem
      /\ Early /\ StoreOK(run.mem) /\ InPlaces(run.mem)
  BY <1>1, MainSaved
<1>3. Sane' => Sane
  BY <1>1, SaneBefore, MainSaved DEF GroundInv, Steps
<1>4. \A db : Wanted(db)' = Wanted(db)
  BY <1>2 DEF Wanted
<1>5. AwayInv'
  BY <1>2, <1>3 DEF ShelfInv, AwayInv, Lists
<1>6. ThereInv'
  <2> SUFFICES ASSUME Sane', NEW db \in Dbs, Recalled(db)', NEW d \in DriveSet,
                      NEW store \in {ext[d], manifest[d]}, Lists(store, db)
               PROVE  store.is[db] \cap Wanted(db) \subseteq files[d]
    BY <1>2, <1>4 DEF ThereInv, Lists
  <2> QED
    BY <1>1, MainCurrent, MainThere
<1>7. HeldInv'
  <2> SUFFICES ASSUME Sane', NEW db \in DOMAIN run.mem.prints, Current(run.mem.prints, db),
                      NEW d \in DOMAIN run.mem.dbs[db] \ {"base"},
                      NEW p \in run.mem.dbs[db][d] \cap Wanted(db)
               PROVE  p \in files[d]
    BY <1>2, <1>4 DEF HeldInv, Current
  <2>1. db \in DOMAIN run.mem.dbs /\ db \in Dbs /\ ~Removing(db)
    BY <1>1, MainRecalled
  <2>2. d \in DriveSet
    BY <1>2, <2>1 DEF InPlaces, Places
  <2>3. p \in files[d] \/ (Lists(ext[d], db) /\ p \in ext[d].is[db])
    BY <1>1, <1>2, <1>3, <2>1 DEF LoadsInv, MemInv
  <2> QED
    BY <2>1, <2>2, <2>3, MainThere
<1> QED
  BY <1>5, <1>6, <1>7

\* A drive gets what is in memory of it, or nothing that can be read.
LEMMA DriveWritten ==
  ASSUME GroundInv, NEW d \in DriveSet, SaveDrive(d) \/ SaveManifest(d), NEW e \in DriveSet, NEW db,
         NEW store \in {ext'[e], manifest'[e]}, Lists(store, db)
  PROVE  \/ store \in {ext[e], manifest[e]}
         \/ /\ d = e /\ d \in plugged /\ db \in DOMAIN run.mem.dbs /\ d \in DOMAIN run.mem.dbs[db]
            /\ store.is[db] = run.mem.dbs[db][d]
<1>1. DOMAIN ext = DriveSet /\ DOMAIN manifest = DriveSet
  BY Grounds DEF StoreInv, TablesInv, TypedInv
<1>2. CASE SaveDrive(d)
  <2>1. \/ d \in plugged /\ ext' = [ext EXCEPT ![d] = Absent] /\ manifest' = manifest
        \/ d \in plugged /\ ext' = [ext EXCEPT ![d] = Whole(FragmentsOn(run.mem, d))] /\ manifest' = manifest
        \/ ext' \in {ext, [ext EXCEPT ![d] = Torn]} /\ manifest' = [manifest EXCEPT ![d] = Absent]
        \/ ext' = ext /\ manifest' = manifest
    BY <1>2 DEF SaveDrive
  <2>2. \/ store \in {ext[e], manifest[e], Absent, Torn}
        \/ d = e /\ d \in plugged /\ store = Whole(FragmentsOn(run.mem, d))
    BY <1>1, <2>1
  <2> QED
    BY <2>2 DEF Lists, Absent, Torn, Whole, FragmentsOn
<1>3. CASE SaveManifest(d)
  <2> DEFINE known == FragmentsOn(run.mem, d)
             kept == [x \in DOMAIN known \cap DOMAIN run.mem.prints |-> known[x]]
  <2>1. /\ ext' = ext
        /\ \/ manifest' = manifest
           \/ d \in plugged /\ manifest' = [manifest EXCEPT ![d] = Absent]
           \/ d \in plugged /\ manifest' = [manifest EXCEPT ![d] = Whole(kept)]
    BY <1>3 DEF SaveManifest
  <2>2. \/ store \in {ext[e], manifest[e], Absent}
        \/ d = e /\ d \in plugged /\ store = Whole(kept)
    BY <1>1, <2>1
  <2>3. \A x \in DOMAIN kept : /\ x \in DOMAIN run.mem.dbs /\ d \in DOMAIN run.mem.dbs[x]
                              /\ kept[x] = run.mem.dbs[x][d]
    BY DEF FragmentsOn
  <2> HIDE DEF known, kept
  <2> QED
    BY <2>2, <2>3 DEF Lists, Absent, Whole
<1> QED
  BY <1>2, <1>3

\* and a drive is written with what it has.
LEMMA DriveShelf ==
  ASSUME ShelfInv, NEW d \in DriveSet, SaveDrive(d) \/ SaveManifest(d)
  PROVE  ThereInv' /\ AwayInv'
<1>1. GroundInv /\ Saves
  BY DEF ShelfInv, Saves
<1>2. /\ UNCHANGED <<edition, plugged, files>> /\ (Uninstalling' <=> Uninstalling) /\ (Sane' => Sane)
      /\ run # Idle
  BY <1>1, SavingSession, Grounds
<1>3. main' = main /\ run'.process = run.process /\ Saving
  <2>1. main' = main /\ Saving
    BY DEF SaveDrive, SaveManifest, Saving
  <2>2. run.pc # "idle"
    BY <2>1, DrivesAreFinite DEF Saving
  <2>3. Updating \/ Uninstalling
    BY <1>1, <1>2, <2>2 DEF GroundInv, UninstallInv, RunInv, Updating, Uninstalling
  <2>4. "process" \in DOMAIN run
    BY <1>1, <2>3, UninstallHas, Grounds DEF TablesInv, SessionInv, UpdateFields, UninstallFields
  <2>5. run'.process = run.process
    BY <1>1, <2>4, SavingSession, Grounds
  <2> QED
    BY <2>1, <2>5
<1>4. (\A db : Wanted(db)' = Wanted(db)) /\ \A db : Removing(db)' <=> Removing(db)
  BY <1>2, <1>3 DEF Wanted, Removing
<1>5. AwayInv'
  <2> SUFFICES ASSUME Sane', NEW e \in DriveSet \ plugged, NEW store \in {ext'[e], manifest'[e]}, NEW db,
                      Lists(store, db)
               PROVE  store.is[db] \subseteq files[e]
    BY <1>2 DEF AwayInv, Lists
  <2>1. store \in {ext[e], manifest[e]}
    BY <1>1, DriveWritten
  <2> QED
    BY <1>2, <2>1 DEF ShelfInv, AwayInv
<1>6. ThereInv'
  <2> SUFFICES ASSUME Sane', NEW db \in Dbs, Recalled(db), ~Removing(db), NEW e \in DriveSet,
                      NEW store \in {ext'[e], manifest'[e]}, Lists(store, db)
               PROVE  store.is[db] \cap Wanted(db) \subseteq files[e]
    BY <1>2, <1>3, <1>4 DEF ThereInv, Lists, Recalled, Current
  <2>1. CASE store \in {ext[e], manifest[e]}
    BY <1>2, <2>1 DEF ShelfInv, ThereInv
  <2>2. CASE /\ d = e /\ d \in plugged /\ db \in DOMAIN run.mem.dbs /\ d \in DOMAIN run.mem.dbs[db]
             /\ store.is[db] = run.mem.dbs[db][d]
    <3>1. main.is.prints = Stamped(run.mem) /\ StoreOK(run.mem) /\ TableOK(run.mem.prints)
      BY <1>1, <1>2, <1>3, Grounds DEF TablesInv, PrintsInv, TypedInv, StoreInv
    <3>2. db \in DOMAIN run.mem.prints /\ Current(run.mem.prints, db)
      BY <3>1, StampedTable DEF Recalled, Current
    <3>3. d # "base"
      BY DrivesAreFinite
    <3> QED
      BY <1>2, <1>3, <2>2, <3>2, <3>3 DEF ShelfInv, HeldInv
  <2> QED
    BY <1>1, <2>1, <2>2, DriveWritten
<1> QED
  BY <1>5, <1>6

\* Every step keeps the files that the stores list where they are.
LEMMA NextShelf == ASSUME ShelfInv, [Next]_vars PROVE ShelfInv'
<1>1. GroundInv' /\ (Steps \/ UNCHANGED vars)
  BY GroundNext, AllSteps DEF ShelfInv
<1>2. LoadsInv'
  BY <1>1, NextLoads DEF ShelfInv
<1>3. CASE SaveMain
  BY <1>1, <1>2, <1>3, MainShelf DEF ShelfInv
<1>4. CASE ~SaveMain
  <2>1. HeldInv'
    BY <1>1, <1>4, HeldOthers
  <2>2. CASE Writes
    <3>1. PICK d \in DriveSet : SaveDrive(d) \/ SaveManifest(d)
      BY <1>4, <2>2 DEF Writes
    <3>2. ThereInv' /\ AwayInv'
      BY <3>1, DriveShelf
    <3> QED
      BY <1>1, <1>2, <2>1, <3>2 DEF ShelfInv
  <2>3. CASE ~Writes
    <3>1. ThereInv' /\ AwayInv'
      BY <1>1, <2>3, ThereOthers, AwayOthers
    <3> QED
      BY <1>1, <1>2, <2>1, <3>1 DEF ShelfInv
  <2> QED
    BY <2>2, <2>3
<1> QED
  BY <1>3, <1>4

-----------------------------------------------------------------------------
(* 10. What the fingerprints account for *)

\* At the start nothing is being saved, and no store lists a database that is current.
LEMMA ShelfInit == Init => ShelfInv
<1> SUFFICES ASSUME Init PROVE ShelfInv
  OBVIOUS
<1>1. run = Idle /\ ~Saving
  BY DrivesAreFinite DEF Init, Idle, Saving
<1>2. \A d \in DriveSet : ext[d].st = "absent" /\ manifest[d].st = "absent"
  BY DEF Init, Absent
<1>3. LoadsInv
  BY <1>1 DEF LoadsInv, LoadedInv, MemInv, Updating, Early, Idle
<1> QED
  BY <1>1, <1>2, <1>3, GroundInit DEF ShelfInv, HeldInv, ThereInv, AwayInv, Lists

\* A file is where a fingerprint says, see Accounts.
Accounted(print, db, p) ==
  \/ p \in files["base"] \/ Shared(db, p)
  \/ \E bag \in print.exp : \E fragment \in DOMAIN bag : p \in fragment

\* After a failure the fingerprints are not true, until all files are looked at again.
Failing == option = "balanced" /\ Updating /\ run.failed
Lapsed == (option # "fastest" /\ free.st # "whole") \/ Failing

\* Otherwise those of the main store account for all files,
PrintsTrue ==
  Sane => \A db \in Dbs : Recalled(db) /\ ~Removing(db) /\ ~Lapsed => Accounts(main.is.prints[db], db)

\* and in any case for what the stores on the drives list, but for a drive that is
\* still to be written after a failure.
Behind(db, d) == Updating /\ run.failed /\ Saving /\ db \in run.process /\ d \in plugged \cap run.left
ClaimsTrue ==
  Sane => \A db \in Dbs : Recalled(db) /\ ~Removing(db) =>
    \A d \in DriveSet : Lists(ext[d], db) =>
      Behind(db, d) \/ \A p \in ext[d].is[db] \cap Wanted(db) : Accounted(main.is.prints[db], db, p)

\* What was processed is in the base or on a drive, or it failed and is nowhere;
InMem(db, p) ==
  \/ p \in files["base"] \/ Shared(db, p)
  \/ \E d \in DOMAIN run.mem.dbs[db] \ {"base"} : p \in run.mem.dbs[db][d]
MemTrue ==
  Sane /\ Updating /\ run.pc \in {"prints", "main"} => \A db \in run.process :
    /\ Current(run.mem.prints, db)
    /\ \A p \in Wanted(db) : InMem(db, p) \/ (Failing /\ \A d \in DriveSet \ plugged : p \notin files[d])

\* and once that is saved, the main store accounts for it.
DoneTrue ==
  Sane /\ Updating /\ (Saving \/ run.pc = "free") => \A db \in run.process :
    Failing \/ (Recalled(db) /\ Accounts(main.is.prints[db], db))

TrueInv == ShelfInv /\ PrintsTrue /\ ClaimsTrue /\ MemTrue /\ DoneTrue

\* The invariants of the sections before.
LEMMA TrueGrounds ==
  ASSUME TrueInv PROVE GroundInv /\ LoadsInv /\ UninstallInv /\ StoreInv /\ TablesInv /\ ConfInv /\ ShelfInv
BY Grounds DEF TrueInv, ShelfInv

\* What a fingerprint accounts for, it does while no file of the database is removed.
LEMMA StillAccounted ==
  ASSUME NEW db, NEW p \in Wanted(db), NEW print,
         \A place \in Places : files[place] \cap Wanted(db) \subseteq files'[place],
         Accounted(print, db, p)
  PROVE  Accounted(print, db, p)'
<1>1. \A place \in Places : p \in files[place] => p \in files'[place]
  OBVIOUS
<1>2. "base" \in Places /\ DriveSet \subseteq Places
  BY DEF Places
<1> QED
  BY <1>1, <1>2 DEF Accounted, Shared

\* What an import that goes this way does to the session.
LEMMA ImportFailed ==
  ASSUME GroundInv, Import, NEW first, NEW bad, ImportsWith(first, bad)
  PROVE  /\ Updating /\ Updating' /\ DOMAIN run = UpdateFields /\ run'.process = run.process
         /\ run'.mem = StoresAfter(first, bad) /\ run'.pc \in {"prints", "free"}
         /\ run'.pc = "free" => StoresAfter(first, bad) = run.mem
         /\ (run'.failed <=> run.failed \/ bad # {})
<1>1. Updating
  BY ImportStep, PcsAreNotIdle, Grounds DEF Updating, UpdatePcs
<1>2. DOMAIN run = UpdateFields
  BY <1>1, Grounds DEF TablesInv, SessionInv
<1> DEFINE new == StoresAfter(first, bad)
           pc == IF run.dirty \/ new # run.mem THEN "prints" ELSE "free"
           failed == run.failed \/ bad # {}
<1>3. run' = [run EXCEPT !.pc = pc, !.mem = new, !.failed = failed]
  BY DEF ImportsWith, ImportedRun
<1>4. pc \in {"prints", "free"} /\ (pc = "free" => new = run.mem)
  OBVIOUS
<1> HIDE DEF new, pc, failed
<1>5. /\ run'.pc = pc /\ run'.mem = new /\ run'.process = run.process /\ run'.kind = run.kind
      /\ run'.failed = failed
  BY <1>2, <1>3 DEF UpdateFields
<1>6. Updating'
  BY <1>1, <1>4, <1>5 DEF Updating
<1>7. failed <=> run.failed \/ bad # {}
  BY DEF failed
<1> QED
  BY <1>1, <1>2, <1>4, <1>5, <1>6, <1>7 DEF new

\* Fingerprints that lapsed hold again only once the free spaces are saved.
LEMMA StaysLapsed ==
  ASSUME GroundInv, Steps \/ UNCHANGED vars, Sane', Lapsed, ~FreeSpaces
  PROVE  Lapsed'
<1>1. option' = option /\ (free' = free \/ free'.st # "whole")
  <2>1. CASE Saves
    BY <2>1, SavingSession, Grounds
  <2>2. CASE Begin \/ Import
    BY <2>2 DEF Begin, Import, knowledge
  <2>3. CASE BeginUninstall \/ Forget \/ CleanConfig
    BY <2>3 DEF BeginUninstall, Forget, CleanConfig, knowledge
  <2>4. CASE Crash
    BY <2>4 DEF Crash, Torn
  <2>5. CASE EndUninstall \/ Change \/ SaveFails \/ UNCHANGED vars
    BY <2>5 DEF EndUninstall, Change, SaveFails, knowledge, vars
  <2>6. ASSUME NEW x, NEW y, NEW p, RemoveFile(x, y, p) PROVE UNCHANGED <<option, free>>
    BY <2>6 DEF RemoveFile, knowledge
  <2> QED
    BY <2>1, <2>2, <2>3, <2>4, <2>5, <2>6 DEF Steps
<1>2. CASE option # "fastest" /\ free.st # "whole"
  BY <1>1, <1>2 DEF Lapsed
<1>3. CASE Failing
  <2>1. run.pc # "idle" /\ run.kind = "update" /\ run.failed /\ DOMAIN run = UpdateFields
    BY <1>3, Grounds DEF Failing, Updating, TablesInv, SessionInv
  <2>2. run # Idle /\ run.pc \notin {"remove", "config"} /\ ~Uninstalling
    BY <2>1, InUninstall, Grounds DEF Idle, Uninstalling
  <2>3. CASE Import
    <3>1. Updating' /\ run'.failed
      BY <2>1, <2>3, ImportFailed, ImportStep, Grounds
    <3> QED
      BY <1>1, <1>3, <3>1 DEF Lapsed, Failing
  <2>4. CASE Saves
    <3>1. Updating' /\ run'.failed = run.failed
      BY <1>3, <2>1, <2>4, SavingSession, Grounds DEF UpdateFields, Failing
    <3> QED
      BY <1>1, <1>3, <2>1, <3>1 DEF Lapsed, Failing
  <2>5. CASE Change \/ UNCHANGED vars
    <3>1. run' = run
      BY <2>5 DEF Change, vars
    <3> QED
      BY <1>1, <1>3, <3>1 DEF Lapsed, Failing, Updating
  <2>6. ~Crash
    BY <2>1 DEF Crash, Struck, Sane, Unfounded
  <2>7. ~(Begin \/ BeginUninstall \/ Forget \/ CleanConfig \/ EndUninstall)
    BY <2>1, <2>2 DEF Begin, BeginUninstall, Forget, CleanConfig, EndUninstall
  <2>8. ~(\E c \in run.todo : RemoveFile(c[1], c[2], c[3]))
    BY <2>2, RemovingMem, Grounds
  <2>9. CASE SaveFails
    <3>1. Updating' /\ run'.failed = run.failed
      BY <2>1, <2>2, <2>9, FailingStep, Grounds DEF UpdateFields
    <3> QED
      BY <1>1, <1>3, <2>1, <3>1 DEF Lapsed, Failing
  <2> QED
    BY <2>3, <2>4, <2>5, <2>6, <2>7, <2>8, <2>9 DEF Steps
<1> QED
  BY <1>2, <1>3 DEF Lapsed

\* When they are saved after they had gone, all databases were processed or are vouched
\* for.
LEMMA SpacesTrue ==
  ASSUME TrueInv, FreeSpaces, Sane', NEW db \in Dbs, Recalled(db), ~Removing(db), ~Lapsed'
  PROVE  Accounts(main.is.prints[db], db)
<1>1. GroundInv /\ Sane
  BY TrueGrounds, SaneBefore DEF Steps
<1>2. /\ run.pc = "free" /\ run' = Idle /\ option' = option
      /\ free' = IF option = "balanced" /\ run.failed THEN Absent
                 ELSE IF option # "fastest" THEN Whole(plugged) ELSE free
  BY DEF FreeSpaces
<1>3. run.pc # "idle" /\ run # Idle /\ run.pc \notin UninstallPcs
  BY <1>2, PcsAreNotIdle DEF Idle, UninstallPcs
<1>4. Updating
  BY <1>1, <1>3 DEF GroundInv, UninstallInv, RunInv, Updating
<1>5. CASE ~Lapsed
  BY <1>1, <1>5 DEF TrueInv, PrintsTrue
<1>6. CASE Lapsed
  <2>1. ~Failing
    <3>1. ASSUME Failing PROVE FALSE
      <4>1. free'.st # "whole" /\ option # "fastest"
        BY <1>2, <3>1 DEF Failing, Absent
      <4> QED
        BY <1>2, <4>1 DEF Lapsed
    <3> QED
      BY <3>1
  <2>2. option # "fastest" /\ free.st # "whole" /\ free'.st = "whole"
    <3>1. option # "fastest" /\ free.st # "whole"
      BY <1>6, <2>1 DEF Lapsed
    <3>2. free'.st = "whole"
      BY <1>2, <3>1 DEF Lapsed
    <3> QED
      BY <3>1, <3>2
  <2>3. run.skipped = {}
    BY <1>4, <2>2, TrueGrounds DEF TablesInv, SessionInv
  <2>4. db \in Configured(ini)
    BY <1>1, TrueGrounds DEF ConfInv, Recalled, Current
  <2>5. CASE db \in run.process
    BY <1>1, <1>2, <1>4, <2>1, <2>5 DEF TrueInv, DoneTrue
  <2>6. CASE db \notin run.process
    <3>1. "vouched" \notin defects'
      BY DEF Sane, Unfounded
    <3>2. ~VouchedFor(db)
      BY <2>2, <2>3, <2>4, <2>6, <3>1 DEF FreeSpaces, Struck
    <3>3. PrintIn(main.is.prints, db) = main.is.prints[db] /\ Unchanged(main.is.prints[db], db)
      BY DEF Recalled, Current, PrintIn, Unchanged
    <3> QED
      BY <3>2, <3>3 DEF VouchedFor, Recalled
  <2> QED
    BY <2>5, <2>6
<1> QED
  BY <1>5, <1>6

\* No step but the saving of the main store changes what its fingerprints account for,
LEMMA PrintsOthers ==
  ASSUME TrueInv, Steps \/ UNCHANGED vars, ~SaveMain
  PROVE  PrintsTrue'
<1> SUFFICES ASSUME Sane', NEW db \in Dbs, Recalled(db)', ~Removing(db)', ~Lapsed'
             PROVE  Accounts(main.is.prints[db], db)'
  BY DEF PrintsTrue
<1>1. GroundInv /\ Sane
  BY TrueGrounds, SaneBefore
<1>2. /\ Recalled(db) /\ ~Removing(db) /\ main' = main /\ Wanted(db)' = Wanted(db)
      /\ \A place \in Places : files[place] \cap Wanted(db) \subseteq files'[place]
  <2>1. CASE ~Writes
    BY <1>1, <2>1, StillRecalled
  <2>2. CASE Writes
    <3>1. PICK d \in DriveSet : SaveDrive(d) \/ SaveManifest(d)
      BY <2>2 DEF Writes
    <3>2. UNCHANGED <<edition, files, main>>
      BY <3>1 DEF SaveDrive, SaveManifest
    <3>3. Removing(db) <=> Removing(db)'
      <4>1. ~Begin /\ Saves /\ run.pc # "idle"
        BY <3>1, DrivesAreFinite DEF Saves, SaveDrive, SaveManifest, Begin
      <4>2. Updating \/ Uninstalling
        BY <1>1, <4>1 DEF GroundInv, UninstallInv, RunInv, Updating, Uninstalling, Idle
      <4>3. "process" \in DOMAIN run
        BY <4>2, UninstallHas, TrueGrounds DEF TablesInv, SessionInv, UpdateFields, UninstallFields
      <4> QED
        BY <1>1, <4>1, <4>3, SavingSession, Grounds DEF Removing
    <3> QED
      BY <3>2, <3>3 DEF Recalled, Current, Wanted
  <2> QED
    BY <2>1, <2>2
<1>3. Accounts(main.is.prints[db], db)
  <2>1. CASE FreeSpaces
    BY <1>2, <2>1, SpacesTrue
  <2>2. CASE ~FreeSpaces
    <3>1. ~Lapsed
      BY <1>1, <2>2, StaysLapsed
    <3> QED
      BY <1>1, <1>2, <3>1 DEF TrueInv, PrintsTrue
  <2> QED
    BY <2>1, <2>2
<1>4. ASSUME NEW p \in Wanted(db) PROVE Accounted(main.is.prints[db], db, p)'
  <2>1. Accounted(main.is.prints[db], db, p)
    BY <1>3 DEF Accounts, Accounted
  <2> DEFINE print == main.is.prints[db]
  <2>2. print' = print
    BY <1>2
  <2> HIDE DEF print
  <2>3. Accounted(print, db, p)
    BY <2>1 DEF print
  <2> QED
    BY <1>2, <2>2, <2>3, StillAccounted DEF print, Accounted, Shared
<1> QED
  BY <1>2, <1>4 DEF Accounts, Accounted

\* What is saved of a database is accounted for.
LEMMA FragmentAccounted ==
  ASSUME NEW s, StoreOK(s), TableOK(s.prints), NEW db \in DOMAIN s.prints,
         NEW d \in DOMAIN s.dbs[db] \ {"base"}, NEW p \in s.dbs[db][d]
  PROVE  Accounted(Stamped(s)[db], db, p)
<1>1. Stamped(s)[db].exp = {BagOf(Fragments(s, db))}
  BY StampedTable
<1> DEFINE f == Fragments(s, db)
<1>2. d \in DOMAIN f /\ f[d] = s.dbs[db][d]
  BY DEF Fragments
<1> HIDE DEF f
<1>3. DOMAIN BagOf(f) = Range(f)
  BY DEF BagOf
<1>4. f[d] \in DOMAIN BagOf(f)
  BY <1>2, <1>3 DEF Range
<1> QED
  BY <1>1, <1>2, <1>4 DEF Accounted, f

\* A drive that is behind is so until it is written.
LEMMA StaysBehind ==
  ASSUME GroundInv, Steps \/ UNCHANGED vars, Sane', NEW db, NEW d \in DriveSet, Behind(db, d),
         ~SaveMain, ~SaveDrive(d)
  PROVE  Behind(db, d)'
<1>1. /\ run.pc # "idle" /\ run.kind = "update" /\ run.failed /\ Updating /\ Saving /\ db \in run.process
      /\ d \in plugged \cap run.left /\ DOMAIN run = UpdateFields
      /\ run.pc \notin {"prints", "main", "import", "free", "remove", "config"}
  BY Grounds, NotSaving DEF Behind, Updating, TablesInv, SessionInv
<1>2. CASE Saves
  <2>1. /\ (Updating' <=> Updating) /\ plugged' = plugged
        /\ run'.process = run.process /\ run'.failed = run.failed
    BY <1>1, <1>2, SavingSession, Grounds DEF UpdateFields
  <2>2. CASE SavePrints
    <3>1. run'.pc = "drives" /\ run'.left = run.left
      BY <1>1, <2>2 DEF SavePrints, Step, UpdateFields
    <3> QED
      BY <1>1, <2>1, <3>1 DEF Behind, Saving
  <2>3. ~Touch
    BY <1>1 DEF Touch, NextDrives
  <2>4. ASSUME NEW e \in DriveSet, SaveDrive(e) PROVE Behind(db, d)'
    <3>1. e # d /\ run.pc = "drives"
      BY <2>4 DEF SaveDrive
    <3>2. run' = [run EXCEPT !.pc = e, !.left = @ \ {e}] \/ run' = [run EXCEPT !.left = @ \ {e}]
      BY <2>4 DEF SaveDrive
    <3>3. run'.pc \in {"drives"} \cup DriveSet /\ run'.left = run.left \ {e}
      BY <1>1, <3>1, <3>2 DEF UpdateFields
    <3> QED
      BY <1>1, <2>1, <3>1, <3>3 DEF Behind, Saving
  <2>5. ASSUME NEW e \in DriveSet, SaveManifest(e) PROVE Behind(db, d)'
    <3>1. run'.pc = "drives" /\ run'.left = run.left
      BY <1>1, <2>5 DEF SaveManifest, Step, UpdateFields
    <3> QED
      BY <1>1, <2>1, <3>1 DEF Behind, Saving
  <2> QED
    BY <1>1, <1>2, <2>2, <2>3, <2>4, <2>5 DEF Saves, RemovePrints
<1>3. ~Crash /\ ~SaveFails
  BY <1>1 DEF Crash, SaveFails, Struck, Sane, Unfounded
<1>4. ~(Begin \/ Import \/ BeginUninstall \/ Forget \/ CleanConfig \/ EndUninstall \/ FreeSpaces)
  BY <1>1 DEF Begin, Import, BeginUninstall, Forget, CleanConfig, EndUninstall, FreeSpaces
<1>5. ~(\E c \in run.todo : RemoveFile(c[1], c[2], c[3]))
  BY <1>1, RemovingMem, Grounds
<1>6. ~Change
  BY <1>1 DEF Change
<1>7. CASE UNCHANGED vars
  BY <1>1, <1>7 DEF vars, Behind, Updating, Saving
<1> QED
  BY <1>2, <1>3, <1>4, <1>5, <1>6, <1>7 DEF Steps

\* What is accounted for by the print of the main store is so after a step that leaves
\* it and the files.
LEMMA MainAccounted ==
  ASSUME NEW db, NEW p, main' = main, UNCHANGED files, Accounted(main.is.prints[db], db, p)
  PROVE  Accounted(main.is.prints[db], db, p)'
BY DEF Accounted, Shared

\* and none but the saving of a store what its claims do.
LEMMA ClaimsOthers ==
  ASSUME TrueInv, Steps \/ UNCHANGED vars, ~Writes
  PROVE  ClaimsTrue'
<1> SUFFICES ASSUME Sane', NEW db \in Dbs, Recalled(db)', ~Removing(db)', NEW d \in DriveSet,
                    Lists(ext[d], db)', ~Behind(db, d)', NEW p \in ext'[d].is[db] \cap Wanted(db)'
             PROVE  Accounted(main.is.prints[db], db, p)'
  BY DEF ClaimsTrue
<1>1. GroundInv /\ Sane
  BY TrueGrounds, SaneBefore
<1>2. /\ Recalled(db) /\ ~Removing(db) /\ main' = main /\ Wanted(db)' = Wanted(db)
      /\ \A place \in Places : files[place] \cap Wanted(db) \subseteq files'[place]
  BY <1>1, StillRecalled
<1>3. ext'[d] = ext[d] /\ Lists(ext[d], db)
  BY <1>1, OthersForget DEF Lists
<1>4. ~Behind(db, d)
  BY <1>1, StaysBehind DEF Writes
<1>5. Accounted(main.is.prints[db], db, p)
  BY <1>1, <1>2, <1>3, <1>4 DEF TrueInv, ClaimsTrue
<1> DEFINE print == main.is.prints[db]
<1>6. print' = print
  BY <1>2
<1> HIDE DEF print
<1>7. Accounted(print, db, p)
  BY <1>5 DEF print
<1> QED
  BY <1>2, <1>6, <1>7, StillAccounted DEF print, Accounted, Shared

\* A drive that is written has what is accounted for.
LEMMA ClaimsDrive ==
  ASSUME TrueInv, NEW e \in DriveSet, SaveDrive(e) \/ SaveManifest(e)
  PROVE  ClaimsTrue'
<1> SUFFICES ASSUME Sane', NEW db \in Dbs, Recalled(db)', ~Removing(db)', NEW d \in DriveSet,
                    Lists(ext[d], db)', ~Behind(db, d)', NEW p \in ext'[d].is[db] \cap Wanted(db)'
             PROVE  Accounted(main.is.prints[db], db, p)'
  BY DEF ClaimsTrue
<1>1. GroundInv /\ Saves /\ Sane /\ run.pc # "idle" /\ Saving /\ UNCHANGED <<main, files, edition>>
  BY TrueGrounds, SaneBefore, DrivesAreFinite DEF Steps, Saves, SaveDrive, SaveManifest, Saving
<1>2. (Updating \/ Uninstalling) /\ run # Idle
  BY <1>1 DEF GroundInv, UninstallInv, RunInv, Updating, Uninstalling, Idle
<1>3. "process" \in DOMAIN run
  BY <1>2, UninstallHas, TrueGrounds DEF TablesInv, SessionInv, UpdateFields, UninstallFields
<1>4. Recalled(db) /\ ~Removing(db) /\ Wanted(db)' = Wanted(db)
  BY <1>1, <1>3, SavingSession, Grounds DEF Removing, Recalled, Current, Wanted
<1>5. CASE ext'[d] = ext[d] /\ ~Behind(db, d)
  <2>1. Accounted(main.is.prints[db], db, p)
    BY <1>1, <1>4, <1>5 DEF TrueInv, ClaimsTrue, Lists
  <2> QED
    BY <1>1, <2>1, MainAccounted
<1>6. CASE SaveManifest(e) \/ e # d
  <2>1. ext'[d] = ext[d]
    BY <1>1, <1>6, Grounds DEF SaveDrive, SaveManifest, StoreInv
  <2>2. ~SaveDrive(d) /\ ~SaveMain
    <3>1. CASE SaveManifest(e)
      <4>1. run.pc \notin {"drives", "main"}
        BY <3>1, DrivesAreFinite, PcsAreNotIdle DEF SaveManifest
      <4> QED
        BY <4>1 DEF SaveDrive, SaveMain
    <3>2. CASE SaveDrive(e) /\ e # d
      <4>1. run.pc = "drives" /\ e \notin run'.left
        BY <1>2, <3>2, UninstallHas, TrueGrounds
           DEF SaveDrive, TablesInv, SessionInv, UpdateFields, UninstallFields
      <4>2. ~SaveMain
        BY <4>1 DEF SaveMain
      <4>3. ASSUME SaveDrive(d) PROVE FALSE
        <5>1. e \in run.left /\ d \in run.left
          BY <3>2, <4>3 DEF SaveDrive, NextDrives
        <5>2. run'.left = run.left \ {d} /\ run'.left = run.left \ {e}
          BY <1>2, <3>2, <4>3, UninstallHas, TrueGrounds
             DEF SaveDrive, TablesInv, SessionInv, UpdateFields, UninstallFields
        <5> QED
          BY <3>2, <5>1, <5>2
      <4> QED
        BY <4>2, <4>3
    <3> QED
      BY <1>6, <3>1, <3>2
  <2>3. ~Behind(db, d)
    BY <1>1, <2>2, StaysBehind DEF Steps
  <2> QED
    BY <1>5, <2>1, <2>3
<1>7. CASE SaveDrive(d)
  <2>1. DOMAIN ext = DriveSet
    BY <1>1, Grounds DEF StoreInv
  <2>2. \/ d \in plugged /\ ext' = [ext EXCEPT ![d] = Absent]
        \/ d \in plugged /\ ext' = [ext EXCEPT ![d] = Whole(FragmentsOn(run.mem, d))]
        \/ ext' \in {ext, [ext EXCEPT ![d] = Torn]}
           /\ (run.kind = "update" /\ run.failed => "late" \in defects')
        \/ d \notin plugged /\ ext' = ext
    BY <1>7 DEF SaveDrive, Struck
  <2>3. "late" \notin defects'
    BY DEF Sane, Unfounded
  <2>4. \/ ext'[d] = Whole(FragmentsOn(run.mem, d))
        \/ ext'[d] = ext[d] /\ ~Behind(db, d)
    BY <2>1, <2>2, <2>3 DEF Lists, Absent, Torn, Behind, Updating
  <2>5. CASE ext'[d] = Whole(FragmentsOn(run.mem, d))
    <3>1. db \in DOMAIN run.mem.dbs /\ d \in DOMAIN run.mem.dbs[db] \ {"base"} /\ p \in run.mem.dbs[db][d]
      BY <2>5, DrivesAreFinite DEF Lists, Whole, FragmentsOn
    <3>2. main.is.prints = Stamped(run.mem) /\ StoreOK(run.mem) /\ TableOK(run.mem.prints)
      BY <1>1, <1>2, Grounds DEF TablesInv, PrintsInv, TypedInv, StoreInv
    <3>3. db \in DOMAIN run.mem.prints
      BY <1>4, <3>2, StampedTable DEF Recalled, Current
    <3>4. Accounted(main.is.prints[db], db, p)
      BY <3>1, <3>2, <3>3, FragmentAccounted
    <3> QED
      BY <1>1, <3>4, MainAccounted
  <2> QED
    BY <1>5, <2>4, <2>5
<1> QED
  BY <1>6, <1>7

\* What the main store accounts for when it is saved: what was processed, and what it
\* did before, since none of the fragments it expected is neglected.
LEMMA MainAccounts ==
  ASSUME TrueInv, SaveMain, Sane', NEW db \in Dbs, Current(run.mem.prints, db), NEW p \in Wanted(db),
         \/ db \in run.process /\ InMem(db, p)
         \/ db \notin run.process /\ Accounted(main.is.prints[db], db, p)
  PROVE  Accounted(Stamped(run.mem)[db], db, p)
<1>1. GroundInv /\ LoadsInv
  BY TrueGrounds
<1>2. StoreOK(run.mem) /\ TableOK(run.mem.prints)
  BY <1>1, MainSaved
<1>3. /\ db \in DOMAIN run.mem.prints
      /\ db \in run.process \/ (run.mem.prints[db] = main.is.prints[db] /\ ~Neglected(db))
  BY <1>1, MainRecalled
<1>4. CASE db \in run.process /\ InMem(db, p)
  <2>1. CASE \E d \in DOMAIN run.mem.dbs[db] \ {"base"} : p \in run.mem.dbs[db][d]
    BY <1>2, <1>3, <2>1, FragmentAccounted
  <2>2. CASE p \in files["base"] \/ Shared(db, p)
    BY <2>2 DEF Accounted
  <2> QED
    BY <1>4, <2>1, <2>2 DEF InMem
<1>5. CASE db \notin run.process /\ Accounted(main.is.prints[db], db, p)
  <2>1. CASE \E bag \in main.is.prints[db].exp : \E fragment \in DOMAIN bag : p \in fragment
    <3>1. PICK bag \in main.is.prints[db].exp : \E fragment \in DOMAIN bag : p \in fragment
      BY <2>1
    <3>2. bag \in PrintIn(run.mem.prints, db).exp
      BY <1>3, <1>5 DEF PrintIn
    <3>3. bag \sqsubseteq BagOf(Fragments(run.mem, db))
      BY <1>3, <1>5, <3>2 DEF Neglected
    <3>4. DOMAIN bag \subseteq DOMAIN BagOf(Fragments(run.mem, db))
      BY <3>3 DEF \sqsubseteq
    <3>5. Stamped(run.mem)[db].exp = {BagOf(Fragments(run.mem, db))}
      BY <1>2, <1>3, StampedTable
    <3> QED
      BY <3>1, <3>4, <3>5 DEF Accounted
  <2>2. CASE p \in files["base"] \/ Shared(db, p)
    BY <2>2 DEF Accounted
  <2> QED
    BY <1>5, <2>1, <2>2 DEF Accounted
<1> QED
  BY <1>4, <1>5

\* As a fact about the step.
LEMMA MainAfter ==
  ASSUME TrueInv, SaveMain, NEW db, NEW p, Accounted(Stamped(run.mem)[db], db, p)
  PROVE  Accounted(main.is.prints[db], db, p)'
<1>1. main'.is.prints = Stamped(run.mem) /\ files' = files
  BY MainSaved, TrueGrounds
<1> DEFINE print == Stamped(run.mem)[db]
<1>2. Accounted(print, db, p) /\ main'.is.prints[db] = print
  BY <1>1
<1> HIDE DEF print
<1> QED
  BY <1>1, <1>2 DEF Accounted, Shared

\* The main store is saved with fingerprints that are true.
LEMMA MainTrue == ASSUME TrueInv, SaveMain PROVE PrintsTrue' /\ ClaimsTrue' /\ DoneTrue'
<1>1. GroundInv /\ LoadsInv /\ SessionInv
  BY TrueGrounds DEF TablesInv
<1>2. /\ run.pc = "main" /\ run'.pc = "table" /\ run # Idle /\ ~Saving
      /\ main'.st = "whole" /\ main'.is.prints = Stamped(run.mem)
      /\ UNCHANGED <<ini, edition, option, plugged, files, ext, manifest, free>>
      /\ run'.mem = run.mem /\ run'.process = run.process
      /\ run.left = DriveSet /\ {"left"} \subseteq DOMAIN run
      /\ \A x \in DOMAIN run \ {"pc"} : run'[x] = run[x]
      /\ (Updating' <=> Updating) /\ (Uninstalling' <=> Uninstalling)
      /\ StoreOK(run.mem) /\ TableOK(run.mem.prints)
  BY <1>1, MainSaved
<1>3. Sane' => Sane
  BY <1>1, <1>2, SaneBefore, MainSaved DEF GroundInv, Steps
<1>4. /\ \A db : Wanted(db)' = Wanted(db)
      /\ Updating => run'.failed = run.failed /\ run'.left = DriveSet
      /\ Saving'
  BY <1>1, <1>2 DEF Wanted, SessionInv, UpdateFields, Saving
<1>5. (Failing' <=> Failing) /\ (Lapsed' <=> Lapsed)
  <2>1. Failing' <=> Failing
    <3>1. CASE Updating
      BY <1>2, <1>4, <3>1 DEF Failing
    <3>2. CASE ~Updating
      BY <1>2, <3>2 DEF Failing
    <3> QED
      BY <3>1, <3>2
  <2> QED
    BY <1>2, <2>1 DEF Lapsed
<1>6. ASSUME Sane', Updating, NEW db \in run.process
      PROVE  /\ Current(run.mem.prints, db) /\ db \in Dbs
             /\ \A p \in Wanted(db) :
                  InMem(db, p) \/ (Failing /\ \A d \in DriveSet \ plugged : p \notin files[d])
  BY <1>1, <1>2, <1>3, <1>6, ConfiguredKnown, TrueGrounds DEF TrueInv, MemTrue, SessionInv
<1>7. ASSUME Sane', NEW db \in Dbs, Recalled(db)', ~Removing(db)'
      PROVE  /\ Current(run.mem.prints, db) /\ ~Removing(db)
             /\ \/ Updating /\ db \in run.process
                \/ db \notin run.process /\ Recalled(db)
  BY <1>1, <1>7, MainCurrent, MainRecalled
<1>8. PrintsTrue'
  <2> SUFFICES ASSUME Sane', NEW db \in Dbs, Recalled(db)', ~Removing(db)', ~Lapsed, NEW p \in Wanted(db)
               PROVE  Accounted(main.is.prints[db], db, p)'
    BY <1>4, <1>5 DEF PrintsTrue, Accounts, Accounted
  <2>1. CASE Updating /\ db \in run.process
    <3>1. InMem(db, p)
      BY <1>6, <2>1 DEF Lapsed
    <3> QED
      BY <1>7, <2>1, <3>1, MainAccounts, MainAfter
  <2>2. CASE db \notin run.process /\ Recalled(db)
    <3>1. Accounted(main.is.prints[db], db, p)
      BY <1>3, <1>7, <2>2 DEF TrueInv, PrintsTrue, Accounts, Accounted
    <3> QED
      BY <1>7, <2>2, <3>1, MainAccounts, MainAfter
  <2> QED
    BY <1>7, <2>1, <2>2
<1>9. ClaimsTrue'
  <2> SUFFICES ASSUME Sane', NEW db \in Dbs, Recalled(db)', ~Removing(db)', NEW d \in DriveSet,
                      Lists(ext[d], db), ~Behind(db, d)', NEW p \in ext[d].is[db] \cap Wanted(db)
               PROVE  Accounted(main.is.prints[db], db, p)'
    BY <1>2, <1>4 DEF ClaimsTrue, Lists
  <2>1. CASE Updating /\ db \in run.process
    <3>1. ~run.failed \/ d \notin plugged
      BY <1>2, <1>4, <2>1 DEF Behind
    <3>2. InMem(db, p)
      <4>1. d \notin plugged => p \in files[d]
        BY <1>3 DEF TrueInv, ShelfInv, AwayInv
      <4> QED
        BY <1>6, <2>1, <3>1, <4>1 DEF Failing
    <3> QED
      BY <1>7, <2>1, <3>2, MainAccounts, MainAfter
  <2>2. CASE db \notin run.process /\ Recalled(db)
    <3>1. Accounted(main.is.prints[db], db, p)
      BY <1>2, <1>3, <1>7, <2>2 DEF TrueInv, ClaimsTrue, Behind
    <3> QED
      BY <1>7, <2>2, <3>1, MainAccounts, MainAfter
  <2> QED
    BY <1>7, <2>1, <2>2
<1>10. DoneTrue'
  <2> SUFFICES ASSUME Sane', Updating, NEW db \in run.process, ~Failing
               PROVE  Recalled(db)' /\ Accounts(main.is.prints[db], db)'
    BY <1>2, <1>5 DEF DoneTrue
  <2>1. Current(run.mem.prints, db) /\ db \in Dbs
    BY <1>6
  <2>2. Recalled(db)'
    BY <1>2, <2>1, StampedTable DEF Recalled, Current
  <2>3. ASSUME NEW p \in Wanted(db) PROVE Accounted(main.is.prints[db], db, p)'
    BY <1>6, <2>1, MainAccounts, MainAfter
  <2> QED
    BY <1>4, <2>2, <2>3 DEF Accounts, Accounted
<1> QED
  BY <1>8, <1>9, <1>10

\* What is imported of a database is recorded where it goes.
LEMMA GotIsRecorded ==
  ASSUME NEW first, NEW bad, NEW db \in run.process \cap DOMAIN run.mem.dbs, NEW p \in Owned(first, db) \ bad
  PROVE  /\ At(p) \in DOMAIN StoresAfter(first, bad).dbs[db]
         /\ p \in StoresAfter(first, bad).dbs[db][At(p)]
<1> DEFINE c == ClaimsAfter(first, bad, db)
           got == Owned(first, db) \ bad
<1>1. StoresAfter(first, bad).dbs[db] = [q \in {q \in DOMAIN c : q = "base" \/ c[q] # {}} |-> c[q]]
  BY DEF StoresAfter
<1>2. At(p) \in DOMAIN c /\ p \in c[At(p)]
  BY DEF ClaimsAfter
<1> HIDE DEF c
<1> QED
  BY <1>1, <1>2

\* The databases that were processed have the fingerprint of what is published.
LEMMA ImportedPrint ==
  ASSUME TypedInv, run # Idle, NEW first, NEW bad, NEW db \in run.process \cap DOMAIN run.mem.prints
  PROVE  Current(StoresAfter(first, bad).prints, db)
<1>1. DOMAIN run.mem.prints[db] = {"edition", "exp"}
  BY DEF TypedInv, TableOK, PrintOK
<1>2. /\ db \in DOMAIN StoresAfter(first, bad).prints
      /\ StoresAfter(first, bad).prints[db] = [run.mem.prints[db] EXCEPT !.edition = edition[db]]
  BY DEF StoresAfter
<1> QED
  BY <1>1, <1>2 DEF Current

\* An import leaves the files of a database where it says, but for one that failed and
\* that no drive that is away has.
LEMMA ImportTrue ==
  ASSUME TrueInv, Import, Sane', NEW first \in run.process, NEW bad \in {{}} \cup {{q} : q \in Needed},
         ImportsWith(first, bad), NEW db \in run.process, NEW p \in Wanted(db)
  PROVE  InMem(db, p)' \/ (Failing' /\ \A d \in DriveSet \ plugged : p \notin files'[d])
<1>1. /\ Updating /\ Updating' /\ run'.process = run.process /\ run'.mem = StoresAfter(first, bad)
      /\ (run'.failed <=> run.failed \/ bad # {})
  BY ImportFailed, TrueGrounds
<1>2. /\ run # Idle /\ UNCHANGED <<edition, option, plugged>>
  BY ImportStep, TrueGrounds
<1>3. /\ run.process \subseteq DOMAIN run.mem.dbs /\ run.process \subseteq Dbs
  BY <1>1, ConfiguredKnown, TrueGrounds DEF TablesInv, SessionInv
<1>4. At(p) \in {"base"} \cup DriveSet
  BY AtAPlace, TrueGrounds DEF Places
<1>5. CASE p \in bad
  <2>1. "failed" \notin defects' /\ "returned" \notin defects'
    BY DEF Sane, Unfounded
  <2>2. option = "balanced" /\ \A d \in DriveSet \ plugged : p \notin files[d]
    BY <1>5, <2>1 DEF ImportsWith, Struck
  <2>3. Failing'
    BY <1>1, <1>2, <1>5, <2>2 DEF Failing
  <2>4. \A d \in DriveSet \ plugged : p \notin files'[d]
    BY <1>5, <2>2 DEF ImportsWith, Places
  <2> QED
    BY <2>3, <2>4
<1>6. CASE p \notin bad
  <2>1. p \in files'[At(p)]
    BY <1>6, ImportGets, TrueGrounds
  <2>2. CASE At(p) = "base"
    BY <2>1, <2>2 DEF InMem
  <2>3. CASE At(p) # "base" /\ p \in Owned(first, db)
    <3>1. /\ At(p) \in DOMAIN StoresAfter(first, bad).dbs[db]
          /\ p \in StoresAfter(first, bad).dbs[db][At(p)]
      BY <1>3, <1>6, <2>3, GotIsRecorded
    <3> QED
      BY <1>1, <2>3, <3>1 DEF InMem
  <2>4. CASE At(p) # "base" /\ p \notin Owned(first, db)
    <3>1. first # db /\ p \in Wanted(first) /\ first \in Dbs
      BY <1>3, <2>4 DEF Owned
    <3>2. edition[first] \in DOMAIN Editions[first]
      <4>1. edition[first] \in 1..Len(Editions[first]) /\ Editions[first] \in Seq(SUBSET STRING)
        BY <3>1, EditionsAssumption, TrueGrounds DEF TablesInv, TypedInv
      <4> QED
        BY <4>1, LenProperties
    <3>3. p \in UNION Range(Editions[first])
      BY <3>1, <3>2 DEF Wanted, Range
    <3>4. Shared(db, p)'
      BY <1>4, <2>1, <2>4, <3>1, <3>3 DEF Shared
    <3> QED
      BY <3>4 DEF InMem
  <2> QED
    BY <2>2, <2>3, <2>4
<1> QED
  BY <1>5, <1>6

\* A session that is about to save has imported.
LEMMA EarlyGoesOn ==
  ASSUME GroundInv, Steps \/ UNCHANGED vars, ~Begin, ~Import, Updating',
         run'.pc \in {"prints", "main"}
  PROVE  /\ Updating /\ run.pc \in {"prints", "main"} /\ UNCHANGED <<edition, option, plugged, files>>
         /\ run'.mem = run.mem /\ run'.process = run.process /\ run'.failed = run.failed
<1>1. CASE Saves
  <2>1. /\ Updating /\ UNCHANGED <<edition, option, plugged, files>>
        /\ \A x \in DOMAIN run \ {"pc", "left"} : run'[x] = run[x]
    BY <1>1, SavingSession, Grounds
  <2>2. DOMAIN run = UpdateFields
    BY <2>1, Grounds DEF TablesInv, SessionInv
  <2>3. RemovePrints \/ run'.pc \in {"table", "drives", "free", "config"} \cup DriveSet
    <3>1. CASE SaveMain \/ SavePrints \/ Touch
      BY <2>2, <3>1 DEF SaveMain, SavePrints, Touch, Step, UpdateFields
    <3>2. ASSUME NEW d \in DriveSet, SaveDrive(d) \/ SaveManifest(d)
          PROVE run'.pc \in {"drives"} \cup DriveSet
      BY <2>2, <3>2 DEF SaveDrive, SaveManifest, Step, UpdateFields
    <3> QED
      BY <1>1, <3>1, <3>2 DEF Saves
  <2>4. run.pc = "prints"
    BY <2>3, DrivesAreFinite, PcsAreNotIdle DEF RemovePrints
  <2> QED
    BY <2>1, <2>2, <2>4 DEF UpdateFields
<1>2. CASE UNCHANGED vars
  BY <1>2 DEF vars, Updating
<1>3. ~BeginUninstall
  <2>1. BeginUninstall => run'.pc = "remove"
    BY DEF BeginUninstall
  <2> QED
    BY <2>1
<1>4. ~Forget /\ ~(\E c \in run.todo : RemoveFile(c[1], c[2], c[3]))
  <2>1. Updating' => ~Uninstalling'
    BY DEF Updating, Uninstalling
  <2> QED
    BY <2>1, ForgetMem, RemovingMem, Grounds
<1>5. ~CleanConfig
  <2>1. ASSUME CleanConfig PROVE run'.pc = "config"
    BY <2>1, CleanRun, Grounds, InUninstall DEF UninstallFields
  <2> QED
    BY <2>1
<1>6. ~(EndUninstall \/ FreeSpaces \/ Crash \/ SaveFails)
  BY FailingStep, Grounds DEF EndUninstall, FreeSpaces, Crash, Updating, Idle
<1>7. ~Change
  BY DEF Change, Updating
<1> QED
  BY <1>1, <1>2, <1>3, <1>4, <1>5, <1>6, <1>7 DEF Steps

\* Every step keeps what the fingerprints in memory account for,
LEMMA MemOthers == ASSUME TrueInv, Steps \/ UNCHANGED vars PROVE MemTrue'
<1> SUFFICES ASSUME Sane', Updating', run'.pc \in {"prints", "main"}, NEW db \in run'.process
             PROVE  /\ Current(run.mem.prints, db)'
                    /\ \A p \in Wanted(db)' :
                         InMem(db, p)' \/ (Failing' /\ \A d \in DriveSet \ plugged' : p \notin files'[d])
  BY DEF MemTrue
<1>1. GroundInv /\ Sane
  BY TrueGrounds, SaneBefore
<1>2. ~Begin
  <2> SUFFICES ASSUME Begin PROVE FALSE
    OBVIOUS
  <2>1. PICK only \in SUBSET Configured(ini) : \E bad \in SUBSET only, lost \in BOOLEAN :
               BeginsWith(only, bad, lost)
    BY BeginStep
  <2>2. PICK bad \in SUBSET only, lost \in BOOLEAN : BeginsWith(only, bad, lost)
    BY <2>1
  <2>3. run' # Idle
    BY DEF Idle
  <2>4. run'.process = {}
    BY <2>2, <2>3, BeginRun
  <2> QED
    BY <2>4
<1>3. CASE Import
  <2>1. PICK first \in run.process : \E bad \in {{}} \cup {{q} : q \in Needed} : ImportsWith(first, bad)
    BY <1>1, <1>3, ImportStep, Grounds
  <2>2. PICK bad \in {{}} \cup {{q} : q \in Needed} : ImportsWith(first, bad)
    BY <2>1
  <2>3. /\ run'.process = run.process /\ run'.mem = StoresAfter(first, bad) /\ Updating
        /\ UNCHANGED <<edition, plugged>> /\ run # Idle
    BY <1>1, <1>3, <2>2, ImportFailed, ImportStep, Grounds
  <2>4. db \in DOMAIN run.mem.prints /\ TypedInv
    BY <1>1, <2>3, Grounds DEF TablesInv, SessionInv
  <2>5. Current(run.mem.prints, db)'
    BY <2>3, <2>4, ImportedPrint DEF Current
  <2>6. Wanted(db)' = Wanted(db)
    BY <2>3 DEF Wanted
  <2> QED
    BY <1>3, <2>2, <2>3, <2>5, <2>6, ImportTrue
<1>4. CASE ~Import
  <2>1. /\ Updating /\ run.pc \in {"prints", "main"} /\ UNCHANGED <<edition, option, plugged, files>>
        /\ run'.mem = run.mem /\ run'.process = run.process /\ run'.failed = run.failed
    BY <1>1, <1>2, <1>4, EarlyGoesOn
  <2>2. /\ Current(run.mem.prints, db)
        /\ \A p \in Wanted(db) :
             InMem(db, p) \/ (Failing /\ \A d \in DriveSet \ plugged : p \notin files[d])
    BY <1>1, <2>1 DEF TrueInv, MemTrue
  <2>3. Wanted(db)' = Wanted(db) /\ (Failing' <=> Failing) /\ \A p : InMem(db, p)' <=> InMem(db, p)
    BY <2>1 DEF Wanted, Failing, InMem, Shared
  <2>4. Current(run.mem.prints, db)'
    BY <2>1, <2>2 DEF Current
  <2> QED
    BY <2>1, <2>2, <2>3, <2>4
<1> QED
  BY <1>3, <1>4

\* An import that changes nothing found what the main store accounts for.
LEMMA ImportDone == ASSUME TrueInv, Import PROVE DoneTrue'
<1>1. PICK first \in run.process : \E bad \in {{}} \cup {{q} : q \in Needed} : ImportsWith(first, bad)
  BY ImportStep, TrueGrounds
<1>2. PICK bad \in {{}} \cup {{q} : q \in Needed} : ImportsWith(first, bad)
  BY <1>1
<1>3. /\ Updating /\ run'.process = run.process /\ run'.mem = StoresAfter(first, bad)
      /\ run'.pc \in {"prints", "free"} /\ (run'.pc = "free" => StoresAfter(first, bad) = run.mem)
  BY <1>2, ImportFailed, TrueGrounds
<1>4. /\ run # Idle /\ run.pc = "import" /\ UNCHANGED <<edition, plugged, main>>
  BY ImportStep, TrueGrounds DEF knowledge
<1> SUFFICES ASSUME Sane', run'.pc = "free", NEW db \in run.process, ~Failing'
             PROVE  Recalled(db)' /\ Accounts(main.is.prints[db], db)'
  BY <1>3, PcsAreNotIdle, DrivesAreFinite DEF DoneTrue, Saving
<1>5. run'.mem = run.mem
  BY <1>3
<1>6. TypedInv /\ Sane /\ db \in DOMAIN run.mem.prints /\ db \in DOMAIN run.mem.dbs
      /\ db \in Configured(ini) /\ db \in Dbs
  BY <1>3, SaneBefore, ConfiguredKnown, TrueGrounds DEF TablesInv, SessionInv, Steps
<1>7. Current(run.mem.prints, db)
  BY <1>3, <1>4, <1>5, <1>6, ImportedPrint
<1>8. Recalled(db) /\ run.mem.prints[db] = main.is.prints[db]
  BY <1>3, <1>4, <1>6, <1>7, TrueGrounds DEF LoadsInv, LoadedInv
<1>9. ~Removing(db) /\ \A d : ~Behind(db, d)
  BY <1>3, <1>4, NotSaving DEF Removing, Uninstalling, Updating, Behind
<1>10. \A place \in Places : files[place] \cap Wanted(db) \subseteq files'[place]
  BY <1>6, ImportLeaves, TrueGrounds
<1> DEFINE print == main.is.prints[db]
<1>11. print' = print /\ Wanted(db)' = Wanted(db)
  BY <1>4 DEF Wanted
<1>12. ASSUME NEW p \in Wanted(db) PROVE Accounted(print, db, p)'
  <2>1. InMem(db, p)'
    BY <1>2, ImportTrue
  <2>2. CASE \E d \in DOMAIN run.mem.dbs[db] \ {"base"} : p \in run.mem.dbs[db][d]
    <3>1. PICK d \in DOMAIN run.mem.dbs[db] \ {"base"} : p \in run.mem.dbs[db][d]
      BY <2>2
    <3>2. Lists(ext[d], db) /\ p \in ext[d].is[db] /\ d \in DriveSet
      BY <1>3, <1>4, <1>6, <3>1, TrueGrounds DEF LoadsInv, LoadedInv, StoreInv
    <3>3. Accounted(print, db, p)
      BY <1>6, <1>8, <1>9, <3>2 DEF TrueInv, ClaimsTrue
    <3> HIDE DEF print
    <3>4. Accounted(print, db, p)'
      BY <1>10, <1>11, <3>3, StillAccounted DEF Accounted, Shared
    <3> QED
      BY <3>4
  <2>3. CASE p \in files'["base"] \/ Shared(db, p)'
    BY <2>3 DEF Accounted
  <2> QED
    BY <1>5, <2>1, <2>2, <2>3 DEF InMem
<1>13. Recalled(db)'
  BY <1>4, <1>8 DEF Recalled, Current
<1> QED
  BY <1>11, <1>12, <1>13 DEF Accounts, Accounted

\* A session whose stores are saved has processed what it did when they were.
LEMMA DoneGoesOn ==
  ASSUME GroundInv, Steps \/ UNCHANGED vars, ~Begin, ~Import, ~SaveMain, ~SaveFails, Updating',
         Saving' \/ run'.pc = "free"
  PROVE  /\ Updating /\ (Saving \/ run.pc = "free") /\ UNCHANGED <<edition, option, files, main>>
         /\ run'.process = run.process /\ run'.failed = run.failed
<1>1. CASE Saving'
  <2>1. /\ Saving /\ Updating /\ UNCHANGED <<edition, option, files, main>>
        /\ \A x \in DOMAIN run \ {"pc", "left"} : run'[x] = run[x]
    BY <1>1, SavingGoesOn
  <2>2. DOMAIN run = UpdateFields
    BY <2>1, Grounds DEF TablesInv, SessionInv
  <2> QED
    BY <2>1, <2>2 DEF UpdateFields
<1>2. CASE run'.pc = "free"
  <2>1. CASE Saves
    <3>1. /\ Updating /\ UNCHANGED <<edition, option, files>>
          /\ \A x \in DOMAIN run \ {"pc", "left"} : run'[x] = run[x]
      BY <2>1, SavingSession, Grounds
    <3>2. DOMAIN run = UpdateFields
      BY <3>1, Grounds DEF TablesInv, SessionInv
    <3>3. Touch
      <4>1. CASE RemovePrints \/ SavePrints
        BY <1>2, <3>2, <4>1 DEF RemovePrints, SavePrints, Step, UpdateFields
      <4>2. ASSUME NEW d \in DriveSet, SaveDrive(d) \/ SaveManifest(d)
            PROVE run'.pc \in {"drives"} \cup DriveSet
        BY <3>2, <4>2 DEF SaveDrive, SaveManifest, Step, UpdateFields
      <4> QED
        BY <1>2, <2>1, <4>1, <4>2, PcsAreNotIdle DEF Saves
    <3> QED
      BY <3>1, <3>2, <3>3 DEF Touch, Saving, UpdateFields
  <2>2. CASE UNCHANGED vars
    BY <1>2, <2>2 DEF vars, knowledge, Updating
  <2>3. ~BeginUninstall
    <3>1. BeginUninstall => run'.pc = "remove"
      BY DEF BeginUninstall
    <3> QED
      BY <1>2, <3>1
  <2>4. ~Forget /\ ~(\E c \in run.todo : RemoveFile(c[1], c[2], c[3]))
    <3>1. Updating' => ~Uninstalling'
      BY DEF Updating, Uninstalling
    <3> QED
      BY <3>1, ForgetMem, RemovingMem, Grounds
  <2>5. ~CleanConfig
    <3>1. ASSUME CleanConfig PROVE run'.pc = "config"
      BY <3>1, CleanRun, Grounds, InUninstall DEF UninstallFields
    <3> QED
      BY <1>2, <3>1
  <2>6. ~(EndUninstall \/ FreeSpaces \/ Crash)
    BY DEF EndUninstall, FreeSpaces, Crash, Updating, Idle
  <2>7. ~Change
    BY <1>2 DEF Change, Updating
  <2> QED
    BY <2>1, <2>2, <2>3, <2>4, <2>5, <2>6, <2>7 DEF Steps
<1> QED
  BY <1>1, <1>2

\* and what those of a session that is done do.
LEMMA DoneOthers == ASSUME TrueInv, Steps \/ UNCHANGED vars, ~SaveMain PROVE DoneTrue'
<1>1. GroundInv
  BY TrueGrounds
<1>2. CASE Import
  BY <1>2, ImportDone
<1>3. CASE Begin
  <2>1. PICK only \in SUBSET Configured(ini) : \E bad \in SUBSET only, lost \in BOOLEAN :
               BeginsWith(only, bad, lost)
    BY <1>3, BeginStep
  <2>2. PICK bad \in SUBSET only, lost \in BOOLEAN : BeginsWith(only, bad, lost)
    BY <2>1
  <2>3. run' = Idle \/ (run'.pc \in {"import", "prints", "free"} /\ (run'.pc # "import" => run'.process = {}))
    BY <2>2, BeginRun
  <2>4. ~Saving'
    BY <2>3, PcsAreNotIdle, DrivesAreFinite DEF Saving, Idle
  <2> QED
    BY <2>3, <2>4 DEF DoneTrue, Updating, Idle
<1>4. CASE SaveFails
  <2> SUFFICES ASSUME Updating' PROVE DoneTrue'
    BY DEF DoneTrue
  <2>1. Updating /\ run' = [run EXCEPT !.pc = "free", !.process = {}]
    BY <1>1, <1>4, FailingStep, Grounds
  <2>2. run'.process = {}
    BY <1>1, <2>1, Grounds DEF TablesInv, SessionInv, UpdateFields
  <2> QED
    BY <2>2 DEF DoneTrue
<1>5. CASE ~Import /\ ~Begin /\ ~SaveFails
  <2> SUFFICES ASSUME Sane', Updating', Saving' \/ run'.pc = "free", NEW db \in run'.process, ~Failing'
               PROVE  Recalled(db)' /\ Accounts(main.is.prints[db], db)'
    BY DEF DoneTrue
  <2>1. /\ Updating /\ (Saving \/ run.pc = "free") /\ UNCHANGED <<edition, option, files, main>>
        /\ run'.process = run.process /\ run'.failed = run.failed
    BY <1>1, <1>5, DoneGoesOn
  <2>2. Sane
    BY <1>1, SaneBefore, Grounds
  <2>3. ~Failing
    BY <2>1 DEF Failing
  <2>4. Recalled(db) /\ Accounts(main.is.prints[db], db)
    BY <2>1, <2>2, <2>3 DEF TrueInv, DoneTrue
  <2>5. Recalled(db)'
    BY <2>1, <2>4 DEF Recalled, Current
  <2>6. ASSUME NEW p \in Wanted(db) PROVE Accounted(main.is.prints[db], db, p)'
    <3>1. Accounted(main.is.prints[db], db, p)
      BY <2>4 DEF Accounts, Accounted
    <3> QED
      BY <2>1, <3>1, MainAccounted
  <2>7. Wanted(db)' = Wanted(db)
    BY <2>1 DEF Wanted
  <2> QED
    BY <2>5, <2>6, <2>7 DEF Accounts, Accounted
<1> QED
  BY <1>2, <1>3, <1>5, <1>4

\* At the start the fingerprints are those of an older store, whose files are all in place.
LEMMA TrueInit == Init => TrueInv
<1> SUFFICES ASSUME Init PROVE TrueInv
  OBVIOUS
<1>1. run = Idle /\ \A d \in DriveSet : ext[d].st = "absent"
  BY DEF Init, Absent
<1>2. ~Updating /\ ClaimsTrue /\ MemTrue /\ DoneTrue
  BY <1>1 DEF Updating, Idle, ClaimsTrue, MemTrue, DoneTrue, Lists
<1>3. PrintsTrue
  <2> SUFFICES ASSUME NEW db \in Dbs, Recalled(db), NEW p \in Wanted(db)
               PROVE  Accounted(main.is.prints[db], db, p)
    BY DEF PrintsTrue, Accounts, Accounted
  <2>1. main.st = "whole" => Legacy
    BY DEF Init, Nothing, Absent
  <2>2. Legacy
    BY <2>1 DEF Recalled
  <2>3. db \in Configured(ini) /\ edition[db] = 1
    BY <2>2 DEF Legacy, Whole, Recalled, Current, Init
  <2>4. files["base"] = UNION {Editions[x][1] : x \in Configured(ini)}
    BY <2>2 DEF Legacy, Places
  <2>5. p \in files["base"]
    BY <2>3, <2>4 DEF Wanted
  <2> QED
    BY <2>5 DEF Accounted
<1> QED
  BY <1>2, <1>3, ShelfInit DEF TrueInv

\* Every step keeps the fingerprints true.
LEMMA NextTrue == ASSUME TrueInv, [Next]_vars PROVE TrueInv'
<1>1. Steps \/ UNCHANGED vars
  BY AllSteps
<1>2. ShelfInv'
  BY NextShelf DEF TrueInv
<1>3. MemTrue'
  BY <1>1, MemOthers
<1>4. CASE SaveMain
  BY <1>2, <1>3, <1>4, MainTrue DEF TrueInv
<1>5. CASE ~SaveMain
  <2>1. PrintsTrue' /\ DoneTrue'
    BY <1>1, <1>5, PrintsOthers, DoneOthers
  <2>2. CASE Writes
    <3>1. PICK d \in DriveSet : SaveDrive(d) \/ SaveManifest(d)
      BY <1>5, <2>2 DEF Writes
    <3> QED
      BY <1>2, <1>3, <2>1, <3>1, ClaimsDrive DEF TrueInv
  <2>3. CASE ~Writes
    BY <1>1, <1>2, <1>3, <2>1, <2>3, ClaimsOthers DEF TrueInv
  <2> QED
    BY <2>2, <2>3
<1> QED
  BY <1>4, <1>5

-----------------------------------------------------------------------------
(* 11. What is skipped is there *)

\* A database that is current, and whose fragments are at hand, has all its files in a
\* place that is there, or others have them.
LEMMA CoveredServed ==
  ASSUME TrueInv, Sane, run.pc = "idle", ~Lapsed, NEW db \in Dbs, Recalled(db), NEW f,
         \A d \in DOMAIN f : d \in plugged /\ \E store \in {ext[d], manifest[d]} :
                               Lists(store, db) /\ f[d] = store.is[db],
         main.is.prints[db].exp # {} => Covered(main.is.prints[db], BagOf(f))
  PROVE  Served(db)
<1>1. ~Removing(db)
  BY DEF Removing, Uninstalling
<1>2. Accounts(main.is.prints[db], db)
  BY <1>1 DEF TrueInv, PrintsTrue
<1>3. plugged \subseteq DriveSet
  BY TrueGrounds DEF StoreInv
<1> SUFFICES ASSUME NEW p \in Wanted(db)
             PROVE  Lent(db, p) \/ \E place \in {"base"} \cup plugged : p \in files[place]
  BY DEF Served
<1>4. CASE p \in files["base"]
  BY <1>4
<1>5. CASE Shared(db, p)
  BY <1>5 DEF Shared, Lent
<1>6. CASE \E bag \in main.is.prints[db].exp : \E fragment \in DOMAIN bag : p \in fragment
  <2>1. PICK bag \in main.is.prints[db].exp : \E fragment \in DOMAIN bag : p \in fragment
    BY <1>6
  <2>2. PICK fragment \in DOMAIN bag : p \in fragment
    BY <2>1
  <2>3. bag \sqsubseteq BagOf(f)
    <3>1. PICK one : main.is.prints[db].exp \subseteq {one}
      BY TrueGrounds DEF TablesInv, TypedInv, TableOK, PrintOK, Recalled, Current
    <3>2. PICK expected \in main.is.prints[db].exp : expected \sqsubseteq BagOf(f)
      BY <2>1 DEF Covered
    <3> QED
      BY <2>1, <3>1, <3>2
  <2>4. fragment \in Range(f)
    <3>1. DOMAIN BagOf(f) = Range(f)
      BY DEF BagOf
    <3>2. DOMAIN bag \subseteq DOMAIN BagOf(f)
      BY <2>3 DEF \sqsubseteq
    <3> QED
      BY <3>1, <3>2
  <2>5. PICK d \in DOMAIN f : f[d] = fragment
    BY <2>4 DEF Range
  <2>6. PICK store \in {ext[d], manifest[d]} : Lists(store, db) /\ f[d] = store.is[db]
    OBVIOUS
  <2>7. store.is[db] \cap Wanted(db) \subseteq files[d]
    BY <1>1, <1>3, <2>6, TrueGrounds DEF ShelfInv, ThereInv
  <2> QED
    BY <2>2, <2>5, <2>6, <2>7
<1> QED
  BY <1>2, <1>4, <1>5, <1>6 DEF Accounts

\* A database without a fingerprint is never current.
LEMMA EditionIsSome == ASSUME TrueInv, NEW db \in Dbs PROVE edition[db] # NoPrint.edition
<1>1. edition[db] \in 1..Len(Editions[db])
  BY TrueGrounds DEF TablesInv, TypedInv
<1> QED
  BY <1>1 DEF NoPrint

\* Before the store is loaded, the manifests tell what is at hand,
LEMMA OpenServed ==
  ASSUME TrueInv, Sane, run.pc = "idle", ~Lapsed, NEW db \in Dbs, OpenTrusts(db)
  PROVE  Served(db)
<1>1. /\ PrintIn(PrintsRead, db).edition = edition[db]
      /\ Covered(PrintsRead[db], ManifestsOf(db))
  BY DEF OpenTrusts, Unchanged
<1>2. db \in DOMAIN PrintsRead
  BY <1>1, EditionIsSome DEF PrintIn
<1>3. prints.st = "whole" /\ PrintsRead = prints.is
  BY <1>2 DEF PrintsRead, NoMap
<1>4. main.st = "whole" /\ main.is.prints = PrintsRead
  BY <1>3, TrueGrounds DEF TablesInv, PrintsInv
<1>5. Recalled(db)
  BY <1>1, <1>2, <1>4 DEF Recalled, Current, PrintIn
<1> DEFINE on == {d \in plugged : manifest[d].st = "whole" /\ db \in DOMAIN manifest[d].is}
           f == [d \in on |-> manifest[d].is[db]]
<1>6. ManifestsOf(db) = BagOf(f)
  BY DEF ManifestsOf
<1>7. \A d \in DOMAIN f : d \in plugged /\ \E store \in {ext[d], manifest[d]} :
                               Lists(store, db) /\ f[d] = store.is[db]
  BY DEF Lists
<1>8. Covered(main.is.prints[db], BagOf(f))
  BY <1>1, <1>4, <1>6
<1> HIDE DEF f
<1> QED
  BY <1>5, <1>7, <1>8, CoveredServed

\* and after it the fragments that were loaded.
LEMMA MixServed ==
  ASSUME TrueInv, Sane, run.pc = "idle", ~Lapsed, NEW db \in Dbs, NEW s, HasLoaded(s), StoreOK(s),
         MixTrusts(s, db)
  PROVE  Served(db)
<1>1. /\ PrintIn(s.prints, db).edition = edition[db]
      /\ PrintIn(s.prints, db).exp # {} => Covered(PrintIn(s.prints, db), BagOf(Fragments(s, db)))
  BY DEF MixTrusts, Unchanged
<1>2. db \in DOMAIN s.prints /\ s.prints[db] # NoPrint
  BY <1>1, EditionIsSome DEF PrintIn
<1>3. main.st = "whole" /\ db \in DOMAIN main.is.prints /\ s.prints[db] = main.is.prints[db]
  BY <1>2 DEF HasLoaded
<1>4. Recalled(db) /\ PrintIn(s.prints, db) = main.is.prints[db]
  BY <1>1, <1>2, <1>3 DEF Recalled, Current, PrintIn
<1>5. db \in DOMAIN s.dbs
  BY <1>2 DEF StoreOK
<1> DEFINE f == Fragments(s, db)
<1>6. DOMAIN f = DOMAIN s.dbs[db] \ {"base"} /\ \A d \in DOMAIN f : f[d] = s.dbs[db][d]
  BY DEF Fragments
<1> HIDE DEF f
<1>7. \A d \in DOMAIN f : d \in plugged /\ \E store \in {ext[d], manifest[d]} :
                               Lists(store, db) /\ f[d] = store.is[db]
  BY <1>5, <1>6 DEF HasLoaded
<1>8. main.is.prints[db].exp # {} => Covered(main.is.prints[db], BagOf(f))
  BY <1>1, <1>4 DEF f
<1> QED
  BY <1>4, <1>7, <1>8, CoveredServed

\* While a session goes on, what it skipped stays there.
SkipInv == Sane /\ Updating => SkippedAreThere

\* A database that is served stays so while its files stay.
LEMMA StaysServed ==
  ASSUME NEW db, UNCHANGED <<edition, plugged>>, plugged \subseteq DriveSet, Served(db),
         \A place \in Places : files[place] \cap Wanted(db) \subseteq files'[place]
  PROVE  Served(db)'
<1>1. Wanted(db)' = Wanted(db)
  BY DEF Wanted
<1> SUFFICES ASSUME NEW p \in Wanted(db)
             PROVE  Lent(db, p)' \/ \E place \in {"base"} \cup plugged : p \in files'[place]
  BY <1>1 DEF Served
<1>2. \A place \in Places : p \in files[place] => p \in files'[place]
  OBVIOUS
<1>3. Places = {"base"} \cup DriveSet
  BY DEF Places
<1> QED
  BY <1>2, <1>3 DEF Served, Lent

\* What an update skips when it begins is served,
LEMMA BeginSkips == ASSUME TrueInv, Begin PROVE SkipInv'
<1>1. run.pc = "idle" /\ UNCHANGED <<edition, plugged, files>> /\ defects \subseteq defects'
  BY BeginStep
<1>2. PICK only \in SUBSET Configured(ini) : \E bad \in SUBSET only, lost \in BOOLEAN :
             BeginsWith(only, bad, lost)
  BY BeginStep
<1>3. PICK bad \in SUBSET only, lost \in BOOLEAN : BeginsWith(only, bad, lost)
  BY <1>2
<1>4. CASE run' = Idle
  BY <1>4 DEF SkipInv, Updating, Idle
<1>5. CASE run' # Idle
  <2>1. PICK early \in SUBSET Configured(ini), mixed \in SUBSET Configured(ini) :
              /\ \A db \in early : SkipsOpen(db)
              /\ run'.mem = IF mixed = {} THEN NewStore ELSE WithStores(Loaded, mixed)
              /\ run'.skipped = early \cup (mixed \ run'.process)
              /\ \A db \in mixed \ run'.process : SkipsMix(run'.mem, db)
    BY <1>3, <1>5, BeginRun
  <2>2. ASSUME Sane', NEW db \in run'.skipped PROVE Served(db)
    <3>1. Sane /\ db \in Dbs
      BY <1>1, <2>1, <2>2, ConfiguredKnown, TrueGrounds DEF Sane
    <3>2. Mode = "fastest"
      BY <2>1, <2>2 DEF SkipsOpen, SkipsMix
    <3>3. ~Lapsed
      BY <1>1, <3>2, FastestMode DEF Lapsed, Failing, Updating
    <3>4. CASE db \in early
      BY <1>1, <2>1, <3>1, <3>3, <3>4, OpenServed DEF SkipsOpen
    <3>5. CASE db \in mixed \ run'.process
      <4>1. run'.mem = LoadedFor(mixed)
        BY <2>1 DEF LoadedFor
      <4>2. HasLoaded(LoadedFor(mixed))
        BY BeginMem, TrueGrounds
      <4>3. StoreOK(LoadedFor(mixed))
        BY NewStoreOK, LoadedOK, WithStoresOK, TrueGrounds DEF LoadedFor
      <4>4. MixTrusts(LoadedFor(mixed), db)
        BY <2>1, <3>5, <4>1 DEF SkipsMix
      <4> QED
        BY <1>1, <3>1, <3>3, <4>2, <4>3, <4>4, MixServed
    <3> QED
      BY <2>1, <3>4, <3>5
  <2>3. ASSUME Sane', NEW db \in run'.skipped PROVE Served(db)'
    <3>1. Served(db) /\ plugged \subseteq DriveSet
      BY <2>2, <2>3, TrueGrounds DEF StoreInv
    <3> QED
      BY <1>1, <3>1, StaysServed
  <2> QED
    BY <2>3 DEF SkipInv, SkippedAreThere, Served, Lent, Wanted
<1> QED
  BY <1>4, <1>5

\* and stays so until the session ends.
LEMMA OthersSkip ==
  ASSUME TrueInv, SkipInv, Steps \/ UNCHANGED vars, ~Begin
  PROVE  SkipInv'
<1> SUFFICES ASSUME Sane', Updating', NEW db \in run'.skipped PROVE Served(db)'
  BY DEF SkipInv, SkippedAreThere
<1>1. Sane /\ plugged \subseteq DriveSet
  BY SaneBefore, TrueGrounds DEF StoreInv
<1>2. CASE Updating /\ run'.skipped = run.skipped /\ UNCHANGED <<edition, plugged>>
           /\ (files' = files \/ Import)
  <2>1. Served(db) /\ db \in Configured(ini)
    BY <1>1, <1>2, TrueGrounds DEF SkipInv, SkippedAreThere, TablesInv, SessionInv
  <2>2. \A place \in Places : files[place] \cap Wanted(db) \subseteq files'[place]
    BY <1>2, <2>1, ImportLeaves, TrueGrounds
  <2> QED
    BY <1>1, <1>2, <2>1, <2>2, StaysServed
<1>3. CASE Saves
  <2>1. /\ Updating /\ UNCHANGED <<edition, plugged, files>>
        /\ \A x \in DOMAIN run \ {"pc", "left"} : run'[x] = run[x]
    BY <1>3, SavingSession, TrueGrounds
  <2>2. DOMAIN run = UpdateFields
    BY <2>1, TrueGrounds DEF TablesInv, SessionInv
  <2> QED
    BY <1>2, <2>1, <2>2 DEF UpdateFields
<1>4. CASE Import
  <2>1. PICK first, bad : ImportsWith(first, bad)
    BY <1>4, ImportStep, TrueGrounds
  <2>2. Updating /\ DOMAIN run = UpdateFields /\ UNCHANGED <<edition, plugged>>
    BY <1>4, <2>1, ImportFailed, ImportStep, TrueGrounds
  <2>3. run'.skipped = run.skipped
    BY <2>1, <2>2, ImportRun DEF ImportsWith, UpdateFields
  <2> QED
    BY <1>2, <1>4, <2>2, <2>3
<1>5. CASE UNCHANGED vars
  BY <1>2, <1>5 DEF vars, Updating
<1>6. ~BeginUninstall
  <2>1. BeginUninstall => run'.kind = "uninstall"
    BY DEF BeginUninstall
  <2> QED
    BY <2>1 DEF Updating
<1>7. ~Forget /\ ~(\E c \in run.todo : RemoveFile(c[1], c[2], c[3]))
  <2>1. Updating' => ~Uninstalling'
    BY DEF Updating, Uninstalling
  <2> QED
    BY <2>1, ForgetMem, RemovingMem, TrueGrounds
<1>8. ~CleanConfig
  <2>1. ASSUME CleanConfig PROVE run'.kind = "uninstall"
    BY <2>1, CleanRun, TrueGrounds, InUninstall DEF UninstallFields
  <2> QED
    BY <2>1 DEF Updating
<1>9. ~(EndUninstall \/ FreeSpaces \/ Crash)
  BY DEF EndUninstall, FreeSpaces, Crash, Updating, Idle
<1>10. ~Change
  <2>1. ASSUME Change PROVE FALSE
    <3>1. run' = run /\ run.pc \in {"idle", "remove"}
      BY <2>1 DEF Change
    <3>2. run.pc = "remove" /\ run.kind = "update"
      BY <3>1 DEF Updating
    <3> QED
      BY <3>2, InUninstall, TrueGrounds
  <2> QED
    BY <2>1
<1>11. CASE SaveFails
  <2>1. Updating /\ UNCHANGED <<edition, plugged, files>> /\ run' = [run EXCEPT !.pc = "free", !.process = {}]
    BY <1>11, FailingStep, TrueGrounds
  <2>2. DOMAIN run = UpdateFields
    BY <2>1, TrueGrounds DEF TablesInv, SessionInv
  <2>3. run'.skipped = run.skipped
    BY <2>1, <2>2 DEF UpdateFields
  <2> QED
    BY <1>2, <2>1, <2>3
<1> QED
  BY <1>3, <1>4, <1>5, <1>6, <1>7, <1>8, <1>9, <1>10, <1>11 DEF Steps

ServedInv == TrueInv /\ SkipInv

\* Every behaviour keeps the whole invariant.
LEMMA ServedInvariant == Spec => []ServedInv
<1>1. Init => ServedInv
  BY TrueInit DEF ServedInv, SkipInv, Updating, Init, Idle
<1>2. ServedInv /\ [Next]_vars => ServedInv'
  <2> SUFFICES ASSUME ServedInv, [Next]_vars PROVE ServedInv'
    OBVIOUS
  <2>1. TrueInv' /\ (Steps \/ UNCHANGED vars)
    BY NextTrue, AllSteps DEF ServedInv
  <2>2. SkipInv'
    BY <2>1, BeginSkips, OthersSkip DEF ServedInv
  <2> QED
    BY <2>1, <2>2 DEF ServedInv
<1> QED
  BY <1>1, <1>2, PTL DEF Spec

\* A database is skipped only while all its files are in a place that is there, with
\* fragments that moved, drives that changed and writes that were cut in between: what
\* SkippedIsServed says (can_skip_db and can_skip_db_with_external_store_fingerprints),
\* for any databases, editions and drives.
THEOREM SkippedServed == Spec => []SkippedIsServed
<1>1. ServedInv => SkippedIsServed
  BY DEF ServedInv, SkipInv, Sane, SkippedIsServed
<1> QED
  BY <1>1, ServedInvariant, PTL

\* A check that finds the databases current has found all their files in a place that is
\* there: what CheckedIsServed says (OnlineChecker), for any databases that are asked for.
THEOREM CheckedServed == Spec => []CheckedIsServed
<1>1. ServedInv => CheckedIsServed
  <2> SUFFICES ASSUME ServedInv, run.pc = "idle", free.st = "whole", Sane,
                      NEW ids \in SUBSET Configured(ini),
                      CheckStatus(ids, Configured(ini)) = "up_to_date", NEW db \in ids
               PROVE  Served(db)
    BY DEF CheckedIsServed, Sane
  <2>1. TrueInv /\ db \in Dbs
    BY ConfiguredKnown, TrueGrounds DEF ServedInv
  <2>2. ~Lapsed
    BY DEF Lapsed, Failing, Updating
  <2>3. CheckFinds(db, TRUE) = "up_to_date"
    <3> DEFINE found == {CheckFinds(x, x \in Configured(ini)) : x \in ids}
    <3>1. "failed" \notin found /\ "needs_update" \notin found
      BY DEF CheckStatus
    <3>2. CheckFinds(db, db \in Configured(ini)) \in found /\ db \in Configured(ini)
      OBVIOUS
    <3> HIDE DEF found
    <3>3. CheckFinds(db, db \in Configured(ini)) = IF OpenTrusts(db) \/ CheckMix(db) THEN "up_to_date"
                                                   ELSE "needs_update"
      BY <3>2 DEF CheckFinds
    <3> QED
      BY <3>1, <3>2, <3>3 DEF CheckFinds
  <2>4. OpenTrusts(db) \/ CheckMix(db)
    BY <2>3 DEF CheckFinds
  <2>5. CASE OpenTrusts(db)
    BY <2>1, <2>2, <2>5, OpenServed
  <2>6. CASE CheckMix(db)
    <3>1. HasLoaded(Loaded)
      BY <2>1, LoadedFragments, LoadedPrints, TrueGrounds DEF HasLoaded, NoMap
    <3>2. StoreOK(Loaded)
      BY <2>1, LoadedOK, TrueGrounds
    <3> QED
      BY <2>1, <2>2, <2>6, <3>1, <3>2, MixServed DEF CheckMix
  <2> QED
    BY <2>4, <2>5, <2>6
<1> QED
  BY <1>1, ServedInvariant, PTL

=============================================================================
