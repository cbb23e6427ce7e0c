-------------------------- MODULE FileInstall_proofs --------------------------
(***************************************************************************)
(* Proofs about FileInstall, for every set of descriptions and any number  *)
(* of tries and crashes: a complete file stays complete, what the store    *)
(* vouches for is installed, and an update by download is durable.         *)
(*                                                                         *)
(* The inductive invariant says, for each place of the worker, which       *)
(* location it writes to and what is known of its content there.           *)
(***************************************************************************)
EXTENDS FileInstall, TLAPS

-----------------------------------------------------------------------------
(* 1. The inductive invariant *)

Working == {"copy", "copying", "write", "writing", "check", "finalize",
            "copyOld", "copyingOld", "move"}

\* The cache of the file system never knows a target that is not there.
KnownIsThere == "target" \in files => Present("target")

\* Where a job writes follows from the description and from what it found.
Direction ==
  job.pc \in Working =>
    /\ Dumped => job.install = "target"
    /\ ~Dumped /\ desc.tmp => job.install = "temp"
    /\ job.via = "fetch" => (job.install = "temp" <=> desc.tmp \/ job.exists)
    /\ job.install = "temp" => job.pc \notin {"copy", "copying"}
    /\ job.pc \in {"copyOld", "copyingOld", "move"} => job.install = "temp"

\* A job that writes straight on the target has nothing complete to lose there;
\* Fresh says so of a job that is about to decide where it writes.
OnlySpoilt ==
  ~Careless /\ job.install = "target" =>
    /\ job.pc \in {"copy", "copying", "write", "writing"} => ~Complete("target")
    /\ job.pc = "check" => disk["target"] # "old"

Fresh ==
  job.pc = "prepare" /\ job.via = "fetch" /\ ~job.exists /\ ~Careless /\ ~desc.tmp
    => ~Complete("target")

\* Past the check the new content is where the job wrote it.
Verified ==
  /\ job.pc \in {"finalize", "copyOld", "copyingOld", "move"} => disk[job.install] = "new"
  /\ job.pc = "installed" => disk["target"] = "new"

\* No job starts for a file that is recorded and installed.
RecordedIsIdle == recorded /\ ~cut => job.pc = "idle" /\ disk["target"] = "new"

\* A download that was checked is flushed, when it went to a temporary file.
Flushed ==
  job.via = "fetch" /\ job.install = "temp"
    /\ job.pc \in {"check", "finalize", "copyOld", "copyingOld", "move"}
  => "temp" \notin loose

\* A file that an archive should give and the database has no url for: it is not
\* downloaded, but it is recovered as an existing one when the extraction failed.
Zipped == desc.zip # "none" /\ ~desc.url

\* Where the jobs come from: an archive, or for a second time a failed extraction.
Sources ==
  /\ job.again => desc.zip # "none" /\ job.via = "fetch"
  /\ ~job.again /\ job.pc # "idle" => (job.via = "fetch" <=> desc.zip = "none")
  /\ job.again => job.exists = ~desc.url
  /\ job.again /\ job.exists => Zipped /\ job.pc \in {"recover", "end"}

\* What is copied, and what a temporary file is to replace, is there.
CopyFindsOld == job.pc \in {"copy", "copyOld"} => Present("target")
TempReplaces ==
  job.pc \in Working /\ job.install = "temp" /\ ~desc.tmp => Present("target")

\* A download of a new version finds the old one until its move.
OldIsThere ==
  job.via = "fetch" /\ job.exists /\ ~job.again /\ job.pc \in Working \cup {"prepare", "recover"}
    => Present("target")

\* What the recovery of a Zipped file could bring back without a flush, a backup or a
\* temporary file, is only there together with the target, which is then not replaced.
LooseBackup == Zipped /\ "backup" \in loose => Present("target")
LeftTemp == Zipped /\ (~desc.tmp \/ desc.zip = "whole") /\ (Present("temp") \/ "temp" \in loose)
              => Present("target")
BadTemp == Zipped /\ job.pc = "recover" /\ desc.tmp /\ desc.zip # "whole" => disk["temp"] # "new"

InstallInv ==
  /\ InstallTypeOK
  /\ KnownIsThere /\ Direction /\ OnlySpoilt /\ Fresh /\ Verified
  /\ RecordedIsIdle /\ Flushed
  /\ Sources /\ CopyFindsOld /\ TempReplaces /\ OldIsThere /\ LooseBackup /\ LeftTemp /\ BadTemp

-----------------------------------------------------------------------------
(* 2. It is inductive *)

\* The types of the fields of a job.
LEMMA JobsHaveFields ==
  ASSUME NEW j \in Jobs
  PROVE  /\ j.pc \in Pcs /\ j.via \in {"fetch", "zip"} /\ j.exists \in BOOLEAN /\ j.again \in BOOLEAN
         /\ j.install \in {"target", "temp"} /\ j.tries \in 0..MaxTries-1
BY DEF Jobs

\* The count of tries starts in its range.
LEMMA FirstTry == 0 \in 0..MaxTries-1
BY InstallAssumption

\* The idle job has the type of a job.
LEMMA NoJobIsOne == NoJob \in Jobs
BY FirstTry DEF NoJob, Jobs, Pcs

\* What a job remembers when it goes on, and when it fails.
Same == /\ job'.via = job.via /\ job'.exists = job.exists /\ job'.again = job.again
        /\ job'.install = job.install

\* Going on changes nothing but the place.
LEMMA GoingOn ==
  ASSUME InstallTypeOK, NEW pc \in Pcs, Goto(pc)
  PROVE  job' \in Jobs /\ job'.pc = pc /\ Same
BY DEF InstallTypeOK, Jobs, Goto, Same

\* A job that fails starts again, ends, or is recovered when it was a download.
LEMMA Failing ==
  ASSUME InstallTypeOK, Fail
  PROVE  job' \in Jobs /\ Same /\ job'.pc \in {"prepare", "recover", "end"}
         /\ (job'.pc = "recover" => job.via = "fetch")
<1>1. CASE job' = [job EXCEPT !.pc = "prepare", !.tries = @ + 1] /\ job.tries + 1 < MaxTries
  <2>1. job.tries + 1 \in 0..MaxTries-1
    BY <1>1, JobsHaveFields, InstallAssumption DEF InstallTypeOK
  <2> QED BY <1>1, <2>1 DEF InstallTypeOK, Jobs, Same, Pcs
<1>2. CASE Goto("recover") /\ job.via = "fetch"
  BY <1>2, GoingOn DEF Pcs
<1>3. CASE Goto("end")
  BY <1>3, GoingOn DEF Pcs
<1> QED BY <1>1, <1>2, <1>3 DEF Fail

\* Writing to one location leaves the others.
LEMMA OnDisk ==
  ASSUME InstallTypeOK, NEW l \in Loc, NEW c \in Content, disk' = [disk EXCEPT ![l] = c]
  PROVE  /\ disk' \in [Loc -> Content] /\ disk'[l] = c
         /\ \A k \in Loc : k # l => disk'[k] = disk[k]
BY DEF InstallTypeOK

\* A move replaces the target and empties its source.
LEMMA Moving ==
  ASSUME InstallTypeOK, NEW from \in {"temp", "backup"}, Moved(from)
  PROVE  /\ disk' \in [Loc -> Content] /\ loose' \subseteq Loc /\ files' \subseteq Loc
         /\ disk'["target"] = disk[from] /\ disk'[from] = "absent"
         /\ \A k \in Loc \ {"target", from} : disk'[k] = disk[k]
BY DEF InstallTypeOK, Moved, Loc, Content

\* A restart is counted and ends the job.
LEMMA Restarting ==
  ASSUME InstallTypeOK, Restarted
  PROVE  job' \in Jobs /\ files' = {} /\ stopped' = FALSE /\ crashes' \in 0..MaxCrashes
         /\ crashes' # crashes
<1>1. crashes' \in 0..MaxCrashes /\ crashes' # crashes
  BY InstallAssumption DEF InstallTypeOK, Restarted
<1> QED BY <1>1, NoJobIsOne DEF Restarted

\* The three ends of the check, and what is removed in two of them.
LEMMA Checking ==
  ASSUME InstallTypeOK, Check
  PROVE  /\ job'.install = job.install
         /\ \/ disk[job.install] = "new" /\ Same /\ job'.pc = "finalize" /\ UNCHANGED <<disk, files>>
            \/ /\ disk[job.install] # "new"
               /\ \/ job.via = "fetch" /\ Same /\ job'.pc \in {"prepare", "recover", "end"}
                  \/ /\ job.via = "zip" /\ job'.via = "fetch" /\ job'.again
                     /\ job'.exists = ~desc.url
                     /\ job'.pc = IF desc.url THEN "prepare" ELSE "recover"
               /\ \/ UNCHANGED <<disk, files>>
                  \/ /\ job.via = "zip" => job.install = "temp"
                     /\ disk'[job.install] = "absent" /\ files' = files \ {job.install}
                     /\ \A k \in Loc : k # job.install => disk'[k] = disk[k]
<1>0. job \in Jobs /\ job.install \in Loc
  BY JobsHaveFields DEF InstallTypeOK, Loc
<1>1. CASE disk[job.install] = "new"
  BY <1>1, GoingOn DEF Check, Same, Pcs
<1>2. CASE disk[job.install] # "new" /\ job.via = "fetch"
  BY <1>0, <1>2, Failing, OnDisk DEF Check, Same, Content
<1>3. CASE disk[job.install] # "new" /\ job.via # "fetch"
  <2>1. job' = [job EXCEPT !.pc = IF desc.url THEN "prepare" ELSE "recover",
                           !.via = "fetch", !.again = TRUE, !.exists = ~desc.url, !.tries = 0]
    BY <1>3 DEF Check
  <2>2. /\ job'.install = job.install /\ job.via = "zip" /\ job'.via = "fetch" /\ job'.again
        /\ job'.exists = ~desc.url /\ job'.pc = IF desc.url THEN "prepare" ELSE "recover"
    BY <1>0, <1>3, <2>1, JobsHaveFields DEF Jobs
  <2> QED BY <1>0, <1>3, <2>2, OnDisk DEF Check, Content
<1> QED BY <1>1, <1>2, <1>3

\* Every step keeps the types.
LEMMA InstallTypeStep == InstallTypeOK /\ [Next]_vars => InstallTypeOK'
<1> SUFFICES ASSUME InstallTypeOK, [Next]_vars PROVE InstallTypeOK'
  OBVIOUS
<1>0. job \in Jobs BY DEF InstallTypeOK
<1> USE InstallAssumption, JobsHaveFields, GoingOn, Failing DEF InstallTypeOK
<1>1. CASE Decide
  <2>1. \A v \in {"fetch", "zip"}, e \in BOOLEAN :
          [NoJob EXCEPT !.pc = "prepare", !.exists = e, !.via = v] \in Jobs
    BY FirstTry DEF NoJob, Jobs, Pcs
  <2>2. job' \in Jobs
    BY <1>1, <2>1, <1>0 DEF Decide, DecideAs, Wanted, Present
  <2> QED BY <1>1, <2>2 DEF Decide, DecideAs, Wanted, Loc
<1>2. CASE Prepare
  BY <1>2 DEF Prepare, Jobs, Pcs
<1>3. CASE CopyOpen
  BY <1>3, OnDisk DEF CopyOpen, Loc, Content, Pcs
<1>4. CASE CopyEnd
  <2>1. disk["target"] \in Content BY DEF Loc
  <2>2. disk' \in [Loc -> Content] BY <1>4, <2>1, OnDisk DEF CopyEnd, Loc
  <2> QED BY <1>4, <2>2 DEF CopyEnd, Loc, Pcs
<1>5. CASE WriteOpen
  <2>1. job.install \in Loc BY <1>0 DEF Loc
  <2>2. disk' \in [Loc -> Content] BY <1>5, <2>1, OnDisk DEF WriteOpen, Content
  <2> QED BY <1>5, <2>1, <2>2 DEF WriteOpen, Pcs
<1>6. CASE WriteGood \/ WriteBad
  <2>1. job.install \in Loc BY <1>0 DEF Loc
  <2>2. disk' \in [Loc -> Content] BY <1>6, <2>1, OnDisk DEF WriteGood, WriteBad, Written, Content
  <2> QED BY <1>6, <2>2 DEF WriteGood, WriteBad, Written, Pcs
<1>7. CASE WriteFails \/ MoveFails
  BY <1>7 DEF WriteFails, MoveFails
<1>8. CASE Check
  <2>1. job.install \in Loc BY <1>0 DEF Loc
  <2>2. disk' \in [Loc -> Content] BY <1>8, <2>1, OnDisk DEF Check, Content
  <2>3. job' \in Jobs
    <3>1. CASE Fail \/ Goto("finalize") BY <3>1 DEF Pcs
    <3>2. CASE job' = [job EXCEPT !.pc = IF desc.url THEN "prepare" ELSE "recover", !.via = "fetch",
                                  !.again = TRUE, !.exists = ~desc.url, !.tries = 0]
      BY <3>2, FirstTry DEF Jobs, Pcs, Description
    <3> QED BY <1>8, <3>1, <3>2 DEF Check
  <2> QED BY <1>8, <2>2, <2>3 DEF Check
<1>9. CASE Finalize
  BY <1>9 DEF Finalize, Pcs
<1>10. CASE Move
  BY <1>10, Moving DEF Move, Pcs
<1>11. CASE Recover
  BY <1>11, Moving DEF Recover, Pcs
<1>12. CASE EndRun
  BY <1>12, NoJobIsOne DEF EndRun
<1>13. CASE Interrupt \/ Flush
  BY <1>13 DEF Interrupt, Flush
<1>14. CASE Kill
  BY <1>14, Restarting DEF Kill
<1>15. CASE PowerCut
  <2>1. disk' \in [Loc -> Content] BY <1>15 DEF PowerCut, Content
  <2> QED BY <1>15, <2>1, Restarting DEF PowerCut
<1>16. CASE UNCHANGED vars
  BY <1>16 DEF vars
<1> QED BY <1>1, <1>2, <1>3, <1>4, <1>5, <1>6, <1>7, <1>8, <1>9, <1>10, <1>11, <1>12, <1>13, <1>14,
  <1>15, <1>16 DEF Next, Install

-----------------------------------------------------------------------------
(* 3. The parts *)

\* The cache learns of a target only when it is there or is put there.
LEMMA KnownIsThereStep ==
  InstallTypeOK /\ Verified /\ Direction /\ KnownIsThere /\ [Next]_vars
    => KnownIsThere'
<1> SUFFICES ASSUME InstallTypeOK, Verified, Direction, KnownIsThere, [Next]_vars
             PROVE  KnownIsThere'
  OBVIOUS
<1>0. job \in Jobs /\ disk \in [Loc -> Content] /\ desc \in Description
  BY DEF InstallTypeOK
<1> USE JobsHaveFields DEF KnownIsThere, Same, Present, Loc, Verified, Direction, Working
<1>1. CASE Decide
  BY <1>0, <1>1 DEF Decide, DecideAs, Wanted, NoJob
<1>2. CASE Prepare
  BY <1>0, <1>2, GoingOn DEF Prepare, Jobs, Pcs
<1>3. CASE CopyOpen
  BY <1>0, <1>3, GoingOn, OnDisk DEF CopyOpen, Pcs, Content
<1>4. CASE CopyEnd
  BY <1>0, <1>4, Failing, GoingOn, OnDisk DEF CopyEnd, Pcs, Content
<1>5. CASE WriteOpen
  BY <1>0, <1>5, Failing, GoingOn, OnDisk DEF WriteOpen, Pcs, Content
<1>6. CASE WriteGood \/ WriteBad
  BY <1>0, <1>6, GoingOn, OnDisk DEF WriteGood, WriteBad, Written, Pcs, Content
<1>7. CASE WriteFails \/ MoveFails
  BY <1>0, <1>7, Failing DEF WriteFails, MoveFails
<1>8. CASE Check
  BY <1>0, <1>8, Checking DEF Check, Description, Content
<1>9. CASE Finalize
  BY <1>0, <1>9, GoingOn DEF Finalize, Pcs
<1>10. CASE Move
  BY <1>0, <1>10, GoingOn, Moving DEF Move, Pcs, Moved
<1>11. CASE Recover
  BY <1>0, <1>11, GoingOn, Moving DEF Recover, Pcs, Moved
<1>12. CASE EndRun
  BY <1>0, <1>12 DEF EndRun, NoJob
<1>13. CASE Interrupt \/ Flush \/ UNCHANGED vars
  BY <1>0, <1>13 DEF Interrupt, Flush, vars
<1>14. CASE Kill
  BY <1>0, <1>14 DEF Kill, Restarted, NoJob
<1>15. CASE PowerCut
  BY <1>0, <1>15 DEF PowerCut, Restarted, NoJob
<1> QED BY <1>1, <1>2, <1>3, <1>4, <1>5, <1>6, <1>7, <1>8, <1>9, <1>10,
  <1>11, <1>12, <1>13, <1>14, <1>15 DEF Next, Install

\*\* The decision to install a file starts a job and leaves the disk as it is.
LEMMA DecideStarts ==
  ASSUME Decide
  PROVE  /\ UNCHANGED <<desc, disk>> /\ job.pc = "idle"
         /\ \/ job' = job
            \/ /\ job'.pc = "prepare" /\ ~job'.again /\ (~job'.exists => ~Present("target"))
               /\ job'.via = IF desc.zip = "none" THEN "fetch" ELSE "zip"
<1>1. \/ job' = job
      \/ job' = [NoJob EXCEPT !.pc = "prepare", !.exists = "target" \in files \/ Present("target"),
                              !.via = IF desc.zip = "none" THEN "fetch" ELSE "zip"]
  BY DEF Decide, DecideAs, Wanted
<1>2. CASE job' = [NoJob EXCEPT !.pc = "prepare", !.exists = "target" \in files \/ Present("target"),
                                !.via = IF desc.zip = "none" THEN "fetch" ELSE "zip"]
  <2>1. /\ job'.pc = "prepare" /\ ~job'.again /\ job'.exists = ("target" \in files \/ Present("target"))
        /\ job'.via = IF desc.zip = "none" THEN "fetch" ELSE "zip"
    BY <1>2 DEF NoJob
  <2>2. UNCHANGED <<desc, disk>> /\ job.pc = "idle"
    BY DEF Decide, DecideAs, Wanted
  <2> QED
    BY <2>1, <2>2
<1>3. UNCHANGED <<desc, disk>> /\ job.pc = "idle"
  BY DEF Decide, DecideAs, Wanted
<1> QED
  BY <1>1, <1>2, <1>3

\* The preparation of a job only chooses where it writes.
LEMMA PrepareChooses ==
  ASSUME InstallTypeOK, Prepare
  PROVE  /\ job.pc = "prepare" /\ UNCHANGED <<desc, disk, files>>
         /\ job'.via = job.via /\ job'.exists = job.exists /\ job'.again = job.again
         /\ job'.pc \in {"copy", "write"}
         /\ LET exists == IF job.via = "zip" THEN "target" \in files \/ Present("target") ELSE job.exists
                temp == ~Dumped /\ (desc.tmp \/ exists)
            IN /\ job'.install = IF temp THEN "temp" ELSE "target"
               /\ job'.pc = "copy" <=> ~temp /\ ~Dumped /\ desc.backup /\ Present("target")
<1>1. job \in Jobs
  BY DEF InstallTypeOK
<1> QED
  BY <1>1, SMTT(20) DEF Prepare, Jobs

\* Prepare decides where a job writes, and no later step changes that.
LEMMA DirectionStep ==
  InstallTypeOK /\ Fresh /\ Direction /\ [Next]_vars
    => Direction'
<1> SUFFICES ASSUME InstallTypeOK, Fresh, Direction, [Next]_vars
             PROVE  Direction'
  OBVIOUS
<1>0. job \in Jobs /\ disk \in [Loc -> Content] /\ desc \in Description
  BY DEF InstallTypeOK
<1> USE JobsHaveFields DEF Direction, Same, Present, Loc, Working, Dumped
<1>1. CASE Decide
  BY <1>0, <1>1, DecideStarts
<1>2. CASE Prepare
  BY <1>0, <1>2, PrepareChooses
<1>3. CASE CopyOpen
  BY <1>0, <1>3, GoingOn, OnDisk DEF CopyOpen, Pcs, Content
<1>4. CASE CopyEnd
  BY <1>0, <1>4, Failing, GoingOn, OnDisk DEF CopyEnd, Pcs, Content
<1>5. CASE WriteOpen
  BY <1>0, <1>5, Failing, GoingOn, OnDisk DEF WriteOpen, Pcs, Content
<1>6. CASE WriteGood \/ WriteBad
  BY <1>0, <1>6, GoingOn, OnDisk DEF WriteGood, WriteBad, Written, Pcs, Content
<1>7. CASE WriteFails \/ MoveFails
  BY <1>0, <1>7, Failing DEF WriteFails, MoveFails
<1>8. CASE Check
  BY <1>0, <1>8, Checking DEF Check, Description, Content
<1>9. CASE Finalize
  BY <1>0, <1>9, GoingOn DEF Finalize, Pcs
<1>10. CASE Move
  BY <1>0, <1>10, GoingOn, Moving DEF Move, Pcs, Moved
<1>11. CASE Recover
  BY <1>0, <1>11, GoingOn, Moving DEF Recover, Pcs, Moved
<1>12. CASE EndRun
  BY <1>0, <1>12 DEF EndRun, NoJob
<1>13. CASE Interrupt \/ Flush \/ UNCHANGED vars
  BY <1>0, <1>13 DEF Interrupt, Flush, vars
<1>14. CASE Kill
  BY <1>0, <1>14 DEF Kill, Restarted, NoJob
<1>15. CASE PowerCut
  BY <1>0, <1>15 DEF PowerCut, Restarted, NoJob
<1> QED BY <1>1, <1>2, <1>3, <1>4, <1>5, <1>6, <1>7, <1>8, <1>9, <1>10,
  <1>11, <1>12, <1>13, <1>14, <1>15 DEF Next, Install

\* A job that writes on the target starts from nothing complete and writes nothing old.
LEMMA OnlySpoiltStep ==
  InstallTypeOK /\ Direction /\ Fresh /\ OnlySpoilt /\ [Next]_vars
    => OnlySpoilt'
<1> SUFFICES ASSUME InstallTypeOK, Direction, Fresh, OnlySpoilt, [Next]_vars
             PROVE  OnlySpoilt'
  OBVIOUS
<1>0. job \in Jobs /\ disk \in [Loc -> Content] /\ desc \in Description
  BY DEF InstallTypeOK
<1> USE JobsHaveFields DEF OnlySpoilt, Same, Present, Loc, Direction, Fresh, Working, Careless,
  Complete, Dumped
<1>1. CASE Decide
  BY <1>1, DecideStarts
<1>2. CASE Prepare
  BY <1>0, <1>2, PrepareChooses
<1>3. CASE CopyOpen
  BY <1>0, <1>3, GoingOn, OnDisk DEF CopyOpen, Pcs, Content
<1>4. CASE CopyEnd
  BY <1>0, <1>4, Failing, GoingOn, OnDisk DEF CopyEnd, Pcs, Content
<1>5. CASE WriteOpen
  BY <1>0, <1>5, Failing, GoingOn, OnDisk DEF WriteOpen, Pcs, Content
<1>6. CASE WriteGood \/ WriteBad
  BY <1>0, <1>6, GoingOn, OnDisk DEF WriteGood, WriteBad, Written, Pcs, Content
<1>7. CASE WriteFails \/ MoveFails
  BY <1>0, <1>7, Failing DEF WriteFails, MoveFails
<1>8. CASE Check
  BY <1>0, <1>8, Checking DEF Check, Description, Content
<1>9. CASE Finalize
  BY <1>0, <1>9, GoingOn DEF Finalize, Pcs
<1>10. CASE Move
  BY <1>0, <1>10, GoingOn, Moving DEF Move, Pcs, Moved
<1>11. CASE Recover
  BY <1>0, <1>11, GoingOn, Moving DEF Recover, Pcs, Moved
<1>12. CASE EndRun
  BY <1>0, <1>12 DEF EndRun, NoJob
<1>13. CASE Interrupt \/ Flush \/ UNCHANGED vars
  BY <1>0, <1>13 DEF Interrupt, Flush, vars
<1>14. CASE Kill
  BY <1>0, <1>14 DEF Kill, Restarted, NoJob
<1>15. CASE PowerCut
  BY <1>0, <1>15 DEF PowerCut, Restarted, NoJob
<1> QED BY <1>1, <1>2, <1>3, <1>4, <1>5, <1>6, <1>7, <1>8, <1>9, <1>10,
  <1>11, <1>12, <1>13, <1>14, <1>15 DEF Next, Install

\* A job that starts again after a failure has left nothing complete on the target.
LEMMA FreshStep ==
  InstallTypeOK /\ Direction /\ OnlySpoilt /\ Sources /\ Fresh /\ [Next]_vars
    => Fresh'
<1> SUFFICES ASSUME InstallTypeOK, Direction, OnlySpoilt, Sources, Fresh, [Next]_vars
             PROVE  Fresh'
  OBVIOUS
<1>0. job \in Jobs /\ disk \in [Loc -> Content] /\ desc \in Description
  BY DEF InstallTypeOK
<1> USE JobsHaveFields DEF Fresh, Same, Present, Loc, Direction, OnlySpoilt, Sources, Working,
  Careless, Complete, Dumped
<1>1. CASE Decide
  BY <1>1, DecideStarts
<1>2. CASE Prepare
  BY <1>0, <1>2, PrepareChooses
<1>3. CASE CopyOpen
  BY <1>0, <1>3, GoingOn, OnDisk DEF CopyOpen, Pcs, Content
<1>4. CASE CopyEnd
  BY <1>0, <1>4, Failing, GoingOn, OnDisk DEF CopyEnd, Pcs, Content
<1>5. CASE WriteOpen
  BY <1>0, <1>5, Failing, GoingOn, OnDisk DEF WriteOpen, Pcs, Content
<1>6. CASE WriteGood \/ WriteBad
  BY <1>0, <1>6, GoingOn, OnDisk DEF WriteGood, WriteBad, Written, Pcs, Content
<1>7. CASE WriteFails \/ MoveFails
  BY <1>0, <1>7, Failing DEF WriteFails, MoveFails
<1>8. CASE Check
  BY <1>0, <1>8, Checking DEF Check, Description, Content
<1>9. CASE Finalize
  BY <1>0, <1>9, GoingOn DEF Finalize, Pcs
<1>10. CASE Move
  BY <1>0, <1>10, GoingOn, Moving DEF Move, Pcs, Moved
<1>11. CASE Recover
  BY <1>0, <1>11, GoingOn, Moving DEF Recover, Pcs, Moved
<1>12. CASE EndRun
  BY <1>0, <1>12 DEF EndRun, NoJob
<1>13. CASE Interrupt \/ Flush \/ UNCHANGED vars
  BY <1>0, <1>13 DEF Interrupt, Flush, vars
<1>14. CASE Kill
  BY <1>0, <1>14 DEF Kill, Restarted, NoJob
<1>15. CASE PowerCut
  BY <1>0, <1>15 DEF PowerCut, Restarted, NoJob
<1> QED BY <1>1, <1>2, <1>3, <1>4, <1>5, <1>6, <1>7, <1>8, <1>9, <1>10,
  <1>11, <1>12, <1>13, <1>14, <1>15 DEF Next, Install

\* Between the check and the move nothing writes to the new content.
LEMMA VerifiedStep ==
  InstallTypeOK /\ Direction /\ Verified /\ [Next]_vars
    => Verified'
<1> SUFFICES ASSUME InstallTypeOK, Direction, Verified, [Next]_vars
             PROVE  Verified'
  OBVIOUS
<1>0. job \in Jobs /\ disk \in [Loc -> Content] /\ desc \in Description
  BY DEF InstallTypeOK
<1> USE JobsHaveFields DEF Verified, Same, Present, Loc, Direction, Working
<1>1. CASE Decide
  BY <1>0, <1>1 DEF Decide, DecideAs, Wanted, NoJob
<1>2. CASE Prepare
  BY <1>0, <1>2, GoingOn DEF Prepare, Jobs, Pcs
<1>3. CASE CopyOpen
  BY <1>0, <1>3, GoingOn, OnDisk DEF CopyOpen, Pcs, Content
<1>4. CASE CopyEnd
  BY <1>0, <1>4, Failing, GoingOn, OnDisk DEF CopyEnd, Pcs, Content
<1>5. CASE WriteOpen
  BY <1>0, <1>5, Failing, GoingOn, OnDisk DEF WriteOpen, Pcs, Content
<1>6. CASE WriteGood \/ WriteBad
  BY <1>0, <1>6, GoingOn, OnDisk DEF WriteGood, WriteBad, Written, Pcs, Content
<1>7. CASE WriteFails \/ MoveFails
  BY <1>0, <1>7, Failing DEF WriteFails, MoveFails
<1>8. CASE Check
  BY <1>0, <1>8, Checking DEF Check, Description, Content
<1>9. CASE Finalize
  BY <1>0, <1>9, GoingOn DEF Finalize, Pcs
<1>10. CASE Move
  BY <1>0, <1>10, GoingOn, Moving DEF Move, Pcs, Moved
<1>11. CASE Recover
  BY <1>0, <1>11, GoingOn, Moving DEF Recover, Pcs, Moved
<1>12. CASE EndRun
  BY <1>0, <1>12 DEF EndRun, NoJob
<1>13. CASE Interrupt \/ Flush \/ UNCHANGED vars
  BY <1>0, <1>13 DEF Interrupt, Flush, vars
<1>14. CASE Kill
  BY <1>0, <1>14 DEF Kill, Restarted, NoJob
<1>15. CASE PowerCut
  BY <1>0, <1>15 DEF PowerCut, Restarted, NoJob
<1> QED BY <1>1, <1>2, <1>3, <1>4, <1>5, <1>6, <1>7, <1>8, <1>9, <1>10,
  <1>11, <1>12, <1>13, <1>14, <1>15 DEF Next, Install

\* A recorded file that is installed is left alone by the decision of the index.
LEMMA RecordedIsIdleStep ==
  InstallTypeOK /\ Verified /\ RecordedIsIdle /\ [Next]_vars
    => RecordedIsIdle'
<1> SUFFICES ASSUME InstallTypeOK, Verified, RecordedIsIdle, [Next]_vars
             PROVE  RecordedIsIdle'
  OBVIOUS
<1>0. job \in Jobs /\ disk \in [Loc -> Content] /\ desc \in Description
  BY DEF InstallTypeOK
<1> USE JobsHaveFields DEF RecordedIsIdle, Same, Present, Loc, Verified, Working
<1>1. CASE Decide
  <2>1. UNCHANGED <<desc, disk, loose, cut>> /\ (job' # job => disk["target"] # "new" \/ ~Present("target"))
    BY <1>1 DEF Decide, DecideAs
  <2>2. CASE job' = job
    BY <1>0, <1>1, <2>1, <2>2 DEF Decide, DecideAs, Wanted, NoJob
  <2>3. CASE job' # job
    BY <1>0, <1>1, <2>1, <2>3 DEF Decide, DecideAs, Wanted, NoJob
  <2> QED
    BY <2>2, <2>3
<1>2. CASE Prepare
  BY <1>0, <1>2, GoingOn DEF Prepare, Jobs, Pcs
<1>3. CASE CopyOpen
  BY <1>0, <1>3, GoingOn, OnDisk DEF CopyOpen, Pcs, Content
<1>4. CASE CopyEnd
  BY <1>0, <1>4, Failing, GoingOn, OnDisk DEF CopyEnd, Pcs, Content
<1>5. CASE WriteOpen
  BY <1>0, <1>5, Failing, GoingOn, OnDisk DEF WriteOpen, Pcs, Content
<1>6. CASE WriteGood \/ WriteBad
  BY <1>0, <1>6, GoingOn, OnDisk DEF WriteGood, WriteBad, Written, Pcs, Content
<1>7. CASE WriteFails \/ MoveFails
  BY <1>0, <1>7, Failing DEF WriteFails, MoveFails
<1>8. CASE Check
  BY <1>0, <1>8, Checking DEF Check, Description, Content
<1>9. CASE Finalize
  BY <1>0, <1>9, GoingOn DEF Finalize, Pcs
<1>10. CASE Move
  BY <1>0, <1>10, GoingOn, Moving DEF Move, Pcs, Moved
<1>11. CASE Recover
  BY <1>0, <1>11, GoingOn, Moving DEF Recover, Pcs, Moved
<1>12. CASE EndRun
  BY <1>0, <1>12 DEF EndRun, NoJob
<1>13. CASE Interrupt \/ Flush \/ UNCHANGED vars
  BY <1>0, <1>13 DEF Interrupt, Flush, vars
<1>14. CASE Kill
  BY <1>0, <1>14 DEF Kill, Restarted, NoJob
<1>15. CASE PowerCut
  BY <1>0, <1>15 DEF PowerCut, Restarted, NoJob
<1> QED BY <1>1, <1>2, <1>3, <1>4, <1>5, <1>6, <1>7, <1>8, <1>9, <1>10,
  <1>11, <1>12, <1>13, <1>14, <1>15 DEF Next, Install

\* Only what was flushed gets to the check of a download.
LEMMA FlushedStep ==
  InstallTypeOK /\ Direction /\ Flushed /\ [Next]_vars
    => Flushed'
<1> SUFFICES ASSUME InstallTypeOK, Direction, Flushed, [Next]_vars
             PROVE  Flushed'
  OBVIOUS
<1>0. job \in Jobs /\ disk \in [Loc -> Content] /\ desc \in Description
  BY DEF InstallTypeOK
<1> USE JobsHaveFields DEF Flushed, Same, Present, Loc, Direction, Working
<1>1. CASE Decide
  BY <1>0, <1>1 DEF Decide, DecideAs, Wanted, NoJob
<1>2. CASE Prepare
  BY <1>0, <1>2, GoingOn DEF Prepare, Jobs, Pcs
<1>3. CASE CopyOpen
  BY <1>0, <1>3, GoingOn, OnDisk DEF CopyOpen, Pcs, Content
<1>4. CASE CopyEnd
  BY <1>0, <1>4, Failing, GoingOn, OnDisk DEF CopyEnd, Pcs, Content
<1>5. CASE WriteOpen
  BY <1>0, <1>5, Failing, GoingOn, OnDisk DEF WriteOpen, Pcs, Content
<1>6. CASE WriteGood \/ WriteBad
  BY <1>0, <1>6, GoingOn, OnDisk DEF WriteGood, WriteBad, Written, Pcs, Content
<1>7. CASE WriteFails \/ MoveFails
  BY <1>0, <1>7, Failing DEF WriteFails, MoveFails
<1>8. CASE Check
  BY <1>0, <1>8, Checking DEF Check, Description, Content
<1>9. CASE Finalize
  BY <1>0, <1>9, GoingOn DEF Finalize, Pcs
<1>10. CASE Move
  BY <1>0, <1>10, GoingOn, Moving DEF Move, Pcs, Moved
<1>11. CASE Recover
  BY <1>0, <1>11, GoingOn, Moving DEF Recover, Pcs, Moved
<1>12. CASE EndRun
  BY <1>0, <1>12 DEF EndRun, NoJob
<1>13. CASE Interrupt \/ Flush \/ UNCHANGED vars
  BY <1>0, <1>13 DEF Interrupt, Flush, vars
<1>14. CASE Kill
  BY <1>0, <1>14 DEF Kill, Restarted, NoJob
<1>15. CASE PowerCut
  BY <1>0, <1>15 DEF PowerCut, Restarted, NoJob
<1> QED BY <1>1, <1>2, <1>3, <1>4, <1>5, <1>6, <1>7, <1>8, <1>9, <1>10,
  <1>11, <1>12, <1>13, <1>14, <1>15 DEF Next, Install

\* A job becomes a download at the check, and never an extraction again.
LEMMA SourcesStep ==
  InstallTypeOK /\ Sources /\ [Next]_vars
    => Sources'
<1> SUFFICES ASSUME InstallTypeOK, Sources, [Next]_vars
             PROVE  Sources'
  OBVIOUS
<1>0. job \in Jobs /\ disk \in [Loc -> Content] /\ desc \in Description
  BY DEF InstallTypeOK
<1> USE JobsHaveFields DEF Sources, Same, Present, Loc, Working, Zipped, Dumped
<1>1. CASE Decide
  BY <1>0, <1>1 DEF Decide, DecideAs, Wanted, NoJob
<1>2. CASE Prepare
  BY <1>0, <1>2, PrepareChooses
<1>3. CASE CopyOpen
  BY <1>0, <1>3, GoingOn, OnDisk DEF CopyOpen, Pcs, Content
<1>4. CASE CopyEnd
  BY <1>0, <1>4, Failing, GoingOn, OnDisk DEF CopyEnd, Pcs, Content
<1>5. CASE WriteOpen
  BY <1>0, <1>5, Failing, GoingOn, OnDisk DEF WriteOpen, Pcs, Content
<1>6. CASE WriteGood \/ WriteBad
  BY <1>0, <1>6, GoingOn, OnDisk DEF WriteGood, WriteBad, Written, Pcs, Content
<1>7. CASE WriteFails \/ MoveFails
  BY <1>0, <1>7, Failing DEF WriteFails, MoveFails
<1>8. CASE Check
  BY <1>0, <1>8, Checking DEF Check, Description, Content
<1>9. CASE Finalize
  BY <1>0, <1>9, GoingOn DEF Finalize, Pcs
<1>10. CASE Move
  BY <1>0, <1>10, GoingOn, Moving DEF Move, Pcs, Moved
<1>11. CASE Recover
  BY <1>0, <1>11, GoingOn, Moving DEF Recover, Pcs, Moved
<1>12. CASE EndRun
  BY <1>0, <1>12 DEF EndRun, NoJob
<1>13. CASE Interrupt \/ Flush \/ UNCHANGED vars
  BY <1>0, <1>13 DEF Interrupt, Flush, vars
<1>14. CASE Kill
  BY <1>0, <1>14 DEF Kill, Restarted, NoJob
<1>15. CASE PowerCut
  BY <1>0, <1>15 DEF PowerCut, Restarted, NoJob
<1> QED BY <1>1, <1>2, <1>3, <1>4, <1>5, <1>6, <1>7, <1>8, <1>9, <1>10,
  <1>11, <1>12, <1>13, <1>14, <1>15 DEF Next, Install

\* The copies are decided by what is there.
LEMMA CopyFindsOldStep ==
  InstallTypeOK /\ CopyFindsOld /\ [Next]_vars
    => CopyFindsOld'
<1> SUFFICES ASSUME InstallTypeOK, CopyFindsOld, [Next]_vars
             PROVE  CopyFindsOld'
  OBVIOUS
<1>0. job \in Jobs /\ disk \in [Loc -> Content] /\ desc \in Description
  BY DEF InstallTypeOK
<1> USE JobsHaveFields DEF CopyFindsOld, Same, Present, Loc, Working
<1>1. CASE Decide
  BY <1>0, <1>1 DEF Decide, DecideAs, Wanted, NoJob
<1>2. CASE Prepare
  BY <1>0, <1>2, GoingOn DEF Prepare, Jobs, Pcs
<1>3. CASE CopyOpen
  BY <1>0, <1>3, GoingOn, OnDisk DEF CopyOpen, Pcs, Content
<1>4. CASE CopyEnd
  BY <1>0, <1>4, Failing, GoingOn, OnDisk DEF CopyEnd, Pcs, Content
<1>5. CASE WriteOpen
  BY <1>0, <1>5, Failing, GoingOn, OnDisk DEF WriteOpen, Pcs, Content
<1>6. CASE WriteGood \/ WriteBad
  BY <1>0, <1>6, GoingOn, OnDisk DEF WriteGood, WriteBad, Written, Pcs, Content
<1>7. CASE WriteFails \/ MoveFails
  BY <1>0, <1>7, Failing DEF WriteFails, MoveFails
<1>8. CASE Check
  BY <1>0, <1>8, Checking DEF Check, Description, Content
<1>9. CASE Finalize
  BY <1>0, <1>9, GoingOn DEF Finalize, Pcs
<1>10. CASE Move
  BY <1>0, <1>10, GoingOn, Moving DEF Move, Pcs, Moved
<1>11. CASE Recover
  BY <1>0, <1>11, GoingOn, Moving DEF Recover, Pcs, Moved
<1>12. CASE EndRun
  BY <1>0, <1>12 DEF EndRun, NoJob
<1>13. CASE Interrupt \/ Flush \/ UNCHANGED vars
  BY <1>0, <1>13 DEF Interrupt, Flush, vars
<1>14. CASE Kill
  BY <1>0, <1>14 DEF Kill, Restarted, NoJob
<1>15. CASE PowerCut
  BY <1>0, <1>15 DEF PowerCut, Restarted, NoJob
<1> QED BY <1>1, <1>2, <1>3, <1>4, <1>5, <1>6, <1>7, <1>8, <1>9, <1>10,
  <1>11, <1>12, <1>13, <1>14, <1>15 DEF Next, Install

\* A temporary file is chosen for a target that is there, and nothing removes it.
LEMMA TempReplacesStep ==
  InstallTypeOK /\ Direction /\ KnownIsThere /\ Sources /\ OldIsThere /\ TempReplaces /\ [Next]_vars
    => TempReplaces'
<1> SUFFICES ASSUME InstallTypeOK, Direction, KnownIsThere, Sources, OldIsThere, TempReplaces,
                    [Next]_vars
             PROVE  TempReplaces'
  OBVIOUS
<1>0. job \in Jobs /\ disk \in [Loc -> Content] /\ desc \in Description
  BY DEF InstallTypeOK
<1> USE JobsHaveFields DEF TempReplaces, Same, Present, Loc, Direction, KnownIsThere, Sources,
  OldIsThere, Working, Zipped, Dumped
<1>1. CASE Decide
  BY <1>0, <1>1 DEF Decide, DecideAs, Wanted, NoJob
<1>2. CASE Prepare
  BY <1>0, <1>2, PrepareChooses
<1>3. CASE CopyOpen
  BY <1>0, <1>3, GoingOn, OnDisk DEF CopyOpen, Pcs, Content
<1>4. CASE CopyEnd
  BY <1>0, <1>4, Failing, GoingOn, OnDisk DEF CopyEnd, Pcs, Content
<1>5. CASE WriteOpen
  BY <1>0, <1>5, Failing, GoingOn, OnDisk DEF WriteOpen, Pcs, Content
<1>6. CASE WriteGood \/ WriteBad
  BY <1>0, <1>6, GoingOn, OnDisk DEF WriteGood, WriteBad, Written, Pcs, Content
<1>7. CASE WriteFails \/ MoveFails
  BY <1>0, <1>7, Failing DEF WriteFails, MoveFails
<1>8. CASE Check
  BY <1>0, <1>8, Checking DEF Check, Description, Content
<1>9. CASE Finalize
  BY <1>0, <1>9, GoingOn DEF Finalize, Pcs
<1>10. CASE Move
  BY <1>0, <1>10, GoingOn, Moving DEF Move, Pcs, Moved
<1>11. CASE Recover
  BY <1>0, <1>11, GoingOn, Moving DEF Recover, Pcs, Moved
<1>12. CASE EndRun
  BY <1>0, <1>12 DEF EndRun, NoJob
<1>13. CASE Interrupt \/ Flush \/ UNCHANGED vars
  BY <1>0, <1>13 DEF Interrupt, Flush, vars
<1>14. CASE Kill
  BY <1>0, <1>14 DEF Kill, Restarted, NoJob
<1>15. CASE PowerCut
  BY <1>0, <1>15 DEF PowerCut, Restarted, NoJob
<1> QED BY <1>1, <1>2, <1>3, <1>4, <1>5, <1>6, <1>7, <1>8, <1>9, <1>10,
  <1>11, <1>12, <1>13, <1>14, <1>15 DEF Next, Install

\* A download that found an old version does not touch it before the move.
LEMMA OldIsThereStep ==
  InstallTypeOK /\ Direction /\ KnownIsThere /\ Sources /\ OldIsThere /\ [Next]_vars
    => OldIsThere'
<1> SUFFICES ASSUME InstallTypeOK, Direction, KnownIsThere, Sources, OldIsThere, [Next]_vars
             PROVE  OldIsThere'
  OBVIOUS
<1>0. job \in Jobs /\ disk \in [Loc -> Content] /\ desc \in Description
  BY DEF InstallTypeOK
<1> USE JobsHaveFields DEF OldIsThere, Same, Present, Loc, Direction, KnownIsThere, Sources,
  Working, Zipped, Dumped
<1>1. CASE Decide
  BY <1>0, <1>1 DEF Decide, DecideAs, Wanted, NoJob
<1>2. CASE Prepare
  BY <1>0, <1>2, GoingOn DEF Prepare, Jobs, Pcs
<1>3. CASE CopyOpen
  BY <1>0, <1>3, GoingOn, OnDisk DEF CopyOpen, Pcs, Content
<1>4. CASE CopyEnd
  BY <1>0, <1>4, Failing, GoingOn, OnDisk DEF CopyEnd, Pcs, Content
<1>5. CASE WriteOpen
  BY <1>0, <1>5, Failing, GoingOn, OnDisk DEF WriteOpen, Pcs, Content
<1>6. CASE WriteGood \/ WriteBad
  BY <1>0, <1>6, GoingOn, OnDisk DEF WriteGood, WriteBad, Written, Pcs, Content
<1>7. CASE WriteFails \/ MoveFails
  BY <1>0, <1>7, Failing DEF WriteFails, MoveFails
<1>8. CASE Check
  BY <1>0, <1>8, Checking DEF Check, Description, Content
<1>9. CASE Finalize
  BY <1>0, <1>9, GoingOn DEF Finalize, Pcs
<1>10. CASE Move
  BY <1>0, <1>10, GoingOn, Moving DEF Move, Pcs, Moved
<1>11. CASE Recover
  BY <1>0, <1>11, GoingOn, Moving DEF Recover, Pcs, Moved
<1>12. CASE EndRun
  BY <1>0, <1>12 DEF EndRun, NoJob
<1>13. CASE Interrupt \/ Flush \/ UNCHANGED vars
  BY <1>0, <1>13 DEF Interrupt, Flush, vars
<1>14. CASE Kill
  BY <1>0, <1>14 DEF Kill, Restarted, NoJob
<1>15. CASE PowerCut
  BY <1>0, <1>15 DEF PowerCut, Restarted, NoJob
<1> QED BY <1>1, <1>2, <1>3, <1>4, <1>5, <1>6, <1>7, <1>8, <1>9, <1>10,
  <1>11, <1>12, <1>13, <1>14, <1>15 DEF Next, Install

\* A backup is made of a target that is there, and a Zipped target is never removed.
LEMMA LooseBackupStep ==
  InstallTypeOK /\ CopyFindsOld /\ Direction /\ KnownIsThere /\ Verified /\ Sources /\ LooseBackup /\ [Next]_vars
    => LooseBackup'
<1> SUFFICES ASSUME InstallTypeOK, CopyFindsOld, Direction, KnownIsThere, Verified, Sources,
                    LooseBackup, [Next]_vars
             PROVE  LooseBackup'
  OBVIOUS
<1>0. job \in Jobs /\ disk \in [Loc -> Content] /\ desc \in Description
  BY DEF InstallTypeOK
<1> USE JobsHaveFields DEF LooseBackup, Same, Present, Loc, CopyFindsOld, Direction, KnownIsThere,
  Verified, Sources, Working, Zipped, Dumped
<1>1. CASE Decide
  BY <1>0, <1>1 DEF Decide, DecideAs, Wanted, NoJob
<1>2. CASE Prepare
  BY <1>0, <1>2, GoingOn DEF Prepare, Jobs, Pcs
<1>3. CASE CopyOpen
  BY <1>0, <1>3, GoingOn, OnDisk DEF CopyOpen, Pcs, Content
<1>4. CASE CopyEnd
  BY <1>0, <1>4, Failing, GoingOn, OnDisk DEF CopyEnd, Pcs, Content
<1>5. CASE WriteOpen
  BY <1>0, <1>5, Failing, GoingOn, OnDisk DEF WriteOpen, Pcs, Content
<1>6. CASE WriteGood \/ WriteBad
  BY <1>0, <1>6, GoingOn, OnDisk DEF WriteGood, WriteBad, Written, Pcs, Content
<1>7. CASE WriteFails \/ MoveFails
  BY <1>0, <1>7, Failing DEF WriteFails, MoveFails
<1>8. CASE Check
  BY <1>0, <1>8, Checking DEF Check, Description, Content
<1>9. CASE Finalize
  BY <1>0, <1>9, GoingOn DEF Finalize, Pcs
<1>10. CASE Move
  BY <1>0, <1>10, GoingOn, Moving DEF Move, Pcs, Moved
<1>11. CASE Recover
  BY <1>0, <1>11, GoingOn, Moving DEF Recover, Pcs, Moved
<1>12. CASE EndRun
  BY <1>0, <1>12 DEF EndRun, NoJob
<1>13. CASE Interrupt \/ Flush \/ UNCHANGED vars
  BY <1>0, <1>13 DEF Interrupt, Flush, vars
<1>14. CASE Kill
  BY <1>0, <1>14 DEF Kill, Restarted, NoJob
<1>15. CASE PowerCut
  BY <1>0, <1>15 DEF PowerCut, Restarted, NoJob
<1> QED BY <1>1, <1>2, <1>3, <1>4, <1>5, <1>6, <1>7, <1>8, <1>9, <1>10,
  <1>11, <1>12, <1>13, <1>14, <1>15 DEF Next, Install

\* The same of a temporary file that an earlier run left.
LEMMA LeftTempStep ==
  InstallTypeOK /\ TempReplaces /\ Direction /\ KnownIsThere /\ Verified /\ Sources /\ LeftTemp /\ [Next]_vars
    => LeftTemp'
<1> SUFFICES ASSUME InstallTypeOK, TempReplaces, Direction, KnownIsThere, Verified, Sources,
                    LeftTemp, [Next]_vars
             PROVE  LeftTemp'
  OBVIOUS
<1>0. job \in Jobs /\ disk \in [Loc -> Content] /\ desc \in Description
  BY DEF InstallTypeOK
<1> USE JobsHaveFields DEF LeftTemp, Same, Present, Loc, TempReplaces, Direction, KnownIsThere,
  Verified, Sources, Working, Zipped, Dumped
<1>1. CASE Decide
  BY <1>0, <1>1 DEF Decide, DecideAs, Wanted, NoJob
<1>2. CASE Prepare
  BY <1>0, <1>2, GoingOn DEF Prepare, Jobs, Pcs
<1>3. CASE CopyOpen
  BY <1>0, <1>3, GoingOn, OnDisk DEF CopyOpen, Pcs, Content
<1>4. CASE CopyEnd
  BY <1>0, <1>4, Failing, GoingOn, OnDisk DEF CopyEnd, Pcs, Content
<1>5. CASE WriteOpen
  BY <1>0, <1>5, Failing, GoingOn, OnDisk DEF WriteOpen, Pcs, Content
<1>6. CASE WriteGood \/ WriteBad
  BY <1>0, <1>6, GoingOn, OnDisk DEF WriteGood, WriteBad, Written, Pcs, Content
<1>7. CASE WriteFails \/ MoveFails
  BY <1>0, <1>7, Failing DEF WriteFails, MoveFails
<1>8. CASE Check
  BY <1>0, <1>8, Checking DEF Check, Description, Content
<1>9. CASE Finalize
  BY <1>0, <1>9, GoingOn DEF Finalize, Pcs
<1>10. CASE Move
  BY <1>0, <1>10, GoingOn, Moving DEF Move, Pcs, Moved
<1>11. CASE Recover
  BY <1>0, <1>11, GoingOn, Moving DEF Recover, Pcs, Moved
<1>12. CASE EndRun
  BY <1>0, <1>12 DEF EndRun, NoJob
<1>13. CASE Interrupt \/ Flush \/ UNCHANGED vars
  BY <1>0, <1>13 DEF Interrupt, Flush, vars
<1>14. CASE Kill
  BY <1>0, <1>14 DEF Kill, Restarted, NoJob
<1>15. CASE PowerCut
  BY <1>0, <1>15 DEF PowerCut, Restarted, NoJob
<1> QED BY <1>1, <1>2, <1>3, <1>4, <1>5, <1>6, <1>7, <1>8, <1>9, <1>10,
  <1>11, <1>12, <1>13, <1>14, <1>15 DEF Next, Install

\* What is recovered after a bad extraction is not the file that failed.
LEMMA BadTempStep ==
  InstallTypeOK /\ Direction /\ KnownIsThere /\ Verified /\ Sources /\ BadTemp /\ [Next]_vars
    => BadTemp'
<1> SUFFICES ASSUME InstallTypeOK, Direction, KnownIsThere, Verified, Sources, BadTemp, [Next]_vars
             PROVE  BadTemp'
  OBVIOUS
<1>0. job \in Jobs /\ disk \in [Loc -> Content] /\ desc \in Description
  BY DEF InstallTypeOK
<1> USE JobsHaveFields DEF BadTemp, Same, Present, Loc, Direction, KnownIsThere, Verified, Sources,
  Working, Zipped, Dumped
<1>1. CASE Decide
  BY <1>0, <1>1 DEF Decide, DecideAs, Wanted, NoJob
<1>2. CASE Prepare
  BY <1>0, <1>2, GoingOn DEF Prepare, Jobs, Pcs
<1>3. CASE CopyOpen
  BY <1>0, <1>3, GoingOn, OnDisk DEF CopyOpen, Pcs, Content
<1>4. CASE CopyEnd
  BY <1>0, <1>4, Failing, GoingOn, OnDisk DEF CopyEnd, Pcs, Content
<1>5. CASE WriteOpen
  BY <1>0, <1>5, Failing, GoingOn, OnDisk DEF WriteOpen, Pcs, Content
<1>6. CASE WriteGood \/ WriteBad
  BY <1>0, <1>6, GoingOn, OnDisk DEF WriteGood, WriteBad, Written, Pcs, Content
<1>7. CASE WriteFails \/ MoveFails
  BY <1>0, <1>7, Failing DEF WriteFails, MoveFails
<1>8. CASE Check
  BY <1>0, <1>8, Checking DEF Check, Description, Content
<1>9. CASE Finalize
  BY <1>0, <1>9, GoingOn DEF Finalize, Pcs
<1>10. CASE Move
  BY <1>0, <1>10, GoingOn, Moving DEF Move, Pcs, Moved
<1>11. CASE Recover
  BY <1>0, <1>11, GoingOn, Moving DEF Recover, Pcs, Moved
<1>12. CASE EndRun
  BY <1>0, <1>12 DEF EndRun, NoJob
<1>13. CASE Interrupt \/ Flush \/ UNCHANGED vars
  BY <1>0, <1>13 DEF Interrupt, Flush, vars
<1>14. CASE Kill
  BY <1>0, <1>14 DEF Kill, Restarted, NoJob
<1>15. CASE PowerCut
  BY <1>0, <1>15 DEF PowerCut, Restarted, NoJob
<1> QED BY <1>1, <1>2, <1>3, <1>4, <1>5, <1>6, <1>7, <1>8, <1>9, <1>10,
  <1>11, <1>12, <1>13, <1>14, <1>15 DEF Next, Install

-----------------------------------------------------------------------------
(* 4. The theorems *)

\* Nothing is under way at first.
LEMMA InstallInit == Init => InstallInv
<1> SUFFICES ASSUME Init PROVE InstallInv
  OBVIOUS
<1>1. InstallTypeOK
  <2>1. 0 \in 0..MaxCrashes
    BY InstallAssumption
  <2>2. disk \in [Loc -> Content]
    BY DEF Init, Content
  <2> QED BY <2>1, <2>2, NoJobIsOne, InstallAssumption DEF Init, InstallTypeOK
<1>2. job.pc = "idle" /\ job.again = FALSE /\ job.via = "fetch" /\ job.exists = FALSE
  BY DEF Init, NoJob
<1> QED BY <1>1, <1>2 DEF Init, InstallInv, KnownIsThere, Direction, OnlySpoilt, Fresh, Verified,
  RecordedIsIdle, Flushed, Sources, CopyFindsOld, TempReplaces, OldIsThere, LooseBackup, LeftTemp,
  BadTemp, Working, Present

\* The parts of the invariant together are kept by every step.
LEMMA InstallStep == InstallInv /\ [Next]_vars => InstallInv'
BY InstallTypeStep, KnownIsThereStep, DirectionStep, OnlySpoiltStep, FreshStep, VerifiedStep,
  RecordedIsIdleStep, FlushedStep, SourcesStep, CopyFindsOldStep, TempReplacesStep, OldIsThereStep,
  LooseBackupStep, LeftTempStep, BadTempStep
DEF InstallInv

\* The inductive invariant holds in every behaviour.
THEOREM InstallInvariant == Spec => []InstallInv
BY InstallInit, InstallStep, PTL DEF Spec

\* The variables have their types in every behaviour (FileInstall!InstallTypeOK).
THEOREM InstallTyped == Spec => []InstallTypeOK
<1>1. InstallInv => InstallTypeOK BY DEF InstallInv
<1> QED BY <1>1, InstallInvariant, PTL

\* What the store vouches for is on the disk until a power cut spoils it: whatever
\* fails, is cancelled or killed on the way, no later job touches a recorded file.
THEOREM RecordedStaysInstalled == Spec => []RecordedIsInstalled
<1>1. InstallInv => RecordedIsInstalled BY DEF InstallInv, RecordedIsIdle, RecordedIsInstalled
<1> QED BY <1>1, InstallInvariant, PTL

\* The step behind GoodFileIsKept: of the steps that change the target, those that
\* write find nothing complete, and the move brings what was verified.
LEMMA GoodFileStep ==
  InstallInv /\ [Next]_vars
    => [Complete("target") /\ ~Careless /\ crashes' = crashes => disk'["target"] \in {"old", "new"}]_vars
<1> SUFFICES ASSUME InstallInv, Next, Complete("target"), ~Careless, crashes' = crashes
             PROVE  disk'["target"] \in {"old", "new"}
  BY DEF vars
<1>0. /\ InstallTypeOK /\ job \in Jobs /\ disk \in [Loc -> Content]
      /\ OnlySpoilt /\ Verified /\ Direction
  BY DEF InstallInv, InstallTypeOK
<1> USE <1>0, JobsHaveFields DEF Complete, Loc, Content
<1>1. CASE CopyOpen
  BY <1>1, OnDisk DEF CopyOpen
<1>2. CASE CopyEnd
  BY <1>2, OnDisk DEF CopyEnd
<1>3. CASE WriteOpen
  BY <1>3, OnDisk DEF WriteOpen, OnlySpoilt
<1>4. CASE WriteGood \/ WriteBad
  BY <1>4, OnDisk DEF WriteGood, WriteBad, Written, OnlySpoilt
<1>5. CASE Check
  <2>1. job.pc = "check"
    BY <1>5 DEF Check
  <2> QED BY <1>5, <2>1, Checking DEF OnlySpoilt
<1>6. CASE Move
  BY <1>6, Moving DEF Move, Verified, Direction, Working
<1>7. CASE Recover
  BY <1>7, Moving DEF Recover, Present
<1>8. CASE \/ Decide \/ Prepare \/ WriteFails \/ Finalize \/ MoveFails \/ EndRun
           \/ Interrupt \/ Flush \/ Kill
  BY <1>8 DEF Decide, DecideAs, Wanted, Prepare, WriteFails, Finalize, MoveFails, EndRun, Interrupt, Flush, Kill
<1>9. CASE PowerCut
  BY <1>9, Restarting DEF PowerCut
<1> QED BY <1>1, <1>2, <1>3, <1>4, <1>5, <1>6, <1>7, <1>8, <1>9 DEF Next, Install

\* A complete installed file is never replaced by anything but a complete file, by
\* any step of an update, of its failure, of its recovery or of a killed process.
THEOREM GoodFileIsKept == Spec => GoodFileKept
<1>1. InstallInv /\ [Next]_vars
        => [Complete("target") /\ ~Careless /\ crashes' = crashes
            => disk'["target"] \in {"old", "new"}]_vars
  BY GoodFileStep
<1> QED BY <1>1, InstallInvariant, PTL DEF Spec, GoodFileKept

\* The step behind DownloadIsDurable: only the move and the recovery could bring a
\* content that was not flushed.
LEMMA DurableStep ==
  InstallInv /\ [Next]_vars
    => [job.via = "fetch" /\ job.exists /\ "target" \notin loose => "target" \notin loose']_vars
<1> SUFFICES ASSUME InstallInv, Next, job.via = "fetch", job.exists, "target" \notin loose
             PROVE  "target" \notin loose'
  BY DEF vars
<1>0. /\ InstallTypeOK /\ job \in Jobs /\ Direction /\ Verified /\ Flushed /\ Sources
      /\ OldIsThere /\ LooseBackup /\ LeftTemp /\ BadTemp
  BY DEF InstallInv, InstallTypeOK
<1> USE <1>0, JobsHaveFields DEF Direction, Working, Loc
<1>1. CASE CopyOpen
  BY <1>1 DEF CopyOpen
<1>2. CASE WriteOpen
  BY <1>2, GoingOn DEF WriteOpen
<1>3. CASE WriteGood \/ WriteBad
  BY <1>3 DEF WriteGood, WriteBad, Written
<1>4. CASE Move
  BY <1>4 DEF Move, Moved, Flushed
<1>5. CASE Recover
  \* Nothing is recovered over a file that was there; that of a zip without url is
  \* recovered over nothing only from what was flushed.
  BY <1>5 DEF Recover, Moved, OldIsThere, LooseBackup, LeftTemp, BadTemp, Sources, Present
<1>6. CASE \/ Decide \/ Prepare \/ CopyEnd \/ WriteFails \/ Check \/ Finalize \/ MoveFails \/ EndRun
           \/ Interrupt \/ Flush \/ Kill \/ PowerCut
  BY <1>6 DEF Decide, DecideAs, Wanted, Prepare, CopyEnd, WriteFails, Check, Finalize, MoveFails, EndRun, Interrupt,
    Flush, Kill, PowerCut
<1> QED BY <1>1, <1>2, <1>3, <1>4, <1>5, <1>6 DEF Next, Install

\* The content that a download puts in the place of an older one was flushed before:
\* a power cut at any later moment finds it whole.
THEOREM DownloadIsDurable == Spec => UpdateIsDurable
<1>1. InstallInv /\ [Next]_vars
        => [job.via = "fetch" /\ job.exists /\ "target" \notin loose => "target" \notin loose']_vars
  BY DurableStep
<1> QED BY <1>1, InstallInvariant, PTL DEF Spec, UpdateIsDurable
=============================================================================
