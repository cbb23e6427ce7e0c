----------------------------- MODULE FileInstall -----------------------------
(***************************************************************************)
(* One file of a database on its way to the disk: the decision of the      *)
(* index, the backup copy, the download or the extraction, the validation  *)
(* and the replacement (jobs/file_install.py, fetch_file_worker.py,        *)
(* open_zip_contents_worker.py), what the importer recovers when all tries *)
(* failed, and what a killed process or a power cut leaves behind.         *)
(*                                                                         *)
(* Contents are "old" (complete, of an earlier version), "new" (complete   *)
(* and with the hash of the database), "bad" (complete, another hash),     *)
(* "part" (half written) and "absent".                                     *)
(***************************************************************************)
EXTENDS Naturals, FiniteSets

CONSTANTS
  Descriptions,  \* what the database may say of the file
  MaxTries,      \* tries per job
  MaxCrashes     \* bound: killed processes and power cuts

Loc == {"target", "temp", "backup"}
Content == {"absent", "old", "new", "bad", "part"}
Description == [tmp : BOOLEAN, backup : BOOLEAN, zip : {"none", "members", "whole"}, url : BOOLEAN]

ASSUME InstallAssumption ==
  /\ Descriptions \subseteq Description
  /\ MaxTries \in Nat \ {0} /\ MaxCrashes \in Nat

VARIABLES
  desc,      \* 'tmp', 'backup' and a url are given; it comes in a zip, extracted by
             \* members or as a whole
  disk,      \* location -> content
  loose,     \* locations whose content the kernel has not written yet
  files,     \* FsSharedState._files: the locations that are known as files
  job,       \* the job that installs the file
  recorded,  \* the store has the file with the hash of the database
  stopped,   \* FsSharedState.interrupting_operations
  crashes,   \* killed processes and power cuts so far
  cut        \* a power cut spoilt a content

vars == <<desc, disk, loose, files, job, recorded, stopped, crashes, cut>>

Present(l) == disk[l] # "absent"
Complete(l) == disk[l] \in {"old", "new"}

NoJob == [pc |-> "idle", via |-> "fetch", exists |-> FALSE, again |-> FALSE,
          install |-> "target", tries |-> 0]
Goto(pc) == job' = [job EXCEPT !.pc = pc]

Init ==
  /\ desc \in Descriptions
  /\ disk \in [Loc -> {"absent", "old"}] /\ ~Present("temp")
  /\ Present("backup") => Present("target")
  /\ loose = {} /\ files = {} /\ job = NoJob
  /\ recorded = FALSE /\ stopped = FALSE /\ crashes = 0 /\ cut = FALSE

-----------------------------------------------------------------------------
(* The index of the database is processed *)

\* The file is to be fetched, or extracted.
Wanted(exists) ==
  job' = [NoJob EXCEPT !.pc = "prepare", !.exists = exists,
            !.via = IF desc.zip = "none" THEN "fetch" ELSE "zip"]

\* Faulty variant: what fails the verification is reported and not fetched.
DecideReportsOnly(verify) ==
  /\ job.pc = "idle"
  /\ LET exists == "target" \in files \/ Present("target") IN
       /\ files' = IF exists THEN files \cup {"target"} ELSE files
       /\ IF exists /\ recorded THEN UNCHANGED <<job, recorded>>
          ELSE IF exists /\ disk["target"] = "new"
          THEN recorded' = TRUE /\ UNCHANGED job
          ELSE Wanted(exists) /\ UNCHANGED recorded
  /\ UNCHANGED <<desc, disk, loose, stopped, crashes, cut>>

\* A file that exists is compared by its hash when the store does not vouch for
\* it, or when the run verifies the integrity of all the files.
DecideAs(verify) ==
  /\ job.pc = "idle"
  /\ LET exists == "target" \in files \/ Present("target") IN
       /\ files' = IF exists THEN files \cup {"target"} ELSE files
       /\ IF exists /\ recorded /\ ~verify THEN UNCHANGED <<job, recorded>>
          ELSE IF exists /\ disk["target"] = "new"
          THEN recorded' = TRUE /\ UNCHANGED job
          ELSE Wanted(exists) /\ UNCHANGED recorded
  /\ UNCHANGED <<desc, disk, loose, stopped, crashes, cut>>

Decide == \E verify \in BOOLEAN : DecideAs(verify)

-----------------------------------------------------------------------------
(* The worker *)

\* Faulty variant: one try too many.
FailOnceMore ==
  IF job.tries < MaxTries /\ ~stopped
  THEN job' = [job EXCEPT !.pc = "prepare", !.tries = @ + 1]
  ELSE Goto(IF job.via = "fetch" /\ ~stopped THEN "recover" ELSE "end")

\* An error or an exception of the worker: the job is tried again, unless the
\* tries are over or all jobs were cancelled.  The importer recovers a failed
\* download; a failed extraction as a whole is only reported.
Fail ==
  IF job.tries + 1 < MaxTries /\ ~stopped
  THEN job' = [job EXCEPT !.pc = "prepare", !.tries = @ + 1]
  ELSE Goto(IF job.via = "fetch" /\ ~stopped THEN "recover" ELSE "end")

\* Most members of a zip are wanted: it is dumped over the folder.
Dumped == job.via = "zip" /\ desc.zip = "whole"

\* prepare_file_install.  OpenZipContentsWorker looks again whether the file
\* exists; without a temporary file it is copied before it is written over.
\* A dumped file is not prepared.
Prepare ==
  /\ job.pc = "prepare"
  /\ LET exists == IF job.via = "zip" THEN "target" \in files \/ Present("target")
                   ELSE job.exists
         temp == ~Dumped /\ (desc.tmp \/ exists)
     IN job' = [job EXCEPT
                  !.install = IF temp THEN "temp" ELSE "target",
                  !.pc = IF ~temp /\ ~Dumped /\ desc.backup /\ Present("target")
                         THEN "copy" ELSE "write"]
  /\ UNCHANGED <<desc, disk, loose, files, recorded, stopped, crashes, cut>>

\* FileSystem.copy of the target to the backup: truncated, then filled.
CopyOpen ==
  /\ job.pc \in {"copy", "copyOld"}
  /\ disk' = [disk EXCEPT !["backup"] = "part"] /\ loose' = loose \cup {"backup"}
  /\ Goto(IF job.pc = "copy" THEN "copying" ELSE "copyingOld")
  /\ UNCHANGED <<desc, files, recorded, stopped, crashes, cut>>

CopyEnd ==
  /\ job.pc \in {"copying", "copyingOld"}
  /\ \/ /\ disk' = [disk EXCEPT !["backup"] = disk["target"]]
        /\ files' = files \cup {"backup"}
        /\ Goto(IF job.pc = "copying" THEN "write" ELSE "move")
     \/ Fail /\ UNCHANGED <<disk, files>>
  /\ UNCHANGED <<desc, loose, recorded, stopped, crashes, cut>>

\* The connection or the archive fails before the file is opened, the member
\* is not in the archive, or the file is opened and truncated.
WriteOpen ==
  /\ job.pc = "write"
  /\ \/ Fail /\ UNCHANGED <<disk, loose>>
     \/ job.via = "zip" /\ Goto("check") /\ UNCHANGED <<disk, loose>>
     \/ /\ job.via = "zip" /\ stopped => Dumped
        /\ disk' = [disk EXCEPT ![job.install] = "part"]
        /\ loose' = loose \cup {job.install}
        /\ Goto("writing")
  /\ UNCHANGED <<desc, files, recorded, stopped, crashes, cut>>

\* Faulty variant: a download is never flushed.
WrittenUnflushed(c) ==
  /\ job.pc = "writing" /\ (job.via = "fetch" => ~stopped)
  /\ disk' = [disk EXCEPT ![job.install] = c]
  /\ Goto("check")
  /\ UNCHANGED <<desc, loose, files, recorded, stopped, crashes, cut>>

\* write_incoming_stream, or unzip_contents for one member: all is written, and
\* a download to a temporary file is flushed to the medium.
Written(c) ==
  /\ job.pc = "writing" /\ (job.via = "fetch" => ~stopped)
  /\ disk' = [disk EXCEPT ![job.install] = c]
  /\ loose' = IF job.via = "fetch" /\ job.install = "temp" THEN loose \ {"temp"} ELSE loose
  /\ Goto("check")
  /\ UNCHANGED <<desc, files, recorded, stopped, crashes, cut>>

WriteGood == Written("new")
WriteBad == Written("bad")

\* A stall, an error or the cancellation while it is written.
WriteFails ==
  /\ job.pc = "writing" /\ Fail
  /\ UNCHANGED <<desc, disk, loose, files, recorded, stopped, crashes, cut>>

\* Faulty variant: the installed file is removed together with a bad download.
CheckRemovesTarget ==
  /\ job.pc = "check"
  /\ IF disk[job.install] = "new" THEN Goto("finalize") /\ UNCHANGED <<disk, files>>
     ELSE Fail /\ disk' = [disk EXCEPT ![job.install] = "absent", !["target"] = "absent"]
               /\ files' = files \ {job.install, "target"}
  /\ UNCHANGED <<desc, loose, recorded, stopped, crashes, cut>>

\* Faulty variant: what was written is not compared with the hash.
CheckNothing ==
  /\ job.pc = "check" /\ Goto("finalize")
  /\ UNCHANGED <<desc, disk, loose, files, recorded, stopped, crashes, cut>>

\* The hash is compared.  What is wrong is removed, unless that fails; an
\* extracted file is left when it is the target.  A file of a zip that has a
\* url is downloaded instead, by a job that takes it for a new file; another
\* one is recovered as if it had existed.
Check ==
  /\ job.pc = "check"
  /\ IF disk[job.install] = "new"
     THEN Goto("finalize") /\ UNCHANGED <<disk, files>>
     ELSE /\ \/ UNCHANGED <<disk, files>>
             \/ /\ Present(job.install) /\ (job.via = "zip" => job.install = "temp")
                /\ disk' = [disk EXCEPT ![job.install] = "absent"]
                /\ files' = files \ {job.install}
          /\ IF job.via = "fetch" THEN Fail
             ELSE job' = [job EXCEPT !.pc = IF desc.url THEN "prepare" ELSE "recover",
                                     !.via = "fetch", !.again = TRUE, !.exists = ~desc.url,
                                     !.tries = 0]
  /\ UNCHANGED <<desc, loose, recorded, stopped, crashes, cut>>

\* finalize_file_install.
Finalize ==
  /\ job.pc = "finalize"
  /\ Goto(IF job.install = "target" THEN "installed"
          ELSE IF desc.backup /\ Present("target") THEN "copyOld" ELSE "move")
  /\ UNCHANGED <<desc, disk, loose, files, recorded, stopped, crashes, cut>>

\* FileSystem.move, one os.replace.
Moved(from) ==
  /\ disk' = [disk EXCEPT !["target"] = disk[from], ![from] = "absent"]
  /\ loose' = IF from \in loose THEN (loose \ {from}) \cup {"target"} ELSE loose \ {"target"}
  /\ files' = (files \ {from}) \cup {"target"}

Move ==
  /\ job.pc = "move" /\ Moved("temp") /\ Goto("installed")
  /\ UNCHANGED <<desc, recorded, stopped, crashes, cut>>

MoveFails ==
  /\ job.pc = "move" /\ Fail
  /\ UNCHANGED <<desc, disk, loose, files, recorded, stopped, crashes, cut>>

-----------------------------------------------------------------------------
(* The importer *)

\* _recover_failed_file_from_backup_or_tmp; then the run ends without the file.
Recover ==
  /\ job.pc = "recover"
  /\ IF job.exists /\ (desc.tmp \/ desc.backup) /\ ~Present("target")
     THEN IF desc.backup /\ Present("backup") THEN Moved("backup")
          ELSE IF disk["temp"] = "new" THEN Moved("temp")
          ELSE UNCHANGED <<disk, loose, files>>
     ELSE UNCHANGED <<disk, loose, files>>
  /\ Goto("end")
  /\ UNCHANGED <<desc, recorded, stopped, crashes, cut>>

\* The store is saved with what was installed, and the process ends.  Later
\* runs know nothing of the files of this one.
EndRun ==
  /\ job.pc \in {"installed", "end"}
  /\ recorded' = (recorded \/ job.pc = "installed")
  /\ files' = {} /\ stopped' = FALSE /\ job' = NoJob
  /\ UNCHANGED <<desc, disk, loose, crashes, cut>>

-----------------------------------------------------------------------------
(* Surroundings *)

\* A signal or a timeout: Interruptions.interrupt.
Interrupt ==
  /\ job.pc # "idle" /\ ~stopped /\ stopped' = TRUE
  /\ UNCHANGED <<desc, disk, loose, files, job, recorded, crashes, cut>>

\* The kernel writes back what it has.
Flush ==
  /\ loose # {} /\ loose' = {}
  /\ UNCHANGED <<desc, disk, files, job, recorded, stopped, crashes, cut>>

Restarted ==
  /\ crashes < MaxCrashes /\ crashes' = crashes + 1
  /\ files' = {} /\ job' = NoJob /\ stopped' = FALSE

Kill ==
  /\ job.pc # "idle" /\ Restarted
  /\ UNCHANGED <<desc, disk, loose, recorded, cut>>

\* Any content that was not written back may be lost.
PowerCut ==
  /\ Restarted
  /\ \E S \in SUBSET loose :
       /\ disk' = [l \in Loc |-> IF l \in S THEN "part" ELSE disk[l]]
       /\ cut' = (cut \/ S # {})
  /\ loose' = {}
  /\ UNCHANGED <<desc, recorded>>

Install ==
  \/ Prepare \/ CopyOpen \/ CopyEnd \/ WriteOpen \/ WriteGood \/ WriteBad
  \/ WriteFails \/ Check \/ Finalize \/ Move \/ MoveFails \/ Recover \/ EndRun

Next == Decide \/ Install \/ Interrupt \/ Flush \/ Kill \/ PowerCut

Spec == Init /\ [][Next]_vars

\* The updater is run again and again, though it need never verify, and what may
\* fail does not fail for ever.
FairSpec ==
  /\ Spec /\ WF_vars(DecideAs(FALSE) \/ Install)
  /\ SF_vars(WriteOpen /\ job'.pc = "writing") /\ SF_vars(WriteGood)
  /\ SF_vars(CopyEnd /\ job'.pc \in {"write", "move"}) /\ SF_vars(Move) /\ SF_vars(EndRun)

-----------------------------------------------------------------------------
(* Properties *)

Pcs == {"idle", "prepare", "copy", "copying", "write", "writing", "check", "finalize",
        "copyOld", "copyingOld", "move", "installed", "recover", "end"}

Jobs == [pc : Pcs, via : {"fetch", "zip"}, exists : BOOLEAN, again : BOOLEAN,
         install : {"target", "temp"}, tries : 0..MaxTries-1]

\* The types of the variables.
InstallTypeOK ==
  /\ desc \in Description /\ disk \in [Loc -> Content]
  /\ loose \subseteq Loc /\ files \subseteq Loc
  /\ job \in Jobs
  /\ recorded \in BOOLEAN /\ stopped \in BOOLEAN /\ cut \in BOOLEAN
  /\ crashes \in 0..MaxCrashes

\* The jobs that write straight on the target: a dump, and the download that
\* follows a bad extraction, which takes the file for a new one.
Careless == Dumped \/ (job.again /\ ~desc.tmp)

\* A complete installed file stays complete: no step of an update, of its
\* failure or of its recovery leaves a half written, a wrong or no file in its
\* place, so none is there whenever the process is killed (a step in which the
\* power is cut may lose what was not flushed).
GoodFileKept ==
  [][Complete("target") /\ ~Careless /\ crashes' = crashes
     => disk'["target"] \in {"old", "new"}]_vars

\* What the store vouches for is on the disk, whatever failed on the way, until
\* a power cut spoils it.
RecordedIsInstalled == recorded /\ ~cut => disk["target"] = "new"

\* An update by download leaves nothing to lose: the new content was flushed
\* before it replaced the old one, which a power cut may find at any moment.
UpdateIsDurable ==
  [][job.via = "fetch" /\ job.exists /\ "target" \notin loose
     => "target" \notin loose']_vars

\* Whatever a crash or a failure left behind, later runs install the file for good,
\* unless they are interrupted again and again: when the user goes on to verify the
\* integrity of the files, no half written one stays for ever.  Without that, one
\* that a power cut spoilt after it was recorded is taken for an installed one.
EventuallyInstalled ==
  <>[]~stopped =>
    /\ <>[](recorded /\ (disk["target"] = "new" \/ cut))
    /\ SF_vars(DecideAs(TRUE)) => <>[](recorded /\ disk["target"] = "new")
=============================================================================
