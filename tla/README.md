# Downloader for MiSTer: verification development

TLA+ modules, TLC configurations and TLAPS proofs for the Python program under
`src/` (version with the threaded job system in `src/src/downloader`).  All
paths below are relative to `src/src/downloader` unless they say otherwise.

The program updates an SD card: it fetches database files, compares them with
what an earlier run installed (the *local store*), fetches what is missing,
removes what is no longer listed, saves the new store, and may flash a new
Linux.  Nearly all of that runs as *jobs* on a home-made scheduler,
`job_system.py`, with a pool of threads.  It runs unattended, the user pulls
drives and cuts the power, and the next run starts from what the last one
left.

## 1. Inventory

### Components, their state and operations

| Component | State | Operations | Must hold |
|---|---|---|---|
| Job scheduler `job_system.py` | two FIFO queues, notification queue, pending amount, cancelled and timed-out flags, inactivity clock, futures of the running execution, errors | `push_jobs`, `execute_jobs`, `cancel_pending_jobs`, `wait_for_other_jobs`; internally submit, handle notifications, sweep futures, retry, cancel | one outcome per job, none lost, the loop ends exactly when the work does, cancellation stops new work |
| Tag tracking `jobs/reporters.py` | jobs initiated, ended, in progress per tag; processed files and folders | `add_job_started/completed/failed/retried`, `add_jobs_cancelled`, `any_in_progress_job_with_tags`, `add_processed_files` | a tag is in progress as long as any job with it is open, and no longer |
| Waiting workers `wait_db_zips_worker.py`, `mix_store_and_db_worker.py`, `open_db_worker.py` | none of their own | poll a tag, then read the results of other jobs | waiting is a barrier, and it ends |
| Store loading | flag and lock of `OpenDbWorker`, the store in the shared load job | spawn the load, load, mix | loaded once, and nobody concludes that the load is over before it is |
| File installation `jobs/file_install.py`, `fetch_file_worker.py`, `open_zip_contents_worker.py` | target, temporary and backup files | copy to backup, stream, validate, replace, recover | a good old file is never lost |
| Index processing | store selection, processed files, reserved space | validate, claim, reserve, spawn fetches | one owner per file, nothing fetched without space |
| Online importer | the stores being written | turn the report into additions and removals, displace ownership | a removal never hits a file somebody owns; the store tells the truth |
| Local repository | store, fingerprints, external stores, manifests, free spaces, mark of a run | load, save, back up | no crash makes a later run skip what it should process |
| HTTP gateway | connection pool per host, redirect tables, out-of-service flag | open, take and push connections, follow redirects, clean up | a connection has one user; a bounded number of hops |
| Free space reservation | free and reserved bytes per partition | reserve for a set of files | all or nothing, above the minimum |
| Full run, Linux updater, certificates, reboot | exit code, reboot flag, image, boot files | import, retry, save, update Linux, reboot | save before reboot; a torn flash is repaired; the files of the user stay |
| Offline uninstaller, ini files | the local store, the sections of the ini | remove a database's files and sections | keeps files others claim and what could not be removed; says so |
| Online checker | state per database | classify | no database reported current without evidence |

The remaining parts (database validation, migrations, output, entry points)
keep no shared state; `PROJECT.json` lists them with the reason they are left
out.

### How they interact

`FullRunService` calls `OnlineImporter.download_dbs_contents`, which registers
the workers, pushes the first jobs and calls `JobSystem.execute_jobs` on the
main thread.  Worker threads run `Worker.operate_on`, and return the jobs to
spawn or an error.  They talk to the scheduler through a queue of
notifications and through two plain attributes, `_are_jobs_cancelled` and
`_timed_out`.  The main thread reports every outcome to a `ProgressReporter`,
which updates the tag tracking under a lock; waiting workers poll it under the
same lock.  A signal handler sets the cancelled flag between any two
instructions of the main thread.  A cancellation also interrupts the file
system and shuts the HTTP gateway.  When `execute_jobs` returns the importer
reads the report, changes the disk and the stores, and the repository saves
them; then Linux is updated and the system may be rebooted.  Sessions talk to
one another through the card only: the store, the fingerprints, the stores and
manifests on the drives, the free spaces and the mark of a run.

### What is hard

Interleavings of the main thread with workers and signals; an exception that
overtakes notifications; retries that replace a job while others wait for it;
the same job object living twice; cancellation in the middle of a push; a
second execution on the same scheduler; waiting while holding a thread;
connections and redirect tables shared without one lock; crashes between the
writes of the store and of installed files; databases that share files, in
different cases, on drives that come and go; a later run that trusts what an
earlier one wrote.  The list with lines is under `hazards` in `PROJECT.json`.

## 2. How the development is laid out

```
JobLedger   <= JobSystem -> JobTags -> StoreLoading        one execution of jobs
(refinement)      |          |            |
            MCJobSystem   MCDbZips   MCStoreLoading
HttpGateway -> MCHttpGateway                               inside a job: the network
FileInstall -> MCFileInstall                               inside a job: one file
StoreWrapper -> Selection -> Import -> MCImport            many runs: files and stores
DbConfig -> StoreFiles -> Uninstall -> MCUninstall         many runs: the files of the store
LinuxUpdate -> FullRun                                     many sessions: Linux, reboot
JobSystem_proofs -> JobLedger_proofs                       proofs
                 -> StoreLoading_proofs
HttpGateway_proofs, FileInstall_proofs, Import_proofs
FullRun_proofs, Uninstall_proofs
```

An arrow is EXTENDS.  The first three groups are about the steps *within* an
execution; the others take an execution, or a job of it, as steps whose effect
the first ones justify: `Import` lets the index jobs of all databases go on in
any order, and installs a file in one step, which `FileInstall` takes apart;
`StoreFiles` lets a whole run be one step, which `Import` takes apart, and
takes apart the saving, which is one step in `Import`; `FullRun` takes apart
what comes after the saving.

Definitions marked *Faulty variant* are not part of any specification: each is
a plausible slip in the definition that follows it, and is used to show that
the properties notice it.  Several modules have a variable `defects`: the code
has defects that break a property in some corner (section 6), and a step in
which one of them strikes adds its name, so that the property is checked
everywhere else and the exception is exact and visible.

## 3. Modules

**JobSystem** models `job_system.py` with more than one thread.  A package is
the index of an entry of `pkg`; entries are never removed, so an outcome stays
visible.  The main thread is a program counter `pc` with one action per part of
`_execute_with_threads`:

| `pc` | Code | Actions |
|---|---|---|
| `idle` | outside `execute_jobs` | `PushJob`, `ExecuteJobs` |
| `loop` | the `while` condition | `Loop` |
| `submit` | the inner `while` | `Submit` (pop, cycle check, submit), `EndSubmit` |
| `handle` | `_handle_notifications(True)` | `HandleStarted`, `HandleCompleted` then one `PushJob` per child then `RecordCompleted`, `HandleCancelled`, `HandleError` then `FinishRetry`, `HandleNothing` |
| `reap` | `_remove_done_futures`, then clock and policy | `ReapFuture` for each future in any order, then `FinishRetry`; `CheckClock` |
| `cancelling` | `_cancel_futures` | `CancelFuture` (blocks while the worker runs), `EndCancelling` |
| `drain` | `_handle_notifications(False)` and the clearing of the queues | the handlers again, `EndExecution` |

A worker thread is the `fut` field of its package: `submitted`, `running`,
`returning` (result known, not yet notified), `notified` (in the queue, thread
not out yet), `done`, or `raised` / `aborted` by an exception; `dropped` is a
package no thread will take any more.  The children of a completed job are
pushed one at a time because the cancelled flag, a worker and a signal can
change things in between.  For the same reason a failed package is replaced in
two steps: `ReturnedError` tests the flag and leaves the package in `retrying`,
and `FinishRetry` queues the retry or the backup, whatever was cancelled
meanwhile (`job_system.py:242` and `276`).  Lineages are counted per job type, which is all the
cycle check looks at.  `quiet` counts iterations without a report instead of
seconds.  `WaitTimedOut` is the exception of `wait_for_other_jobs` in a worker
whose job is one of `Waits`, once the clock of the execution ran out.

**JobLedger** is what a caller relies on: an open job gets one outcome, or is
replaced in the same step; an execution ends with none open.  `JobSystem`
implements it with `status <- outcome of each package`.

**JobTags** extends `JobSystem` with `JobTagTracking`.  Each report of the main
thread is joined to the action that makes it (`TSubmit`, `THandleError`, ...),
because the report happens in the same uninterrupted step of the main thread as
far as pollers can see: the tracking changes in one critical section.  Waiting
is a guard on the worker's next step (`Waiting`), and the only thing that ends
it early is `WaitTimedOut`.

**StoreLoading** extends `JobTags` with the lock and flag of `OpenDbWorker` and
the store in the shared load job.  `OpenDbWorker` also looks at the flag before
it takes the lock, only to save itself the lock; the model has the test under
the lock, which decides.

**HttpGateway** is `http_gateway.py`: every thread in `open` is a program
counter; connections, the pool of each host and the three dictionaries of
redirects (two in use, one to be swapped in) are shared.  Taking, pushing and
clearing a pool are steps under its lock; what is decided without a lock
(`finish_response`, `kill`, the swap of the tables, the out-of-service flag) is
a step of its own.  Servers answer from `Replies`; `Cleanup` is what an
interruption does, at any moment.  A sweep first clears the dictionary that
the last one took out of use (`http_gateway.py:255`) and fills it again, without
a lock; a thread that still holds it from before that swap may find it empty or
half filled, and miss a redirect or raise a `KeyError`, which ends its open.
That window is left out: it takes a thread that rests between two lines for a
whole interval of the sweeps.  `exhausted` records that the requests of an
open ran out on a redirect (section 6).

**FileInstall** is one file from the decision of the index to the record in
the store: each file operation is a step, what was written and not flushed is
`loose`, and the process may be killed, or the power cut, between any two.
A power cut may spoil what is loose.  A description says whether the database
gives a temporary path and a backup, and whether the file is in an archive that
is extracted by members or as a whole, with or without a url to fall back to.

**StoreWrapper** and **Selection** are operators: the sections of one store and
how the operations of `local_store_wrapper.py` move entries between them; the
filter of a database and the place of a path (`file_filter.py`,
`target_path_calculator.py`).  A section is a partial function from paths to
entries; an operation that the importer calls in a loop, once for each path or
archive, takes the whole set (`AddPkgs`, `Forget`, `RemoveZips`,
`AddZipSummaries`).

**Import** is runs over several databases on one disk.  `world` is the
scenario: the editions of each database with their archives, the drives, the
options, the room.  In a run each database has an index job per archive and one
for the rest; `Open`, `Claim`, `Check`, `Fetch` are their steps, in any order
between databases (`jobs/process_*_worker.py`), and `Apply` is what
`online_importer.py` makes of the results: removals with the claim backstop
(`Removed`, `Unlinks`), folders (`RemovedFolders`, `ForgetFolders`), change of
owners (`Displace`), and for each processed database (`Imported`) what was
installed (`Install`), the summaries of archives (`Summarise`) and the filtered
data, in the order of the code.  `Save` and `Remember` end the run; `Crash` kills it; `Change` is the
world between two runs.

**DbConfig**, **StoreFiles**, **Uninstall** are about what the program keeps
and reads again.  `StoreFiles` has each file (main store, fingerprints, one
store and one manifest per drive, free spaces, mark of a run) as absent, torn
or whole; a run reads them (`Begin`), decides what to skip before and after the
load of the store (`SkipsOpen`, `SkipsMix`), changes files (`Import`), and
writes them one after the other (`RemovePrints`, `SaveMain`, `SavePrints`,
`SaveDrive`, `SaveManifest`, `Touch`, `FreeSpaces`), each of which can be cut.
Failures follow the code: what fails on a drive is caught there, and the saving
goes on; a folder of the main store that cannot be made is an `FsError` before
the first write, which ends the saving and not the run (`SaveFails`: an update
goes on to the free spaces, an uninstall reports an error and leaves the ini
alone); any other failure of the main store or the fingerprints is an `OSError`
that nobody catches before `main`, and so the end of the process (`Crash`).
`CheckStatus` is what a check would say.  `Uninstall` adds sessions of
the offline uninstaller: refusals, files one by one, stores, then the sections
of the ini (`DbConfig`).

**LinuxUpdate**, **FullRun** are a session from start to reboot.
`LinuxUpdate` has the card (image, new image, kernel and other files, boot
partition, archive, tool, unpacked update) and each command of the updater and
its shell scripts; `FullRun` has the import (which can find no network, or only
after the certificates were fixed), the save, the free spaces and the reboot.

The **MC** modules give the constants.  Those of the scheduler list which job
types there are, what retries and backs up what, and what each worker may
return, read from `jobs/*_job.py`, `jobs/*_worker.py` and
`jobs/jobs_factory.py`.  Among the results of the wait in `MCDbZips` is none at
all: the worker that waited finds a full partition and returns early.

## 4. What the runs check

Deadlock is checked in `file_install`, `import`, `uninstall` and
`store_files_away`; elsewhere the program or the environment may stop.

| Run | Instance | Result |
|---|---|---|
| `job_system_summary` | one zip summary: transfer, open, index, file; 2 threads, 1 try, errors of transfer and open, exceptions of index and file, a signal at any time | passes |
| `job_system_rerun` | a self-spawning job, cycle limit 1, 1 try, a child without worker, `FAIL_GRACEFULLY`, signals, two executions | passes |
| `db_zips` | one database with a zip: 6 jobs, 2 threads, errors, an exception, timeout | passes |
| `store_loading` | two databases that share the load, 2 threads, 1 try, errors of the load and of the databases | passes |
| `http_gateway` | 2 threads, 2 hosts, urls that moved, errors, time limits, cleanup at any time | passes |
| `file_install` | 7 descriptions, 2 tries, 2 crashes, interruptions | passes |
| `import` | 9 scenarios of at most two databases: shared files, letter cases, other spellings, a file that moves into an archive, an archive with a filter, drives, entangled files with a full partition; 2 changes, 1 kill, 1 failure | passes |
| `uninstall` | 2 databases that share a file, 2 drives, 3 configurations over 2 ini files; 2 changes, 1 trouble (a cut or a failure) | passes |
| `full_run` | 3 versions, 1 failure, 1 power cut, 1 outage, 2 checking modes, all reboot modes | passes |
| `db_zips_starved` | two databases with a zip, 2 threads, nothing fails | violates `SomeoneProgresses` |
| `store_files_away` | the instance of `uninstall` without troubles | violates `AbsentDriveNotTrusted` |
| `full_run_retry` | 2 versions, 1 failure, balanced | violates `TryAgainLater` |

What the passing runs show:

* **Scheduler.**  `SettledOnce`: no package gets two outcomes, although four
  places of the code settle packages and overlap in time.
  `PendingAccounting`, `CleanExit`: the counter that keeps the loop alive is
  right, except that cancelled jobs are never subtracted.  `NothingLost`,
  `ImplementsLedger`: every job has its outcome when `execute_jobs` returns.
  `CancelStopsSpawning`: a cancellation at any moment stops new jobs, but for
  the rest of a push and the one retry that the main thread had begun; these it
  does finish, and an execution that was cancelled may hand out a job more.
  `ExecutionEnds`: it returns.
* **Waiting.**  `WaitIsBarrier`: a worker gets past its wait only when no job
  with the awaited tag is open, through retries by another job and backups.
  `TagsReleased`.  `LoadedOnce`: the store is read by one job.  `MixGetsStore`:
  no database fails for lack of the store while the load is queued, at work or
  about to be retried; it fails when the load was given up or the run is
  cancelled, or when it overtakes the load that another database has returned
  and the main thread has not recorded yet (`LoadComing`, section 6).
* **Gateway.**  `OwnConnection`, `OwnResponse`: no connection has two users and
  nobody reads the answer to somebody else's request.  `NoneForgotten`: no
  socket leaks, but for redirects without `Location`.  All three until an open
  is `exhausted`.  `EveryOpenReturns`,
  also under a cleanup.  `GatewayTypeOK` includes that the exchange of the
  three dictionaries never makes two of them one.
* **One file.**  `GoodFileKept`: a complete file stays complete, but for the
  jobs that write straight on the target (`Careless`).  `RecordedIsInstalled`,
  `UpdateIsDurable`.  `EventuallyInstalled`: whatever a crash or a failure left,
  later runs record the file, and it is and stays complete, unless the power was
  cut.  A file that was written straight to the target and recorded is not
  flushed: a power cut can spoil it, and the runs that follow skip it as
  installed.  When the user goes on to verify the integrity of the files
  (`file_checking`), no half written one stays for ever, after any cuts.
* **Runs.**  `RecordedIsOnDisk`, `NoOrphans`: the stores and the disk agree
  both ways.  `ClaimedKept`: nothing a store claims is removed, but
  for two corners (section 6).
  `SkippedIsComplete`: a balanced run that skips is right to.  `Converges`: the
  runs end up with every wanted file that fits.
* **Files of the store.**  `SkippedIsServed`, `CheckedIsServed`: what a run
  skips, or a check calls current, has its files in a place that is there.
  `Settles`: metadata and fragments are not sought for ever.
* **Uninstall.**  `UninstallComplete`: exit code 0 means that nothing is left of
  a database that a store at hand knows, not even on a drive that is away.
  `OthersKept`.  `ReturnIsAnnounced`.
* **Sessions.**  `UserFilesKept`, `TornFlashIsSeen`, `RebootIntoNew`, and
  `EventuallyCurrent`: with sessions again and again the card ends up with the
  published version, whatever was cut, failed or expired before.

### Bounds

`MaxThreads = 2`: the pool is symmetric and every race above is between the
main thread and one or two workers; the same holds for the two threads of the
gateway.  `MaxTries` is 0 or 1 in the scheduler, `MaxCycle` 1, so that the
limits are reached.  `MaxQuiet = 2` lets the timeout race every answer.
`MaxRuns = 2` is one re-execution.  `MaxPkgs` bounds nothing in the
specification: it is the range of the fairness condition, and larger than any
execution of the instance needs.  `MaxHops = 2` stands for the 11 requests per
call: a reply may lead back to where the request came from, so that requests
run out on an error and on a redirect (section 6).

`file_install` allows two crashes, because the second one strikes a recovery
from the first; a third one finds nothing new, since what a crash can leave is
a fixed set of contents.  `import` allows two changes (a new edition, and an
option or drive), with one kill and one failure between them, and a run after
each; 201510 states.  `uninstall` has 1200698 states, `store_loading` 1023706,
`file_install` 86019.  `full_run` has three
versions, so that an update can follow one that was cut halfway; 643495 states.

### Fairness

`Main` is weakly fair in the scheduler: the main thread runs whenever it has
something to do (`get` on the notification queue has a time limit).  Each worker
is weakly fair: the threads are scheduled, and a worker that does not wait ends,
because sockets and file copies have time limits.  The inactivity clock is not
assumed to be reached: `HandleNothing` only counts when no notification is
there.  Signals and activity reports are not fair.  Termination of waiting
workers is not assumed either; that is the point of the runs with tags.  In the
gateway each thread inside `open` is fair, for the same reason; nobody has to
call `open`, and cleanup does not have to happen.

In the specifications of many runs, what is fair is that the updater is started
again and that what was started goes on (`Work`, `Update`, `GoesOn`,
`Session`).  Kills, failures and changes are bounded, which says that they stop
at some point.  `FileInstall` is strongly fair to the steps that succeed: a
download that is tried again and again works once.  The run that goes on is one
that does not verify (`DecideAs(FALSE)`): that the user lets the files be
verified again and again is not assumed of the program, and is the hypothesis of
the second half of `EventuallyInstalled`.  That property also assumes that the
user does not interrupt every run (`<>[]~stopped`).  `FullRun`
assumes that the network comes back.

## 5. What is proved

Every theorem holds for every value of the constants allowed by the named
assumptions of the modules, which TLC evaluates in the runs.  What they ask
beyond types: a job outside `Waits` awaits no tag (`JobTagsAssumption`); only
the workers of `OpenDb` return the job that loads the store, once per result,
and no other job is retried or backed up by it (`StoreLoadingAssumption`, from
`open_db_worker.py` and `load_local_store_job.py`); the jobs of a tag come in
one line, for the barrier only (`InLine`); threads, hosts and urls are
different things (`GatewayAssumption`); the drop-in files do not name the
default database again and a drive is not called like a phase of a run
(`StoreAssumption`); every database has a published edition
(`EditionsAssumption`); in a scenario of runs there are finitely many paths, the
items of every edition and archive are at known paths and have the fields of an
item, every database has a published edition, a partition of limited size has
some room left at the start, and no drive is called like the base
(`ImportAssumption`).

**JobSystem_proofs.**  `TypeCorrect` (`Spec => []TypeOK`), `OutcomeOnce`
(`Spec => []SettledOnce`), `CancelStops` (`Spec => CancelStopsSpawning`), for
every set of jobs, every table of results, retries and backups, any number of
threads and any limits.  `SettledOnce` is not inductive: nothing in it keeps
the handler and the sweep from meeting the same package.  The invariant
`SettledInv` adds where a package without an outcome can be: in one queue once
(`QueuedOnce`); with its worker (`UnsettledBefore`); in exactly one notification
that carries its outcome (`CarriedOnce`); being completed (`SpawnerUnsettled`) or
about to be retried (`RetryingUnsettled`); or, when its worker raised, still in the list of futures (`RaisedOnce`).  Each
action takes the package out of the one place where it is and reports it.  The
step theorem `SettledStep` has one case per action, built from lemmas on the
helpers: what a report changes (`ReportedOK`), what a retry changes
(`RetryPackageReports`, `ReturnedErrorReports`), what popping and appending do to queues without
repetition (`PopOnce`, `EnqueuedOnce`).

**JobLedger_proofs.**  `PendingIsCounted` (`Spec => []PendingAccounting`),
`NoJobIsLost` (`[]NothingLost`), `ExitIsClean` (`[]CleanExit`) and
`LedgerIsImplemented` (`Spec => ImplementsLedger`), with the same generality.
The first part says what a step does to the outcomes: `StepEffect` shows that
every action leaves them (`Same`), adds a package (`Pushed`),
gives one its outcome (`Closed`), replaces one (`Replaced`) or clears the queues
(`Cleared`).  Counting the packages before and after each of these gives
`PendingAccounting`, with the library's theorems on cardinality.  The second
part says where an open package is (`Placed`): in a queue; with a worker whose
future the main thread still watches, and, while futures are cancelled, has not
looked at yet; in a notification that carries its outcome; being completed; or
about to be retried.
`PlacedStep` shows that no step takes a package from all of these places without
an outcome.  `LedgerInv` joins them with `SettledInv` and with what each phase
of the main thread leaves behind (`LoopLeft`, `DrainClean`).  The refinement
maps each effect to the step of the ledger of that name; that the clearing of
the queues is the ledger's `Finish`, which leaves no job open, needs `Placed`.
TLC found `LedgerInv` to hold in both instances of the scheduler before it was
proved.

**FileInstall_proofs.**  `InstallTyped`, `RecordedStaysInstalled`,
`GoodFileIsKept`, `DownloadIsDurable`: the safety properties of `file_install`,
for every set of descriptions (the run has seven, there are 32) and any number
of tries and crashes.  None of them is inductive: that the target is good after
a `Move` depends on what was checked three steps before, and that a recovery
restores the old file depends on which step the failure interrupted.
`InstallInv` says in which phase which of the three locations holds what:
`Verified` (what is about to be recorded was compared with the hash),
`TempReplaces`, `LeftTemp`, `BadTemp` (the temporary file), `CopyFindsOld`,
`OldIsThere`, `LooseBackup`, `OnlySpoilt` (the backup, and what a cut can have
done to it), `Flushed` (what replaces an installed file is on the card),
`RecordedIsIdle`, `Fresh`, `KnownIsThere` and `Sources`.  `InstallInvariant`
proves it action by action.  TLC checked it for all 32 descriptions.

**FullRun_proofs.**  `FullTyped`, `UserFilesAreKept`, `TornFlashSeen`,
`RebootsIntoNew`: the safety properties of `full_run` for any number of
versions, failures, cuts and outages.  `FullInv` has the types (`TypeInv`),
where the files of the user are at each stage of an update (`UserInv`), what
each stage of the flash has already written (`Stages`), that the parts of the
card are written in an order in which the version that runs only looks current
when all of them are (`InOrder`, `Whole`), and when the reboot flag may be set
(`FlagInv`).

**StoreLoading_proofs.**  `TagsRestrictScheduler` (`TSpec => Spec`) and
`LoadingRestrictsTags` (`SSpec => TSpec`): tracking tags and sharing the load
take no step the scheduler could not take, so that `LedgerInv` above holds in
them.  `NoTagStays` (`TSpec => []TagsReleased`): for any tags, retries, backups
and signals, nothing counts as in progress between executions, although the
report of a start may come after that of the end.  `TagInv` says of each job in
progress that a package of it is open or was cancelled, in which case the end of
the execution reports it (`ProgressLive`), that a start which is still to be
handled is of such a job or of one that counts as ended (`LateStarts`), and that
the jobs a completed one hands over to are open (`ChildrenOpen`).  What one report of the tracking
may end is one lemma for each of its callers (`TracksOn`, `TracksEnd`,
`TracksHandover`, `TracksCompleted`, `TracksError`).  `StoreLoadedOnce`
(`SSpec => []LoadedOnce`) rests on `LoadInv`: a load job that was returned is
carried by one worker (`Carriers`), or among the children being pushed, or a
package of its own, and by only one of these; a retry replaces the package by
one that counts instead of it.  `StepSpawns` first cuts the actions of the
scheduler down to the four that concern it: nothing is spawned, a result is
taken up, a child is pushed, a package is retried.
`WaitingIsABarrier` (`TSpec => WaitIsBarrier`) has a hypothesis on the jobs,
`InLine`: for each tag there is a set of jobs that lead up to it, one at a time,
the last of which spawns the first job of the tag together with those that wait,
and a job of the tag spawns, or is retried or replaced by, one job of the tag at
most.  Without it the property does not hold: a worker could get past its wait
before the first job of the tag is spawned.  Tags are one per zip of a database:
`ProcessDbMainWorker` returns one job for each and the `WaitDbZipsJob`
(`process_db_main_worker.py:57-85`), and the transfer of a summary, its opening
and the index follow each other (`jobs_factory.py:51-86`); `MCDbZips` assumes
`DbZipsInLine` of its jobs, which TLC evaluates.  The tags of the store and of
its fingerprints are not of this kind, and are the subject of `StoreLoading`.
`BarrierInv` follows the line: while a job that leads up to the tag is left there
is no job of it (`AheadOnce`, `AheadFirst`); those that wait stay queued while
their parent is being completed (`SpawnedFrom`), which matters because the first
job of the tag is queued then and not yet reported; there is one job of the tag
(`TaggedOnce`), and it is in progress or will be reported together with the
completion at hand (`Covered`).  `TagStep` cuts the actions down to seven kinds,
with one lemma each that the invariant is preserved.
TLC found `TagInv`, `LoadInv` and `BarrierInv` to hold in the instances
of `db_zips` (in part), `db_zips_starved` and `store_loading` before they were
proved.

**HttpGateway_proofs.**  `GatewayTyped`, `ConnectionIsOwn`, `ResponseIsOwn`,
`NoneIsForgotten`: the safety properties of `http_gateway`, for any number of
threads, hosts, urls, opens and hops, and for any servers.  They hold until an
open is `exhausted`, as in the run.  `GatewayInv` has the
types, with what each phase of an open knows (`PoolInv`, `ThreadInv`) and where
the three dictionaries are in each phase of the sweep (`TableInv`); that a
connection has at most one user, who found it in no pool, that it is in at most
one place of one pool, and that who waits for an answer asked for it (`OwnInv`);
and that an open connection is with a thread or in the list of its pool
(`OpenInv`).

**Uninstall_proofs.**  `OthersAreKept` (`Spec => OthersKept`),
`ReturnAnnounced` (`Spec => []ReturnIsAnnounced`), `UninstallIsComplete`
(`Spec => []UninstallComplete`), `SkippedServed` (`Spec => []SkippedIsServed`)
and `CheckedServed` (`Spec => []CheckedIsServed`), for any databases, drives,
configurations, failures and cuts.  `UninstallInv` says what a session is made
of (`RunInv`, `FilesInv`) and that the configuration is one the updater accepts
(`IniInv`); that while files are removed, what other databases claimed at the
start is in the stores that were loaded, but for drives that were away
(`RemoveInv`); and that after it the sections of the databases that are done
are gone from every file, and that a base configuration that became empty, or a
default database without a section, was announced (`CleanInv`).
The lemmas on removing the first section of a name from a file
(`FirstSection`, `SectionRemoved`, `SectionsRemoved`) show why a section that is
twice in one file stays, which is the exception `twice`.
That nothing is left on a drive that is away cannot be seen from the files at
hand: it is a matter of counting.  `CoverInv` says that the main store expects
at least as many fragments of a database as there are drives with one, and,
while the drives are being saved, that those which are done or away have only
what the session has.  An uninstall that is not refused has found what is expected, and a bag of
fragments that is within another one no larger is all of it (`BagWithin`,
`CoveredIsAll`), so that every drive with a fragment is there.  `CompleteInv`
then follows each claim to its removal.  Both were checked by TLC on instances
with one drive and with two before they were proved, which brought up two
corners: `outlived`, below, and a database that no store at hand knows, for
which exit code 0 only means that its section is gone.

`SkippedServed` and `CheckedServed` say why a fingerprint may stand for files
that nobody looks at: it was written in one session, and relied on in another
one, with other drives and after any cuts.  Neither property is inductive, since
they only speak of the moment in which a fingerprint is relied on.  Their
invariant, `ServedInv`, is built in layers, each of which uses those before:

* `GroundInv`: the invariants above; the fingerprints in every store and in
  memory are of published editions (`TablesInv`); and only a configured
  database, or one that is being removed, has one (`ConfInv`).
* `LoadsInv`: what a session has in memory of the databases it does not process
  is what the stores of the drives that are there and the main store have.
* `ShelfInv`: the files that the stores list are there.  What the store or the
  manifest of a drive lists of a database whose fingerprint is current is on
  that drive (`ThereInv`), also for what is just being saved (`HeldInv`), and a
  drive that is away has all its store lists (`AwayInv`), or `dangling` struck
  when it was taken away.
* `TrueInv`: the fingerprints account for the files.  Every file of a database
  whose fingerprint in the main store is current is in the base, or another
  database has it, or it is in a fragment that the fingerprint expects
  (`PrintsTrue`).  After a failure in a `balanced` session this need not hold
  until the free spaces are removed (`Lapsed`), which is why a session without
  them looks at all files; but even then the fingerprint accounts for what the
  stores of the drives list (`ClaimsTrue`), so that a later session does not
  save a fingerprint with less.  `MemTrue` and `DoneTrue` carry this through a
  session, from the import to the saving of the main store and from there to
  the free spaces.
* `SkipInv`: what a session skipped when it began stays where it was until the
  session ends.

A current fingerprint whose fragments are all at hand then means that all files
are in a place that is there (`CoveredServed`): a file is in the base, or in an
expected fragment, which is the content of the store or manifest of a drive that
is plugged in, whose files are on it.  The proof follows every write of a
session one by one, so that a kill between any two of them is covered.  It holds
of the states in which none of the defects named in `Unfounded` has struck.
Searching other instances with TLC (one or two databases, one or two drives, up
to 5 changes and 2 troubles, both options) had brought up the corners
`dangling`, `returned` and `late` of section 6, and `Lent`, before the proof was
tried.

**Import_proofs.**  `ImportTyped` (`Spec => []ImportTypeOK`) and `ClaimedIsKept`
(`Spec => ClaimedKept`), for any databases, editions, archives, filters, drives,
options, failures and kills.  A store is built from the results of all index
jobs at once, by operators and not by steps, so the proof follows what each of
them may do to the claims of a store: `ClaimsLess` (it only forgets) or
`ClaimsMore` (it adds files of the items it gets).  There is one lemma for each
operation of the store (`ForgetKeeps`, `RemoveZipsKeeps`, `CleanKeeps`,
`SaveFilteredKeeps`, `AddKeeps`) and of the importer (`ForgetFoldersKeeps`,
`InstallKeeps`, `SummariseKeeps`, `DisplaceKeeps`), and `ImportedKeeps` joins
them: after a run a database claims files that it claimed before and did not
drop, and files of its checked jobs.  `UnlinkedIsFree` shows that nothing that
is removed is among them: a path that a job owns is never removed
(`RemovedIsNotNew`), a duplicate that is removed is the defect `unowned`, and
a claim of any store from before the run keeps the path unless that database drops some
spelling of it, which is the defect `cased` when a claim is left.  The invariant
`ImportInv` carries what these lemmas ask: `WorldInv` (the disk, the setup and the
saved stores stay within the scenario) and `RunInv` (the stores in memory are
stores, `IsStore`; the jobs of a database that runs are index jobs of known
paths, `IsJob`; what a job has still to install is part of what it owns; the
room that is left).  It was checked by TLC on all scenarios before it was proved.
The attempt showed that the property did not hold as it had been stated: no
scenario of the run had two spellings with an entanglement, or a duplicate of
an archive whose owner fails.  The two corners are now named, and scenarios
were added for the first.

Only model-checked, and why:

* everything under fairness (`ExecutionEnds`, `EveryOpenReturns`,
  `EventuallyInstalled`, `Converges`, `Settles`, `EventuallyCurrent`), which the
  provers here do not reach;
* `MixGetsStore`, which needs more than where the load job is (`LoadInv`): that
  its tag is in progress for as long as it is open, through its retries;
* `RecordedIsOnDisk`, `NoOrphans` and `SkippedIsComplete`, which hold in the
  scenarios of `import` and not in every one that `ImportAssumption` allows.
  Trying other scenarios with TLC showed where they end: when a database
  contradicts itself (its index and an archive, or two spellings in one index,
  give a path two contents), when a new summary records a file that was not
  installed (a duplicate of another content, or `overwrite` false over another
  content), and when the paths of one summary belong to several places, since
  `add_zip_summary` records all of them in the place of the first.  A theorem
  needs these as exceptions or as assumptions on the databases, and the code
  checks none of them.

## 6. What does not hold, and what the models take as exceptions

### Runs that expect a violation

1. **Starvation** (`db_zips_starved`).  As many databases with zips as threads
   can fill every thread with a `WaitDbZipsWorker` while the jobs they wait for
   are queued behind them.  Only the timeout of 600 seconds ends it.
2. **A drive that is away is trusted** (`store_files_away`).  `save_store`
   stamps every database with the fragments loaded in the session.  A run of one
   database with the drive of another one away records that the other one
   expects nothing there, and the next run skips it.
3. **A Linux update that failed is not tried again** (`full_run_retry`).  The
   store is saved before Linux is updated, for the databases that were
   processed; the next sessions skip the database.

### Known exceptions in passing runs

Scheduler and gateway:

* After a cancelled execution `_pending_jobs_amount` keeps the cancelled jobs
  (`PendingAccounting` counts them), so that a next execution on the same
  `JobSystem` only ends by the inactivity timeout.
* A job starts with the tries of the job that spawned it, so that a file below
  a retried summary has fewer retries than `src/README.md` says.
* After a signal the main thread blocks on a worker that waits for a tag, and
  nobody is left to end its wait.  `db_zips` has no signal.
* A second database can miss the load of the store and fail: the flag is set in
  the worker, and the load is tracked when the main thread handles its
  completion.  `MixGetsStore` excepts exactly that interval (`LoadComing`).
* A redirect without `Location` leaves its response open (`NoneForgotten`).
  When the last of the 11 requests is a redirect, `open` hands out a response
  that was finished, whose connection another thread may have by then
  (`exhausted`).

`FileInstall`: a recorded file that a power cut spoilt stays so until a run
verifies (`EventuallyInstalled`).  `Careless`.  An archive that is extracted as a whole, and the
download that follows a bad extraction, write straight on the installed file;
its retry then copies the half written file over the backup.  And a removal the
kernel has not written back may be undone, half, by a power cut (`RecordedIsInstalled`
holds until a cut spoils a content).

`Import`, by the name in `defects`:

| Name | What strikes |
|---|---|
| `away` | a database with archives is processed while a drive of its store is away: the entries there are lost |
| `full` | an index job does not fit, its fingerprint is saved all the same |
| `folder` | a folder cannot be made, which is not in `failed_files`, so that the free spaces are saved |
| `archive` | a file of an archive whose fetch failed is recorded, from a fresh summary or from the filtered data |
| `shared` | a database that ran or failed keeps the claim of a file that another one wrote over |
| `displaced` | a file of an archive that another database takes over drops out of the stored summary |
| `dropped` | the owner drops a file that a database which did not run also lists, but never had in its store |
| `filtered` | the filtered data of an archive whose job failed is replaced by nothing (`local_store_wrapper.py:443`) |
| `kept` | a file could not be removed and is forgotten |
| `unsaved` | a duplicate whose owner failed: `KeyError` (`online_importer.py:528`) ends the session with its work on the disk done and the store not saved |
| `vouched` | an exhaustive run with failures saves the free spaces, which vouch for what is missing |
| `cased` | a database drops one spelling of a file and goes on claiming another, because a file it is entangled with failed; the backstop excludes the database for both, and the file goes (`online_importer.py:456-463`) |
| `unowned` | a duplicate whose owner failed, and which another database drops: it is removed under the database that has it, and a fresh summary may record it |
| `renamed` | a new spelling is written over the old one, which stays in the store because of an entanglement |
| `late` | a kill leaves the free spaces of an earlier run vouching for the disk |

`StoreFiles` and `Uninstall`:

| Name | What strikes |
|---|---|
| `neglected` | a database whose drive is away is stamped without its fragments (violation 2) |
| `moved` | a database is processed while its drive is away; a later uninstall exits with 0 and leaves the files there |
| `torn` | a torn main store counts as a new one: an uninstall reports success and removes nothing; a torn store of a drive is rewritten |
| `dropped`, `failed`, `vouched` | as in `Import`; `failed` is a file that failed with another option than `balanced`, so that no free spaces are taken away for it; `vouched` a `run_only` session that saves the free spaces again, while the fingerprint of a database it did not look at does not account for the files of that |
| `half` | an uninstall that was killed, or failed, half way, or whose store could not be saved |
| `outlived` | the main store is saved without the fragment of a database on a drive, and a cut or a failed write keeps the drive from being saved: the fragment there outlives what is expected, and an uninstall without the drive exits with 0 |
| `dangling` | a drive is taken away while its store lists files that are gone, after a cut or in the middle of an uninstall: a later edition that lists them again finds them in its fragments; or the store is saved with a database that lists them again on a drive that is there |
| `returned` | a file cannot be had in the base while the drive that has it is away; with the drive back nothing is left to do, the store is not saved, and the fingerprint goes on to expect no fragment |
| `late` | as in `Import`: a kill after a failure, before the free spaces are removed, or a drive that cannot be written in such a session |
| `twice` | a section that is twice in one file: only the first is removed |

A file that several databases list is in the store of the first one only.  When
it is on a drive, the fingerprints of the others do not change with the drive
(`Lent`): they are skipped, and get the file with the next run of the first one.
An uninstall of a database that no store at hand knows only removes its section,
whatever a drive that is away has of it, and `UninstallComplete` leaves it out.

`Settles` also lets a drive be waited for while all its files are in the base
(the database is processed by every run until the drive returns), and a card
without the mark of a run (every run then verifies, until a store changes).
The warning that the default database comes back names the database that was
removed.

`LinuxUpdate`: `silent`, a step of the flash script that fails without being
noticed, because the script returns the status of its last command; `tool`, a
power cut in `gunzip` that leaves a part of `7za`, which all later sessions take
for the tool.  With `allow_reboot = 0` every session that processes the database
flashes again, since the version is read from the running system.  A certificate
that does not pass because the network is down is removed before a new one is
fetched; the new one only serves the next process.  Free spaces are saved even
when the store was not.

## 7. What is not modelled

* `max_threads = 1`, which runs the jobs recursively in the main thread, and
  `FAIL_FAST`, which leaves by the first exception; exceptions of `retry_job`,
  `backup_job` and of reporters; the handlers that a signal chains to.
* Python-level atomicity: a single attribute read or write and a queue or deque
  operation is one step, which the interpreter lock guarantees.
* In the gateway: the moments in which a dictionary of redirects is cleared or
  half filled while a thread still holds it (section 3); proxies, methods and headers, ages of cached redirects (what
  a sweep finds expired is a free choice), the length of pauses.
* The cache of known files of `file_system.py`: every call that changes the
  disk changes it in the same step, so there is no state between the two for
  another component; a file removed by somebody else while the program runs is
  outside the models.
* In `StoreFiles`: the replicas of the stores of databases that have one, which
  are written first, and removals of store files that fail.
* In `Import`: the parsing of summaries, the path fields of databases, files
  of old external paths.  Contents that differ between two databases for one
  path make them overwrite each other in turns, which `shared` names.
* Which of several databases with a Linux image counts, `update_linux = false`,
  the launcher for PCs, and a process that is killed (as opposed to a power cut)
  during the Linux update.
* The migrations of old stores, the options of the configuration, output,
  logging, the entry points: no state that other components share.
* What a shell command does is read from how it is called.
