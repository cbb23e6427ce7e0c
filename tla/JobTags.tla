------------------------------- MODULE JobTags -------------------------------
(***************************************************************************)
(* The scheduler composed with the tag tracking of jobs/reporters.py and   *)
(* the workers that wait for other jobs by tag (WaitDbZipsWorker,          *)
(* MixStoreAndDbWorker, OpenDbWorker).  The main thread updates the        *)
(* tracking when it reports; waiting workers poll it from their threads.   *)
(***************************************************************************)
EXTENDS JobSystem

CONSTANTS
  Tag,
  TagsOf,    \* Job -> SUBSET Tag
  WaitsFor   \* Job -> SUBSET Tag: the tags its worker waits for

ASSUME JobTagsAssumption ==
  /\ TagsOf \in [Job -> SUBSET Tag] /\ WaitsFor \in [Job -> SUBSET Tag]
  /\ \A job \in Job \ Waits : WaitsFor[job] = {}

VARIABLES
  initiated,   \* JobTagTracking._initiated
  ended,       \* JobTagTracking._ended
  inProgress   \* the jobs its in_progress sets hold, under all of their tags

tracking == <<initiated, ended, inProgress>>
tagVars == <<vars, tracking>>

JobOf(p) == pkg[p].job
ToSet(seq) == {seq[i] : i \in DOMAIN seq}

-----------------------------------------------------------------------------
(* JobTagTracking *)

\* Faulty variant: a start is tracked although the end was reported before.
TrackStartedLate(job) ==
  /\ initiated' = initiated \cup {job}
  /\ inProgress' = inProgress \cup {job}
  /\ UNCHANGED ended

\* add_job_started: a start that comes after the end is not tracked.
TrackStarted(job) ==
  /\ initiated' = initiated \cup {job}
  /\ inProgress' = IF job \in ended THEN inProgress ELSE inProgress \cup {job}
  /\ UNCHANGED ended

\* _remove_job_in_progress for a set of jobs.
TrackEnded(jobs) ==
  /\ ended' = ended \cup jobs
  /\ inProgress' = inProgress \ (jobs \cap initiated)
  /\ UNCHANGED initiated

\* Faulty variants: the new jobs are tracked when they start; they are added as
\* one set.
TrackHandoverLate(job, others) ==
  /\ ended' = (ended \ others) \cup {job}
  /\ inProgress' = inProgress \ {job}
  /\ UNCHANGED initiated

TrackHandoverAdds(job, others) ==
  /\ initiated' = initiated \cup {others}
  /\ ended' = (ended \ others) \cup {job}
  /\ inProgress' = (inProgress \cup others) \ {job}

\* Begin other jobs with a fresh lifecycle, then end this one, in one critical
\* section: no moment shows neither of them in progress.
TrackHandover(job, others) ==
  /\ initiated' = initiated \cup others
  /\ ended' = (ended \ others) \cup {job}
  /\ inProgress' = (inProgress \cup others)
                     \ (IF job \in initiated \cup others THEN {job} ELSE {})

\* add_job_completed: a job that spawns itself stays in progress.
TrackCompleted(job, children) ==
  LET others == children \ {job} IN
  IF job \in children
  THEN /\ initiated' = initiated \cup others
       /\ ended' = ended \ others
       /\ inProgress' = inProgress \cup others
  ELSE TrackHandover(job, others)

\* Faulty variant: a job that replaces itself is ended.
TrackRetriedEnds(job, other) == TrackHandover(job, {other})

\* add_job_retried: a job that replaces itself stays in progress.
TrackRetried(job, other) ==
  IF job = other THEN UNCHANGED tracking ELSE TrackHandover(job, {other})

\* any_in_progress_job_with_tags
InProgress(tags) == \E job \in inProgress : TagsOf[job] \cap tags # {}

-----------------------------------------------------------------------------
(* The main thread's steps with the reports they make *)

TInit ==
  /\ Init
  /\ initiated = {} /\ ended = {} /\ inProgress = {}

\* A new execution has a new InstallationReportImpl.
TExecuteJobs ==
  /\ ExecuteJobs
  /\ initiated' = {} /\ ended' = {} /\ inProgress' = {}

TSubmit ==
  /\ Submit
  /\ LET p == IF prioQ # <<>> THEN Head(prioQ) ELSE Head(normQ) IN
     IF HasCycle(p) THEN TrackEnded({JobOf(p)}) ELSE UNCHANGED tracking

THandleStarted == HandleStarted /\ TrackStarted(JobOf(Front.pkg))

TRecordCompleted ==
  RecordCompleted /\ TrackCompleted(JobOf(spawner), ToSet(nextJobs))

\* add_job_failed when the jobs were cancelled; otherwise the report is to come.
TrackReturnedError(p) == IF cancelled THEN TrackEnded({JobOf(p)}) ELSE UNCHANGED tracking

THandleError == HandleError /\ TrackReturnedError(Front.pkg)

\* add_job_retried, or add_job_failed when there is no replacement.
TFinishRetry ==
  /\ FinishRetry
  /\ IF Replaceable(retrying) THEN TrackRetried(JobOf(retrying), Replacement(retrying))
     ELSE TrackEnded({JobOf(retrying)})

TReapFuture(p) ==
  /\ ReapFuture(p)
  /\ CASE pkg[p].fut = "raised" -> TrackReturnedError(p)
       [] pkg[p].fut = "aborted" -> TrackEnded({JobOf(p)})
       [] OTHER -> UNCHANGED tracking

TCancelFuture(p) ==
  /\ CancelFuture(p)
  /\ IF pkg[p].fut \in {"raised", "aborted"} THEN TrackEnded({JobOf(p)})
     ELSE UNCHANGED tracking

\* add_jobs_cancelled, for all the cancelled jobs together.
TEndExecution ==
  /\ EndExecution
  /\ TrackEnded({JobOf(p) : p \in {q \in Pkgs : \/ pkg[q].outcome = "cancelled"
                                                \/ InQueue(q)}})

TSilent ==
  /\ \/ PushJob \/ Loop \/ EndSubmit \/ HandleCompleted \/ HandleCancelled
     \/ HandleNothing \/ CheckClock \/ EndCancelling
  /\ UNCHANGED tracking

TMain ==
  \/ TSilent \/ TExecuteJobs \/ TSubmit \/ THandleStarted
  \/ TRecordCompleted \/ THandleError \/ TFinishRetry \/ TEndExecution
  \/ \E p \in scan : TReapFuture(p) \/ TCancelFuture(p)

-----------------------------------------------------------------------------
(* Workers that wait *)

Waiting(p) == pkg[p].fut = "running" /\ InProgress(WaitsFor[JobOf(p)])

TWorker(p) ==
  /\ p \in Pkgs
  /\ \/ StartWork(p) \/ NotifyCompleted(p) \/ ExitWork(p)
     \/ ~Waiting(p) /\ (Return(p) \/ NotifyError(p) \/ Raise(p))
     \/ Waiting(p) /\ WaitTimedOut(p)
  /\ UNCHANGED tracking

TEnvironment ==
  /\ Signal \/ \E p \in Pkgs : ~Waiting(p) /\ TrackActivity(p)
  /\ UNCHANGED tracking

TNext == TMain \/ (\E p \in Pkgs : TWorker(p)) \/ TEnvironment

TSpec == TInit /\ [][TNext]_tagVars

-----------------------------------------------------------------------------
(* Properties *)

\* The values the tag tracking ranges over.
TagsTypeOK ==
  /\ TypeOK
  /\ initiated \subseteq Job /\ ended \subseteq Job /\ inProgress \subseteq Job

\* The jobs of a tag, and those whose worker waits for it.
Tagged(t) == {job \in Job : t \in TagsOf[job]}
Waiters(t) == {job \in Job : t \in WaitsFor[job]}
AtMostOneOf(jobs, S) == \A i, j \in DOMAIN jobs : jobs[i] \in S /\ jobs[j] \in S => i = j

\* What a barrier needs of the jobs, given those that lead up to a tag: there is one
\* of these at a time, the last of them spawns the first job of the tag together
\* with those that wait, and a job of the tag spawns or leaves one more at most.  So
\* it is with zips: ProcessDbMainWorker makes one job per tag and the WaitDbZipsJob,
\* and the transfer of a summary, its opening and the index follow each other.
InLine(t, ahead) ==
  LET later == Tagged(t) \cup Waiters(t) IN
  /\ ahead \cap later = {} /\ Tagged(t) \cap Waiters(t) = {}
  /\ ToSet(Roots) \cap later = {} /\ AtMostOneOf(Roots, ahead)
  /\ \A job \in Job : \A jobs \in Results[job] :
       /\ AtMostOneOf(jobs, ahead) /\ AtMostOneOf(jobs, Tagged(t))
       /\ ToSet(jobs) \cap ahead # {} => job \in ahead /\ ToSet(jobs) \cap later = {}
       /\ ToSet(jobs) \cap Tagged(t) # {} => job \in ahead \cup Tagged(t)
       /\ ToSet(jobs) \cap Waiters(t) # {} => job \in ahead \cup Waiters(t)
  /\ \A S \in {ahead, Tagged(t), Waiters(t)} : \A job \in Job :
       {RetryOf[job], BackupOf[job]} \cap S # {} => job \in S

\* A worker gets past its wait only when no job with an awaited tag is open,
\* whether queued, submitted, at work or about to be retried.
WaitIsBarrier ==
  [][\A p \in Pkgs :
       pkg[p].fut = "running" /\ pkg'[p].fut = "returning" =>
         \A q \in Pkgs : Open(q) => TagsOf[JobOf(q)] \cap WaitsFor[JobOf(p)] = {}
    ]_tagVars

\* No tag stays in progress when the execution is over, although the start of
\* a job may be reported after its end.
TagsReleased == pc = "idle" => inProgress = {}

\* Waiting lets other jobs progress: it never happens that every thread in use
\* is held by a worker that waits, no thread is left for what is queued, and
\* nothing remains to be handled that could end a wait, so that only the
\* inactivity timeout helps.
SomeoneProgresses ==
  /\ futures # {} /\ \A p \in futures : Waiting(p)
  /\ Cardinality(futures) = MaxThreads \/ ~HasQueued
  /\ notifs = <<>> /\ spawner = 0 /\ retrying = 0
  => timedOut

=============================================================================
