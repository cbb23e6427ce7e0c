------------------------------ MODULE JobSystem ------------------------------
(***************************************************************************)
(* The concurrent job scheduler of downloader/job_system.py.               *)
(*                                                                         *)
(* One main thread runs execute_jobs: it moves packages from two FIFO      *)
(* queues to at most MaxThreads futures, handles one batch of worker       *)
(* notifications, removes finished futures and checks the inactivity       *)
(* clock, in a loop.  Every future is a worker thread in                   *)
(* _operate_on_next_job.  The threads share the notification queue and the *)
(* cancellation flag.  A package is the number of an entry of pkg; entries *)
(* are never removed, so that what happened to each job stays visible.     *)
(***************************************************************************)
EXTENDS Integers, Sequences, FiniteSets

CONSTANTS
  Job,          \* job objects
  NoJob,        \* the None that retry_job and backup_job may return
  JobType,      \* type ids
  TypeOf,       \* Job -> JobType
  Registered,   \* the type ids a worker is registered for
  Priority,     \* jobs whose priority property is True
  RetryOf,      \* what retry_job returns, per job
  BackupOf,     \* what backup_job returns, per job
  Results,      \* per job, the next_jobs lists its worker may return
  Faulty,       \* jobs whose worker may return an error
  Raising,      \* jobs whose worker may raise
  Waits,        \* jobs whose worker waits for other jobs
  Aborting,     \* jobs whose worker calls cancel_pending_jobs
  Roots,        \* the jobs pushed before each execution
  MaxThreads, MaxTries, MaxCycle,
  MaxQuiet,     \* iterations without a report that make up max_timeout
  MaxRuns,      \* bound: calls of execute_jobs
  FailGracefully,  \* whether fail_policy is FAIL_GRACEFULLY
  Interruptible    \* whether a signal may arrive

ASSUME JobSystemAssumption ==
  /\ NoJob \notin Job
  /\ TypeOf \in [Job -> JobType]
  /\ Registered \subseteq JobType
  /\ Priority \subseteq Job
  /\ RetryOf \in [Job -> Job \cup {NoJob}]
  /\ BackupOf \in [Job -> Job \cup {NoJob}]
  /\ Results \in [Job -> SUBSET Seq(Job)]
  /\ Faulty \subseteq Job /\ Raising \subseteq Job /\ Waits \subseteq Job
  /\ Aborting \subseteq Job
  /\ Roots \in Seq(Job)
  /\ MaxThreads \in Nat \ {0}
  /\ MaxTries \in Nat /\ MaxCycle \in Nat
  /\ MaxQuiet \in Nat \ {0} /\ MaxRuns \in Nat
  /\ FailGracefully \in BOOLEAN /\ Interruptible \in BOOLEAN

VARIABLES
  pkg,        \* every _JobPackage created, in order of creation
  prioQ,      \* _priority_job_queue
  normQ,      \* _normal_job_queue
  futures,    \* packages of the local futures list
  scan,       \* futures the current sweep of that list has not looked at
  notifs,     \* _notifications
  pending,    \* _pending_jobs_amount
  cancelled,  \* _are_jobs_cancelled
  timedOut,   \* _timed_out
  quiet,      \* iterations since _timeout_clock was last moved
  unhandled,  \* whether _unhandled_errors is not empty
  pc,         \* where the main thread is
  spawner,    \* completed package whose children are being pushed, or 0
  rest,       \* jobs still to be pushed by it, or by push_jobs when 0
  nextJobs,   \* its children that were pushed: next_jobs as it is reported
  retrying,   \* failed package that is about to be retried, or 0
  runs        \* calls of execute_jobs so far

mainVars == <<futures, scan, timedOut, pc, spawner, rest, nextJobs, retrying, runs>>
vars == <<pkg, prioQ, normQ, futures, scan, notifs, pending, cancelled,
          timedOut, quiet, unhandled, pc, spawner, rest, nextJobs, retrying, runs>>

-----------------------------------------------------------------------------
(* Packages *)

Futs == {"queued", "submitted", "running", "returning", "notified", "done",
         "raised", "aborted", "dropped"}
Outcomes == {"none", "completed", "failed", "retried", "cancelled"}
Kinds == {"started", "completed", "error", "cancelled"}

Pkgs == DOMAIN pkg

\* The types of the ancestors, counted: what a walk up the parent links finds.
NoLineage == [t \in JobType |-> 0]

NewPackage(job, tries, lineage) ==
  [job |-> job, tries |-> tries, lineage |-> lineage, next |-> <<>>,
   fut |-> "queued", outcome |-> "none", ends |-> 0]

WithFut(p, f) == [pkg EXCEPT ![p].fut = f]

\* The package's outcome is reported; ends counts such reports.
Ended(p, f, outcome) ==
  [pkg EXCEPT ![p].fut = f, ![p].outcome = outcome, ![p].ends = @ + 1]

Settled(p, outcome) == Ended(p, pkg[p].fut, outcome)

Enqueue(p, job) ==
  IF job \in Priority
  THEN prioQ' = Append(prioQ, p) /\ UNCHANGED normQ
  ELSE normQ' = Append(normQ, p) /\ UNCHANGED prioQ

Notify(kind, p) == notifs' = Append(notifs, [kind |-> kind, pkg |-> p])

HasQueued == prioQ # <<>> \/ normQ # <<>>

\* Counting upwards stops when a type id was already seen MaxCycle times.
HasCycle(p) == \E t \in JobType : pkg[p].lineage[t] > MaxCycle

ChildLineage(p) ==
  IF p = 0 THEN NoLineage
  ELSE [pkg[p].lineage EXCEPT ![TypeOf[pkg[p].job]] = @ + 1]

ChildTries(p) == IF p = 0 THEN 0 ELSE pkg[p].tries

-----------------------------------------------------------------------------
Init ==
  /\ pkg = <<>> /\ prioQ = <<>> /\ normQ = <<>>
  /\ futures = {} /\ scan = {} /\ notifs = <<>>
  /\ pending = 0 /\ cancelled = FALSE /\ timedOut = FALSE
  /\ quiet = 0 /\ unhandled = FALSE
  /\ pc = "idle" /\ spawner = 0 /\ rest = Roots /\ nextJobs = <<>>
  /\ retrying = 0 /\ runs = 0

-----------------------------------------------------------------------------
(* Pushing: push_jobs before an execution, next_jobs of a completed package *)

\* _internal_push_job for the next job of rest.
PushJob ==
  /\ rest # <<>>
  /\ LET job == Head(rest) IN
       IF TypeOf[job] \in Registered
       THEN /\ pkg' = Append(pkg, NewPackage(job, ChildTries(spawner),
                                             ChildLineage(spawner)))
            /\ Enqueue(Len(pkg) + 1, job)
            /\ pending' = pending + 1
            /\ nextJobs' = IF spawner = 0 THEN <<>> ELSE Append(nextJobs, job)
            /\ UNCHANGED unhandled
       ELSE /\ unhandled' = TRUE
            /\ UNCHANGED <<pkg, prioQ, normQ, pending, nextJobs>>
  /\ rest' = Tail(rest)
  /\ UNCHANGED <<futures, scan, notifs, cancelled, timedOut, quiet, pc,
                 spawner, retrying, runs>>

ExecuteJobs ==
  /\ pc = "idle" /\ rest = <<>> /\ runs < MaxRuns
  /\ pc' = "loop" /\ runs' = runs + 1
  /\ cancelled' = FALSE /\ timedOut' = FALSE /\ unhandled' = FALSE /\ quiet' = 0
  /\ UNCHANGED <<pkg, prioQ, normQ, futures, scan, notifs, pending, spawner,
                 rest, nextJobs, retrying>>

-----------------------------------------------------------------------------
(* The main thread in _execute_with_threads *)

\* The condition of the loop.  Leaving it cancelled interrupts the ongoing
\* activities and turns to the futures that are left.
Loop ==
  /\ pc = "loop"
  /\ \/ /\ pending > 0 \/ futures # {}
        /\ ~cancelled
        /\ pc' = "submit" /\ UNCHANGED scan
     \/ /\ cancelled
        /\ pc' = "cancelling" /\ scan' = futures
     \/ /\ pending = 0 /\ futures = {} /\ ~cancelled
        /\ pc' = "drain" /\ UNCHANGED scan
  /\ quiet' = IF cancelled THEN 0 ELSE quiet
  /\ UNCHANGED <<pkg, prioQ, normQ, futures, notifs, pending, cancelled,
                 timedOut, unhandled, spawner, rest, retrying, runs, nextJobs>>

\* Pop the next package, priority first, and submit it unless it is a cycle.
Submit ==
  /\ pc = "submit" /\ HasQueued /\ Cardinality(futures) < MaxThreads
  /\ LET p == IF prioQ # <<>> THEN Head(prioQ) ELSE Head(normQ) IN
       /\ IF prioQ # <<>> THEN prioQ' = Tail(prioQ) /\ UNCHANGED normQ
                          ELSE normQ' = Tail(normQ) /\ UNCHANGED prioQ
       /\ IF HasCycle(p)
          THEN /\ pkg' = Ended(p, "dropped", "failed")
               /\ pending' = pending - 1
               /\ unhandled' = TRUE /\ quiet' = 0
               /\ UNCHANGED futures
          ELSE /\ pkg' = WithFut(p, "submitted")
               /\ futures' = futures \cup {p}
               /\ UNCHANGED <<pending, unhandled, quiet>>
  /\ UNCHANGED <<scan, notifs, cancelled, timedOut, pc, spawner, rest, retrying, runs,
                 nextJobs>>

EndSubmit ==
  /\ pc = "submit"
  /\ ~HasQueued \/ Cardinality(futures) >= MaxThreads
  /\ pc' = "handle"
  /\ UNCHANGED <<pkg, prioQ, normQ, futures, scan, notifs, pending, cancelled,
                 timedOut, quiet, unhandled, spawner, rest, retrying, runs, nextJobs>>

-----------------------------------------------------------------------------
(* _handle_notifications: blocking in the loop, not blocking in the drain *)

Handling ==
  pc \in {"handle", "drain"} /\ spawner = 0 /\ retrying = 0 /\ notifs # <<>>
Front == Head(notifs)

\* Blocking, one notification that is not a start ends the batch.
AfterHandled ==
  IF pc = "handle" THEN pc' = "reap" /\ scan' = futures
                   ELSE UNCHANGED <<pc, scan>>

HandleStarted ==
  /\ Handling /\ Front.kind = "started"
  /\ notifs' = Tail(notifs)
  /\ quiet' = 0
  /\ UNCHANGED <<pkg, prioQ, normQ, futures, scan, pending, cancelled,
                 timedOut, unhandled, pc, spawner, rest, retrying, runs, nextJobs>>

\* Faulty variant: children are pushed although the jobs were cancelled.
HandleCompletedAlways ==
  /\ Handling /\ Front.kind = "completed"
  /\ notifs' = Tail(notifs)
  /\ spawner' = Front.pkg /\ rest' = pkg[Front.pkg].next
  /\ UNCHANGED <<pkg, prioQ, normQ, futures, scan, pending, cancelled,
                 timedOut, quiet, unhandled, pc, retrying, runs, nextJobs>>

\* A package that completes after a cancellation spawns nothing.
HandleCompleted ==
  /\ Handling /\ Front.kind = "completed"
  /\ notifs' = Tail(notifs)
  /\ spawner' = Front.pkg
  /\ rest' = IF cancelled THEN <<>> ELSE pkg[Front.pkg].next
  /\ UNCHANGED <<pkg, prioQ, normQ, futures, scan, pending, cancelled,
                 timedOut, quiet, unhandled, pc, retrying, runs, nextJobs>>

\* All children are pushed: only now is the completion recorded.
RecordCompleted ==
  /\ spawner # 0 /\ rest = <<>>
  /\ pkg' = Settled(spawner, "completed")
  /\ pending' = pending - 1
  /\ quiet' = 0
  /\ spawner' = 0 /\ nextJobs' = <<>>
  /\ AfterHandled
  /\ UNCHANGED <<prioQ, normQ, futures, notifs, cancelled, timedOut,
                 unhandled, rest, retrying, runs>>

HandleCancelled ==
  /\ Handling /\ Front.kind = "cancelled"
  /\ notifs' = Tail(notifs)
  /\ pkg' = Settled(Front.pkg, "cancelled")
  /\ AfterHandled
  /\ UNCHANGED <<prioQ, normQ, futures, pending, cancelled, timedOut, quiet,
                 unhandled, spawner, rest, retrying, runs, nextJobs>>

\* Faulty variant: one try too many.
MayRetryOnceMore(p) == pkg[p].tries <= MaxTries /\ RetryOf[pkg[p].job] # NoJob

\* The job _retry_package queues instead of the failed one, and its tries.
MayRetry(p) == pkg[p].tries < MaxTries /\ RetryOf[pkg[p].job] # NoJob
Replacement(p) == IF MayRetry(p) THEN RetryOf[pkg[p].job] ELSE BackupOf[pkg[p].job]
ReplacementTries(p) == IF MayRetry(p) THEN pkg[p].tries + 1 ELSE 0
Replaceable(p) == Replacement(p) # NoJob /\ TypeOf[Replacement(p)] \in Registered

\* The replacement has no worker: reported as an unhandled error.
NoWorkerForRetry(p) == Replacement(p) # NoJob /\ ~Replaceable(p)

\* Faulty variants: the pending jobs are counted down for a failure that is
\* retried, or not even for one that is final.
RetryPackageCounts(p) ==
  /\ pending' = pending - 1
  /\ IF Replaceable(p)
     THEN /\ pkg' = Append(Settled(p, "retried"),
                           NewPackage(Replacement(p), ReplacementTries(p), NoLineage))
          /\ Enqueue(Len(pkg) + 1, Replacement(p))
     ELSE pkg' = Settled(p, "failed") /\ UNCHANGED <<prioQ, normQ>>

RetryPackageUncounted(p) ==
  /\ UNCHANGED pending
  /\ IF Replaceable(p)
     THEN /\ pkg' = Append(Settled(p, "retried"),
                           NewPackage(Replacement(p), ReplacementTries(p), NoLineage))
          /\ Enqueue(Len(pkg) + 1, Replacement(p))
     ELSE pkg' = Settled(p, "failed") /\ UNCHANGED <<prioQ, normQ>>

\* _retry_package behind its test of the cancellation, and the report: retry with
\* a package that has no parent, or fail.
RetryPackage(p) ==
  IF Replaceable(p)
  THEN /\ pkg' = Append(Settled(p, "retried"),
                        NewPackage(Replacement(p), ReplacementTries(p), NoLineage))
       /\ Enqueue(Len(pkg) + 1, Replacement(p))
       /\ UNCHANGED pending
  ELSE /\ pkg' = Settled(p, "failed")
       /\ pending' = pending - 1
       /\ UNCHANGED <<prioQ, normQ>>

\* _handle_returned_error: the jobs were cancelled and the package fails, or the
\* main thread goes on to retry it, which no later cancellation stops.
ReturnedError(p) ==
  /\ IF cancelled
     THEN /\ pkg' = Settled(p, "failed") /\ pending' = pending - 1
          /\ quiet' = 0 /\ UNCHANGED retrying
     ELSE retrying' = p /\ UNCHANGED <<pkg, pending, quiet>>
  /\ UNCHANGED <<prioQ, normQ>>

HandleError ==
  /\ Handling /\ Front.kind = "error"
  /\ notifs' = Tail(notifs)
  /\ ReturnedError(Front.pkg)
  /\ AfterHandled
  /\ UNCHANGED <<futures, cancelled, timedOut, unhandled, spawner, rest, runs, nextJobs>>

\* The main thread goes on with the retry before it does anything else.
FinishRetry ==
  /\ retrying # 0
  /\ RetryPackage(retrying)
  /\ retrying' = 0 /\ quiet' = 0
  /\ unhandled' = (unhandled \/ NoWorkerForRetry(retrying))
  /\ UNCHANGED <<futures, scan, notifs, cancelled, timedOut, pc, spawner, rest, runs,
                 nextJobs>>

\* queue.Empty after wait_time seconds.
HandleNothing ==
  /\ pc = "handle" /\ spawner = 0 /\ notifs = <<>>
  /\ quiet' = quiet + 1
  /\ pc' = "reap" /\ scan' = futures
  /\ UNCHANGED <<pkg, prioQ, normQ, futures, notifs, pending, cancelled,
                 timedOut, unhandled, spawner, rest, retrying, runs, nextJobs>>

-----------------------------------------------------------------------------
(* _remove_done_futures, then the clock *)

\* Faulty variant: the package of a worker that aborted is not reported.
ReapFutureForgetsAbort(p) ==
  /\ pc = "reap" /\ retrying = 0 /\ p \in scan
  /\ scan' = scan \ {p}
  /\ IF pkg[p].fut = "raised"
     THEN ReturnedError(p) /\ unhandled' = TRUE /\ futures' = futures \ {p}
     ELSE /\ futures' = IF pkg[p].fut \in {"done", "aborted"} THEN futures \ {p}
                        ELSE futures
          /\ UNCHANGED <<pkg, prioQ, normQ, pending, unhandled, quiet, retrying>>
  /\ UNCHANGED <<notifs, cancelled, timedOut, pc, spawner, rest, runs, nextJobs>>

\* A worker that raised was not able to notify: the sweep settles its package.
ReapFuture(p) ==
  /\ pc = "reap" /\ retrying = 0 /\ p \in scan
  /\ scan' = scan \ {p}
  /\ \/ /\ pkg[p].fut = "raised"
        /\ ReturnedError(p)
        /\ futures' = futures \ {p}
        /\ unhandled' = TRUE
     \/ /\ pkg[p].fut = "aborted"
        /\ pkg' = Settled(p, "failed")
        /\ pending' = pending - 1
        /\ futures' = futures \ {p}
        /\ unhandled' = TRUE /\ quiet' = 0
        /\ UNCHANGED <<prioQ, normQ, retrying>>
     \/ /\ pkg[p].fut = "done"
        /\ futures' = futures \ {p}
        /\ UNCHANGED <<pkg, prioQ, normQ, pending, unhandled, quiet, retrying>>
     \/ /\ pkg[p].fut \in {"submitted", "running", "returning", "notified"}
        /\ UNCHANGED <<pkg, prioQ, normQ, pending, unhandled, quiet, futures, retrying>>
  /\ UNCHANGED <<notifs, cancelled, timedOut, pc, spawner, rest, runs, nextJobs>>

\* Faulty variant: the timeout cancels the jobs but is not remembered.
CheckClockForgets ==
  /\ pc = "reap" /\ retrying = 0 /\ scan = {}
  /\ cancelled' = (cancelled \/ quiet >= MaxQuiet \/ (FailGracefully /\ unhandled))
  /\ pc' = "loop"
  /\ UNCHANGED <<pkg, prioQ, normQ, futures, scan, notifs, pending, timedOut,
                 quiet, unhandled, spawner, rest, retrying, runs, nextJobs>>

\* _check_clock, and what FAIL_GRACEFULLY does with an unhandled error.
CheckClock ==
  /\ pc = "reap" /\ retrying = 0 /\ scan = {}
  /\ timedOut' = (timedOut \/ quiet >= MaxQuiet)
  /\ cancelled' = \/ cancelled
                  \/ quiet >= MaxQuiet
                  \/ FailGracefully /\ unhandled
  /\ pc' = "loop"
  /\ UNCHANGED <<pkg, prioQ, normQ, futures, scan, notifs, pending, quiet,
                 unhandled, spawner, rest, retrying, runs, nextJobs>>

-----------------------------------------------------------------------------
(* The end of an execution *)

\* Faulty variant: the exception of a future is not retrieved.
CancelFutureIgnoresRaise(p) ==
  /\ pc = "cancelling" /\ p \in scan
  /\ scan' = scan \ {p}
  /\ \/ pkg[p].fut = "submitted" /\ pkg' = Ended(p, "dropped", "cancelled")
     \/ pkg[p].fut = "done" /\ UNCHANGED pkg
  /\ UNCHANGED <<prioQ, normQ, futures, notifs, pending, cancelled, timedOut,
                 quiet, unhandled, pc, spawner, rest, retrying, runs, nextJobs>>

\* _cancel_futures: future.cancel() works while no thread has taken it; any
\* other future is waited for, so this step is not enabled until it is done.
CancelFuture(p) ==
  /\ pc = "cancelling" /\ p \in scan
  /\ scan' = scan \ {p}
  /\ \/ /\ pkg[p].fut = "submitted"
        /\ pkg' = Ended(p, "dropped", "cancelled")
        /\ UNCHANGED <<pending, unhandled, quiet>>
     \/ /\ pkg[p].fut \in {"raised", "aborted"}
        /\ pkg' = Settled(p, "failed")
        /\ pending' = pending - 1
        /\ unhandled' = TRUE /\ quiet' = 0
     \/ /\ pkg[p].fut = "done"
        /\ UNCHANGED <<pkg, pending, unhandled, quiet>>
  /\ UNCHANGED <<prioQ, normQ, futures, notifs, cancelled, timedOut, pc,
                 spawner, rest, retrying, runs, nextJobs>>

EndCancelling ==
  /\ pc = "cancelling" /\ scan = {}
  /\ futures' = {}
  /\ pc' = "drain"
  /\ UNCHANGED <<pkg, prioQ, normQ, scan, notifs, pending, cancelled,
                 timedOut, quiet, unhandled, spawner, rest, retrying, runs, nextJobs>>

InQueue(p) == \/ \E i \in 1..Len(prioQ) : prioQ[i] = p
              \/ \E i \in 1..Len(normQ) : normQ[i] = p

\* Faulty variant: the queues are cleared and their jobs forgotten.
EndExecutionForgets ==
  /\ pc = "drain" /\ spawner = 0 /\ retrying = 0 /\ notifs = <<>>
  /\ prioQ' = <<>> /\ normQ' = <<>>
  /\ pc' = "idle"
  /\ rest' = IF runs < MaxRuns THEN Roots ELSE <<>>
  /\ UNCHANGED <<pkg, futures, scan, notifs, pending, cancelled, timedOut, quiet,
                 unhandled, spawner, retrying, runs, nextJobs>>

\* The drain found the last notification: what is still queued is cancelled.
\* pending is left as it is.
EndExecution ==
  /\ pc = "drain" /\ spawner = 0 /\ retrying = 0 /\ notifs = <<>>
  /\ pkg' = [p \in Pkgs |->
               IF InQueue(p)
               THEN [pkg[p] EXCEPT !.fut = "dropped", !.outcome = "cancelled",
                                   !.ends = @ + 1]
               ELSE pkg[p]]
  /\ prioQ' = <<>> /\ normQ' = <<>>
  /\ pc' = "idle"
  /\ rest' = IF runs < MaxRuns THEN Roots ELSE <<>>
  /\ UNCHANGED <<futures, scan, notifs, pending, cancelled, timedOut, quiet,
                 unhandled, spawner, retrying, runs, nextJobs>>

-----------------------------------------------------------------------------
(* Worker threads: _operate_on_next_job *)

\* Faulty variant: a worker that finds the jobs cancelled says so and goes on.
StartWorkAnyway(p) ==
  /\ p \in Pkgs /\ pkg[p].fut = "submitted"
  /\ Notify(IF cancelled THEN "cancelled" ELSE "started", p)
  /\ pkg' = WithFut(p, "running")
  /\ UNCHANGED <<prioQ, normQ, pending, cancelled, quiet, unhandled, mainVars>>

StartWork(p) ==
  /\ p \in Pkgs /\ pkg[p].fut = "submitted"
  /\ IF cancelled
     THEN Notify("cancelled", p) /\ pkg' = WithFut(p, "notified")
     ELSE Notify("started", p) /\ pkg' = WithFut(p, "running")
  /\ UNCHANGED <<prioQ, normQ, pending, cancelled, quiet, unhandled, mainVars>>

\* operate_on returns next_jobs and no error; AbortWorker cancels on its way.
Return(p) ==
  /\ p \in Pkgs /\ pkg[p].fut = "running"
  /\ \E jobs \in Results[pkg[p].job] :
       pkg' = [pkg EXCEPT ![p].fut = "returning", ![p].next = jobs]
  /\ cancelled' = (cancelled \/ pkg[p].job \in Aborting)
  /\ UNCHANGED <<prioQ, normQ, notifs, pending, quiet, unhandled, mainVars>>

NotifyCompleted(p) ==
  /\ p \in Pkgs /\ pkg[p].fut = "returning"
  /\ Notify("completed", p)
  /\ pkg' = WithFut(p, "notified")
  /\ UNCHANGED <<prioQ, normQ, pending, cancelled, quiet, unhandled, mainVars>>

NotifyError(p) ==
  /\ p \in Pkgs /\ pkg[p].fut = "running" /\ pkg[p].job \in Faulty
  /\ Notify("error", p)
  /\ pkg' = WithFut(p, "notified")
  /\ UNCHANGED <<prioQ, normQ, pending, cancelled, quiet, unhandled, mainVars>>

\* operate_on raises, a JobSystemAbortException or something else.
Raise(p) ==
  /\ p \in Pkgs /\ pkg[p].fut = "running" /\ pkg[p].job \in Raising
  /\ \E f \in {"raised", "aborted"} : pkg' = WithFut(p, f)
  /\ UNCHANGED <<prioQ, normQ, notifs, pending, cancelled, quiet, unhandled,
                 mainVars>>

\* wait_for_other_jobs raises CantWaitWhenTimedOut.
WaitTimedOut(p) ==
  /\ p \in Pkgs /\ pkg[p].fut = "running" /\ pkg[p].job \in Waits /\ timedOut
  /\ pkg' = WithFut(p, "aborted")
  /\ UNCHANGED <<prioQ, normQ, notifs, pending, cancelled, quiet, unhandled,
                 mainVars>>

\* The thread leaves _operate_on_next_job: future.done() becomes true.
ExitWork(p) ==
  /\ p \in Pkgs /\ pkg[p].fut = "notified"
  /\ pkg' = WithFut(p, "done")
  /\ UNCHANGED <<prioQ, normQ, notifs, pending, cancelled, quiet, unhandled,
                 mainVars>>

\* A worker reports progress to the ActivityTracker.
TrackActivity(p) ==
  /\ p \in Pkgs /\ pkg[p].fut = "running" /\ quiet > 0
  /\ quiet' = 0
  /\ UNCHANGED <<pkg, prioQ, normQ, notifs, pending, cancelled, unhandled,
                 mainVars>>

\* _signal_handler, while the temporary handlers are installed.
Signal ==
  /\ Interruptible /\ pc \notin {"idle", "drain"}
  /\ ~cancelled
  /\ cancelled' = TRUE
  /\ UNCHANGED <<pkg, prioQ, normQ, notifs, pending, quiet, unhandled, mainVars>>

-----------------------------------------------------------------------------
Main ==
  \/ PushJob \/ ExecuteJobs \/ Loop \/ Submit \/ EndSubmit
  \/ HandleStarted \/ HandleCompleted \/ RecordCompleted
  \/ HandleCancelled \/ HandleError \/ FinishRetry \/ HandleNothing
  \/ \E p \in scan : ReapFuture(p)
  \/ CheckClock
  \/ \E p \in scan : CancelFuture(p)
  \/ EndCancelling \/ EndExecution

Worker(p) ==
  \/ StartWork(p) \/ Return(p) \/ NotifyCompleted(p) \/ NotifyError(p)
  \/ Raise(p) \/ WaitTimedOut(p) \/ ExitWork(p)

Next ==
  \/ Main
  \/ \E p \in Pkgs : Worker(p) \/ TrackActivity(p)
  \/ Signal

Spec == Init /\ [][Next]_vars

-----------------------------------------------------------------------------
(* Properties *)

Package ==
  [job : Job, tries : 0..MaxTries, lineage : [JobType -> Nat],
   next : Seq(Job), fut : Futs, outcome : Outcomes, ends : Nat]

Phases == {"idle", "loop", "submit", "handle", "reap", "cancelling", "drain"}

\* The values the state of the scheduler ranges over.
TypeOK ==
  /\ pkg \in Seq(Package)
  /\ prioQ \in Seq(Pkgs) /\ normQ \in Seq(Pkgs)
  /\ futures \in SUBSET Pkgs /\ scan \in SUBSET futures
  /\ notifs \in Seq([kind : Kinds, pkg : Pkgs])
  /\ pending \in Int /\ quiet \in Nat /\ runs \in Nat
  /\ cancelled \in BOOLEAN /\ timedOut \in BOOLEAN /\ unhandled \in BOOLEAN
  /\ pc \in Phases
  /\ spawner \in Pkgs \cup {0} /\ retrying \in Pkgs \cup {0}
  /\ rest \in Seq(Job) /\ nextJobs \in Seq(Job)

Open(p) == pkg[p].outcome = "none"

\* No job gets two outcomes: a package is reported completed, failed, retried
\* or cancelled at most once, whichever of the notification handler, the sweep
\* of finished futures, the cancellation of futures and the final clearing of
\* the queues comes to it.
SettledOnce == \A p \in Pkgs : pkg[p].ends <= 1

\* _pending_jobs_amount, which keeps the main loop alive, is the number of
\* packages without an outcome plus those that were cancelled: a cancelled job
\* is never subtracted.
PendingAccounting ==
  pending = Cardinality({p \in Pkgs : pkg[p].outcome \in {"none", "cancelled"}})

\* When execute_jobs is over, every job it worked on has an outcome; the only
\* open ones are those push_jobs queued for the next execution.
NothingLost == pc = "idle" => \A p \in Pkgs : Open(p) => InQueue(p)

\* An execution that leaves its loop without a cancellation has given every
\* job its outcome and emptied both queues before the final drain; all that
\* the drain can still find is the start of a job whose worker raised.
CleanExit ==
  pc = "drain" /\ ~cancelled =>
    /\ ~HasQueued /\ \A p \in Pkgs : ~Open(p)
    /\ \A i \in 1..Len(notifs) : notifs[i].kind = "started"

Active == {"submitted", "running", "returning", "notified"}

\* After a cancellation nothing is added to the queues and no completion spawns,
\* except for what the main thread had begun when it happened: to push the children
\* of one completion, or to retry one failed job, if the test of the cancellation
\* (job_system.py:242) came before it and the queueing (276) after.
CancelStopsSpawning ==
  [][cancelled /\ rest = <<>> /\ retrying = 0 /\ pc # "idle" =>
       Len(pkg') = Len(pkg) /\ retrying' = 0 /\ (rest' = <<>> \/ pc' = "idle")]_vars

\* A download that fails for good, in an execution nobody cancelled, was
\* retried MaxTries times: the retries are counted per failed download.
RetriesPerDownload ==
  \A p \in Pkgs :
    LET job == pkg[p].job IN
    pkg[p].outcome = "failed" /\ RetryOf[job] = job /\ ~cancelled =>
      MaxTries <= Cardinality({q \in Pkgs : /\ pkg[q].job = job
                                            /\ pkg[q].outcome = "retried"})

\* Whatever workers return, raise or fail at, and whenever a signal arrives,
\* execute_jobs returns: retries, backups and jobs that spawn jobs run out.
ExecutionEnds == pc = "loop" ~> pc = "idle"

\* The strengthening of SettledOnce that every step preserves: where a package
\* is says whether its outcome was reported.

\* A queued package is in one queue, once.
QueuedOnce ==
  /\ \A i, j \in 1..Len(prioQ) : prioQ[i] = prioQ[j] => i = j
  /\ \A i, j \in 1..Len(normQ) : normQ[i] = normQ[j] => i = j
  /\ \A i \in 1..Len(prioQ), j \in 1..Len(normQ) : prioQ[i] # normQ[j]
  /\ \A i \in 1..Len(prioQ) : pkg[prioQ[i]].fut = "queued"
  /\ \A i \in 1..Len(normQ) : pkg[normQ[i]].fut = "queued"

\* Before its worker is done a package has no outcome.
UnsettledBefore ==
  \A p \in Pkgs :
    pkg[p].fut \in {"queued", "submitted", "running", "returning"} => pkg[p].ends = 0

\* At most one notification carries the outcome of a package, and until it is
\* handled the package has none.
Carries(i) == notifs[i].kind # "started"
CarriedOnce ==
  /\ \A i, j \in 1..Len(notifs) :
       Carries(i) /\ Carries(j) /\ notifs[i].pkg = notifs[j].pkg => i = j
  /\ \A i \in 1..Len(notifs) :
       Carries(i) => /\ pkg[notifs[i].pkg].fut \in {"notified", "done"}
                     /\ pkg[notifs[i].pkg].ends = 0
                     /\ notifs[i].pkg \notin {spawner, retrying}

\* The completed package whose children are being pushed has no outcome yet.
SpawnerUnsettled ==
  spawner # 0 => /\ pkg[spawner].fut \in {"notified", "done"}
                 /\ pkg[spawner].ends = 0

\* Neither has the failed package that is about to be retried; the sweep that
\* found its exception dropped its future.
RetryingUnsettled ==
  retrying # 0 => /\ pkg[retrying].fut \in {"notified", "done", "raised"}
                  /\ pkg[retrying].fut = "raised" => retrying \notin futures
                  /\ pkg[retrying].ends = 0
                  /\ retrying # spawner

\* A worker's exception is accounted for by the one sweep that drops its future.
RaisedOnce ==
  \A p \in Pkgs :
    pkg[p].fut \in {"raised", "aborted"} /\ pkg[p].ends # 0 =>
      p \notin futures \/ (pc = "cancelling" /\ p \notin scan)

SettledInv ==
  /\ TypeOK /\ SettledOnce /\ QueuedOnce /\ UnsettledBefore
  /\ CarriedOnce /\ SpawnerUnsettled /\ RetryingUnsettled /\ RaisedOnce

\* The scheduler implements the ledger of job outcomes.
Ledger == INSTANCE JobLedger
  WITH status <- [p \in Pkgs |-> pkg[p].outcome], executing <- (pc # "idle")
ImplementsLedger == Ledger!Spec

=============================================================================
