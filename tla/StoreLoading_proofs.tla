-------------------------- MODULE StoreLoading_proofs --------------------------
(***************************************************************************)
(* Proofs about JobTags and StoreLoading, for every set of jobs, tags and  *)
(* databases: both only restrict the scheduler, so that what is proved of  *)
(* it holds of them; no tag outlives the execution; the local store is     *)
(* loaded once; waiting for the jobs of a tag is a barrier.                *)
(***************************************************************************)
EXTENDS StoreLoading, JobLedger_proofs

-----------------------------------------------------------------------------
(* The scheduler's invariant holds of both *)

\* What tracks the tags makes the steps of the scheduler, or none.
LEMMA TrackedStep == TNext => Next
<1> SUFFICES ASSUME TNext PROVE Next
  OBVIOUS
<1>1. CASE TMain
  BY <1>1 DEF TMain, TSilent, TExecuteJobs, TSubmit, THandleStarted, TRecordCompleted,
     THandleError, TFinishRetry, TEndExecution, TReapFuture, TCancelFuture, Next, Main
<1>2. ASSUME NEW p \in Pkgs, TWorker(p) PROVE Next
  BY <1>2 DEF TWorker, Next, Worker
<1>3. CASE TEnvironment
  BY <1>3 DEF TEnvironment, Next
<1> QED
  BY <1>1, <1>2, <1>3 DEF TNext

\* So does what loads the store.
LEMMA LoadingStep == SNext => TNext
<1> SUFFICES ASSUME SNext PROVE TNext
  OBVIOUS
<1>1. ASSUME NEW p \in Pkgs, SWorker(p) PROVE TNext
  BY <1>1 DEF SWorker, OpenDbReturns, LoadReturns, MixReturns, OtherWork, TNext
<1> QED
  BY <1>1 DEF SNext, SMain, SEnvironment, TNext

\* Tracking the tags only restricts the scheduler: all that is proved of it,
\* the ledger of outcomes included, holds when workers wait for each other.
THEOREM TagsRestrictScheduler == TSpec => Spec
<1>1. TInit => Init
  BY DEF TInit
<1>2. [TNext]_tagVars => [Next]_vars
  BY TrackedStep DEF tagVars
<1> QED
  BY <1>1, <1>2, PTL DEF TSpec, Spec

\* And so does loading the local store.
THEOREM LoadingRestrictsTags == SSpec => TSpec
<1>1. SInit => TInit
  BY DEF SInit
<1>2. [SNext]_storeVars => [TNext]_tagVars
  BY LoadingStep DEF storeVars
<1> QED
  BY <1>1, <1>2, PTL DEF SSpec, TSpec

-----------------------------------------------------------------------------
(* What a step does to the jobs of the packages *)

\* The job of a package, and what its worker spawned, do not change.
Kept(q) == pkg'[q].job = pkg[q].job /\ pkg'[q].next = pkg[q].next
Steady == Pkgs' = Pkgs /\ \A q \in Pkgs : Kept(q)

\* Moving a package on keeps the jobs and the outcomes.
LEMMA MovedKeeps ==
  ASSUME TypeOK, NEW p \in Pkgs, NEW f \in Futs, pkg' = WithFut(p, f)
  PROVE  /\ Steady /\ \A q \in Pkgs : pkg'[q].outcome = pkg[q].outcome
         /\ pkg'[p].fut = f /\ \A q \in Pkgs : q # p => pkg'[q] = pkg[q]
<1>1. pkg \in Seq(Package) /\ pkg[p] \in Package
  BY PkgEntries DEF TypeOK
<1>2. /\ Pkgs' = Pkgs /\ \A q \in Pkgs : q # p => pkg'[q] = pkg[q]
      /\ pkg'[p].outcome = pkg[p].outcome /\ pkg'[p].fut = f
  BY <1>1, WithFutOK DEF Pkgs
<1>3. pkg'[p] = [pkg[p] EXCEPT !.fut = f]
  BY DEF WithFut, Pkgs
<1>4. Kept(p)
  BY <1>1, <1>3 DEF Kept, Package
<1> QED
  BY <1>2, <1>4 DEF Steady, Kept

\* Reporting the outcome of a package keeps the jobs.
LEMMA EndedKeeps ==
  ASSUME TypeOK, NEW p \in Pkgs, NEW f \in Futs, NEW o \in Outcomes, pkg' = Ended(p, f, o)
  PROVE  /\ Steady /\ pkg'[p].outcome = o /\ pkg'[p].fut = f
         /\ \A q \in Pkgs : q # p => pkg'[q] = pkg[q]
<1>1. pkg \in Seq(Package) /\ pkg[p] \in Package
  BY PkgEntries DEF TypeOK
<1>2. /\ Pkgs' = Pkgs /\ \A q \in Pkgs : q # p => pkg'[q] = pkg[q]
      /\ pkg'[p].outcome = o /\ pkg'[p].fut = f
  BY <1>1, EndedOK DEF Pkgs
<1>3. pkg'[p] = [pkg[p] EXCEPT !.fut = f, !.outcome = o, !.ends = @ + 1]
  BY DEF Ended, Pkgs
<1>4. Kept(p)
  BY <1>1, <1>3 DEF Kept, Package
<1> QED
  BY <1>2, <1>4 DEF Steady, Kept

\* The same when the package stays where it is.
LEMMA SettledKeeps ==
  ASSUME TypeOK, NEW p \in Pkgs, NEW o \in Outcomes, pkg' = Settled(p, o)
  PROVE  /\ Steady /\ pkg'[p].outcome = o /\ pkg'[p].fut = pkg[p].fut
         /\ \A q \in Pkgs : q # p => pkg'[q] = pkg[q]
<1>1. pkg[p].fut \in Futs
  BY PkgEntries DEF TypeOK, Package
<1> QED
  BY <1>1, EndedKeeps DEF Settled

\* A new package, added at the end, is of the given job and spawned nothing.
Grown(job) ==
  /\ Pkgs' = Pkgs \cup {New} /\ \A q \in Pkgs : Kept(q)
  /\ pkg'[New].job = job /\ pkg'[New].next = <<>>
  /\ pkg'[New].outcome = "none" /\ pkg'[New].fut = "queued"

\* Appending makes one.
LEMMA AppendGrows ==
  ASSUME TypeOK, NEW s \in Seq(Package), DOMAIN s = Pkgs, Len(s) = Len(pkg),
         \A q \in Pkgs : s[q].job = pkg[q].job /\ s[q].next = pkg[q].next,
         NEW job \in Job, NEW tries \in 0..MaxTries, NEW lineage \in [JobType -> Nat],
         pkg' = Append(s, NewPackage(job, tries, lineage))
  PROVE  Grown(job) /\ \A q \in Pkgs : pkg'[q] = s[q]
<1> DEFINE r == NewPackage(job, tries, lineage)
<1>1. r \in Package
  BY NewPackageOK
<1>2. r.job = job /\ r.next = <<>> /\ r.outcome = "none" /\ r.fut = "queued"
  BY DEF NewPackage
<1> HIDE DEF r
<1>3. /\ DOMAIN s = 1..Len(s) /\ DOMAIN pkg' = 1..(Len(s) + 1)
      /\ \A q \in DOMAIN s : pkg'[q] = s[q]
      /\ pkg'[Len(s) + 1] = r
  BY <1>1, AppendOK DEF r
<1>4. Pkgs' = Pkgs \cup {New} /\ pkg'[New] = r /\ \A q \in Pkgs : pkg'[q] = s[q]
  BY <1>3, NewOK DEF Pkgs, New
<1> QED
  BY <1>2, <1>4 DEF Grown, Kept

\* So does pushing a job.
LEMMA PushGrows ==
  ASSUME TypeOK, PushJob, TypeOf[Head(rest)] \in Registered
  PROVE  Grown(Head(rest)) /\ \A q \in Pkgs : pkg'[q] = pkg[q]
<1> USE JobSystemAssumption
<1>1. Head(rest) \in Job
  BY HeadTailProperties DEF PushJob, TypeOK
<1>2. pkg \in Seq(Package) /\ \A q \in Pkgs : pkg[q] \in Package
  BY PkgEntries DEF TypeOK
<1>3. ChildTries(spawner) \in 0..MaxTries /\ ChildLineage(spawner) \in [JobType -> Nat]
  <2>1. CASE spawner = 0
    BY <2>1 DEF ChildTries, ChildLineage, NoLineage
  <2>2. CASE spawner # 0
    <3>1. /\ pkg[spawner].tries \in 0..MaxTries
          /\ pkg[spawner].lineage \in [JobType -> Nat]
          /\ TypeOf[pkg[spawner].job] \in JobType
      BY <1>2, <2>2 DEF TypeOK, Package
    <3> QED
      BY <2>2, <3>1 DEF ChildTries, ChildLineage
  <2> QED
    BY <2>1, <2>2
<1>4. pkg' = Append(pkg, NewPackage(Head(rest), ChildTries(spawner), ChildLineage(spawner)))
  BY DEF PushJob
<1> QED
  BY <1>1, <1>2, <1>3, <1>4, AppendGrows DEF Pkgs

\* A failed package keeps its job, and so do the others; what replaces it is
\* new and is the only one that is.
LEMMA RetryKeeps ==
  ASSUME TypeOK, NEW p \in Pkgs, pkg[p].ends = 0, RetryPackage(p)
  PROVE  /\ IF Replaceable(p) THEN Grown(Replacement(p)) /\ pkg'[p].outcome = "retried"
            ELSE Steady /\ pkg'[p].outcome = "failed"
         /\ pkg'[p].fut = pkg[p].fut /\ \A q \in Pkgs : q # p => pkg'[q] = pkg[q]
<1> USE JobSystemAssumption
<1>1. /\ pkg \in Seq(Package) /\ pkg[p] \in Package
      /\ "retried" \in Outcomes /\ "failed" \in Outcomes
  BY PkgEntries DEF TypeOK, Outcomes
<1>2. CASE Replaceable(p)
  <2> DEFINE s == Settled(p, "retried")
  <2>1. pkg[p].job \in Job /\ pkg[p].tries \in 0..MaxTries
    BY <1>1 DEF Package
  <2>2. Replacement(p) \in Job
    BY <1>2, <2>1 DEF Replacement, Replaceable
  <2>3. ReplacementTries(p) \in 0..MaxTries
    BY <2>1 DEF ReplacementTries, MayRetry
  <2>4. NoLineage \in [JobType -> Nat]
    BY DEF NoLineage
  <2>5. pkg' = Append(s, NewPackage(Replacement(p), ReplacementTries(p), NoLineage))
    BY <1>2 DEF RetryPackage
  <2>6. /\ s \in Seq(Package) /\ Len(s) = Len(pkg) /\ DOMAIN s = Pkgs
        /\ \A q \in Pkgs : q # p => s[q] = pkg[q]
        /\ s[p].outcome = "retried" /\ s[p].fut = pkg[p].fut
    BY <1>1, SettledOK
  <2>7. s[p].job = pkg[p].job /\ s[p].next = pkg[p].next
    <3>1. s[p] = [pkg[p] EXCEPT !.fut = pkg[p].fut, !.outcome = "retried", !.ends = @ + 1]
      BY DEF Settled, Ended, Pkgs
    <3> QED
      BY <1>1, <3>1 DEF Package
  <2> HIDE DEF s
  <2>8. Grown(Replacement(p)) /\ \A q \in Pkgs : pkg'[q] = s[q]
    <3>1. \A q \in Pkgs : s[q].job = pkg[q].job /\ s[q].next = pkg[q].next
      BY <2>6, <2>7
    <3> QED
      BY <2>2, <2>3, <2>4, <2>5, <2>6, <3>1, AppendGrows
  <2> QED
    BY <1>2, <2>6, <2>8
<1>3. CASE ~Replaceable(p)
  <2>1. pkg' = Settled(p, "failed")
    BY <1>3 DEF RetryPackage
  <2> QED
    BY <1>1, <1>3, <2>1, SettledKeeps
<1> QED
  BY <1>2, <1>3

\* Before that, the error fails the package after a cancellation, or changes none.
LEMMA ErrorKeeps ==
  ASSUME TypeOK, NEW p \in Pkgs, ReturnedError(p)
  PROVE  /\ Steady /\ \A q \in Pkgs : q # p => pkg'[q] = pkg[q]
         /\ pkg'[p].fut = pkg[p].fut
         /\ IF cancelled THEN pkg'[p].outcome = "failed" ELSE pkg'[p] = pkg[p]
<1>1. CASE cancelled
  <2>1. pkg' = Settled(p, "failed")
    BY <1>1 DEF ReturnedError
  <2> QED
    BY <1>1, <2>1, SettledKeeps DEF Outcomes
<1>2. CASE ~cancelled
  <2>1. UNCHANGED pkg
    BY <1>2 DEF ReturnedError
  <2> QED
    BY <1>2, <2>1 DEF Steady, Kept, Pkgs
<1> QED
  BY <1>1, <1>2

\* A worker that returns changes what its package spawns.
LEMMA ReturnKeeps ==
  ASSUME TypeOK, NEW p \in Pkgs, Return(p)
  PROVE  /\ Pkgs' = Pkgs
         /\ \A q \in Pkgs : q # p => pkg'[q] = pkg[q]
         /\ pkg'[p].job = pkg[p].job /\ pkg'[p].outcome = pkg[p].outcome
         /\ pkg'[p].fut = "returning" /\ pkg'[p].next \in Results[pkg[p].job]
<1>1. PICK jobs \in Results[pkg[p].job] :
        pkg' = [pkg EXCEPT ![p].fut = "returning", ![p].next = jobs]
  BY DEF Return
<1>2. pkg[p] \in Package
  BY PkgEntries DEF TypeOK
<1> DEFINE r == [pkg[p] EXCEPT !.fut = "returning", !.next = jobs]
<1>3. /\ r.job = pkg[p].job /\ r.outcome = pkg[p].outcome
      /\ r.fut = "returning" /\ r.next = jobs
  BY <1>2 DEF Package
<1>4. pkg' = [pkg EXCEPT ![p] = r]
  BY <1>1 DEF Pkgs
<1> HIDE DEF r
<1> QED
  BY <1>3, <1>4 DEF Pkgs

-----------------------------------------------------------------------------
(* No tag outlives the execution *)

\* A job has a package that was not reported finished: cancelled packages are
\* reported together, when the execution ends.
Live(job) ==
  \E p \in Pkgs : JobOf(p) = job /\ pkg[p].outcome \in {"none", "cancelled"}

\* What is in progress was begun and is live.
ProgressLive == \A job \in inProgress : job \in initiated /\ Live(job)

\* A start that is still to be handled is of a live job, or will not be tracked.
LateStarts ==
  \A i \in 1..Len(notifs) :
    notifs[i].kind = "started" =>
      Live(JobOf(notifs[i].pkg)) \/ JobOf(notifs[i].pkg) \in ended

\* The jobs a completed package handed over to are open.
ChildrenOpen ==
  /\ spawner = 0 => nextJobs = <<>>
  /\ \A job \in ToSet(nextJobs) :
       \E q \in Pkgs : q # spawner /\ JobOf(q) = job /\ Open(q)

TagInv == ProgressLive /\ LateStarts /\ ChildrenOpen /\ TagsReleased

\* A job that is live after the step.
StaysLive(job) ==
  \E p \in Pkgs' : pkg'[p].job = job /\ pkg'[p].outcome \in {"none", "cancelled"}

\* No started notification was added but of live jobs.
OldStarts ==
  \A i \in 1..Len(notifs') :
    notifs'[i].kind = "started" =>
      /\ notifs'[i].pkg \in Pkgs
      /\ \/ \E j \in 1..Len(notifs) : notifs[j] = notifs'[i]
         \/ StaysLive(JobOf(notifs'[i].pkg))

\* The jobs of a set may end at this step: when they do, they are tracked as
\* ended and are in progress no more.
MayEnd(jobs) ==
  \A job \in jobs : StaysLive(job) \/ (job \in ended' /\ job \notin inProgress')

\* What a step must do to keep what is in progress live: only the jobs of gone
\* may end, and only live ones are begun.
LEMMA TrackOK ==
  ASSUME ProgressLive, LateStarts, OldStarts, NEW gone, NEW begun, MayEnd(gone),
         Pkgs \subseteq Pkgs', \A q \in Pkgs : pkg'[q].job = pkg[q].job,
         \A q \in Pkgs : /\ pkg[q].outcome \in {"none", "cancelled"}
                         /\ pkg'[q].outcome \notin {"none", "cancelled"}
                         => JobOf(q) \in gone,
         \A job \in begun : StaysLive(job),
         initiated \cup begun \subseteq initiated',
         inProgress' \subseteq inProgress \cup begun,
         ended \ begun \subseteq ended'
  PROVE  ProgressLive' /\ LateStarts'
<1>1. ASSUME NEW job, Live(job), ~StaysLive(job) PROVE job \in gone
  BY <1>1 DEF Live, StaysLive, JobOf
<1>2. \A job : StaysLive(job) => Live(job)'
  BY DEF Live, StaysLive, JobOf
<1>3. ProgressLive'
  <2> SUFFICES ASSUME NEW job \in inProgress' PROVE job \in initiated' /\ StaysLive(job)
    BY <1>2 DEF ProgressLive
  <2>1. CASE job \in begun
    BY <2>1
  <2>2. CASE job \notin begun
    <3>1. job \in inProgress /\ job \in initiated /\ Live(job)
      BY <2>2 DEF ProgressLive
    <3> QED
      BY <1>1, <3>1 DEF MayEnd
  <2> QED
    BY <2>1, <2>2
<1>4. ASSUME NEW i \in 1..Len(notifs'), notifs'[i].kind = "started"
      PROVE  /\ pkg'[notifs'[i].pkg].job = JobOf(notifs'[i].pkg)
             /\ StaysLive(JobOf(notifs'[i].pkg)) \/ JobOf(notifs'[i].pkg) \in ended'
  <2> DEFINE job == JobOf(notifs'[i].pkg)
  <2>1. /\ pkg'[notifs'[i].pkg].job = job
        /\ StaysLive(job) \/ Live(job) \/ job \in ended
    BY <1>4 DEF OldStarts, LateStarts, JobOf
  <2> HIDE DEF job
  <2>2. StaysLive(job) \/ job \in ended'
    BY <1>1, <2>1 DEF MayEnd
  <2> QED
    BY <2>1, <2>2 DEF job
<1>5. LateStarts'
  BY <1>2, <1>4 DEF LateStarts, JobOf
<1> QED
  BY <1>3, <1>5

\* No outcome is given but to jobs of a set.
EndsOnly(jobs) ==
  /\ Pkgs \subseteq Pkgs' /\ \A q \in Pkgs : pkg'[q].job = pkg[q].job
  /\ \A q \in Pkgs : pkg'[q].outcome = pkg[q].outcome \/ JobOf(q) \in jobs

\* A cancelled package, too, keeps its job live.
LEMMA TracksOn ==
  ASSUME ProgressLive, LateStarts, OldStarts, UNCHANGED tracking,
         Pkgs \subseteq Pkgs', \A q \in Pkgs : pkg'[q].job = pkg[q].job,
         \A q \in Pkgs : pkg'[q].outcome \in {pkg[q].outcome, "cancelled"}
  PROVE  ProgressLive' /\ LateStarts'
<1> DEFINE nothing == {}
<1>1. MayEnd(nothing) /\ \A job \in nothing : StaysLive(job)
  BY DEF MayEnd
<1>2. /\ \A q \in Pkgs : /\ pkg[q].outcome \in {"none", "cancelled"}
                         /\ pkg'[q].outcome \notin {"none", "cancelled"}
                         => JobOf(q) \in nothing
      /\ initiated \cup nothing \subseteq initiated'
      /\ inProgress' \subseteq inProgress \cup nothing
      /\ ended \ nothing \subseteq ended'
  BY DEF tracking
<1> HIDE DEF nothing
<1> QED
  BY <1>1, <1>2, TrackOK

\* The report of an end.
LEMMA TracksEnd ==
  ASSUME ProgressLive, LateStarts, OldStarts, NEW job, TrackEnded({job}), EndsOnly({job})
  PROVE  ProgressLive' /\ LateStarts'
<1> DEFINE gone == {job}
           nothing == {}
<1>1. MayEnd(gone) /\ \A other \in nothing : StaysLive(other)
  BY DEF MayEnd, TrackEnded, ProgressLive
<1>2. /\ initiated \cup nothing \subseteq initiated'
      /\ inProgress' \subseteq inProgress \cup nothing
      /\ ended \ nothing \subseteq ended'
  BY DEF TrackEnded
<1>3. /\ Pkgs \subseteq Pkgs' /\ \A q \in Pkgs : pkg'[q].job = pkg[q].job
      /\ \A q \in Pkgs : /\ pkg[q].outcome \in {"none", "cancelled"}
                         /\ pkg'[q].outcome \notin {"none", "cancelled"}
                         => JobOf(q) \in gone
  BY DEF EndsOnly
<1> HIDE DEF gone, nothing
<1> QED
  BY <1>1, <1>2, <1>3, TrackOK

\* The report of an end that begins other jobs.
LEMMA TracksHandover ==
  ASSUME ProgressLive, LateStarts, OldStarts, NEW job, EndsOnly({job}),
         NEW others, job \notin others, TrackHandover(job, others),
         \A other \in others : StaysLive(other)
  PROVE  ProgressLive' /\ LateStarts'
<1>1. MayEnd({job})
  BY DEF MayEnd, TrackHandover, ProgressLive
<1>2. /\ initiated \cup others \subseteq initiated'
      /\ inProgress' \subseteq inProgress \cup others
      /\ ended \ others \subseteq ended'
  BY DEF TrackHandover
<1>3. /\ Pkgs \subseteq Pkgs' /\ \A q \in Pkgs : pkg'[q].job = pkg[q].job
      /\ \A q \in Pkgs : /\ pkg[q].outcome \in {"none", "cancelled"}
                         /\ pkg'[q].outcome \notin {"none", "cancelled"}
                         => JobOf(q) \in {job}
  BY DEF EndsOnly
<1> QED
  BY <1>1, <1>2, <1>3, TrackOK, Zenon

\* The report of a package that completed, its job among those it spawned or not.
LEMMA TracksCompleted ==
  ASSUME ProgressLive, LateStarts, OldStarts, NEW job, EndsOnly({job}),
         NEW children, TrackCompleted(job, children),
         \A child \in children : StaysLive(child)
  PROVE  ProgressLive' /\ LateStarts'
<1> DEFINE others == children \ {job}
<1>1. CASE job \notin children
  <2>1. TrackHandover(job, others) /\ job \notin others
    BY <1>1 DEF TrackCompleted
  <2> QED
    BY <2>1, TracksHandover
<1>2. CASE job \in children
  <2>1. /\ initiated' = initiated \cup others /\ ended' = ended \ others
        /\ inProgress' = inProgress \cup others
    BY <1>2 DEF TrackCompleted
  <2>2. MayEnd({job})
    BY <1>2 DEF MayEnd
  <2>3. /\ Pkgs \subseteq Pkgs' /\ \A q \in Pkgs : pkg'[q].job = pkg[q].job
        /\ \A q \in Pkgs : /\ pkg[q].outcome \in {"none", "cancelled"}
                           /\ pkg'[q].outcome \notin {"none", "cancelled"}
                           => JobOf(q) \in {job}
    BY DEF EndsOnly
  <2>4. /\ initiated \cup others \subseteq initiated'
        /\ inProgress' \subseteq inProgress \cup others
        /\ ended \ others \subseteq ended'
        /\ \A other \in others : StaysLive(other)
    BY <2>1
  <2> HIDE DEF others
  <2> QED
    BY <2>2, <2>3, <2>4, TrackOK, Zenon
<1> QED
  BY <1>1, <1>2

\* The report of a retry: the job ends, stays, or hands over to its replacement.
LEMMA TracksRetry ==
  ASSUME TypeOK, ProgressLive, LateStarts, OldStarts, NEW p \in Pkgs, pkg[p].ends = 0,
         RetryPackage(p),
         IF Replaceable(p) THEN TrackRetried(JobOf(p), Replacement(p))
         ELSE TrackEnded({JobOf(p)})
  PROVE  ProgressLive' /\ LateStarts'
<1> DEFINE job == Replacement(p)
<1>1. /\ IF Replaceable(p) THEN Grown(job) ELSE Steady
      /\ \A q \in Pkgs : q # p => pkg'[q].outcome = pkg[q].outcome
  BY RetryKeeps
<1>2. EndsOnly({JobOf(p)})
  BY <1>1 DEF EndsOnly, Grown, Steady, Kept, JobOf
<1>3. CASE ~Replaceable(p)
  <2>1. TrackEnded({JobOf(p)})
    BY <1>3
  <2> QED
    BY <1>2, <2>1, TracksEnd
<1>4. CASE Replaceable(p)
  <2>1. StaysLive(job)
    BY <1>1, <1>4, NewOK DEF Grown, StaysLive
  <2>2. CASE job = JobOf(p)
    <3>1. UNCHANGED tracking
      BY <1>4, <2>2 DEF TrackRetried
    <3> DEFINE gone == {JobOf(p)}
               nothing == {}
    <3>2. MayEnd(gone) /\ \A other \in nothing : StaysLive(other)
      BY <2>1, <2>2 DEF MayEnd
    <3>3. /\ initiated \cup nothing \subseteq initiated'
          /\ inProgress' \subseteq inProgress \cup nothing
          /\ ended \ nothing \subseteq ended'
      BY <3>1 DEF tracking
    <3>4. /\ Pkgs \subseteq Pkgs' /\ \A q \in Pkgs : pkg'[q].job = pkg[q].job
          /\ \A q \in Pkgs : /\ pkg[q].outcome \in {"none", "cancelled"}
                             /\ pkg'[q].outcome \notin {"none", "cancelled"}
                             => JobOf(q) \in gone
      BY <1>2 DEF EndsOnly
    <3> HIDE DEF gone, nothing
    <3> QED
      BY <3>2, <3>3, <3>4, TrackOK
  <2>3. CASE job # JobOf(p)
    <3>1. TrackHandover(JobOf(p), {job})
      BY <1>4, <2>3 DEF TrackRetried
    <3> HIDE DEF job
    <3>2. JobOf(p) \notin {job} /\ \A other \in {job} : StaysLive(other)
      BY <2>1, <2>3
    <3> QED
      BY <1>2, <3>1, <3>2, TracksHandover, Zenon
  <2> QED
    BY <2>2, <2>3
<1> QED
  BY <1>3, <1>4

\* The report of an error: the job ends after a cancellation, or nothing is said yet.
LEMMA TracksError ==
  ASSUME TypeOK, ProgressLive, LateStarts, OldStarts, NEW p \in Pkgs,
         ReturnedError(p), TrackReturnedError(p)
  PROVE  ProgressLive' /\ LateStarts'
<1>1. /\ Steady /\ \A q \in Pkgs : q # p => pkg'[q].outcome = pkg[q].outcome
      /\ ~cancelled => pkg'[p].outcome = pkg[p].outcome
  BY ErrorKeeps
<1>2. CASE cancelled
  <2>1. TrackEnded({JobOf(p)}) /\ EndsOnly({JobOf(p)})
    BY <1>1, <1>2 DEF TrackReturnedError, EndsOnly, Steady, Kept
  <2> QED
    BY <2>1, TracksEnd
<1>3. CASE ~cancelled
  <2>1. UNCHANGED tracking /\ \A q \in Pkgs : pkg'[q].outcome = pkg[q].outcome
    BY <1>1, <1>3 DEF TrackReturnedError
  <2> QED
    BY <1>1, <2>1, TracksOn DEF Steady, Kept
<1> QED
  BY <1>2, <1>3

\* Taking out notifications, or adding one that is no start, adds no start.
LEMMA NoNewStart ==
  ASSUME TypeOK, \/ notifs' = notifs
                 \/ notifs # <<>> /\ notifs' = Tail(notifs)
                 \/ \E kind \in Kinds, p \in Pkgs :
                      /\ Notify(kind, p)
                      /\ kind = "started" => StaysLive(JobOf(p))
  PROVE  OldStarts
<1>1. notifs \in Seq([kind : Kinds, pkg : Pkgs])
  BY DEF TypeOK
<1>2. \A i \in 1..Len(notifs) : notifs[i].pkg \in Pkgs
  <2>1. \A i \in 1..Len(notifs) : notifs[i] \in [kind : Kinds, pkg : Pkgs]
    BY <1>1, ElementOfSeq
  <2> QED
    BY <2>1
<1>3. CASE notifs' = notifs
  BY <1>2, <1>3 DEF OldStarts
<1>4. CASE notifs # <<>> /\ notifs' = Tail(notifs)
  BY <1>1, <1>2, <1>4, TailOf DEF OldStarts
<1>5. ASSUME NEW kind \in Kinds, NEW p \in Pkgs, Notify(kind, p),
             kind = "started" => StaysLive(JobOf(p))
      PROVE  OldStarts
  <2>1. /\ Len(notifs) \in Nat /\ Len(notifs') = Len(notifs) + 1
        /\ \A i \in 1..Len(notifs) : notifs'[i] = notifs[i]
        /\ notifs'[Len(notifs) + 1] = [kind |-> kind, pkg |-> p]
    BY <1>1, <1>5, NotifyOK
  <2>2. \A i \in 1..Len(notifs') : i \in 1..Len(notifs) \/ i = Len(notifs) + 1
    BY <2>1
  <2> QED
    BY <1>2, <1>5, <2>1, <2>2 DEF OldStarts
<1> QED
  BY <1>3, <1>4, <1>5

\* The children of the completed package stay open while they are pushed.
LEMMA ChildrenKept ==
  ASSUME ChildrenOpen, spawner' = spawner, nextJobs' = nextJobs,
         Pkgs \subseteq Pkgs', \A q \in Pkgs : pkg'[q].job = pkg[q].job,
         spawner # 0 => \A q \in Pkgs : q # spawner /\ Open(q) => Open(q)'
  PROVE  ChildrenOpen'
<1>1. CASE spawner = 0
  BY <1>1 DEF ChildrenOpen, ToSet
<1>2. CASE spawner # 0
  BY <1>2 DEF ChildrenOpen, JobOf
<1> QED
  BY <1>1, <1>2

\* What is left without an outcome when the drain is over is queued.
LEMMA OnlyQueuedLeft ==
  ASSUME LedgerInv, EndExecution
  PROVE  \A p \in Pkgs : Open(p) => InQueue(p)
<1>1. pc = "drain" /\ spawner = 0 /\ retrying = 0 /\ notifs = <<>>
  BY DEF EndExecution
<1> SUFFICES ASSUME NEW p \in Pkgs, Open(p) PROVE InQueue(p)
  OBVIOUS
<1>2. ~Carried(p) /\ p \notin {spawner, retrying}
  <2>1. Len(notifs) = 0
    BY <1>1, EmptySeq
  <2>2. p # 0
    BY NewOK DEF LedgerInv, SettledInv
  <2> QED
    BY <1>1, <2>1, <2>2 DEF Carried
<1>3. ~WithWorker(p)
  BY <1>1 DEF LedgerInv, LoopLeft, WithWorker
<1> QED
  BY <1>2, <1>3 DEF LedgerInv, Placed

\* The tags outlive no execution: what is in progress when it ends is queued.
LEMMA AllCancelled ==
  ASSUME LedgerInv, ProgressLive, TEndExecution
  PROVE  inProgress' = {}
<1>1. \A p \in Pkgs : Open(p) => InQueue(p)
  BY OnlyQueuedLeft DEF TEndExecution
<1>2. \A job \in inProgress :
        /\ job \in initiated
        /\ job \in {JobOf(p) : p \in {q \in Pkgs : \/ pkg[q].outcome = "cancelled"
                                                   \/ InQueue(q)}}
  BY <1>1 DEF ProgressLive, Live, Open
<1> QED
  BY <1>2 DEF TEndExecution, TrackEnded

\* The steps of the main thread that are not reported.
LEMMA SilentTagStep ==
  ASSUME LedgerInv, TagInv, TSilent
  PROVE  TagInv'
<1> USE DEF TagInv
<1>t. TypeOK
  BY DEF LedgerInv, SettledInv
<1>a. UNCHANGED tracking
  BY DEF TSilent
<1>o. OldStarts
  <2>1. \/ notifs' = notifs
        \/ notifs # <<>> /\ notifs' = Tail(notifs)
    BY DEF TSilent, PushJob, Loop, EndSubmit, HandleCompleted, HandleCancelled, HandleNothing,
       CheckClock, EndCancelling, Handling
  <2> QED
    BY <1>t, <2>1, NoNewStart
<1>1. CASE Loop \/ EndSubmit \/ HandleNothing \/ CheckClock \/ EndCancelling
  <2>1. UNCHANGED <<pkg, spawner, nextJobs>> /\ pc' # "idle"
    BY <1>1 DEF Loop, EndSubmit, HandleNothing, CheckClock, EndCancelling
  <2>2. Pkgs' = Pkgs
    BY <2>1 DEF Pkgs
  <2>3. ProgressLive' /\ LateStarts'
    BY <1>a, <1>o, <2>1, <2>2, TracksOn
  <2>4. ChildrenOpen'
    BY <2>1, <2>2, ChildrenKept DEF Open
  <2> QED
    BY <2>1, <2>3, <2>4 DEF TagsReleased
<1>2. CASE HandleCompleted
  <2>1. UNCHANGED <<pkg, nextJobs, pc>> /\ pc # "idle" /\ spawner = 0
    BY <1>2 DEF HandleCompleted, Handling
  <2>2. Pkgs' = Pkgs
    BY <2>1 DEF Pkgs
  <2>3. ProgressLive' /\ LateStarts'
    BY <1>a, <1>o, <2>1, <2>2, TracksOn
  <2>4. ChildrenOpen'
    BY <2>1 DEF ChildrenOpen, ToSet
  <2> QED
    BY <2>1, <2>3, <2>4 DEF TagsReleased
<1>3. CASE HandleCancelled
  <2>1. /\ notifs # <<>> /\ notifs' = Tail(notifs) /\ pkg' = Settled(Front.pkg, "cancelled")
        /\ spawner = 0 /\ UNCHANGED <<spawner, nextJobs>> /\ pc # "idle" /\ pc' # "idle"
    BY <1>3 DEF HandleCancelled, Handling, AfterHandled
  <2>2. PICK p \in Pkgs : p = Front.pkg
    BY <2>1, FrontOK DEF LedgerInv
  <2>3. /\ Steady /\ pkg'[p].outcome = "cancelled"
        /\ \A q \in Pkgs : q # p => pkg'[q].outcome = pkg[q].outcome
    BY <1>t, <2>1, <2>2, SettledKeeps DEF Outcomes
  <2>4. ProgressLive' /\ LateStarts'
    BY <1>a, <1>o, <2>3, TracksOn DEF Steady, Kept
  <2>5. ChildrenOpen'
    BY <2>1, <2>3, ChildrenKept DEF Steady, Kept
  <2> QED
    BY <2>1, <2>4, <2>5 DEF TagsReleased
<1>4. CASE PushJob
  <2> DEFINE job == Head(rest)
  <2>1. pc' = pc /\ spawner' = spawner /\ inProgress' = inProgress
    BY <1>4, <1>a DEF PushJob, tracking
  <2>2. CASE TypeOf[job] \notin Registered
    <3>1. UNCHANGED <<pkg, nextJobs>>
      BY <1>4, <2>2 DEF PushJob
    <3>2. Pkgs' = Pkgs
      BY <3>1 DEF Pkgs
    <3>3. ProgressLive' /\ LateStarts'
      BY <1>a, <1>o, <3>1, <3>2, TracksOn
    <3>4. ChildrenOpen'
      BY <2>1, <3>1, <3>2, ChildrenKept DEF Open
    <3> QED
      BY <2>1, <3>3, <3>4 DEF TagsReleased
  <2>3. CASE TypeOf[job] \in Registered
    <3>1. nextJobs' = IF spawner = 0 THEN <<>> ELSE Append(nextJobs, job)
      BY <1>4, <2>3 DEF PushJob
    <3>2. Grown(job) /\ \A q \in Pkgs : pkg'[q] = pkg[q]
      BY <1>t, <1>4, <2>3, PushGrows
    <3>3. ProgressLive' /\ LateStarts'
      BY <1>a, <1>o, <3>2, TracksOn DEF Grown, Kept
    <3>4. ChildrenOpen'
      <4>1. CASE spawner = 0
        <5>1. nextJobs' = <<>> /\ ToSet(<<>>) = {}
          BY <3>1, <4>1 DEF ToSet
        <5> QED
          BY <2>1, <4>1, <5>1 DEF ChildrenOpen
      <4>2. CASE spawner # 0
        <5>1. nextJobs' = Append(nextJobs, job) /\ nextJobs \in Seq(Job)
          BY <1>t, <3>1, <4>2 DEF TypeOK
        <5>2. ToSet(nextJobs)' \subseteq ToSet(nextJobs) \cup {job}
          <6>1. \A j : \A s \in Seq(Job) : ToSet(Append(s, j)) \subseteq ToSet(s) \cup {j}
            BY AppendProperties DEF ToSet
          <6> QED
            BY <5>1, <6>1
        <5>3. \E q \in Pkgs' : q # spawner /\ pkg'[q].job = job /\ pkg'[q].outcome = "none"
          <6>1. New # spawner
            BY <1>t, <4>2, NewOK DEF TypeOK
          <6> QED
            BY <3>2, <6>1 DEF Grown
        <5>4. \A other \in ToSet(nextJobs) :
                \E q \in Pkgs' : /\ q # spawner /\ pkg'[q].job = other
                                 /\ pkg'[q].outcome = "none"
          BY <3>2 DEF Grown, Kept, JobOf, Open, ChildrenOpen
        <5> HIDE DEF job
        <5>5. \A other \in ToSet(nextJobs)' :
                \E q \in Pkgs' : /\ q # spawner /\ pkg'[q].job = other
                                 /\ pkg'[q].outcome = "none"
          BY <5>2, <5>3, <5>4
        <5> QED
          BY <2>1, <4>2, <5>5 DEF ChildrenOpen, JobOf, Open
      <4> QED
        BY <4>1, <4>2
    <3> QED
      BY <2>1, <3>3, <3>4 DEF TagsReleased
  <2> QED
    BY <2>2, <2>3
<1> QED
  BY <1>1, <1>2, <1>3, <1>4 DEF TSilent

\* The steps of the main thread that are reported.
LEMMA ReportedTagStep ==
  ASSUME LedgerInv, TagInv, TMain
  PROVE  TagInv'
<1> USE DEF TagInv
<1>t. TypeOK /\ SettledInv /\ SpawnerBusy /\ QueuedOnce /\ UnsettledBefore
  BY DEF LedgerInv, SettledInv
<1>a. scan \subseteq Pkgs /\ scan \subseteq futures /\ notifs \in Seq([kind : Kinds, pkg : Pkgs])
  BY <1>t DEF TypeOK
<1>1. CASE TSilent
  BY <1>1, SilentTagStep
<1>2. CASE TExecuteJobs
  <2>1. /\ UNCHANGED <<pkg, spawner, nextJobs, notifs>> /\ pc = "idle"
        /\ initiated' = {} /\ ended' = {} /\ inProgress' = {}
    BY <1>2 DEF TExecuteJobs, ExecuteJobs
  <2>2. ProgressLive' /\ TagsReleased'
    BY <2>1 DEF ProgressLive, TagsReleased
  <2>3. Len(notifs') = 0
    BY <2>1, EmptySeq DEF LedgerInv, LoopLeft
  <2>4. LateStarts'
    BY <2>3 DEF LateStarts
  <2>5. ChildrenOpen'
    BY <2>1, ChildrenKept DEF Pkgs, Open
  <2> QED
    BY <2>2, <2>4, <2>5
<1>3. CASE TSubmit
  <2> DEFINE p == IF prioQ # <<>> THEN Head(prioQ) ELSE Head(normQ)
  <2>1. /\ HasQueued /\ pc = "submit" /\ pc' = pc /\ UNCHANGED <<notifs, spawner, nextJobs>>
        /\ \/ pkg' = Ended(p, "dropped", "failed") /\ TrackEnded({JobOf(p)})
           \/ pkg' = WithFut(p, "submitted") /\ UNCHANGED tracking
    BY <1>3 DEF TSubmit, Submit
  <2>2. p \in Pkgs
    <3>1. CASE prioQ # <<>>
      BY <1>t, <3>1, HeadTailProperties DEF TypeOK
    <3>2. CASE prioQ = <<>>
      BY <1>t, <2>1, <3>2, HeadTailProperties DEF HasQueued, TypeOK
    <3> QED
      BY <3>1, <3>2
  <2> HIDE DEF p
  <2>3. spawner = 0 /\ OldStarts
    BY <1>t, <2>1, NoNewStart DEF SpawnerBusy
  <2>4. CASE pkg' = Ended(p, "dropped", "failed") /\ TrackEnded({JobOf(p)})
    <3>1. /\ Steady /\ \A q \in Pkgs : q # p => pkg'[q].outcome = pkg[q].outcome
      BY <1>t, <2>2, <2>4, EndedKeeps DEF Futs, Outcomes
    <3>2. EndsOnly({JobOf(p)})
      BY <3>1 DEF EndsOnly, Steady, Kept
    <3>3. ProgressLive' /\ LateStarts'
      BY <2>3, <2>4, <3>2, TracksEnd
    <3>4. ChildrenOpen'
      BY <2>1, <2>3, <3>1, ChildrenKept DEF Steady, Kept
    <3> QED
      BY <2>1, <3>3, <3>4 DEF TagsReleased
  <2>5. CASE pkg' = WithFut(p, "submitted") /\ UNCHANGED tracking
    <3>1. /\ Steady /\ \A q \in Pkgs : pkg'[q].outcome = pkg[q].outcome
      BY <1>t, <2>2, <2>5, MovedKeeps DEF Futs
    <3>2. ProgressLive' /\ LateStarts'
      BY <2>3, <2>5, <3>1, TracksOn DEF Steady, Kept
    <3>3. ChildrenOpen'
      BY <2>1, <2>3, <3>1, ChildrenKept DEF Steady, Kept
    <3> QED
      BY <2>1, <3>2, <3>3 DEF TagsReleased
  <2> QED
    BY <2>1, <2>4, <2>5
<1>4. CASE THandleStarted
  <2> DEFINE job == JobOf(Front.pkg)
  <2>1. /\ notifs # <<>> /\ notifs' = Tail(notifs) /\ Front.kind = "started"
        /\ UNCHANGED <<pkg, pc, spawner, nextJobs>> /\ pc # "idle" /\ TrackStarted(job)
    BY <1>4 DEF THandleStarted, HandleStarted, Handling
  <2>2. Live(job) \/ job \in ended
    <3>1. 1 \in 1..Len(notifs) /\ notifs[1] = Front
      BY <1>a, <2>1, TailOf DEF Front
    <3> HIDE DEF Front
    <3> QED
      BY <2>1, <3>1 DEF LateStarts
  <2> HIDE DEF job
  <2> DEFINE gone == {}
             begun == IF job \in ended THEN {} ELSE {job}
  <2>3. OldStarts /\ Pkgs' = Pkgs
    BY <1>t, <2>1, NoNewStart DEF Pkgs
  <2>4. \A other \in begun : StaysLive(other)
    BY <2>1, <2>2, <2>3 DEF Live, StaysLive, JobOf
  <2>5. /\ initiated \cup begun \subseteq initiated'
        /\ inProgress' \subseteq inProgress \cup begun
        /\ ended \ begun \subseteq ended'
        /\ MayEnd(gone)
    BY <2>1 DEF TrackStarted, MayEnd
  <2>6. \A q \in Pkgs : pkg'[q].job = pkg[q].job /\ pkg'[q].outcome = pkg[q].outcome
    BY <2>1
  <2> HIDE DEF gone, begun
  <2>7. ProgressLive' /\ LateStarts'
    BY <2>3, <2>4, <2>5, <2>6, TrackOK
  <2>8. ChildrenOpen'
    BY <2>1, <2>3, ChildrenKept DEF Open
  <2> QED
    BY <2>1, <2>7, <2>8 DEF TagsReleased
<1>5. CASE TRecordCompleted
  <2>1. /\ spawner # 0 /\ pkg' = Settled(spawner, "completed")
        /\ spawner' = 0 /\ nextJobs' = <<>> /\ UNCHANGED notifs
        /\ TrackCompleted(JobOf(spawner), ToSet(nextJobs)) /\ pc' # "idle"
    BY <1>t, <1>5 DEF TRecordCompleted, RecordCompleted, AfterHandled, SpawnerBusy
  <2>2. PICK p \in Pkgs : p = spawner
    BY <1>t, <2>1 DEF TypeOK
  <2>3. /\ Steady /\ \A q \in Pkgs : q # p => pkg'[q].outcome = pkg[q].outcome
    BY <1>t, <2>1, <2>2, SettledKeeps DEF Outcomes
  <2>4. EndsOnly({JobOf(p)})
    BY <2>3 DEF EndsOnly, Steady, Kept
  <2>5. \A child \in ToSet(nextJobs) : StaysLive(child)
    BY <2>2, <2>3 DEF ChildrenOpen, StaysLive, Steady, Kept, JobOf, Open
  <2>6. OldStarts
    BY <1>t, <2>1, NoNewStart
  <2>7. ProgressLive' /\ LateStarts'
    BY <2>1, <2>2, <2>4, <2>5, <2>6, TracksCompleted
  <2>8. ChildrenOpen'
    BY <2>1 DEF ChildrenOpen, ToSet
  <2> QED
    BY <2>1, <2>7, <2>8 DEF TagsReleased
<1>6. CASE THandleError
  <2>1. /\ notifs # <<>> /\ notifs' = Tail(notifs) /\ Front.kind # "started"
        /\ ReturnedError(Front.pkg) /\ TrackReturnedError(Front.pkg)
        /\ spawner = 0 /\ UNCHANGED <<spawner, nextJobs>> /\ pc' # "idle"
    BY <1>6 DEF THandleError, HandleError, Handling, AfterHandled
  <2>2. PICK p \in Pkgs : p = Front.pkg /\ pkg[p].ends = 0
    BY <1>t, <2>1, FrontOK
  <2>3. /\ ReturnedError(p) /\ TrackReturnedError(p)
    BY <2>1, <2>2
  <2>4. OldStarts
    BY <1>t, <2>1, NoNewStart
  <2>5. ProgressLive' /\ LateStarts'
    BY <1>t, <2>2, <2>3, <2>4, TracksError
  <2>6. Pkgs \subseteq Pkgs' /\ \A q \in Pkgs : pkg'[q].job = pkg[q].job
    BY <1>t, <2>2, <2>3, ErrorKeeps DEF Steady, Kept
  <2>7. ChildrenOpen'
    BY <2>1, <2>6, ChildrenKept
  <2> QED
    BY <2>1, <2>5, <2>7 DEF TagsReleased
<1>10. CASE TFinishRetry
  <2> DEFINE p == retrying
  <2>1. /\ p # 0 /\ RetryPackage(p) /\ UNCHANGED <<notifs, pc, spawner, nextJobs>>
        /\ IF Replaceable(p) THEN TrackRetried(JobOf(p), Replacement(p))
           ELSE TrackEnded({JobOf(p)})
    BY <1>10 DEF TFinishRetry, FinishRetry
  <2>2. p \in Pkgs /\ pkg[p].ends = 0 /\ spawner = 0 /\ pc # "idle"
    BY <1>t, <2>1 DEF TypeOK, LedgerInv, SettledInv, RetryingUnsettled, RetryingBusy
  <2> HIDE DEF p
  <2>4. OldStarts
    BY <1>t, <2>1, NoNewStart
  <2>5. ProgressLive' /\ LateStarts'
    BY <1>t, <2>1, <2>2, <2>4, TracksRetry
  <2>6. Pkgs \subseteq Pkgs' /\ \A q \in Pkgs : pkg'[q].job = pkg[q].job
    BY <1>t, <2>1, <2>2, RetryKeeps DEF Grown, Steady, Kept
  <2>7. ChildrenOpen'
    BY <2>1, <2>2, <2>6, ChildrenKept
  <2> QED
    BY <2>1, <2>2, <2>5, <2>7 DEF TagsReleased
<1>7. CASE TEndExecution
  <2>1. inProgress' = {}
    BY <1>7, AllCancelled
  <2>2. notifs' = <<>> /\ spawner' = 0 /\ nextJobs' = <<>>
    BY <1>7 DEF TEndExecution, EndExecution, ChildrenOpen
  <2>3. Len(notifs') = 0
    BY <2>2, EmptySeq
  <2> QED
    BY <2>1, <2>2, <2>3 DEF ProgressLive, LateStarts, ChildrenOpen, TagsReleased, ToSet
<1>8. ASSUME NEW p \in scan, TReapFuture(p) PROVE TagInv'
  <2>1. /\ p \in Pkgs /\ p \in futures /\ pc = "reap" /\ pc' = pc
        /\ UNCHANGED <<notifs, spawner, nextJobs>>
    BY <1>a, <1>8 DEF TReapFuture, ReapFuture
  <2>2. spawner = 0 /\ OldStarts
    BY <1>t, <2>1, NoNewStart DEF SpawnerBusy
  <2>3. pkg[p].fut \in {"raised", "aborted"} => pkg[p].ends = 0
    BY <2>1 DEF LedgerInv, SettledInv, RaisedOnce
  <2>4. CASE pkg[p].fut = "raised"
    <3>1. ReturnedError(p) /\ TrackReturnedError(p)
      BY <1>8, <2>4 DEF TReapFuture, ReapFuture
    <3>2. ProgressLive' /\ LateStarts'
      BY <1>t, <2>1, <2>2, <3>1, TracksError
    <3>3. Pkgs \subseteq Pkgs' /\ \A q \in Pkgs : pkg'[q].job = pkg[q].job
      BY <1>t, <2>1, <3>1, ErrorKeeps DEF Steady, Kept
    <3>4. ChildrenOpen'
      BY <2>1, <2>2, <3>3, ChildrenKept
    <3> QED
      BY <2>1, <3>2, <3>4 DEF TagsReleased
  <2>5. CASE pkg[p].fut = "aborted"
    <3>1. pkg' = Settled(p, "failed") /\ TrackEnded({JobOf(p)})
      BY <1>8, <2>5 DEF TReapFuture, ReapFuture
    <3>2. /\ Steady /\ \A q \in Pkgs : q # p => pkg'[q].outcome = pkg[q].outcome
      BY <1>t, <2>1, <3>1, SettledKeeps DEF Outcomes
    <3>3. EndsOnly({JobOf(p)})
      BY <3>2 DEF EndsOnly, Steady, Kept
    <3>4. ProgressLive' /\ LateStarts'
      BY <2>2, <3>1, <3>3, TracksEnd
    <3>5. ChildrenOpen'
      BY <2>1, <2>2, <3>2, ChildrenKept DEF Steady, Kept
    <3> QED
      BY <2>1, <3>4, <3>5 DEF TagsReleased
  <2>6. CASE pkg[p].fut \notin {"raised", "aborted"}
    <3>1. UNCHANGED pkg /\ UNCHANGED tracking /\ Pkgs' = Pkgs
      BY <1>8, <2>6 DEF TReapFuture, ReapFuture, Pkgs
    <3>2. ProgressLive' /\ LateStarts'
      BY <2>2, <3>1, TracksOn
    <3>3. ChildrenOpen'
      BY <2>1, <3>1, ChildrenKept DEF Open
    <3> QED
      BY <2>1, <3>2, <3>3 DEF TagsReleased
  <2> QED
    BY <2>4, <2>5, <2>6
<1>9. ASSUME NEW p \in scan, TCancelFuture(p) PROVE TagInv'
  <2>1. /\ p \in Pkgs /\ pc = "cancelling" /\ pc' = pc
        /\ UNCHANGED <<notifs, spawner, nextJobs>>
    BY <1>a, <1>9 DEF TCancelFuture, CancelFuture
  <2>2. spawner = 0 /\ OldStarts
    BY <1>t, <2>1, NoNewStart DEF SpawnerBusy
  <2>3. CASE pkg[p].fut = "submitted"
    <3>1. pkg' = Ended(p, "dropped", "cancelled") /\ UNCHANGED tracking
      BY <1>9, <2>3 DEF TCancelFuture, CancelFuture
    <3>2. /\ Steady /\ pkg'[p].outcome = "cancelled"
          /\ \A q \in Pkgs : q # p => pkg'[q].outcome = pkg[q].outcome
      BY <1>t, <2>1, <3>1, EndedKeeps DEF Futs, Outcomes
    <3>3. ProgressLive' /\ LateStarts'
      BY <2>2, <3>1, <3>2, TracksOn DEF Steady, Kept
    <3>4. ChildrenOpen'
      BY <2>1, <2>2, <3>2, ChildrenKept DEF Steady, Kept
    <3> QED
      BY <2>1, <3>3, <3>4, <3>1 DEF TagsReleased, tracking
  <2>4. CASE pkg[p].fut \in {"raised", "aborted"}
    <3>1. pkg' = Settled(p, "failed") /\ TrackEnded({JobOf(p)})
      BY <1>9, <2>4 DEF TCancelFuture, CancelFuture
    <3>2. /\ Steady /\ \A q \in Pkgs : q # p => pkg'[q].outcome = pkg[q].outcome
      BY <1>t, <2>1, <3>1, SettledKeeps DEF Outcomes
    <3>3. EndsOnly({JobOf(p)})
      BY <3>2 DEF EndsOnly, Steady, Kept
    <3>4. ProgressLive' /\ LateStarts'
      BY <2>2, <3>1, <3>3, TracksEnd
    <3>5. ChildrenOpen'
      BY <2>1, <2>2, <3>2, ChildrenKept DEF Steady, Kept
    <3> QED
      BY <2>1, <3>4, <3>5 DEF TagsReleased
  <2>5. CASE pkg[p].fut = "done"
    <3>1. UNCHANGED pkg /\ UNCHANGED tracking /\ Pkgs' = Pkgs
      BY <1>9, <2>5 DEF TCancelFuture, CancelFuture, Pkgs
    <3>2. ProgressLive' /\ LateStarts'
      BY <2>2, <3>1, TracksOn
    <3>3. ChildrenOpen'
      BY <2>1, <3>1, ChildrenKept DEF Open
    <3> QED
      BY <2>1, <3>2, <3>3 DEF TagsReleased
  <2> QED
    BY <1>9, <2>3, <2>4, <2>5 DEF TCancelFuture, CancelFuture
<1> QED
  BY <1>1, <1>2, <1>3, <1>4, <1>5, <1>6, <1>7, <1>8, <1>9, <1>10 DEF TMain

\* The steps of workers, of progress reports and of signals.
LEMMA WorkerTagStep ==
  ASSUME LedgerInv, TagInv,
         (\E p \in Pkgs : TWorker(p)) \/ TEnvironment \/ UNCHANGED tagVars
  PROVE  TagInv'
<1> USE DEF TagInv
<1>t. TypeOK /\ SettledInv /\ UnsettledBefore /\ OutcomeReported
  BY DEF LedgerInv, SettledInv
<1>1. ASSUME NEW p \in Pkgs, TWorker(p) PROVE TagInv'
  <2>1. UNCHANGED tracking /\ UNCHANGED <<pc, spawner, nextJobs>>
    BY <1>1 DEF TWorker, StartWork, Return, NotifyCompleted, NotifyError, Raise, WaitTimedOut,
       ExitWork, mainVars
  <2>2. /\ Steady \/ Return(p)
        /\ Pkgs' = Pkgs
        /\ \A q \in Pkgs : pkg'[q].job = pkg[q].job /\ pkg'[q].outcome = pkg[q].outcome
    <3>1. CASE Return(p)
      BY <1>t, <3>1, ReturnKeeps
    <3>2. CASE ~Return(p)
      <4>1. \E f \in Futs : pkg' = WithFut(p, f)
        BY <1>1, <3>2 DEF TWorker, StartWork, NotifyCompleted, NotifyError, Raise, WaitTimedOut,
           ExitWork, Futs
      <4> QED
        BY <1>t, <4>1, MovedKeeps DEF Steady, Kept
    <3> QED
      BY <3>1, <3>2
  <2>3. OldStarts
    <3>1. CASE StartWork(p)
      <4>1. pkg[p].outcome = "none"
        BY <1>t, <3>1 DEF StartWork, UnsettledBefore, OutcomeReported, Open
      <4>2. StaysLive(JobOf(p))
        BY <2>2, <4>1 DEF StaysLive, JobOf
      <4>3. \E kind \in Kinds : Notify(kind, p)
        BY <3>1 DEF StartWork, Kinds
      <4> QED
        BY <1>t, <4>2, <4>3, NoNewStart
    <3>2. CASE NotifyCompleted(p) \/ NotifyError(p)
      <4>1. \E kind \in Kinds : kind # "started" /\ Notify(kind, p)
        BY <3>2 DEF NotifyCompleted, NotifyError, Kinds
      <4> QED
        BY <1>t, <4>1, NoNewStart
    <3>3. CASE Return(p) \/ Raise(p) \/ WaitTimedOut(p) \/ ExitWork(p)
      <4>1. notifs' = notifs
        BY <3>3 DEF Return, Raise, WaitTimedOut, ExitWork
      <4> QED
        BY <1>t, <4>1, NoNewStart
    <3> QED
      BY <1>1, <3>1, <3>2, <3>3 DEF TWorker
  <2>4. ProgressLive' /\ LateStarts'
    BY <2>1, <2>2, <2>3, TracksOn
  <2>5. ChildrenOpen'
    BY <2>1, <2>2, ChildrenKept DEF Open
  <2> QED
    BY <2>1, <2>4, <2>5 DEF TagsReleased, tracking
<1>2. CASE UNCHANGED <<pkg, notifs, pc, spawner, nextJobs, tracking>>
  <2>1. UNCHANGED pkg /\ UNCHANGED tracking /\ Pkgs' = Pkgs /\ UNCHANGED <<pc, spawner, nextJobs>>
    BY <1>2 DEF Pkgs
  <2>2. OldStarts
    BY <1>t, <1>2, NoNewStart
  <2>3. ProgressLive' /\ LateStarts'
    BY <2>1, <2>2, TracksOn
  <2>4. ChildrenOpen'
    BY <2>1, ChildrenKept DEF Open
  <2> QED
    BY <2>1, <2>3, <2>4 DEF TagsReleased, tracking
<1>3. TEnvironment \/ UNCHANGED tagVars
        => UNCHANGED <<pkg, notifs, pc, spawner, nextJobs, tracking>>
  BY DEF TEnvironment, Signal, TrackActivity, mainVars, tagVars, vars
<1> QED
  BY <1>1, <1>2, <1>3

\* The invariants of the scheduler and of the tags hold at every moment.
LEMMA TagInvariant == TSpec => [](LedgerInv /\ TagInv)
<1>1. TInit => TagInv
  <2> SUFFICES ASSUME TInit PROVE TagInv
    OBVIOUS
  <2>1. /\ inProgress = {} /\ Len(notifs) = 0 /\ nextJobs = <<>>
    BY EmptySeq DEF TInit, Init
  <2> QED
    BY <2>1 DEF TagInv, ProgressLive, LateStarts, ChildrenOpen, TagsReleased, ToSet
<1>2. LedgerInv /\ TagInv /\ [TNext]_tagVars => TagInv'
  BY ReportedTagStep, WorkerTagStep DEF TNext
<1>3. TSpec => []LedgerInv
  BY TagsRestrictScheduler, LedgerInvariant, PTL
<1> QED
  BY <1>1, <1>2, <1>3, PTL DEF TSpec

\* When execute_jobs returns, no tag is in progress, whatever was retried,
\* cancelled or handed over, and whatever start was reported after its end.
THEOREM NoTagStays == TSpec => []TagsReleased
<1>1. TagInv => TagsReleased
  BY DEF TagInv
<1> QED
  BY <1>1, TagInvariant, PTL

-----------------------------------------------------------------------------
(* What a step does to what is spawned *)

\* No package is added, nothing is taken up to be pushed.
Calm ==
  /\ Steady
  /\ \A q \in Pkgs : /\ pkg'[q].fut = "returning" => pkg[q].fut = "returning"
                     /\ Open(q)' => Open(q)
                     /\ pkg[q].outcome = "retried" => pkg'[q].outcome = "retried"
                     /\ pkg'[q].outcome = "completed" =>
                          pkg[q].outcome = "completed" \/ q = spawner
  /\ \/ spawner' = spawner /\ rest' \in {rest, Roots, <<>>}
     \/ spawner' = 0 /\ rest' = rest /\ pkg'[spawner].outcome = "completed"

\* What a completed package spawned is taken up.
TakenUp ==
  /\ UNCHANGED pkg /\ spawner = 0
  /\ spawner' \in Pkgs /\ Open(spawner') /\ rest' \in {<<>>, pkg[spawner'].next}
  /\ \E i \in 1..Len(notifs) : notifs[i].kind = "completed" /\ notifs[i].pkg = spawner'

\* The next job is pushed, or has no worker.
Pushes ==
  /\ rest # <<>> /\ rest' = Tail(rest) /\ UNCHANGED spawner
  /\ UNCHANGED pkg \/ (Grown(Head(rest)) /\ \A q \in Pkgs : pkg'[q] = pkg[q])

\* A failed package is replaced.
Restarts(p) ==
  /\ UNCHANGED <<rest, spawner>> /\ Open(p) /\ Replaceable(p)
  /\ Grown(Replacement(p)) /\ pkg'[p].outcome = "retried" /\ pkg'[p].fut = pkg[p].fut
  /\ \A q \in Pkgs : q # p => pkg'[q] = pkg[q]

Spawning == Calm \/ TakenUp \/ Pushes \/ \E p \in Pkgs : Restarts(p)

\* A package whose worker failed is replaced or is done.
LEMMA RetrySpawns ==
  ASSUME LedgerInv, NEW p \in Pkgs, pkg[p].ends = 0, RetryPackage(p),
         UNCHANGED <<rest, spawner>>
  PROVE  Spawning
<1>1. TypeOK /\ Open(p)
  BY DEF LedgerInv, SettledInv, OutcomeReported
<1>2. /\ IF Replaceable(p) THEN Grown(Replacement(p)) /\ pkg'[p].outcome = "retried"
         ELSE Steady /\ pkg'[p].outcome = "failed"
      /\ pkg'[p].fut = pkg[p].fut /\ \A q \in Pkgs : q # p => pkg'[q] = pkg[q]
  BY <1>1, RetryKeeps
<1>3. CASE Replaceable(p)
  BY <1>1, <1>2, <1>3 DEF Spawning, Restarts
<1>4. CASE ~Replaceable(p)
  BY <1>1, <1>2, <1>4 DEF Spawning, Calm, Open
<1> QED
  BY <1>3, <1>4

\* Before that it keeps its place, or is done for a cancellation.
LEMMA ErrorSpawns ==
  ASSUME LedgerInv, NEW p \in Pkgs, pkg[p].ends = 0, ReturnedError(p),
         UNCHANGED <<rest, spawner>>
  PROVE  Spawning
<1>1. TypeOK /\ Open(p)
  BY DEF LedgerInv, SettledInv, OutcomeReported
<1>2. /\ Steady /\ \A q \in Pkgs : q # p => pkg'[q] = pkg[q]
      /\ pkg'[p].fut = pkg[p].fut
      /\ pkg'[p].outcome = "failed" \/ pkg'[p] = pkg[p]
  BY <1>1, ErrorKeeps
<1> QED
  BY <1>1, <1>2 DEF Spawning, Calm, Open

\* A worker that does not return only moves its package on.
LEMMA WorkerMoves ==
  ASSUME TypeOK, NEW p \in Pkgs, Worker(p), ~Return(p)
  PROVE  /\ Steady /\ pkg'[p].fut # "returning"
         /\ \A q \in Pkgs : /\ pkg'[q].fut = "returning" => pkg[q].fut = "returning"
                            /\ pkg'[q].outcome = pkg[q].outcome
<1>1. PICK f \in Futs \ {"returning"} : pkg' = WithFut(p, f)
  BY DEF Worker, StartWork, NotifyCompleted, NotifyError, Raise, WaitTimedOut, ExitWork, Futs
<1>2. /\ Steady /\ pkg'[p].fut = f /\ \A q \in Pkgs : q # p => pkg'[q] = pkg[q]
      /\ \A q \in Pkgs : pkg'[q].outcome = pkg[q].outcome
  BY <1>1, MovedKeeps
<1> QED
  BY <1>2

\* Every step of the scheduler is of one of these kinds, but that a worker returns.
LEMMA StepSpawns ==
  ASSUME LedgerInv,
         \/ Main \/ Signal \/ UNCHANGED vars
         \/ \E p \in Pkgs : TrackActivity(p) \/ (Worker(p) /\ ~Return(p))
  PROVE  Spawning
<1>t. TypeOK /\ SettledInv /\ SpawnerBusy /\ OutcomeReported
  BY DEF LedgerInv, SettledInv
<1>a. scan \subseteq Pkgs /\ scan \subseteq futures /\ notifs \in Seq([kind : Kinds, pkg : Pkgs])
  BY <1>t DEF TypeOK
<1>b. \A q \in Pkgs : pkg[q].ends = 0 <=> Open(q)
  BY <1>t DEF OutcomeReported
<1>1. CASE PushJob
  <2>1. rest # <<>> /\ rest' = Tail(rest) /\ UNCHANGED spawner
    BY <1>1 DEF PushJob
  <2>2. CASE TypeOf[Head(rest)] \notin Registered
    BY <1>1, <2>1, <2>2 DEF PushJob, Spawning, Pushes
  <2>3. CASE TypeOf[Head(rest)] \in Registered
    BY <1>t, <1>1, <2>1, <2>3, PushGrows DEF Spawning, Pushes
  <2> QED
    BY <2>2, <2>3
<1>2. CASE UNCHANGED <<pkg, rest, spawner>>
  <2>1. Steady
    BY <1>2 DEF Steady, Kept, Pkgs
  <2> QED
    BY <1>2, <2>1 DEF Spawning, Calm, Open
<1>3. CASE \/ ExecuteJobs \/ Loop \/ EndSubmit \/ HandleStarted \/ HandleNothing
           \/ CheckClock \/ EndCancelling \/ Signal \/ UNCHANGED vars
  <2>1. UNCHANGED <<pkg, rest, spawner>>
    BY <1>3 DEF ExecuteJobs, Loop, EndSubmit, HandleStarted, HandleNothing, CheckClock,
       EndCancelling, Signal, vars, mainVars
  <2> QED
    BY <1>2, <2>1
<1>4. CASE Submit
  <2> DEFINE p == IF prioQ # <<>> THEN Head(prioQ) ELSE Head(normQ)
  <2>1. /\ HasQueued /\ UNCHANGED <<spawner, rest>>
        /\ \/ pkg' = Ended(p, "dropped", "failed")
           \/ pkg' = WithFut(p, "submitted")
    BY <1>4 DEF Submit
  <2>2. p \in Pkgs /\ pkg[p].ends = 0
    <3>1. CASE prioQ # <<>>
      <4>1. 1 \in 1..Len(prioQ) /\ prioQ[1] = Head(prioQ)
        BY <1>t, <3>1, TailOf DEF TypeOK
      <4> QED
        BY <1>t, <3>1, <4>1, QueuesOK DEF SettledInv, QueuedOnce, UnsettledBefore
    <3>2. CASE prioQ = <<>>
      <4>1. 1 \in 1..Len(normQ) /\ normQ[1] = Head(normQ)
        BY <1>t, <2>1, <3>2, TailOf DEF TypeOK, HasQueued
      <4> QED
        BY <1>t, <3>2, <4>1, QueuesOK DEF SettledInv, QueuedOnce, UnsettledBefore
    <3> QED
      BY <3>1, <3>2
  <2> HIDE DEF p
  <2>3. CASE pkg' = Ended(p, "dropped", "failed")
    <3>1. /\ Steady /\ pkg'[p].outcome = "failed" /\ pkg'[p].fut = "dropped"
          /\ \A q \in Pkgs : q # p => pkg'[q] = pkg[q]
      BY <1>t, <2>2, <2>3, EndedKeeps DEF Futs, Outcomes
    <3> QED
      BY <1>b, <2>1, <2>2, <3>1 DEF Spawning, Calm, Open
  <2>4. CASE pkg' = WithFut(p, "submitted")
    <3>1. /\ Steady /\ pkg'[p].fut = "submitted" /\ \A q \in Pkgs : q # p => pkg'[q] = pkg[q]
          /\ \A q \in Pkgs : pkg'[q].outcome = pkg[q].outcome
      BY <1>t, <2>2, <2>4, MovedKeeps DEF Futs
    <3> QED
      BY <2>1, <3>1 DEF Spawning, Calm, Open
  <2> QED
    BY <2>1, <2>3, <2>4
<1>5. CASE HandleCompleted
  <2>1. /\ notifs # <<>> /\ notifs' = Tail(notifs) /\ Front.kind = "completed" /\ spawner = 0
        /\ UNCHANGED pkg /\ spawner' = Front.pkg
        /\ rest' \in {<<>>, pkg[Front.pkg].next}
    BY <1>5 DEF HandleCompleted, Handling
  <2>2. Front.pkg \in Pkgs /\ pkg[Front.pkg].ends = 0
    BY <1>t, <2>1, FrontOK
  <2>3. 1 \in 1..Len(notifs) /\ notifs[1] = Front
    BY <1>a, <2>1, TailOf DEF Front
  <2> HIDE DEF Front
  <2> QED
    BY <1>b, <2>1, <2>2, <2>3 DEF Spawning, TakenUp
<1>6. CASE RecordCompleted
  <2>1. /\ spawner # 0 /\ pkg' = Settled(spawner, "completed") /\ spawner' = 0 /\ rest' = rest
    BY <1>6 DEF RecordCompleted
  <2>2. spawner \in Pkgs /\ pkg[spawner].ends = 0
    BY <1>t, <2>1 DEF TypeOK, SettledInv, SpawnerUnsettled
  <2>3. /\ Steady /\ pkg'[spawner].outcome = "completed"
        /\ pkg'[spawner].fut = pkg[spawner].fut
        /\ \A q \in Pkgs : q # spawner => pkg'[q] = pkg[q]
    BY <1>t, <2>1, <2>2, SettledKeeps DEF Outcomes
  <2> QED
    BY <1>b, <2>1, <2>2, <2>3 DEF Spawning, Calm, Open
<1>7. CASE HandleCancelled
  <2>1. /\ notifs # <<>> /\ notifs' = Tail(notifs) /\ Front.kind # "started"
        /\ pkg' = Settled(Front.pkg, "cancelled") /\ UNCHANGED <<rest, spawner>>
    BY <1>7 DEF HandleCancelled, Handling
  <2>2. PICK p \in Pkgs : p = Front.pkg /\ pkg[p].ends = 0
    BY <1>t, <2>1, FrontOK
  <2>3. /\ Steady /\ pkg'[p].outcome = "cancelled" /\ pkg'[p].fut = pkg[p].fut
        /\ \A q \in Pkgs : q # p => pkg'[q] = pkg[q]
    BY <1>t, <2>1, <2>2, SettledKeeps DEF Outcomes
  <2> QED
    BY <1>b, <2>1, <2>2, <2>3 DEF Spawning, Calm, Open
<1>8. CASE HandleError
  <2>1. /\ notifs # <<>> /\ notifs' = Tail(notifs) /\ Front.kind # "started"
        /\ ReturnedError(Front.pkg) /\ UNCHANGED <<rest, spawner>>
    BY <1>8 DEF HandleError, Handling
  <2>2. PICK p \in Pkgs : p = Front.pkg /\ pkg[p].ends = 0
    BY <1>t, <2>1, FrontOK
  <2>3. ReturnedError(p)
    BY <2>1, <2>2
  <2> QED
    BY <2>1, <2>2, <2>3, ErrorSpawns
<1>14. CASE FinishRetry
  <2>1. retrying # 0 /\ RetryPackage(retrying) /\ UNCHANGED <<rest, spawner>>
    BY <1>14 DEF FinishRetry
  <2>2. retrying \in Pkgs /\ pkg[retrying].ends = 0
    BY <1>t, <2>1 DEF TypeOK, SettledInv, RetryingUnsettled
  <2> QED
    BY <2>1, <2>2, RetrySpawns
<1>9. ASSUME NEW p \in scan, ReapFuture(p) PROVE Spawning
  <2>1. p \in Pkgs /\ p \in futures /\ pc = "reap" /\ UNCHANGED <<rest, spawner>>
    BY <1>a, <1>9 DEF ReapFuture
  <2>2. pkg[p].fut \in {"raised", "aborted"} => pkg[p].ends = 0
    BY <1>t, <2>1 DEF SettledInv, RaisedOnce
  <2>3. CASE pkg[p].fut = "raised" /\ ReturnedError(p)
    BY <2>1, <2>2, <2>3, ErrorSpawns
  <2>4. CASE pkg[p].fut = "aborted" /\ pkg' = Settled(p, "failed")
    <3>1. /\ Steady /\ pkg'[p].outcome = "failed" /\ pkg'[p].fut = pkg[p].fut
          /\ \A q \in Pkgs : q # p => pkg'[q] = pkg[q]
      BY <1>t, <2>1, <2>4, SettledKeeps DEF Outcomes
    <3> QED
      BY <1>b, <2>1, <2>2, <2>4, <3>1 DEF Spawning, Calm, Open
  <2>5. CASE UNCHANGED pkg
    BY <1>2, <2>1, <2>5
  <2> QED
    BY <1>9, <2>3, <2>4, <2>5 DEF ReapFuture
<1>10. ASSUME NEW p \in scan, CancelFuture(p) PROVE Spawning
  <2>1. p \in Pkgs /\ p \in futures /\ pc = "cancelling" /\ UNCHANGED <<rest, spawner>>
    BY <1>a, <1>10 DEF CancelFuture
  <2>2. pkg[p].fut \in {"raised", "aborted", "submitted"} => pkg[p].ends = 0
    BY <1>t, <1>10, <2>1 DEF SettledInv, RaisedOnce, UnsettledBefore
  <2>3. CASE pkg[p].fut = "submitted" /\ pkg' = Ended(p, "dropped", "cancelled")
    <3>1. /\ Steady /\ pkg'[p].outcome = "cancelled" /\ pkg'[p].fut = "dropped"
          /\ \A q \in Pkgs : q # p => pkg'[q] = pkg[q]
      BY <1>t, <2>1, <2>3, EndedKeeps DEF Futs, Outcomes
    <3> QED
      BY <1>b, <2>1, <2>2, <2>3, <3>1 DEF Spawning, Calm, Open
  <2>4. CASE pkg[p].fut \in {"raised", "aborted"} /\ pkg' = Settled(p, "failed")
    <3>1. /\ Steady /\ pkg'[p].outcome = "failed" /\ pkg'[p].fut = pkg[p].fut
          /\ \A q \in Pkgs : q # p => pkg'[q] = pkg[q]
      BY <1>t, <2>1, <2>4, SettledKeeps DEF Outcomes
    <3> QED
      BY <1>b, <2>1, <2>2, <2>4, <3>1 DEF Spawning, Calm, Open
  <2>5. CASE UNCHANGED pkg
    BY <1>2, <2>1, <2>5
  <2> QED
    BY <1>10, <2>3, <2>4, <2>5 DEF CancelFuture
<1>11. CASE EndExecution
  <2>1. /\ spawner' = spawner /\ rest' \in {Roots, <<>>} /\ Pkgs' = Pkgs
        /\ \A q \in Pkgs : pkg'[q] =
             IF InQueue(q) THEN [pkg[q] EXCEPT !.fut = "dropped", !.outcome = "cancelled",
                                               !.ends = @ + 1]
                           ELSE pkg[q]
    BY <1>11 DEF EndExecution, Pkgs
  <2>2. \A q \in Pkgs : InQueue(q) => Open(q)
    BY <1>t, <1>b DEF InQueue, SettledInv, QueuedOnce, UnsettledBefore
  <2>3. \A q \in Pkgs : pkg[q] \in Package
    BY <1>t, PkgEntries DEF TypeOK
  <2>4. ASSUME NEW q \in Pkgs, InQueue(q)
        PROVE  /\ Kept(q) /\ pkg'[q].fut = "dropped" /\ pkg'[q].outcome = "cancelled"
    BY <2>1, <2>3, <2>4 DEF Package, Kept
  <2>5. ASSUME NEW q \in Pkgs, ~InQueue(q) PROVE Kept(q) /\ pkg'[q] = pkg[q]
    BY <2>1, <2>5 DEF Kept
  <2>6. Steady
    BY <2>1, <2>4, <2>5 DEF Steady
  <2> QED
    BY <2>1, <2>2, <2>4, <2>5, <2>6 DEF Spawning, Calm, Open
<1>12. ASSUME NEW p \in Pkgs, Worker(p), ~Return(p) PROVE Spawning
  <2>1. UNCHANGED <<rest, spawner>>
    BY <1>12 DEF Worker, StartWork, NotifyCompleted, NotifyError, Raise, WaitTimedOut, ExitWork,
       mainVars
  <2>2. Steady /\ \A q \in Pkgs : /\ pkg'[q].fut = "returning" => pkg[q].fut = "returning"
                                /\ pkg'[q].outcome = pkg[q].outcome
    BY <1>t, <1>12, WorkerMoves
  <2> QED
    BY <2>1, <2>2 DEF Spawning, Calm, Open
<1>13. ASSUME NEW p \in Pkgs, TrackActivity(p) PROVE Spawning
  BY <1>2, <1>13 DEF TrackActivity, mainVars
<1> QED
  BY <1>1, <1>3, <1>4, <1>5, <1>6, <1>7, <1>8, <1>9, <1>10, <1>11, <1>12, <1>13, <1>14
  DEF Main

-----------------------------------------------------------------------------
(* The store is loaded once *)

\* The packages that load the store, and those that are to spawn one.
Loads == {p \in Pkgs : JobOf(p) = Load /\ pkg[p].outcome # "retried"}
Carriers == {p \in Pkgs : p # spawner /\ Open(p) /\ SpawnsLoad(pkg[p].next)}

Once(jobs) == \A i, j \in DOMAIN jobs : jobs[i] = Load /\ jobs[j] = Load => i = j
AtMostOne(S) == \A p, q \in S : p = q

\* The load job, if it was returned, is in one place: a worker's list, the list
\* that is being pushed, or a package.
LoadInv ==
  /\ AtMostOne(Loads) /\ AtMostOne(Carriers)
  /\ Loads = {} \/ Carriers = {}
  /\ SpawnsLoad(rest) => Loads = {} /\ Carriers = {}
  /\ Once(rest) /\ \A p \in Pkgs : Once(pkg[p].next)
  /\ ~returnedLoad => Loads = {} /\ Carriers = {} /\ ~SpawnsLoad(rest)

\* Who is allowed to spawn the load job does not change otherwise.
LEMMA CalmLoads ==
  ASSUME TypeOK, LoadInv, Calm, UNCHANGED returnedLoad
  PROVE  LoadInv'
<1>1. Pkgs' = Pkgs /\ \A q \in Pkgs : Kept(q)
  BY DEF Calm, Steady
<1>2. Loads' \subseteq Loads
  BY <1>1 DEF Loads, Calm, Kept, JobOf
<1>3. Carriers' \subseteq Carriers
  BY <1>1 DEF Carriers, Calm, Kept, Open
<1>4. ~SpawnsLoad(Roots) /\ Once(Roots) /\ ~SpawnsLoad(<<>>) /\ Once(<<>>)
  BY StoreLoadingAssumption DEF SpawnsLoad, Once, ToSet
<1>5. /\ SpawnsLoad(rest') => SpawnsLoad(rest)
      /\ Once(rest')
  BY <1>4 DEF Calm, LoadInv
<1>6. \A p \in Pkgs' : Once(pkg'[p].next)
  BY <1>1 DEF LoadInv, Kept
<1> QED
  BY <1>2, <1>3, <1>5, <1>6 DEF LoadInv, AtMostOne

\* The list moves from the package that completed to where it is pushed from.
LEMMA TakenUpLoads ==
  ASSUME TypeOK, LoadInv, TakenUp, UNCHANGED returnedLoad
  PROVE  LoadInv'
<1>1. /\ Pkgs' = Pkgs /\ UNCHANGED pkg /\ 0 \notin Pkgs
      /\ spawner = 0 /\ spawner' \in Pkgs /\ Open(spawner')
      /\ rest' \in {<<>>, pkg[spawner'].next}
  BY NewOK DEF TakenUp, Pkgs
<1>2. Loads' = Loads
  BY <1>1 DEF Loads, JobOf
<1>3. Carriers' = Carriers \ {spawner'}
  BY <1>1 DEF Carriers, Open
<1>4. ~SpawnsLoad(<<>>) /\ Once(<<>>)
  BY DEF SpawnsLoad, Once
<1>5. SpawnsLoad(rest') => spawner' \in Carriers
  BY <1>1, <1>4 DEF Carriers
<1>6. Once(rest') /\ \A p \in Pkgs' : Once(pkg'[p].next)
  BY <1>1, <1>4 DEF LoadInv
<1> QED
  BY <1>2, <1>3, <1>5, <1>6 DEF LoadInv, AtMostOne

\* The first job of the list becomes a package, or none.
LEMMA PushesLoads ==
  ASSUME TypeOK, LoadInv, Pushes, UNCHANGED returnedLoad
  PROVE  LoadInv'
<1> DEFINE job == Head(rest)
<1>1. /\ Len(rest) \in Nat \ {0} /\ Len(rest') = Len(rest) - 1
      /\ 1 \in DOMAIN rest /\ rest[1] = job /\ DOMAIN rest = 1..Len(rest)
      /\ DOMAIN rest' = 1..Len(rest')
      /\ \A i \in DOMAIN rest' : i + 1 \in DOMAIN rest /\ rest'[i] = rest[i + 1] /\ i + 1 # 1
  <2>1. rest \in Seq(Job) /\ rest # <<>> /\ rest' = Tail(rest)
    BY DEF TypeOK, Pushes
  <2>2. rest' \in Seq(Job)
    BY <2>1, HeadTailProperties
  <2>3. DOMAIN rest = 1..Len(rest) /\ DOMAIN rest' = 1..Len(rest')
    BY <2>1, <2>2, LenProperties
  <2>4. /\ Len(rest) \in Nat \ {0} /\ Len(rest') = Len(rest) - 1
        /\ 1 \in 1..Len(rest) /\ rest[1] = job
        /\ \A i \in 1..Len(rest') : i + 1 \in 1..Len(rest) /\ rest'[i] = rest[i + 1]
    BY <2>1, TailOf
  <2> HIDE DEF job
  <2>5. \A i \in 1..Len(rest') : i + 1 # 1
    BY <2>4
  <2> QED
    BY <2>3, <2>4, <2>5
<1> HIDE DEF job
<1>2. (SpawnsLoad(rest') => SpawnsLoad(rest)) /\ Once(rest')
  <2>1. \A i, j \in DOMAIN rest' : i + 1 = j + 1 => i = j
    BY <1>1
  <2> QED
    BY <1>1, <2>1 DEF SpawnsLoad, Once, LoadInv
<1>3. job = Load => SpawnsLoad(rest) /\ ~SpawnsLoad(rest')
  BY <1>1 DEF SpawnsLoad, Once, LoadInv
<1>4. CASE UNCHANGED pkg
  <2>1. Loads' = Loads /\ Carriers' = Carriers /\ Pkgs' = Pkgs
    BY <1>4 DEF Pushes, Loads, Carriers, JobOf, Open, Pkgs
  <2> QED
    BY <1>2, <1>4, <2>1 DEF LoadInv
<1>5. CASE Grown(job) /\ \A q \in Pkgs : pkg'[q] = pkg[q]
  <2>1. /\ Pkgs' = Pkgs \cup {New} /\ New \notin Pkgs /\ \A q \in Pkgs : pkg'[q] = pkg[q]
        /\ pkg'[New].job = job /\ pkg'[New].next = <<>> /\ pkg'[New].outcome = "none"
    BY <1>5, NewOK DEF Grown
  <2>2. Loads' = IF job = Load THEN Loads \cup {New} ELSE Loads
    BY <2>1 DEF Loads, JobOf
  <2>3. ~SpawnsLoad(<<>>) /\ Once(<<>>) /\ UNCHANGED spawner
    BY DEF SpawnsLoad, Once, Pushes
  <2>4. Carriers' = Carriers
    BY <2>1, <2>3 DEF Carriers, Open
  <2>5. \A p \in Pkgs' : Once(pkg'[p].next)
    BY <2>1, <2>3 DEF LoadInv
  <2>6. CASE job = Load
    <3>1. Loads = {} /\ Carriers = {} /\ ~SpawnsLoad(rest') /\ returnedLoad
      BY <1>3, <2>6 DEF LoadInv
    <3> QED
      BY <1>2, <2>2, <2>4, <2>5, <2>6, <3>1 DEF LoadInv, AtMostOne
  <2>7. CASE job # Load
    BY <1>2, <2>2, <2>4, <2>5, <2>7 DEF LoadInv
  <2> QED
    BY <2>6, <2>7
<1> QED
  BY <1>4, <1>5 DEF Pushes, job

\* What replaces a package that loads the store takes its place.
LEMMA RestartsLoads ==
  ASSUME TypeOK, LoadInv, NEW p \in Pkgs, Restarts(p), UNCHANGED returnedLoad
  PROVE  LoadInv'
<1> DEFINE job == Replacement(p)
<1>1. /\ Pkgs' = Pkgs \cup {New} /\ New \notin Pkgs
      /\ \A q \in Pkgs : pkg'[q].job = pkg[q].job /\ pkg'[q].next = pkg[q].next
      /\ \A q \in Pkgs : q # p => pkg'[q].outcome = pkg[q].outcome
      /\ pkg[p].outcome = "none" /\ pkg'[p].outcome = "retried"
      /\ pkg'[New].job = job /\ pkg'[New].next = <<>> /\ pkg'[New].outcome = "none"
      /\ UNCHANGED <<rest, spawner>>
  BY NewOK DEF Restarts, Grown, Kept, Open
<1>2. job = Load => p \in Loads
  <2>1. pkg[p].job \in Job /\ Load # NoJob
    <3>1. pkg[p] \in Package
      BY PkgEntries DEF TypeOK
    <3>2. pkg[p].job \in Job
      BY <3>1 DEF Package
    <3>3. NoJob \notin Job /\ Load \in Job
      BY JobSystemAssumption, StoreLoadingAssumption
    <3> QED
      BY <3>2, <3>3
  <2>2. job \in {NoJob, RetryOf[pkg[p].job], BackupOf[pkg[p].job]}
    BY DEF Replacement
  <2>3. job = Load => pkg[p].job = Load
    BY <2>1, <2>2, StoreLoadingAssumption
  <2> HIDE DEF job
  <2> QED
    BY <1>1, <2>3 DEF Loads, JobOf
<1> HIDE DEF job
<1>3. ~SpawnsLoad(<<>>) /\ Once(<<>>)
  BY DEF SpawnsLoad, Once
<1>4. Loads' = (Loads \ {p}) \cup (IF job = Load THEN {New} ELSE {})
  BY <1>1 DEF Loads, JobOf
<1>5. Carriers' \subseteq Carriers
  BY <1>1, <1>3 DEF Carriers, Open
<1>6. Once(rest') /\ \A q \in Pkgs' : Once(pkg'[q].next)
  BY <1>1, <1>3 DEF LoadInv
<1>7. Loads' # {} => Loads # {}
  BY <1>2, <1>4
<1>8. AtMostOne(Loads')
  BY <1>2, <1>4 DEF LoadInv, AtMostOne
<1> QED
  BY <1>1, <1>5, <1>6, <1>7, <1>8 DEF LoadInv, AtMostOne

\* A worker returns the load job when it is nowhere, and says so.
ReturnsLoad(p) ==
  /\ SpawnsLoad(pkg'[p].next) => ~returnedLoad /\ returnedLoad'
  /\ returnedLoad => returnedLoad'

LEMMA ReturnsLoads ==
  ASSUME TypeOK, LoadInv, NEW p \in Pkgs, Return(p), ReturnsLoad(p)
  PROVE  LoadInv'
<1>1. /\ Pkgs' = Pkgs /\ \A q \in Pkgs : q # p => pkg'[q] = pkg[q]
      /\ pkg'[p].job = pkg[p].job /\ pkg'[p].outcome = pkg[p].outcome
      /\ pkg'[p].next \in Results[pkg[p].job] /\ UNCHANGED <<rest, spawner>>
  BY ReturnKeeps DEF Return, mainVars
<1>2. pkg[p].job \in Job
  BY PkgEntries DEF TypeOK, Package
<1>3. Loads' = Loads
  BY <1>1 DEF Loads, JobOf
<1>4. Carriers' \subseteq Carriers \cup {p}
  BY <1>1 DEF Carriers, Open
<1>5. Once(pkg'[p].next)
  BY <1>1, <1>2, StoreLoadingAssumption DEF Once
<1>6. \A q \in Pkgs' : Once(pkg'[q].next)
  BY <1>1, <1>5 DEF LoadInv
<1>7. CASE SpawnsLoad(pkg'[p].next)
  <2>1. Loads = {} /\ Carriers = {} /\ ~SpawnsLoad(rest) /\ returnedLoad'
    BY <1>7 DEF ReturnsLoad, LoadInv
  <2>2. Loads' = {} /\ Carriers' \subseteq {p} /\ ~SpawnsLoad(rest')
    BY <1>1, <1>3, <1>4, <2>1
  <2> QED
    BY <1>1, <1>6, <2>1, <2>2 DEF LoadInv, AtMostOne
<1>8. CASE ~SpawnsLoad(pkg'[p].next)
  <2>1. Carriers' \subseteq Carriers
    BY <1>1, <1>4, <1>8 DEF Carriers
  <2> QED
    BY <1>1, <1>3, <1>6, <2>1 DEF LoadInv, AtMostOne, ReturnsLoad
<1> QED
  BY <1>7, <1>8

\* The workers set the flags as they return, and only then.
LEMMA LoadingFlags ==
  ASSUME TypeOK, NEW p \in Pkgs, SWorker(p)
  PROVE  /\ Worker(p) /\ (localStore => localStore')
         /\ ~Return(p) => UNCHANGED <<returnedLoad, localStore>>
         /\ Return(p) /\ JobOf(p) \in OpenDb => ReturnsLoad(p)
         /\ Return(p) /\ JobOf(p) \notin OpenDb => UNCHANGED returnedLoad
         /\ Return(p) /\ JobOf(p) \in Mix => localStore
<1> USE StoreLoadingAssumption
<1>1. TWorker(p) /\ Worker(p)
  BY DEF SWorker, OpenDbReturns, LoadReturns, MixReturns, OtherWork, TWorker, Worker
<1>2. Return(p) => pkg[p].fut = "running" /\ pkg'[p].fut = "returning"
  BY ReturnKeeps DEF Return
<1>3. ~Return(p) => pkg'[p].fut # "returning"
  BY <1>1, WorkerMoves
<1>4. CASE OpenDbReturns(p)
  <2>1. JobOf(p) \in OpenDb /\ JobOf(p) \notin Mix /\ UNCHANGED localStore /\ Return(p)
    BY <1>3, <1>4 DEF OpenDbReturns
  <2>2. ~SpawnsLoad(<<>>)
    BY DEF SpawnsLoad
  <2>3. ASSUME pkg'[p].next = <<>>, UNCHANGED returnedLoad PROVE ReturnsLoad(p)
    <3>1. ~SpawnsLoad(pkg'[p].next)
      BY <2>2, <2>3
    <3>2. returnedLoad => returnedLoad'
      BY <2>3, Zenon
    <3> QED
      BY <3>1, <3>2 DEF ReturnsLoad
  <2>4. ASSUME SpawnsLoad(pkg'[p].next) = (~localStore /\ ~returnedLoad),
               returnedLoad' = (returnedLoad \/ ~localStore)
        PROVE  ReturnsLoad(p)
    <3>1. SpawnsLoad(pkg'[p].next) => ~localStore /\ ~returnedLoad
      BY <2>4, Zenon
    <3>2. returnedLoad \/ ~localStore => returnedLoad'
      BY <2>4, Zenon
    <3> QED
      BY <3>1, <3>2 DEF ReturnsLoad
  <2>5. ReturnsLoad(p)
    BY <1>4, <2>3, <2>4, Zenon DEF OpenDbReturns
  <2> QED
    BY <1>1, <2>1, <2>5
<1>5. CASE LoadReturns(p)
  BY <1>1, <1>3, <1>5 DEF LoadReturns
<1>6. CASE MixReturns(p)
  BY <1>1, <1>2, <1>6 DEF MixReturns
<1>7. CASE OtherWork(p)
  BY <1>1, <1>2, <1>7 DEF OtherWork
<1> QED
  BY <1>4, <1>5, <1>6, <1>7 DEF SWorker

\* The load job that was returned is in one place after every step.
LEMMA LoadStep ==
  ASSUME LedgerInv, LoadInv, [SNext]_storeVars
  PROVE  LoadInv'
<1>t. TypeOK
  BY DEF LedgerInv, SettledInv
<1>1. CASE Spawning /\ UNCHANGED returnedLoad
  BY <1>t, <1>1, CalmLoads, TakenUpLoads, PushesLoads, RestartsLoads DEF Spawning
<1>2. CASE SMain \/ SEnvironment \/ UNCHANGED storeVars
  <2>1. UNCHANGED returnedLoad
    BY <1>2 DEF SMain, SEnvironment, storeVars
  <2>2. Main \/ Signal \/ UNCHANGED vars \/ \E p \in Pkgs : TrackActivity(p)
    BY <1>2 DEF SMain, SEnvironment, storeVars, tagVars, TMain, TSilent, TExecuteJobs, TSubmit,
       THandleStarted, TRecordCompleted, THandleError, TFinishRetry, TEndExecution, TReapFuture,
       TCancelFuture, TEnvironment, Main
  <2> QED
    BY <1>1, <2>1, <2>2, StepSpawns
<1>3. ASSUME NEW p \in Pkgs, SWorker(p) PROVE LoadInv'
  <2>1. CASE ~Return(p)
    <3>1. Worker(p) /\ UNCHANGED returnedLoad
      BY <1>t, <1>3, <2>1, LoadingFlags
    <3> QED
      BY <1>1, <2>1, <3>1, StepSpawns
  <2>2. CASE Return(p)
    <3>1. CASE JobOf(p) \in OpenDb
      BY <1>t, <1>3, <2>2, <3>1, LoadingFlags, ReturnsLoads
    <3>2. CASE JobOf(p) \notin OpenDb
      <4>1. pkg[p].job \in Job /\ pkg'[p].next \in Results[pkg[p].job]
        <5>1. pkg[p] \in Package
          BY <1>t, PkgEntries DEF TypeOK
        <5> QED
          BY <1>t, <2>2, <5>1, ReturnKeeps DEF Package
      <4>2. ~SpawnsLoad(pkg'[p].next)
        BY <3>2, <4>1, StoreLoadingAssumption DEF SpawnsLoad, JobOf
      <4>3. ReturnsLoad(p)
        BY <1>t, <1>3, <2>2, <3>2, <4>2, LoadingFlags DEF ReturnsLoad
      <4> QED
        BY <1>t, <2>2, <4>3, ReturnsLoads
    <3> QED
      BY <3>1, <3>2
  <2> QED
    BY <2>1, <2>2
<1> QED
  BY <1>2, <1>3 DEF SNext

\* The invariant of the store loading holds at every moment.
LEMMA LoadingInvariant == SSpec => []LoadInv
<1>1. SInit => LoadInv
  <2> SUFFICES ASSUME SInit PROVE LoadInv
    OBVIOUS
  <2>1. Pkgs = {} /\ rest = Roots /\ spawner = 0 /\ Len(notifs) = 0
    <3>1. Init
      BY DEF SInit, TInit
    <3>2. Len(pkg) = 0 /\ TypeOK
      BY <3>1, EmptySeq, InitTypeOK DEF Init
    <3> QED
      BY <3>1, <3>2, EmptySeq, PkgEntries DEF Init, TypeOK
  <2>2. ~SpawnsLoad(Roots) /\ Once(Roots)
    BY StoreLoadingAssumption DEF SpawnsLoad, Once, ToSet
  <2> QED
    BY <2>1, <2>2 DEF LoadInv, Loads, Carriers, AtMostOne
<1>2. LedgerInv /\ LoadInv /\ [SNext]_storeVars => LoadInv'
  BY LoadStep
<1>3. SSpec => []LedgerInv
  BY LoadingRestrictsTags, TagsRestrictScheduler, LedgerInvariant, PTL
<1> QED
  BY <1>1, <1>2, <1>3, PTL DEF SSpec

\* However many databases there are and in whatever order their workers get to
\* the lock, the store is loaded by one job: any other package of it is a
\* retry of one that failed.
THEOREM StoreLoadedOnce == SSpec => []LoadedOnce
<1>1. LoadInv => LoadedOnce
  <2> SUFFICES ASSUME LoadInv PROVE Cardinality(Loads) <= 1
    BY DEF LoadedOnce, Loads
  <2>1. CASE Loads = {}
    BY <2>1, FS_EmptySet
  <2>2. CASE Loads # {}
    <3>1. PICK p : Loads = {p}
      BY <2>2 DEF LoadInv, AtMostOne
    <3> QED
      BY <3>1, FS_Singleton
  <2> QED
    BY <2>1, <2>2
<1> QED
  BY <1>1, LoadingInvariant, PTL

-----------------------------------------------------------------------------
(* Waiting is a barrier *)

\* The packages that are not being completed, and the jobs from a tag onwards.
Held(q) == Open(q) /\ q # spawner
Later(t) == Tagged(t) \cup Waiters(t)

\* Of the jobs that lead up to the tag there is one, as a package or to be pushed,
AheadOnce(ahead) ==
  /\ \A q, r \in Pkgs :
       Held(q) /\ Held(r) /\ JobOf(q) \in ahead /\ JobOf(r) \in ahead => q = r
  /\ AtMostOneOf(rest, ahead)
  /\ \A q \in Pkgs : Held(q) /\ JobOf(q) \in ahead => ToSet(rest) \cap ahead = {}

\* and while there is one, neither a job of the tag nor one that waits for it.
IsAhead(ahead) ==
  (\E q \in Pkgs : Held(q) /\ JobOf(q) \in ahead) \/ ToSet(rest) \cap ahead # {}
AheadFirst(t, ahead) ==
  IsAhead(ahead) =>
    /\ \A q \in Pkgs : Open(q) => JobOf(q) \notin Later(t)
    /\ ToSet(rest) \cap Later(t) = {}

\* The first job of the tag is spawned by the last of those that lead up to it,
\* and until that one is completed those that wait are not started.
SpawnedFrom(t, ahead) ==
  /\ ToSet(rest) \cap Later(t) # {} => spawner # 0
  /\ (ToSet(rest) \cup ToSet(nextJobs)) \cap Tagged(t) # {} =>
       spawner # 0 /\ JobOf(spawner) \in ahead \cup Tagged(t)
  /\ spawner # 0 /\ JobOf(spawner) \in ahead =>
       \A q \in Pkgs : Open(q) /\ JobOf(q) \in Later(t) => pkg[q].fut = "queued"
  /\ pc = "idle" => \A q \in Pkgs : Open(q) => JobOf(q) \notin Later(t)

\* Of the jobs of the tag there is one, besides that which spawned it.
TaggedOnce(t) ==
  /\ \A q, r \in Pkgs :
       Held(q) /\ Held(r) /\ JobOf(q) \in Tagged(t) /\ JobOf(r) \in Tagged(t) => q = r
  /\ AtMostOneOf(rest, Tagged(t))
  /\ \A q \in Pkgs : Held(q) /\ JobOf(q) \in Tagged(t) =>
       /\ ToSet(rest) \cap Tagged(t) = {}
       /\ spawner # 0 /\ JobOf(spawner) \in Tagged(t) => JobOf(q) \in ToSet(nextJobs)

\* It is in progress, or about to be reported so together with the completion.
Covered(t) ==
  /\ \A q \in Pkgs :
       Open(q) /\ JobOf(q) \in Tagged(t) => JobOf(q) \in inProgress \cup ToSet(nextJobs)
  /\ spawner # 0 /\ JobOf(spawner) \in Tagged(t) => JobOf(spawner) \in inProgress

BarrierInv(t, ahead) ==
  /\ AheadOnce(ahead) /\ AheadFirst(t, ahead) /\ SpawnedFrom(t, ahead)
  /\ TaggedOnce(t) /\ Covered(t)

\* A package spawns what its worker may return.
Nexts == \A p \in Pkgs : pkg[p].next = <<>> \/ pkg[p].next \in Results[JobOf(p)]

\* Packages may move on and get their outcomes, which ends their jobs.
Fades ==
  /\ Pkgs' = Pkgs
  /\ \A q \in Pkgs : pkg'[q].job = pkg[q].job
                     /\ (pkg'[q].outcome = "none" => pkg[q].outcome = "none")
  /\ UNCHANGED <<spawner, rest, nextJobs>> /\ (pc' = "idle" => pc = "idle")
  /\ spawner # 0 => \A q \in Pkgs : pkg[q].fut = "queued" => pkg'[q].fut = "queued"
  /\ \A job \in inProgress \ inProgress' :
       /\ spawner = 0
       /\ \E p \in Pkgs : Open(p) /\ pkg'[p].outcome # "none" /\ JobOf(p) = job

\* A completed package is reported with the jobs it spawned.
Completes ==
  /\ spawner # 0 /\ spawner \in Pkgs /\ spawner' = 0 /\ rest = <<>> /\ rest' = <<>>
  /\ nextJobs' = <<>>
  /\ Pkgs' = Pkgs /\ \A q \in Pkgs : pkg'[q].job = pkg[q].job
  /\ pkg'[spawner].outcome # "none" /\ \A q \in Pkgs : q # spawner => pkg'[q] = pkg[q]
  /\ pc' # "idle"
  /\ (inProgress \cup ToSet(nextJobs)) \ {JobOf(spawner)} \subseteq inProgress'
  /\ JobOf(spawner) \in ToSet(nextJobs) => inProgress \subseteq inProgress'

\* A failed package is replaced: so is its job in the tracking.
Renews(p) ==
  /\ Open(p) /\ Replaceable(p) /\ Grown(Replacement(p)) /\ pkg'[p].outcome = "retried"
  /\ \A q \in Pkgs : q # p => pkg'[q] = pkg[q]
  /\ spawner = 0 /\ rest = <<>> /\ UNCHANGED <<spawner, rest, nextJobs>> /\ pc' # "idle"
  /\ inProgress \ {JobOf(p)} \subseteq inProgress'
  /\ IF Replacement(p) = JobOf(p) THEN inProgress \subseteq inProgress'
     ELSE Replacement(p) \in inProgress'

\* The jobs a completed package spawned are taken up.
TakesUp ==
  /\ UNCHANGED <<pkg, inProgress>> /\ nextJobs = <<>> /\ nextJobs' = <<>>
  /\ spawner = 0 /\ rest = <<>> /\ pc' # "idle"
  /\ spawner' \in Pkgs /\ Open(spawner') /\ rest' \in {<<>>, pkg[spawner'].next}

\* The next of them is pushed, or has no worker.
PushesOn ==
  /\ rest # <<>> /\ rest' = Tail(rest) /\ UNCHANGED <<spawner, pc, inProgress>>
  /\ \/ UNCHANGED <<pkg, nextJobs>>
     \/ /\ Grown(Head(rest)) /\ \A q \in Pkgs : pkg'[q] = pkg[q]
        /\ nextJobs' = IF spawner = 0 THEN <<>> ELSE Append(nextJobs, Head(rest))

\* An execution begins, and ends.
Begins == UNCHANGED <<pkg, spawner, rest, nextJobs>> /\ spawner = 0 /\ pc = "idle"
Finishes ==
  /\ Pkgs' = Pkgs /\ \A q \in Pkgs : pkg'[q].outcome # "none"
  /\ spawner' = 0 /\ nextJobs' = <<>> /\ rest' \in {Roots, <<>>}

TagStep ==
  \/ Fades \/ Completes \/ TakesUp \/ PushesOn \/ Begins \/ Finishes
  \/ \E p \in Pkgs : Renews(p)

\* The elements of a sequence without its first, or with one more.
LEMMA ElementsOfTail ==
  ASSUME NEW S, NEW s \in Seq(S), s # <<>>
  PROVE  Head(s) \in ToSet(s) /\ ToSet(Tail(s)) \subseteq ToSet(s)
<1>1. /\ DOMAIN s = 1..Len(s) /\ DOMAIN Tail(s) = 1..Len(Tail(s))
  BY HeadTailProperties
<1> QED
  BY <1>1, TailOf DEF ToSet

LEMMA ElementsOfAppend ==
  ASSUME NEW S, NEW s \in Seq(S), NEW e \in S
  PROVE  ToSet(Append(s, e)) = ToSet(s) \cup {e}
BY AppendProperties DEF ToSet

\* One of a set remains one without the first, and none when the first is it.
LEMMA OneOfTail ==
  ASSUME NEW J, NEW s \in Seq(J), s # <<>>, NEW S, AtMostOneOf(s, S)
  PROVE  /\ AtMostOneOf(Tail(s), S)
         /\ Head(s) \in S => ToSet(Tail(s)) \cap S = {}
<1>1. /\ DOMAIN s = 1..Len(s) /\ DOMAIN Tail(s) = 1..Len(Tail(s))
  BY HeadTailProperties
<1>2. /\ Len(s) \in Nat \ {0} /\ Len(Tail(s)) = Len(s) - 1
      /\ 1 \in 1..Len(s) /\ s[1] = Head(s)
      /\ \A i \in 1..Len(Tail(s)) : i + 1 \in 1..Len(s) /\ Tail(s)[i] = s[i + 1]
  BY TailOf
<1>3. \A i, j \in 1..Len(Tail(s)) : (i + 1 = j + 1 => i = j) /\ i + 1 # 1
  BY <1>2
<1>4. AtMostOneOf(Tail(s), S)
  BY <1>1, <1>2, <1>3 DEF AtMostOneOf
<1>5. ASSUME Head(s) \in S, NEW e \in ToSet(Tail(s)), e \in S PROVE FALSE
  <2>1. PICK i \in 1..Len(Tail(s)) : e = Tail(s)[i]
    BY <1>1 DEF ToSet
  <2>2. s[i + 1] \in S /\ i + 1 \in DOMAIN s /\ 1 \in DOMAIN s /\ s[1] \in S
    BY <1>1, <1>2, <1>5, <2>1
  <2> QED
    BY <1>3, <2>2 DEF AtMostOneOf
<1> QED
  BY <1>4, <1>5

\* When packages only move on and get outcomes.
LEMMA FadesKeeps ==
  ASSUME TypeOK, NEW t, NEW ahead, BarrierInv(t, ahead), Fades
  PROVE  BarrierInv(t, ahead)'
<1>1. /\ Pkgs' = Pkgs /\ UNCHANGED <<spawner, rest, nextJobs>>
      /\ \A q \in Pkgs : JobOf(q)' = JobOf(q) /\ (Open(q)' => Open(q)) /\ (Held(q)' => Held(q))
      /\ spawner # 0 => spawner \in Pkgs
  BY DEF Fades, JobOf, Open, Held, TypeOK
<1>2. AheadOnce(ahead)' /\ AheadFirst(t, ahead)' /\ TaggedOnce(t)'
  <2>1. AheadOnce(ahead) /\ AheadFirst(t, ahead) /\ TaggedOnce(t)
    BY DEF BarrierInv
  <2>2. AheadOnce(ahead)'
    BY <1>1, <2>1 DEF AheadOnce
  <2>3. AheadFirst(t, ahead)'
    BY <1>1, <2>1 DEF AheadFirst, IsAhead, Later, Tagged, Waiters
  <2>4. TaggedOnce(t)'
    BY <1>1, <2>1 DEF TaggedOnce, Tagged
  <2> QED
    BY <2>2, <2>3, <2>4
<1>3. SpawnedFrom(t, ahead)'
  <2>1. spawner # 0 => \A q \in Pkgs : pkg[q].fut = "queued" => pkg'[q].fut = "queued"
    BY DEF Fades
  <2>2. SpawnedFrom(t, ahead) /\ (pc' = "idle" => pc = "idle")
    BY DEF BarrierInv, Fades
  <2> QED
    BY <1>1, <2>1, <2>2 DEF SpawnedFrom, Later, Tagged, Waiters
<1>4. Covered(t)'
  <2>1. Covered(t) /\ TaggedOnce(t)
    BY DEF BarrierInv
  <2>2. ASSUME NEW job \in inProgress, job \notin inProgress'
        PROVE  spawner = 0 /\ \E p \in Pkgs : Held(p) /\ ~Open(p)' /\ JobOf(p) = job
    <3>1. spawner = 0 /\ \E p \in Pkgs : Open(p) /\ pkg'[p].outcome # "none" /\ JobOf(p) = job
      BY <2>2 DEF Fades
    <3>2. 0 \notin Pkgs
      BY NewOK
    <3> QED
      BY <3>1, <3>2 DEF Held, Open
  <2>3. ASSUME NEW q \in Pkgs, Open(q)', JobOf(q) \in Tagged(t)
        PROVE  JobOf(q) \in inProgress' \cup ToSet(nextJobs)
    <3>1. JobOf(q) \in inProgress \cup ToSet(nextJobs)
      BY <1>1, <2>1, <2>3 DEF Covered
    <3>2. ASSUME JobOf(q) \in inProgress, JobOf(q) \notin inProgress' PROVE FALSE
      <4>1. PICK p \in Pkgs : Held(p) /\ ~Open(p)' /\ JobOf(p) = JobOf(q)
        BY <2>2, <3>2
      <4>2. Held(q)
        <5>1. spawner = 0 /\ 0 \notin Pkgs
          BY <2>2, <3>2, NewOK
        <5> QED
          BY <1>1, <2>3, <5>1 DEF Held
      <4>3. p = q
        BY <2>1, <2>3, <4>1, <4>2 DEF TaggedOnce
      <4> QED
        BY <2>3, <4>1, <4>3
    <3> QED
      BY <3>1, <3>2
  <2> QED
    BY <1>1, <2>1, <2>2, <2>3 DEF Covered, Tagged
<1> QED
  BY <1>2, <1>3, <1>4 DEF BarrierInv

\* When a completed package is reported with those it spawned.
LEMMA CompletesKeeps ==
  ASSUME TypeOK, NEW t, NEW ahead, BarrierInv(t, ahead), Completes
  PROVE  BarrierInv(t, ahead)'
<1>1. /\ Pkgs' = Pkgs /\ spawner' = 0 /\ spawner # 0 /\ spawner \in Pkgs
      /\ \A q \in Pkgs : JobOf(q)' = JobOf(q) /\ (Open(q)' => Held(q))
  BY DEF Completes, JobOf, Open, Held
<1>2. rest' = rest /\ ToSet(rest)' = {} /\ ToSet(nextJobs)' = {} /\ pc' # "idle"
  BY DEF Completes, ToSet
<1>3. \A q \in Pkgs : Held(q)' => Held(q)
  BY <1>1 DEF Held
<1>4. AheadOnce(ahead)'
  BY <1>1, <1>2, <1>3 DEF BarrierInv, AheadOnce
<1>5. AheadFirst(t, ahead)'
  <2>1. IsAhead(ahead)' => IsAhead(ahead)
    BY <1>1, <1>2, <1>3 DEF IsAhead
  <2> QED
    BY <1>1, <1>2, <2>1 DEF BarrierInv, AheadFirst, Later, Tagged, Waiters, Held
<1>6. SpawnedFrom(t, ahead)'
  BY <1>1, <1>2 DEF SpawnedFrom
<1>7. TaggedOnce(t)'
  BY <1>1, <1>2, <1>3 DEF BarrierInv, TaggedOnce, Tagged
<1>8. Covered(t)'
  <2>1. ASSUME NEW q \in Pkgs, Open(q)', JobOf(q) \in Tagged(t)
        PROVE  JobOf(q) \in inProgress'
    <3>1. Held(q) /\ JobOf(q) \in inProgress \cup ToSet(nextJobs)
      BY <1>1, <2>1 DEF BarrierInv, Covered, Held
    <3>2. CASE JobOf(q) # JobOf(spawner)
      BY <3>1, <3>2 DEF Completes
    <3>3. CASE JobOf(q) = JobOf(spawner)
      <4>1. JobOf(spawner) \in ToSet(nextJobs) /\ JobOf(spawner) \in inProgress
        BY <1>1, <2>1, <3>1, <3>3 DEF BarrierInv, TaggedOnce, Covered
      <4> QED
        BY <3>3, <4>1 DEF Completes
    <3> QED
      BY <3>2, <3>3
  <2> QED
    BY <1>1, <2>1 DEF Covered, Tagged
<1> QED
  BY <1>4, <1>5, <1>6, <1>7, <1>8 DEF BarrierInv

\* What a job spawns, and what replaces it, stays in line.
LEMMA SpawnedInLine ==
  ASSUME NEW t, NEW ahead, InLine(t, ahead), NEW job \in Job, NEW jobs,
         jobs = <<>> \/ jobs \in Results[job]
  PROVE  /\ AtMostOneOf(jobs, ahead) /\ AtMostOneOf(jobs, Tagged(t))
         /\ ToSet(jobs) \cap ahead # {} => job \in ahead /\ ToSet(jobs) \cap Later(t) = {}
         /\ ToSet(jobs) \cap Tagged(t) # {} => job \in ahead \cup Tagged(t)
         /\ ToSet(jobs) \cap Later(t) # {} => job \in ahead \cup Later(t)
<1>1. CASE jobs = <<>>
  BY <1>1 DEF AtMostOneOf, ToSet
<1>2. CASE jobs \in Results[job]
  <2>1. /\ AtMostOneOf(jobs, ahead) /\ AtMostOneOf(jobs, Tagged(t))
        /\ ToSet(jobs) \cap ahead # {} =>
             job \in ahead /\ ToSet(jobs) \cap (Tagged(t) \cup Waiters(t)) = {}
        /\ ToSet(jobs) \cap Tagged(t) # {} => job \in ahead \cup Tagged(t)
        /\ ToSet(jobs) \cap Waiters(t) # {} => job \in ahead \cup Waiters(t)
    BY <1>2 DEF InLine
  <2> QED
    BY <2>1 DEF Later
<1> QED
  BY <1>1, <1>2

LEMMA ReplacedInLine ==
  ASSUME NEW t, NEW ahead, InLine(t, ahead), NEW p, JobOf(p) \in Job, Replaceable(p)
  PROVE  /\ Replacement(p) \in ahead => JobOf(p) \in ahead
         /\ Replacement(p) \in Tagged(t) => JobOf(p) \in Tagged(t)
         /\ Replacement(p) \in Later(t) => JobOf(p) \in Later(t)
<1>1. Replacement(p) \in {RetryOf[JobOf(p)], BackupOf[JobOf(p)]}
  BY DEF Replacement, Replaceable, JobOf
<1>2. \A S \in {ahead, Tagged(t), Waiters(t)} :
        {RetryOf[JobOf(p)], BackupOf[JobOf(p)]} \cap S # {} => JobOf(p) \in S
  BY DEF InLine
<1>3. \A S \in {ahead, Tagged(t), Waiters(t)} : Replacement(p) \in S => JobOf(p) \in S
  BY <1>1, <1>2
<1> QED
  BY <1>3 DEF Later

\* When the jobs a completed package spawned are taken up.
LEMMA TakesUpKeeps ==
  ASSUME TypeOK, Nexts, NEW t, NEW ahead, InLine(t, ahead), BarrierInv(t, ahead), TakesUp
  PROVE  BarrierInv(t, ahead)'
<1> DEFINE s == spawner'
<1>1. /\ Pkgs' = Pkgs /\ s \in Pkgs /\ Held(s) /\ s # 0 /\ spawner = 0
      /\ \A q \in Pkgs : JobOf(q)' = JobOf(q) /\ (Open(q)' <=> Open(q))
      /\ \A q \in Pkgs : Held(q)' <=> Held(q) /\ q # s
  <2>1. 0 \notin Pkgs
    BY NewOK
  <2> QED
    BY <2>1 DEF TakesUp, Pkgs, JobOf, Open, Held
<1>2. ToSet(rest) = {} /\ ToSet(nextJobs) = {} /\ nextJobs' = nextJobs
  BY DEF TakesUp, ToSet
<1>3. /\ AtMostOneOf(rest', ahead) /\ AtMostOneOf(rest', Tagged(t))
      /\ ToSet(rest') \cap ahead # {} => JobOf(s) \in ahead /\ ToSet(rest') \cap Later(t) = {}
      /\ ToSet(rest') \cap Tagged(t) # {} => JobOf(s) \in ahead \cup Tagged(t)
      /\ ToSet(rest') \cap Later(t) # {} => JobOf(s) \in ahead \cup Later(t)
  <2>1. JobOf(s) \in Job
    BY <1>1, PkgEntries DEF TypeOK, Package, JobOf
  <2>2. rest' = <<>> \/ rest' \in Results[JobOf(s)]
    BY <1>1 DEF TakesUp, Nexts
  <2> HIDE DEF s
  <2> QED
    BY <2>1, <2>2, SpawnedInLine
<1>4. ToSet(rest)' = ToSet(rest')
  BY DEF ToSet
<1>s. spawner' = s
  OBVIOUS
<1> HIDE DEF s
<1>5. AheadOnce(ahead)'
  BY <1>1, <1>3, <1>4 DEF BarrierInv, AheadOnce, AtMostOneOf
<1>6. AheadFirst(t, ahead)'
  <2>1. ASSUME NEW q \in Pkgs, Held(q), q # s, JobOf(q) \in ahead
        PROVE  /\ \A r \in Pkgs : Open(r) => JobOf(r) \notin Later(t)
               /\ ToSet(rest') \cap Later(t) = {}
    <3>1. \A r \in Pkgs : Open(r) => JobOf(r) \notin Later(t)
      BY <2>1 DEF BarrierInv, AheadFirst, IsAhead
    <3>2. JobOf(s) \notin ahead /\ JobOf(s) \notin Later(t)
      BY <1>1, <2>1, <3>1 DEF BarrierInv, AheadOnce, Held
    <3> QED
      BY <1>3, <3>1, <3>2
  <2>2. ASSUME ToSet(rest') \cap ahead # {}
        PROVE  /\ \A r \in Pkgs : Open(r) => JobOf(r) \notin Later(t)
               /\ ToSet(rest') \cap Later(t) = {}
    BY <1>1, <1>3, <2>2 DEF BarrierInv, AheadFirst, IsAhead
  <2> QED
    BY <1>1, <1>4, <2>1, <2>2 DEF AheadFirst, IsAhead, Later, Tagged, Waiters
<1>7. SpawnedFrom(t, ahead)'
  <2>1. JobOf(s) \in ahead => \A q \in Pkgs : Open(q) => JobOf(q) \notin Later(t)
    BY <1>1 DEF BarrierInv, AheadFirst, IsAhead
  <2>2. pc' # "idle"
    BY DEF TakesUp
  <2> QED
    BY <1>1, <1>2, <1>3, <1>4, <1>s, <2>1, <2>2 DEF SpawnedFrom, Later, Tagged, Waiters, ToSet
<1>8. TaggedOnce(t)'
  <2>1. ASSUME NEW q \in Pkgs, Held(q), q # s, JobOf(q) \in Tagged(t)
        PROVE  JobOf(s) \notin ahead /\ JobOf(s) \notin Tagged(t)
    <3>1. Open(q) /\ JobOf(q) \in Later(t)
      BY <2>1 DEF Held, Later
    <3> QED
      BY <1>1, <2>1, <3>1 DEF BarrierInv, AheadFirst, IsAhead, TaggedOnce
  <2>2. \A q, r \in Pkgs :
          Held(q) /\ Held(r) /\ JobOf(q) \in Tagged(t) /\ JobOf(r) \in Tagged(t) => q = r
    BY DEF BarrierInv, TaggedOnce
  <2> QED
    BY <1>1, <1>3, <1>4, <1>s, <2>1, <2>2 DEF TaggedOnce, Tagged, AtMostOneOf
<1>9. Covered(t)'
  <2>1. inProgress' = inProgress /\ Open(s)
    BY <1>1 DEF TakesUp, Held
  <2> QED
    BY <1>1, <1>2, <1>s, <2>1 DEF BarrierInv, Covered, Tagged
<1> QED
  BY <1>5, <1>6, <1>7, <1>8, <1>9 DEF BarrierInv

\* When the next job is pushed.
LEMMA PushesOnKeeps ==
  ASSUME TypeOK, SpawnerBusy, NEW t, NEW ahead, InLine(t, ahead), BarrierInv(t, ahead), PushesOn,
         spawner = 0 => nextJobs = <<>>
  PROVE  BarrierInv(t, ahead)'
<1> DEFINE job == Head(rest)
<1>1. /\ rest # <<>> /\ rest \in Seq(Job) /\ nextJobs \in Seq(Job) /\ job \in Job
      /\ rest' = Tail(rest) /\ spawner' = spawner /\ pc' = pc /\ inProgress' = inProgress
      /\ spawner # 0 => spawner \in Pkgs
  BY HeadTailProperties DEF PushesOn, TypeOK
<1>2. /\ job \in ToSet(rest) /\ ToSet(rest') \subseteq ToSet(rest) /\ ToSet(rest)' = ToSet(rest')
  BY <1>1, ElementsOfTail DEF ToSet
<1>3. \A S : AtMostOneOf(rest, S) =>
               AtMostOneOf(rest', S) /\ (job \in S => ToSet(rest') \cap S = {})
  BY <1>1, OneOfTail
<1>4. /\ Pkgs \subseteq Pkgs' /\ New \notin Pkgs /\ New # spawner
      /\ \A q \in Pkgs : pkg'[q] = pkg[q]
      /\ \A q \in Pkgs' \ Pkgs : q = New /\ JobOf(q)' = job /\ pkg'[q].fut = "queued"
      /\ \/ ToSet(nextJobs)' = ToSet(nextJobs) \cup (IF spawner = 0 THEN {} ELSE {job})
         \/ Pkgs' = Pkgs /\ ToSet(nextJobs)' = ToSet(nextJobs)
  <2>1. New \notin Pkgs /\ New # spawner
    BY <1>1, NewOK
  <2>2. CASE UNCHANGED <<pkg, nextJobs>>
    BY <2>1, <2>2 DEF Pkgs, ToSet
  <2>3. CASE /\ Grown(job) /\ \A q \in Pkgs : pkg'[q] = pkg[q]
             /\ nextJobs' = IF spawner = 0 THEN <<>> ELSE Append(nextJobs, job)
    <3>1. ToSet(nextJobs)' = ToSet(nextJobs')
      BY DEF ToSet
    <3>2. ToSet(nextJobs') = ToSet(nextJobs) \cup (IF spawner = 0 THEN {} ELSE {job})
      BY <1>1, <2>3, ElementsOfAppend
    <3> QED
      BY <2>1, <2>3, <3>1, <3>2 DEF Grown, JobOf
  <2> QED
    BY <2>2, <2>3 DEF PushesOn
<1> HIDE DEF job
<1>5. /\ \A q \in Pkgs : JobOf(q)' = JobOf(q) /\ (Open(q)' <=> Open(q)) /\ (Held(q)' <=> Held(q))
      /\ \A q \in Pkgs' : q \in Pkgs \/ (q = New /\ JobOf(q)' = job)
  BY <1>1, <1>4 DEF JobOf, Open, Held
<1>6. AheadOnce(ahead)'
  <2>1. /\ AtMostOneOf(rest', ahead) /\ (job \in ahead => ToSet(rest') \cap ahead = {})
        /\ \A q \in Pkgs : Held(q) /\ JobOf(q) \in ahead => job \notin ahead
    BY <1>2, <1>3 DEF BarrierInv, AheadOnce
  <2>2. \A q \in Pkgs' : Held(q)' /\ JobOf(q)' \in ahead => ToSet(rest)' \cap ahead = {}
    BY <1>2, <1>5, <2>1 DEF BarrierInv, AheadOnce
  <2>3. \A q, r \in Pkgs' :
          Held(q)' /\ Held(r)' /\ JobOf(q)' \in ahead /\ JobOf(r)' \in ahead => q = r
    BY <1>5, <2>1 DEF BarrierInv, AheadOnce
  <2> QED
    BY <2>1, <2>2, <2>3 DEF AheadOnce, AtMostOneOf
<1>7. AheadFirst(t, ahead)'
  <2>1. IsAhead(ahead)' => IsAhead(ahead)
    BY <1>2, <1>5 DEF IsAhead
  <2>2. IsAhead(ahead) => /\ \A q \in Pkgs : Open(q) => JobOf(q) \notin Later(t)
                          /\ job \notin Later(t) /\ ToSet(rest') \cap Later(t) = {}
    BY <1>2 DEF BarrierInv, AheadFirst
  <2> QED
    BY <1>2, <1>5, <2>1, <2>2 DEF AheadFirst, Later, Tagged, Waiters
<1>8. SpawnedFrom(t, ahead)'
  <2>1. SpawnedFrom(t, ahead)
    BY DEF BarrierInv
  <2>2. ToSet(rest)' \cap Later(t) # {} => spawner # 0
    BY <1>2, <2>1 DEF SpawnedFrom
  <2>3. (ToSet(rest)' \cup ToSet(nextJobs)') \cap Tagged(t) # {} =>
          spawner # 0 /\ JobOf(spawner)' \in ahead \cup Tagged(t)
    BY <1>1, <1>2, <1>4, <1>5, <2>1 DEF SpawnedFrom
  <2>4. spawner # 0 /\ JobOf(spawner)' \in ahead =>
          \A q \in Pkgs' : Open(q)' /\ JobOf(q)' \in Later(t) => pkg'[q].fut = "queued"
    BY <1>1, <1>4, <1>5, <2>1 DEF SpawnedFrom
  <2>5. pc = "idle" => \A q \in Pkgs' : Open(q)' => JobOf(q)' \notin Later(t)
    <3>1. pc = "idle" => job \notin Later(t)
      BY <1>2, <2>1 DEF SpawnedFrom, SpawnerBusy
    <3> QED
      BY <1>5, <2>1, <3>1 DEF SpawnedFrom
  <2> QED
    BY <1>1, <2>2, <2>3, <2>4, <2>5 DEF SpawnedFrom, Later, Tagged, Waiters
<1>9. TaggedOnce(t)'
  <2>1. /\ AtMostOneOf(rest', Tagged(t)) /\ (job \in Tagged(t) => ToSet(rest') \cap Tagged(t) = {})
        /\ \A q \in Pkgs : Held(q) /\ JobOf(q) \in Tagged(t) => job \notin Tagged(t)
    BY <1>2, <1>3 DEF BarrierInv, TaggedOnce
  <2>2. \A q \in Pkgs' : Held(q)' /\ JobOf(q)' \in Tagged(t) =>
          /\ ToSet(rest)' \cap Tagged(t) = {}
          /\ spawner # 0 /\ JobOf(spawner) \in Tagged(t) => JobOf(q)' \in ToSet(nextJobs)'
    BY <1>2, <1>4, <1>5, <2>1 DEF BarrierInv, TaggedOnce
  <2>3. \A q, r \in Pkgs' :
          Held(q)' /\ Held(r)' /\ JobOf(q)' \in Tagged(t) /\ JobOf(r)' \in Tagged(t) => q = r
    BY <1>5, <2>1 DEF BarrierInv, TaggedOnce
  <2> QED
    BY <1>1, <1>5, <2>1, <2>2, <2>3 DEF TaggedOnce, Tagged, AtMostOneOf
<1>10. Covered(t)'
  <2>1. job \in Tagged(t) => spawner # 0
    BY <1>2 DEF BarrierInv, SpawnedFrom, Later
  <2>2. \A q \in Pkgs' :
          Open(q)' /\ JobOf(q)' \in Tagged(t) => JobOf(q)' \in inProgress \cup ToSet(nextJobs)'
    BY <1>4, <1>5, <2>1 DEF BarrierInv, Covered
  <2> QED
    BY <1>1, <1>5, <2>2 DEF BarrierInv, Covered, Tagged
<1> QED
  BY <1>6, <1>7, <1>8, <1>9, <1>10 DEF BarrierInv

\* When a failed package is replaced.
LEMMA RenewsKeeps ==
  ASSUME TypeOK, NEW t, NEW ahead, InLine(t, ahead), BarrierInv(t, ahead),
         NEW p \in Pkgs, Renews(p), nextJobs = <<>>
  PROVE  BarrierInv(t, ahead)'
<1> DEFINE job == Replacement(p)
<1>1. /\ spawner = 0 /\ spawner' = 0 /\ ToSet(rest) = {} /\ ToSet(rest)' = {}
      /\ ToSet(nextJobs) = {} /\ ToSet(nextJobs)' = {} /\ pc' # "idle" /\ rest' = rest
  BY DEF Renews, ToSet
<1>2. /\ JobOf(p) \in Job
      /\ job \in ahead => JobOf(p) \in ahead
      /\ job \in Tagged(t) => JobOf(p) \in Tagged(t)
      /\ job \in Later(t) => JobOf(p) \in Later(t)
  <2>1. JobOf(p) \in Job
    BY PkgEntries DEF TypeOK, Package, JobOf
  <2> QED
    BY <2>1, ReplacedInLine DEF Renews
<1>3. /\ New \notin Pkgs /\ Pkgs' = Pkgs \cup {New} /\ 0 \notin Pkgs'
      /\ (\A q \in Pkgs' \ Pkgs : q = New /\ JobOf(q)' = job) /\ Held(p) /\ ~Held(p)'
      /\ \A q \in Pkgs : JobOf(q)' = JobOf(q) /\ (Open(q)' <=> Open(q) /\ q # p)
      /\ \A q \in Pkgs : Held(q)' <=> Held(q) /\ q # p
  <2>1. New \notin Pkgs /\ 0 \notin Pkgs /\ New # 0
    BY NewOK
  <2>2. /\ Pkgs' = Pkgs \cup {New} /\ pkg'[New].job = job
        /\ Open(p) /\ pkg'[p].outcome = "retried"
        /\ \A q \in Pkgs : pkg'[q].job = pkg[q].job /\ (q # p => pkg'[q] = pkg[q])
    BY DEF Renews, Grown, Kept
  <2> HIDE DEF job
  <2>3. \A q \in Pkgs' \ Pkgs : q = New /\ JobOf(q)' = job
    BY <2>2 DEF JobOf
  <2>4. \A q \in Pkgs : JobOf(q)' = JobOf(q) /\ (Open(q)' <=> Open(q) /\ q # p)
    BY <2>2 DEF JobOf, Open
  <2> QED
    BY <1>1, <2>1, <2>2, <2>3, <2>4 DEF Held
<1>i. /\ inProgress \ {JobOf(p)} \subseteq inProgress'
      /\ IF job = JobOf(p) THEN inProgress \subseteq inProgress' ELSE job \in inProgress'
  BY DEF Renews
<1> HIDE DEF job
<1>4. AheadOnce(ahead)'
  <2>1. \A q, r \in Pkgs' :
          Held(q)' /\ Held(r)' /\ JobOf(q)' \in ahead /\ JobOf(r)' \in ahead => q = r
    BY <1>2, <1>3 DEF BarrierInv, AheadOnce
  <2> QED
    BY <1>1, <2>1 DEF BarrierInv, AheadOnce
<1>5. AheadFirst(t, ahead)'
  <2>1. IsAhead(ahead)' => IsAhead(ahead)
    BY <1>1, <1>2, <1>3 DEF IsAhead
  <2>2. IsAhead(ahead) => \A q \in Pkgs' : Open(q)' => JobOf(q)' \notin Later(t)
    BY <1>2, <1>3 DEF BarrierInv, AheadFirst, Held
  <2> QED
    BY <1>1, <2>1, <2>2 DEF AheadFirst, Later, Tagged, Waiters
<1>6. SpawnedFrom(t, ahead)'
  BY <1>1 DEF SpawnedFrom
<1>7. TaggedOnce(t)'
  <2>1. \A q, r \in Pkgs' :
          Held(q)' /\ Held(r)' /\ JobOf(q)' \in Tagged(t) /\ JobOf(r)' \in Tagged(t) => q = r
    BY <1>2, <1>3 DEF BarrierInv, TaggedOnce
  <2> QED
    BY <1>1, <2>1 DEF BarrierInv, TaggedOnce, Tagged
<1>8. Covered(t)'
  <2>1. ASSUME NEW q \in Pkgs', Open(q)', JobOf(q)' \in Tagged(t)
        PROVE  JobOf(q)' \in inProgress'
    <3>1. CASE q = New
      BY <1>1, <1>2, <1>3, <1>i, <2>1, <3>1 DEF BarrierInv, Covered, Held
    <3>2. CASE q # New
      <4>1. q \in Pkgs /\ q # p /\ Open(q) /\ JobOf(q)' = JobOf(q) /\ Held(q)
        BY <1>1, <1>3, <2>1, <3>2 DEF Held
      <4>2. JobOf(q) \in inProgress /\ JobOf(q) # JobOf(p)
        BY <1>1, <1>3, <2>1, <4>1 DEF BarrierInv, Covered, TaggedOnce
      <4> QED
        BY <1>i, <4>1, <4>2
    <3> QED
      BY <3>1, <3>2
  <2> QED
    BY <1>1, <2>1 DEF Covered, Tagged
<1> QED
  BY <1>4, <1>5, <1>6, <1>7, <1>8 DEF BarrierInv

\* When an execution begins or ends.
LEMMA BeginsKeeps ==
  ASSUME NEW t, NEW ahead, BarrierInv(t, ahead), Begins
  PROVE  BarrierInv(t, ahead)'
<1>1. /\ Pkgs' = Pkgs /\ UNCHANGED <<spawner, rest, nextJobs>> /\ spawner = 0
      /\ \A q \in Pkgs : /\ JobOf(q)' = JobOf(q) /\ (Open(q)' <=> Open(q))
                         /\ (Held(q)' <=> Held(q))
  BY DEF Begins, Pkgs, JobOf, Open, Held
<1>2. \A q \in Pkgs : Open(q) => JobOf(q) \notin Later(t)
  BY DEF Begins, BarrierInv, SpawnedFrom
<1>3. AheadOnce(ahead)'
  BY <1>1 DEF BarrierInv, AheadOnce
<1>4. AheadFirst(t, ahead)'
  BY <1>1 DEF BarrierInv, AheadFirst, IsAhead, Later, Tagged, Waiters
<1>5. SpawnedFrom(t, ahead)'
  BY <1>1, <1>2 DEF BarrierInv, SpawnedFrom, Later, Tagged, Waiters
<1>6. TaggedOnce(t)'
  BY <1>1 DEF BarrierInv, TaggedOnce, Tagged
<1>7. Covered(t)'
  BY <1>1, <1>2 DEF Covered, Tagged, Later
<1> QED
  BY <1>3, <1>4, <1>5, <1>6, <1>7 DEF BarrierInv

LEMMA FinishesKeeps ==
  ASSUME NEW t, NEW ahead, InLine(t, ahead), Finishes
  PROVE  BarrierInv(t, ahead)'
<1>1. /\ spawner' = 0 /\ \A q \in Pkgs' : ~Open(q)'
      /\ ToSet(nextJobs)' = {} /\ ToSet(rest)' = ToSet(rest')
  BY DEF Finishes, Open, ToSet
<1>2. /\ AtMostOneOf(rest', ahead) /\ ToSet(rest') \cap Later(t) = {}
      /\ AtMostOneOf(rest', Tagged(t))
  <2>1. CASE rest' = <<>>
    BY <2>1 DEF AtMostOneOf, ToSet
  <2>2. CASE rest' = Roots
    <3>1. ToSet(Roots) \cap Later(t) = {} /\ AtMostOneOf(Roots, ahead)
      BY DEF InLine, Later
    <3>2. AtMostOneOf(Roots, Tagged(t))
      BY <3>1 DEF AtMostOneOf, ToSet, Later
    <3> QED
      BY <2>2, <3>1, <3>2
  <2> QED
    BY <2>1, <2>2 DEF Finishes
<1>3. AheadOnce(ahead)'
  BY <1>1, <1>2 DEF AheadOnce, AtMostOneOf, Held, Open
<1>4. AheadFirst(t, ahead)'
  BY <1>1, <1>2 DEF AheadFirst, Later, Tagged, Waiters
<1>5. SpawnedFrom(t, ahead)'
  BY <1>1, <1>2 DEF SpawnedFrom, Later, Tagged, Waiters
<1>6. TaggedOnce(t)'
  BY <1>1, <1>2 DEF TaggedOnce, Tagged, AtMostOneOf, Held, Open
<1>7. Covered(t)'
  BY <1>1 DEF Covered
<1> QED
  BY <1>3, <1>4, <1>5, <1>6, <1>7 DEF BarrierInv

\* A package that moves on, with no job of the tracking lost.
LEMMA MovedFades ==
  ASSUME Pkgs' = Pkgs, UNCHANGED <<spawner, rest, nextJobs>>, pc' = "idle" => pc = "idle",
         \A q \in Pkgs : pkg'[q].job = pkg[q].job /\ pkg'[q].outcome = pkg[q].outcome,
         spawner # 0 => \A q \in Pkgs : pkg[q].fut = "queued" => pkg'[q].fut = "queued",
         inProgress \subseteq inProgress'
  PROVE  Fades
BY DEF Fades

\* One that gets its outcome, with its job.
LEMMA EndedFades ==
  ASSUME Steady, UNCHANGED <<spawner, rest, nextJobs>>, pc' = "idle" => pc = "idle",
         NEW p \in Pkgs, Open(p), pkg'[p].outcome # "none",
         \A q \in Pkgs : q # p => pkg'[q] = pkg[q],
         spawner = 0, inProgress \ {JobOf(p)} \subseteq inProgress'
  PROVE  Fades
BY DEF Fades, Steady, Kept, Open

\* One that failed.
LEMMA RetryTags ==
  ASSUME LedgerInv, NEW p \in Pkgs, pkg[p].ends = 0, RetryPackage(p),
         IF Replaceable(p) THEN TrackRetried(JobOf(p), Replacement(p))
         ELSE TrackEnded({JobOf(p)}),
         UNCHANGED <<spawner, rest, nextJobs>>, spawner = 0, pc # "idle", pc' # "idle"
  PROVE  TagStep
<1>1. TypeOK /\ Open(p) /\ rest = <<>>
  BY DEF LedgerInv, SettledInv, OutcomeReported, RestBusy
<1>2. /\ IF Replaceable(p) THEN Grown(Replacement(p)) /\ pkg'[p].outcome = "retried"
         ELSE Steady /\ pkg'[p].outcome = "failed"
      /\ \A q \in Pkgs : q # p => pkg'[q] = pkg[q]
  BY <1>1, RetryKeeps
<1>3. CASE Replaceable(p)
  <2>1. /\ inProgress \ {JobOf(p)} \subseteq inProgress'
        /\ IF Replacement(p) = JobOf(p) THEN inProgress \subseteq inProgress'
           ELSE Replacement(p) \in inProgress'
    <3>1. CASE Replacement(p) = JobOf(p)
      BY <1>3, <3>1 DEF TrackRetried, tracking
    <3>2. CASE Replacement(p) # JobOf(p)
      <4>1. TrackHandover(JobOf(p), {Replacement(p)})
        BY <1>3, <3>2 DEF TrackRetried
      <4> QED
        BY <3>2, <4>1 DEF TrackHandover
    <3> QED
      BY <3>1, <3>2
  <2> QED
    BY <1>1, <1>2, <1>3, <2>1 DEF TagStep, Renews
<1>4. CASE ~Replaceable(p)
  <2>1. TrackEnded({JobOf(p)})
    BY <1>4
  <2>2. inProgress \ {JobOf(p)} \subseteq inProgress'
    BY <2>1 DEF TrackEnded
  <2> QED
    BY <1>1, <1>2, <1>4, <2>2, EndedFades DEF TagStep
<1> QED
  BY <1>3, <1>4

\* Before that it fades for a cancellation, or nothing is changed.
LEMMA ErrorTags ==
  ASSUME LedgerInv, NEW p \in Pkgs, pkg[p].ends = 0,
         ReturnedError(p), TrackReturnedError(p),
         UNCHANGED <<spawner, rest, nextJobs>>, spawner = 0, pc # "idle", pc' # "idle"
  PROVE  TagStep
<1>1. TypeOK /\ Open(p)
  BY DEF LedgerInv, SettledInv, OutcomeReported
<1>2. /\ Steady /\ \A q \in Pkgs : q # p => pkg'[q] = pkg[q]
      /\ IF cancelled THEN pkg'[p].outcome = "failed" ELSE pkg'[p] = pkg[p]
  BY <1>1, ErrorKeeps
<1>3. CASE cancelled
  <2>1. TrackEnded({JobOf(p)})
    BY <1>3 DEF TrackReturnedError
  <2>2. inProgress \ {JobOf(p)} \subseteq inProgress'
    BY <2>1 DEF TrackEnded
  <2> QED
    BY <1>1, <1>2, <1>3, <2>2, EndedFades DEF TagStep
<1>4. CASE ~cancelled
  <2>1. inProgress' = inProgress /\ \A q \in Pkgs : pkg'[q] = pkg[q]
    BY <1>2, <1>4 DEF TrackReturnedError, tracking
  <2> QED
    BY <1>2, <2>1, MovedFades DEF TagStep, Steady, Kept
<1> QED
  BY <1>3, <1>4

\* Every step is of one of these kinds.
LEMMA SilentKinds ==
  ASSUME LedgerInv, TagInv, TSilent
  PROVE  TagStep
<1>t. TypeOK /\ SettledInv /\ RestBusy /\ OutcomeReported
  BY DEF LedgerInv, SettledInv
<1>a. inProgress' = inProgress
  BY DEF TSilent, tracking
<1>1. CASE Loop \/ EndSubmit \/ HandleNothing \/ CheckClock \/ EndCancelling
  <2>1. UNCHANGED <<pkg, spawner, rest, nextJobs>> /\ pc' # "idle"
    BY <1>1 DEF Loop, EndSubmit, HandleNothing, CheckClock, EndCancelling
  <2>2. Pkgs' = Pkgs
    BY <2>1 DEF Pkgs
  <2> QED
    BY <1>a, <2>1, <2>2, MovedFades DEF TagStep
<1>2. CASE HandleCompleted
  <2>1. /\ notifs # <<>> /\ notifs' = Tail(notifs) /\ Front.kind = "completed" /\ spawner = 0
        /\ UNCHANGED <<pkg, nextJobs, pc>> /\ pc # "idle" /\ spawner' = Front.pkg
        /\ rest' \in {<<>>, pkg[Front.pkg].next}
    BY <1>2 DEF HandleCompleted, Handling
  <2>2. Front.pkg \in Pkgs /\ pkg[Front.pkg].ends = 0
    BY <1>t, <2>1, FrontOK
  <2>3. nextJobs = <<>> /\ rest = <<>>
    BY <1>t, <2>1 DEF TagInv, ChildrenOpen, RestBusy
  <2> HIDE DEF Front
  <2> QED
    BY <1>t, <1>a, <2>1, <2>2, <2>3 DEF TagStep, TakesUp, OutcomeReported
<1>3. CASE HandleCancelled
  <2>1. /\ notifs # <<>> /\ notifs' = Tail(notifs) /\ Front.kind # "started"
        /\ pkg' = Settled(Front.pkg, "cancelled")
        /\ spawner = 0 /\ UNCHANGED <<spawner, rest, nextJobs>> /\ pc' # "idle"
    BY <1>3 DEF HandleCancelled, Handling, AfterHandled
  <2>2. PICK p \in Pkgs : p = Front.pkg /\ pkg[p].ends = 0
    BY <1>t, <2>1, FrontOK
  <2>3. /\ Steady /\ pkg'[p].outcome = "cancelled"
        /\ \A q \in Pkgs : q # p => pkg'[q] = pkg[q]
    BY <1>t, <2>1, <2>2, SettledKeeps DEF Outcomes
  <2>4. Open(p)
    BY <1>t, <2>2 DEF OutcomeReported
  <2> QED
    BY <1>a, <2>1, <2>3, <2>4, EndedFades DEF TagStep
<1>4. CASE PushJob
  <2>1. rest # <<>> /\ rest' = Tail(rest) /\ UNCHANGED <<spawner, pc, inProgress>>
    BY <1>4, <1>a DEF PushJob
  <2>2. CASE TypeOf[Head(rest)] \notin Registered
    BY <1>4, <2>1, <2>2 DEF PushJob, TagStep, PushesOn
  <2>3. CASE TypeOf[Head(rest)] \in Registered
    <3>1. nextJobs' = IF spawner = 0 THEN <<>> ELSE Append(nextJobs, Head(rest))
      BY <1>4, <2>3 DEF PushJob
    <3>2. Grown(Head(rest)) /\ \A q \in Pkgs : pkg'[q] = pkg[q]
      BY <1>t, <1>4, <2>3, PushGrows
    <3> QED
      BY <2>1, <3>1, <3>2 DEF TagStep, PushesOn
  <2> QED
    BY <2>2, <2>3
<1> QED
  BY <1>1, <1>2, <1>3, <1>4 DEF TSilent

LEMMA ReportedKinds ==
  ASSUME LedgerInv, TagInv, TMain
  PROVE  TagStep
<1>t. /\ TypeOK /\ SettledInv /\ SpawnerBusy /\ RestBusy /\ OutcomeReported
      /\ QueuedOnce /\ UnsettledBefore
  BY DEF LedgerInv, SettledInv
<1>a. scan \subseteq Pkgs /\ scan \subseteq futures
  BY <1>t DEF TypeOK
<1>b. \A q \in Pkgs : pkg[q].ends = 0 <=> Open(q)
  BY <1>t DEF OutcomeReported
<1>c. spawner = 0 => nextJobs = <<>>
  BY DEF TagInv, ChildrenOpen
<1>1. CASE TSilent
  BY <1>1, SilentKinds
<1>2. CASE TExecuteJobs
  <2>1. UNCHANGED <<pkg, spawner, rest, nextJobs>> /\ pc = "idle"
    BY <1>2 DEF TExecuteJobs, ExecuteJobs
  <2> QED
    BY <1>t, <2>1 DEF SpawnerBusy, TagStep, Begins
<1>3. CASE TSubmit
  <2> DEFINE p == IF prioQ # <<>> THEN Head(prioQ) ELSE Head(normQ)
  <2>1. /\ HasQueued /\ pc = "submit" /\ pc' = pc /\ UNCHANGED <<spawner, rest, nextJobs>>
        /\ \/ pkg' = Ended(p, "dropped", "failed") /\ TrackEnded({JobOf(p)})
           \/ pkg' = WithFut(p, "submitted") /\ UNCHANGED tracking
    BY <1>3 DEF TSubmit, Submit
  <2>2. p \in Pkgs /\ pkg[p].ends = 0
    <3>1. CASE prioQ # <<>>
      <4>1. 1 \in 1..Len(prioQ) /\ prioQ[1] = Head(prioQ)
        BY <1>t, <3>1, TailOf DEF TypeOK
      <4> QED
        BY <1>t, <3>1, <4>1, QueuesOK DEF QueuedOnce, UnsettledBefore
    <3>2. CASE prioQ = <<>>
      <4>1. 1 \in 1..Len(normQ) /\ normQ[1] = Head(normQ)
        BY <1>t, <2>1, <3>2, TailOf DEF TypeOK, HasQueued
      <4> QED
        BY <1>t, <3>2, <4>1, QueuesOK DEF QueuedOnce, UnsettledBefore
    <3> QED
      BY <3>1, <3>2
  <2> HIDE DEF p
  <2>3. spawner = 0
    BY <1>t, <2>1 DEF SpawnerBusy
  <2>4. CASE pkg' = Ended(p, "dropped", "failed") /\ TrackEnded({JobOf(p)})
    <3>1. /\ Steady /\ pkg'[p].outcome = "failed" /\ \A q \in Pkgs : q # p => pkg'[q] = pkg[q]
      BY <1>t, <2>2, <2>4, EndedKeeps DEF Futs, Outcomes
    <3>2. inProgress \ {JobOf(p)} \subseteq inProgress'
      BY <2>4 DEF TrackEnded
    <3> QED
      BY <1>b, <2>1, <2>2, <2>3, <3>1, <3>2, EndedFades DEF TagStep
  <2>5. CASE pkg' = WithFut(p, "submitted") /\ UNCHANGED tracking
    <3>1. /\ Steady /\ \A q \in Pkgs : pkg'[q].outcome = pkg[q].outcome
      BY <1>t, <2>2, <2>5, MovedKeeps DEF Futs
    <3>2. inProgress \subseteq inProgress'
      BY <2>5 DEF tracking
    <3> QED
      BY <2>1, <2>3, <3>1, <3>2, MovedFades DEF TagStep, Steady, Kept
  <2> QED
    BY <2>1, <2>4, <2>5
<1>4. CASE THandleStarted
  <2>1. /\ UNCHANGED <<pkg, pc, spawner, rest, nextJobs>>
        /\ inProgress \subseteq inProgress'
    BY <1>4 DEF THandleStarted, HandleStarted, TrackStarted
  <2>2. Pkgs' = Pkgs
    BY <2>1 DEF Pkgs
  <2> QED
    BY <2>1, <2>2, MovedFades DEF TagStep
<1>5. CASE TRecordCompleted
  <2>1. /\ spawner # 0 /\ pkg' = Settled(spawner, "completed") /\ rest = <<>> /\ rest' = <<>>
        /\ spawner' = 0 /\ nextJobs' = <<>> /\ pc' # "idle"
        /\ TrackCompleted(JobOf(spawner), ToSet(nextJobs))
    BY <1>t, <1>5 DEF TRecordCompleted, RecordCompleted, AfterHandled, SpawnerBusy
  <2>2. PICK p \in Pkgs : p = spawner
    BY <1>t, <2>1 DEF TypeOK
  <2>3. /\ Steady /\ pkg'[p].outcome = "completed" /\ \A q \in Pkgs : q # p => pkg'[q] = pkg[q]
    BY <1>t, <2>1, <2>2, SettledKeeps DEF Outcomes
  <2>4. /\ (inProgress \cup ToSet(nextJobs)) \ {JobOf(spawner)} \subseteq inProgress'
        /\ JobOf(spawner) \in ToSet(nextJobs) => inProgress \subseteq inProgress'
    BY <2>1 DEF TrackCompleted, TrackHandover
  <2> QED
    BY <2>1, <2>2, <2>3, <2>4 DEF TagStep, Completes, Steady, Kept
<1>6. CASE THandleError
  <2>1. /\ notifs # <<>> /\ notifs' = Tail(notifs) /\ Front.kind # "started"
        /\ ReturnedError(Front.pkg) /\ TrackReturnedError(Front.pkg)
        /\ spawner = 0 /\ UNCHANGED <<spawner, rest, nextJobs>> /\ pc # "idle" /\ pc' # "idle"
    BY <1>6 DEF THandleError, HandleError, Handling, AfterHandled
  <2>2. PICK p \in Pkgs : p = Front.pkg /\ pkg[p].ends = 0
    BY <1>t, <2>1, FrontOK
  <2>3. ReturnedError(p) /\ TrackReturnedError(p)
    BY <2>1, <2>2
  <2> QED
    BY <2>1, <2>2, <2>3, ErrorTags
<1>10. CASE TFinishRetry
  <2> DEFINE p == retrying
  <2>1. /\ p # 0 /\ RetryPackage(p) /\ UNCHANGED <<pc, spawner, rest, nextJobs>>
        /\ IF Replaceable(p) THEN TrackRetried(JobOf(p), Replacement(p))
           ELSE TrackEnded({JobOf(p)})
    BY <1>10 DEF TFinishRetry, FinishRetry
  <2>2. p \in Pkgs /\ pkg[p].ends = 0 /\ spawner = 0 /\ pc # "idle"
    BY <1>t, <2>1 DEF TypeOK, LedgerInv, SettledInv, RetryingUnsettled, RetryingBusy
  <2> HIDE DEF p
  <2> QED
    BY <2>1, <2>2, RetryTags
<1>7. CASE TEndExecution
  <2>1. /\ rest' \in {Roots, <<>>} /\ spawner' = 0 /\ nextJobs' = <<>> /\ Pkgs' = Pkgs
        /\ \A q \in Pkgs : pkg'[q] =
             IF InQueue(q) THEN [pkg[q] EXCEPT !.fut = "dropped", !.outcome = "cancelled",
                                               !.ends = @ + 1]
                           ELSE pkg[q]
    BY <1>7, <1>c DEF TEndExecution, EndExecution, Pkgs
  <2>2. ASSUME NEW q \in Pkgs PROVE pkg'[q].outcome # "none"
    <3>1. pkg[q] \in Package
      BY <1>t, PkgEntries DEF TypeOK
    <3>2. Open(q) => InQueue(q)
      BY <1>7, OnlyQueuedLeft DEF TEndExecution
    <3> QED
      BY <2>1, <3>1, <3>2 DEF Open, Package
  <2> QED
    BY <2>1, <2>2 DEF TagStep, Finishes
<1>8. ASSUME NEW p \in scan, TReapFuture(p) PROVE TagStep
  <2>1. /\ p \in Pkgs /\ p \in futures /\ pc = "reap" /\ pc' = pc
        /\ UNCHANGED <<spawner, rest, nextJobs>>
    BY <1>a, <1>8 DEF TReapFuture, ReapFuture
  <2>2. spawner = 0
    BY <1>t, <2>1 DEF SpawnerBusy
  <2>3. pkg[p].fut \in {"raised", "aborted"} => pkg[p].ends = 0
    BY <1>t, <2>1 DEF SettledInv, RaisedOnce
  <2>4. CASE pkg[p].fut = "raised"
    <3>1. ReturnedError(p) /\ TrackReturnedError(p)
      BY <1>8, <2>4 DEF TReapFuture, ReapFuture
    <3> QED
      BY <2>1, <2>2, <2>3, <2>4, <3>1, ErrorTags
  <2>5. CASE pkg[p].fut = "aborted"
    <3>1. pkg' = Settled(p, "failed") /\ TrackEnded({JobOf(p)})
      BY <1>8, <2>5 DEF TReapFuture, ReapFuture
    <3>2. /\ Steady /\ pkg'[p].outcome = "failed" /\ \A q \in Pkgs : q # p => pkg'[q] = pkg[q]
      BY <1>t, <2>1, <3>1, SettledKeeps DEF Outcomes
    <3>3. inProgress \ {JobOf(p)} \subseteq inProgress'
      BY <3>1 DEF TrackEnded
    <3> QED
      BY <1>b, <2>1, <2>2, <2>3, <2>5, <3>2, <3>3, EndedFades DEF TagStep
  <2>6. CASE pkg[p].fut \notin {"raised", "aborted"}
    <3>1. UNCHANGED pkg /\ inProgress' = inProgress /\ Pkgs' = Pkgs
      BY <1>8, <2>6 DEF TReapFuture, ReapFuture, Pkgs, tracking
    <3> QED
      BY <2>1, <2>2, <3>1, MovedFades DEF TagStep
  <2> QED
    BY <2>4, <2>5, <2>6
<1>9. ASSUME NEW p \in scan, TCancelFuture(p) PROVE TagStep
  <2>1. /\ p \in Pkgs /\ p \in futures /\ pc = "cancelling" /\ pc' = pc
        /\ UNCHANGED <<spawner, rest, nextJobs>>
    BY <1>a, <1>9 DEF TCancelFuture, CancelFuture
  <2>2. spawner = 0
    BY <1>t, <2>1 DEF SpawnerBusy
  <2>3. pkg[p].fut \in {"raised", "aborted", "submitted"} => pkg[p].ends = 0
    BY <1>t, <1>9, <2>1 DEF SettledInv, RaisedOnce, UnsettledBefore
  <2>4. CASE pkg[p].fut = "submitted"
    <3>1. pkg' = Ended(p, "dropped", "cancelled") /\ inProgress' = inProgress
      BY <1>9, <2>4 DEF TCancelFuture, CancelFuture, tracking
    <3>2. /\ Steady /\ pkg'[p].outcome = "cancelled"
          /\ \A q \in Pkgs : q # p => pkg'[q] = pkg[q]
      BY <1>t, <2>1, <3>1, EndedKeeps DEF Futs, Outcomes
    <3> QED
      BY <1>b, <2>1, <2>2, <2>3, <2>4, <3>1, <3>2, EndedFades DEF TagStep
  <2>5. CASE pkg[p].fut \in {"raised", "aborted"}
    <3>1. pkg' = Settled(p, "failed") /\ TrackEnded({JobOf(p)})
      BY <1>9, <2>5 DEF TCancelFuture, CancelFuture
    <3>2. /\ Steady /\ pkg'[p].outcome = "failed" /\ \A q \in Pkgs : q # p => pkg'[q] = pkg[q]
      BY <1>t, <2>1, <3>1, SettledKeeps DEF Outcomes
    <3>3. inProgress \ {JobOf(p)} \subseteq inProgress'
      BY <3>1 DEF TrackEnded
    <3> QED
      BY <1>b, <2>1, <2>2, <2>3, <2>5, <3>2, <3>3, EndedFades DEF TagStep
  <2>6. CASE pkg[p].fut = "done"
    <3>1. UNCHANGED pkg /\ inProgress' = inProgress /\ Pkgs' = Pkgs
      BY <1>9, <2>6 DEF TCancelFuture, CancelFuture, Pkgs, tracking
    <3> QED
      BY <2>1, <2>2, <3>1, MovedFades DEF TagStep
  <2> QED
    BY <1>9, <2>4, <2>5, <2>6 DEF TCancelFuture, CancelFuture
<1> QED
  BY <1>1, <1>2, <1>3, <1>4, <1>5, <1>6, <1>7, <1>8, <1>9, <1>10 DEF TMain

LEMMA WorkerKinds ==
  ASSUME LedgerInv,
         (\E p \in Pkgs : TWorker(p)) \/ TEnvironment \/ UNCHANGED tagVars
  PROVE  TagStep
<1>t. TypeOK
  BY DEF LedgerInv, SettledInv
<1>1. ASSUME NEW p \in Pkgs, TWorker(p) PROVE TagStep
  <2>1. /\ inProgress' = inProgress /\ UNCHANGED <<pc, spawner, rest, nextJobs>>
        /\ pkg[p].fut # "queued"
    BY <1>1 DEF TWorker, StartWork, Return, NotifyCompleted, NotifyError, Raise, WaitTimedOut,
       ExitWork, mainVars, tracking
  <2>2. /\ Pkgs' = Pkgs
        /\ \A q \in Pkgs : /\ pkg'[q].job = pkg[q].job /\ pkg'[q].outcome = pkg[q].outcome
                           /\ q # p => pkg'[q] = pkg[q]
    <3>1. CASE Return(p)
      BY <1>t, <3>1, ReturnKeeps
    <3>2. CASE ~Return(p)
      <4>1. \E f \in Futs : pkg' = WithFut(p, f)
        BY <1>1, <3>2 DEF TWorker, StartWork, NotifyCompleted, NotifyError, Raise, WaitTimedOut,
           ExitWork, Futs
      <4> QED
        BY <1>t, <4>1, MovedKeeps DEF Steady, Kept
    <3> QED
      BY <3>1, <3>2
  <2>3. \A q \in Pkgs : pkg[q].fut = "queued" => pkg'[q].fut = "queued"
    BY <2>1, <2>2
  <2> QED
    BY <2>1, <2>2, <2>3, MovedFades DEF TagStep
<1>2. CASE TEnvironment \/ UNCHANGED tagVars
  <2>1. UNCHANGED <<pkg, pc, spawner, rest, nextJobs>> /\ inProgress' = inProgress
    BY <1>2 DEF TEnvironment, Signal, TrackActivity, mainVars, tagVars, vars, tracking
  <2>2. Pkgs' = Pkgs
    BY <2>1 DEF Pkgs
  <2> QED
    BY <2>1, <2>2, MovedFades DEF TagStep
<1> QED
  BY <1>1, <1>2

\* Packages go on spawning what their workers returned.
LEMMA NextsStep ==
  ASSUME LedgerInv, Nexts, [TNext]_tagVars
  PROVE  Nexts'
<1>t. TypeOK
  BY DEF LedgerInv, SettledInv
<1>1. CASE Steady
  BY <1>1 DEF Nexts, Steady, Kept, JobOf
<1>2. ASSUME NEW job, Grown(job) PROVE Nexts'
  <2>1. \A q \in Pkgs' : (q \in Pkgs /\ Kept(q)) \/ pkg'[q].next = <<>>
    BY <1>2 DEF Grown
  <2> QED
    BY <2>1 DEF Nexts, Kept, JobOf
<1>3. CASE UNCHANGED pkg
  BY <1>3 DEF Nexts, Pkgs, JobOf
<1>4. CASE Spawning
  BY <1>1, <1>2, <1>3, <1>4 DEF Spawning, Calm, TakenUp, Pushes, Restarts
<1>5. ASSUME NEW p \in Pkgs, Return(p) PROVE Nexts'
  <2>1. /\ Pkgs' = Pkgs /\ \A q \in Pkgs : q # p => pkg'[q] = pkg[q]
        /\ pkg'[p].job = pkg[p].job /\ pkg'[p].next \in Results[pkg[p].job]
    BY <1>t, <1>5, ReturnKeeps
  <2> QED
    BY <2>1 DEF Nexts, JobOf
<1>6. Next \/ UNCHANGED vars
  BY TrackedStep DEF tagVars
<1>7. CASE \/ Main \/ Signal \/ UNCHANGED vars
           \/ \E p \in Pkgs : TrackActivity(p) \/ (Worker(p) /\ ~Return(p))
  BY <1>4, <1>7, StepSpawns
<1> QED
  BY <1>5, <1>6, <1>7 DEF Next

\* Whatever the step, the jobs stay in line.
LEMMA BarrierStep ==
  ASSUME LedgerInv, TagInv, Nexts, NEW t, NEW ahead, InLine(t, ahead), BarrierInv(t, ahead),
         [TNext]_tagVars
  PROVE  BarrierInv(t, ahead)'
<1>t. TypeOK /\ SpawnerBusy /\ (spawner = 0 => nextJobs = <<>>)
  BY DEF LedgerInv, SettledInv, TagInv, ChildrenOpen
<1>1. TagStep
  BY ReportedKinds, WorkerKinds DEF TNext
<1>2. ASSUME NEW p \in Pkgs, Renews(p) PROVE BarrierInv(t, ahead)'
  BY <1>t, <1>2, RenewsKeeps DEF Renews
<1> QED
  BY <1>t, <1>1, <1>2, FadesKeeps, CompletesKeeps, TakesUpKeeps, PushesOnKeeps, BeginsKeeps,
     FinishesKeeps DEF TagStep

LEMMA BarrierInit ==
  ASSUME TInit, NEW t, NEW ahead, InLine(t, ahead)
  PROVE  BarrierInv(t, ahead)
<1>1. /\ Pkgs = {} /\ spawner = 0 /\ rest = Roots /\ ToSet(nextJobs) = {}
  BY EmptySeq DEF TInit, Init, Pkgs, ToSet
<1>2. /\ AtMostOneOf(Roots, ahead) /\ ToSet(Roots) \cap Later(t) = {}
  BY DEF InLine, Later
<1>3. AtMostOneOf(Roots, Tagged(t))
  BY <1>2 DEF AtMostOneOf, ToSet, Later
<1>4. ToSet(rest) \cap Tagged(t) = {}
  BY <1>1, <1>2 DEF Later
<1> QED
  BY <1>1, <1>2, <1>3, <1>4 DEF BarrierInv, AheadOnce, AheadFirst, SpawnedFrom, TaggedOnce,
     Covered

\* Nothing but its worker's return moves a package on so.
LEMMA OnlyReturns ==
  ASSUME LedgerInv, [TNext]_tagVars,
         NEW p \in Pkgs, pkg[p].fut = "running", pkg'[p].fut = "returning"
  PROVE  ~Waiting(p)
<1>t. TypeOK
  BY DEF LedgerInv, SettledInv
<1>1. ~Spawning
  <2> SUFFICES ASSUME Spawning PROVE FALSE
    OBVIOUS
  <2>1. CASE TakenUp \/ UNCHANGED pkg \/ \A q \in Pkgs : pkg'[q] = pkg[q]
    BY <2>1 DEF TakenUp
  <2>2. ASSUME NEW q \in Pkgs, Restarts(q) PROVE FALSE
    BY <2>2 DEF Restarts
  <2> QED
    BY <2>1, <2>2 DEF Spawning, Calm, Pushes
<1>2. \A r \in Pkgs : ~TrackActivity(r)
  BY <1>1, StepSpawns
<1>3. ~Main /\ ~Signal /\ ~UNCHANGED vars
  BY <1>1, StepSpawns
<1>4. ~TMain
  BY <1>3 DEF TMain, TSilent, TExecuteJobs, TSubmit, THandleStarted, TRecordCompleted, THandleError,
     TFinishRetry, TEndExecution, TReapFuture, TCancelFuture, Main
<1>5. PICK r \in Pkgs : TWorker(r)
  BY <1>2, <1>3, <1>4 DEF TNext, TEnvironment, tagVars
<1>6. CASE ~Waiting(r) /\ Return(r)
  <2>1. \A q \in Pkgs : q # r => pkg'[q] = pkg[q]
    BY <1>t, <1>6, ReturnKeeps
  <2>2. p = r
    BY <2>1
  <2> QED
    BY <1>6, <2>2
<1>7. CASE ~(~Waiting(r) /\ Return(r))
  <2>1. PICK f \in Futs \ {"returning"} : pkg' = WithFut(r, f)
    BY <1>5, <1>7 DEF TWorker, StartWork, NotifyCompleted, NotifyError, Raise, WaitTimedOut,
       ExitWork, Futs
  <2>2. pkg'[r].fut = f /\ \A q \in Pkgs : q # r => pkg'[q] = pkg[q]
    BY <1>t, <2>1, MovedKeeps
  <2> QED
    BY <2>1, <2>2
<1> QED
  BY <1>6, <1>7

\* A worker that waits does not get past while a job with the tag is open.
LEMMA NonePasses ==
  ASSUME LedgerInv, NEW t \in Tag, NEW ahead, BarrierInv(t, ahead), [TNext]_tagVars,
         NEW p \in Pkgs, pkg[p].fut = "running", pkg'[p].fut = "returning",
         t \in WaitsFor[JobOf(p)],
         NEW q \in Pkgs, Open(q), t \in TagsOf[JobOf(q)]
  PROVE  FALSE
<1>t. /\ TypeOK /\ \A r \in Pkgs : JobOf(r) \in Job
  BY PkgEntries DEF LedgerInv, SettledInv, TypeOK, Package, JobOf
<1>1. ~Waiting(p)
  BY OnlyReturns
<1>2. \A job \in inProgress : t \notin TagsOf[job]
  BY <1>1 DEF Waiting, InProgress
<1>3. JobOf(q) \in Tagged(t) /\ JobOf(q) \in ToSet(nextJobs)
  BY <1>t, <1>2 DEF BarrierInv, Covered, Tagged
<1>4. spawner # 0 /\ spawner \in Pkgs /\ JobOf(spawner) \in ahead
  <2>1. spawner # 0 /\ spawner \in Pkgs /\ JobOf(spawner) \in ahead \cup Tagged(t)
    BY <1>t, <1>3 DEF BarrierInv, SpawnedFrom, TypeOK
  <2>2. JobOf(spawner) \notin Tagged(t)
    BY <1>2, <2>1 DEF BarrierInv, Covered, Tagged
  <2> QED
    BY <2>1, <2>2
<1>5. Open(p) /\ JobOf(p) \in Later(t)
  BY <1>t DEF LedgerInv, SettledInv, UnsettledBefore, OutcomeReported, Later, Waiters
<1> QED
  BY <1>4, <1>5 DEF BarrierInv, SpawnedFrom

\* A worker that waits for a tag gets past its wait only when no job of the tag is
\* open, neither queued, at work, nor about to be retried or to replace another:
\* for every set of jobs in which those of a tag come in one line, as the jobs of
\* a database and of its zips do.
THEOREM WaitingIsABarrier ==
  ASSUME NEW ahead, \A t \in Tag : InLine(t, ahead[t])
  PROVE  TSpec => WaitIsBarrier
<1> DEFINE I == Nexts /\ \A t \in Tag : BarrierInv(t, ahead[t])
           Bar == \A p \in Pkgs :
                    pkg[p].fut = "running" /\ pkg'[p].fut = "returning" =>
                      \A q \in Pkgs : Open(q) => TagsOf[JobOf(q)] \cap WaitsFor[JobOf(p)] = {}
<1>1. TInit => I
  <2>1. TInit => Nexts
    BY EmptySeq DEF TInit, Init, Nexts, Pkgs
  <2> QED
    BY <2>1, BarrierInit
<1>2. LedgerInv /\ TagInv /\ I /\ [TNext]_tagVars => I'
  BY NextsStep, BarrierStep
<1>3. LedgerInv /\ I /\ [TNext]_tagVars => Bar
  <2> SUFFICES ASSUME LedgerInv, I, [TNext]_tagVars, NEW p \in Pkgs, NEW q \in Pkgs,
                      pkg[p].fut = "running", pkg'[p].fut = "returning", Open(q),
                      NEW t \in TagsOf[JobOf(q)] \cap WaitsFor[JobOf(p)]
               PROVE  FALSE
    BY DEF Bar
  <2>1. JobOf(q) \in Job
    BY PkgEntries DEF LedgerInv, SettledInv, TypeOK, Package, JobOf
  <2>2. t \in Tag
    BY <2>1, JobTagsAssumption
  <2> QED
    BY <2>2, NonePasses
<1>4. TSpec => [](LedgerInv /\ TagInv)
  BY TagInvariant
<1> HIDE DEF I
<1>5. TSpec => []I
  BY <1>1, <1>2, <1>4, PTL DEF TSpec
<1>6. TSpec => [][Bar]_tagVars
  BY <1>3, <1>4, <1>5, PTL DEF TSpec
<1> QED
  BY <1>6 DEF WaitIsBarrier

=============================================================================
