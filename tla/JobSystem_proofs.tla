--------------------------- MODULE JobSystem_proofs ---------------------------
(***************************************************************************)
(* Proofs about JobSystem, for every set of jobs and every number of       *)
(* threads, tries and executions: the type invariant, that no job gets two *)
(* outcomes, and that nothing is spawned once a cancellation took effect.  *)
(***************************************************************************)
EXTENDS JobSystem, SequenceTheorems, TLAPS

-----------------------------------------------------------------------------
(* Packages and the sequence that holds them *)

\* The entries of pkg are packages and its domain is an interval.
LEMMA PkgEntries ==
  ASSUME pkg \in Seq(Package)
  PROVE  /\ Len(pkg) \in Nat
         /\ Pkgs = 1..Len(pkg)
         /\ \A p \in Pkgs : pkg[p] \in Package
BY LenProperties, ElementOfSeq DEF Pkgs

\* Moving a package to another stage of its life changes nothing else.
LEMMA WithFutOK ==
  ASSUME pkg \in Seq(Package), NEW p \in Pkgs, NEW f \in Futs
  PROVE  /\ WithFut(p, f) \in Seq(Package)
         /\ Len(WithFut(p, f)) = Len(pkg)
         /\ DOMAIN WithFut(p, f) = Pkgs
         /\ \A q \in Pkgs : q # p => WithFut(p, f)[q] = pkg[q]
         /\ WithFut(p, f)[p].fut = f
         /\ WithFut(p, f)[p].ends = pkg[p].ends
         /\ WithFut(p, f)[p].outcome = pkg[p].outcome
<1> DEFINE r == [pkg[p] EXCEPT !.fut = f]
<1>1. pkg[p] \in Package /\ p \in 1..Len(pkg)
  BY PkgEntries
<1>2. r \in Package /\ r.fut = f /\ r.ends = pkg[p].ends /\ r.outcome = pkg[p].outcome
  BY <1>1 DEF Package
<1>3. WithFut(p, f) = [pkg EXCEPT ![p] = r]
  BY DEF WithFut
<1> HIDE DEF r
<1>4. /\ WithFut(p, f) \in Seq(Package)
      /\ Len(WithFut(p, f)) = Len(pkg)
      /\ \A q \in 1..Len(pkg) : WithFut(p, f)[q] = IF q = p THEN r ELSE pkg[q]
  BY <1>1, <1>2, <1>3, ExceptSeq
<1>5. DOMAIN WithFut(p, f) = Pkgs
  BY <1>4, LenProperties, PkgEntries
<1> QED
  BY <1>1, <1>2, <1>4, <1>5, PkgEntries DEF r

\* Reporting an outcome counts one more report and changes nothing else.
LEMMA EndedOK ==
  ASSUME pkg \in Seq(Package), NEW p \in Pkgs, NEW f \in Futs, NEW o \in Outcomes
  PROVE  /\ Ended(p, f, o) \in Seq(Package)
         /\ Len(Ended(p, f, o)) = Len(pkg)
         /\ DOMAIN Ended(p, f, o) = Pkgs
         /\ \A q \in Pkgs : q # p => Ended(p, f, o)[q] = pkg[q]
         /\ Ended(p, f, o)[p].fut = f
         /\ Ended(p, f, o)[p].outcome = o
         /\ Ended(p, f, o)[p].ends = pkg[p].ends + 1
<1> DEFINE r == [pkg[p] EXCEPT !.fut = f, !.outcome = o, !.ends = @ + 1]
<1>1. pkg[p] \in Package /\ p \in 1..Len(pkg)
  BY PkgEntries
<1>2. r \in Package /\ r.fut = f /\ r.outcome = o /\ r.ends = pkg[p].ends + 1
  <2>1. pkg[p].ends + 1 \in Nat
    BY <1>1 DEF Package
  <2>2. r = [[[pkg[p] EXCEPT !.fut = f] EXCEPT !.outcome = o] EXCEPT !.ends = pkg[p].ends + 1]
    OBVIOUS
  <2> QED
    BY <1>1, <2>1, <2>2 DEF Package
<1>3. Ended(p, f, o) = [pkg EXCEPT ![p] = r]
  BY <1>1, PkgEntries DEF Ended
<1> HIDE DEF r
<1>4. /\ Ended(p, f, o) \in Seq(Package)
      /\ Len(Ended(p, f, o)) = Len(pkg)
      /\ \A q \in 1..Len(pkg) : Ended(p, f, o)[q] = IF q = p THEN r ELSE pkg[q]
  BY <1>1, <1>2, <1>3, ExceptSeq
<1>5. DOMAIN Ended(p, f, o) = Pkgs
  BY <1>4, LenProperties, PkgEntries
<1> QED
  BY <1>1, <1>2, <1>4, <1>5, PkgEntries

\* The same for a package whose worker is done with it.
LEMMA SettledOK ==
  ASSUME pkg \in Seq(Package), NEW p \in Pkgs, NEW o \in Outcomes
  PROVE  /\ Settled(p, o) \in Seq(Package)
         /\ Len(Settled(p, o)) = Len(pkg)
         /\ DOMAIN Settled(p, o) = Pkgs
         /\ \A q \in Pkgs : q # p => Settled(p, o)[q] = pkg[q]
         /\ Settled(p, o)[p].fut = pkg[p].fut
         /\ Settled(p, o)[p].outcome = o
         /\ Settled(p, o)[p].ends = pkg[p].ends + 1
<1>1. pkg[p].fut \in Futs
  BY PkgEntries DEF Package
<1> QED
  BY <1>1, EndedOK DEF Settled

\* What NewPackage makes of a job is a queued package without an outcome.
LEMMA NewPackageOK ==
  ASSUME NEW job \in Job, NEW tries \in 0..MaxTries, NEW lineage \in [JobType -> Nat]
  PROVE  /\ NewPackage(job, tries, lineage) \in Package
         /\ NewPackage(job, tries, lineage).fut = "queued"
         /\ NewPackage(job, tries, lineage).ends = 0
         /\ NewPackage(job, tries, lineage).outcome = "none"
BY EmptySeq DEF NewPackage, Package, Futs, Outcomes

\* A package that is added at the end leaves the others where they were.
LEMMA AppendOK ==
  ASSUME NEW s \in Seq(Package), NEW r \in Package
  PROVE  /\ Append(s, r) \in Seq(Package)
         /\ Len(Append(s, r)) = Len(s) + 1
         /\ DOMAIN s = 1..Len(s)
         /\ DOMAIN Append(s, r) = 1..(Len(s) + 1)
         /\ \A q \in DOMAIN s : Append(s, r)[q] = s[q]
         /\ Append(s, r)[Len(s) + 1] = r
<1>1. Append(s, r) \in Seq(Package) /\ Len(Append(s, r)) = Len(s) + 1
  BY AppendProperties
<1>2. DOMAIN s = 1..Len(s) /\ Len(s) \in Nat /\ DOMAIN Append(s, r) = 1..(Len(s) + 1)
  BY <1>1, LenProperties
<1> QED
  BY <1>1, <1>2, AppendProperties

\* Either queue still holds packages only after a package was put into one.
LEMMA EnqueueOK ==
  ASSUME NEW S, NEW T, S \subseteq T, prioQ \in Seq(S), normQ \in Seq(S),
         NEW p \in T, NEW job, Enqueue(p, job)
  PROVE  prioQ' \in Seq(T) /\ normQ' \in Seq(T)
<1>1. prioQ \in Seq(T) /\ normQ \in Seq(T)
  BY SeqMonotonic
<1>2. Append(prioQ, p) \in Seq(T) /\ Append(normQ, p) \in Seq(T)
  BY <1>1, AppendProperties
<1>3. CASE job \in Priority
  BY <1>1, <1>2, <1>3 DEF Enqueue
<1>4. CASE job \notin Priority
  BY <1>1, <1>2, <1>4 DEF Enqueue
<1> QED
  BY <1>3, <1>4

\* A notification about a package is put at the end of the notifications.
LEMMA NotifyOK ==
  ASSUME notifs \in Seq([kind : Kinds, pkg : Pkgs]), NEW kind \in Kinds, NEW p \in Pkgs,
         Notify(kind, p)
  PROVE  /\ notifs' \in Seq([kind : Kinds, pkg : Pkgs])
         /\ Len(notifs) \in Nat /\ Len(notifs') = Len(notifs) + 1
         /\ \A i \in 1..Len(notifs) : notifs'[i] = notifs[i]
         /\ notifs'[Len(notifs) + 1] = [kind |-> kind, pkg |-> p]
<1>1. [kind |-> kind, pkg |-> p] \in [kind : Kinds, pkg : Pkgs]
  OBVIOUS
<1> QED
  BY <1>1, AppendProperties, LenProperties DEF Notify

\* Notifications stay well typed when there are more packages.
LEMMA NotifsGrow ==
  ASSUME NEW S, NEW T, S \subseteq T, NEW s \in Seq([kind : Kinds, pkg : S])
  PROVE  s \in Seq([kind : Kinds, pkg : T])
<1>1. [kind : Kinds, pkg : S] \subseteq [kind : Kinds, pkg : T]
  OBVIOUS
<1> QED
  BY <1>1, SeqMonotonic

\* What becomes of a package that is to be retried: its outcome is reported and
\* a replacement, if there is one, is a new package that is queued.
LEMMA RetryPackageOK ==
  ASSUME TypeOK, NEW p \in Pkgs, RetryPackage(p)
  PROVE  /\ pkg' \in Seq(Package)
         /\ Pkgs \subseteq Pkgs'
         /\ prioQ' \in Seq(Pkgs') /\ normQ' \in Seq(Pkgs')
         /\ pending' \in Int
<1> DEFINE job == Replacement(p)
<1> USE JobSystemAssumption
<1>1. pkg \in Seq(Package) /\ pkg[p] \in Package
  BY PkgEntries DEF TypeOK
<1>2. job \in Job \cup {NoJob} /\ ReplacementTries(p) \in 0..MaxTries
  <2>1. pkg[p].job \in Job /\ pkg[p].tries \in 0..MaxTries
    BY <1>1 DEF Package
  <2>2. RetryOf[pkg[p].job] \in Job \cup {NoJob} /\ BackupOf[pkg[p].job] \in Job \cup {NoJob}
    BY <2>1
  <2>3. job \in Job \cup {NoJob}
    BY <2>2 DEF Replacement
  <2>4. ReplacementTries(p) \in 0..MaxTries
    BY <2>1 DEF ReplacementTries, MayRetry
  <2> QED
    BY <2>3, <2>4
<1>3. \A oc \in Outcomes : /\ Settled(p, oc) \in Seq(Package)
                           /\ Len(Settled(p, oc)) = Len(pkg)
                           /\ DOMAIN Settled(p, oc) = Pkgs
  BY <1>1, SettledOK
<1>4. CASE Replaceable(p)
  <2> DEFINE r == NewPackage(job, ReplacementTries(p), NoLineage)
             s == Settled(p, "retried")
  <2>1. r \in Package
    BY <1>2, <1>4, NewPackageOK DEF NoLineage, Replaceable
  <2>2. pkg' = Append(s, r) /\ Enqueue(Len(pkg) + 1, job) /\ pending' = pending
    BY <1>4 DEF RetryPackage
  <2>3. s \in Seq(Package) /\ Len(s) = Len(pkg) /\ DOMAIN s = Pkgs
    BY <1>3 DEF Outcomes
  <2> HIDE DEF r, s, job
  <2>4. pkg' \in Seq(Package) /\ Pkgs = 1..Len(pkg) /\ Pkgs' = 1..(Len(pkg) + 1)
    <3>1. /\ Append(s, r) \in Seq(Package) /\ DOMAIN s = 1..Len(s)
          /\ DOMAIN Append(s, r) = 1..(Len(s) + 1)
      BY <2>1, <2>3, AppendOK
    <3> QED
      BY <2>2, <2>3, <3>1 DEF Pkgs
  <2>5. Pkgs \subseteq Pkgs' /\ Len(pkg) + 1 \in Pkgs'
    BY <1>1, <2>4, PkgEntries
  <2>6. prioQ' \in Seq(Pkgs') /\ normQ' \in Seq(Pkgs')
    BY <2>2, <2>5, EnqueueOK DEF TypeOK
  <2> QED
    BY <2>2, <2>4, <2>5, <2>6 DEF TypeOK
<1>5. CASE ~Replaceable(p)
  <2>1. /\ pkg' = Settled(p, "failed") /\ pending' = pending - 1
        /\ UNCHANGED <<prioQ, normQ>>
    BY <1>5 DEF RetryPackage
  <2>2. pkg' \in Seq(Package) /\ Pkgs' = Pkgs
    BY <1>3, <2>1 DEF Outcomes, Pkgs
  <2> QED
    BY <2>1, <2>2 DEF TypeOK
<1> QED
  BY <1>4, <1>5

\* Handling a failed package settles it at most, and queues nothing yet.
LEMMA ReturnedErrorOK ==
  ASSUME TypeOK, NEW p \in Pkgs, ReturnedError(p)
  PROVE  /\ pkg' \in Seq(Package) /\ Len(pkg') = Len(pkg)
         /\ Pkgs' = Pkgs /\ UNCHANGED <<prioQ, normQ>>
         /\ pending' \in Int /\ quiet' \in Nat /\ retrying' \in Pkgs \cup {0}
<1>1. CASE cancelled
  <2>1. pkg' = Settled(p, "failed") /\ pending' = pending - 1 /\ quiet' = 0
    BY <1>1 DEF ReturnedError
  <2>2. "failed" \in Outcomes /\ pkg \in Seq(Package)
    BY DEF Outcomes, TypeOK
  <2>3. pkg' \in Seq(Package) /\ Pkgs' = Pkgs /\ Len(pkg') = Len(pkg)
    BY <2>1, <2>2, SettledOK DEF Pkgs
  <2> QED
    BY <1>1, <2>1, <2>3 DEF ReturnedError, TypeOK
<1>2. CASE ~cancelled
  BY <1>2 DEF ReturnedError, TypeOK, Pkgs
<1> QED
  BY <1>1, <1>2

-----------------------------------------------------------------------------
(* Type correctness *)

\* A worker's step that only moves its package on keeps the types.
LEMMA MovedTypeOK ==
  ASSUME TypeOK, NEW p \in Pkgs, NEW f \in Futs, pkg' = WithFut(p, f),
         UNCHANGED <<prioQ, normQ, mainVars>>,
         notifs' \in Seq([kind : Kinds, pkg : Pkgs]),
         pending' \in Int, quiet' \in Nat, cancelled' \in BOOLEAN, unhandled' \in BOOLEAN
  PROVE  TypeOK'
<1>1. pkg' \in Seq(Package) /\ Pkgs' = Pkgs
  BY WithFutOK DEF TypeOK, Pkgs
<1> QED
  BY <1>1 DEF TypeOK, mainVars

\* Every step preserves the type invariant.
LEMMA TypeStep == TypeOK /\ [Next]_vars => TypeOK'
<1> SUFFICES ASSUME TypeOK, [Next]_vars PROVE TypeOK'
  OBVIOUS
<1> USE JobSystemAssumption
<1> USE DEF TypeOK
<1>a. /\ pkg \in Seq(Package) /\ Len(pkg) \in Nat /\ Pkgs = 1..Len(pkg)
      /\ \A p \in Pkgs : pkg[p] \in Package
  BY PkgEntries
<1>b. \A s \in Seq(Pkgs) : s # <<>> => Head(s) \in Pkgs /\ Tail(s) \in Seq(Pkgs)
  BY HeadTailProperties
<1>c. notifs # <<>> => /\ Front.kind \in Kinds /\ Front.pkg \in Pkgs
                       /\ Tail(notifs) \in Seq([kind : Kinds, pkg : Pkgs])
  <2> SUFFICES ASSUME notifs # <<>>
               PROVE  /\ Front \in [kind : Kinds, pkg : Pkgs]
                      /\ Tail(notifs) \in Seq([kind : Kinds, pkg : Pkgs])
    OBVIOUS
  <2> QED
    BY HeadTailProperties DEF Front
<1>1. CASE PushJob
  <2>1. Head(rest) \in Job /\ rest' \in Seq(Job)
    BY <1>1, HeadTailProperties DEF PushJob
  <2>2. CASE TypeOf[Head(rest)] \notin Registered
    BY <1>1, <2>1, <2>2 DEF PushJob, Pkgs
  <2>3. CASE TypeOf[Head(rest)] \in Registered
    <3> DEFINE job == Head(rest)
               r == NewPackage(job, ChildTries(spawner), ChildLineage(spawner))
    <3>1. ChildTries(spawner) \in 0..MaxTries
      <4>1. CASE spawner = 0
        BY <4>1 DEF ChildTries
      <4>2. CASE spawner # 0
        BY <1>a, <4>2 DEF ChildTries, Package
      <4> QED
        BY <4>1, <4>2
    <3>2. ChildLineage(spawner) \in [JobType -> Nat]
      <4>1. CASE spawner = 0
        BY <4>1 DEF ChildLineage, NoLineage
      <4>2. CASE spawner # 0
        <5>1. pkg[spawner].lineage \in [JobType -> Nat] /\ TypeOf[pkg[spawner].job] \in JobType
          BY <1>a, <4>2 DEF Package
        <5> QED
          BY <4>2, <5>1, SMTT(20) DEF ChildLineage
      <4> QED
        BY <4>1, <4>2
    <3>3. r \in Package
      BY <2>1, <3>1, <3>2, NewPackageOK
    <3>4. pkg' = Append(pkg, r) /\ Enqueue(Len(pkg) + 1, job) /\ pending' = pending + 1
      BY <1>1, <2>3 DEF PushJob
    <3>5. nextJobs' \in Seq(Job)
      <4>1. nextJobs' = IF spawner = 0 THEN <<>> ELSE Append(nextJobs, job)
        BY <1>1, <2>3 DEF PushJob
      <4> QED
        BY <2>1, <4>1, AppendProperties, EmptySeq
    <3> HIDE DEF r, job
    <3>6. pkg' \in Seq(Package) /\ Pkgs' = 1..(Len(pkg) + 1)
      BY <3>3, <3>4, AppendOK DEF Pkgs
    <3>7. Pkgs \subseteq Pkgs' /\ Len(pkg) + 1 \in Pkgs'
      BY <1>a, <3>6
    <3>8. prioQ' \in Seq(Pkgs') /\ normQ' \in Seq(Pkgs')
      BY <3>4, <3>7, EnqueueOK
    <3>9. notifs' \in Seq([kind : Kinds, pkg : Pkgs'])
      BY <1>1, <3>7, NotifsGrow DEF PushJob
    <3>10. pending' \in Int /\ rest' \in Seq(Job)
      BY <1>1, <2>1, <3>4 DEF PushJob
    <3>11. /\ futures' \in SUBSET Pkgs' /\ scan' \in SUBSET futures'
           /\ spawner' \in Pkgs' \cup {0} /\ retrying' \in Pkgs' \cup {0}
      BY <1>1, <3>7 DEF PushJob
    <3> QED
      BY <1>1, <3>5, <3>6, <3>8, <3>9, <3>10, <3>11 DEF PushJob
  <2> QED
    BY <2>2, <2>3
<1>2. CASE ExecuteJobs
  <2>1. runs' \in Nat /\ quiet' \in Nat
    BY <1>2 DEF ExecuteJobs
  <2> QED
    BY <1>2, <2>1 DEF ExecuteJobs, Pkgs, Phases
<1>3. CASE Loop
  BY <1>3 DEF Loop, Pkgs, Phases
<1>4. CASE Submit
  <2> DEFINE p == IF prioQ # <<>> THEN Head(prioQ) ELSE Head(normQ)
  <2>1. p \in Pkgs /\ prioQ' \in Seq(Pkgs) /\ normQ' \in Seq(Pkgs)
    BY <1>4, <1>b DEF Submit, HasQueued
  <2>2. \/ pkg' = Ended(p, "dropped", "failed") /\ pending' = pending - 1
           /\ unhandled' = TRUE /\ quiet' = 0 /\ futures' = futures
        \/ pkg' = WithFut(p, "submitted") /\ futures' = futures \cup {p}
           /\ UNCHANGED <<pending, unhandled, quiet>>
    BY <1>4 DEF Submit
  <2> HIDE DEF p
  <2>3. pkg' \in Seq(Package) /\ Pkgs' = Pkgs
    <3>1. pkg' = Ended(p, "dropped", "failed") => pkg' \in Seq(Package) /\ Pkgs' = Pkgs
      BY <2>1, EndedOK DEF Futs, Outcomes, Pkgs
    <3>2. pkg' = WithFut(p, "submitted") => pkg' \in Seq(Package) /\ Pkgs' = Pkgs
      <4>1. "submitted" \in Futs
        BY DEF Futs
      <4> QED
        BY <2>1, <4>1, WithFutOK DEF Pkgs
    <3> QED
      BY <2>2, <3>1, <3>2
  <2>4. UNCHANGED <<scan, notifs, cancelled, timedOut, pc, spawner, rest, retrying, runs,
                    nextJobs>>
    BY <1>4 DEF Submit
  <2>5. pending' \in Int /\ quiet' \in Nat
    BY <2>2
  <2>6. unhandled' \in BOOLEAN /\ futures' \in SUBSET Pkgs /\ scan' \in SUBSET futures'
    BY <2>1, <2>2, <2>4
  <2> QED
    BY <2>1, <2>3, <2>4, <2>5, <2>6
<1>5. CASE EndSubmit
  BY <1>5 DEF EndSubmit, Pkgs, Phases
<1>6. CASE HandleStarted
  BY <1>6, <1>c DEF HandleStarted, Handling, Pkgs
<1>7. CASE HandleCompleted
  <2>1. rest' \in Seq(Job)
    BY <1>7, <1>a, <1>c, EmptySeq DEF HandleCompleted, Handling, Package
  <2> QED
    BY <1>7, <1>c, <2>1 DEF HandleCompleted, Handling, Pkgs
<1>8. CASE RecordCompleted
  <2>1. pkg' \in Seq(Package) /\ Pkgs' = Pkgs
    BY <1>8, SettledOK DEF RecordCompleted, Outcomes, Pkgs
  <2> QED
    BY <1>8, <2>1, EmptySeq DEF RecordCompleted, AfterHandled, Phases
<1>9. CASE HandleCancelled
  <2>1. pkg' \in Seq(Package) /\ Pkgs' = Pkgs
    BY <1>9, <1>c, SettledOK DEF HandleCancelled, Handling, Outcomes, Pkgs
  <2> QED
    BY <1>9, <1>c, <2>1 DEF HandleCancelled, Handling, AfterHandled, Phases
<1>10. CASE HandleError
  <2>1. /\ pkg' \in Seq(Package) /\ Pkgs' = Pkgs /\ UNCHANGED <<prioQ, normQ>>
        /\ pending' \in Int /\ quiet' \in Nat /\ retrying' \in Pkgs \cup {0}
    BY <1>10, <1>c, ReturnedErrorOK DEF HandleError, Handling
  <2> QED
    BY <1>10, <1>c, <2>1 DEF HandleError, Handling, AfterHandled, Phases
<1>11. CASE HandleNothing
  BY <1>11 DEF HandleNothing, Pkgs, Phases
<1>12. ASSUME NEW p \in scan, ReapFuture(p) PROVE TypeOK'
  <2>1. p \in Pkgs
    OBVIOUS
  <2>2. CASE ReturnedError(p) /\ unhandled' = TRUE
    <3>1. /\ pkg' \in Seq(Package) /\ Pkgs' = Pkgs /\ UNCHANGED <<prioQ, normQ>>
          /\ pending' \in Int /\ quiet' \in Nat /\ retrying' \in Pkgs \cup {0}
      BY <2>1, <2>2, ReturnedErrorOK
    <3>2. futures' \in SUBSET Pkgs' /\ scan' \in SUBSET futures'
      BY <1>12, <3>1 DEF ReapFuture
    <3> QED
      BY <1>12, <2>2, <3>1, <3>2 DEF ReapFuture
  <2>3. CASE pkg' = Settled(p, "failed") /\ pending' = pending - 1
             /\ unhandled' = TRUE /\ quiet' = 0 /\ UNCHANGED <<prioQ, normQ, retrying>>
    <3>1. pkg' \in Seq(Package) /\ Pkgs' = Pkgs
      BY <2>1, <2>3, SettledOK DEF Outcomes, Pkgs
    <3>2. pending' \in Int /\ quiet' \in Nat
      BY <2>3
    <3> QED
      BY <1>12, <2>3, <3>1, <3>2 DEF ReapFuture
  <2>4. CASE UNCHANGED <<pkg, prioQ, normQ, pending, unhandled, quiet, retrying>>
    BY <1>12, <2>4 DEF ReapFuture, Pkgs
  <2> QED
    BY <1>12, <2>2, <2>3, <2>4 DEF ReapFuture
<1>13. CASE CheckClock
  BY <1>13 DEF CheckClock, Pkgs, Phases
<1>14. ASSUME NEW p \in scan, CancelFuture(p) PROVE TypeOK'
  <2>1. p \in Pkgs
    OBVIOUS
  <2>2. pkg' \in Seq(Package) /\ Pkgs' = Pkgs
    <3>1. CASE pkg' = Ended(p, "dropped", "cancelled")
      BY <2>1, <3>1, EndedOK DEF Futs, Outcomes, Pkgs
    <3>2. CASE pkg' = Settled(p, "failed")
      BY <2>1, <3>2, SettledOK DEF Outcomes, Pkgs
    <3>3. CASE UNCHANGED pkg
      BY <3>3 DEF Pkgs
    <3> QED
      BY <1>14, <3>1, <3>2, <3>3 DEF CancelFuture
  <2>3. pending' \in Int /\ quiet' \in Nat
    BY <1>14 DEF CancelFuture
  <2> QED
    BY <1>14, <2>2, <2>3 DEF CancelFuture
<1>15. CASE EndCancelling
  BY <1>15 DEF EndCancelling, Pkgs, Phases
<1>16. CASE EndExecution
  <2> DEFINE dropped(p) == [pkg[p] EXCEPT !.fut = "dropped", !.outcome = "cancelled",
                                          !.ends = @ + 1]
             e(p) == IF InQueue(p) THEN dropped(p) ELSE pkg[p]
  <2>1. \A p \in Pkgs : e(p) \in Package
    <3> TAKE p \in Pkgs
    <3>1. pkg[p] \in Package
      BY <1>a
    <3>2. pkg[p].ends + 1 \in Nat
      <4>1. pkg[p].ends \in Nat
        BY <3>1 DEF Package
      <4> QED
        BY <4>1
    <3>3. dropped(p) \in Package
      BY <3>1, <3>2 DEF Package, Futs, Outcomes
    <3> QED
      BY <3>1, <3>3
  <2>2. pkg' = [p \in 1..Len(pkg) |-> e(p)]
    BY <1>16, <1>a DEF EndExecution
  <2> HIDE DEF e, dropped
  <2>3. pkg' \in Seq(Package) /\ Pkgs' = Pkgs
    <3>1. pkg' \in Seq(Package)
      BY <1>a, <2>1, <2>2, IsASeq
    <3> QED
      BY <1>a, <2>2, <3>1 DEF Pkgs
  <2> QED
    BY <1>16, <2>3, EmptySeq DEF EndExecution, Phases
<1>17. ASSUME NEW p \in Pkgs, StartWork(p) PROVE TypeOK'
  <2>1. notifs' \in Seq([kind : Kinds, pkg : Pkgs])
    BY <1>17, NotifyOK DEF StartWork, Kinds
  <2> QED
    BY <1>17, <2>1, MovedTypeOK DEF StartWork, Futs
<1>18. ASSUME NEW p \in Pkgs, Return(p) PROVE TypeOK'
  <2>1. PICK jobs \in Results[pkg[p].job] :
          pkg' = [pkg EXCEPT ![p].fut = "returning", ![p].next = jobs]
    BY <1>18 DEF Return
  <2> DEFINE r == [pkg[p] EXCEPT !.fut = "returning", !.next = jobs]
  <2>2. pkg[p] \in Package /\ jobs \in Seq(Job)
    BY <1>a DEF Package
  <2>3. r \in Package
    BY <2>2 DEF Package, Futs
  <2>4. pkg' = [pkg EXCEPT ![p] = r]
    BY <2>1, <1>a
  <2> HIDE DEF r
  <2>5. pkg' \in Seq(Package) /\ Pkgs' = Pkgs
    BY <1>a, <2>3, <2>4, ExceptSeq DEF Pkgs
  <2> QED
    BY <1>18, <2>5 DEF Return, mainVars
<1>19. ASSUME NEW p \in Pkgs, NotifyCompleted(p) PROVE TypeOK'
  <2>1. notifs' \in Seq([kind : Kinds, pkg : Pkgs])
    BY <1>19, NotifyOK DEF NotifyCompleted, Kinds
  <2> QED
    BY <1>19, <2>1, MovedTypeOK DEF NotifyCompleted, Futs
<1>20. ASSUME NEW p \in Pkgs, NotifyError(p) PROVE TypeOK'
  <2>1. notifs' \in Seq([kind : Kinds, pkg : Pkgs])
    BY <1>20, NotifyOK DEF NotifyError, Kinds
  <2> QED
    BY <1>20, <2>1, MovedTypeOK DEF NotifyError, Futs
<1>21. ASSUME NEW p \in Pkgs, Raise(p) \/ WaitTimedOut(p) PROVE TypeOK'
  BY <1>21, MovedTypeOK DEF Raise, WaitTimedOut, Futs
<1>22. ASSUME NEW p \in Pkgs, ExitWork(p) PROVE TypeOK'
  BY <1>22, MovedTypeOK DEF ExitWork, Futs
<1>23. ASSUME NEW p \in Pkgs, TrackActivity(p) PROVE TypeOK'
  BY <1>23 DEF TrackActivity, mainVars, Pkgs
<1>24. CASE Signal
  BY <1>24 DEF Signal, mainVars, Pkgs
<1>25. CASE UNCHANGED vars
  BY <1>25 DEF vars, Pkgs
<1>26. CASE FinishRetry
  <2>1. /\ pkg' \in Seq(Package) /\ Pkgs \subseteq Pkgs'
        /\ prioQ' \in Seq(Pkgs') /\ normQ' \in Seq(Pkgs') /\ pending' \in Int
    BY <1>26, RetryPackageOK DEF FinishRetry
  <2>2. notifs' \in Seq([kind : Kinds, pkg : Pkgs'])
    BY <1>26, <2>1, NotifsGrow DEF FinishRetry
  <2> QED
    BY <1>26, <2>1, <2>2 DEF FinishRetry
<1> QED
  BY <1>1, <1>2, <1>3, <1>4, <1>5, <1>6, <1>7, <1>8, <1>9, <1>10, <1>11, <1>12,
     <1>13, <1>14, <1>15, <1>16, <1>17, <1>18, <1>19, <1>20, <1>21, <1>22, <1>23,
     <1>24, <1>25, <1>26 DEF Next, Main, Worker

\* Before the first job is pushed the types are right.
LEMMA InitTypeOK == Init => TypeOK
<1> SUFFICES ASSUME Init PROVE TypeOK
  OBVIOUS
<1>1. rest \in Seq(Job) /\ nextJobs \in Seq(Job)
  BY JobSystemAssumption, EmptySeq DEF Init
<1>2. /\ pkg \in Seq(Package) /\ prioQ \in Seq(Pkgs) /\ normQ \in Seq(Pkgs)
      /\ notifs \in Seq([kind : Kinds, pkg : Pkgs])
  BY EmptySeq DEF Init
<1>3. pending \in Int /\ quiet \in Nat /\ runs \in Nat
  BY DEF Init
<1> QED
  BY <1>1, <1>2, <1>3 DEF Init, TypeOK, Phases

\* The scheduler's state keeps its types whatever the jobs, the threads and the
\* interleaving: in particular every queue, future and notification names a
\* package that exists, and no package is tried more than MaxTries times.
THEOREM TypeCorrect == Spec => []TypeOK
<1>1. Init => TypeOK
  BY InitTypeOK
<1> QED
  BY <1>1, TypeStep, PTL DEF Spec

-----------------------------------------------------------------------------
(* No job gets two outcomes *)

\* The notifications and the queues behind their first elements.
LEMMA TailOf ==
  ASSUME NEW S, NEW s \in Seq(S), s # <<>>
  PROVE  /\ Len(s) \in Nat \ {0}
         /\ Len(Tail(s)) = Len(s) - 1
         /\ 1 \in 1..Len(s) /\ s[1] = Head(s)
         /\ \A i \in 1..Len(Tail(s)) : i + 1 \in 1..Len(s) /\ Tail(s)[i] = s[i + 1]
<1>1. Len(s) \in Nat \ {0}
  BY EmptySeq
<1>2. Len(Tail(s)) = Len(s) - 1 /\ \A i \in 1..Len(Tail(s)) : Tail(s)[i] = s[i + 1]
  BY HeadTailProperties
<1>3. s[1] = Head(s)
  BY <1>1
<1> QED
  BY <1>1, <1>2, <1>3

\* What the first notification says of its package, and what is left to say
\* when it was taken out.
LEMMA FrontOK ==
  ASSUME SettledInv, notifs # <<>>, notifs' = Tail(notifs)
  PROVE  /\ Front.pkg \in Pkgs
         /\ Front.kind # "started" =>
              /\ pkg[Front.pkg].fut \in {"notified", "done"}
              /\ pkg[Front.pkg].ends = 0
              /\ Front.pkg \notin {spawner, retrying}
         /\ \A i, j \in 1..Len(notifs') :
              notifs'[i].kind # "started" /\ notifs'[j].kind # "started"
                /\ notifs'[i].pkg = notifs'[j].pkg => i = j
         /\ \A i \in 1..Len(notifs') :
              notifs'[i].kind # "started" =>
                /\ notifs'[i].pkg \in Pkgs
                /\ pkg[notifs'[i].pkg].fut \in {"notified", "done"}
                /\ pkg[notifs'[i].pkg].ends = 0
                /\ notifs'[i].pkg \notin {spawner, retrying}
                /\ Front.kind # "started" => notifs'[i].pkg # Front.pkg
<1>1. /\ Len(notifs) \in Nat \ {0}
      /\ Len(notifs') = Len(notifs) - 1
      /\ 1 \in 1..Len(notifs) /\ notifs[1] = Front
      /\ \A i \in 1..Len(notifs') : i + 1 \in 1..Len(notifs) /\ notifs'[i] = notifs[i + 1]
  BY TailOf DEF SettledInv, TypeOK, Front
<1>2. \A i \in 1..Len(notifs) : notifs[i].pkg \in Pkgs
  <2>1. \A i \in 1..Len(notifs) : notifs[i] \in [kind : Kinds, pkg : Pkgs]
    BY ElementOfSeq DEF SettledInv, TypeOK
  <2> QED
    BY <2>1
<1>3. /\ \A i, j \in 1..Len(notifs) :
           notifs[i].kind # "started" /\ notifs[j].kind # "started"
             /\ notifs[i].pkg = notifs[j].pkg => i = j
      /\ \A i \in 1..Len(notifs) :
           notifs[i].kind # "started" => /\ pkg[notifs[i].pkg].fut \in {"notified", "done"}
                                        /\ pkg[notifs[i].pkg].ends = 0
                                        /\ notifs[i].pkg \notin {spawner, retrying}
  BY DEF SettledInv, CarriedOnce, Carries
<1>4. \A i, j \in 1..Len(notifs') : i + 1 = j + 1 => i = j
  BY <1>1
<1>5. \A i \in 1..Len(notifs') : i + 1 # 1
  BY <1>1
<1> HIDE DEF Front
<1> QED
  BY <1>1, <1>2, <1>3, <1>4, <1>5

\* A step that touches neither packages, queues nor notifications keeps the
\* invariant if it drops no future that must still be looked at.
LEMMA SameJobs ==
  ASSUME SettledInv, TypeOK', UNCHANGED <<pkg, prioQ, normQ, notifs, spawner, retrying>>,
         \A p \in Pkgs : p \in futures' => p \in futures,
         pc = "cancelling" => futures' = {} \/ (pc' = pc /\ scan' \subseteq scan),
         pc' = "cancelling" /\ pc # "cancelling" => scan' = futures'
  PROVE  SettledInv'
<1>1. RaisedOnce'
  BY DEF SettledInv, RaisedOnce, Pkgs
<1>2. RetryingUnsettled'
  BY DEF SettledInv, RetryingUnsettled, TypeOK
<1> QED
  BY <1>1, <1>2 DEF SettledInv, SettledOnce, QueuedOnce, UnsettledBefore, CarriedOnce, Carries,
     SpawnerUnsettled, Pkgs

\* A worker's step moves its package on.  It puts at most one notification,
\* and puts one that carries the outcome only as it becomes done with it.
LEMMA MovedOK ==
  ASSUME SettledInv, TypeOK', NEW p \in Pkgs, NEW f \in Futs,
         Pkgs' = Pkgs, \A q \in Pkgs : q # p => pkg'[q] = pkg[q],
         pkg'[p].fut = f, pkg'[p].ends = pkg[p].ends,
         UNCHANGED <<prioQ, normQ, mainVars>>,
         \/ /\ pkg[p].fut \in {"submitted", "running", "returning"}
            /\ f \in {"running", "returning", "notified", "raised", "aborted"}
         \/ pkg[p].fut = "notified" /\ f = "done",
         \/ UNCHANGED notifs
         \/ \E kind \in Kinds : Notify(kind, p) /\ (kind # "started" => f = "notified")
  PROVE  SettledInv'
<1>a. \A q \in Pkgs : pkg'[q].ends = pkg[q].ends
  OBVIOUS
<1>b. \A q \in Pkgs : q # p => pkg'[q].fut = pkg[q].fut
  OBVIOUS
<1>c. pkg[p].fut # "notified" => pkg[p].ends = 0
  BY DEF SettledInv, UnsettledBefore
<1>1. SettledOnce'
  BY <1>a DEF SettledInv, SettledOnce
<1>2. QueuedOnce'
  <2>1. /\ \A i \in 1..Len(prioQ) : prioQ[i] \in Pkgs
        /\ \A i \in 1..Len(normQ) : normQ[i] \in Pkgs
    BY ElementOfSeq DEF SettledInv, TypeOK
  <2>2. /\ \A i \in 1..Len(prioQ) : pkg'[prioQ[i]].fut = "queued"
        /\ \A i \in 1..Len(normQ) : pkg'[normQ[i]].fut = "queued"
    BY <1>b, <2>1 DEF SettledInv, QueuedOnce
  <2> QED
    BY <2>2 DEF SettledInv, QueuedOnce
<1>3. UnsettledBefore'
  BY <1>a, <1>b, <1>c DEF SettledInv, UnsettledBefore
<1>4. SpawnerUnsettled'
  <2>1. spawner # 0 => spawner \in Pkgs
    BY DEF SettledInv, TypeOK
  <2> QED
    BY <1>a, <1>b, <2>1 DEF SettledInv, SpawnerUnsettled, mainVars
<1>5. RaisedOnce'
  BY <1>a, <1>b, <1>c DEF SettledInv, RaisedOnce, mainVars
<1>7. RetryingUnsettled'
  <2>1. retrying # 0 => retrying \in Pkgs
    BY DEF SettledInv, TypeOK
  <2> QED
    BY <1>a, <1>b, <2>1 DEF SettledInv, RetryingUnsettled, mainVars
<1>6. CarriedOnce'
  <2>1. \A i \in 1..Len(notifs) : notifs[i].pkg \in Pkgs
    <3>1. \A i \in 1..Len(notifs) : notifs[i] \in [kind : Kinds, pkg : Pkgs]
      BY ElementOfSeq DEF SettledInv, TypeOK
    <3> QED
      BY <3>1
  <2>2. \A i \in 1..Len(notifs) :
          Carries(i) => /\ pkg'[notifs[i].pkg].fut \in {"notified", "done"}
                        /\ pkg'[notifs[i].pkg].ends = 0
                        /\ notifs[i].pkg \notin {spawner', retrying'}
    BY <1>a, <1>b, <2>1 DEF SettledInv, CarriedOnce, mainVars
  <2>3. CASE UNCHANGED notifs
    BY <2>2, <2>3 DEF SettledInv, CarriedOnce, Carries
  <2>4. ASSUME NEW kind \in Kinds, Notify(kind, p), kind # "started" => f = "notified"
        PROVE  CarriedOnce'
    <3> DEFINE n == Len(notifs) + 1
    <3>1. /\ Len(notifs) \in Nat /\ Len(notifs') = n
          /\ \A i \in 1..Len(notifs) : notifs'[i] = notifs[i]
          /\ notifs'[n].kind = kind /\ notifs'[n].pkg = p
      <4>1. Notify(kind, p) /\ notifs \in Seq([kind : Kinds, pkg : Pkgs])
        BY <2>4 DEF SettledInv, TypeOK
      <4>2. /\ Len(notifs) \in Nat /\ Len(notifs') = Len(notifs) + 1
            /\ \A i \in 1..Len(notifs) : notifs'[i] = notifs[i]
            /\ notifs'[Len(notifs) + 1] = [kind |-> kind, pkg |-> p]
        BY <4>1, NotifyOK
      <4> QED
        BY <4>2
    <3>2. \A i \in 1..Len(notifs') : i = n \/ i \in 1..Len(notifs)
      BY <3>1
    <3>3. kind # "started" =>
            /\ pkg[p].fut \notin {"notified", "done"}
            /\ pkg'[p].fut = "notified" /\ pkg'[p].ends = 0 /\ p \notin {spawner', retrying'}
      <4>1. p # 0
        BY PkgEntries DEF SettledInv, TypeOK
      <4> QED
        BY <2>4, <1>c, <4>1 DEF SettledInv, SpawnerUnsettled, RetryingUnsettled, mainVars
    <3>4. \A i \in 1..Len(notifs) :
            notifs[i].kind # "started" => pkg[notifs[i].pkg].fut \in {"notified", "done"}
      BY DEF SettledInv, CarriedOnce, Carries
    <3> HIDE DEF n
    <3>5. \A i, j \in 1..Len(notifs') :
            notifs'[i].kind # "started" /\ notifs'[j].kind # "started"
              /\ notifs'[i].pkg = notifs'[j].pkg => i = j
      BY <3>1, <3>2, <3>3, <3>4 DEF SettledInv, CarriedOnce, Carries
    <3>6. \A i \in 1..Len(notifs') :
            notifs'[i].kind # "started" =>
              /\ pkg'[notifs'[i].pkg].fut \in {"notified", "done"}
              /\ pkg'[notifs'[i].pkg].ends = 0
              /\ notifs'[i].pkg \notin {spawner', retrying'}
      BY <2>2, <3>1, <3>2, <3>3 DEF Carries
    <3> QED
      BY <3>5, <3>6 DEF CarriedOnce, Carries
  <2>5. CASE \E kind \in Kinds : Notify(kind, p) /\ (kind # "started" => f = "notified")
    <3>1. PICK kind \in Kinds : Notify(kind, p) /\ (kind # "started" => f = "notified")
      BY <2>5
    <3> QED
      BY <2>4, <3>1
  <2> QED
    BY <2>3, <2>5
<1> QED
  BY <1>1, <1>2, <1>3, <1>4, <1>5, <1>6, <1>7 DEF SettledInv

\* The elements of the queues are packages that exist.
LEMMA QueuesOK ==
  ASSUME TypeOK
  PROVE  /\ Len(prioQ) \in Nat /\ Len(normQ) \in Nat
         /\ \A i \in 1..Len(prioQ) : prioQ[i] \in Pkgs
         /\ \A i \in 1..Len(normQ) : normQ[i] \in Pkgs
BY ElementOfSeq, LenProperties DEF TypeOK

\* A package queued as it is created is in one queue, once.
LEMMA EnqueuedOnce ==
  ASSUME TypeOK, QueuedOnce, NEW job, Enqueue(Len(pkg) + 1, job),
         pkg'[Len(pkg) + 1].fut = "queued",
         \A q \in Pkgs : pkg[q].fut = "queued" => pkg'[q].fut = "queued"
  PROVE  QueuedOnce'
<1> DEFINE n == Len(pkg) + 1
<1>1. n \notin Pkgs
  BY PkgEntries DEF TypeOK
<1>2. /\ \A i \in 1..Len(prioQ) : prioQ[i] # n /\ pkg'[prioQ[i]].fut = "queued"
      /\ \A i \in 1..Len(normQ) : normQ[i] # n /\ pkg'[normQ[i]].fut = "queued"
  BY <1>1, QueuesOK DEF QueuedOnce
<1>3. CASE prioQ' = Append(prioQ, n) /\ normQ' = normQ
  <2>1. /\ Len(prioQ) \in Nat /\ Len(prioQ') = Len(prioQ) + 1
        /\ \A i \in 1..Len(prioQ) : prioQ'[i] = prioQ[i]
        /\ prioQ'[Len(prioQ) + 1] = n
    <3>1. prioQ \in Seq(Pkgs \cup {n})
      BY SeqMonotonic DEF TypeOK
    <3> HIDE DEF n
    <3> QED
      BY <1>3, <3>1, AppendProperties, LenProperties
  <2>2. \A i \in 1..Len(prioQ') : i = Len(prioQ) + 1 \/ i \in 1..Len(prioQ)
    BY <2>1
  <2> HIDE DEF n
  <2>3. pkg'[n].fut = "queued"
    BY DEF n
  <2> QED
    BY <1>2, <1>3, <2>1, <2>2, <2>3 DEF QueuedOnce
<1>4. CASE normQ' = Append(normQ, n) /\ prioQ' = prioQ
  <2>1. /\ Len(normQ) \in Nat /\ Len(normQ') = Len(normQ) + 1
        /\ \A i \in 1..Len(normQ) : normQ'[i] = normQ[i]
        /\ normQ'[Len(normQ) + 1] = n
    <3>1. normQ \in Seq(Pkgs \cup {n})
      BY SeqMonotonic DEF TypeOK
    <3> HIDE DEF n
    <3> QED
      BY <1>4, <3>1, AppendProperties, LenProperties
  <2>2. \A i \in 1..Len(normQ') : i = Len(normQ) + 1 \/ i \in 1..Len(normQ)
    BY <2>1
  <2> HIDE DEF n
  <2>3. pkg'[n].fut = "queued"
    BY DEF n
  <2> QED
    BY <1>2, <1>4, <2>1, <2>2, <2>3 DEF QueuedOnce
<1> QED
  BY <1>3, <1>4 DEF Enqueue

\* The step that reports the outcome of package p, which had none, keeps the
\* invariant if it leaves nothing behind that would report p again.
LEMMA ReportedOK ==
  ASSUME SettledInv, TypeOK', QueuedOnce', NEW p \in Pkgs, pkg[p].ends = 0,
         Pkgs \subseteq Pkgs',
         \A q \in Pkgs : q # p => pkg'[q] = pkg[q],
         pkg'[p].ends = 1,
         pkg'[p].fut \in {"notified", "done", "raised", "aborted", "dropped"},
         \A q \in Pkgs' : q \notin Pkgs => pkg'[q].fut = "queued" /\ pkg'[q].ends = 0,
         \A i, j \in 1..Len(notifs') :
           notifs'[i].kind # "started" /\ notifs'[j].kind # "started"
             /\ notifs'[i].pkg = notifs'[j].pkg => i = j,
         \A i \in 1..Len(notifs') :
           notifs'[i].kind # "started" =>
             /\ notifs'[i].pkg \in Pkgs
             /\ pkg[notifs'[i].pkg].fut \in {"notified", "done"}
             /\ pkg[notifs'[i].pkg].ends = 0
             /\ notifs'[i].pkg \notin {spawner', retrying'}
             /\ notifs'[i].pkg # p,
         spawner' = 0 \/ (spawner' = spawner /\ spawner \in Pkgs /\ spawner # p),
         retrying' = 0 \/ (retrying' = retrying /\ retrying \in Pkgs /\ retrying # p),
         futures' \subseteq futures,
         pkg'[p].fut \in {"raised", "aborted"} =>
           p \notin futures' \/ (pc' = "cancelling" /\ p \notin scan'),
         \A q \in Pkgs :
           q # p /\ (q \notin futures \/ (pc = "cancelling" /\ q \notin scan)) =>
             pkg[q].fut \notin {"raised", "aborted"} \/
             q \notin futures' \/ (pc' = "cancelling" /\ q \notin scan')
  PROVE  SettledInv'
<1>1. SettledOnce'
  BY DEF SettledInv, SettledOnce
<1>2. UnsettledBefore'
  BY DEF SettledInv, UnsettledBefore
<1>3. CarriedOnce'
  BY DEF CarriedOnce, Carries
<1>4. SpawnerUnsettled'
  BY DEF SettledInv, SpawnerUnsettled
<1>5. RaisedOnce'
  BY DEF SettledInv, RaisedOnce
<1>6. RetryingUnsettled'
  BY DEF SettledInv, RetryingUnsettled
<1> QED
  BY <1>1, <1>2, <1>3, <1>4, <1>5, <1>6 DEF SettledInv

\* What the retry of a failed package reports and queues.
LEMMA RetryPackageReports ==
  ASSUME TypeOK, QueuedOnce, NEW p \in Pkgs, RetryPackage(p), pkg[p].fut # "queued"
  PROVE  /\ QueuedOnce'
         /\ Pkgs \subseteq Pkgs'
         /\ \A q \in Pkgs : q # p => pkg'[q] = pkg[q]
         /\ pkg'[p].fut = pkg[p].fut /\ pkg'[p].ends = pkg[p].ends + 1
         /\ \A q \in Pkgs' : q \notin Pkgs => pkg'[q].fut = "queued" /\ pkg'[q].ends = 0
<1> DEFINE job == Replacement(p)
<1> USE JobSystemAssumption
<1>1. pkg \in Seq(Package) /\ pkg[p] \in Package /\ Pkgs = 1..Len(pkg) /\ Len(pkg) \in Nat
  BY PkgEntries DEF TypeOK
<1>2. \A oc \in Outcomes :
        /\ Settled(p, oc) \in Seq(Package)
        /\ Len(Settled(p, oc)) = Len(pkg)
        /\ DOMAIN Settled(p, oc) = Pkgs
        /\ \A q \in Pkgs : q # p => Settled(p, oc)[q] = pkg[q]
        /\ Settled(p, oc)[p].fut = pkg[p].fut
        /\ Settled(p, oc)[p].ends = pkg[p].ends + 1
  BY <1>1, SettledOK
<1>3. CASE Replaceable(p)
  <2> DEFINE r == NewPackage(job, ReplacementTries(p), NoLineage)
             s == Settled(p, "retried")
  <2>1. r.fut = "queued" /\ r.ends = 0 /\ r \in Package
    <3>1. pkg[p].job \in Job /\ pkg[p].tries \in 0..MaxTries
      BY <1>1 DEF Package
    <3>2. job \in Job
      BY <1>3, <3>1 DEF Replacement, Replaceable
    <3>3. ReplacementTries(p) \in 0..MaxTries
      BY <3>1 DEF ReplacementTries, MayRetry
    <3>4. NoLineage \in [JobType -> Nat]
      BY DEF NoLineage
    <3> QED
      BY <3>2, <3>3, <3>4, NewPackageOK
  <2>2. pkg' = Append(s, r) /\ Enqueue(Len(pkg) + 1, job)
    BY <1>3 DEF RetryPackage
  <2>3. /\ s \in Seq(Package) /\ Len(s) = Len(pkg) /\ DOMAIN s = Pkgs
        /\ \A q \in Pkgs : q # p => s[q] = pkg[q]
        /\ s[p].fut = pkg[p].fut /\ s[p].ends = pkg[p].ends + 1
    BY <1>2 DEF Outcomes
  <2> HIDE DEF r, s, job
  <2>4. /\ DOMAIN Append(s, r) = 1..(Len(s) + 1)
        /\ \A q \in DOMAIN s : Append(s, r)[q] = s[q]
        /\ Append(s, r)[Len(s) + 1] = r
    BY <2>1, <2>3, AppendOK
  <2>5. /\ Pkgs' = 1..(Len(pkg) + 1)
        /\ \A q \in Pkgs : pkg'[q] = s[q]
        /\ pkg'[Len(pkg) + 1] = r
    BY <2>2, <2>3, <2>4 DEF Pkgs
  <2>6. QueuedOnce'
    BY <2>1, <2>2, <2>3, <2>5, EnqueuedOnce
  <2>7. Pkgs \subseteq Pkgs' /\ \A q \in Pkgs' : q \notin Pkgs => q = Len(pkg) + 1
    <3>1. \A n \in Nat : /\ 1..n \subseteq 1..(n + 1)
                        /\ \A q \in 1..(n + 1) : q \notin 1..n => q = n + 1
      OBVIOUS
    <3> QED
      BY <1>1, <2>5, <3>1
  <2> QED
    BY <2>1, <2>3, <2>5, <2>6, <2>7
<1>4. CASE ~Replaceable(p)
  <2>1. pkg' = Settled(p, "failed") /\ UNCHANGED <<prioQ, normQ>>
    BY <1>4 DEF RetryPackage
  <2>2. /\ Pkgs' = Pkgs
        /\ \A q \in Pkgs : q # p => pkg'[q] = pkg[q]
        /\ pkg'[p].fut = pkg[p].fut /\ pkg'[p].ends = pkg[p].ends + 1
    BY <1>2, <2>1 DEF Outcomes, Pkgs
  <2>3. \A q \in Pkgs : pkg'[q].fut = pkg[q].fut
    BY <2>2
  <2>4. QueuedOnce'
    BY <2>1, <2>3, QueuesOK DEF QueuedOnce
  <2> QED
    BY <2>2, <2>4
<1> QED
  BY <1>3, <1>4

\* The step that finds a failed package p, which has no outcome, and puts off its
\* retry keeps the invariant if nothing else is left that would report p.
LEMMA RetryComesOK ==
  ASSUME SettledInv, TypeOK', QueuedOnce', NEW p \in Pkgs, pkg[p].ends = 0,
         UNCHANGED pkg, pkg[p].fut \in {"notified", "done", "raised"},
         pkg[p].fut = "raised" => p \notin futures',
         retrying' = p, spawner' = spawner, spawner # p,
         \A i, j \in 1..Len(notifs') :
           notifs'[i].kind # "started" /\ notifs'[j].kind # "started"
             /\ notifs'[i].pkg = notifs'[j].pkg => i = j,
         \A i \in 1..Len(notifs') :
           notifs'[i].kind # "started" =>
             /\ pkg[notifs'[i].pkg].fut \in {"notified", "done"}
             /\ pkg[notifs'[i].pkg].ends = 0
             /\ notifs'[i].pkg \notin {spawner, p},
         futures' \subseteq futures,
         pc = "cancelling" => pc' = "cancelling" /\ scan' = scan
  PROVE  SettledInv'
<1>1. SettledOnce' /\ UnsettledBefore' /\ SpawnerUnsettled'
  BY DEF SettledInv, SettledOnce, UnsettledBefore, SpawnerUnsettled, Pkgs
<1>2. CarriedOnce'
  BY DEF CarriedOnce, Carries
<1>3. RaisedOnce'
  BY DEF SettledInv, RaisedOnce, Pkgs
<1>4. RetryingUnsettled'
  BY DEF RetryingUnsettled
<1> QED
  BY <1>1, <1>2, <1>3, <1>4 DEF SettledInv

\* The queues keep their packages when those stay queued.
LEMMA QueueKept ==
  ASSUME TypeOK, QueuedOnce, UNCHANGED <<prioQ, normQ>>,
         \A q \in Pkgs : pkg[q].fut = "queued" => pkg'[q].fut = "queued"
  PROVE  QueuedOnce'
BY QueuesOK DEF QueuedOnce

\* What the handling of a failed package reports, if anything.
LEMMA ReturnedErrorReports ==
  ASSUME TypeOK, QueuedOnce, NEW p \in Pkgs, ReturnedError(p), pkg[p].fut # "queued"
  PROVE  /\ QueuedOnce' /\ Pkgs' = Pkgs
         /\ \A q \in Pkgs : q # p => pkg'[q] = pkg[q]
         /\ pkg'[p].fut = pkg[p].fut
         /\ \/ ~cancelled /\ UNCHANGED pkg /\ retrying' = p
            \/ cancelled /\ pkg'[p].ends = pkg[p].ends + 1 /\ retrying' = retrying
<1>1. pkg \in Seq(Package) /\ "failed" \in Outcomes
  BY DEF TypeOK, Outcomes
<1>2. CASE ~cancelled
  <2>1. UNCHANGED <<pkg, prioQ, normQ>> /\ retrying' = p
    BY <1>2 DEF ReturnedError
  <2>2. QueuedOnce' /\ Pkgs' = Pkgs
    BY <2>1 DEF QueuedOnce, Pkgs
  <2> QED
    BY <1>2, <2>1, <2>2
<1>3. CASE cancelled
  <2>1. /\ pkg' = Settled(p, "failed") /\ UNCHANGED <<prioQ, normQ>> /\ retrying' = retrying
    BY <1>3 DEF ReturnedError
  <2>2. /\ Pkgs' = Pkgs /\ \A q \in Pkgs : q # p => pkg'[q] = pkg[q]
        /\ pkg'[p].fut = pkg[p].fut /\ pkg'[p].ends = pkg[p].ends + 1
    BY <1>1, <2>1, SettledOK DEF Pkgs
  <2>3. QueuedOnce'
    BY <2>1, <2>2, QueueKept
  <2> QED
    BY <1>3, <2>1, <2>2, <2>3
<1> QED
  BY <1>2, <1>3

\* The package taken from a queue was queued and is in neither queue any more.
LEMMA PopOnce ==
  ASSUME TypeOK, QueuedOnce, HasQueued, NEW p,
         p = IF prioQ # <<>> THEN Head(prioQ) ELSE Head(normQ),
         IF prioQ # <<>> THEN prioQ' = Tail(prioQ) /\ normQ' = normQ
                         ELSE normQ' = Tail(normQ) /\ prioQ' = prioQ,
         \A q \in Pkgs : q # p => pkg'[q] = pkg[q]
  PROVE  p \in Pkgs /\ pkg[p].fut = "queued" /\ QueuedOnce'
<1>1. CASE prioQ # <<>>
  <2>1. /\ Len(prioQ) \in Nat \ {0} /\ Len(prioQ') = Len(prioQ) - 1
        /\ 1 \in 1..Len(prioQ) /\ prioQ[1] = p
        /\ \A i \in 1..Len(prioQ') : i + 1 \in 1..Len(prioQ) /\ prioQ'[i] = prioQ[i + 1]
    BY <1>1, TailOf DEF TypeOK
  <2>2. p \in Pkgs /\ pkg[p].fut = "queued"
    BY <2>1, QueuesOK DEF QueuedOnce
  <2>3. \A i, j \in 1..Len(prioQ') : i + 1 = j + 1 => i = j
    BY <2>1
  <2>4. \A i \in 1..Len(prioQ') : i + 1 # 1
    BY <2>1
  <2>5. /\ \A i \in 1..Len(prioQ') : prioQ'[i] # p /\ prioQ'[i] \in Pkgs
        /\ \A i \in 1..Len(normQ) : normQ[i] # p /\ normQ[i] \in Pkgs
    BY <2>1, <2>4, QueuesOK DEF QueuedOnce
  <2>6. QueuedOnce'
    BY <1>1, <2>1, <2>3, <2>5 DEF QueuedOnce
  <2> QED
    BY <2>2, <2>6
<1>2. CASE prioQ = <<>>
  <2>1. /\ Len(normQ) \in Nat \ {0} /\ Len(normQ') = Len(normQ) - 1
        /\ 1 \in 1..Len(normQ) /\ normQ[1] = p
        /\ \A i \in 1..Len(normQ') : i + 1 \in 1..Len(normQ) /\ normQ'[i] = normQ[i + 1]
    BY <1>2, TailOf DEF TypeOK, HasQueued
  <2>2. p \in Pkgs /\ pkg[p].fut = "queued"
    BY <2>1, QueuesOK DEF QueuedOnce
  <2>3. \A i, j \in 1..Len(normQ') : i + 1 = j + 1 => i = j
    BY <2>1
  <2>4. \A i \in 1..Len(normQ') : i + 1 # 1
    BY <2>1
  <2>5. /\ \A i \in 1..Len(normQ') : normQ'[i] # p /\ normQ'[i] \in Pkgs
        /\ \A i \in 1..Len(prioQ) : prioQ[i] # p /\ prioQ[i] \in Pkgs
    BY <2>1, <2>4, QueuesOK DEF QueuedOnce
  <2>6. QueuedOnce'
    BY <1>2, <2>1, <2>3, <2>5 DEF QueuedOnce
  <2> QED
    BY <2>2, <2>6
<1> QED
  BY <1>1, <1>2

\* Every step preserves the strengthened invariant.
LEMMA SettledStep == SettledInv /\ [Next]_vars => SettledInv'
<1> SUFFICES ASSUME SettledInv, [Next]_vars PROVE SettledInv'
  OBVIOUS
<1>t. TypeOK /\ TypeOK'
  BY TypeStep DEF SettledInv
<1>a. /\ pkg \in Seq(Package) /\ Len(pkg) \in Nat /\ Pkgs = 1..Len(pkg)
      /\ \A p \in Pkgs : pkg[p].ends \in Nat /\ pkg[p].fut \in Futs
  BY <1>t, PkgEntries DEF TypeOK, Package
<1>b. scan \subseteq futures /\ futures \subseteq Pkgs
  BY <1>t DEF TypeOK
<1>c. \A i, j \in 1..Len(notifs) :
        notifs[i].kind # "started" /\ notifs[j].kind # "started"
          /\ notifs[i].pkg = notifs[j].pkg => i = j
  BY DEF SettledInv, CarriedOnce, Carries
<1>d. \A i \in 1..Len(notifs) :
        notifs[i].kind # "started" =>
          /\ notifs[i].pkg \in Pkgs
          /\ pkg[notifs[i].pkg].fut \in {"notified", "done"}
          /\ pkg[notifs[i].pkg].ends = 0
          /\ notifs[i].pkg \notin {spawner, retrying}
  <2>1. \A i \in 1..Len(notifs) : notifs[i] \in [kind : Kinds, pkg : Pkgs]
    BY <1>t, ElementOfSeq DEF TypeOK
  <2>2. \A i \in 1..Len(notifs) : notifs[i].pkg \in Pkgs
    BY <2>1
  <2> QED
    BY <2>2 DEF SettledInv, CarriedOnce, Carries
<1>e. spawner # 0 => /\ spawner \in Pkgs /\ pkg[spawner].ends = 0
                     /\ pkg[spawner].fut \in {"notified", "done"}
  BY <1>t DEF SettledInv, SpawnerUnsettled, TypeOK
<1>r. retrying # 0 => /\ retrying \in Pkgs /\ pkg[retrying].ends = 0
                      /\ pkg[retrying].fut \in {"notified", "done", "raised"}
                      /\ pkg[retrying].fut = "raised" => retrying \notin futures
                      /\ retrying # spawner
  BY <1>t DEF SettledInv, RetryingUnsettled, TypeOK
<1>f. \A p \in Pkgs : pkg[p].fut \in {"queued", "submitted", "running", "returning"}
                        => pkg[p].ends = 0
  BY DEF SettledInv, UnsettledBefore
<1>g. QueuedOnce /\ RaisedOnce
  BY DEF SettledInv
<1>1. CASE PushJob
  <2>1. CASE TypeOf[Head(rest)] \notin Registered
    BY <1>1, <1>t, <2>1, SameJobs DEF PushJob
  <2>2. CASE TypeOf[Head(rest)] \in Registered
    <3> DEFINE job == Head(rest)
               r == NewPackage(job, ChildTries(spawner), ChildLineage(spawner))
    <3>1. r.fut = "queued" /\ r.ends = 0
      BY DEF NewPackage
    <3>2. /\ pkg' = Append(pkg, r) /\ Enqueue(Len(pkg) + 1, job)
          /\ UNCHANGED <<futures, scan, notifs, pc, spawner, retrying>>
      BY <1>1, <2>2 DEF PushJob
    <3> HIDE DEF r, job
    <3>3. /\ Pkgs' = 1..(Len(pkg) + 1)
          /\ pkg'[Len(pkg) + 1] = r
          /\ \A q \in Pkgs : pkg'[q] = pkg[q]
      BY <1>a, <3>2, AppendProperties DEF Pkgs
    <3>4. QueuedOnce'
      BY <1>t, <1>g, <3>1, <3>2, <3>3, EnqueuedOnce
    <3>5. \A q \in Pkgs' : q \in Pkgs \/ (pkg'[q].fut = "queued" /\ pkg'[q].ends = 0)
      BY <1>a, <3>1, <3>3
    <3>6. SettledOnce' /\ UnsettledBefore'
      BY <3>3, <3>5 DEF SettledInv, SettledOnce, UnsettledBefore
    <3>7. CarriedOnce' /\ SpawnerUnsettled' /\ RetryingUnsettled'
      BY <1>c, <1>d, <1>e, <1>r, <3>2, <3>3
      DEF CarriedOnce, Carries, SpawnerUnsettled, RetryingUnsettled
    <3>8. RaisedOnce'
      BY <1>g, <3>2, <3>3, <3>5 DEF RaisedOnce
    <3> QED
      BY <1>t, <3>4, <3>6, <3>7, <3>8 DEF SettledInv
  <2> QED
    BY <2>1, <2>2
<1>2. CASE ExecuteJobs
  BY <1>2, <1>t, SameJobs DEF ExecuteJobs
<1>3. CASE Loop
  BY <1>3, <1>t, SameJobs DEF Loop
<1>4. CASE Submit
  <2> DEFINE p == IF prioQ # <<>> THEN Head(prioQ) ELSE Head(normQ)
  <2>1. /\ HasQueued
        /\ IF prioQ # <<>> THEN prioQ' = Tail(prioQ) /\ normQ' = normQ
                           ELSE normQ' = Tail(normQ) /\ prioQ' = prioQ
        /\ pc = "submit" /\ UNCHANGED <<scan, notifs, pc, spawner, retrying>>
    BY <1>4 DEF Submit
  <2>2. \/ pkg' = Ended(p, "dropped", "failed") /\ futures' = futures
        \/ pkg' = WithFut(p, "submitted") /\ futures' = futures \cup {p}
    BY <1>4 DEF Submit
  <2>3. p \in Pkgs
    BY <1>t, <2>1, HeadTailProperties DEF TypeOK, HasQueued
  <2>4. /\ "dropped" \in Futs /\ "submitted" \in Futs /\ "failed" \in Outcomes
    BY DEF Futs, Outcomes
  <2>5. Pkgs' = Pkgs /\ \A q \in Pkgs : q # p => pkg'[q] = pkg[q]
    <3> HIDE DEF p
    <3>1. pkg' = Ended(p, "dropped", "failed") =>
            Pkgs' = Pkgs /\ \A q \in Pkgs : q # p => pkg'[q] = pkg[q]
      BY <1>a, <2>3, <2>4, EndedOK DEF Pkgs
    <3>2. pkg' = WithFut(p, "submitted") =>
            Pkgs' = Pkgs /\ \A q \in Pkgs : q # p => pkg'[q] = pkg[q]
      BY <1>a, <2>3, <2>4, WithFutOK DEF Pkgs
    <3> QED
      BY <2>2, <3>1, <3>2
  <2>6. pkg[p].fut = "queued" /\ QueuedOnce'
    <3> DEFINE P == p
    <3>1. P = IF prioQ # <<>> THEN Head(prioQ) ELSE Head(normQ)
      OBVIOUS
    <3>2. \A q \in Pkgs : q # P => pkg'[q] = pkg[q]
      BY <2>5
    <3> HIDE DEF P
    <3>3. pkg[P].fut = "queued" /\ QueuedOnce'
      BY <1>t, <1>g, <2>1, <3>1, <3>2, PopOnce
    <3> QED
      BY <3>3 DEF P
  <2> HIDE DEF p
  <2>7. CASE pkg' = Ended(p, "dropped", "failed") /\ futures' = futures
    <3>1. pkg'[p].fut = "dropped" /\ pkg'[p].ends = 1
      BY <1>a, <1>f, <2>3, <2>4, <2>6, <2>7, EndedOK
    <3> QED
      BY <1>t, <1>c, <1>d, <1>e, <1>r, <1>f, <2>1, <2>3, <2>5, <2>6, <2>7, <3>1, ReportedOK
  <2>8. CASE pkg' = WithFut(p, "submitted") /\ futures' = futures \cup {p}
    <3>1. pkg'[p].fut = "submitted" /\ pkg'[p].ends = 0
      BY <1>a, <1>f, <2>3, <2>4, <2>6, <2>8, WithFutOK
    <3>2. SettledOnce' /\ UnsettledBefore'
      BY <2>5, <3>1 DEF SettledInv, SettledOnce, UnsettledBefore
    <3>3. CarriedOnce' /\ SpawnerUnsettled'
      BY <1>c, <1>d, <1>e, <2>1, <2>5, <2>6 DEF CarriedOnce, Carries, SpawnerUnsettled
    <3>5. RetryingUnsettled'
      BY <1>r, <2>1, <2>5, <2>6, <2>8 DEF RetryingUnsettled
    <3>4. RaisedOnce'
      BY <1>g, <2>1, <2>5, <2>8, <3>1 DEF RaisedOnce
    <3> QED
      BY <1>t, <2>6, <3>2, <3>3, <3>4, <3>5 DEF SettledInv
  <2> QED
    BY <2>2, <2>7, <2>8
<1>5. CASE EndSubmit
  BY <1>5, <1>t, SameJobs DEF EndSubmit
<1>6. CASE HandleStarted
  <2>1. /\ notifs # <<>> /\ notifs' = Tail(notifs)
        /\ UNCHANGED <<pkg, prioQ, normQ, futures, scan, pc, spawner, retrying>>
    BY <1>6 DEF HandleStarted, Handling
  <2>2. CarriedOnce'
    BY <2>1, FrontOK DEF CarriedOnce, Carries
  <2> QED
    BY <1>t, <2>1, <2>2 DEF SettledInv, SettledOnce, QueuedOnce, UnsettledBefore,
       SpawnerUnsettled, RetryingUnsettled, RaisedOnce, Pkgs
<1>7. CASE HandleCompleted
  <2>1. /\ notifs # <<>> /\ notifs' = Tail(notifs)
        /\ spawner' = Front.pkg /\ Front.kind # "started" /\ retrying = 0 /\ retrying' = 0
        /\ UNCHANGED <<pkg, prioQ, normQ, futures, scan, pc>>
    BY <1>7 DEF HandleCompleted, Handling
  <2>2. CarriedOnce' /\ SpawnerUnsettled' /\ RetryingUnsettled'
    BY <2>1, FrontOK DEF CarriedOnce, Carries, SpawnerUnsettled, RetryingUnsettled
  <2> QED
    BY <1>t, <2>1, <2>2 DEF SettledInv, SettledOnce, QueuedOnce, UnsettledBefore,
       RaisedOnce, Pkgs
<1>8. CASE RecordCompleted
  <2>1. /\ pkg' = Settled(spawner, "completed") /\ spawner' = 0 /\ spawner # 0
        /\ UNCHANGED <<prioQ, normQ, notifs, futures, retrying>>
        /\ (UNCHANGED <<pc, scan>> \/ (pc = "handle" /\ pc' = "reap"))
    BY <1>8 DEF RecordCompleted, AfterHandled
  <2>2. PICK p \in Pkgs : p = spawner
    BY <1>e, <2>1
  <2>3. "completed" \in Outcomes
    BY DEF Outcomes
  <2>4. /\ Pkgs' = Pkgs /\ \A q \in Pkgs : q # p => pkg'[q] = pkg[q]
        /\ pkg'[p].fut = pkg[p].fut /\ pkg'[p].ends = 1
    BY <1>a, <1>e, <2>1, <2>2, <2>3, SettledOK DEF Pkgs
  <2>5. pkg[p].ends = 0 /\ pkg[p].fut \in {"notified", "done"}
    BY <1>e, <2>1, <2>2
  <2>6. QueuedOnce'
    BY <1>t, <1>g, <2>1, <2>4, <2>5, QueueKept
  <2>7. \A i \in 1..Len(notifs) :
          notifs[i].kind # "started" =>
            /\ notifs[i].pkg \in Pkgs
            /\ pkg[notifs[i].pkg].fut \in {"notified", "done"}
            /\ pkg[notifs[i].pkg].ends = 0
            /\ notifs[i].pkg \notin {0, retrying}
            /\ notifs[i].pkg # p
    BY <1>a, <1>d, <2>2
  <2>8. retrying' = 0 \/ (retrying' = retrying /\ retrying \in Pkgs /\ retrying # p)
    BY <1>r, <2>1, <2>2
  <2> QED
    BY <1>t, <1>c, <2>1, <2>4, <2>5, <2>6, <2>7, <2>8, ReportedOK
<1>9. CASE HandleCancelled
  <2>1. /\ notifs # <<>> /\ notifs' = Tail(notifs) /\ Front.kind # "started"
        /\ pkg' = Settled(Front.pkg, "cancelled") /\ spawner = 0 /\ spawner' = 0
        /\ retrying = 0 /\ retrying' = 0
        /\ UNCHANGED <<prioQ, normQ, futures>>
        /\ (UNCHANGED <<pc, scan>> \/ (pc = "handle" /\ pc' = "reap"))
    BY <1>9 DEF HandleCancelled, Handling, AfterHandled
  <2> DEFINE p == Front.pkg
  <2>2. /\ p \in Pkgs /\ pkg[p].ends = 0 /\ pkg[p].fut \in {"notified", "done"}
        /\ \A i, j \in 1..Len(notifs') :
             notifs'[i].kind # "started" /\ notifs'[j].kind # "started"
               /\ notifs'[i].pkg = notifs'[j].pkg => i = j
        /\ \A i \in 1..Len(notifs') :
             notifs'[i].kind # "started" =>
               /\ notifs'[i].pkg \in Pkgs
               /\ pkg[notifs'[i].pkg].fut \in {"notified", "done"}
               /\ pkg[notifs'[i].pkg].ends = 0
               /\ notifs'[i].pkg \notin {spawner, retrying}
               /\ notifs'[i].pkg # p
    BY <2>1, FrontOK
  <2> HIDE DEF p
  <2>3. pkg' = Settled(p, "cancelled") /\ "cancelled" \in Outcomes
    BY <2>1 DEF p, Outcomes
  <2>4. /\ Pkgs' = Pkgs /\ \A q \in Pkgs : q # p => pkg'[q] = pkg[q]
        /\ pkg'[p].fut = pkg[p].fut /\ pkg'[p].ends = 1
    BY <1>a, <2>2, <2>3, SettledOK DEF Pkgs
  <2>5. QueuedOnce'
    BY <1>t, <1>g, <2>1, <2>2, <2>4, QueueKept
  <2> QED
    BY <1>t, <2>1, <2>2, <2>4, <2>5, ReportedOK
<1>10. CASE HandleError
  <2>1. /\ notifs # <<>> /\ notifs' = Tail(notifs) /\ Front.kind # "started"
        /\ ReturnedError(Front.pkg) /\ spawner = 0 /\ spawner' = 0
        /\ retrying = 0
        /\ UNCHANGED futures
        /\ (UNCHANGED <<pc, scan>> \/ (pc = "handle" /\ pc' = "reap"))
    BY <1>10 DEF HandleError, Handling, AfterHandled
  <2> DEFINE p == Front.pkg
  <2>2. /\ p \in Pkgs /\ pkg[p].ends = 0 /\ pkg[p].fut \in {"notified", "done"}
        /\ \A i, j \in 1..Len(notifs') :
             notifs'[i].kind # "started" /\ notifs'[j].kind # "started"
               /\ notifs'[i].pkg = notifs'[j].pkg => i = j
        /\ \A i \in 1..Len(notifs') :
             notifs'[i].kind # "started" =>
               /\ notifs'[i].pkg \in Pkgs
               /\ pkg[notifs'[i].pkg].fut \in {"notified", "done"}
               /\ pkg[notifs'[i].pkg].ends = 0
               /\ notifs'[i].pkg \notin {spawner, retrying}
               /\ notifs'[i].pkg # p
    BY <2>1, FrontOK
  <2>3. ReturnedError(p)
    BY <2>1
  <2>4. spawner # p
    BY <1>a, <2>1, <2>2
  <2> HIDE DEF p
  <2>5. /\ QueuedOnce' /\ Pkgs' = Pkgs
        /\ \A q \in Pkgs : q # p => pkg'[q] = pkg[q]
        /\ pkg'[p].fut = pkg[p].fut
        /\ \/ UNCHANGED pkg /\ retrying' = p
           \/ pkg'[p].ends = 1 /\ retrying' = 0
    BY <1>t, <1>g, <2>1, <2>2, <2>3, ReturnedErrorReports
  <2>6. CASE UNCHANGED pkg /\ retrying' = p
    BY <1>t, <2>1, <2>2, <2>4, <2>5, <2>6, RetryComesOK
  <2>7. CASE pkg'[p].ends = 1 /\ retrying' = 0
    BY <1>t, <2>1, <2>2, <2>5, <2>7, ReportedOK
  <2> QED
    BY <2>5, <2>6, <2>7
<1>11. CASE HandleNothing
  BY <1>11, <1>t, SameJobs DEF HandleNothing
<1>12. ASSUME NEW p \in scan, ReapFuture(p) PROVE SettledInv'
  <2>1. /\ p \in Pkgs /\ p \in futures /\ pc = "reap" /\ scan' = scan \ {p}
        /\ UNCHANGED <<notifs, pc, spawner>> /\ retrying = 0
    BY <1>12, <1>b DEF ReapFuture
  <2>2. CASE pkg[p].fut = "raised" /\ ReturnedError(p) /\ futures' = futures \ {p}
    <3>1. pkg[p].ends = 0
      BY <1>g, <2>1, <2>2 DEF RaisedOnce
    <3>2. /\ QueuedOnce' /\ Pkgs' = Pkgs
          /\ \A q \in Pkgs : q # p => pkg'[q] = pkg[q]
          /\ pkg'[p].fut = "raised"
          /\ \/ UNCHANGED pkg /\ retrying' = p
             \/ pkg'[p].ends = 1 /\ retrying' = 0
      BY <1>t, <1>g, <2>1, <2>2, <3>1, ReturnedErrorReports
    <3>3. CASE UNCHANGED pkg /\ retrying' = p
      <4>1. spawner # p
        BY <1>a, <1>e, <2>1, <2>2
      <4>2. \A i \in 1..Len(notifs') :
              notifs'[i].kind # "started" =>
                /\ pkg[notifs'[i].pkg].fut \in {"notified", "done"}
                /\ pkg[notifs'[i].pkg].ends = 0
                /\ notifs'[i].pkg \notin {spawner, p}
        BY <1>d, <2>1, <2>2
      <4> QED
        BY <1>t, <1>c, <2>1, <2>2, <3>1, <3>2, <3>3, <4>1, <4>2, RetryComesOK
    <3>4. CASE pkg'[p].ends = 1 /\ retrying' = 0
      BY <1>t, <1>c, <1>d, <1>e, <2>1, <2>2, <3>1, <3>2, <3>4, ReportedOK
    <3> QED
      BY <3>2, <3>3, <3>4
  <2>3. CASE /\ pkg[p].fut = "aborted" /\ pkg' = Settled(p, "failed")
             /\ futures' = futures \ {p} /\ UNCHANGED <<prioQ, normQ, retrying>>
    <3>1. pkg[p].ends = 0
      BY <1>g, <2>1, <2>3 DEF RaisedOnce
    <3>2. "failed" \in Outcomes
      BY DEF Outcomes
    <3>3. /\ Pkgs' = Pkgs /\ \A q \in Pkgs : q # p => pkg'[q] = pkg[q]
          /\ pkg'[p].fut = "aborted" /\ pkg'[p].ends = 1
      BY <1>a, <2>1, <2>3, <3>1, <3>2, SettledOK DEF Pkgs
    <3>4. QueuedOnce'
      BY <1>t, <1>g, <2>3, <3>3, QueueKept
    <3> QED
      BY <1>t, <1>c, <1>d, <1>e, <2>1, <2>3, <3>1, <3>3, <3>4, ReportedOK
  <2>4. CASE UNCHANGED <<pkg, prioQ, normQ, retrying>> /\ futures' \subseteq futures
    BY <1>t, <2>1, <2>4, SameJobs
  <2> QED
    BY <1>12, <2>2, <2>3, <2>4 DEF ReapFuture
<1>13. CASE CheckClock
  BY <1>13, <1>t, SameJobs DEF CheckClock
<1>14. ASSUME NEW p \in scan, CancelFuture(p) PROVE SettledInv'
  <2>1. /\ p \in Pkgs /\ p \in futures /\ pc = "cancelling" /\ scan' = scan \ {p}
        /\ UNCHANGED <<prioQ, normQ, futures, notifs, pc, spawner, retrying>>
    BY <1>14, <1>b DEF CancelFuture
  <2>2. CASE pkg[p].fut = "submitted" /\ pkg' = Ended(p, "dropped", "cancelled")
    <3>1. "dropped" \in Futs /\ "cancelled" \in Outcomes
      BY DEF Futs, Outcomes
    <3>2. /\ Pkgs' = Pkgs /\ \A q \in Pkgs : q # p => pkg'[q] = pkg[q]
          /\ pkg'[p].fut = "dropped" /\ pkg'[p].ends = 1
      BY <1>a, <1>f, <2>1, <2>2, <3>1, EndedOK DEF Pkgs
    <3>3. QueuedOnce'
      BY <1>t, <1>g, <2>1, <2>2, <3>2, QueueKept
    <3> QED
      BY <1>t, <1>c, <1>d, <1>e, <1>r, <1>f, <2>1, <2>2, <3>2, <3>3, ReportedOK
  <2>3. CASE pkg[p].fut \in {"raised", "aborted"} /\ pkg' = Settled(p, "failed")
    <3>1. pkg[p].ends = 0
      BY <1>14, <1>g, <2>1, <2>3 DEF RaisedOnce
    <3>2. "failed" \in Outcomes
      BY DEF Outcomes
    <3>3. /\ Pkgs' = Pkgs /\ \A q \in Pkgs : q # p => pkg'[q] = pkg[q]
          /\ pkg'[p].fut = pkg[p].fut /\ pkg'[p].ends = 1
      BY <1>a, <2>1, <2>3, <3>1, <3>2, SettledOK DEF Pkgs
    <3>4. QueuedOnce'
      BY <1>t, <1>g, <2>1, <2>3, <3>3, QueueKept
    <3> QED
      <4>1. retrying # p
        BY <1>a, <1>r, <2>1, <2>3
      <4> QED
        BY <1>t, <1>c, <1>d, <1>e, <1>r, <2>1, <2>3, <3>1, <3>3, <3>4, <4>1, ReportedOK
  <2>4. CASE pkg[p].fut = "done" /\ pkg' = pkg
    <3>1. RaisedOnce'
      BY <1>g, <2>1, <2>4 DEF RaisedOnce, Pkgs
    <3> QED
      BY <1>t, <2>1, <2>4, <3>1 DEF SettledInv, SettledOnce, QueuedOnce, UnsettledBefore,
         CarriedOnce, Carries, SpawnerUnsettled, RetryingUnsettled, Pkgs
  <2> QED
    BY <1>14, <2>2, <2>3, <2>4 DEF CancelFuture
<1>15. CASE EndCancelling
  BY <1>15, <1>t, SameJobs DEF EndCancelling
<1>16. CASE EndExecution
  <2>1. /\ notifs = <<>> /\ notifs' = <<>> /\ prioQ' = <<>> /\ normQ' = <<>>
        /\ spawner = 0 /\ spawner' = 0 /\ retrying' = 0
        /\ futures' = futures /\ scan' = scan
        /\ pc = "drain" /\ pc' = "idle"
    BY <1>16 DEF EndExecution
  <2>2. pkg' = [p \in Pkgs |->
                 IF InQueue(p)
                 THEN [pkg[p] EXCEPT !.fut = "dropped", !.outcome = "cancelled",
                                     !.ends = @ + 1]
                 ELSE pkg[p]]
    BY <1>16 DEF EndExecution
  <2>3. \A p \in Pkgs : InQueue(p) => pkg[p].fut = "queued" /\ pkg[p].ends = 0
    BY <1>f, <1>g DEF InQueue, QueuedOnce
  <2>4. Pkgs' = Pkgs /\ \A p \in Pkgs :
          IF InQueue(p) THEN pkg'[p].fut = "dropped" /\ pkg'[p].ends = 1
                        ELSE pkg'[p] = pkg[p]
    <3>1. Pkgs' = Pkgs
      BY <2>2 DEF Pkgs
    <3>2. ASSUME NEW p \in Pkgs, InQueue(p)
          PROVE  pkg'[p].fut = "dropped" /\ pkg'[p].ends = 1
      <4>1. pkg[p] \in Package
        BY <1>a, PkgEntries
      <4>2. pkg'[p] = [pkg[p] EXCEPT !.fut = "dropped", !.outcome = "cancelled",
                                     !.ends = @ + 1]
        BY <2>2, <3>2
      <4> QED
        BY <2>3, <3>2, <4>1, <4>2 DEF Package
    <3>3. ASSUME NEW p \in Pkgs, ~InQueue(p) PROVE pkg'[p] = pkg[p]
      BY <2>2, <3>3
    <3> QED
      BY <3>1, <3>2, <3>3
  <2>5. SettledOnce' /\ UnsettledBefore' /\ RaisedOnce'
    BY <1>f, <1>g, <2>1, <2>3, <2>4 DEF SettledInv, SettledOnce, UnsettledBefore, RaisedOnce
  <2>6. QueuedOnce' /\ CarriedOnce' /\ SpawnerUnsettled' /\ RetryingUnsettled'
    <3>1. Len(prioQ') = 0 /\ Len(normQ') = 0 /\ Len(notifs') = 0
      BY <2>1, EmptySeq
    <3> QED
      BY <2>1, <3>1 DEF QueuedOnce, CarriedOnce, SpawnerUnsettled, RetryingUnsettled
  <2> QED
    BY <1>t, <2>5, <2>6 DEF SettledInv
<1>17. ASSUME NEW p \in Pkgs, Worker(p) PROVE SettledInv'
  <2>1. \A f \in Futs : pkg' = WithFut(p, f) =>
          /\ Pkgs' = Pkgs /\ \A q \in Pkgs : q # p => pkg'[q] = pkg[q]
          /\ pkg'[p].fut = f /\ pkg'[p].ends = pkg[p].ends
    BY <1>a, WithFutOK DEF Pkgs
  <2>2. /\ {"running", "returning", "notified", "raised", "aborted", "done"} \subseteq Futs
        /\ {"started", "completed", "error", "cancelled"} \subseteq Kinds
    BY DEF Futs, Kinds
  <2>3. CASE StartWork(p)
    <3>1. CASE cancelled
      BY <1>t, <2>1, <2>2, <2>3, <3>1, MovedOK DEF StartWork
    <3>2. CASE ~cancelled
      BY <1>t, <2>1, <2>2, <2>3, <3>2, MovedOK DEF StartWork
    <3> QED
      BY <3>1, <3>2
  <2>4. CASE Return(p)
    <3>1. PICK jobs : pkg' = [pkg EXCEPT ![p].fut = "returning", ![p].next = jobs]
      BY <2>4 DEF Return
    <3> DEFINE r == [pkg[p] EXCEPT !.fut = "returning", !.next = jobs]
    <3>2. pkg[p] \in Package
      BY <1>a, PkgEntries
    <3>3. r.fut = "returning" /\ r.ends = pkg[p].ends
      BY <3>2 DEF Package
    <3>4. pkg' = [pkg EXCEPT ![p] = r]
      BY <1>a, <3>1
    <3> HIDE DEF r
    <3>5. /\ Pkgs' = Pkgs /\ \A q \in Pkgs : q # p => pkg'[q] = pkg[q]
          /\ pkg'[p].fut = "returning" /\ pkg'[p].ends = pkg[p].ends
      BY <3>3, <3>4 DEF Pkgs
    <3> QED
      BY <1>t, <2>2, <2>4, <3>5, MovedOK DEF Return
  <2>5. CASE NotifyCompleted(p)
    BY <1>t, <2>1, <2>2, <2>5, MovedOK DEF NotifyCompleted
  <2>6. CASE NotifyError(p)
    BY <1>t, <2>1, <2>2, <2>6, MovedOK DEF NotifyError
  <2>7. CASE Raise(p) \/ WaitTimedOut(p)
    BY <1>t, <2>1, <2>2, <2>7, MovedOK DEF Raise, WaitTimedOut
  <2>8. CASE ExitWork(p)
    BY <1>t, <2>1, <2>2, <2>8, MovedOK DEF ExitWork
  <2> QED
    BY <1>17, <2>3, <2>4, <2>5, <2>6, <2>7, <2>8 DEF Worker
<1>18. ASSUME NEW p \in Pkgs, TrackActivity(p) PROVE SettledInv'
  BY <1>18, <1>t, SameJobs DEF TrackActivity, mainVars
<1>19. CASE Signal
  BY <1>19, <1>t, SameJobs DEF Signal, mainVars
<1>20. CASE UNCHANGED vars
  BY <1>20, <1>t, SameJobs DEF vars
<1>21. CASE FinishRetry
  <2>1. /\ retrying # 0 /\ RetryPackage(retrying) /\ retrying' = 0
        /\ UNCHANGED <<futures, scan, notifs, pc, spawner>>
    BY <1>21 DEF FinishRetry
  <2>2. PICK p \in Pkgs : p = retrying
    BY <1>r, <2>1
  <2>3. /\ pkg[p].ends = 0 /\ pkg[p].fut \in {"notified", "done", "raised"}
        /\ pkg[p].fut = "raised" => p \notin futures
        /\ p # spawner
    BY <1>r, <2>1, <2>2
  <2>4. /\ QueuedOnce' /\ Pkgs \subseteq Pkgs'
        /\ \A q \in Pkgs : q # p => pkg'[q] = pkg[q]
        /\ pkg'[p].fut = pkg[p].fut /\ pkg'[p].ends = 1
        /\ \A q \in Pkgs' : q \notin Pkgs => pkg'[q].fut = "queued" /\ pkg'[q].ends = 0
    BY <1>t, <1>g, <2>1, <2>2, <2>3, RetryPackageReports
  <2>5. \A i \in 1..Len(notifs') :
          notifs'[i].kind # "started" =>
            /\ notifs'[i].pkg \in Pkgs
            /\ pkg[notifs'[i].pkg].fut \in {"notified", "done"}
            /\ pkg[notifs'[i].pkg].ends = 0
            /\ notifs'[i].pkg \notin {spawner', retrying'}
            /\ notifs'[i].pkg # p
    BY <1>a, <1>d, <2>1, <2>2
  <2> QED
    BY <1>t, <1>c, <1>e, <2>1, <2>3, <2>4, <2>5, ReportedOK
<1> QED
  BY <1>1, <1>2, <1>3, <1>4, <1>5, <1>6, <1>7, <1>8, <1>9, <1>10, <1>11, <1>12,
     <1>13, <1>14, <1>15, <1>16, <1>17, <1>18, <1>19, <1>20, <1>21 DEF Next, Main

\* Before the first job is pushed there is nothing to settle.
LEMMA InitSettled == Init => SettledInv
<1> SUFFICES ASSUME Init PROVE SettledInv
  OBVIOUS
<1>1. TypeOK
  BY InitTypeOK
<1>2. Len(prioQ) = 0 /\ Len(normQ) = 0 /\ Len(notifs) = 0 /\ Pkgs = {}
  <2>1. Len(pkg) = 0
    BY EmptySeq DEF Init
  <2> QED
    BY <1>1, <2>1, EmptySeq, PkgEntries DEF Init, TypeOK
<1> QED
  BY <1>1, <1>2 DEF Init, SettledInv, SettledOnce, QueuedOnce, UnsettledBefore,
     CarriedOnce, SpawnerUnsettled, RetryingUnsettled, RaisedOnce

\* No job is ever reported twice: whichever of the notification handler, the
\* sweep of finished futures, the cancellation of futures and the clearing of
\* the queues comes to a package, it finds it without an outcome.
THEOREM OutcomeOnce == Spec => []SettledOnce
<1>1. Init => SettledInv
  BY InitSettled
<1>2. SettledInv => SettledOnce
  BY DEF SettledInv
<1> QED
  BY <1>1, <1>2, SettledStep, PTL DEF Spec

-----------------------------------------------------------------------------
(* Nothing is spawned after a cancellation *)

\* Handling a failed package puts off no retry once jobs are cancelled.
LEMMA NoRetryWhenCancelled ==
  ASSUME TypeOK, cancelled, NEW p \in Pkgs, ReturnedError(p)
  PROVE  Len(pkg') = Len(pkg) /\ retrying' = retrying
<1>1. pkg' = Settled(p, "failed") /\ retrying' = retrying
  BY DEF ReturnedError
<1>2. pkg \in Seq(Package) /\ "failed" \in Outcomes
  BY DEF TypeOK, Outcomes
<1> QED
  BY <1>1, <1>2, SettledOK

\* Once jobs are cancelled, no step of an execution creates a package: neither
\* a retry nor a child, except the children of a completion whose handling had
\* already begun and the one retry whose test of the cancellation came before it.
THEOREM CancelStops == Spec => CancelStopsSpawning
<1>1. ASSUME TypeOK, [Next]_vars, cancelled, rest = <<>>, retrying = 0, pc # "idle"
      PROVE  Len(pkg') = Len(pkg)
  <2>a. pkg \in Seq(Package) /\ scan \subseteq Pkgs
    BY <1>1 DEF TypeOK
  <2>b. /\ \A o \in Outcomes : \A p \in Pkgs : Len(Settled(p, o)) = Len(pkg)
        /\ \A f \in Futs : \A p \in Pkgs : Len(WithFut(p, f)) = Len(pkg)
        /\ \A f \in Futs : \A o \in Outcomes : \A p \in Pkgs : Len(Ended(p, f, o)) = Len(pkg)
    BY <2>a, SettledOK, WithFutOK, EndedOK
  <2>c. notifs # <<>> => Front.pkg \in Pkgs
    <3>1. notifs # <<>> => Head(notifs) \in [kind : Kinds, pkg : Pkgs]
      BY <1>1, HeadTailProperties DEF TypeOK
    <3> QED
      BY <3>1 DEF Front
  <2>1. CASE UNCHANGED pkg
    BY <2>1
  <2>2. CASE PushJob
    BY <1>1, <2>2 DEF PushJob
  <2>3. CASE Submit
    <3> DEFINE p == IF prioQ # <<>> THEN Head(prioQ) ELSE Head(normQ)
    <3>1. p \in Pkgs
      BY <1>1, <2>3, HeadTailProperties DEF TypeOK, Submit, HasQueued
    <3>2. pkg' = Ended(p, "dropped", "failed") \/ pkg' = WithFut(p, "submitted")
      BY <2>3 DEF Submit
    <3> HIDE DEF p
    <3> QED
      BY <2>b, <3>1, <3>2 DEF Futs, Outcomes
  <2>4. CASE RecordCompleted
    BY <1>1, <2>4, <2>b DEF RecordCompleted, TypeOK, Outcomes
  <2>5. CASE HandleCancelled
    BY <2>5, <2>b, <2>c DEF HandleCancelled, Handling, Outcomes
  <2>6. CASE HandleError
    BY <1>1, <2>6, <2>c, NoRetryWhenCancelled DEF HandleError, Handling
  <2>7. ASSUME NEW p \in scan, ReapFuture(p) PROVE Len(pkg') = Len(pkg)
    <3>1. \/ ReturnedError(p) \/ pkg' = Settled(p, "failed") \/ UNCHANGED pkg
      BY <2>7 DEF ReapFuture
    <3> QED
      BY <1>1, <2>a, <2>b, <3>1, NoRetryWhenCancelled DEF Outcomes
  <2>8. ASSUME NEW p \in scan, CancelFuture(p) PROVE Len(pkg') = Len(pkg)
    BY <2>8, <2>a, <2>b DEF CancelFuture, Futs, Outcomes
  <2>9. CASE EndExecution
    <3>1. pkg' \in Seq(Package) /\ DOMAIN pkg' = DOMAIN pkg
      <4>1. TypeOK'
        BY <1>1, TypeStep
      <4> QED
        BY <2>9, <4>1 DEF TypeOK, EndExecution, Pkgs
    <3> QED
      BY <2>a, <3>1, LenProperties
  <2>10. ASSUME NEW p \in Pkgs, Worker(p) PROVE Len(pkg') = Len(pkg)
    <3>1. CASE Return(p)
      <4>1. TypeOK'
        BY <1>1, TypeStep
      <4>2. DOMAIN pkg' = DOMAIN pkg
        BY <3>1 DEF Return
      <4> QED
        BY <2>a, <4>1, <4>2, LenProperties DEF TypeOK
    <3>2. CASE ~Return(p)
      <4>1. \E f \in Futs : pkg' = WithFut(p, f)
        BY <2>10, <3>2 DEF Worker, StartWork, NotifyCompleted, NotifyError, Raise, WaitTimedOut, ExitWork, Futs
      <4> QED
        BY <2>b, <4>1
    <3> QED
      BY <3>1, <3>2
  <2> QED
    BY <1>1, <2>1, <2>2, <2>3, <2>4, <2>5, <2>6, <2>7, <2>8, <2>9, <2>10
    DEF Next, Main, vars, ExecuteJobs, Loop, EndSubmit, HandleStarted, HandleCompleted,
        HandleNothing, CheckClock, EndCancelling, TrackActivity, Signal, FinishRetry
<1>2. ASSUME [Next]_vars, rest = <<>>, pc # "idle" PROVE rest' = <<>> \/ pc' = "idle" \/ ~cancelled
  <2>1. CASE HandleCompleted
    BY <2>1 DEF HandleCompleted
  <2>2. CASE EndExecution
    BY <2>2 DEF EndExecution
  <2>3. CASE ~HandleCompleted /\ ~EndExecution
    BY <1>2, <2>3 DEF Next, Main, Worker, vars, mainVars, PushJob, ExecuteJobs, Loop,
       Submit, EndSubmit, HandleStarted, RecordCompleted, HandleCancelled, HandleError,
       HandleNothing, ReapFuture, CheckClock, CancelFuture, EndCancelling, StartWork,
       Return, NotifyCompleted, NotifyError, Raise, WaitTimedOut, ExitWork, TrackActivity, Signal,
       FinishRetry
  <2> QED
    BY <2>1, <2>2, <2>3
<1>3. ASSUME TypeOK, [Next]_vars, cancelled, retrying = 0 PROVE retrying' = 0
  <2>1. CASE HandleError
    <3>1. Head(notifs) \in [kind : Kinds, pkg : Pkgs]
      BY <1>3, <2>1, HeadTailProperties DEF TypeOK, HandleError, Handling
    <3>2. Front.pkg \in Pkgs
      BY <3>1 DEF Front
    <3> QED
      BY <1>3, <2>1, <3>2, NoRetryWhenCancelled DEF HandleError
  <2>2. ASSUME NEW p \in scan, ReapFuture(p) PROVE retrying' = 0
    <3>1. p \in Pkgs
      BY <1>3 DEF TypeOK
    <3>2. ReturnedError(p) \/ retrying' = retrying
      BY <2>2 DEF ReapFuture
    <3> QED
      BY <1>3, <3>1, <3>2, NoRetryWhenCancelled
  <2>3. CASE ~HandleError /\ ~(\E p \in scan : ReapFuture(p))
    BY <1>3, <2>3 DEF Next, Main, Worker, vars, mainVars, PushJob, ExecuteJobs, Loop,
       Submit, EndSubmit, HandleStarted, HandleCompleted, RecordCompleted, HandleCancelled,
       FinishRetry, HandleNothing, CheckClock, CancelFuture, EndCancelling, EndExecution,
       StartWork, Return, NotifyCompleted, NotifyError, Raise, WaitTimedOut, ExitWork,
       TrackActivity, Signal
  <2> QED
    BY <2>1, <2>2, <2>3
<1>4. TypeOK /\ [Next]_vars =>
        [cancelled /\ rest = <<>> /\ retrying = 0 /\ pc # "idle" =>
           /\ Len(pkg') = Len(pkg) /\ retrying' = 0
           /\ (rest' = <<>> \/ pc' = "idle")]_vars
  BY <1>1, <1>2, <1>3
<1> QED
  BY <1>4, TypeCorrect, PTL DEF Spec, CancelStopsSpawning

=============================================================================
