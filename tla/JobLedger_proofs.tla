--------------------------- MODULE JobLedger_proofs ---------------------------
(***************************************************************************)
(* Proofs about what callers of JobSystem rely on, for every set of jobs   *)
(* and every number of threads, tries and executions: no job is lost, the  *)
(* pending jobs are counted, a loop that ends by itself left nothing to    *)
(* do, and the scheduler implements the ledger of outcomes.                *)
(***************************************************************************)
EXTENDS JobSystem_proofs, FiniteSetTheorems

-----------------------------------------------------------------------------
(* The invariant *)

\* A report gives a package its outcome: one is never there without the other.
OutcomeReported == \A p \in Pkgs : pkg[p].ends = 0 <=> Open(p)

\* Children are pushed while notifications are handled, a retry is under way when
\* the notification or the exception was taken, and nothing else is pushed while
\* jobs are executed.
SpawnerBusy == spawner # 0 => pc \in {"handle", "drain"}
RetryingBusy == retrying # 0 => pc \in {"reap", "drain"} /\ spawner = 0
RestBusy == rest # <<>> => pc = "idle" \/ spawner # 0

\* Where a package without an outcome is, and who will come to it: the main
\* thread pops it, sees its future, handles its notification or is at it.
Working == {"submitted", "running", "returning", "raised", "aborted"}
WithWorker(p) ==
  /\ pkg[p].fut \in Working /\ p \in futures
  /\ pc = "cancelling" => p \in scan
Carried(p) == \E i \in 1..Len(notifs) : Carries(i) /\ notifs[i].pkg = p
Placed ==
  \A p \in Pkgs :
    Open(p) => InQueue(p) \/ WithWorker(p) \/ Carried(p) \/ p \in {spawner, retrying}

\* What the end of the loop, and then the drain, leave behind.
LoopLeft ==
  /\ pc \in {"drain", "idle"} => futures = {}
  /\ pc = "idle" => notifs = <<>>

\* A loop that was not cancelled is left with every job settled.
DrainClean ==
  /\ pc = "cancelling" => cancelled
  /\ pc = "drain" /\ ~cancelled => \A p \in Pkgs : ~Open(p)

LedgerInv ==
  /\ SettledInv /\ OutcomeReported /\ SpawnerBusy /\ RetryingBusy /\ RestBusy
  /\ Placed /\ LoopLeft /\ DrainClean /\ PendingAccounting

-----------------------------------------------------------------------------
(* What a step does to the outcomes *)

New == Len(pkg) + 1

\* No outcome changes.
Same ==
  /\ Pkgs' = Pkgs /\ pending' = pending
  /\ \A q \in Pkgs : pkg'[q].outcome = pkg[q].outcome /\ pkg'[q].ends = pkg[q].ends

\* A package is added.
Added ==
  /\ Pkgs' = Pkgs \cup {New}
  /\ pkg'[New].outcome = "none" /\ pkg'[New].ends = 0
Pushed ==
  /\ Added /\ \A q \in Pkgs : pkg'[q] = pkg[q]
  /\ pending' = pending + 1

\* Package p, which had none, gets its outcome.
Reported(p, outcome) ==
  /\ pkg[p].ends = 0
  /\ \A q \in Pkgs : q # p => pkg'[q] = pkg[q]
  /\ pkg'[p].outcome = outcome /\ pkg'[p].ends = 1
Closed(p, outcome) ==
  /\ Reported(p, outcome) /\ Pkgs' = Pkgs
  /\ pending' = IF outcome = "cancelled" THEN pending ELSE pending - 1
Replaced(p) == Reported(p, "retried") /\ Added /\ pending' = pending

\* What is queued is cancelled.
Cleared ==
  /\ Pkgs' = Pkgs /\ pending' = pending
  /\ \A q \in Pkgs : IF InQueue(q)
                     THEN /\ pkg[q].ends = 0
                          /\ pkg'[q].outcome = "cancelled" /\ pkg'[q].ends = 1
                     ELSE pkg'[q] = pkg[q]

\* An execution goes on.
Executing == pc # "idle" /\ pc' # "idle"
\* One of these, at a moment when the ledger allows it.
Effect ==
  \/ Same /\ (pc' = "idle" => pc = "idle")
  \/ Pushed /\ pc' = pc /\ rest # <<>>
  \/ \E p \in Pkgs : /\ Executing
                     /\ \/ Replaced(p)
                        \/ \E o \in {"completed", "failed", "cancelled"} : Closed(p, o)
  \/ /\ Cleared /\ pc = "drain" /\ pc' = "idle"
     /\ spawner = 0 /\ retrying = 0 /\ notifs = <<>>

\* The package that is added is not one of those there are.
LEMMA NewOK ==
  ASSUME TypeOK
  PROVE  /\ Pkgs = 1..Len(pkg) /\ Len(pkg) \in Nat
         /\ New \in Nat /\ New \notin Pkgs /\ 1..New = Pkgs \cup {New}
<1>1. Pkgs = 1..Len(pkg) /\ Len(pkg) \in Nat
  BY PkgEntries DEF TypeOK
<1>2. \A n \in Nat : n + 1 \in Nat /\ n + 1 \notin 1..n /\ 1..(n + 1) = (1..n) \cup {n + 1}
  OBVIOUS
<1> QED
  BY <1>1, <1>2 DEF New

\* Reporting the outcome of a package changes nothing else.
LEMMA ReportedBy ==
  ASSUME TypeOK, NEW p \in Pkgs, pkg[p].ends = 0, NEW f \in Futs, NEW o \in Outcomes,
         pkg' = Ended(p, f, o)
  PROVE  Reported(p, o) /\ Pkgs' = Pkgs
<1>1. pkg \in Seq(Package)
  BY DEF TypeOK
<1>2. /\ Pkgs' = Pkgs /\ \A q \in Pkgs : q # p => pkg'[q] = pkg[q]
      /\ pkg'[p].outcome = o /\ pkg'[p].ends = pkg[p].ends + 1
  BY <1>1, EndedOK DEF Pkgs
<1> QED
  BY <1>2 DEF Reported

\* The same when the package stays where it is.
LEMMA SettledBy ==
  ASSUME TypeOK, NEW p \in Pkgs, pkg[p].ends = 0, NEW o \in Outcomes, pkg' = Settled(p, o)
  PROVE  Reported(p, o) /\ Pkgs' = Pkgs
<1>1. pkg[p].fut \in Futs
  BY PkgEntries DEF TypeOK, Package
<1> QED
  BY <1>1, ReportedBy DEF Settled

\* A package whose worker failed is replaced or has failed.
LEMMA RetryEffect ==
  ASSUME TypeOK, NEW p \in Pkgs, pkg[p].ends = 0, RetryPackage(p)
  PROVE  Replaced(p) \/ Closed(p, "failed")
<1> DEFINE job == Replacement(p)
<1> USE JobSystemAssumption
<1>1. /\ pkg \in Seq(Package) /\ pkg[p] \in Package
      /\ "retried" \in Outcomes /\ "failed" \in Outcomes
  BY PkgEntries DEF TypeOK, Outcomes
<1>2. CASE Replaceable(p)
  <2> DEFINE r == NewPackage(job, ReplacementTries(p), NoLineage)
             s == Settled(p, "retried")
  <2>1. r \in Package /\ r.outcome = "none" /\ r.ends = 0
    <3>1. pkg[p].job \in Job /\ pkg[p].tries \in 0..MaxTries
      BY <1>1 DEF Package
    <3>2. job \in Job
      BY <1>2, <3>1 DEF Replacement, Replaceable
    <3>3. ReplacementTries(p) \in 0..MaxTries
      BY <3>1 DEF ReplacementTries, MayRetry
    <3>4. NoLineage \in [JobType -> Nat]
      BY DEF NoLineage
    <3> QED
      BY <3>2, <3>3, <3>4, NewPackageOK
  <2>2. pkg' = Append(s, r) /\ pending' = pending
    BY <1>2 DEF RetryPackage
  <2>3. /\ s \in Seq(Package) /\ Len(s) = Len(pkg) /\ DOMAIN s = Pkgs
        /\ \A q \in Pkgs : q # p => s[q] = pkg[q]
        /\ s[p].outcome = "retried" /\ s[p].ends = 1
    BY <1>1, SettledOK
  <2> HIDE DEF r, s, job
  <2>4. /\ Pkgs' = 1..New
        /\ \A q \in Pkgs : pkg'[q] = s[q]
        /\ pkg'[New] = r
    BY <2>1, <2>2, <2>3, AppendOK DEF Pkgs, New
  <2> QED
    BY <2>1, <2>2, <2>3, <2>4, NewOK DEF Replaced, Reported, Added
<1>3. CASE ~Replaceable(p)
  <2>1. pkg' = Settled(p, "failed") /\ pending' = pending - 1
    BY <1>3 DEF RetryPackage
  <2> QED
    BY <1>1, <2>1, SettledBy DEF Closed
<1> QED
  BY <1>2, <1>3

\* Before that it is put off, unless the jobs were cancelled.
LEMMA ErrorEffect ==
  ASSUME TypeOK, NEW p \in Pkgs, pkg[p].ends = 0, ReturnedError(p)
  PROVE  /\ UNCHANGED <<prioQ, normQ>>
         /\ \/ Same /\ UNCHANGED pkg /\ retrying' = p
            \/ Closed(p, "failed") /\ retrying' = retrying
<1>1. CASE cancelled
  <2>1. /\ pkg' = Settled(p, "failed") /\ pending' = pending - 1
        /\ UNCHANGED <<prioQ, normQ, retrying>>
    BY <1>1 DEF ReturnedError
  <2> QED
    BY <2>1, SettledBy DEF Closed, Outcomes
<1>2. CASE ~cancelled
  BY <1>2 DEF ReturnedError, Same, Pkgs
<1> QED
  BY <1>1, <1>2

\* The phases in which jobs are pushed.
LEMMA PhaseStep ==
  ASSUME TypeOK, SpawnerBusy, RetryingBusy, RestBusy, [Next]_vars
  PROVE  SpawnerBusy' /\ RetryingBusy' /\ RestBusy'
<1>1. CASE PushJob
  BY <1>1 DEF PushJob, SpawnerBusy, RetryingBusy, RestBusy
<1>2. CASE RecordCompleted \/ EndExecution \/ Loop \/ ExecuteJobs \/ EndSubmit
  BY <1>2 DEF RecordCompleted, AfterHandled, EndExecution, Loop, ExecuteJobs, EndSubmit,
     SpawnerBusy, RetryingBusy, RestBusy
<1>3. CASE HandleCompleted
  <2>1. Head(notifs) \in [kind : Kinds, pkg : Pkgs]
    BY <1>3, HeadTailProperties DEF HandleCompleted, Handling, TypeOK
  <2>2. Front.pkg # 0
    BY <2>1, NewOK DEF Front
  <2> QED
    BY <1>3, <2>2 DEF HandleCompleted, Handling, SpawnerBusy, RetryingBusy, RestBusy
<1>4. CASE HandleStarted \/ HandleCancelled \/ HandleError \/ HandleNothing
  BY <1>4 DEF HandleStarted, HandleCancelled, HandleError, HandleNothing, Handling,
     AfterHandled, ReturnedError, SpawnerBusy, RetryingBusy, RestBusy
<1>10. CASE FinishRetry
  BY <1>10 DEF FinishRetry, SpawnerBusy, RetryingBusy, RestBusy
<1>5. CASE Submit \/ CheckClock \/ EndCancelling
  BY <1>5 DEF Submit, CheckClock, EndCancelling, SpawnerBusy, RetryingBusy, RestBusy
<1>6. ASSUME NEW p \in scan, ReapFuture(p) \/ CancelFuture(p) 
      PROVE  SpawnerBusy' /\ RetryingBusy' /\ RestBusy'
  BY <1>6 DEF ReapFuture, CancelFuture, SpawnerBusy, RetryingBusy, RestBusy
<1>7. CASE UNCHANGED <<pc, spawner, retrying, rest>>
  BY <1>7 DEF SpawnerBusy, RetryingBusy, RestBusy
<1>8. ASSUME NEW p \in Pkgs, Worker(p) \/ TrackActivity(p) PROVE UNCHANGED <<pc, spawner, retrying, rest>>
  BY <1>8 DEF Worker, StartWork, Return, NotifyCompleted, NotifyError, Raise, WaitTimedOut, ExitWork,
     TrackActivity, mainVars
<1>9. Signal \/ UNCHANGED vars => UNCHANGED <<pc, spawner, retrying, rest>>
  BY DEF Signal, vars, mainVars
<1> QED
  BY <1>1, <1>2, <1>3, <1>4, <1>5, <1>6, <1>7, <1>8, <1>9, <1>10 DEF Next, Main

\* Every step changes the outcomes in one of the ways above.
LEMMA StepEffect ==
  ASSUME SettledInv, SpawnerBusy, RetryingBusy, RestBusy, [Next]_vars
  PROVE  Effect
<1>t. /\ TypeOK /\ QueuedOnce /\ RaisedOnce /\ UnsettledBefore
      /\ SpawnerUnsettled /\ RetryingUnsettled
  BY DEF SettledInv
<1>a. /\ pkg \in Seq(Package) /\ Pkgs = 1..Len(pkg) /\ Len(pkg) \in Nat
      /\ \A p \in Pkgs : pkg[p] \in Package
      /\ scan \subseteq Pkgs /\ scan \subseteq futures
  BY <1>t, PkgEntries DEF TypeOK
<1>o. {"completed", "failed", "cancelled", "retried"} \subseteq Outcomes
  BY DEF Outcomes
<1>f. notifs # <<>> /\ notifs' = Tail(notifs) /\ Front.kind # "started" =>
        Front.pkg \in Pkgs /\ pkg[Front.pkg].ends = 0
  BY FrontOK
<1>s. UNCHANGED <<pkg, pending>> => Same
  BY DEF Same, Pkgs
<1>1. CASE PushJob
  <2>1. CASE TypeOf[Head(rest)] \notin Registered
    BY <1>1, <1>s, <2>1 DEF PushJob, Effect
  <2>2. CASE TypeOf[Head(rest)] \in Registered
    <3> DEFINE r == NewPackage(Head(rest), ChildTries(spawner), ChildLineage(spawner))
    <3>1. r.outcome = "none" /\ r.ends = 0
      BY DEF NewPackage
    <3>2. pkg' = Append(pkg, r) /\ pending' = pending + 1 /\ pc' = pc /\ rest # <<>>
      BY <1>1, <2>2 DEF PushJob
    <3> HIDE DEF r
    <3>3. Pkgs' = 1..New /\ pkg'[New] = r /\ \A q \in Pkgs : pkg'[q] = pkg[q]
      BY <1>a, <3>2, AppendProperties DEF Pkgs, New
    <3> QED
      BY <1>t, <3>1, <3>2, <3>3, NewOK DEF Effect, Pushed, Added
  <2> QED
    BY <2>1, <2>2
<1>2. CASE ExecuteJobs \/ Loop \/ EndSubmit \/ HandleNothing \/ CheckClock \/ EndCancelling
  <2>1. pc' # "idle" /\ UNCHANGED <<pkg, pending>>
    BY <1>2 DEF ExecuteJobs, Loop, EndSubmit, HandleNothing, CheckClock, EndCancelling
  <2> QED
    BY <1>s, <2>1 DEF Effect
<1>3. CASE HandleStarted \/ HandleCompleted \/ UNCHANGED vars
  <2>1. UNCHANGED <<pkg, pending, pc>>
    BY <1>3 DEF HandleStarted, HandleCompleted, vars
  <2> QED
    BY <1>s, <2>1 DEF Effect
<1>4. CASE Submit
  <2> DEFINE p == IF prioQ # <<>> THEN Head(prioQ) ELSE Head(normQ)
  <2>1. /\ HasQueued /\ pc = "submit" /\ pc' = pc
        /\ \/ pkg' = Ended(p, "dropped", "failed") /\ pending' = pending - 1
           \/ pkg' = WithFut(p, "submitted") /\ pending' = pending
    BY <1>4 DEF Submit
  <2>2. p \in Pkgs /\ pkg[p].fut = "queued"
    <3>1. CASE prioQ # <<>>
      BY <1>t, <3>1, TailOf, QueuesOK DEF TypeOK, QueuedOnce
    <3>2. CASE prioQ = <<>>
      <4>1. normQ # <<>>
        BY <2>1, <3>2 DEF HasQueued
      <4> QED
        BY <1>t, <3>2, <4>1, TailOf, QueuesOK DEF TypeOK, QueuedOnce
    <3> QED
      BY <3>1, <3>2
  <2> HIDE DEF p
  <2>3. pkg[p].ends = 0
    BY <1>t, <2>2 DEF UnsettledBefore
  <2>4. CASE pkg' = Ended(p, "dropped", "failed") /\ pending' = pending - 1
    <3>1. "dropped" \in Futs
      BY DEF Futs
    <3> QED
      BY <1>t, <1>o, <2>1, <2>2, <2>3, <2>4, <3>1, ReportedBy DEF Effect, Executing, Closed
  <2>5. CASE pkg' = WithFut(p, "submitted") /\ pending' = pending
    <3>1. "submitted" \in Futs
      BY DEF Futs
    <3>2. Same
      BY <1>a, <2>2, <2>5, <3>1, WithFutOK DEF Same, Pkgs
    <3> QED
      BY <2>1, <3>2 DEF Effect
  <2> QED
    BY <2>1, <2>4, <2>5
<1>5. CASE RecordCompleted
  <2>1. /\ spawner \in Pkgs /\ pkg[spawner].ends = 0
        /\ pkg' = Settled(spawner, "completed") /\ pending' = pending - 1
    BY <1>t, <1>5 DEF RecordCompleted, SpawnerUnsettled, TypeOK
  <2>2. Executing
    BY <1>5 DEF RecordCompleted, AfterHandled, SpawnerBusy, Executing
  <2> QED
    BY <1>t, <1>o, <2>1, <2>2, SettledBy DEF Effect, Closed
<1>6. CASE HandleCancelled
  <2>1. /\ notifs # <<>> /\ notifs' = Tail(notifs) /\ Front.kind # "started"
        /\ pkg' = Settled(Front.pkg, "cancelled") /\ pending' = pending
    BY <1>6 DEF HandleCancelled, Handling
  <2>2. Executing
    BY <1>6 DEF HandleCancelled, Handling, AfterHandled, Executing
  <2>3. PICK p \in Pkgs : p = Front.pkg /\ pkg[p].ends = 0
    BY <1>f, <2>1
  <2> QED
    BY <1>t, <1>o, <2>1, <2>2, <2>3, SettledBy DEF Effect, Closed
<1>7. CASE HandleError
  <2>1. /\ notifs # <<>> /\ notifs' = Tail(notifs) /\ Front.kind # "started"
        /\ ReturnedError(Front.pkg)
    BY <1>7 DEF HandleError, Handling
  <2>2. Executing
    BY <1>7 DEF HandleError, Handling, AfterHandled, Executing
  <2>3. PICK p \in Pkgs : p = Front.pkg /\ pkg[p].ends = 0
    BY <1>f, <2>1
  <2>4. Same \/ Closed(p, "failed")
    <3>1. ReturnedError(p)
      BY <2>1, <2>3
    <3> QED
      BY <1>t, <2>3, <3>1, ErrorEffect
  <2> QED
    BY <2>2, <2>3, <2>4 DEF Effect, Executing
<1>13. CASE FinishRetry
  <2>1. /\ retrying \in Pkgs /\ pkg[retrying].ends = 0 /\ RetryPackage(retrying)
        /\ Executing
    BY <1>t, <1>13 DEF FinishRetry, RetryingUnsettled, RetryingBusy, Executing, TypeOK
  <2>2. PICK p \in Pkgs : p = retrying
    BY <2>1
  <2>3. Replaced(p) \/ Closed(p, "failed")
    BY <1>t, <2>1, <2>2, RetryEffect
  <2> QED
    BY <2>1, <2>3 DEF Effect
<1>8. ASSUME NEW p \in scan, ReapFuture(p) PROVE Effect
  <2>1. p \in Pkgs /\ p \in futures /\ pc = "reap" /\ pc' = pc
    BY <1>a, <1>8 DEF ReapFuture
  <2>2. pkg[p].fut \in {"raised", "aborted"} => pkg[p].ends = 0
    BY <1>t, <2>1 DEF RaisedOnce
  <2>3. CASE pkg[p].fut = "raised" /\ ReturnedError(p)
    <3>1. Same \/ Closed(p, "failed")
      BY <1>t, <2>1, <2>2, <2>3, ErrorEffect
    <3> QED
      BY <2>1, <3>1 DEF Effect, Executing
  <2>4. CASE pkg[p].fut = "aborted" /\ pkg' = Settled(p, "failed") /\ pending' = pending - 1
    BY <1>t, <1>o, <2>1, <2>2, <2>4, SettledBy DEF Effect, Executing, Closed
  <2>5. CASE UNCHANGED <<pkg, pending>>
    BY <1>s, <2>1, <2>5 DEF Effect
  <2> QED
    BY <1>8, <2>3, <2>4, <2>5 DEF ReapFuture
<1>9. ASSUME NEW p \in scan, CancelFuture(p) PROVE Effect
  <2>1. p \in Pkgs /\ p \in futures /\ pc = "cancelling" /\ pc' = pc
    BY <1>a, <1>9 DEF CancelFuture
  <2>2. pkg[p].fut \in {"raised", "aborted", "submitted"} => pkg[p].ends = 0
    BY <1>t, <1>9, <2>1 DEF RaisedOnce, UnsettledBefore
  <2>3. CASE /\ pkg[p].fut = "submitted" /\ pkg' = Ended(p, "dropped", "cancelled")
             /\ pending' = pending
    <3>1. "dropped" \in Futs
      BY DEF Futs
    <3> QED
      BY <1>t, <1>o, <2>1, <2>2, <2>3, <3>1, ReportedBy DEF Effect, Executing, Closed
  <2>4. CASE /\ pkg[p].fut \in {"raised", "aborted"} /\ pkg' = Settled(p, "failed")
             /\ pending' = pending - 1
    BY <1>t, <1>o, <2>1, <2>2, <2>4, SettledBy DEF Effect, Executing, Closed
  <2>5. CASE UNCHANGED <<pkg, pending>>
    BY <1>s, <2>1, <2>5 DEF Effect
  <2> QED
    BY <1>9, <2>3, <2>4, <2>5 DEF CancelFuture
<1>10. CASE EndExecution
  <2>1. /\ pc = "drain" /\ pc' = "idle" /\ spawner = 0 /\ retrying = 0 /\ notifs = <<>>
        /\ pending' = pending
        /\ pkg' = [p \in Pkgs |->
                     IF InQueue(p)
                     THEN [pkg[p] EXCEPT !.fut = "dropped", !.outcome = "cancelled",
                                         !.ends = @ + 1]
                     ELSE pkg[p]]
    BY <1>10 DEF EndExecution
  <2>2. \A p \in Pkgs : InQueue(p) => pkg[p].ends = 0
    BY <1>t DEF InQueue, QueuedOnce, UnsettledBefore
  <2>3. Pkgs' = Pkgs
    BY <2>1 DEF Pkgs
  <2>4. ASSUME NEW q \in Pkgs
        PROVE  IF InQueue(q)
               THEN /\ pkg[q].ends = 0
                    /\ pkg'[q].outcome = "cancelled" /\ pkg'[q].ends = 1
               ELSE pkg'[q] = pkg[q]
    <3>1. CASE InQueue(q)
      <4>1. pkg'[q] = [pkg[q] EXCEPT !.fut = "dropped", !.outcome = "cancelled",
                                     !.ends = @ + 1]
        BY <2>1, <3>1
      <4> QED
        BY <1>a, <2>2, <3>1, <4>1 DEF Package
    <3>2. CASE ~InQueue(q)
      BY <2>1, <3>2
    <3> QED
      BY <3>1, <3>2
  <2> QED
    BY <2>1, <2>3, <2>4 DEF Effect, Cleared
<1>11. ASSUME NEW p \in Pkgs, Worker(p) PROVE Effect
  <2>1. pc' = pc /\ pending' = pending
    BY <1>11 DEF Worker, StartWork, Return, NotifyCompleted, NotifyError, Raise, WaitTimedOut, ExitWork, mainVars
  <2>2. CASE Return(p)
    <3>1. PICK jobs : pkg' = [pkg EXCEPT ![p].fut = "returning", ![p].next = jobs]
      BY <2>2 DEF Return
    <3> DEFINE r == [pkg[p] EXCEPT !.fut = "returning", !.next = jobs]
    <3>2. r.outcome = pkg[p].outcome /\ r.ends = pkg[p].ends
      BY <1>a DEF Package
    <3>3. pkg' = [pkg EXCEPT ![p] = r]
      BY <1>a, <3>1
    <3> HIDE DEF r
    <3>4. Same
      BY <2>1, <3>2, <3>3 DEF Same, Pkgs
    <3> QED
      BY <2>1, <3>4 DEF Effect
  <2>3. CASE ~Return(p)
    <3>1. \E f \in Futs : pkg' = WithFut(p, f)
      BY <1>11, <2>3 DEF Worker, StartWork, NotifyCompleted, NotifyError, Raise, WaitTimedOut, ExitWork, Futs
    <3>2. Same
      BY <1>a, <2>1, <3>1, WithFutOK DEF Same, Pkgs
    <3> QED
      BY <2>1, <3>2 DEF Effect
  <2> QED
    BY <2>2, <2>3
<1>12. CASE Signal \/ \E p \in Pkgs : TrackActivity(p)
  <2>1. UNCHANGED <<pkg, pending, pc>>
    BY <1>12 DEF Signal, TrackActivity, mainVars
  <2> QED
    BY <1>s, <2>1 DEF Effect
<1> QED
  BY <1>1, <1>2, <1>3, <1>4, <1>5, <1>6, <1>7, <1>8, <1>9, <1>10, <1>11, <1>12,
     <1>13 DEF Next, Main

-----------------------------------------------------------------------------
(* Outcomes *)

\* The effects keep reports and outcomes together.
LEMMA ReportedStep ==
  ASSUME TypeOK, OutcomeReported, Effect
  PROVE  OutcomeReported'
<1>1. CASE Same
  BY <1>1 DEF Same, OutcomeReported, Open
<1>2. CASE Pushed
  BY <1>2 DEF Pushed, Added, OutcomeReported, Open
<1>3. ASSUME NEW p \in Pkgs, Replaced(p) PROVE OutcomeReported'
  BY <1>3 DEF Replaced, Reported, Added, OutcomeReported, Open
<1>4. ASSUME NEW p \in Pkgs, NEW o \in {"completed", "failed", "cancelled"}, Closed(p, o)
      PROVE  OutcomeReported'
  BY <1>4 DEF Closed, Reported, OutcomeReported, Open
<1>5. CASE Cleared
  BY <1>5 DEF Cleared, OutcomeReported, Open
<1> QED
  BY <1>1, <1>2, <1>3, <1>4, <1>5 DEF Effect

\* The packages pending counts: the open ones, and those that were cancelled.
Counted == {p \in Pkgs : pkg[p].outcome \in {"none", "cancelled"}}

\* There are finitely many of them.
LEMMA CountedFinite ==
  ASSUME TypeOK
  PROVE  IsFiniteSet(Counted) /\ Cardinality(Counted) \in Nat
<1>1. IsFiniteSet(Pkgs)
  BY NewOK, FS_Interval
<1>2. Counted \in SUBSET Pkgs
  BY DEF Counted
<1>3. IsFiniteSet(Counted)
  BY <1>1, <1>2, FS_Subset
<1> QED
  BY <1>3, FS_CardinalityType

\* Each effect changes the amount of pending jobs as it changes that set.
LEMMA PendingStep ==
  ASSUME TypeOK, OutcomeReported, PendingAccounting, Effect
  PROVE  PendingAccounting'
<1> DEFINE C == Counted
<1>1. /\ IsFiniteSet(C) /\ Cardinality(C) \in Nat
      /\ pending = Cardinality(C) /\ New \notin Pkgs /\ C \subseteq Pkgs
  BY CountedFinite, NewOK DEF PendingAccounting, Counted
<1>2. SUFFICES pending' = Cardinality(C')
  BY DEF PendingAccounting, Counted
<1>3. CASE Same
  <2>1. C' = C /\ pending' = pending
    BY <1>3 DEF Same, Counted
  <2> QED
    BY <1>1, <2>1
<1>4. CASE Pushed
  <2>1. C' = C \cup {New} /\ pending' = pending + 1
    BY <1>1, <1>4 DEF Pushed, Added, Counted
  <2> HIDE DEF C
  <2>2. Cardinality(C \cup {New}) = Cardinality(C) + 1
    BY <1>1, FS_AddElement
  <2> QED
    BY <1>1, <2>1, <2>2
<1>5. ASSUME NEW p \in Pkgs, Replaced(p) PROVE pending' = Cardinality(C')
  <2>1. p \in C
    BY <1>5 DEF Replaced, Reported, OutcomeReported, Open, Counted
  <2>2. C' = (C \ {p}) \cup {New} /\ pending' = pending
    BY <1>1, <1>5 DEF Replaced, Reported, Added, Counted
  <2> HIDE DEF C
  <2>3. IsFiniteSet(C \ {p}) /\ Cardinality(C \ {p}) = Cardinality(C) - 1
    BY <1>1, <2>1, FS_RemoveElement
  <2>4. Cardinality((C \ {p}) \cup {New}) = Cardinality(C \ {p}) + 1
    BY <1>1, <2>3, FS_AddElement
  <2> QED
    BY <1>1, <2>2, <2>3, <2>4
<1>6. ASSUME NEW p \in Pkgs, NEW o \in {"completed", "failed", "cancelled"}, Closed(p, o)
      PROVE  pending' = Cardinality(C')
  <2>1. p \in C
    BY <1>6 DEF Closed, Reported, OutcomeReported, Open, Counted
  <2>2. CASE o = "cancelled"
    <3>1. C' = C /\ pending' = pending
      BY <1>6, <2>1, <2>2 DEF Closed, Reported, Counted
    <3> QED
      BY <1>1, <3>1
  <2>3. CASE o # "cancelled"
    <3>1. C' = C \ {p} /\ pending' = pending - 1
      BY <1>6, <2>3 DEF Closed, Reported, Counted
    <3> HIDE DEF C
    <3>2. Cardinality(C \ {p}) = Cardinality(C) - 1
      BY <1>1, <2>1, FS_RemoveElement
    <3> QED
      BY <1>1, <3>1, <3>2
  <2> QED
    BY <2>2, <2>3
<1>7. CASE Cleared
  <2>1. C' = C /\ pending' = pending
    BY <1>7 DEF Cleared, OutcomeReported, Open, Counted
  <2> QED
    BY <1>1, <2>1
<1> QED
  BY <1>3, <1>4, <1>5, <1>6, <1>7 DEF Effect

\* When nothing is pending every package has its outcome.
LEMMA NothingPending ==
  ASSUME TypeOK, PendingAccounting, pending = 0
  PROVE  \A p \in Pkgs : ~Open(p)
<1>1. Counted = {}
  <2>1. Cardinality(Counted) = 0
    BY DEF PendingAccounting, Counted
  <2> QED
    BY <2>1, CountedFinite, FS_EmptySet
<1> QED
  BY <1>1 DEF Counted, Open

-----------------------------------------------------------------------------
(* Where the open packages are *)

\* A package that is put into a queue is there, and the others stay.
LEMMA QueueGrows ==
  ASSUME TypeOK, NEW n, NEW job, Enqueue(n, job)
  PROVE  InQueue(n)' /\ \A q : InQueue(q) => InQueue(q)'
<1>1. CASE prioQ' = Append(prioQ, n) /\ normQ' = normQ
  <2>1. prioQ \in Seq(Pkgs \cup {n})
    BY SeqMonotonic DEF TypeOK
  <2>2. /\ Len(prioQ) \in Nat /\ Len(prioQ') = Len(prioQ) + 1
        /\ \A i \in 1..Len(prioQ) : prioQ'[i] = prioQ[i]
        /\ prioQ'[Len(prioQ) + 1] = n
    BY <1>1, <2>1, AppendProperties, LenProperties
  <2>3. Len(prioQ) + 1 \in 1..Len(prioQ') /\ 1..Len(prioQ) \subseteq 1..Len(prioQ')
    BY <2>2
  <2> QED
    BY <1>1, <2>2, <2>3 DEF InQueue
<1>2. CASE normQ' = Append(normQ, n) /\ prioQ' = prioQ
  <2>1. normQ \in Seq(Pkgs \cup {n})
    BY SeqMonotonic DEF TypeOK
  <2>2. /\ Len(normQ) \in Nat /\ Len(normQ') = Len(normQ) + 1
        /\ \A i \in 1..Len(normQ) : normQ'[i] = normQ[i]
        /\ normQ'[Len(normQ) + 1] = n
    BY <1>2, <2>1, AppendProperties, LenProperties
  <2>3. Len(normQ) + 1 \in 1..Len(normQ') /\ 1..Len(normQ) \subseteq 1..Len(normQ')
    BY <2>2
  <2> QED
    BY <1>2, <2>2, <2>3 DEF InQueue
<1> QED
  BY <1>1, <1>2 DEF Enqueue

\* An element that is not the first one is behind it.
LEMMA BehindHead ==
  ASSUME NEW S, NEW s \in Seq(S), s # <<>>, NEW i \in 1..Len(s), i # 1
  PROVE  \E j \in 1..Len(Tail(s)) : Tail(s)[j] = s[i]
<1>1. /\ Len(s) \in Nat \ {0} /\ Len(Tail(s)) = Len(s) - 1
      /\ \A j \in 1..Len(Tail(s)) : Tail(s)[j] = s[j + 1]
  BY TailOf
<1>2. i - 1 \in 1..Len(Tail(s)) /\ (i - 1) + 1 = i
  BY <1>1
<1> QED
  BY <1>1, <1>2

\* Popping a queue leaves the other packages queued.
LEMMA QueueShrinks ==
  ASSUME TypeOK, HasQueued, NEW p,
         p = IF prioQ # <<>> THEN Head(prioQ) ELSE Head(normQ),
         IF prioQ # <<>> THEN prioQ' = Tail(prioQ) /\ normQ' = normQ
                         ELSE normQ' = Tail(normQ) /\ prioQ' = prioQ
  PROVE  \A q : InQueue(q) /\ q # p => InQueue(q)'
<1> SUFFICES ASSUME NEW q, InQueue(q), q # p PROVE InQueue(q)'
  OBVIOUS
<1>1. CASE prioQ # <<>>
  <2>1. prioQ[1] = p
    BY <1>1, TailOf DEF TypeOK
  <2>2. ASSUME NEW i \in 1..Len(prioQ), prioQ[i] = q
        PROVE  \E j \in 1..Len(prioQ') : prioQ'[j] = q
    <3>1. prioQ \in Seq(Pkgs) /\ prioQ # <<>> /\ i # 1
      BY <1>1, <2>1, <2>2 DEF TypeOK
    <3>2. \E j \in 1..Len(Tail(prioQ)) : Tail(prioQ)[j] = prioQ[i]
      BY <3>1, BehindHead
    <3> QED
      BY <1>1, <2>2, <3>2
  <2> QED
    BY <1>1, <2>2 DEF InQueue
<1>2. CASE prioQ = <<>>
  <2>1. normQ # <<>> /\ normQ[1] = p
    BY <1>2, TailOf DEF TypeOK, HasQueued
  <2>2. ASSUME NEW i \in 1..Len(normQ), normQ[i] = q
        PROVE  \E j \in 1..Len(normQ') : normQ'[j] = q
    <3>1. normQ \in Seq(Pkgs) /\ normQ # <<>> /\ i # 1
      BY <1>2, <2>1, <2>2 DEF TypeOK
    <3>2. \E j \in 1..Len(Tail(normQ)) : Tail(normQ)[j] = normQ[i]
      BY <3>1, BehindHead
    <3> QED
      BY <1>2, <2>2, <3>2
  <2> QED
    BY <1>2, <2>2 DEF InQueue
<1> QED
  BY <1>1, <1>2

\* Handling the first notification leaves the other outcomes to be handled.
LEMMA FrontTaken ==
  ASSUME TypeOK, notifs # <<>>, notifs' = Tail(notifs)
  PROVE  \A q : Carried(q) /\ (Front.kind = "started" \/ q # Front.pkg) => Carried(q)'
<1> SUFFICES ASSUME NEW q, NEW i \in 1..Len(notifs), notifs[i].kind # "started",
                    notifs[i].pkg = q, Front.kind = "started" \/ q # Front.pkg
             PROVE  \E j \in 1..Len(notifs') :
                      notifs'[j].kind # "started" /\ notifs'[j].pkg = q
  BY DEF Carried, Carries
<1>1. notifs[1] = Front
  BY TailOf DEF TypeOK, Front
<1>2. i # 1
  BY <1>1
<1>3. \E j \in 1..Len(notifs') : notifs'[j] = notifs[i]
  BY <1>2, BehindHead DEF TypeOK
<1> QED
  BY <1>3

\* A notification is added behind the others.
LEMMA NotifyCarries ==
  ASSUME TypeOK, NEW kind \in Kinds, NEW p \in Pkgs, Notify(kind, p)
  PROVE  /\ \A q : Carried(q) => Carried(q)'
         /\ kind # "started" => Carried(p)'
<1>1. /\ Len(notifs) \in Nat /\ Len(notifs') = Len(notifs) + 1
      /\ \A i \in 1..Len(notifs) : notifs'[i] = notifs[i]
      /\ notifs'[Len(notifs) + 1] = [kind |-> kind, pkg |-> p]
  BY NotifyOK DEF TypeOK
<1>2. Len(notifs) + 1 \in 1..Len(notifs') /\ 1..Len(notifs) \subseteq 1..Len(notifs')
  BY <1>1
<1> QED
  BY <1>1, <1>2 DEF Carried, Carries

\* A step that concerns package p only, or none, and takes nothing away from
\* the others keeps every open package where somebody will come to it.
LEMMA PlacedKept ==
  ASSUME Placed, NEW p,
         \A q \in Pkgs : q # p => pkg'[q] = pkg[q],
         \A q \in Pkgs' : q \in Pkgs \/ q = p \/ InQueue(q)',
         \A q : q # p /\ InQueue(q) => InQueue(q)',
         \A q : q # p /\ Carried(q) => Carried(q)',
         \A q : q # p /\ q \in futures => q \in futures',
         \A q : q # p /\ q = spawner => q = spawner' \/ q = 0,
         \A q : q # p /\ q = retrying => q = retrying' \/ q = 0,
         0 \notin Pkgs,
         pc' = "cancelling" =>
           scan' = futures' \/ (pc = "cancelling" /\ \A q \in scan : q # p => q \in scan'),
         p \in Pkgs' /\ Open(p)' =>
           InQueue(p)' \/ WithWorker(p)' \/ Carried(p)' \/ p \in {spawner', retrying'}
  PROVE  Placed'
<1> SUFFICES ASSUME NEW q \in Pkgs', Open(q)', q # p, ~InQueue(q)'
             PROVE  WithWorker(q)' \/ Carried(q)' \/ q \in {spawner', retrying'}
  BY DEF Placed
<1>1. q \in Pkgs /\ pkg'[q] = pkg[q] /\ ~InQueue(q)
  OBVIOUS
<1>2. WithWorker(q) \/ Carried(q) \/ q \in {spawner, retrying}
  BY <1>1 DEF Placed, Open
<1>3. WithWorker(q) => WithWorker(q)'
  BY <1>1 DEF WithWorker
<1> QED
  BY <1>1, <1>2, <1>3

\* The replacement of a failed package is queued, and nothing else moves.
LEMMA RetryPlaced ==
  ASSUME TypeOK, NEW p \in Pkgs, pkg[p].ends = 0, RetryPackage(p)
  PROVE  /\ \A q \in Pkgs : q # p => pkg'[q] = pkg[q]
         /\ ~Open(p)'
         /\ \A q \in Pkgs' : q \in Pkgs \/ InQueue(q)'
         /\ \A q : InQueue(q) => InQueue(q)'
<1>1. Replaced(p) \/ Closed(p, "failed")
  BY RetryEffect
<1>2. (\A q \in Pkgs : q # p => pkg'[q] = pkg[q]) /\ ~Open(p)' /\ Pkgs' \subseteq Pkgs \cup {New}
  BY <1>1 DEF Replaced, Closed, Reported, Added, Open
<1>3. CASE Enqueue(New, Replacement(p))
  BY <1>2, <1>3, QueueGrows
<1>4. CASE pkg' = Settled(p, "failed") /\ UNCHANGED <<prioQ, normQ>>
  <2>1. Pkgs' = Pkgs
    BY <1>4, SettledBy DEF Outcomes
  <2> QED
    BY <1>2, <1>4, <2>1 DEF InQueue
<1> QED
  BY <1>3, <1>4 DEF RetryPackage, New

\* Every step keeps the open packages placed.
LEMMA PlacedStep ==
  ASSUME SettledInv, SpawnerBusy, RetryingBusy, OutcomeReported, Placed, [Next]_vars
  PROVE  Placed'
<1>t. /\ TypeOK /\ QueuedOnce /\ RaisedOnce /\ UnsettledBefore
      /\ SpawnerUnsettled /\ RetryingUnsettled
  BY DEF SettledInv
<1>a. /\ pkg \in Seq(Package) /\ Pkgs = 1..Len(pkg) /\ Len(pkg) \in Nat /\ 0 \notin Pkgs
      /\ scan \subseteq Pkgs /\ scan \subseteq futures
  BY <1>t, PkgEntries DEF TypeOK
<1>b. notifs # <<>> => /\ Front.pkg \in Pkgs
                       /\ \A kind \in {"completed", "cancelled", "error"} :
                            Front.kind = kind /\ notifs' = Tail(notifs) => pkg[Front.pkg].ends = 0
  <2> SUFFICES ASSUME notifs # <<>>
               PROVE  /\ Front.pkg \in Pkgs
                      /\ Front.kind # "started" /\ notifs' = Tail(notifs)
                           => pkg[Front.pkg].ends = 0
    OBVIOUS
  <2>1. Head(notifs) \in [kind : Kinds, pkg : Pkgs]
    BY <1>t, HeadTailProperties DEF TypeOK
  <2> QED
    BY <2>1, FrontOK DEF Front
<1>w. \A p \in Pkgs : pkg[p].fut \in Working \ {"raised"} =>
        ~InQueue(p) /\ ~Carried(p) /\ p \notin {spawner, retrying}
  BY <1>a DEF SettledInv, QueuedOnce, InQueue, CarriedOnce, Carried, SpawnerUnsettled,
     RetryingUnsettled, Working
<1>s. UNCHANGED pkg => /\ Pkgs' = Pkgs /\ \A q \in Pkgs : pkg'[q] = pkg[q]
  BY DEF Pkgs
<1>q. UNCHANGED <<prioQ, normQ>> => \A q : InQueue(q) => InQueue(q)'
  BY DEF InQueue
<1>n. UNCHANGED notifs => \A q : Carried(q) => Carried(q)'
  BY DEF Carried, Carries
<1>0. ASSUME UNCHANGED <<pkg, prioQ, normQ, notifs, futures, spawner, retrying>>,
             pc' = "cancelling" => scan' = futures' \/ (pc = "cancelling" /\ scan' = scan)
      PROVE  Placed'
  BY <1>0, <1>a, <1>s, <1>q, <1>n, PlacedKept
<1>1. CASE PushJob
  <2>1. CASE TypeOf[Head(rest)] \notin Registered
    BY <1>0, <1>1, <2>1 DEF PushJob
  <2>2. CASE TypeOf[Head(rest)] \in Registered
    <3> DEFINE r == NewPackage(Head(rest), ChildTries(spawner), ChildLineage(spawner))
    <3>1. /\ pkg' = Append(pkg, r) /\ Enqueue(New, Head(rest))
          /\ UNCHANGED <<pc, futures, scan, notifs, spawner, retrying>>
      BY <1>1, <2>2 DEF PushJob, New
    <3> HIDE DEF r
    <3>2. Pkgs' = 1..New /\ \A q \in Pkgs : pkg'[q] = pkg[q]
      BY <1>a, <3>1, AppendProperties DEF Pkgs, New
    <3>3. \A q : q = New \/ InQueue(q) => InQueue(q)'
      BY <1>t, <3>1, QueueGrows
    <3>4. \A q \in Pkgs' : q \in Pkgs \/ InQueue(q)'
      BY <1>t, <3>2, <3>3, NewOK
    <3>5. 0 \notin Pkgs'
      BY <3>2
    <3> QED
      BY <1>a, <1>n, <3>1, <3>2, <3>3, <3>4, <3>5, PlacedKept
  <2> QED
    BY <2>1, <2>2
<1>2. CASE ExecuteJobs \/ Loop \/ EndSubmit \/ HandleNothing \/ CheckClock \/ UNCHANGED vars
  BY <1>0, <1>2 DEF ExecuteJobs, Loop, EndSubmit, HandleNothing, CheckClock, vars
<1>3. CASE EndCancelling
  <2>1. /\ pc = "cancelling" /\ scan = {}
        /\ UNCHANGED <<pkg, prioQ, normQ, notifs, spawner, retrying>>
    BY <1>3 DEF EndCancelling
  <2>2. \A q : ~WithWorker(q)
    BY <2>1 DEF WithWorker
  <2> QED
    BY <1>s, <1>q, <1>n, <2>1, <2>2 DEF Placed, Open
<1>4. CASE HandleStarted
  <2>1. /\ notifs # <<>> /\ notifs' = Tail(notifs) /\ Front.kind = "started"
        /\ UNCHANGED <<pkg, prioQ, normQ, futures, scan, pc, spawner, retrying>>
    BY <1>4 DEF HandleStarted, Handling
  <2>2. \A q : Carried(q) => Carried(q)'
    BY <1>t, <2>1, FrontTaken
  <2> QED
    BY <1>a, <1>s, <1>q, <2>1, <2>2, PlacedKept
<1>5. CASE HandleCompleted
  <2>1. /\ notifs # <<>> /\ notifs' = Tail(notifs) /\ spawner = 0 /\ spawner' = Front.pkg
        /\ UNCHANGED <<pkg, prioQ, normQ, futures, scan, pc, retrying>>
    BY <1>5 DEF HandleCompleted, Handling
  <2>2. PICK p \in Pkgs : p = Front.pkg
    BY <1>b, <2>1
  <2>3. \A q : q # p /\ Carried(q) => Carried(q)'
    BY <1>t, <2>1, <2>2, FrontTaken
  <2> QED
    BY <1>a, <1>s, <1>q, <2>1, <2>2, <2>3, PlacedKept
<1>6. CASE RecordCompleted
  <2>1. /\ spawner \in Pkgs /\ pkg[spawner].ends = 0 /\ spawner' = 0
        /\ pkg' = Settled(spawner, "completed")
        /\ UNCHANGED <<prioQ, normQ, futures, notifs, retrying>> /\ pc' # "cancelling"
    BY <1>t, <1>6 DEF RecordCompleted, SpawnerUnsettled, TypeOK, AfterHandled, SpawnerBusy
  <2>2. PICK p \in Pkgs : p = spawner
    BY <2>1
  <2>3. Reported(p, "completed") /\ Pkgs' = Pkgs
    BY <1>t, <2>1, <2>2, SettledBy DEF Outcomes
  <2> QED
    BY <1>a, <1>q, <1>n, <2>1, <2>2, <2>3, PlacedKept DEF Reported, Open
<1>7. CASE HandleCancelled
  <2>1. /\ notifs # <<>> /\ notifs' = Tail(notifs) /\ Front.kind = "cancelled"
        /\ pkg' = Settled(Front.pkg, "cancelled")
        /\ UNCHANGED <<prioQ, normQ, futures, spawner, retrying>> /\ pc' # "cancelling"
    BY <1>7 DEF HandleCancelled, Handling, AfterHandled
  <2>2. PICK p \in Pkgs : p = Front.pkg /\ pkg[p].ends = 0
    BY <1>b, <2>1
  <2>3. Reported(p, "cancelled") /\ Pkgs' = Pkgs
    BY <1>t, <2>1, <2>2, SettledBy DEF Outcomes
  <2>4. \A q : q # p /\ Carried(q) => Carried(q)'
    BY <1>t, <2>1, <2>2, FrontTaken
  <2> QED
    BY <1>a, <1>q, <2>1, <2>2, <2>3, <2>4, PlacedKept DEF Reported, Open
<1>8. CASE HandleError
  <2>1. /\ notifs # <<>> /\ notifs' = Tail(notifs) /\ Front.kind = "error"
        /\ ReturnedError(Front.pkg)
        /\ UNCHANGED <<futures, spawner>> /\ retrying = 0 /\ pc' # "cancelling"
    BY <1>8 DEF HandleError, Handling, AfterHandled
  <2>2. PICK p \in Pkgs : p = Front.pkg /\ pkg[p].ends = 0
    BY <1>b, <2>1
  <2>3. ReturnedError(p)
    BY <2>1, <2>2
  <2>4. \A q : q # p /\ Carried(q) => Carried(q)'
    BY <1>t, <2>1, <2>2, FrontTaken
  <2>5. /\ UNCHANGED <<prioQ, normQ>>
        /\ (UNCHANGED pkg /\ retrying' = p) \/ Closed(p, "failed")
    BY <1>t, <2>2, <2>3, ErrorEffect
  <2>6. CASE UNCHANGED pkg /\ retrying' = p
    BY <1>a, <1>s, <1>q, <2>1, <2>4, <2>5, <2>6, PlacedKept
  <2>7. CASE Closed(p, "failed")
    BY <1>a, <1>q, <2>1, <2>4, <2>5, <2>7, PlacedKept DEF Closed, Reported, Open
  <2> QED
    BY <2>5, <2>6, <2>7
<1>16. CASE FinishRetry
  <2>1. /\ retrying \in Pkgs /\ pkg[retrying].ends = 0 /\ RetryPackage(retrying)
        /\ UNCHANGED <<futures, scan, notifs, pc, spawner>> /\ pc # "cancelling"
    BY <1>t, <1>16 DEF FinishRetry, RetryingUnsettled, RetryingBusy, TypeOK
  <2>2. PICK p \in Pkgs : p = retrying
    BY <2>1
  <2>3. /\ \A q \in Pkgs : q # p => pkg'[q] = pkg[q]
        /\ ~Open(p)'
        /\ \A q \in Pkgs' : q \in Pkgs \/ InQueue(q)'
        /\ \A q : InQueue(q) => InQueue(q)'
    BY <1>t, <2>1, <2>2, RetryPlaced
  <2> QED
    BY <1>a, <1>n, <2>1, <2>2, <2>3, PlacedKept
<1>9. ASSUME NEW p \in scan, ReapFuture(p) PROVE Placed'
  <2>1. /\ p \in Pkgs /\ p \in futures /\ pc = "reap" /\ retrying = 0
        /\ UNCHANGED <<notifs, pc, spawner>> /\ \A q : q # p /\ q \in futures => q \in futures'
    BY <1>a, <1>9 DEF ReapFuture
  <2>2. pkg[p].fut \in {"raised", "aborted"} => pkg[p].ends = 0
    BY <1>t, <2>1 DEF RaisedOnce
  <2>3. CASE pkg[p].fut = "raised" /\ ReturnedError(p)
    <3>1. /\ UNCHANGED <<prioQ, normQ>>
          /\ (UNCHANGED pkg /\ retrying' = p) \/ Closed(p, "failed")
      BY <1>t, <2>1, <2>2, <2>3, ErrorEffect
    <3>2. CASE UNCHANGED pkg /\ retrying' = p
      BY <1>a, <1>s, <1>q, <1>n, <2>1, <3>1, <3>2, PlacedKept
    <3>3. CASE Closed(p, "failed")
      BY <1>a, <1>q, <1>n, <2>1, <3>1, <3>3, PlacedKept DEF Closed, Reported, Open
    <3> QED
      BY <3>1, <3>2, <3>3
  <2>4. CASE pkg[p].fut = "aborted" /\ pkg' = Settled(p, "failed") /\ UNCHANGED <<prioQ, normQ>>
    <3>1. Reported(p, "failed") /\ Pkgs' = Pkgs
      BY <1>t, <2>1, <2>2, <2>4, SettledBy DEF Outcomes
    <3> QED
      BY <1>a, <1>q, <1>n, <2>1, <2>4, <3>1, PlacedKept DEF Reported, Open
  <2>5. CASE pkg[p].fut = "done" /\ UNCHANGED <<pkg, prioQ, normQ>>
    <3>1. ~WithWorker(p) /\ \A q : InQueue(q)' <=> InQueue(q)
      BY <2>5 DEF WithWorker, Working, InQueue
    <3>2. Open(p) => InQueue(p)' \/ Carried(p)' \/ p = spawner'
      BY <1>a, <1>n, <2>1, <2>5, <3>1 DEF Placed
    <3> QED
      BY <1>a, <1>s, <1>q, <1>n, <2>1, <2>5, <3>2, PlacedKept DEF Open
  <2>6. CASE UNCHANGED <<pkg, prioQ, normQ, futures, retrying>>
    BY <1>0, <2>1, <2>6
  <2> QED
    BY <1>9, <2>3, <2>4, <2>5, <2>6 DEF ReapFuture
<1>10. ASSUME NEW p \in scan, CancelFuture(p) PROVE Placed'
  <2>1. /\ p \in Pkgs /\ p \in futures /\ pc = "cancelling"
        /\ UNCHANGED <<prioQ, normQ, futures, notifs, pc, spawner, retrying>> /\ scan' = scan \ {p}
    BY <1>a, <1>10 DEF CancelFuture
  <2>2. pkg[p].fut \in {"raised", "aborted", "submitted"} => pkg[p].ends = 0
    BY <1>t, <1>10, <2>1 DEF RaisedOnce, UnsettledBefore
  <2>3. CASE pkg[p].fut = "submitted" /\ pkg' = Ended(p, "dropped", "cancelled")
    <3>1. Reported(p, "cancelled") /\ Pkgs' = Pkgs
      BY <1>t, <2>1, <2>2, <2>3, ReportedBy DEF Outcomes, Futs
    <3> QED
      BY <1>a, <1>q, <1>n, <2>1, <3>1, PlacedKept DEF Reported, Open
  <2>4. CASE pkg[p].fut \in {"raised", "aborted"} /\ pkg' = Settled(p, "failed")
    <3>1. Reported(p, "failed") /\ Pkgs' = Pkgs
      BY <1>t, <2>1, <2>2, <2>4, SettledBy DEF Outcomes
    <3> QED
      BY <1>a, <1>q, <1>n, <2>1, <3>1, PlacedKept DEF Reported, Open
  <2>5. CASE pkg[p].fut = "done" /\ UNCHANGED pkg
    <3>1. ~WithWorker(p)
      BY <2>5 DEF WithWorker, Working
    <3>2. Open(p) => InQueue(p)' \/ Carried(p)' \/ p \in {spawner', retrying'}
      BY <1>q, <1>n, <2>1, <3>1 DEF Placed
    <3> QED
      BY <1>a, <1>s, <1>q, <1>n, <2>1, <2>5, <3>2, PlacedKept DEF Open
  <2> QED
    BY <1>10, <2>3, <2>4, <2>5 DEF CancelFuture
<1>11. CASE EndExecution
  <2>1. /\ pc = "drain" /\ pc' = "idle" /\ spawner = 0 /\ retrying = 0 /\ notifs = <<>>
        /\ UNCHANGED <<futures, scan, notifs, spawner>>
        /\ pkg' = [p \in Pkgs |->
                     IF InQueue(p)
                     THEN [pkg[p] EXCEPT !.fut = "dropped", !.outcome = "cancelled",
                                         !.ends = @ + 1]
                     ELSE pkg[p]]
    BY <1>11 DEF EndExecution
  <2> SUFFICES ASSUME NEW q \in Pkgs', Open(q)' PROVE WithWorker(q)'
    BY DEF Placed
  <2>2. q \in Pkgs /\ ~InQueue(q) /\ pkg'[q] = pkg[q]
    <3>1. q \in Pkgs
      BY <2>1 DEF Pkgs
    <3>2. InQueue(q) => pkg'[q] = [pkg[q] EXCEPT !.fut = "dropped", !.outcome = "cancelled",
                                                 !.ends = @ + 1]
      BY <2>1, <3>1
    <3>3. pkg[q] \in Package
      BY <1>a, <3>1, PkgEntries
    <3>4. ~InQueue(q)
      BY <3>2, <3>3 DEF Package, Open
    <3> QED
      BY <2>1, <3>1, <3>4
  <2>3. ~Carried(q) /\ q \notin {spawner, retrying}
    <3>1. Len(notifs) = 0
      BY <2>1, EmptySeq
    <3>2. ~Carried(q)
      BY <3>1 DEF Carried
    <3> QED
      BY <1>a, <2>1, <2>2, <3>2
  <2>4. WithWorker(q)
    BY <2>2, <2>3 DEF Placed, Open
  <2> QED
    BY <2>1, <2>2, <2>4 DEF WithWorker
<1>12. CASE Submit
  <2> DEFINE h == IF prioQ # <<>> THEN Head(prioQ) ELSE Head(normQ)
  <2>1. /\ HasQueued
        /\ IF prioQ # <<>> THEN prioQ' = Tail(prioQ) /\ normQ' = normQ
                           ELSE normQ' = Tail(normQ) /\ prioQ' = prioQ
        /\ pc = "submit" /\ UNCHANGED <<scan, notifs, pc, spawner, retrying>>
        /\ \/ pkg' = Ended(h, "dropped", "failed") /\ futures' = futures
           \/ pkg' = WithFut(h, "submitted") /\ futures' = futures \cup {h}
    BY <1>12 DEF Submit
  <2>2. PICK p \in Pkgs : p = h
    BY <1>t, <2>1, HeadTailProperties DEF TypeOK, HasQueued
  <2>3. \A q : q # p /\ InQueue(q) => InQueue(q)'
    BY <1>t, <2>1, <2>2, QueueShrinks
  <2>4. CASE pkg' = Ended(p, "dropped", "failed") /\ futures' = futures
    <3>1. /\ Pkgs' = Pkgs /\ \A q \in Pkgs : q # p => pkg'[q] = pkg[q]
          /\ pkg'[p].outcome = "failed"
      BY <1>a, <2>4, EndedOK DEF Futs, Outcomes, Pkgs
    <3> QED
      BY <1>a, <1>n, <2>1, <2>3, <2>4, <3>1, PlacedKept DEF Open
  <2>5. CASE pkg' = WithFut(p, "submitted") /\ futures' = futures \cup {p}
    <3>0. "submitted" \in Futs
      BY DEF Futs
    <3>1. /\ Pkgs' = Pkgs /\ \A q \in Pkgs : q # p => pkg'[q] = pkg[q]
          /\ pkg'[p].fut = "submitted"
      BY <1>a, <2>5, <3>0, WithFutOK DEF Pkgs
    <3>2. WithWorker(p)'
      BY <2>1, <2>5, <3>1 DEF WithWorker, Working
    <3> QED
      BY <1>a, <1>n, <2>1, <2>3, <2>5, <3>1, <3>2, PlacedKept
  <2> QED
    BY <2>1, <2>2, <2>4, <2>5
<1>13. ASSUME NEW p \in Pkgs, Worker(p) PROVE Placed'
  <2>1. UNCHANGED <<prioQ, normQ, futures, scan, pc, spawner, retrying>>
    BY <1>13 DEF Worker, StartWork, Return, NotifyCompleted, NotifyError, Raise, WaitTimedOut, ExitWork, mainVars
  <2>2. /\ {"running", "returning", "notified", "raised", "aborted", "done"} \subseteq Futs
        /\ {"started", "completed", "error", "cancelled"} \subseteq Kinds
    BY DEF Futs, Kinds
  <2>3. \A f \in Futs : pkg' = WithFut(p, f) =>
          /\ Pkgs' = Pkgs /\ \A q \in Pkgs : q # p => pkg'[q] = pkg[q]
          /\ pkg'[p].fut = f /\ pkg'[p].outcome = pkg[p].outcome
    BY <1>a, WithFutOK DEF Pkgs
  <2>4. pkg[p].fut \in Working \ {"raised"} /\ Open(p) => WithWorker(p)
    BY <1>w DEF Placed
  <2>5. ASSUME pkg[p].fut \in Working \ {"raised"}, pkg'[p].fut \in Working,
               pkg'[p].outcome = pkg[p].outcome
        PROVE  Open(p)' => WithWorker(p)'
    BY <2>1, <2>4, <2>5 DEF WithWorker, Open
  <2>6. CASE StartWork(p) \/ NotifyCompleted(p) \/ NotifyError(p)
    <3>1. PICK kind \in Kinds, f \in {"running", "notified"} :
            /\ Notify(kind, p) /\ pkg' = WithFut(p, f)
            /\ kind # "started" \/ f = "running"
            /\ pkg[p].fut \in Working \ {"raised"}
      BY <2>2, <2>6 DEF StartWork, NotifyCompleted, NotifyError, Working
    <3>2. (\A q : Carried(q) => Carried(q)') /\ (kind # "started" => Carried(p)')
      BY <1>t, <3>1, NotifyCarries
    <3>3. /\ Pkgs' = Pkgs /\ \A q \in Pkgs : q # p => pkg'[q] = pkg[q]
          /\ pkg'[p].fut = f /\ pkg'[p].outcome = pkg[p].outcome
      BY <2>2, <2>3, <3>1
    <3>4. Open(p)' => WithWorker(p)' \/ Carried(p)'
      BY <2>5, <3>1, <3>2, <3>3 DEF Working
    <3> QED
      BY <1>a, <1>q, <2>1, <3>2, <3>3, <3>4, PlacedKept
  <2>7. CASE Return(p)
    <3>1. PICK jobs : pkg' = [pkg EXCEPT ![p].fut = "returning", ![p].next = jobs]
      BY <2>7 DEF Return
    <3> DEFINE r == [pkg[p] EXCEPT !.fut = "returning", !.next = jobs]
    <3>2. r.fut = "returning" /\ r.outcome = pkg[p].outcome
      BY <1>a, PkgEntries DEF Package
    <3>3. pkg' = [pkg EXCEPT ![p] = r]
      BY <1>a, <3>1
    <3> HIDE DEF r
    <3>4. /\ Pkgs' = Pkgs /\ \A q \in Pkgs : q # p => pkg'[q] = pkg[q]
          /\ pkg'[p].fut = "returning" /\ pkg'[p].outcome = pkg[p].outcome
      BY <3>2, <3>3 DEF Pkgs
    <3>5. Open(p)' => WithWorker(p)'
      BY <2>5, <2>7, <3>4 DEF Return, Working
    <3>6. UNCHANGED notifs
      BY <2>7 DEF Return
    <3> QED
      BY <1>a, <1>q, <1>n, <2>1, <3>4, <3>5, <3>6, PlacedKept
  <2>8. CASE Raise(p) \/ WaitTimedOut(p)
    <3>1. PICK f \in {"raised", "aborted"} : pkg' = WithFut(p, f)
      BY <2>8 DEF Raise, WaitTimedOut
    <3>2. /\ Pkgs' = Pkgs /\ \A q \in Pkgs : q # p => pkg'[q] = pkg[q]
          /\ pkg'[p].fut = f /\ pkg'[p].outcome = pkg[p].outcome
      BY <2>2, <2>3, <3>1
    <3>3. Open(p)' => WithWorker(p)'
      BY <2>5, <2>8, <3>2 DEF Raise, WaitTimedOut, Working
    <3>4. UNCHANGED notifs
      BY <2>8 DEF Raise, WaitTimedOut
    <3> QED
      BY <1>a, <1>q, <1>n, <2>1, <3>2, <3>3, <3>4, PlacedKept
  <2>9. CASE ExitWork(p)
    <3>1. /\ Pkgs' = Pkgs /\ \A q \in Pkgs : q # p => pkg'[q] = pkg[q]
          /\ pkg'[p].outcome = pkg[p].outcome
      BY <2>2, <2>3, <2>9 DEF ExitWork
    <3>2. UNCHANGED notifs
      BY <2>9 DEF ExitWork
    <3>3. ~WithWorker(p)
      BY <2>9 DEF ExitWork, WithWorker, Working
    <3>4. Open(p)' => InQueue(p)' \/ Carried(p)' \/ p \in {spawner', retrying'}
      BY <1>q, <1>n, <2>1, <3>1, <3>2, <3>3 DEF Placed, Open
    <3> QED
      BY <1>a, <1>q, <1>n, <2>1, <3>1, <3>2, <3>4, PlacedKept
  <2> QED
    BY <1>13, <2>6, <2>7, <2>8, <2>9 DEF Worker
<1>14. ASSUME NEW p \in Pkgs, TrackActivity(p) PROVE Placed'
  BY <1>0, <1>14 DEF TrackActivity, mainVars
<1>15. CASE Signal
  BY <1>0, <1>15 DEF Signal, mainVars
<1> QED
  BY <1>1, <1>2, <1>3, <1>4, <1>5, <1>6, <1>7, <1>8, <1>9, <1>10, <1>11, <1>12, <1>13,
     <1>14, <1>15, <1>16 DEF Next, Main

-----------------------------------------------------------------------------
(* The end of the loop *)

\* Once the loop is left no worker has anything to do.
LEMMA NoWorkers ==
  ASSUME SettledInv, OutcomeReported, Placed, LoopLeft, pc \in {"drain", "idle"}
  PROVE  \A p \in Pkgs : pkg[p].fut \notin {"submitted", "running", "returning"}
<1> SUFFICES ASSUME NEW p \in Pkgs, pkg[p].fut \in {"submitted", "running", "returning"}
             PROVE  FALSE
  OBVIOUS
<1>1. Open(p)
  BY DEF SettledInv, UnsettledBefore, OutcomeReported
<1>2. ~InQueue(p) /\ ~Carried(p) /\ p \notin {spawner, retrying}
  <2>1. ~InQueue(p)
    BY DEF SettledInv, QueuedOnce, InQueue
  <2>2. ~Carried(p)
    BY DEF SettledInv, CarriedOnce, Carried
  <2>3. p \notin {spawner, retrying}
    BY NewOK DEF SettledInv, SpawnerUnsettled, RetryingUnsettled
  <2> QED
    BY <2>1, <2>2, <2>3
<1>3. ~WithWorker(p)
  BY DEF LoopLeft, WithWorker
<1> QED
  BY <1>1, <1>2, <1>3 DEF Placed

\* Nothing comes back after the loop, or after the drain.
LEMMA LoopLeftStep ==
  ASSUME SettledInv, OutcomeReported, Placed, LoopLeft, [Next]_vars
  PROVE  LoopLeft'
<1>1. CASE PushJob \/ ExecuteJobs \/ Loop \/ Submit \/ EndSubmit \/ HandleStarted
  BY <1>1 DEF PushJob, ExecuteJobs, Loop, Submit, EndSubmit, HandleStarted, Handling, LoopLeft
<1>2. CASE \/ HandleCompleted \/ RecordCompleted \/ HandleCancelled \/ HandleError
           \/ HandleNothing \/ CheckClock \/ EndCancelling \/ EndExecution \/ FinishRetry
  BY <1>2 DEF HandleCompleted, RecordCompleted, HandleCancelled, HandleError, HandleNothing,
     CheckClock, EndCancelling, EndExecution, FinishRetry, Handling, AfterHandled, LoopLeft
<1>3. ASSUME NEW p \in scan, ReapFuture(p) \/ CancelFuture(p) PROVE LoopLeft'
  BY <1>3 DEF ReapFuture, CancelFuture, LoopLeft
<1>4. ASSUME NEW p \in Pkgs, Worker(p) PROVE LoopLeft'
  <2>1. UNCHANGED <<pc, futures>>
    BY <1>4 DEF Worker, StartWork, Return, NotifyCompleted, NotifyError, Raise, WaitTimedOut, ExitWork, mainVars
  <2>2. pkg[p].fut \notin {"submitted", "running", "returning"} => UNCHANGED notifs
    BY <1>4 DEF Worker, StartWork, Return, NotifyCompleted, NotifyError, Raise, WaitTimedOut, ExitWork
  <2> QED
    BY <2>1, <2>2, NoWorkers DEF LoopLeft
<1>5. CASE UNCHANGED <<pc, futures, notifs>>
  BY <1>5 DEF LoopLeft
<1>6. Signal \/ (\E p \in Pkgs : TrackActivity(p)) \/ UNCHANGED vars
        => UNCHANGED <<pc, futures, notifs>>
  BY DEF Signal, TrackActivity, vars, mainVars
<1> QED
  BY <1>1, <1>2, <1>3, <1>4, <1>5, <1>6 DEF Next, Main

\* The only ways into the drain of an execution that was not cancelled.
LEMMA DrainEntered ==
  ASSUME DrainClean, [Next]_vars
  PROVE  /\ pc' = "cancelling" => cancelled'
         /\ pc' = "drain" /\ ~cancelled' =>
              \/ pc = "drain" /\ ~cancelled
              \/ pending = 0 /\ UNCHANGED pkg
<1>1. CASE PushJob \/ ExecuteJobs \/ Loop \/ Submit \/ EndSubmit \/ HandleStarted
  BY <1>1 DEF PushJob, ExecuteJobs, Loop, Submit, EndSubmit, HandleStarted, DrainClean
<1>2. CASE \/ HandleCompleted \/ RecordCompleted \/ HandleCancelled \/ HandleError
           \/ HandleNothing \/ CheckClock \/ EndCancelling \/ EndExecution \/ FinishRetry
  BY <1>2 DEF HandleCompleted, RecordCompleted, HandleCancelled, HandleError, HandleNothing,
     CheckClock, EndCancelling, EndExecution, FinishRetry, AfterHandled, DrainClean
<1>3. ASSUME NEW p \in scan, ReapFuture(p) \/ CancelFuture(p)
      PROVE  UNCHANGED <<pc, cancelled>>
  BY <1>3 DEF ReapFuture, CancelFuture
<1>4. ASSUME NEW p \in Pkgs, Return(p) PROVE pc' = pc /\ (cancelled => cancelled')
  BY <1>4 DEF Return, mainVars
<1>5. ASSUME NEW p \in Pkgs, Worker(p) \/ TrackActivity(p), ~Return(p)
      PROVE  UNCHANGED <<pc, cancelled>>
  BY <1>5 DEF Worker, StartWork, NotifyCompleted, NotifyError, Raise, WaitTimedOut, ExitWork,
     TrackActivity, mainVars
<1>6. CASE Signal
  BY <1>6 DEF Signal, mainVars, DrainClean
<1>7. CASE pc' = pc /\ (cancelled => cancelled')
  BY <1>7 DEF DrainClean
<1>8. CASE UNCHANGED <<pc, cancelled>>
  BY <1>8 DEF DrainClean
<1>9. UNCHANGED vars => UNCHANGED <<pc, cancelled>>
  BY DEF vars
<1> QED
  BY <1>1, <1>2, <1>3, <1>4, <1>5, <1>6, <1>7, <1>8, <1>9 DEF Next, Main

\* An execution that was not cancelled drains with every job settled.
LEMMA DrainStep ==
  ASSUME SettledInv, OutcomeReported, RestBusy, PendingAccounting, DrainClean,
         [Next]_vars, Effect
  PROVE  DrainClean'
<1> SUFFICES ASSUME pc' = "drain", ~cancelled' PROVE \A p \in Pkgs' : ~Open(p)'
  BY DrainEntered DEF DrainClean
<1>t. TypeOK
  BY DEF SettledInv
<1>1. CASE pending = 0 /\ UNCHANGED pkg
  BY <1>t, <1>1, NothingPending DEF Open, Pkgs
<1>2. CASE pc = "drain" /\ ~cancelled
  <2>1. \A p \in Pkgs : ~Open(p) /\ pkg[p].ends # 0
    BY <1>2 DEF DrainClean, OutcomeReported
  <2>2. rest = <<>>
    BY <1>t, <1>2, <2>1 DEF RestBusy, SettledInv, SpawnerUnsettled, TypeOK
  <2>3. Same \/ Cleared
    BY <2>1, <2>2 DEF Effect, Replaced, Closed, Reported
  <2>4. CASE Same
    BY <2>1, <2>4 DEF Same, Open
  <2>5. CASE Cleared
    BY <2>1, <2>5 DEF Cleared, Open
  <2> QED
    BY <2>3, <2>4, <2>5
<1> QED
  BY <1>1, <1>2, DrainEntered

\* Every step preserves the invariant.
LEMMA LedgerStep == LedgerInv /\ [Next]_vars => LedgerInv'
<1> SUFFICES ASSUME LedgerInv, [Next]_vars PROVE LedgerInv'
  OBVIOUS
<1> USE DEF LedgerInv
<1>1. TypeOK
  BY DEF SettledInv
<1>2. Effect
  BY StepEffect
<1>3. SettledInv'
  BY SettledStep
<1>4. SpawnerBusy' /\ RetryingBusy' /\ RestBusy'
  BY <1>1, PhaseStep
<1>5. OutcomeReported'
  BY <1>1, <1>2, ReportedStep
<1>6. PendingAccounting'
  BY <1>1, <1>2, PendingStep
<1>7. Placed' /\ LoopLeft'
  BY PlacedStep, LoopLeftStep
<1>8. DrainClean'
  BY <1>2, DrainStep
<1> QED
  BY <1>3, <1>4, <1>5, <1>6, <1>7, <1>8

\* The invariant holds at every moment of every behaviour.
LEMMA LedgerInvariant == Spec => []LedgerInv
<1>1. Init => LedgerInv
  <2> SUFFICES ASSUME Init PROVE LedgerInv
    OBVIOUS
  <2>1. SettledInv
    BY InitSettled
  <2>2. Pkgs = {} /\ pending = 0 /\ pc = "idle" /\ notifs = <<>> /\ futures = {}
        /\ spawner = 0 /\ retrying = 0
    <3>1. Len(pkg) = 0
      BY EmptySeq DEF Init
    <3> QED
      BY <2>1, <3>1, PkgEntries DEF Init, SettledInv, TypeOK
  <2>3. PendingAccounting
    <3>1. {p \in Pkgs : pkg[p].outcome \in {"none", "cancelled"}} = {}
      BY <2>2
    <3> QED
      BY <2>2, <3>1, FS_EmptySet DEF PendingAccounting
  <2> QED
    BY <2>1, <2>2, <2>3 DEF LedgerInv, OutcomeReported, SpawnerBusy, RetryingBusy, RestBusy,
       Placed, LoopLeft, DrainClean
<1> QED
  BY <1>1, LedgerStep, PTL DEF Spec

-----------------------------------------------------------------------------
(* What callers rely on *)

\* The counter that keeps the loop of execute_jobs alive is the number of jobs
\* without an outcome, plus those that were cancelled, after every step.
THEOREM PendingIsCounted == Spec => []PendingAccounting
<1>1. LedgerInv => PendingAccounting
  BY DEF LedgerInv
<1> QED
  BY <1>1, LedgerInvariant, PTL

\* When execute_jobs returns, whatever was cancelled, raised or retried, every
\* job it worked on has an outcome.
THEOREM NoJobIsLost == Spec => []NothingLost
<1>1. LedgerInv => NothingLost
  <2> SUFFICES ASSUME LedgerInv, pc = "idle", NEW p \in Pkgs, Open(p) PROVE InQueue(p)
    BY DEF NothingLost
  <2>1. futures = {} /\ Len(notifs) = 0 /\ spawner = 0 /\ retrying = 0
    BY EmptySeq DEF LedgerInv, LoopLeft, SpawnerBusy, RetryingBusy
  <2>2. ~WithWorker(p) /\ ~Carried(p) /\ p \notin {spawner, retrying}
    BY <2>1, NewOK DEF LedgerInv, SettledInv, WithWorker, Carried
  <2> QED
    BY <2>2 DEF LedgerInv, Placed
<1> QED
  BY <1>1, LedgerInvariant, PTL

\* A loop that nobody cancelled is left when there is nothing to do: the drain
\* finds no outcome to handle and the queues that are cleared are empty.
THEOREM ExitIsClean == Spec => []CleanExit
<1>1. LedgerInv => CleanExit
  <2> SUFFICES ASSUME LedgerInv, pc = "drain", ~cancelled
               PROVE  /\ ~HasQueued /\ \A p \in Pkgs : ~Open(p)
                      /\ \A i \in 1..Len(notifs) : notifs[i].kind = "started"
    BY DEF CleanExit
  <2>1. TypeOK /\ \A p \in Pkgs : ~Open(p) /\ pkg[p].ends # 0
    BY DEF LedgerInv, SettledInv, DrainClean, OutcomeReported
  <2>2. \A p \in Pkgs : ~InQueue(p)
    BY <2>1 DEF LedgerInv, SettledInv, QueuedOnce, UnsettledBefore, InQueue
  <2>3. ~HasQueued
    <3>1. prioQ # <<>> => prioQ[1] \in Pkgs /\ 1 \in 1..Len(prioQ)
      BY <2>1, TailOf, QueuesOK DEF TypeOK
    <3>2. normQ # <<>> => normQ[1] \in Pkgs /\ 1 \in 1..Len(normQ)
      BY <2>1, TailOf, QueuesOK DEF TypeOK
    <3> QED
      BY <2>2, <3>1, <3>2 DEF HasQueued, InQueue
  <2>4. ASSUME NEW i \in 1..Len(notifs) PROVE notifs[i].kind = "started"
    <3>1. notifs[i] \in [kind : Kinds, pkg : Pkgs]
      BY <2>1, ElementOfSeq DEF TypeOK
    <3> QED
      BY <2>1, <3>1 DEF LedgerInv, SettledInv, CarriedOnce, Carries
  <2> QED
    BY <2>1, <2>3, <2>4
<1> QED
  BY <1>1, LedgerInvariant, PTL

-----------------------------------------------------------------------------
(* Refinement *)

\* What the ledger knows of the packages.
StatusOf(s) == [p \in DOMAIN s |-> s[p].outcome]
Status == StatusOf(pkg)

\* The outcomes are a sequence, as the ledger's are.
LEMMA StatusSeq ==
  ASSUME NEW s \in Seq(Package)
  PROVE  /\ StatusOf(s) \in Seq(Outcomes) /\ Len(StatusOf(s)) = Len(s)
         /\ DOMAIN StatusOf(s) = DOMAIN s
         /\ DOMAIN s = 1..Len(s) /\ Len(s) \in Nat
<1>1. Len(s) \in Nat /\ DOMAIN s = 1..Len(s) /\ \A p \in 1..Len(s) : s[p].outcome \in Outcomes
  <2>1. \A p \in 1..Len(s) : s[p] \in Package
    BY ElementOfSeq
  <2> QED
    BY <2>1, LenProperties DEF Package
<1>2. StatusOf(s) \in [1..Len(s) -> Outcomes]
  BY <1>1 DEF StatusOf
<1>3. StatusOf(s) \in Seq(Outcomes)
  BY <1>1, <1>2, SeqDef
<1>4. 1..Len(StatusOf(s)) = 1..Len(s) /\ Len(StatusOf(s)) \in Nat
  BY <1>2, <1>3, LenProperties
<1>5. \A m, n \in Nat : 1..m = 1..n => m = n
  OBVIOUS
<1> QED
  BY <1>1, <1>2, <1>3, <1>4, <1>5

\* A package that is added is a new entry, without an outcome, in the ledger.
LEMMA StatusAdded ==
  ASSUME TypeOK, pkg' \in Seq(Package), Added, NEW s \in Seq(Outcomes), Len(s) = Len(pkg),
         \A q \in Pkgs : pkg'[q].outcome = s[q]
  PROVE  Status' = Append(s, "none")
<1>1. /\ Status' \in Seq(Outcomes) /\ Len(Status') = Len(pkg')
      /\ Pkgs' = 1..Len(pkg') /\ Len(pkg') \in Nat
  BY StatusSeq DEF Status, Pkgs
<1>2. Len(pkg') = New
  <2>1. 1..Len(pkg') = 1..New /\ New \in Nat
    BY <1>1, NewOK DEF Added
  <2>2. \A m, n \in Nat : 1..m = 1..n => m = n
    OBVIOUS
  <2> QED
    BY <1>1, <2>1, <2>2
<1>3. "none" \in Outcomes
  BY DEF Outcomes
<1>4. /\ Append(s, "none") \in Seq(Outcomes) /\ Len(Append(s, "none")) = New
      /\ \A i \in 1..Len(pkg) : Append(s, "none")[i] = s[i]
      /\ Append(s, "none")[New] = "none"
  BY <1>3, AppendProperties DEF New
<1>5. \A i \in 1..New : Status'[i] = Append(s, "none")[i]
  <2>1. \A i \in 1..New : i = New \/ i \in Pkgs
    BY NewOK
  <2>2. \A i \in 1..New : Status'[i] = pkg'[i].outcome
    BY NewOK DEF Added, Status, StatusOf, Pkgs
  <2> QED
    BY <1>4, <2>1, <2>2, NewOK DEF Added
<1> QED
  BY <1>1, <1>2, <1>4, <1>5, SeqEqual

\* The scheduler with its threads, queues, notifications and futures implements
\* the ledger: every job gets one outcome or is replaced at that same moment,
\* and an execution that ends cancels what nobody came to.
THEOREM LedgerIsImplemented == Spec => ImplementsLedger
<1>1. Init => Ledger!Init
  <2> SUFFICES ASSUME Init PROVE Ledger!Init
    OBVIOUS
  <2>1. pkg = <<>> /\ pc = "idle"
    BY DEF Init
  <2>2. pkg \in Seq(Package) /\ Len(pkg) = 0
    BY <2>1, EmptySeq
  <2>3. Status \in Seq(Outcomes) /\ Len(Status) = 0
    BY <2>2, StatusSeq DEF Status
  <2>4. Status = <<>>
    BY <2>3, EmptySeq
  <2>5. [p \in Pkgs |-> pkg[p].outcome] = Status
    BY DEF Status, StatusOf, Pkgs
  <2> QED
    BY <2>1, <2>4, <2>5 DEF Ledger!Init
<1>2. LedgerInv /\ [Next]_vars => [Ledger!Next]_(Ledger!ledger)
  <2> SUFFICES ASSUME LedgerInv, [Next]_vars PROVE [Ledger!Next]_(Ledger!ledger)
    OBVIOUS
  <2>1. TypeOK /\ TypeOK' /\ Effect /\ OutcomeReported
    BY TypeStep, StepEffect DEF LedgerInv, SettledInv
  <2>2. /\ pkg \in Seq(Package) /\ pkg' \in Seq(Package)
        /\ Status \in Seq(Outcomes) /\ Len(Status) = Len(pkg)
        /\ Status = [p \in Pkgs |-> pkg[p].outcome]
        /\ Status' = [p \in Pkgs' |-> pkg'[p].outcome]
    BY <2>1, StatusSeq DEF TypeOK, Status, StatusOf, Pkgs
  <2> DEFINE executing == pc # "idle"
  <2>3. ASSUME \/ Status' = Status /\ (executing' <=> executing)
               \/ Status' = Status /\ ~executing /\ executing'
               \/ Status' = Append(Status, "none") /\ (executing' <=> executing)
               \/ /\ executing /\ executing'
                  /\ \E p \in Pkgs :
                       /\ Status[p] = "none"
                       /\ \/ Status' = Append([Status EXCEPT ![p] = "retried"], "none")
                          \/ \E o \in {"completed", "failed", "cancelled"} :
                               Status' = [Status EXCEPT ![p] = o]
               \/ /\ executing /\ ~executing'
                  /\ Status' = [p \in Pkgs |-> IF Status[p] = "none" THEN "cancelled"
                                               ELSE Status[p]]
        PROVE  [Ledger!Next]_(Ledger!ledger)
    BY <2>2, <2>3 DEF Ledger!Next, Ledger!ledger, Ledger!Push, Ledger!Begin, Ledger!Close,
       Ledger!Replace, Ledger!Finish, Ledger!Open
  <2>4. CASE Same /\ (pc' = "idle" => pc = "idle")
    <3>1. Status' = Status
      BY <2>2, <2>4 DEF Same
    <3> QED
      BY <2>3, <2>4, <3>1
  <2>5. CASE Pushed /\ pc' = pc
    <3>1. \A q \in Pkgs : pkg'[q].outcome = Status[q]
      BY <2>2, <2>5 DEF Pushed
    <3>2. Status' = Append(Status, "none")
      BY <2>1, <2>2, <2>5, <3>1, StatusAdded DEF Pushed
    <3> QED
      BY <2>3, <2>5, <3>2
  <2>6. ASSUME NEW p \in Pkgs, Replaced(p), Executing PROVE [Ledger!Next]_(Ledger!ledger)
    <3> DEFINE s == [Status EXCEPT ![p] = "retried"]
    <3>1. Status[p] = "none"
      BY <2>1, <2>2, <2>6 DEF OutcomeReported, Open, Replaced, Reported
    <3>2. s \in Seq(Outcomes) /\ Len(s) = Len(pkg)
      <4>1. p \in 1..Len(Status) /\ "retried" \in Outcomes
        BY <2>1, <2>2, NewOK DEF Outcomes
      <4> QED
        BY <2>2, <4>1, ExceptSeq, ZenonT(40)
    <3>3. \A q \in Pkgs : pkg'[q].outcome = s[q]
      BY <2>2, <2>6 DEF Replaced, Reported
    <3>4. Status' = Append(s, "none")
      <4> HIDE DEF s
      <4> QED
        BY <2>1, <2>2, <2>6, <3>2, <3>3, StatusAdded DEF Replaced
    <3> QED
      BY <2>3, <2>6, <3>1, <3>4 DEF Executing
  <2>7. ASSUME NEW p \in Pkgs, NEW o \in {"completed", "failed", "cancelled"}, Closed(p, o),
               Executing
        PROVE  [Ledger!Next]_(Ledger!ledger)
    <3>1. Status[p] = "none"
      BY <2>1, <2>2, <2>7 DEF OutcomeReported, Open, Closed, Reported
    <3>2. Status' = [Status EXCEPT ![p] = o]
      BY <2>2, <2>7 DEF Closed, Reported
    <3> QED
      BY <2>3, <2>7, <3>1, <3>2 DEF Executing
  <2>8. CASE /\ Cleared /\ pc = "drain" /\ pc' = "idle"
             /\ spawner = 0 /\ retrying = 0 /\ notifs = <<>>
    <3>1. \A p \in Pkgs : Open(p) => InQueue(p)
      <4>1. Len(notifs) = 0 /\ futures = {} /\ 0 \notin Pkgs
        BY <2>1, <2>8, EmptySeq, NewOK DEF LedgerInv, LoopLeft
      <4> QED
        BY <2>8, <4>1 DEF LedgerInv, Placed, WithWorker, Carried
    <3>2. \A p \in Pkgs : pkg'[p].outcome = IF Open(p) THEN "cancelled" ELSE pkg[p].outcome
      BY <2>1, <2>8, <3>1 DEF Cleared, OutcomeReported
    <3>3. Status' = [p \in Pkgs |-> IF Status[p] = "none" THEN "cancelled" ELSE Status[p]]
      BY <2>2, <2>8, <3>2 DEF Cleared, Open
    <3> QED
      BY <2>3, <2>8, <3>3
  <2> QED
    BY <2>1, <2>4, <2>5, <2>6, <2>7, <2>8 DEF Effect
<1> QED
  BY <1>1, <1>2, LedgerInvariant, PTL DEF Spec, ImplementsLedger, Ledger!Spec

=============================================================================
