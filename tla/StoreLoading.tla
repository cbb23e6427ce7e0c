----------------------------- MODULE StoreLoading -----------------------------
(***************************************************************************)
(* How the databases of one run get the local store                        *)
(* (jobs/open_db_worker.py, load_local_store_worker.py,                    *)
(* mix_store_and_db_worker.py).  All OpenDb jobs share one LoadLocalStore  *)
(* job: the first worker to get the lock spawns it, each worker spawns a   *)
(* MixStoreAndDb job, which waits for the tag of the load and then reads   *)
(* the store from the shared job object.                                   *)
(***************************************************************************)
EXTENDS JobTags

CONSTANTS
  OpenDb,   \* the OpenDbJobs
  Mix,      \* the MixStoreAndDbJobs
  Load      \* the LoadLocalStoreJob

\* Nothing but an OpenDbWorker spawns the load job, once in its list, and what
\* replaces another job is never the load job.
ASSUME StoreLoadingAssumption ==
  /\ OpenDb \subseteq Job /\ Mix \subseteq Job /\ Load \in Job
  /\ OpenDb \cap Mix = {} /\ Load \notin OpenDb \cup Mix
  /\ Load \notin ToSet(Roots)
  /\ \A job \in Job : \A jobs \in Results[job] : \A i, j \in DOMAIN jobs :
       jobs[i] = Load /\ jobs[j] = Load => job \in OpenDb /\ i = j
  /\ \A job \in Job \ {Load} : RetryOf[job] # Load /\ BackupOf[job] # Load

VARIABLES
  returnedLoad,   \* OpenDbWorker._returned_load_local_store_job
  localStore      \* whether load_local_store_job.local_store was set

storeVars == <<tagVars, returnedLoad, localStore>>

SpawnsLoad(jobs) == \E i \in DOMAIN jobs : jobs[i] = Load

SInit == TInit /\ returnedLoad = FALSE /\ localStore = FALSE

\* Faulty variant: the flag is not looked at again under the lock.
OpenDbReturnsUnlocked(p) ==
  /\ JobOf(p) \in OpenDb
  /\ TWorker(p) /\ pkg'[p].fut = "returning"
  /\ \/ pkg'[p].next = <<>> /\ UNCHANGED returnedLoad
     \/ /\ pkg'[p].next # <<>>
        /\ SpawnsLoad(pkg'[p].next) = ~localStore
        /\ returnedLoad' = (returnedLoad \/ ~localStore)
  /\ UNCHANGED localStore

\* A database that did not change is skipped.  Otherwise, under the lock, the
\* load job goes first in the list of whoever sets the flag.  The test that comes before
\* the lock is left out: the one under it decides.
OpenDbReturns(p) ==
  /\ JobOf(p) \in OpenDb
  /\ TWorker(p) /\ pkg'[p].fut = "returning"
  /\ \/ pkg'[p].next = <<>> /\ UNCHANGED returnedLoad
     \/ /\ pkg'[p].next # <<>>
        /\ SpawnsLoad(pkg'[p].next) = (~localStore /\ ~returnedLoad)
        /\ returnedLoad' = (returnedLoad \/ ~localStore)
  /\ UNCHANGED localStore

LoadReturns(p) ==
  /\ JobOf(p) = Load
  /\ TWorker(p) /\ pkg'[p].fut = "returning"
  /\ localStore' = TRUE
  /\ UNCHANGED returnedLoad

\* The wait is over: with no store to read the worker returns an error.
MixReturns(p) ==
  /\ JobOf(p) \in Mix
  /\ TWorker(p)
  /\ pkg[p].fut = "running"
  /\ IF localStore THEN pkg'[p].fut = "returning" ELSE pkg'[p].fut = "notified"
  /\ UNCHANGED <<returnedLoad, localStore>>

\* Every other step of a worker, a worker that returns an error included.
OtherWork(p) ==
  /\ TWorker(p)
  /\ \/ pkg[p].fut # "running"
     \/ pkg'[p].fut = "aborted"
     \/ JobOf(p) \notin OpenDb \cup Mix \cup {Load}
     \/ JobOf(p) \in OpenDb \cup {Load} /\ pkg'[p].fut = "notified"
  /\ UNCHANGED <<returnedLoad, localStore>>

SWorker(p) ==
  p \in Pkgs /\ (OpenDbReturns(p) \/ LoadReturns(p) \/ MixReturns(p) \/ OtherWork(p))

SMain == TMain /\ UNCHANGED <<returnedLoad, localStore>>

SEnvironment == TEnvironment /\ UNCHANGED <<returnedLoad, localStore>>

SNext == SMain \/ (\E p \in Pkgs : SWorker(p)) \/ SEnvironment

SSpec == SInit /\ [][SNext]_storeVars

-----------------------------------------------------------------------------
(* Properties *)

\* The values the state of the store loading ranges over.
StoreTypeOK == TagsTypeOK /\ returnedLoad \in BOOLEAN /\ localStore \in BOOLEAN

\* The store is read by one job: whatever the number of databases and the
\* order of their workers, a second LoadLocalStore package is a retry.
LoadedOnce ==
  Cardinality({p \in Pkgs : JobOf(p) = Load /\ pkg[p].outcome # "retried"}) <= 1

\* The load failed with its retries, so that the AbortJob took its place.
LoadGivenUp ==
  \E p \in Pkgs : /\ JobOf(p) = Load
                 /\ \/ pkg[p].outcome = "failed"
                    \/ pkg[p].outcome = "retried" /\ ~MayRetry(p)

\* A worker returned the load job, and the main thread has not yet recorded that.
LoadComing == \E q \in Pkgs : Open(q) /\ SpawnsLoad(pkg[q].next)

\* A database fails for lack of the store only when there will be none: while the
\* load is queued, at work, has failed and is about to be retried, or is done, no
\* worker concludes that it is over.  The exception is LoadComing: the MixStoreAndDb
\* job of a second database may overtake the load that the first one returned.
MixGetsStore ==
  [][\A p \in Pkgs :
       JobOf(p) \in Mix /\ pkg[p].fut = "running" /\ pkg'[p].fut = "notified" =>
         LoadGivenUp \/ LoadComing \/ cancelled
    ]_storeVars

=============================================================================
