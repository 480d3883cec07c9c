---------------------------- MODULE DownloadJobs ----------------------------
(***************************************************************************)
(* The durable download queue and everything that touches it: the API      *)
(* handlers that grab, cancel and retry, and the workers that claim a job  *)
(* and carry it through download, post-processing and import               *)
(* (services/download_jobs.py over ResponsivePostgresJobRepository).       *)
(*                                                                         *)
(* One action is one committed PostgreSQL transaction, or one stretch of   *)
(* code between two transactions.  Rows are locked only inside a           *)
(* transaction, so anything may happen between two actions of a process.   *)
(* The download itself is a single step with an outcome; ArticleDownload   *)
(* models its inside.                                                      *)
(***************************************************************************)
EXTENDS Naturals

CONSTANTS
  Releases,        (* rows of the releases table; the code never deletes one *)
  Workers,         (* threads that run process_next_download                 *)
  Daemons,         (* those of them that loop in run_forever; the others are *)
                   (* single POST /api/downloads/process-next requests       *)
  Callers,         (* API threads that serve POST /api/releases/{id}/grab    *)
  Nobody,          (* claimed_by IS NULL                                     *)
  NoRelease,       (* no release: the job row is not there yet               *)
  MaxJobs,         (* bound: rows the downloads table may get                *)
  MaxRequeues,     (* bound: retries and recoveries taken together           *)
  MaxCrashes,      (* bound: processes killed and restarted                  *)
  RecoveryWired    (* does anything call recover_stale?  Nothing does as     *)
                   (* shipped: only the tests                                *)

ASSUME ConstantsAssumption ==
  /\ Daemons \subseteq Workers
  /\ Nobody \notin Workers
  /\ NoRelease \notin Releases
  /\ MaxJobs \in Nat
  /\ MaxRequeues \in Nat
  /\ MaxCrashes \in Nat
  /\ RecoveryWired \in BOOLEAN

(* A job is named by its created_order, the identity column jobs are       *)
(* claimed in.                                                             *)
Jobs  == 1..MaxJobs
NoJob == 0

Running  == {"downloading", "postprocessing", "importing"}
Active   == {"queued"} \cup Running          (* ACTIVE_STATUSES *)
Terminal == {"completed", "failed", "canceled"}
Status   == {"absent"} \cup Active \cup Terminal

(* Where a worker is in process_next_download.  The stages of InTry are    *)
(* inside its try block: what they raise leads to _mark_failed.  In "fail" *)
(* and "canceling" it is in the except block, the latter with the engine's *)
(* DownloadCancelled in hand.                                              *)
InTry ==
  {"download", "engineFail", "check2", "cancel2", "setPost", "postprocess",
   "setImport", "import", "complete", "activity"}
WorkerPc ==
  {"idle", "claimed", "check1", "cancel1", "fail", "canceling"} \cup InTry

VARIABLES
  (* download_jobs *)
  rows, status, releaseOf, cancelRequested, claimedBy,
  (* releases.download_status, releases.import_status, library_books *)
  downloadStatus, importStatus, library,
  (* worker threads and API threads *)
  pc, wjob, cpc, crel,
  (* history: workers whose job was put back in the queue while they were  *)
  (* inside process_next_download, and the jobs this happened to           *)
  late, contested,
  (* bounds *)
  requeues, crashes

jobVars     == <<rows, status, releaseOf, cancelRequested, claimedBy>>
releaseVars == <<downloadStatus, importStatus, library>>
workerVars  == <<pc, wjob, late>>
callerVars  == <<cpc, crel>>
boundVars   == <<contested, requeues, crashes>>
vars == <<jobVars, releaseVars, workerVars, callerVars, boundVars>>

-----------------------------------------------------------------------------

Init ==
  /\ rows = 0
  /\ status = [j \in Jobs |-> "absent"]
  /\ releaseOf = [j \in Jobs |-> NoRelease]
  /\ cancelRequested = [j \in Jobs |-> FALSE]
  /\ claimedBy = [j \in Jobs |-> Nobody]
  /\ downloadStatus = [r \in Releases |-> "absent"]
  /\ importStatus = [r \in Releases |-> "absent"]
  /\ library = {}
  /\ pc = [w \in Workers |-> "idle"]
  /\ wjob = [w \in Workers |-> NoJob]
  /\ cpc = [c \in Callers |-> "idle"]
  /\ crel = [c \in Callers |-> NoRelease]
  /\ late = {}
  /\ contested = {}
  /\ requeues = 0
  /\ crashes = 0

-----------------------------------------------------------------------------
(* Writes shared by the transactions below.                                *)

(* A transaction on the job of a worker that also mirrors the new status   *)
(* on the release, in the same transaction.                                *)
WriteStatus(j, s) ==
  /\ status' = [status EXCEPT ![j] = s]
  /\ downloadStatus' = [downloadStatus EXCEPT ![releaseOf[j]] = s]

(* Mutant: a finished job keeps its claim.                                 *)
KeepsClaim(j) == UNCHANGED claimedBy

ClearClaim(j) == claimedBy' = [claimedBy EXCEPT ![j] = Nobody]
ClearCancel(j) == cancelRequested' = [cancelRequested EXCEPT ![j] = FALSE]

MarkFailed(j) ==
  /\ WriteStatus(j, "failed")
  /\ ClearClaim(j)
  /\ UNCHANGED <<rows, releaseOf, cancelRequested, importStatus, library>>

MarkCanceled(j) ==
  /\ WriteStatus(j, "canceled")
  /\ ClearClaim(j)
  /\ ClearCancel(j)
  /\ UNCHANGED <<rows, releaseOf, importStatus, library>>

MarkCompleted(j) ==
  /\ WriteStatus(j, "completed")
  /\ ClearClaim(j)
  /\ ClearCancel(j)
  /\ importStatus' = [importStatus EXCEPT ![releaseOf[j]] = "completed"]
  /\ UNCHANGED <<rows, releaseOf, library>>

SetRuntimeStatus(j, s) ==
  /\ WriteStatus(j, s)
  /\ UNCHANGED <<rows, releaseOf, cancelRequested, claimedBy, importStatus, library>>

-----------------------------------------------------------------------------
(* POST /api/releases/{id}/grab: queue_release and ResponsivePostgres-     *)
(* JobRepository.add, three transactions of one request.                   *)

ActiveJobs(r) == {j \in Jobs : status[j] \in Active /\ releaseOf[j] = r}

(* find_active_for_release: an active job is returned to the user and      *)
(* nothing changes; otherwise the request goes on to add one.              *)
GrabLooksUp(c, r) ==
  /\ cpc[c] = "idle"
  /\ ActiveJobs(r) = {}
  /\ cpc' = [cpc EXCEPT ![c] = "add"]
  /\ crel' = [crel EXCEPT ![c] = r]
  /\ UNCHANGED <<jobVars, releaseVars, workerVars, boundVars>>

GrabFindsActive(c, r) ==
  /\ cpc[c] = "idle"
  /\ ActiveJobs(r) # {}
  /\ UNCHANGED vars

(* super().add: the insert commits on its own.                             *)
GrabAdds(c) ==
  /\ cpc[c] = "add"
  /\ rows < MaxJobs
  /\ rows' = rows + 1
  /\ status' = [status EXCEPT ![rows + 1] = "queued"]
  /\ releaseOf' = [releaseOf EXCEPT ![rows + 1] = crel[c]]
  /\ cpc' = [cpc EXCEPT ![c] = "mirror"]
  /\ UNCHANGED <<cancelRequested, claimedBy, releaseVars, workerVars, crel, boundVars>>

(* The second transaction of add: the release is shown as queued.          *)
GrabMirrors(c) ==
  /\ cpc[c] = "mirror"
  /\ downloadStatus' = [downloadStatus EXCEPT ![crel[c]] = "queued"]
  /\ cpc' = [cpc EXCEPT ![c] = "idle"]
  /\ crel' = [crel EXCEPT ![c] = NoRelease]
  /\ UNCHANGED <<jobVars, importStatus, library, workerVars, boundVars>>

-----------------------------------------------------------------------------
(* POST /api/downloads/{id}/cancel and /retry, one transaction each.  A    *)
(* refused request (409) changes nothing and has no action.                *)

CancelQueued(j) ==
  /\ status[j] = "queued"
  /\ WriteStatus(j, "canceled")
  /\ ClearCancel(j)
  /\ UNCHANGED <<rows, releaseOf, claimedBy, importStatus, library>>
  /\ UNCHANGED <<workerVars, callerVars, boundVars>>

CancelRunning(j) ==
  /\ status[j] \in Running
  /\ cancelRequested' = [cancelRequested EXCEPT ![j] = TRUE]
  /\ UNCHANGED <<rows, status, releaseOf, claimedBy, releaseVars>>
  /\ UNCHANGED <<workerVars, callerVars, boundVars>>

Inside(j) == {w \in Workers : wjob[w] = j}

(* The history of a job put back in the queue: who is inside is late.  If  *)
(* nobody is, the row is as new and nobody has a stake in it any more.     *)
Requeued(j) ==
  /\ requeues < MaxRequeues
  /\ requeues' = requeues + 1
  /\ late' = late \cup Inside(j)
  /\ contested' = IF Inside(j) = {} THEN contested \ {j} ELSE contested \cup {j}

(* The row alone is asked, not whether a worker is still unwinding.        *)
Retry(j) ==
  /\ status[j] \in {"failed", "canceled"}
  /\ Requeued(j)
  /\ WriteStatus(j, "queued")
  /\ ClearClaim(j)
  /\ ClearCancel(j)
  /\ UNCHANGED <<rows, releaseOf, importStatus, library>>
  /\ UNCHANGED <<pc, wjob, callerVars, crashes>>

(* recover_stale: the cutoff is compared with claimed_at only, so any      *)
(* claimed job in "downloading" may qualify, its worker dead or slow.  The *)
(* release row and cancel_requested are left as they are.                  *)
Recoverable(j) == status[j] = "downloading" /\ claimedBy[j] # Nobody

RecoverStale(j) ==
  /\ RecoveryWired
  /\ Recoverable(j)
  /\ Requeued(j)
  /\ status' = [status EXCEPT ![j] = "queued"]
  /\ ClearClaim(j)
  /\ UNCHANGED <<rows, releaseOf, cancelRequested, releaseVars>>
  /\ UNCHANGED <<pc, wjob, callerVars, crashes>>

-----------------------------------------------------------------------------
(* process_next_download, run by worker w.                                 *)

Goto(w, from, to) ==
  /\ pc[w] = from
  /\ pc' = [pc EXCEPT ![w] = to]

(* Mutant: the loop forgets to drop the job it is done with.               *)
ReturnHolding(w, from) ==
  /\ Goto(w, from, "idle")
  /\ UNCHANGED <<wjob, late>>

(* The worker leaves process_next_download.                                *)
Return(w, from) ==
  /\ Goto(w, from, "idle")
  /\ wjob' = [wjob EXCEPT ![w] = NoJob]
  /\ late' = late \ {w}

Stay == UNCHANGED <<wjob, late, callerVars, boundVars>>

(* Mutants: the claim also takes a job another worker is downloading; the  *)
(* claim takes the newest job first.                                       *)
OldestUnfinished(j) ==
  /\ status[j] \in {"queued", "downloading"}
  /\ \A k \in Jobs : status[k] \in {"queued", "downloading"} => j <= k

NewestQueued(j) ==
  /\ status[j] = "queued"
  /\ \A k \in Jobs : status[k] = "queued" => k <= j

(* SELECT ... ORDER BY created_order LIMIT 1 FOR UPDATE SKIP LOCKED.       *)
OldestQueued(j) ==
  /\ status[j] = "queued"
  /\ \A k \in Jobs : status[k] = "queued" => j <= k

Claim(w) ==
  /\ Goto(w, "idle", "claimed")
  /\ \E j \in Jobs :
       /\ OldestQueued(j)
       /\ wjob' = [wjob EXCEPT ![w] = j]
       /\ status' = [status EXCEPT ![j] = "downloading"]
       /\ claimedBy' = [claimedBy EXCEPT ![j] = w]
  /\ UNCHANGED <<rows, releaseOf, cancelRequested, releaseVars, late, callerVars, boundVars>>

(* Nothing queued: run_forever waits and polls again.                      *)
ClaimNothing(w) ==
  /\ pc[w] = "idle"
  /\ \A j \in Jobs : status[j] # "queued"
  /\ UNCHANGED vars

(* The second transaction of claim_next, on the release alone.             *)
ClaimMirrors(w) ==
  /\ Goto(w, "claimed", "check1")
  /\ downloadStatus' = [downloadStatus EXCEPT ![releaseOf[wjob[w]]] = "downloading"]
  /\ UNCHANGED <<jobVars, importStatus, library>>
  /\ Stay

CheckBeforeDownload(w) ==
  /\ Goto(w, "check1", IF cancelRequested[wjob[w]] THEN "cancel1" ELSE "download")
  /\ UNCHANGED <<jobVars, releaseVars>>
  /\ Stay

CancelBeforeDownload(w) ==
  /\ Return(w, "cancel1")
  /\ MarkCanceled(wjob[w])
  /\ UNCHANGED <<callerVars, boundVars>>

(* The download returns: its last check of the flag, in submit_next, found *)
(* it clear.                                                               *)
DownloadSucceeds(w) ==
  /\ Goto(w, "download", "check2")
  /\ ~cancelRequested[wjob[w]]
  /\ UNCHANGED <<jobVars, releaseVars>>
  /\ Stay

(* The engine saw the flag: DownloadCancelled leaves download_job and is   *)
(* caught by the same "except Exception" as a failure.                     *)
DownloadSeesCancel(w) ==
  /\ Goto(w, "download", "canceling")
  /\ cancelRequested[wjob[w]]
  /\ UNCHANGED <<jobVars, releaseVars>>
  /\ Stay

(* No provider, credential key or article: raised before the engine.       *)
DownloadRefused(w) ==
  /\ Goto(w, "download", "fail")
  /\ UNCHANGED <<jobVars, releaseVars>>
  /\ Stay

(* An article failed on every provider, or the disk did.                   *)
DownloadFails(w) ==
  /\ Goto(w, "download", "engineFail")
  /\ UNCHANGED <<jobVars, releaseVars>>
  /\ Stay

(* Mutant: the engine puts the job back in the queue before it raises.     *)
EngineRequeues(w) ==
  /\ Goto(w, "engineFail", "fail")
  /\ WriteStatus(wjob[w], "queued")
  /\ ClearClaim(wjob[w])
  /\ UNCHANGED <<rows, releaseOf, cancelRequested, importStatus, library>>
  /\ Stay

(* download_job marks the job failed itself before it raises.              *)
EngineMarksFailed(w) ==
  /\ Goto(w, "engineFail", "fail")
  /\ MarkFailed(wjob[w])
  /\ Stay

CheckAfterDownload(w) ==
  /\ Goto(w, "check2", IF cancelRequested[wjob[w]] THEN "cancel2" ELSE "setPost")
  /\ UNCHANGED <<jobVars, releaseVars>>
  /\ Stay

CancelAfterDownload(w) ==
  /\ Goto(w, "cancel2", "activity")
  /\ MarkCanceled(wjob[w])
  /\ Stay

EntersPostprocessing(w) ==
  /\ Goto(w, "setPost", "postprocess")
  /\ SetRuntimeStatus(wjob[w], "postprocessing")
  /\ Stay

Postprocess(w) ==
  /\ \E to \in {"setImport", "fail"} : Goto(w, "postprocess", to)
  /\ UNCHANGED <<jobVars, releaseVars>>
  /\ Stay

(* Mutant: the import is skipped.                                          *)
SkipsImport(w) ==
  /\ Goto(w, "setImport", "complete")
  /\ SetRuntimeStatus(wjob[w], "importing")
  /\ Stay

EntersImporting(w) ==
  /\ Goto(w, "setImport", "import")
  /\ SetRuntimeStatus(wjob[w], "importing")
  /\ Stay

(* import_file committed the library row; it may still raise, when it      *)
(* removes its source.                                                     *)
Imports(w) ==
  /\ \E to \in {"complete", "fail"} : Goto(w, "import", to)
  /\ library' = library \cup {releaseOf[wjob[w]]}
  /\ UNCHANGED <<jobVars, downloadStatus, importStatus>>
  /\ Stay

(* import_file raised before its library row was committed.                *)
ImportFails(w) ==
  /\ Goto(w, "import", "fail")
  /\ UNCHANGED <<jobVars, releaseVars>>
  /\ Stay

Completes(w) ==
  /\ Goto(w, "complete", "activity")
  /\ MarkCompleted(wjob[w])
  /\ Stay

(* append_activity, still inside the try block.                            *)
AppendsActivity(w) ==
  /\ Return(w, "activity")
  /\ UNCHANGED <<jobVars, releaseVars, callerVars, boundVars>>

(* A statement of the try block raised and its transaction rolled back.    *)
RaisesInTry(w) ==
  /\ pc[w] \in InTry
  /\ Goto(w, pc[w], "fail")
  /\ UNCHANGED <<jobVars, releaseVars>>
  /\ Stay

(* Mutant: the except block logs and goes on.                              *)
SwallowsFailure(w) ==
  /\ \E from \in {"fail", "canceling"} : Return(w, from)
  /\ UNCHANGED <<jobVars, releaseVars, callerVars, boundVars>>

(* The except block: _mark_failed, whatever the job's status is by now.    *)
FailsJob(w) ==
  /\ \E from \in {"fail", "canceling"} : Return(w, from)
  /\ MarkFailed(wjob[w])
  /\ UNCHANGED <<callerVars, boundVars>>

(* The process is killed, or an exception left process_next_download (a    *)
(* store error outside the try block does that); Docker starts it anew and *)
(* it keeps no memory.  The compose file restarts both kinds of process.   *)
WorkerCrash(w) ==
  /\ pc[w] # "idle"
  /\ crashes < MaxCrashes
  /\ crashes' = crashes + 1
  /\ Return(w, pc[w])
  /\ UNCHANGED <<jobVars, releaseVars, callerVars, contested, requeues>>

CallerCrash(c) ==
  /\ cpc[c] # "idle"
  /\ crashes < MaxCrashes
  /\ crashes' = crashes + 1
  /\ cpc' = [cpc EXCEPT ![c] = "idle"]
  /\ crel' = [crel EXCEPT ![c] = NoRelease]
  /\ UNCHANGED <<jobVars, releaseVars, workerVars, contested, requeues>>

-----------------------------------------------------------------------------

(* What a worker does from one claim to its return, in order.              *)
WorkerStep(w) ==
  \/ ClaimMirrors(w) \/ CheckBeforeDownload(w) \/ CancelBeforeDownload(w)
  \/ DownloadSucceeds(w) \/ DownloadSeesCancel(w) \/ DownloadRefused(w)
  \/ DownloadFails(w) \/ EngineMarksFailed(w)
  \/ CheckAfterDownload(w) \/ CancelAfterDownload(w)
  \/ EntersPostprocessing(w) \/ Postprocess(w)
  \/ EntersImporting(w) \/ Imports(w) \/ ImportFails(w)
  \/ Completes(w) \/ AppendsActivity(w)
  \/ RaisesInTry(w) \/ FailsJob(w)

GrabStep(c) == GrabAdds(c) \/ GrabMirrors(c)

Next ==
  \/ \E w \in Workers : Claim(w) \/ ClaimNothing(w) \/ WorkerStep(w) \/ WorkerCrash(w)
  \/ \E c \in Callers :
       \/ \E r \in Releases : GrabLooksUp(c, r) \/ GrabFindsActive(c, r)
       \/ GrabStep(c) \/ CallerCrash(c)
  \/ \E j \in Jobs : CancelQueued(j) \/ CancelRunning(j) \/ Retry(j) \/ RecoverStale(j)

Spec == Init /\ [][Next]_vars

(* run_forever keeps claiming; whoever has claimed a job, and whoever has  *)
(* begun a grab, goes on to its end.  Users owe nothing.                   *)
Fairness ==
  /\ \A w \in Daemons : WF_vars(Claim(w))
  /\ \A w \in Workers : WF_vars(WorkerStep(w))
  /\ \A c \in Callers : WF_vars(GrabStep(c))

FairSpec == Spec /\ Fairness

-----------------------------------------------------------------------------
(* Properties.                                                             *)

(* Every variable has its type, and a worker or a request holds a job or a *)
(* release exactly while it is not idle.                                   *)
TypeOK ==
  /\ rows \in 0..MaxJobs
  /\ status \in [Jobs -> Status]
  /\ releaseOf \in [Jobs -> Releases \cup {NoRelease}]
  /\ cancelRequested \in [Jobs -> BOOLEAN]
  /\ claimedBy \in [Jobs -> Workers \cup {Nobody}]
  /\ downloadStatus \in [Releases -> Status]
  /\ importStatus \in [Releases -> {"absent", "completed"}]
  /\ library \subseteq Releases
  /\ pc \in [Workers -> WorkerPc]
  /\ wjob \in [Workers -> 0..rows]
  /\ cpc \in [Callers -> {"idle", "add", "mirror"}]
  /\ crel \in [Callers -> Releases \cup {NoRelease}]
  /\ late \subseteq Workers
  /\ contested \subseteq 1..rows
  /\ requeues \in 0..MaxRequeues
  /\ crashes \in 0..MaxCrashes
  /\ \A w \in Workers : pc[w] = "idle" <=> wjob[w] = NoJob
  /\ \A c \in Callers : cpc[c] = "idle" <=> crel[c] = NoRelease
  /\ \A j \in Jobs : /\ status[j] = "absent" <=> j > rows
                     /\ releaseOf[j] = NoRelease <=> j > rows

(* No two workers are inside process_next_download for the same job.  The  *)
(* code does not keep this promise (README, section 6): a retry asks only  *)
(* the row.                                                                *)
OneWorkerPerJob ==
  \A v, w \in Workers : wjob[v] = wjob[w] /\ wjob[v] # NoJob => v = w

(* Of the workers inside for one job, all but the last to claim it had it  *)
(* put back in the queue under them: whatever is retried, recovered,       *)
(* raised or killed, concurrent claims never hand a job out twice.         *)
OneCurrentWorker ==
  \A v, w \in Workers \ late : wjob[v] = wjob[w] /\ wjob[v] # NoJob => v = w

(* A job whose worker is gone can be recovered.  The code does not keep    *)
(* this promise either: recover_stale knows the first running status only. *)
InterruptedIsRecoverable ==
  \A j \in Jobs : status[j] \in Running /\ Inside(j) = {} => Recoverable(j)

(* Whatever crashed, raised or was retried: a job that reads completed,    *)
(* and a release that reads imported, has its book in the library.         *)
CompletedIsImported ==
  /\ \A j \in Jobs : status[j] = "completed" => releaseOf[j] \in library
  /\ \A r \in Releases : importStatus[r] = "completed" => r \in library

(* The claim columns tell the truth about who works on a job, unless it   *)
(* was put back in the queue under a worker that may still write on it: a  *)
(* running job has exactly the claim of the worker that took it, a job     *)
(* that is not running has none, and a worker that has not finished its    *)
(* job holds it.                                                           *)
ClaimTellsOwner ==
  /\ \A j \in Jobs \ contested : claimedBy[j] # Nobody <=> status[j] \in Running
  /\ \A w \in Workers :
       wjob[w] \notin contested /\ pc[w] \notin {"idle", "fail", "activity"}
         => claimedBy[wjob[w]] = w

(* The inductive forms of the invariants above.  A worker about to mark    *)
(* its job completed has imported it; a late worker's job is contested; a  *)
(* worker that is not late has no queued job; a worker in its except block *)
(* has either still the claim or already dropped it.                       *)
ImportInv ==
  /\ CompletedIsImported
  /\ \A w \in Workers : pc[w] = "complete" => releaseOf[wjob[w]] \in library

LateIsContested ==
  \A w \in late : pc[w] # "idle" /\ wjob[w] \in contested

CurrentIsUnqueued ==
  \A w \in Workers \ late : pc[w] # "idle" => status[wjob[w]] # "queued"

UnwindingClaim ==
  \A w \in Workers :
    wjob[w] \notin contested /\ pc[w] \in {"fail", "activity"}
      => claimedBy[wjob[w]] \in {w, Nobody}

ExclusiveInv ==
  /\ OneCurrentWorker
  /\ ClaimTellsOwner
  /\ LateIsContested
  /\ CurrentIsUnqueued
  /\ UnwindingClaim

(* A grab adds a job only for a release that has no active job: grabbing   *)
(* an active release again returns the job it has.                         *)
GrabIsIdempotent ==
  [][\A j \in Jobs :
        status[j] = "absent" /\ status'[j] = "queued"
          => \A k \in Jobs : status[k] \in Active => releaseOf[k] # releaseOf'[j]]_vars

(* A queued job leaves the queue by a claim or by its user's cancel, or it *)
(* is written over by a worker that was inside when it was put back: no    *)
(* other worker, and no crash or exception, loses a retry.                 *)
LeavesQueueProperly ==
  \A j \in Jobs :
    status[j] = "queued" /\ status'[j] # "queued"
      => \/ status'[j] = "downloading" /\ claimedBy'[j] # Nobody
         \/ status'[j] = "canceled" /\ UNCHANGED pc
         \/ \E w \in late : wjob[w] = j /\ pc'[w] # pc[w]

QueuedUntilClaimedOrCanceled == [][LeavesQueueProperly]_vars

(* The queue keeps the promise of JobLifecycle: statuses are the phases of *)
(* an attempt, the claim column is its owner, the library what it has      *)
(* delivered.  A job put back in the queue under a worker is contested.    *)
PhaseOf(s) ==
  CASE s = "absent" -> "absent"
    [] s = "queued" -> "waiting"
    [] s \in Running -> "running"
    [] s = "completed" -> "finished"
    [] s \in {"failed", "canceled"} -> "stopped"

Lifecycle == INSTANCE JobLifecycle WITH
  phase <- [j \in Jobs |-> IF j \in contested THEN "contested" ELSE PhaseOf(status[j])],
  wants <- releaseOf,
  owner <- [j \in Jobs |-> IF j \in contested THEN Nobody ELSE claimedBy[j]],
  delivered <- library

ImplementsLifecycle == Lifecycle!Spec

(* A kill left the job running with nobody at it.                          *)
Stranded(j) == crashes > 0 /\ status[j] \in Running /\ Inside(j) = {}

(* Every queued job, and every job of which the API accepted a             *)
(* cancellation, is eventually completed, failed or canceled, whatever     *)
(* raises or is retried meanwhile and wherever its worker meets the        *)
(* cancellation; only a kill strands it.                                   *)
JobsSettle ==
  \A j \in Jobs :
    status[j] = "queued" \/ cancelRequested[j] ~> status[j] \in Terminal \/ Stranded(j)

=============================================================================
