------------------------- MODULE DownloadJobsProofs -------------------------
(***************************************************************************)
(* Theorems about DownloadJobs, for any number of workers, requests, jobs  *)
(* and releases.                                                           *)
(***************************************************************************)
EXTENDS DownloadJobs, TLAPS

(* What every step below needs: the groups of variables and the ways a     *)
(* worker moves.                                                           *)
USE DEF vars, jobVars, releaseVars, workerVars, callerVars, boundVars,
        Stay, Goto, Return, NoJob

-----------------------------------------------------------------------------
(* Type correctness.                                                       *)

LEMMA TypeInit == Init => TypeOK
  BY ConstantsAssumption DEF Init, TypeOK, Jobs, Status, Active, WorkerPc, InTry

LEMMA TypeGrab ==
  ASSUME TypeOK, NEW c \in Callers
  PROVE  /\ \A r \in Releases : GrabLooksUp(c, r) => TypeOK'
         /\ GrabAdds(c) => TypeOK'
         /\ GrabMirrors(c) => TypeOK'
         /\ CallerCrash(c) => TypeOK'
<1> USE ConstantsAssumption
<1>1. ASSUME NEW r \in Releases, GrabLooksUp(c, r) PROVE TypeOK'
  BY <1>1 DEF GrabLooksUp, TypeOK
<1>2. ASSUME GrabAdds(c) PROVE TypeOK'
  BY <1>2 DEF GrabAdds, TypeOK, Jobs, Status, Active
<1>3. ASSUME GrabMirrors(c) PROVE TypeOK'
  BY <1>3 DEF GrabMirrors, TypeOK, Status, Active
<1>4. ASSUME CallerCrash(c) PROVE TypeOK'
  BY <1>4 DEF CallerCrash, TypeOK
<1>5. QED BY <1>1, <1>2, <1>3, <1>4

LEMMA TypeRequests ==
  ASSUME TypeOK, NEW j \in Jobs
  PROVE  /\ CancelQueued(j) => TypeOK'
         /\ CancelRunning(j) => TypeOK'
         /\ Retry(j) => TypeOK'
         /\ RecoverStale(j) => TypeOK'
<1> USE ConstantsAssumption DEF TypeOK, Jobs, Status, Active, Running, Terminal,
        WriteStatus, ClearClaim, ClearCancel, Requeued, Inside
<1>1. CancelQueued(j) => TypeOK'
  BY DEF CancelQueued
<1>2. CancelRunning(j) => TypeOK'
  BY DEF CancelRunning
<1>3. Retry(j) => TypeOK'
  BY DEF Retry
<1>4. RecoverStale(j) => TypeOK'
  BY DEF RecoverStale, Recoverable
<1>5. QED BY <1>1, <1>2, <1>3, <1>4

LEMMA TypeWorkerStep ==
  ASSUME TypeOK, NEW w \in Workers, WorkerStep(w)
  PROVE  TypeOK'
<1> USE ConstantsAssumption DEF TypeOK, Jobs, Status, Active, Running, Terminal,
        WorkerPc, InTry
<1>1. CASE ClaimMirrors(w)
  BY <1>1 DEF ClaimMirrors
<1>2. CASE CheckBeforeDownload(w)
  BY <1>2 DEF CheckBeforeDownload
<1>3. CASE CancelBeforeDownload(w)
  BY <1>3 DEF CancelBeforeDownload, MarkCanceled, WriteStatus, ClearClaim, ClearCancel
<1>4. CASE DownloadSucceeds(w)
  BY <1>4 DEF DownloadSucceeds
<1>5. CASE DownloadSeesCancel(w)
  BY <1>5 DEF DownloadSeesCancel
<1>6. CASE DownloadRefused(w)
  BY <1>6 DEF DownloadRefused
<1>7. CASE DownloadFails(w)
  BY <1>7 DEF DownloadFails
<1>8. CASE EngineMarksFailed(w)
  BY <1>8 DEF EngineMarksFailed, MarkFailed, WriteStatus, ClearClaim
<1>9. CASE CheckAfterDownload(w)
  BY <1>9 DEF CheckAfterDownload
<1>10. CASE CancelAfterDownload(w)
  BY <1>10 DEF CancelAfterDownload, MarkCanceled, WriteStatus, ClearClaim, ClearCancel
<1>11. CASE EntersPostprocessing(w)
  BY <1>11 DEF EntersPostprocessing, SetRuntimeStatus, WriteStatus
<1>12. CASE Postprocess(w)
  BY <1>12 DEF Postprocess
<1>13. CASE EntersImporting(w)
  BY <1>13 DEF EntersImporting, SetRuntimeStatus, WriteStatus
<1>14. CASE Imports(w)
  BY <1>14 DEF Imports
<1>15. CASE ImportFails(w)
  BY <1>15 DEF ImportFails
<1>16. CASE Completes(w)
  BY <1>16 DEF Completes, MarkCompleted, WriteStatus, ClearClaim, ClearCancel
<1>17. CASE AppendsActivity(w)
  BY <1>17 DEF AppendsActivity
<1>18. CASE RaisesInTry(w)
  BY <1>18 DEF RaisesInTry
<1>19. CASE FailsJob(w)
  BY <1>19 DEF FailsJob, MarkFailed, WriteStatus, ClearClaim
<1>20. QED BY <1>1, <1>2, <1>3, <1>4, <1>5, <1>6, <1>7, <1>8, <1>9, <1>10, <1>11, <1>12, <1>13, <1>14, <1>15, <1>16, <1>17, <1>18, <1>19 DEF WorkerStep

LEMMA TypeClaimOrCrash ==
  ASSUME TypeOK, NEW w \in Workers
  PROVE  /\ Claim(w) => TypeOK'
         /\ WorkerCrash(w) => TypeOK'
<1> USE ConstantsAssumption DEF TypeOK, WorkerPc, InTry
<1>1. Claim(w) => TypeOK'
  BY DEF Claim, OldestQueued, Jobs, Status, Active, Running
<1>2. WorkerCrash(w) => TypeOK'
  BY DEF WorkerCrash
<1>3. QED BY <1>1, <1>2

(* Each step of the system keeps every variable in its type.               *)
THEOREM TypeCorrect == Spec => []TypeOK
<1>1. Init => TypeOK
  BY TypeInit
<1>2. TypeOK /\ [Next]_vars => TypeOK'
  <2> SUFFICES ASSUME TypeOK, [Next]_vars PROVE TypeOK'
    OBVIOUS
  <2>1. CASE UNCHANGED vars
    BY <2>1 DEF TypeOK
  <2>2. ASSUME NEW w \in Workers,
               Claim(w) \/ ClaimNothing(w) \/ WorkerStep(w) \/ WorkerCrash(w)
        PROVE  TypeOK'
    <3>1. CASE ClaimNothing(w)
      BY <2>1, <3>1 DEF ClaimNothing
    <3>2. QED BY <2>2, <3>1, TypeClaimOrCrash, TypeWorkerStep
  <2>3. ASSUME NEW c \in Callers,
               \/ \E r \in Releases : GrabLooksUp(c, r) \/ GrabFindsActive(c, r)
               \/ GrabStep(c) \/ CallerCrash(c)
        PROVE  TypeOK'
    <3>1. ASSUME NEW r \in Releases, GrabFindsActive(c, r) PROVE TypeOK'
      BY <2>1, <3>1 DEF GrabFindsActive
    <3>2. QED BY <2>3, <3>1, TypeGrab DEF GrabStep
  <2>4. ASSUME NEW j \in Jobs,
               CancelQueued(j) \/ CancelRunning(j) \/ Retry(j) \/ RecoverStale(j)
        PROVE  TypeOK'
    BY <2>4, TypeRequests
  <2>5. QED BY <2>1, <2>2, <2>3, <2>4 DEF Next
<1>3. QED BY <1>1, <1>2, PTL DEF Spec

-----------------------------------------------------------------------------
(* A completed job has been imported, whatever crashed, raised or raced.   *)

(* The worker's steps that leave the job table and the library alone, and  *)
(* those that write on the status of its own job.                          *)
QuietStep(w) ==
  \/ ClaimMirrors(w) \/ CheckBeforeDownload(w)
  \/ DownloadSucceeds(w) \/ DownloadSeesCancel(w) \/ DownloadRefused(w)
  \/ DownloadFails(w) \/ CheckAfterDownload(w) \/ Postprocess(w)
  \/ ImportFails(w) \/ AppendsActivity(w) \/ RaisesInTry(w)

StoppingStep(w) ==
  \/ CancelBeforeDownload(w) \/ EngineMarksFailed(w)
  \/ CancelAfterDownload(w) \/ FailsJob(w)

StageStep(w) == EntersPostprocessing(w) \/ EntersImporting(w)

LEMMA WorkerStepKinds ==
  ASSUME NEW w \in Workers, WorkerStep(w)
  PROVE  QuietStep(w) \/ StoppingStep(w) \/ StageStep(w) \/ Imports(w) \/ Completes(w)
  BY DEF WorkerStep, QuietStep, StoppingStep, StageStep

(* A worker drops its job and with it its being late.                      *)
Leaves(w) ==
  /\ wjob' = [wjob EXCEPT ![w] = NoJob]
  /\ late' = late \ {w}

(* What the first three kinds do, in one formula each.                     *)
LEMMA QuietEffect ==
  ASSUME TypeOK, NEW w \in Workers, QuietStep(w)
  PROVE  /\ UNCHANGED <<jobVars, importStatus, library, contested>>
         /\ pc[w] \notin {"idle", "fail", "canceling"}
         /\ \E to : /\ pc' = [pc EXCEPT ![w] = to]
                    /\ \/ to # "idle" /\ UNCHANGED <<wjob, late>>
                       \/ to = "idle" /\ Leaves(w)
                    /\ to \notin {"claimed", "complete", "activity"}
                    /\ pc[w] = "activity" => to \in {"idle", "fail"}
<1> USE DEF InTry, Leaves
<1>1. CASE ClaimMirrors(w)
  BY <1>1 DEF ClaimMirrors
<1>2. CASE CheckBeforeDownload(w)
  BY <1>2 DEF CheckBeforeDownload
<1>3. CASE DownloadSucceeds(w)
  BY <1>3 DEF DownloadSucceeds
<1>4. CASE DownloadSeesCancel(w) \/ DownloadRefused(w) \/ DownloadFails(w)
  BY <1>4 DEF DownloadSeesCancel, DownloadRefused, DownloadFails
<1>5. CASE CheckAfterDownload(w)
  BY <1>5 DEF CheckAfterDownload
<1>6. CASE Postprocess(w) \/ ImportFails(w)
  BY <1>6 DEF Postprocess, ImportFails
<1>7. CASE AppendsActivity(w)
  BY <1>7 DEF AppendsActivity
<1>8. CASE RaisesInTry(w)
  BY <1>8 DEF RaisesInTry
<1>9. QED
  BY <1>1, <1>2, <1>3, <1>4, <1>5, <1>6, <1>7, <1>8 DEF QuietStep

LEMMA StoppingEffect ==
  ASSUME TypeOK, NEW w \in Workers, StoppingStep(w)
  PROVE  /\ wjob[w] \in 1..rows
         /\ pc[w] \in {"cancel1", "cancel2", "engineFail", "fail", "canceling"}
         /\ \E s \in {"failed", "canceled"} : status' = [status EXCEPT ![wjob[w]] = s]
         /\ claimedBy' = [claimedBy EXCEPT ![wjob[w]] = Nobody]
         /\ UNCHANGED <<rows, releaseOf, importStatus, library, contested>>
         /\ \/ pc' = [pc EXCEPT ![w] = "idle"] /\ Leaves(w)
            \/ \E to \in {"fail", "activity"} :
                 /\ to # pc[w]
                 /\ pc' = [pc EXCEPT ![w] = to]
                 /\ UNCHANGED <<wjob, late>>
<1> USE DEF WriteStatus, ClearClaim, TypeOK, Leaves
<1>1. CASE CancelBeforeDownload(w)
  BY <1>1 DEF CancelBeforeDownload, MarkCanceled
<1>2. CASE EngineMarksFailed(w)
  BY <1>2 DEF EngineMarksFailed, MarkFailed
<1>3. CASE CancelAfterDownload(w)
  BY <1>3 DEF CancelAfterDownload, MarkCanceled
<1>4. CASE FailsJob(w)
  BY <1>4 DEF FailsJob, MarkFailed
<1>5. QED BY <1>1, <1>2, <1>3, <1>4 DEF StoppingStep

LEMMA StageEffect ==
  ASSUME TypeOK, NEW w \in Workers, StageStep(w)
  PROVE  /\ wjob[w] \in 1..rows
         /\ pc[w] \in {"setPost", "setImport"}
         /\ \E s \in {"postprocessing", "importing"} : status' = [status EXCEPT ![wjob[w]] = s]
         /\ UNCHANGED <<rows, releaseOf, claimedBy, importStatus, library>>
         /\ UNCHANGED <<wjob, late, contested>>
         /\ \E to \in {"postprocess", "import"} : pc' = [pc EXCEPT ![w] = to]
  BY DEF StageStep, EntersPostprocessing, EntersImporting, SetRuntimeStatus, WriteStatus, TypeOK

(* What requests, and the worker that finds nothing, do.                   *)
RequestStep ==
  \/ \E c \in Callers :
       \/ \E r \in Releases : GrabLooksUp(c, r) \/ GrabFindsActive(c, r)
       \/ GrabStep(c) \/ CallerCrash(c)
  \/ \E w \in Workers : ClaimNothing(w)
  \/ \E j \in Jobs : CancelQueued(j) \/ CancelRunning(j) \/ Retry(j) \/ RecoverStale(j)

AddsRow(r) ==
  /\ rows + 1 \in Jobs
  /\ rows' = rows + 1
  /\ status' = [status EXCEPT ![rows + 1] = "queued"]
  /\ releaseOf' = [releaseOf EXCEPT ![rows + 1] = r]
  /\ UNCHANGED <<claimedBy, late, contested>>

DropsQueued(j) ==
  /\ status[j] = "queued"
  /\ status' = [status EXCEPT ![j] = "canceled"]
  /\ UNCHANGED <<rows, releaseOf, claimedBy, late, contested>>

PutsBack(j) ==
  /\ status[j] \in {"failed", "canceled", "downloading"}
  /\ status' = [status EXCEPT ![j] = "queued"]
  /\ claimedBy' = [claimedBy EXCEPT ![j] = Nobody]
  /\ late' = late \cup Inside(j)
  /\ contested' = IF Inside(j) = {} THEN contested \ {j} ELSE contested \cup {j}
  /\ UNCHANGED <<rows, releaseOf>>

LeavesJobsAlone == UNCHANGED <<rows, status, releaseOf, claimedBy, late, contested>>

LEMMA RequestEffect ==
  ASSUME TypeOK, RequestStep
  PROVE  /\ UNCHANGED <<pc, wjob, importStatus, library>>
         /\ \/ LeavesJobsAlone
            \/ \E r \in Releases : AddsRow(r)
            \/ \E j \in Jobs : DropsQueued(j) \/ PutsBack(j)
<1>1. ASSUME NEW c \in Callers,
             \/ \E r \in Releases : GrabLooksUp(c, r) \/ GrabFindsActive(c, r)
             \/ GrabMirrors(c) \/ CallerCrash(c)
      PROVE  UNCHANGED <<pc, wjob, importStatus, library>> /\ LeavesJobsAlone
  BY <1>1 DEF GrabLooksUp, GrabFindsActive, GrabMirrors, CallerCrash, LeavesJobsAlone
<1>2. ASSUME NEW c \in Callers, GrabAdds(c)
      PROVE  UNCHANGED <<pc, wjob, importStatus, library>> /\ \E r \in Releases : AddsRow(r)
  <2>1. crel[c] \in Releases
    BY <1>2 DEF GrabAdds, TypeOK
  <2>2. rows + 1 \in Jobs
    BY <1>2, ConstantsAssumption DEF GrabAdds, TypeOK, Jobs
  <2>3. AddsRow(crel[c])
    BY <1>2, <2>2 DEF GrabAdds, AddsRow
  <2>4. UNCHANGED <<pc, wjob, importStatus, library>>
    BY <1>2 DEF GrabAdds
  <2>5. QED BY <2>1, <2>3, <2>4
<1>3. ASSUME NEW w \in Workers, ClaimNothing(w)
      PROVE  UNCHANGED <<pc, wjob, importStatus, library>> /\ LeavesJobsAlone
  BY <1>3 DEF ClaimNothing, LeavesJobsAlone
<1>4. ASSUME NEW j \in Jobs, CancelQueued(j)
      PROVE  UNCHANGED <<pc, wjob, importStatus, library>> /\ DropsQueued(j)
  BY <1>4 DEF CancelQueued, WriteStatus, DropsQueued
<1>5. ASSUME NEW j \in Jobs, CancelRunning(j)
      PROVE  UNCHANGED <<pc, wjob, importStatus, library>> /\ LeavesJobsAlone
  BY <1>5 DEF CancelRunning, LeavesJobsAlone
<1>6. ASSUME NEW j \in Jobs, Retry(j) \/ RecoverStale(j)
      PROVE  UNCHANGED <<pc, wjob, importStatus, library>> /\ PutsBack(j)
  BY <1>6 DEF Retry, RecoverStale, Recoverable, Requeued, WriteStatus, ClearClaim, PutsBack
<1>7. QED
  BY <1>1, <1>2, <1>3, <1>4, <1>5, <1>6 DEF GrabStep, RequestStep

(* Next, sorted by kind of step.                                           *)
StepKinds ==
  \/ \E w \in Workers :
       \/ Claim(w) \/ WorkerCrash(w) \/ QuietStep(w) \/ StoppingStep(w)
       \/ StageStep(w) \/ Imports(w) \/ Completes(w)
  \/ RequestStep

LEMMA NextKinds == Next => StepKinds
  BY WorkerStepKinds DEF Next, StepKinds, RequestStep

LEMMA ImportStep ==
  ASSUME TypeOK, ImportInv, [Next]_vars
  PROVE  ImportInv'
<1> USE DEF ImportInv, CompletedIsImported
<1>1. ASSUME UNCHANGED <<status, releaseOf, importStatus, library, pc, wjob>>
      PROVE  ImportInv'
  BY <1>1
<1>2. ASSUME NEW w \in Workers, Claim(w) PROVE ImportInv'
  BY <1>2 DEF Claim, TypeOK
<1>3. ASSUME NEW w \in Workers, WorkerCrash(w) PROVE ImportInv'
  BY <1>3 DEF WorkerCrash, TypeOK
<1>4. ASSUME NEW w \in Workers, QuietStep(w) PROVE ImportInv'
  BY <1>4, QuietEffect DEF TypeOK, Leaves
<1>5. ASSUME NEW w \in Workers, StoppingStep(w) PROVE ImportInv'
  BY <1>5, StoppingEffect DEF TypeOK, Leaves
<1>6. ASSUME NEW w \in Workers, StageStep(w) PROVE ImportInv'
  BY <1>6, StageEffect DEF TypeOK
<1>7. ASSUME NEW w \in Workers, Imports(w) PROVE ImportInv'
  BY <1>7 DEF Imports, TypeOK
<1>8. ASSUME NEW w \in Workers, Completes(w) PROVE ImportInv'
  BY <1>8 DEF Completes, MarkCompleted, WriteStatus, TypeOK
<1>9. CASE RequestStep
  <2>1. UNCHANGED <<pc, wjob, importStatus, library>>
    BY <1>9, RequestEffect
  <2>2. CASE LeavesJobsAlone
    BY <1>1, <2>1, <2>2 DEF LeavesJobsAlone
  <2>3. ASSUME NEW r \in Releases, AddsRow(r) PROVE ImportInv'
    BY <2>1, <2>3, ConstantsAssumption DEF AddsRow, TypeOK, Jobs
  <2>4. ASSUME NEW j \in Jobs, DropsQueued(j) PROVE ImportInv'
    BY <2>1, <2>4 DEF DropsQueued, TypeOK
  <2>5. ASSUME NEW j \in Jobs, PutsBack(j) PROVE ImportInv'
    BY <2>1, <2>5 DEF PutsBack, TypeOK
  <2>6. QED BY <1>9, <2>2, <2>3, <2>4, <2>5, RequestEffect
<1>10. QED
  BY <1>1, <1>2, <1>3, <1>4, <1>5, <1>6, <1>7, <1>8, <1>9, NextKinds DEF StepKinds

(* A job that reads completed and a release that reads imported have their *)
(* book in the library, under every crash, store error, retry and recovery.*)
THEOREM CompletedJobsAreImported == Spec => []CompletedIsImported
<1>1. Init => ImportInv
  BY DEF Init, ImportInv, CompletedIsImported
<1>2. TypeOK /\ ImportInv /\ [Next]_vars => ImportInv'
  BY ImportStep
<1>3. ImportInv => CompletedIsImported
  BY DEF ImportInv
<1>4. QED BY <1>1, <1>2, <1>3, TypeCorrect, PTL DEF Spec

-----------------------------------------------------------------------------
(* Claims, and who writes on a job, under retries, recoveries, crashes and *)
(* raising statements.                                                     *)

LEMMA ExclusiveUnchanged ==
  ASSUME ExclusiveInv, UNCHANGED <<status, claimedBy, pc, wjob, late, contested>>
  PROVE  ExclusiveInv'
  BY DEF ExclusiveInv, OneCurrentWorker, ClaimTellsOwner, LateIsContested,
         CurrentIsUnqueued, UnwindingClaim, Running

(* Nobody is inside for a queued job that is not contested.                *)
LEMMA QueuedIsFree ==
  ASSUME ExclusiveInv, TypeOK, NEW j \in Jobs, status[j] = "queued"
  PROVE  /\ \A w \in Workers : wjob[w] = j => w \in late
         /\ j \notin contested => claimedBy[j] = Nobody /\ \A w \in Workers : wjob[w] # j
<1>1. \A w \in Workers : wjob[w] = j => pc[w] # "idle"
  BY DEF TypeOK, Jobs
<1>2. \A w \in Workers : wjob[w] = j => w \in late
  BY <1>1 DEF ExclusiveInv, CurrentIsUnqueued
<1>3. j \notin contested => \A w \in Workers : wjob[w] # j
  BY <1>2 DEF ExclusiveInv, LateIsContested
<1>4. j \notin contested => claimedBy[j] = Nobody
  BY DEF ExclusiveInv, ClaimTellsOwner, Running
<1>5. QED BY <1>2, <1>3, <1>4

(* One worker at most is inside for a job that is not contested.           *)
LEMMA UncontestedIsAlone ==
  ASSUME ExclusiveInv, TypeOK, NEW v \in Workers, NEW w \in Workers,
         wjob[v] = wjob[w], wjob[w] # NoJob, wjob[w] \notin contested
  PROVE  v = w
  BY DEF ExclusiveInv, LateIsContested, OneCurrentWorker

LEMMA ExclusiveClaim ==
  ASSUME TypeOK, ExclusiveInv, NEW w \in Workers, Claim(w)
  PROVE  ExclusiveInv'
<1>1. PICK j \in Jobs : /\ OldestQueued(j)
                        /\ wjob' = [wjob EXCEPT ![w] = j]
                        /\ status' = [status EXCEPT ![j] = "downloading"]
                        /\ claimedBy' = [claimedBy EXCEPT ![j] = w]
  BY DEF Claim
<1>2. /\ pc[w] = "idle" /\ pc' = [pc EXCEPT ![w] = "claimed"]
      /\ UNCHANGED <<late, contested>>
      /\ w \notin late
      /\ status[j] = "queued"
  BY <1>1 DEF Claim, OldestQueued, ExclusiveInv, LateIsContested
<1>3. /\ \A v \in Workers : wjob[v] = j => v \in late
      /\ j \notin contested => \A v \in Workers : wjob[v] # j
  BY <1>2, QueuedIsFree
<1> USE ConstantsAssumption DEF TypeOK, Jobs
<1>4. OneCurrentWorker'
  BY <1>1, <1>2, <1>3 DEF ExclusiveInv, OneCurrentWorker
<1>5. ClaimTellsOwner'
  <2>1. ASSUME NEW k \in Jobs \ contested PROVE claimedBy'[k] # Nobody <=> status'[k] \in Running
    BY <1>1, <2>1 DEF ExclusiveInv, ClaimTellsOwner, Running
  <2>2. ASSUME NEW v \in Workers, wjob'[v] \notin contested,
               pc'[v] \notin {"idle", "fail", "activity"}
        PROVE  claimedBy'[wjob'[v]] = v
    <3>1. CASE v = w
      BY <1>1, <3>1
    <3>2. CASE v # w
      BY <1>1, <1>2, <1>3, <2>2, <3>2 DEF ExclusiveInv, ClaimTellsOwner
    <3>3. QED BY <3>1, <3>2
  <2>3. QED BY <1>2, <2>1, <2>2 DEF ClaimTellsOwner
<1>6. LateIsContested'
  BY <1>1, <1>2 DEF ExclusiveInv, LateIsContested
<1>7. CurrentIsUnqueued'
  BY <1>1, <1>2 DEF ExclusiveInv, CurrentIsUnqueued
<1>8. UnwindingClaim'
  BY <1>1, <1>2, <1>3 DEF ExclusiveInv, UnwindingClaim
<1>9. QED BY <1>4, <1>5, <1>6, <1>7, <1>8 DEF ExclusiveInv

(* A worker that leaves, killed or done, and leaves the job table alone,   *)
(* or goes on inside.                                                      *)
LEMMA ExclusiveMoves ==
  ASSUME TypeOK, ExclusiveInv, NEW w \in Workers, NEW to,
         UNCHANGED <<status, claimedBy, contested>>,
         pc[w] # "idle", pc' = [pc EXCEPT ![w] = to],
         to # "activity",
         pc[w] \in {"fail", "activity"} => to \in {"idle", "fail"},
         \/ to # "idle" /\ UNCHANGED <<wjob, late>>
         \/ to = "idle" /\ Leaves(w)
  PROVE  ExclusiveInv'
<1> USE DEF TypeOK
<1>1. OneCurrentWorker'
  BY DEF ExclusiveInv, OneCurrentWorker, Leaves
<1>2. ClaimTellsOwner'
  <2>1. ASSUME NEW v \in Workers, wjob'[v] \notin contested',
               pc'[v] \notin {"idle", "fail", "activity"}
        PROVE  wjob'[v] = wjob[v] /\ claimedBy[wjob[v]] = v
    BY <2>1 DEF ExclusiveInv, ClaimTellsOwner, Leaves
  <2>2. QED BY <2>1 DEF ExclusiveInv, ClaimTellsOwner
<1>3. LateIsContested'
  BY DEF ExclusiveInv, LateIsContested, Leaves
<1>4. CurrentIsUnqueued'
  BY DEF ExclusiveInv, CurrentIsUnqueued, Leaves
<1>5. UnwindingClaim'
  <2>1. ASSUME NEW v \in Workers, wjob'[v] \notin contested', pc'[v] \in {"fail", "activity"}
        PROVE  wjob'[v] = wjob[v] /\ claimedBy[wjob[v]] \in {v, Nobody}
    <3>1. wjob'[v] = wjob[v] /\ pc[v] # "idle"
      BY <2>1 DEF Leaves
    <3>2. QED BY <2>1, <3>1 DEF ExclusiveInv, ClaimTellsOwner, UnwindingClaim
  <2>2. QED BY <2>1 DEF UnwindingClaim
<1>6. QED BY <1>1, <1>2, <1>3, <1>4, <1>5 DEF ExclusiveInv

(* A worker ends its job, whatever status it gives it, and lets go of the  *)
(* claim.                                                                  *)
LEMMA ExclusiveSettles ==
  ASSUME TypeOK, ExclusiveInv, NEW w \in Workers, NEW to, NEW s \in Terminal,
         wjob[w] \in 1..rows,
         status' = [status EXCEPT ![wjob[w]] = s],
         claimedBy' = [claimedBy EXCEPT ![wjob[w]] = Nobody],
         UNCHANGED contested,
         pc' = [pc EXCEPT ![w] = to],
         \/ to \in {"fail", "activity"} /\ UNCHANGED <<wjob, late>>
         \/ to = "idle" /\ Leaves(w)
  PROVE  ExclusiveInv'
<1> DEFINE j == wjob[w]
<1>1. j \in Jobs /\ j # NoJob /\ s \notin Running \cup {"queued"} /\ pc[w] # "idle"
  BY ConstantsAssumption DEF TypeOK, Jobs, Running, Terminal
<1>2. j \notin contested => \A v \in Workers : wjob[v] = j => v = w
  BY <1>1, UncontestedIsAlone
<1> USE DEF TypeOK
<1>3. OneCurrentWorker'
  BY DEF ExclusiveInv, OneCurrentWorker, Leaves
<1>4. ClaimTellsOwner'
  <2>1. ASSUME NEW k \in Jobs \ contested PROVE claimedBy'[k] # Nobody <=> status'[k] \in Running
    BY <1>1, <2>1 DEF ExclusiveInv, ClaimTellsOwner
  <2>2. ASSUME NEW v \in Workers, wjob'[v] \notin contested,
               pc'[v] \notin {"idle", "fail", "activity"}
        PROVE  claimedBy'[wjob'[v]] = v
    <3>1. v # w /\ wjob'[v] = wjob[v] /\ pc'[v] = pc[v]
      BY <2>2 DEF Leaves
    <3>2. wjob[v] # j /\ claimedBy[wjob[v]] = v
      BY <1>2, <2>2, <3>1 DEF ExclusiveInv, ClaimTellsOwner
    <3>3. QED BY <3>1, <3>2
  <2>3. QED BY <2>1, <2>2 DEF ClaimTellsOwner
<1>5. LateIsContested'
  BY DEF ExclusiveInv, LateIsContested, Leaves
<1>6. CurrentIsUnqueued'
  BY <1>1 DEF ExclusiveInv, CurrentIsUnqueued, Leaves
<1>7. UnwindingClaim'
  <2>1. ASSUME NEW v \in Workers, wjob'[v] \notin contested, pc'[v] \in {"fail", "activity"}
        PROVE  claimedBy'[wjob'[v]] \in {v, Nobody}
    <3>1. wjob'[v] = wjob[v]
      BY <2>1 DEF Leaves
    <3>2. CASE v = w
      BY <3>1, <3>2, <1>1
    <3>3. CASE v # w
      BY <2>1, <3>1, <3>3, <1>1 DEF ExclusiveInv, UnwindingClaim
    <3>4. QED BY <3>2, <3>3
  <2>2. QED BY <2>1 DEF UnwindingClaim
<1>8. QED BY <1>3, <1>4, <1>5, <1>6, <1>7 DEF ExclusiveInv

LEMMA ExclusiveStage ==
  ASSUME TypeOK, ExclusiveInv, NEW w \in Workers, StageStep(w)
  PROVE  ExclusiveInv'
<1>1. PICK s \in {"postprocessing", "importing"} : status' = [status EXCEPT ![wjob[w]] = s]
  BY StageEffect
<1>2. PICK to \in {"postprocess", "import"} : pc' = [pc EXCEPT ![w] = to]
  BY StageEffect
<1>3. /\ UNCHANGED <<claimedBy, wjob, late, contested>>
      /\ wjob[w] \in Jobs
      /\ pc[w] \in {"setPost", "setImport"}
  BY StageEffect, ConstantsAssumption DEF TypeOK, Jobs
<1>4. wjob[w] \notin contested => claimedBy[wjob[w]] = w
  BY <1>3 DEF ExclusiveInv, ClaimTellsOwner
<1> USE DEF TypeOK
<1>5. OneCurrentWorker'
  BY <1>3 DEF ExclusiveInv, OneCurrentWorker
<1>6. ClaimTellsOwner'
  BY <1>1, <1>2, <1>3, <1>4, ConstantsAssumption DEF ExclusiveInv, ClaimTellsOwner, Running
<1>7. LateIsContested'
  BY <1>2, <1>3 DEF ExclusiveInv, LateIsContested
<1>8. CurrentIsUnqueued'
  BY <1>1, <1>2, <1>3 DEF ExclusiveInv, CurrentIsUnqueued
<1>9. UnwindingClaim'
  BY <1>2, <1>3 DEF ExclusiveInv, UnwindingClaim
<1>10. QED BY <1>5, <1>6, <1>7, <1>8, <1>9 DEF ExclusiveInv

LEMMA ExclusiveAdds ==
  ASSUME TypeOK, ExclusiveInv, NEW r \in Releases, AddsRow(r), UNCHANGED <<pc, wjob>>
  PROVE  ExclusiveInv'
<1> USE DEF AddsRow
<1>1. /\ \A w \in Workers : wjob[w] # rows + 1
      /\ status[rows + 1] = "absent"
  BY DEF TypeOK
<1>2. OneCurrentWorker' /\ LateIsContested' /\ UnwindingClaim'
  BY DEF ExclusiveInv, OneCurrentWorker, LateIsContested, UnwindingClaim
<1>3. ClaimTellsOwner'
  BY <1>1 DEF ExclusiveInv, ClaimTellsOwner, TypeOK, Running
<1>4. CurrentIsUnqueued'
  BY <1>1 DEF ExclusiveInv, CurrentIsUnqueued, TypeOK
<1>5. QED BY <1>2, <1>3, <1>4 DEF ExclusiveInv

LEMMA ExclusiveDrops ==
  ASSUME TypeOK, ExclusiveInv, NEW j \in Jobs, DropsQueued(j), UNCHANGED <<pc, wjob>>
  PROVE  ExclusiveInv'
<1> USE DEF DropsQueued
<1>1. OneCurrentWorker' /\ LateIsContested' /\ UnwindingClaim'
  BY DEF ExclusiveInv, OneCurrentWorker, LateIsContested, UnwindingClaim
<1>2. ClaimTellsOwner'
  BY DEF ExclusiveInv, ClaimTellsOwner, TypeOK, Running
<1>3. CurrentIsUnqueued'
  BY DEF ExclusiveInv, CurrentIsUnqueued, TypeOK
<1>4. QED BY <1>1, <1>2, <1>3 DEF ExclusiveInv

(* A job put back: whoever is inside for it is late from now on.           *)
LEMMA ExclusivePutsBack ==
  ASSUME TypeOK, ExclusiveInv, NEW j \in Jobs, PutsBack(j), UNCHANGED <<pc, wjob>>
  PROVE  ExclusiveInv'
<1> USE DEF PutsBack
<1>1. j # NoJob /\ \A w \in Workers : wjob[w] = j => pc[w] # "idle"
  BY DEF TypeOK, Jobs
<1>2. /\ \A w \in Workers : w \in late' <=> w \in late \/ wjob[w] = j
      /\ j \notin contested' => \A w \in Workers : wjob[w] # j
      /\ \A k : k # j => (k \in contested' <=> k \in contested)
      /\ \A w \in Workers : wjob[w] = j => j \in contested'
  BY DEF Inside
<1>3. OneCurrentWorker'
  BY <1>2 DEF ExclusiveInv, OneCurrentWorker
<1>4. ClaimTellsOwner'
  <2>1. ASSUME NEW k \in Jobs, k \notin contested'
        PROVE  claimedBy'[k] # Nobody <=> status'[k] \in Running
    BY <1>2, <2>1 DEF ExclusiveInv, ClaimTellsOwner, TypeOK, Running
  <2>2. ASSUME NEW w \in Workers, wjob[w] \notin contested',
               pc[w] \notin {"idle", "fail", "activity"}
        PROVE  claimedBy'[wjob[w]] = w
    BY <1>2, <2>2 DEF ExclusiveInv, ClaimTellsOwner, TypeOK
  <2>3. QED BY <2>1, <2>2 DEF ClaimTellsOwner
<1>5. LateIsContested'
  <2>1. ASSUME NEW w \in late' PROVE w \in Workers /\ pc[w] # "idle" /\ wjob[w] \in contested'
    BY <1>1, <1>2, <2>1 DEF ExclusiveInv, LateIsContested, Inside, TypeOK
  <2>2. QED BY <2>1 DEF LateIsContested
<1>6. CurrentIsUnqueued'
  BY <1>2 DEF ExclusiveInv, CurrentIsUnqueued, TypeOK
<1>7. UnwindingClaim'
  BY <1>2 DEF ExclusiveInv, UnwindingClaim, TypeOK
<1>8. QED BY <1>3, <1>4, <1>5, <1>6, <1>7 DEF ExclusiveInv

LEMMA ExclusiveStep ==
  ASSUME TypeOK, ExclusiveInv, [Next]_vars
  PROVE  ExclusiveInv'
<1>1. CASE UNCHANGED vars
  BY <1>1, ExclusiveUnchanged
<1>2. ASSUME NEW w \in Workers, Claim(w) PROVE ExclusiveInv'
  BY <1>2, ExclusiveClaim
<1>3. ASSUME NEW w \in Workers, WorkerCrash(w) PROVE ExclusiveInv'
  <2>1. /\ UNCHANGED <<status, claimedBy, contested>>
        /\ pc[w] # "idle" /\ pc' = [pc EXCEPT ![w] = "idle"] /\ Leaves(w)
    BY <1>3 DEF WorkerCrash, Leaves
  <2>2. QED BY <2>1, ExclusiveMoves
<1>4. ASSUME NEW w \in Workers, QuietStep(w) PROVE ExclusiveInv'
  <2>1. PICK to : /\ pc' = [pc EXCEPT ![w] = to]
                  /\ to # "activity"
                  /\ pc[w] = "activity" => to \in {"idle", "fail"}
                  /\ \/ to # "idle" /\ UNCHANGED <<wjob, late>>
                     \/ to = "idle" /\ Leaves(w)
    BY <1>4, QuietEffect
  <2>2. UNCHANGED <<status, claimedBy, contested>> /\ pc[w] \notin {"idle", "fail"}
    BY <1>4, QuietEffect
  <2>3. QED BY <2>1, <2>2, ExclusiveMoves
<1>5. ASSUME NEW w \in Workers, StoppingStep(w) PROVE ExclusiveInv'
  <2>1. PICK s \in {"failed", "canceled"} : status' = [status EXCEPT ![wjob[w]] = s]
    BY <1>5, StoppingEffect
  <2>2. PICK to \in {"idle", "fail", "activity"} :
          /\ pc' = [pc EXCEPT ![w] = to]
          /\ \/ to \in {"fail", "activity"} /\ UNCHANGED <<wjob, late>>
             \/ to = "idle" /\ Leaves(w)
    BY <1>5, StoppingEffect
  <2>3. /\ wjob[w] \in 1..rows
        /\ claimedBy' = [claimedBy EXCEPT ![wjob[w]] = Nobody]
        /\ UNCHANGED contested
    BY <1>5, StoppingEffect
  <2>4. s \in Terminal
    BY DEF Terminal
  <2>5. QED BY <2>1, <2>2, <2>3, <2>4, ExclusiveSettles
<1>6. ASSUME NEW w \in Workers, StageStep(w) PROVE ExclusiveInv'
  BY <1>6, ExclusiveStage
<1>7. ASSUME NEW w \in Workers, Imports(w) PROVE ExclusiveInv'
  <2>1. PICK to \in {"complete", "fail"} : pc' = [pc EXCEPT ![w] = to]
    BY <1>7 DEF Imports
  <2>2. pc[w] = "import" /\ UNCHANGED <<status, claimedBy, contested, wjob, late>>
    BY <1>7 DEF Imports
  <2>3. QED BY <2>1, <2>2, ExclusiveMoves
<1>8. ASSUME NEW w \in Workers, Completes(w) PROVE ExclusiveInv'
  <2>1. /\ status' = [status EXCEPT ![wjob[w]] = "completed"]
        /\ claimedBy' = [claimedBy EXCEPT ![wjob[w]] = Nobody]
        /\ pc' = [pc EXCEPT ![w] = "activity"]
        /\ UNCHANGED <<wjob, late, contested>>
        /\ pc[w] = "complete"
    BY <1>8 DEF Completes, MarkCompleted, WriteStatus, ClearClaim
  <2>2. wjob[w] \in 1..rows
    BY <2>1 DEF TypeOK
  <2>3. QED BY <2>1, <2>2, ExclusiveSettles DEF Terminal
<1>9. CASE RequestStep
  <2>1. UNCHANGED <<pc, wjob>>
    BY <1>9, RequestEffect
  <2>2. CASE LeavesJobsAlone
    BY <2>1, <2>2, ExclusiveUnchanged DEF LeavesJobsAlone
  <2>3. ASSUME NEW r \in Releases, AddsRow(r) PROVE ExclusiveInv'
    BY <2>1, <2>3, ExclusiveAdds
  <2>4. ASSUME NEW j \in Jobs, DropsQueued(j) PROVE ExclusiveInv'
    BY <2>1, <2>4, ExclusiveDrops
  <2>5. ASSUME NEW j \in Jobs, PutsBack(j) PROVE ExclusiveInv'
    BY <2>1, <2>5, ExclusivePutsBack
  <2>6. QED BY <1>9, <2>2, <2>3, <2>4, <2>5, RequestEffect
<1>10. QED
  BY <1>1, <1>2, <1>3, <1>4, <1>5, <1>6, <1>7, <1>8, <1>9, NextKinds DEF StepKinds

LEMMA ExclusiveAlways == Spec => []ExclusiveInv
<1>1. Init => ExclusiveInv
  BY DEF Init, ExclusiveInv, OneCurrentWorker, ClaimTellsOwner, LateIsContested,
         CurrentIsUnqueued, UnwindingClaim, Running
<1>2. TypeOK /\ ExclusiveInv /\ [Next]_vars => ExclusiveInv'
  BY ExclusiveStep
<1>3. QED BY <1>1, <1>2, TypeCorrect, PTL DEF Spec

(* However many workers loop, post process-next, crash or meet store       *)
(* errors, and whatever is retried or recovered: of the workers inside for *)
(* one job, all but the last to claim it had it put back under them.       *)
THEOREM WorkersAreExclusive == Spec => []OneCurrentWorker
<1>1. ExclusiveInv => OneCurrentWorker
  BY DEF ExclusiveInv
<1>2. QED BY <1>1, ExclusiveAlways, PTL

(* The claim columns name the worker that works on a running job, unless   *)
(* the job was put back under a worker.                                    *)
THEOREM ClaimsTellOwners == Spec => []ClaimTellsOwner
<1>1. ExclusiveInv => ClaimTellsOwner
  BY DEF ExclusiveInv
<1>2. QED BY <1>1, ExclusiveAlways, PTL

LEMMA LeavesQueueStep ==
  ASSUME TypeOK, ExclusiveInv, [Next]_vars
  PROVE  LeavesQueueProperly
<1> SUFFICES ASSUME NEW j \in Jobs, status[j] = "queued", status'[j] # "queued"
             PROVE  \/ status'[j] = "downloading" /\ claimedBy'[j] # Nobody
                    \/ status'[j] = "canceled" /\ UNCHANGED pc
                    \/ \E w \in late : wjob[w] = j /\ pc'[w] # pc[w]
  BY DEF LeavesQueueProperly
<1>1. \A w \in Workers : wjob[w] = j => w \in late
  BY QueuedIsFree
<1>2. ASSUME NEW w \in Workers, Claim(w)
      PROVE  status'[j] = "downloading" /\ claimedBy'[j] # Nobody
  BY <1>2, ConstantsAssumption DEF Claim, TypeOK
<1>3. ASSUME NEW w \in Workers, WorkerCrash(w) \/ QuietStep(w) \/ Imports(w) PROVE FALSE
  BY <1>3, QuietEffect DEF WorkerCrash, Imports
<1>4. ASSUME NEW w \in Workers, StoppingStep(w) \/ StageStep(w) \/ Completes(w)
      PROVE  w \in late /\ wjob[w] = j /\ pc'[w] # pc[w]
  <2>1. wjob[w] = j
    <3>1. CASE StoppingStep(w)
      BY <3>1, StoppingEffect DEF TypeOK
    <3>2. CASE StageStep(w)
      BY <3>2, StageEffect DEF TypeOK
    <3>3. CASE Completes(w)
      BY <3>3 DEF Completes, MarkCompleted, WriteStatus, TypeOK
    <3>4. QED BY <1>4, <3>1, <3>2, <3>3
  <2>2. pc'[w] # pc[w]
    <3>1. CASE StoppingStep(w)
      BY <3>1, StoppingEffect DEF TypeOK
    <3>2. CASE StageStep(w)
      BY <3>2, StageEffect DEF TypeOK
    <3>3. CASE Completes(w)
      BY <3>3 DEF Completes, TypeOK
    <3>4. QED BY <1>4, <3>1, <3>2, <3>3
  <2>3. QED BY <1>1, <2>1, <2>2
<1>5. CASE RequestStep
  <2>1. UNCHANGED pc /\ ~LeavesJobsAlone
    BY <1>5, RequestEffect DEF LeavesJobsAlone
  <2>2. ASSUME NEW r \in Releases, AddsRow(r) PROVE FALSE
    BY <2>2 DEF AddsRow, TypeOK
  <2>3. ASSUME NEW k \in Jobs, DropsQueued(k) PROVE status'[j] = "canceled"
    BY <2>3 DEF DropsQueued, TypeOK
  <2>4. ASSUME NEW k \in Jobs, PutsBack(k) PROVE FALSE
    BY <2>4 DEF PutsBack, TypeOK
  <2>5. QED BY <1>5, <2>1, <2>2, <2>3, <2>4, RequestEffect
<1>6. QED
  BY <1>2, <1>3, <1>4, <1>5, NextKinds DEF StepKinds

(* A queued job leaves the queue by a claim, by a cancel, or written over  *)
(* by a worker that was inside when it was put back: nothing else loses a  *)
(* retry.                                                                  *)
THEOREM RetriesAreNotLost == Spec => QueuedUntilClaimedOrCanceled
<1>1. TypeOK /\ ExclusiveInv /\ [Next]_vars => [LeavesQueueProperly]_vars
  BY LeavesQueueStep
<1>2. QED
  BY <1>1, TypeCorrect, ExclusiveAlways, PTL DEF Spec, QueuedUntilClaimedOrCanceled

-----------------------------------------------------------------------------
(* The queue implements JobLifecycle.                                      *)

LEMMA Phases ==
  /\ PhaseOf("absent") = "absent"
  /\ PhaseOf("queued") = "waiting"
  /\ \A s \in Running : PhaseOf(s) = "running"
  /\ PhaseOf("completed") = "finished"
  /\ PhaseOf("failed") = "stopped"
  /\ PhaseOf("canceled") = "stopped"
  BY DEF PhaseOf, Running

(* The phase and the owner of each job, as the refinement maps them.       *)
Phase == [j \in Jobs |-> IF j \in contested THEN "contested" ELSE PhaseOf(status[j])]
Owner == [j \in Jobs |-> IF j \in contested THEN Nobody ELSE claimedBy[j]]

(* What a write on one job does to its phase and its owner, when the job   *)
(* is contested after it and when it is not.                               *)
LEMMA ContestedUpdate ==
  ASSUME TypeOK, NEW j \in Jobs, NEW s, NEW o,
         status' = [status EXCEPT ![j] = s],
         claimedBy' = [claimedBy EXCEPT ![j] = o],
         j \in contested', \A k \in Jobs \ {j} : k \in contested' <=> k \in contested
  PROVE  /\ Phase' = [Phase EXCEPT ![j] = "contested"]
         /\ Owner' = [Owner EXCEPT ![j] = Nobody]
  BY DEF Phase, Owner, TypeOK

LEMMA FreeUpdate ==
  ASSUME TypeOK, NEW j \in Jobs, NEW s, NEW o,
         status' = [status EXCEPT ![j] = s],
         claimedBy' = [claimedBy EXCEPT ![j] = o],
         j \notin contested', \A k \in Jobs \ {j} : k \in contested' <=> k \in contested
  PROVE  /\ Phase' = [Phase EXCEPT ![j] = PhaseOf(s)]
         /\ Owner' = [Owner EXCEPT ![j] = o]
  BY DEF Phase, Owner, TypeOK

LEMMA PhaseInverse ==
  ASSUME TypeOK, NEW j \in Jobs
  PROVE  /\ j \in contested <=> Phase[j] = "contested"
         /\ Phase[j] = "absent" => status[j] = "absent"
         /\ Phase[j] = "waiting" => status[j] = "queued"
         /\ j \notin contested => Phase[j] = PhaseOf(status[j]) /\ Owner[j] = claimedBy[j]
         /\ j \in contested => Owner[j] = Nobody
  BY Phases DEF Phase, Owner, TypeOK, Status, Active, Terminal, Running

LEMMA LifecycleInit == Init => Lifecycle!Init
  BY Phases DEF Init, Lifecycle!Init, Lifecycle!Jobs, Jobs

LifecycleStep == Lifecycle!Next \/ UNCHANGED <<Phase, releaseOf, Owner, library>>

LEMMA JobStep ==
  ASSUME NEW j \in Jobs,
         \/ \E w \in Workers : Lifecycle!Start(j, w)
         \/ Lifecycle!Deliver(j) \/ Lifecycle!Finish(j) \/ Lifecycle!Stop(j)
         \/ Lifecycle!Spoil(j) \/ Lifecycle!Resubmit(j) \/ Lifecycle!Contest(j)
  PROVE  LifecycleStep
  BY DEF LifecycleStep, Lifecycle!Next, Lifecycle!Jobs, Jobs

(* A write on a contested job that leaves it contested is nobody's attempt.*)
LEMMA ContestedStep ==
  ASSUME TypeOK, NEW j \in Jobs, NEW s, NEW o, j \in contested,
         status' = [status EXCEPT ![j] = s],
         claimedBy' = [claimedBy EXCEPT ![j] = o],
         contested' = contested,
         UNCHANGED <<releaseOf, library>>
  PROVE  LifecycleStep
<1>1. /\ Phase' = [Phase EXCEPT ![j] = "contested"]
      /\ Owner' = [Owner EXCEPT ![j] = Nobody]
  BY ContestedUpdate
<1>2. Phase' = Phase /\ Owner' = Owner
  BY <1>1, PhaseInverse DEF Phase, Owner
<1>3. QED BY <1>2 DEF LifecycleStep

LEMMA StopsJob ==
  ASSUME TypeOK, NEW j \in Jobs, NEW s \in {"failed", "canceled"},
         j \notin contested, status[j] = "queued" \/ status[j] \in Running,
         status' = [status EXCEPT ![j] = s],
         claimedBy' = [claimedBy EXCEPT ![j] = Nobody],
         UNCHANGED <<releaseOf, library, contested>>
  PROVE  LifecycleStep
<1>1. Phase' = [Phase EXCEPT ![j] = "stopped"] /\ Owner' = [Owner EXCEPT ![j] = Nobody]
  <2>1. PhaseOf(s) = "stopped"
    BY Phases
  <2>2. QED BY <2>1, FreeUpdate
<1>2. Phase[j] \in {"waiting", "running"}
  BY PhaseInverse, Phases
<1>3. Lifecycle!Stop(j)
  BY <1>1, <1>2 DEF Lifecycle!Stop, Phase, Owner
<1>4. QED BY <1>3, JobStep

LEMMA StutterStep ==
  ASSUME UNCHANGED <<status, releaseOf, claimedBy, library, contested>>
  PROVE  LifecycleStep
  BY DEF LifecycleStep, Phase, Owner

LEMMA RefinesClaim ==
  ASSUME TypeOK, ExclusiveInv, NEW w \in Workers, Claim(w)
  PROVE  LifecycleStep
<1>1. PICK j \in Jobs : /\ OldestQueued(j)
                        /\ status' = [status EXCEPT ![j] = "downloading"]
                        /\ claimedBy' = [claimedBy EXCEPT ![j] = w]
  BY DEF Claim
<1>2. UNCHANGED <<releaseOf, library, contested>>
  BY DEF Claim
<1>3. CASE j \in contested
  BY <1>1, <1>2, <1>3, ContestedStep
<1>4. CASE j \notin contested
  <2>1. /\ Phase' = [Phase EXCEPT ![j] = "running"]
        /\ Owner' = [Owner EXCEPT ![j] = w]
    <3>1. PhaseOf("downloading") = "running"
      BY Phases DEF Running
    <3>2. QED BY <1>1, <1>2, <1>4, <3>1, FreeUpdate
  <2>2. Phase[j] = "waiting" /\ Owner[j] = Nobody
    BY <1>1, <1>4, PhaseInverse, Phases, QueuedIsFree DEF OldestQueued
  <2>3. \A k \in Jobs : k < j => Phase[k] # "waiting"
    BY <1>1, PhaseInverse, ConstantsAssumption DEF OldestQueued, Jobs
  <2>4. Lifecycle!Start(j, w)
    BY <1>2, <2>1, <2>2, <2>3 DEF Lifecycle!Start, Phase, Owner, Lifecycle!Jobs, Jobs
  <2>5. QED BY <2>4, JobStep
<1>5. QED BY <1>3, <1>4

(* A worker ends the attempt, or writes over what it has ended already.    *)
LEMMA RefinesStopping ==
  ASSUME TypeOK, ExclusiveInv, ImportInv, NEW w \in Workers, StoppingStep(w)
  PROVE  LifecycleStep
<1>0. PICK j \in Jobs : j = wjob[w] /\ j <= rows
  BY StoppingEffect, ConstantsAssumption DEF TypeOK, Jobs
<1>1. PICK s \in {"failed", "canceled"} : status' = [status EXCEPT ![j] = s]
  BY <1>0, StoppingEffect
<1>2. /\ claimedBy' = [claimedBy EXCEPT ![j] = Nobody]
      /\ UNCHANGED <<releaseOf, library, contested>>
      /\ pc[w] # "idle"
  BY <1>0, StoppingEffect
<1>3. CASE j \in contested
  BY <1>1, <1>2, <1>3, ContestedStep
<1>4. CASE j \notin contested /\ status[j] \in Running
  BY <1>1, <1>2, <1>4, StopsJob
<1>5. CASE j \notin contested /\ status[j] \notin Running
  <2>1. claimedBy[j] = Nobody
    BY <1>0, <1>2, <1>5 DEF ExclusiveInv, ClaimTellsOwner
  <2>2. status[j] \in {"completed", "failed", "canceled"}
    <3>1. status[j] # "queued"
      BY <1>0, <1>2, <1>5, QueuedIsFree
    <3>2. status[j] # "absent"
      BY <1>0, ConstantsAssumption DEF TypeOK, Jobs
    <3>3. QED BY <1>2, <1>5, <3>1, <3>2 DEF TypeOK, Status, Active, Terminal
  <2>3. Phase' = [Phase EXCEPT ![j] = "stopped"] /\ Owner' = [Owner EXCEPT ![j] = Nobody]
    <3>1. PhaseOf(s) = "stopped"
      BY Phases
    <3>2. j \notin contested' /\ \A k \in Jobs \ {j} : k \in contested' <=> k \in contested
      BY <1>2, <1>5
    <3>3. QED BY <1>1, <1>2, <3>1, <3>2, FreeUpdate
  <2>4. Owner' = Owner
    BY <1>2, <1>5, <2>1, <2>3, PhaseInverse DEF Owner
  <2>5. CASE status[j] = "completed"
    <3>1. Phase[j] = "finished" /\ releaseOf[j] \in library
      BY <1>2, <1>5, <2>5, PhaseInverse, Phases DEF ImportInv, CompletedIsImported
    <3>2. Lifecycle!Spoil(j)
      BY <1>2, <2>3, <2>4, <3>1 DEF Lifecycle!Spoil, Phase, Owner
    <3>3. QED BY <1>2, <3>2, JobStep
  <2>6. CASE status[j] \in {"failed", "canceled"}
    <3>1. Phase[j] = "stopped"
      BY <1>2, <1>5, <2>6, PhaseInverse, Phases
    <3>2. Phase' = Phase
      BY <1>2, <2>3, <3>1 DEF Phase
    <3>3. QED BY <1>2, <2>4, <3>2 DEF LifecycleStep
  <2>7. QED BY <2>2, <2>5, <2>6
<1>6. QED BY <1>3, <1>4, <1>5

LEMMA RefinesStage ==
  ASSUME TypeOK, ExclusiveInv, NEW w \in Workers, StageStep(w)
  PROVE  LifecycleStep
<1>0. PICK j \in Jobs : j = wjob[w]
  BY StageEffect, ConstantsAssumption DEF TypeOK, Jobs
<1>1. PICK s \in {"postprocessing", "importing"} : status' = [status EXCEPT ![j] = s]
  BY <1>0, StageEffect
<1>2. UNCHANGED <<releaseOf, claimedBy, library, contested>>
  BY StageEffect
<1>3. claimedBy' = [claimedBy EXCEPT ![j] = claimedBy[j]]
  BY <1>2 DEF TypeOK
<1>4. CASE j \in contested
  BY <1>1, <1>2, <1>3, <1>4, ContestedStep
<1>5. CASE j \notin contested
  <2>1. status[j] \in Running
    BY <1>0, <1>2, <1>5, StageEffect, ConstantsAssumption DEF ExclusiveInv, ClaimTellsOwner
  <2>2. Phase' = [Phase EXCEPT ![j] = "running"] /\ Owner' = [Owner EXCEPT ![j] = claimedBy[j]]
    <3>1. PhaseOf(s) = "running"
      BY Phases DEF Running
    <3>2. j \notin contested' /\ \A k \in Jobs \ {j} : k \in contested' <=> k \in contested
      BY <1>2, <1>5
    <3>3. QED BY <1>1, <1>3, <3>1, <3>2, FreeUpdate
  <2>3. Phase[j] = "running" /\ Owner[j] = claimedBy[j]
    BY <1>2, <1>5, <2>1, PhaseInverse, Phases
  <2>4. Phase' = Phase /\ Owner' = Owner
    BY <1>2, <2>2, <2>3 DEF Phase, Owner
  <2>5. QED BY <1>2, <2>4 DEF LifecycleStep
<1>6. QED BY <1>4, <1>5

LEMMA RefinesImport ==
  ASSUME TypeOK, ExclusiveInv, NEW w \in Workers, Imports(w)
  PROVE  LifecycleStep
<1>0. PICK j \in Jobs : j = wjob[w]
  BY ConstantsAssumption DEF Imports, TypeOK, Jobs
<1>1. pc[w] = "import"
  BY DEF Imports
<1>2. Phase[j] \in {"running", "contested"}
  <2>1. CASE j \in contested
    BY <1>1, <2>1, PhaseInverse
  <2>2. CASE j \notin contested
    <3>1. status[j] \in Running
      BY <1>0, <1>1, <2>2, ConstantsAssumption DEF ExclusiveInv, ClaimTellsOwner
    <3>2. QED BY <1>1, <2>2, <3>1, PhaseInverse, Phases
  <2>3. QED BY <2>1, <2>2
<1>3. UNCHANGED <<Phase, Owner>>
  BY DEF Imports, Phase, Owner
<1>4. Lifecycle!Deliver(j)
  BY <1>0, <1>1, <1>2, <1>3 DEF Lifecycle!Deliver, Phase, Owner, Imports
<1>5. QED BY <1>1, <1>4, JobStep

LEMMA RefinesCompletion ==
  ASSUME TypeOK, ExclusiveInv, ImportInv, NEW w \in Workers, Completes(w)
  PROVE  LifecycleStep
<1>0. PICK j \in Jobs : j = wjob[w]
  BY ConstantsAssumption DEF Completes, TypeOK, Jobs
<1>1. /\ pc[w] = "complete"
      /\ status' = [status EXCEPT ![j] = "completed"]
      /\ claimedBy' = [claimedBy EXCEPT ![j] = Nobody]
      /\ UNCHANGED <<releaseOf, library, contested>>
  BY <1>0 DEF Completes, MarkCompleted, WriteStatus, ClearClaim
<1>2. CASE j \in contested
  BY <1>1, <1>2, ContestedStep
<1>3. CASE j \notin contested
  <2>1. status[j] \in Running
    BY <1>0, <1>1, <1>3, ConstantsAssumption DEF ExclusiveInv, ClaimTellsOwner
  <2>2. Phase' = [Phase EXCEPT ![j] = "finished"] /\ Owner' = [Owner EXCEPT ![j] = Nobody]
    <3>1. PhaseOf("completed") = "finished"
      BY Phases
    <3>2. QED BY <1>1, <1>3, <3>1, FreeUpdate
  <2>3. Phase[j] = "running" /\ releaseOf[j] \in library
    BY <1>0, <1>1, <1>3, <2>1, PhaseInverse, Phases DEF ImportInv
  <2>4. Lifecycle!Finish(j)
    BY <1>1, <2>2, <2>3 DEF Lifecycle!Finish, Phase, Owner
  <2>5. QED BY <1>1, <2>4, JobStep
<1>4. QED BY <1>2, <1>3

LEMMA RefinesGrab ==
  ASSUME TypeOK, ExclusiveInv, NEW r \in Releases, AddsRow(r), UNCHANGED library
  PROVE  LifecycleStep
<1>0. PICK j \in Jobs : j = rows + 1
  BY DEF AddsRow
<1>1. /\ j \notin contested /\ status[j] = "absent"
      /\ status' = [status EXCEPT ![j] = "queued"]
      /\ claimedBy' = [claimedBy EXCEPT ![j] = claimedBy[j]]
      /\ UNCHANGED <<claimedBy, contested>>
  BY <1>0, ConstantsAssumption DEF AddsRow, TypeOK, Jobs
<1>2. Phase' = [Phase EXCEPT ![j] = "waiting"] /\ Owner' = [Owner EXCEPT ![j] = claimedBy[j]]
  <2>1. PhaseOf("queued") = "waiting"
    BY Phases
  <2>2. j \notin contested' /\ \A k \in Jobs \ {j} : k \in contested' <=> k \in contested
    BY <1>1
  <2>3. /\ status' = [status EXCEPT ![j] = "queued"]
        /\ claimedBy' = [claimedBy EXCEPT ![j] = claimedBy[j]]
    BY <1>1
  <2>4. QED BY <2>1, <2>2, <2>3, FreeUpdate
<1>3. Phase[j] = "absent"
  BY <1>1, PhaseInverse, Phases
<1>4. \A k \in Jobs : k < j => Phase[k] # "absent"
  <2>1. \A k \in Jobs : k < j => status[k] # "absent"
    BY <1>0, ConstantsAssumption DEF TypeOK, Jobs
  <2>2. QED BY <2>1, PhaseInverse
<1>5. UNCHANGED Owner
  BY <1>1 DEF Owner
<1>6. Lifecycle!Submit(j, r)
  BY <1>0, <1>2, <1>3, <1>4, <1>5 DEF Lifecycle!Submit, Phase, Owner, Lifecycle!Jobs, Jobs, AddsRow
<1>7. QED BY <1>1, <1>6 DEF LifecycleStep, Lifecycle!Next, Lifecycle!Jobs, Jobs

LEMMA RefinesDrop ==
  ASSUME TypeOK, ExclusiveInv, NEW j \in Jobs, DropsQueued(j), UNCHANGED library
  PROVE  LifecycleStep
<1>1. /\ status[j] = "queued" /\ status' = [status EXCEPT ![j] = "canceled"]
      /\ claimedBy' = [claimedBy EXCEPT ![j] = claimedBy[j]]
      /\ UNCHANGED <<releaseOf, library, contested>>
  BY DEF DropsQueued, TypeOK
<1>2. CASE j \in contested
  BY <1>1, <1>2, ContestedStep
<1>3. CASE j \notin contested
  BY <1>1, <1>3, QueuedIsFree, StopsJob
<1>4. QED BY <1>2, <1>3

LEMMA RefinesPutBack ==
  ASSUME TypeOK, ExclusiveInv, NEW j \in Jobs, PutsBack(j), UNCHANGED library
  PROVE  LifecycleStep
<1>1. /\ status' = [status EXCEPT ![j] = "queued"]
      /\ claimedBy' = [claimedBy EXCEPT ![j] = Nobody]
      /\ UNCHANGED releaseOf
      /\ \A k \in Jobs \ {j} : k \in contested' <=> k \in contested
  BY DEF PutsBack
<1>2. j \notin contested => Phase[j] \in {"stopped", "running"}
  BY PhaseInverse, Phases DEF PutsBack, Running
<1>3. CASE j \notin contested'
  <2>1. Phase' = [Phase EXCEPT ![j] = "waiting"] /\ Owner' = [Owner EXCEPT ![j] = Nobody]
    <3>1. PhaseOf("queued") = "waiting"
      BY Phases
    <3>2. QED BY <1>1, <1>3, <3>1, FreeUpdate
  <2>2. Phase[j] \in {"stopped", "running", "contested"}
    BY <1>2, PhaseInverse
  <2>3. Lifecycle!Resubmit(j)
    BY <1>1, <2>1, <2>2 DEF Lifecycle!Resubmit, Phase, Owner
  <2>4. QED BY <2>3, JobStep
<1>4. CASE j \in contested' /\ j \notin contested
  <2>1. Phase' = [Phase EXCEPT ![j] = "contested"] /\ Owner' = [Owner EXCEPT ![j] = Nobody]
    BY <1>1, <1>4, ContestedUpdate
  <2>2. Lifecycle!Contest(j)
    BY <1>1, <1>2, <1>4, <2>1 DEF Lifecycle!Contest, Phase, Owner
  <2>3. QED BY <2>2, JobStep
<1>5. CASE j \in contested' /\ j \in contested
  <2>1. contested' = contested
    BY <1>5 DEF PutsBack
  <2>2. QED BY <1>1, <1>5, <2>1, ContestedStep
<1>6. QED BY <1>3, <1>4, <1>5

LEMMA RefinesNext ==
  ASSUME TypeOK, ExclusiveInv, ImportInv, [Next]_vars
  PROVE  LifecycleStep
<1>1. ASSUME NEW w \in Workers, WorkerCrash(w) \/ QuietStep(w) PROVE LifecycleStep
  BY <1>1, QuietEffect, StutterStep DEF WorkerCrash
<1>2. ASSUME NEW w \in Workers,
             \/ Claim(w) \/ StoppingStep(w) \/ StageStep(w)
             \/ Imports(w) \/ Completes(w)
      PROVE  LifecycleStep
  BY <1>2, RefinesClaim, RefinesStopping, RefinesStage, RefinesImport, RefinesCompletion
<1>3. CASE RequestStep
  <2>1. UNCHANGED library
    BY <1>3, RequestEffect
  <2>2. CASE LeavesJobsAlone
    BY <2>1, <2>2, StutterStep DEF LeavesJobsAlone
  <2>3. ASSUME NEW r \in Releases, AddsRow(r) PROVE LifecycleStep
    BY <2>1, <2>3, RefinesGrab
  <2>4. ASSUME NEW j \in Jobs, DropsQueued(j) PROVE LifecycleStep
    BY <2>1, <2>4, RefinesDrop
  <2>5. ASSUME NEW j \in Jobs, PutsBack(j) PROVE LifecycleStep
    BY <2>1, <2>5, RefinesPutBack
  <2>6. QED BY <1>3, <2>2, <2>3, <2>4, <2>5, RequestEffect
<1>4. CASE UNCHANGED vars
  BY <1>4, StutterStep
<1>5. QED
  BY <1>1, <1>2, <1>3, <1>4, NextKinds DEF StepKinds

(* The queue keeps its promise: attempts start oldest first and one at a   *)
(* time per job, and finish only when the book is delivered, until a job   *)
(* is put back in the queue under a worker; once it is put back with       *)
(* nobody inside, the promise holds for it again.                          *)
THEOREM QueueImplementsLifecycle == Spec => ImplementsLifecycle
<1>1. Init => Lifecycle!Init
  BY LifecycleInit
<1>2. TypeOK /\ ExclusiveInv /\ ImportInv /\ [Next]_vars
        => [Lifecycle!Next]_(Lifecycle!vars)
  BY RefinesNext DEF LifecycleStep, Lifecycle!vars, Phase, Owner
<1>3. Spec => []ImportInv
  <2>1. Init => ImportInv
    BY DEF Init, ImportInv, CompletedIsImported
  <2>2. TypeOK /\ ImportInv /\ [Next]_vars => ImportInv'
    BY ImportStep
  <2>3. QED BY <2>1, <2>2, TypeCorrect, PTL DEF Spec
<1>4. QED
  BY <1>1, <1>2, <1>3, TypeCorrect, ExclusiveAlways, PTL
  DEF Spec, ImplementsLifecycle, Lifecycle!Spec

=============================================================================
