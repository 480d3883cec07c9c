-------------------------- MODULE ArticleDownload --------------------------
(***************************************************************************)
(* StreamingDownloader.download_job (downloader/engine.py): a thread pool  *)
(* fetches the articles of a job, each from the first provider that has    *)
(* it, into files of the job's directory, and records every step in        *)
(* download_articles and download_jobs.                                    *)
(*                                                                         *)
(* A task <<j, a>> is the thread that runs _download_article for article a *)
(* of job j.  One action is one transaction, one file operation, one chunk *)
(* of a stream, or the code between two of them.  The main thread is the   *)
(* one that called download_job.                                           *)
(***************************************************************************)
EXTENDS Integers, FiniteSets

CONSTANTS
  Jobs,
  NumArticles,      (* articles of each release, in release order          *)
  NumProviders,     (* enabled providers, in the order of ordered()        *)
  Pooled,           (* those of them that have a pool                      *)
  Carries,          (* pairs <<p, a>>: provider p has article a            *)
  Engines,          (* StreamingDownloader objects                         *)
  EngineOf,         (* the one that downloads a job; production builds one *)
                    (* for every job, the tests share one                  *)
  MaxActive,        (* max_active_articles                                 *)
  MaxConnections,   (* max_connections of a provider                       *)
  Chunks,           (* chunks in the body of an article                    *)
  FlushThreshold,   (* chunks of progress that make the coalescer write    *)
  Failures,         (* what may go wrong besides an article nobody has     *)
  MaxRuns,          (* bound: calls of download_job for a job              *)
  MaxCrashes        (* bound: processes killed                             *)

Articles  == 1..NumArticles
Providers == 1..NumProviders
Tasks     == Jobs \X Articles

ASSUME ConstantsAssumption ==
  /\ NumArticles \in Nat /\ NumProviders \in Nat
  /\ Pooled \subseteq Providers
  /\ Carries \subseteq Providers \X Articles
  /\ EngineOf \in [Jobs -> Engines]
  /\ MaxActive \in Nat \ {0}
  /\ MaxConnections \in [Providers -> Nat \ {0}]
  /\ Chunks \in Nat \ {0}
  /\ FlushThreshold \in Nat \ {0}
  /\ Failures \subseteq {"temporary", "hard", "store"}
  /\ MaxRuns \in Nat /\ MaxCrashes \in Nat

NoFile == -1

(* Where a task is in _download_article.  Those in InSlot hold a slot of   *)
(* _article_slots.                                                         *)
InSlot ==
  {"try", "start", "acquire", "stream", "replace", "mark", "health",
   "retryMark", "retryHealth", "hardMark"}
Ended  == {"done", "cancelled", "failed"}
TaskPc == {"none", "slot"} \cup InSlot \cup Ended

(* Where the main thread is in download_job.                               *)
InCall == {"ensure", "list", "fill", "loop", "drainCancel", "drainFail", "markFailed", "flush"}
MainPc == {"idle", "out"} \cup InCall

VARIABLES
  (* download_articles, download_jobs *)
  row, failed, cancelRequested, articlesCompleted,
  (* the job's directory: chunks in the .partial and .complete files *)
  partial, complete,
  (* the tasks, and the free permits of each engine's provider pools *)
  tpc, prov, free,
  (* the main threads: pending articles, progress not yet written *)
  mpc, pending, unflushed, outcome,
  (* history: jobs whose present call met a failure of the environment *)
  hurt,
  (* bounds *)
  runs, crashes

dbVars   == <<row, failed, cancelRequested, articlesCompleted>>
fileVars == <<partial, complete>>
taskVars == <<tpc, prov, free>>
mainVars == <<mpc, pending, unflushed, outcome>>
bounds   == <<runs, crashes>>
calm     == <<hurt, runs, crashes>>
vars == <<dbVars, fileVars, taskVars, mainVars, hurt, bounds>>

Init ==
  /\ row = [t \in Tasks |-> "absent"]
  /\ failed = {}
  /\ cancelRequested = {}
  /\ articlesCompleted = [j \in Jobs |-> 0]
  /\ partial = [t \in Tasks |-> NoFile]
  /\ complete = [t \in Tasks |-> NoFile]
  /\ tpc = [t \in Tasks |-> "none"]
  /\ prov = [t \in Tasks |-> 1]
  /\ free = [e \in Engines |-> MaxConnections]
  /\ mpc = [j \in Jobs |-> "idle"]
  /\ pending = [j \in Jobs |-> {}]
  /\ unflushed = [j \in Jobs |-> 0]
  /\ outcome = [j \in Jobs |-> "none"]
  /\ hurt = {}
  /\ runs = [j \in Jobs |-> 0]
  /\ crashes = 0

Store   == "store" \in Failures
Goto(t, from, to) == tpc[t] = from /\ tpc' = [tpc EXCEPT ![t] = to]
MainGoto(j, from, to) == mpc[j] = from /\ mpc' = [mpc EXCEPT ![j] = to]

-----------------------------------------------------------------------------
(* The main thread.                                                        *)

(* A worker claimed the job and calls download_job.                        *)
Begin(j) ==
  /\ runs[j] < MaxRuns
  /\ runs' = [runs EXCEPT ![j] = @ + 1]
  /\ MainGoto(j, "idle", "ensure")
  /\ failed' = failed \ {j}
  /\ outcome' = [outcome EXCEPT ![j] = "none"]
  /\ hurt' = hurt \ {j}
  /\ UNCHANGED <<row, cancelRequested, articlesCompleted, fileVars, taskVars, pending,
                 unflushed, crashes>>

(* Mutant: ON CONFLICT DO UPDATE.                                          *)
ResetsArticles(j) ==
  /\ MainGoto(j, "ensure", "list")
  /\ row' = [t \in Tasks |-> IF t[1] = j THEN "pending" ELSE row[t]]
  /\ UNCHANGED <<failed, cancelRequested, articlesCompleted, fileVars, taskVars, pending,
                 unflushed, outcome, calm>>

(* ensure_articles: INSERT ... ON CONFLICT DO NOTHING.                     *)
EnsuresArticles(j) ==
  /\ MainGoto(j, "ensure", "list")
  /\ row' = [t \in Tasks |-> IF t[1] = j /\ row[t] = "absent" THEN "pending" ELSE row[t]]
  /\ UNCHANGED <<failed, cancelRequested, articlesCompleted, fileVars, taskVars, pending,
                 unflushed, outcome, calm>>

(* Mutant: every call starts from the first article.                       *)
EveryArticle(j) == Articles

Unfinished(j) ==
  {a \in Articles : row[<<j, a>>] # "completed" \/ complete[<<j, a>>] = NoFile}

ListsPending(j) ==
  /\ MainGoto(j, "list", "fill")
  /\ pending' = [pending EXCEPT ![j] = Unfinished(j)]
  /\ UNCHANGED <<dbVars, fileVars, taskVars, unflushed, outcome, calm>>

Futures(j) == {a \in Articles : tpc[<<j, a>>] # "none"}

(* submit_next after the flag was found clear, with tpc0 the tasks before  *)
(* it: the next article gets a thread, and the main thread goes to later;  *)
(* if there is none, it goes to last.                                      *)
SubmitsNext(j, tpc0, later, last) ==
  \/ /\ pending[j] = {}
     /\ tpc' = tpc0
     /\ mpc' = [mpc EXCEPT ![j] = last]
     /\ UNCHANGED <<pending, prov>>
  \/ \E a \in pending[j] :
       /\ \A b \in pending[j] : a <= b
       /\ tpc' = [tpc0 EXCEPT ![<<j, a>>] = "slot"]
       /\ prov' = [prov EXCEPT ![<<j, a>>] = 1]
       /\ pending' = [pending EXCEPT ![j] = @ \ {a}]
       /\ mpc' = [mpc EXCEPT ![j] = later]

(* The first max_active_articles submissions.                              *)
Fills(j) ==
  /\ mpc[j] = "fill"
  /\ IF j \in cancelRequested
     THEN /\ mpc' = [mpc EXCEPT ![j] = "drainCancel"]
          /\ UNCHANGED <<tpc, prov, pending>>
     ELSE SubmitsNext(j, tpc,
                      IF Cardinality(Futures(j)) + 1 < MaxActive THEN "fill" ELSE "loop",
                      "loop")
  /\ UNCHANGED <<dbVars, fileVars, free, unflushed, outcome, calm>>

(* Mutant: the flag is not read again after the first submissions.         *)
ReapsBlindly(j, a) ==
  /\ mpc[j] = "loop"
  /\ tpc[<<j, a>>] = "done"
  /\ SubmitsNext(j, [tpc EXCEPT ![<<j, a>>] = "none"], "loop", "loop")
  /\ UNCHANGED <<dbVars, fileVars, free, unflushed, outcome, calm>>

(* wait returned a future that has a result: its article is replaced by    *)
(* the next one, unless the job was cancelled.                             *)
Reaps(j, a) ==
  /\ mpc[j] = "loop"
  /\ tpc[<<j, a>>] = "done"
  /\ LET reaped == [tpc EXCEPT ![<<j, a>>] = "none"] IN
     IF j \in cancelRequested
     THEN /\ tpc' = reaped
          /\ mpc' = [mpc EXCEPT ![j] = "drainCancel"]
          /\ UNCHANGED <<prov, pending>>
     ELSE SubmitsNext(j, reaped, "loop", "loop")
  /\ UNCHANGED <<dbVars, fileVars, free, unflushed, outcome, calm>>

(* future.result() raised.                                                 *)
ReapsError(j, a) ==
  /\ mpc[j] = "loop"
  /\ \/ tpc[<<j, a>>] = "cancelled" /\ mpc' = [mpc EXCEPT ![j] = "drainCancel"]
     \/ tpc[<<j, a>>] = "failed"    /\ mpc' = [mpc EXCEPT ![j] = "drainFail"]
  /\ tpc' = [tpc EXCEPT ![<<j, a>>] = "none"]
  /\ UNCHANGED <<dbVars, fileVars, prov, free, pending, unflushed, outcome, calm>>

(* while active ended; the last check of the flag was in submit_next.      *)
LeavesLoop(j) ==
  /\ Futures(j) = {}
  /\ MainGoto(j, "loop", "flush")
  /\ outcome' = [outcome EXCEPT ![j] = "succeeded"]
  /\ UNCHANGED <<dbVars, fileVars, taskVars, pending, unflushed, calm>>

(* Mutant: shutdown(wait=False).                                           *)
DrainsAtOnce(j) ==
  /\ \/ /\ MainGoto(j, "drainCancel", "flush")
        /\ outcome' = [outcome EXCEPT ![j] = "cancelled"]
     \/ /\ MainGoto(j, "drainFail", "markFailed")
        /\ outcome' = [outcome EXCEPT ![j] = "failed"]
  /\ pending' = [pending EXCEPT ![j] = {}]
  /\ UNCHANGED <<dbVars, fileVars, taskVars, unflushed, calm>>

(* The executor's __exit__ waits for every thread before the exception     *)
(* goes on to the except clauses.                                          *)
Drains(j) ==
  /\ \A a \in Futures(j) : tpc[<<j, a>>] \in Ended
  /\ \/ /\ MainGoto(j, "drainCancel", "flush")
        /\ outcome' = [outcome EXCEPT ![j] = "cancelled"]
     \/ /\ MainGoto(j, "drainFail", "markFailed")
        /\ outcome' = [outcome EXCEPT ![j] = "failed"]
  /\ tpc' = [t \in Tasks |-> IF t[1] = j THEN "none" ELSE tpc[t]]
  /\ pending' = [pending EXCEPT ![j] = {}]
  /\ UNCHANGED <<dbVars, fileVars, prov, free, unflushed, calm>>

MarksFailed(j) ==
  /\ MainGoto(j, "markFailed", "flush")
  /\ failed' = failed \cup {j}
  /\ UNCHANGED <<row, cancelRequested, articlesCompleted, fileVars, taskVars, pending,
                 unflushed, outcome, calm>>

(* Mutant: progress is flushed after the try statement.                    *)
FlushesOnSuccess(j) ==
  /\ MainGoto(j, "flush", "out")
  /\ IF outcome[j] = "succeeded"
     THEN unflushed' = [unflushed EXCEPT ![j] = 0]
     ELSE UNCHANGED unflushed
  /\ UNCHANGED <<dbVars, fileVars, taskVars, pending, outcome, calm>>

(* finally: flush_progress.                                                *)
Flushes(j) ==
  /\ MainGoto(j, "flush", "out")
  /\ unflushed' = [unflushed EXCEPT ![j] = 0]
  /\ UNCHANGED <<dbVars, fileVars, taskVars, pending, outcome, calm>>

(* A transaction of the main thread raised.  Before the try block and in   *)
(* its finally the exception leaves at once, in submit_next it is handled  *)
(* like a failed article, in the except clause finally still runs.         *)
MainRaises(j) ==
  /\ Store
  /\ \/ /\ \E from \in {"ensure", "list", "flush"} : MainGoto(j, from, "out")
        /\ outcome' = [outcome EXCEPT ![j] = "failed"]
        /\ UNCHANGED tpc
     \/ /\ MainGoto(j, "fill", "drainFail")
        /\ UNCHANGED <<outcome, tpc>>
     \/ /\ MainGoto(j, "loop", "drainFail")
        /\ \E a \in Articles : Goto(<<j, a>>, "done", "none")
        /\ UNCHANGED outcome
     \/ /\ MainGoto(j, "markFailed", "flush")
        /\ UNCHANGED <<outcome, tpc>>
  /\ hurt' = hurt \cup {j}
  /\ UNCHANGED <<dbVars, fileVars, prov, free, pending, unflushed, bounds>>

(* process_next_download settled the job and it was put in the queue       *)
(* again; the new call finds the flag clear and makes a new coalescer.     *)
Requeues(j) ==
  /\ MainGoto(j, "out", "idle")
  /\ cancelRequested' = cancelRequested \ {j}
  /\ unflushed' = [unflushed EXCEPT ![j] = 0]
  /\ UNCHANGED <<row, failed, articlesCompleted, fileVars, taskVars, pending, outcome, calm>>

(* request_cancel for a job that is not queued.                            *)
RequestsCancel(j) ==
  /\ mpc[j] \in InCall
  /\ cancelRequested' = cancelRequested \cup {j}
  /\ UNCHANGED <<row, failed, articlesCompleted, fileVars, taskVars, mainVars, calm>>

-----------------------------------------------------------------------------
(* _download_article, run by task t.                                       *)

TakesSlot(t) ==
  /\ Goto(t, "slot", "try")
  /\ Cardinality({u \in Tasks : EngineOf[u[1]] = EngineOf[t[1]] /\ tpc[u] \in InSlot}) < MaxActive
  /\ UNCHANGED <<dbVars, fileVars, prov, free, mainVars, calm>>

(* The head of the loop over ordered(): the flag, then the pool.           *)
TriesProvider(t) ==
  /\ tpc[t] = "try"
  /\ prov[t] \in Providers
  /\ \/ t[1] \in cancelRequested /\ Goto(t, "try", "cancelled") /\ UNCHANGED prov
     \/ /\ t[1] \notin cancelRequested
        /\ prov[t] \in Pooled
        /\ Goto(t, "try", "start")
        /\ UNCHANGED prov
     \/ /\ t[1] \notin cancelRequested
        /\ prov[t] \notin Pooled
        /\ prov' = [prov EXCEPT ![t] = @ + 1]
        /\ UNCHANGED tpc
  /\ UNCHANGED <<dbVars, fileVars, free, mainVars, calm>>

(* No provider is left: the last error is raised, or ArticleUnavailable.   *)
ExhaustsProviders(t) ==
  /\ Goto(t, "try", "failed")
  /\ prov[t] \notin Providers
  /\ UNCHANGED <<dbVars, fileVars, prov, free, mainVars, calm>>

(* mark_article_started; the partial file is opened and truncated.         *)
StartsArticle(t) ==
  /\ Goto(t, "start", "acquire")
  /\ row' = [row EXCEPT ![t] = "in_progress"]
  /\ partial' = [partial EXCEPT ![t] = 0]
  /\ UNCHANGED <<failed, cancelRequested, articlesCompleted, complete, prov, free, mainVars, calm>>

(* Mutants: a stream does not wait for its permit; one that ends keeps it. *)
TakesPermitAtOnce(t) ==
  free' = [free EXCEPT ![EngineOf[t[1]]][prov[t]] = @ - 1]
KeepsPermit(t) == UNCHANGED free

(* The permits of ProviderPool.stream_article.                             *)
TakesPermit(t) ==
  LET e == EngineOf[t[1]] IN
  /\ free[e][prov[t]] > 0
  /\ free' = [free EXCEPT ![e][prov[t]] = @ - 1]

ReturnsPermit(t) ==
  free' = [free EXCEPT ![EngineOf[t[1]]][prov[t]] = @ + 1]

OpensStream(t) ==
  /\ Goto(t, "acquire", "stream")
  /\ TakesPermit(t)
  /\ UNCHANGED <<dbVars, fileVars, prov, mainVars, calm>>

(* The coalescer writes its total when the threshold is reached, or when   *)
(* enough time has passed.                                                 *)
RecordsProgress(j) ==
  \/ unflushed' = [unflushed EXCEPT ![j] = 0]
  \/ /\ unflushed[j] + 1 < FlushThreshold
     /\ unflushed' = [unflushed EXCEPT ![j] = @ + 1]

(* A chunk is written and recorded.                                        *)
WritesChunk(t) ==
  LET j == t[1] IN
  /\ tpc[t] = "stream"
  /\ j \notin cancelRequested
  /\ <<prov[t], t[2]>> \in Carries
  /\ partial[t] < Chunks
  /\ partial' = [partial EXCEPT ![t] = @ + 1]
  /\ RecordsProgress(j)
  /\ UNCHANGED <<dbVars, complete, taskVars, mpc, pending, outcome, calm>>

(* Mutant: a body that breaks off is taken for a whole one.                *)
StreamBreaksOff(t) ==
  /\ Goto(t, "stream", "replace")
  /\ <<prov[t], t[2]>> \in Carries
  /\ ReturnsPermit(t)
  /\ UNCHANGED <<dbVars, fileVars, prov, mainVars, calm>>

(* The stream is left: the generator's finally returns the permit, and     *)
(* unless the body ended well the partial file is unlinked.                *)
StreamEnds(t) ==
  /\ Goto(t, "stream", "replace")
  /\ <<prov[t], t[2]>> \in Carries
  /\ partial[t] = Chunks
  /\ ReturnsPermit(t)
  /\ UNCHANGED <<dbVars, fileVars, prov, mainVars, calm>>

DropsPartial(t) == partial' = [partial EXCEPT ![t] = NoFile]

(* The flag is read for every chunk that arrives.                          *)
StreamSeesCancel(t) ==
  /\ Goto(t, "stream", "cancelled")
  /\ t[1] \in cancelRequested
  /\ ReturnsPermit(t)
  /\ DropsPartial(t)
  /\ UNCHANGED <<dbVars, complete, prov, mainVars, calm>>

(* Mutant: an article a provider does not have fails the job.              *)
StreamGivesUp(t) ==
  /\ Goto(t, "stream", "hardMark")
  /\ \/ <<prov[t], t[2]>> \notin Carries /\ UNCHANGED hurt
     \/ "temporary" \in Failures /\ hurt' = hurt \cup {t[1]}
  /\ ReturnsPermit(t)
  /\ DropsPartial(t)
  /\ UNCHANGED <<dbVars, complete, prov, mainVars, bounds>>

(* ArticleUnavailable or ProviderTemporaryError.                           *)
StreamFallsBack(t) ==
  /\ Goto(t, "stream", "retryMark")
  /\ \/ <<prov[t], t[2]>> \notin Carries /\ UNCHANGED hurt
     \/ "temporary" \in Failures /\ hurt' = hurt \cup {t[1]}
  /\ ReturnsPermit(t)
  /\ DropsPartial(t)
  /\ UNCHANGED <<dbVars, complete, prov, mainVars, bounds>>

(* Any other exception: authentication, protocol, yEnc, disk, or the       *)
(* progress write of a chunk that was written; the coalescer then keeps    *)
(* what it could not write, and later chunks add to it.                    *)
StreamFailsHard(t) ==
  /\ Goto(t, "stream", "hardMark")
  /\ \/ "hard" \in Failures /\ UNCHANGED unflushed
     \/ /\ Store
        /\ t[1] \notin cancelRequested
        /\ <<prov[t], t[2]>> \in Carries
        /\ partial[t] < Chunks
        /\ unflushed' = [unflushed EXCEPT ![t[1]] = @ + 1]
  /\ hurt' = hurt \cup {t[1]}
  /\ ReturnsPermit(t)
  /\ DropsPartial(t)
  /\ UNCHANGED <<dbVars, complete, prov, mpc, pending, outcome, bounds>>

(* partial.replace(complete).                                              *)
Replaces(t) ==
  /\ Goto(t, "replace", "mark")
  /\ complete' = [complete EXCEPT ![t] = partial[t]]
  /\ DropsPartial(t)
  /\ UNCHANGED <<dbVars, prov, free, mainVars, calm>>

(* mark_article_completed: the row and the job's counter.                  *)
MarksCompleted(t) ==
  /\ Goto(t, "mark", "health")
  /\ row' = [row EXCEPT ![t] = "completed"]
  /\ articlesCompleted' = [articlesCompleted EXCEPT ![t[1]] = @ + 1]
  /\ UNCHANGED <<failed, cancelRequested, fileVars, prov, free, mainVars, calm>>

RecordsSuccess(t) ==
  /\ Goto(t, "health", "done")
  /\ UNCHANGED <<dbVars, fileVars, prov, free, mainVars, calm>>

MarksAttemptFailed(t) ==
  /\ Goto(t, "retryMark", "retryHealth")
  /\ row' = [row EXCEPT ![t] = "failed"]
  /\ UNCHANGED <<failed, cancelRequested, articlesCompleted, fileVars, prov, free, mainVars, calm>>

GoesToNextProvider(t) ==
  /\ Goto(t, "retryHealth", "try")
  /\ prov' = [prov EXCEPT ![t] = @ + 1]
  /\ UNCHANGED <<dbVars, fileVars, free, mainVars, calm>>

MarksArticleFailed(t) ==
  /\ Goto(t, "hardMark", "failed")
  /\ row' = [row EXCEPT ![t] = "failed"]
  /\ UNCHANGED <<failed, cancelRequested, articlesCompleted, fileVars, prov, free, mainVars, calm>>

(* A transaction of the task raised.  After the file was replaced that is  *)
(* an article failure, even once the row says completed; elsewhere the     *)
(* exception leaves _download_article at once.                             *)
TaskRaises(t) ==
  /\ Store
  /\ \/ \E from \in {"try", "start", "retryMark", "retryHealth", "hardMark"} : Goto(t, from, "failed")
     \/ \E from \in {"mark", "health"} : Goto(t, from, "hardMark")
  /\ hurt' = hurt \cup {t[1]}
  /\ UNCHANGED <<dbVars, fileVars, prov, free, mainVars, bounds>>

-----------------------------------------------------------------------------

(* The process dies and the jobs of its engine are recovered: threads,     *)
(* permits and unwritten progress are gone, the store and the disk stay,   *)
(* and recover_stale leaves the flag as it is.                             *)
Crash(e) ==
  LET lost == {j \in Jobs : EngineOf[j] = e /\ mpc[j] # "idle"} IN
  /\ crashes < MaxCrashes
  /\ lost # {}
  /\ crashes' = crashes + 1
  /\ tpc' = [t \in Tasks |-> IF t[1] \in lost THEN "none" ELSE tpc[t]]
  /\ free' = [free EXCEPT ![e] = MaxConnections]
  /\ mpc' = [j \in Jobs |-> IF j \in lost THEN "idle" ELSE mpc[j]]
  /\ pending' = [j \in Jobs |-> IF j \in lost THEN {} ELSE pending[j]]
  /\ unflushed' = [j \in Jobs |-> IF j \in lost THEN 0 ELSE unflushed[j]]
  /\ UNCHANGED <<dbVars, fileVars, prov, outcome, hurt, runs>>

MainStep(j) ==
  \/ EnsuresArticles(j) \/ ListsPending(j) \/ Fills(j)
  \/ \E a \in Articles : Reaps(j, a) \/ ReapsError(j, a)
  \/ LeavesLoop(j) \/ Drains(j) \/ MarksFailed(j) \/ Flushes(j) \/ MainRaises(j)

TaskStep(t) ==
  \/ TakesSlot(t) \/ TriesProvider(t) \/ ExhaustsProviders(t) \/ StartsArticle(t)
  \/ OpensStream(t) \/ WritesChunk(t) \/ StreamEnds(t)
  \/ StreamSeesCancel(t) \/ StreamFallsBack(t) \/ StreamFailsHard(t)
  \/ Replaces(t) \/ MarksCompleted(t) \/ RecordsSuccess(t)
  \/ MarksAttemptFailed(t) \/ GoesToNextProvider(t) \/ MarksArticleFailed(t)
  \/ TaskRaises(t)

Next ==
  \/ \E j \in Jobs : Begin(j) \/ MainStep(j) \/ Requeues(j) \/ RequestsCancel(j)
  \/ \E t \in Tasks : TaskStep(t)
  \/ \E e \in Engines : Crash(e)

Spec == Init /\ [][Next]_vars

(* Every thread goes on; a stream ends because its socket times out.       *)
Fairness ==
  /\ \A j \in Jobs : WF_vars(MainStep(j))
  /\ \A t \in Tasks : WF_vars(TaskStep(t))

FairSpec == Spec /\ Fairness

-----------------------------------------------------------------------------
(* Properties.                                                             *)

(* Every variable has its type: permits and the progress that waits never  *)
(* go below zero, and no file is longer than its article.                  *)
TypeOK ==
  /\ row \in [Tasks -> {"absent", "pending", "in_progress", "completed", "failed"}]
  /\ failed \subseteq Jobs
  /\ cancelRequested \subseteq Jobs
  /\ articlesCompleted \in [Jobs -> Nat]
  /\ partial \in [Tasks -> NoFile..Chunks]
  /\ complete \in [Tasks -> NoFile..Chunks]
  /\ tpc \in [Tasks -> TaskPc]
  /\ prov \in [Tasks -> 1..NumProviders + 1]
  /\ free \in [Engines -> [Providers -> Nat]]
  /\ mpc \in [Jobs -> MainPc]
  /\ pending \in [Jobs -> SUBSET Articles]
  /\ unflushed \in [Jobs -> Nat]
  /\ outcome \in [Jobs -> {"none", "succeeded", "cancelled", "failed"}]
  /\ hurt \subseteq Jobs
  /\ runs \in [Jobs -> 0..MaxRuns]
  /\ crashes \in 0..MaxCrashes

(* Partial data is never mistaken for a durable article: a .complete file  *)
(* holds the whole body, and a row that reads completed has such a file,   *)
(* whatever was cancelled, raised or killed on the way.                    *)
CompletedIsWhole ==
  \A t \in Tasks :
    /\ complete[t] \in {NoFile, Chunks}
    /\ row[t] = "completed" => complete[t] = Chunks

(* A call that returns has every article, and one that ended has nothing   *)
(* left running: no thread, no future, no permit in use.                   *)
SuccessIsComplete ==
  \A j \in Jobs :
    /\ outcome[j] = "succeeded" /\ mpc[j] = "out"
         => \A a \in Articles : row[<<j, a>>] = "completed"
    /\ mpc[j] \in {"idle", "flush", "markFailed", "out"}
         => \A a \in Articles : tpc[<<j, a>>] = "none"

(* A restarted download skips what it has: an article that is completed    *)
(* and on disk is never fetched again.                                     *)
CompletedIsNotRefetched ==
  [][\A t \in Tasks :
        row[t] = "completed" /\ complete[t] # NoFile => row'[t] # "in_progress"]_vars

(* While no transaction fails, articles_completed, which the UI shows, is  *)
(* the number of rows that read completed, over all retries and crashes.   *)
CounterCountsRows ==
  ~Store =>
    \A j \in Jobs :
      articlesCompleted[j] = Cardinality({a \in Articles : row[<<j, a>>] = "completed"})

(* Terminal transitions always flush progress: when download_job is left,  *)
(* by return or by exception, nothing waits in the coalescer.              *)
ProgressIsFlushed ==
  ~Store => \A j \in Jobs : mpc[j] = "out" => unflushed[j] = 0

Streams(e, p) == {t \in Tasks : EngineOf[t[1]] = e /\ tpc[t] = "stream" /\ prov[t] = p}

(* The free permits and the open streams of an engine's provider pool add  *)
(* up to max_connections: an article that fails, is cancelled or falls     *)
(* back takes no permit away for good and gives none back twice, so that   *)
(* one engine never holds more connections than the provider allows.       *)
PermitsAddUp ==
  \A e \in Engines, p \in Providers :
    free[e][p] + Cardinality(Streams(e, p)) = MaxConnections[p]

(* The live-NNTP design: the connection count never exceeds the provider's *)
(* max_connections, whichever engine opened the connections.               *)
ConnectionsBounded ==
  \A p \in Providers :
    Cardinality({t \in Tasks : tpc[t] = "stream" /\ prov[t] = p}) <= MaxConnections[p]

(* Fallback is automatic: when some pooled provider has each article, a    *)
(* call fails only because it met a failure, never because an earlier      *)
(* provider lacks an article.                                              *)
FallbackIsAutomatic ==
  (\A a \in Articles : \E p \in Pooled : <<p, a>> \in Carries)
    => \A j \in Jobs : outcome[j] = "failed" => j \in hurt

(* download_job keeps the promise of DownloadOutcome.  It has succeeded    *)
(* once submit_next has found the flag clear and no thread is left.        *)
PhaseOf(j) ==
  CASE mpc[j] = "idle" -> "idle"
    [] mpc[j] \in {"ensure", "list", "fill", "drainCancel", "drainFail"} -> "running"
    [] mpc[j] = "loop" -> IF Futures(j) = {} THEN "succeeded" ELSE "running"
    [] mpc[j] \in {"markFailed", "flush", "out"} -> outcome[j]

Outcome == INSTANCE DownloadOutcome WITH
  phase <- [j \in Jobs |-> PhaseOf(j)],
  asked <- cancelRequested,
  have  <- [j \in Jobs |-> {a \in Articles : row[<<j, a>>] = "completed"}]

ImplementsOutcome == Outcome!Spec

(* A call of download_job that is not killed ends.                         *)
CallEnds == \A j \in Jobs : mpc[j] = "ensure" ~> mpc[j] \in {"out", "idle"}

=============================================================================
