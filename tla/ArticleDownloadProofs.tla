----------------------- MODULE ArticleDownloadProofs ------------------------
(***************************************************************************)
(* Theorems about ArticleDownload, for any number of jobs, articles,       *)
(* providers, engines, slots and connections.                              *)
(***************************************************************************)
EXTENDS ArticleDownload, FiniteSetTheorems, TLAPS

USE DEF vars, dbVars, fileVars, taskVars, mainVars, bounds, calm,
        Goto, MainGoto, NoFile, Store

(* A task is the pair of its job and its article.                          *)
LEMMA TaskIsPair ==
  ASSUME NEW t \in Tasks
  PROVE  t = <<t[1], t[2]>> /\ t[1] \in Jobs /\ t[2] \in Articles
  BY DEF Tasks

LEMMA PairIsTask ==
  ASSUME NEW j \in Jobs, NEW a \in Articles
  PROVE  <<j, a>> \in Tasks
  BY DEF Tasks

-----------------------------------------------------------------------------
(* Type correctness.  A task past "try" has a provider, which is why the   *)
(* semaphores it takes and returns exist.                                  *)

Unassigned == {"none", "slot", "try"} \cup Ended

TypeInv ==
  /\ TypeOK
  /\ \A t \in Tasks : tpc[t] \notin Unassigned => prov[t] \in Providers

LEMMA TypeInit == Init => TypeInv
  BY ConstantsAssumption
  DEF Init, TypeInv, TypeOK, Providers, TaskPc, InSlot, Ended, MainPc, InCall, Unassigned

LEMMA TypeMain ==
  ASSUME TypeInv, NEW j \in Jobs,
         Begin(j) \/ MainStep(j) \/ Requeues(j) \/ RequestsCancel(j)
  PROVE  TypeInv'
<1> USE ConstantsAssumption
        DEF TypeInv, TypeOK, Providers, TaskPc, InSlot, Ended, MainPc, InCall, Unassigned
<1>1. CASE Begin(j)
  <2>1. runs' \in [Jobs -> 0..MaxRuns]
    BY <1>1 DEF Begin
  <2>2. QED BY <1>1, <2>1 DEF Begin
<1>2. CASE EnsuresArticles(j)
  BY <1>2 DEF EnsuresArticles
<1>3. CASE ListsPending(j)
  BY <1>3 DEF ListsPending, Unfinished
<1>4. ASSUME NEW tpc0, NEW later, NEW last, SubmitsNext(j, tpc0, later, last),
             tpc0 \in [Tasks -> TaskPc], later \in MainPc, last \in MainPc,
             \A t \in Tasks : tpc0[t] \notin Unassigned => prov[t] \in Providers,
             UNCHANGED <<dbVars, fileVars, free, unflushed, outcome, calm>>
      PROVE  TypeInv'
  <2>1. CASE pending[j] = {} /\ tpc' = tpc0
    <3>1. /\ mpc' = [mpc EXCEPT ![j] = later] \/ mpc' = [mpc EXCEPT ![j] = last]
          /\ UNCHANGED <<pending, prov>>
      BY <1>4, <2>1 DEF SubmitsNext
    <3>2. mpc' \in [Jobs -> MainPc]
      BY <1>4, <3>1
    <3>3. QED BY <1>4, <2>1, <3>1, <3>2
  <2>2. CASE pending[j] # {}
    <3>1. PICK a \in pending[j] :
            /\ tpc' = [tpc0 EXCEPT ![<<j, a>>] = "slot"]
            /\ prov' = [prov EXCEPT ![<<j, a>>] = 1]
            /\ pending' = [pending EXCEPT ![j] = @ \ {a}]
            /\ mpc' = [mpc EXCEPT ![j] = later]
      BY <1>4, <2>2 DEF SubmitsNext
    <3>2. <<j, a>> \in Tasks
      BY <3>1, PairIsTask
    <3>3. prov' \in [Tasks -> 1..NumProviders + 1]
      BY <3>1, <3>2
    <3>4. pending' \in [Jobs -> SUBSET Articles]
      BY <3>1
    <3>5. QED BY <1>4, <3>1, <3>2, <3>3, <3>4
  <2>3. QED BY <1>4, <2>1, <2>2 DEF SubmitsNext
<1>5. CASE Fills(j)
  <2>1. CASE j \in cancelRequested
    BY <1>5, <2>1 DEF Fills
  <2>2. CASE j \notin cancelRequested
    BY <1>4, <1>5, <2>2 DEF Fills
  <2>3. QED BY <2>1, <2>2
<1>6. ASSUME NEW a \in Articles, Reaps(j, a) PROVE TypeInv'
  <2> DEFINE reaped == [tpc EXCEPT ![<<j, a>>] = "none"]
  <2>1. /\ reaped \in [Tasks -> TaskPc]
        /\ \A t \in Tasks : reaped[t] \notin Unassigned => prov[t] \in Providers
    OBVIOUS
  <2>2. CASE j \in cancelRequested
    BY <1>6, <2>1, <2>2 DEF Reaps
  <2>3. CASE j \notin cancelRequested
    BY <1>4, <1>6, <2>1, <2>3 DEF Reaps
  <2>4. QED BY <2>2, <2>3
<1>7. ASSUME NEW a \in Articles, ReapsError(j, a) PROVE TypeInv'
  BY <1>7 DEF ReapsError
<1>8. CASE LeavesLoop(j)
  BY <1>8 DEF LeavesLoop
<1>9. CASE Drains(j)
  BY <1>9 DEF Drains
<1>10. CASE MarksFailed(j)
  BY <1>10 DEF MarksFailed
<1>11. CASE Flushes(j)
  <2>1. unflushed' = [unflushed EXCEPT ![j] = 0] /\ 0 \in Nat
    BY <1>11 DEF Flushes
  <2>2. unflushed' \in [Jobs -> Nat]
    BY <2>1
  <2>3. QED BY <1>11, <2>2 DEF Flushes
<1>12. CASE MainRaises(j)
  <2>1. /\ mpc' \in [Jobs -> MainPc]
        /\ outcome' \in [Jobs -> {"none", "succeeded", "cancelled", "failed"}]
        /\ hurt' \subseteq Jobs
    BY <1>12 DEF MainRaises
  <2>2. tpc' = tpc \/ \E a \in Articles : tpc' = [tpc EXCEPT ![<<j, a>>] = "none"]
    BY <1>12 DEF MainRaises
  <2>3. /\ tpc' \in [Tasks -> TaskPc]
        /\ \A t \in Tasks : tpc'[t] \notin Unassigned => tpc[t] \notin Unassigned
    BY <2>2
  <2>4. UNCHANGED <<dbVars, fileVars, prov, free, pending, unflushed, bounds>>
    BY <1>12 DEF MainRaises
  <2>5. QED BY <2>1, <2>3, <2>4
<1>13. CASE Requeues(j)
  <2>1. unflushed' = [unflushed EXCEPT ![j] = 0] /\ 0 \in Nat
    BY <1>13 DEF Requeues
  <2>2. unflushed' \in [Jobs -> Nat]
    BY <2>1
  <2>3. QED BY <1>13, <2>2 DEF Requeues
<1>14. CASE RequestsCancel(j)
  BY <1>14 DEF RequestsCancel
<1>15. QED
  BY <1>1, <1>2, <1>3, <1>5, <1>6, <1>7, <1>8, <1>9, <1>10, <1>11, <1>12, <1>13, <1>14
  DEF MainStep

(* Writing one permit count of one engine leaves a function to numbers.    *)
LEMMA PermitsFunction ==
  ASSUME NEW f \in [Engines -> [Providers -> Nat]],
         NEW e \in Engines, NEW p \in Providers, NEW n \in Nat
  PROVE  [f EXCEPT ![e][p] = n] \in [Engines -> [Providers -> Nat]]
<1>1. [f[e] EXCEPT ![p] = n] \in [Providers -> Nat]
  OBVIOUS
<1>2. [f EXCEPT ![e] = [f[e] EXCEPT ![p] = n]] \in [Engines -> [Providers -> Nat]]
  BY <1>1
<1>3. QED BY <1>2

LEMMA TypeTask ==
  ASSUME TypeInv, NEW t \in Tasks, TaskStep(t)
  PROVE  TypeInv'
<1> USE ConstantsAssumption
        DEF TypeInv, TypeOK, Providers, TaskPc, InSlot, Ended, Unassigned
<1>a. t[1] \in Jobs /\ t[2] \in Articles
  BY TaskIsPair
<1>b. EngineOf[t[1]] \in Engines
  BY <1>a
<1>1. CASE TakesSlot(t)
  BY <1>1 DEF TakesSlot
<1>2. CASE TriesProvider(t)
  <2>1. prov' \in [Tasks -> 1..NumProviders + 1]
    BY <1>2 DEF TriesProvider
  <2>2. QED BY <1>2, <2>1 DEF TriesProvider
<1>3. CASE ExhaustsProviders(t)
  BY <1>3 DEF ExhaustsProviders
<1>4. CASE StartsArticle(t)
  <2>1. partial' \in [Tasks -> NoFile..Chunks]
    BY <1>4 DEF StartsArticle
  <2>2. QED BY <1>4, <2>1 DEF StartsArticle
<1>5. ASSUME ReturnsPermit(t), prov[t] \in Providers
      PROVE  free' \in [Engines -> [Providers -> Nat]]
  <2>1. free[EngineOf[t[1]]] \in [Providers -> Nat]
    BY <1>b
  <2>2. free[EngineOf[t[1]]][prov[t]] + 1 \in Nat
    <3>1. free[EngineOf[t[1]]][prov[t]] \in Nat
      BY <1>5, <2>1, Zenon
    <3>2. QED BY ONLY <3>1
  <2>3. QED BY <1>5, <1>b, <2>2, PermitsFunction DEF ReturnsPermit
<1>c. ASSUME DropsPartial(t) PROVE partial' \in [Tasks -> NoFile..Chunks]
  BY <1>c DEF DropsPartial
<1>6. CASE OpensStream(t)
  <2>1. free' \in [Engines -> [Providers -> Nat]]
    <3>1. /\ free[EngineOf[t[1]]][prov[t]] > 0
          /\ free' = [free EXCEPT ![EngineOf[t[1]]][prov[t]] = @ - 1]
      BY <1>6 DEF OpensStream, TakesPermit
    <3>2. prov[t] \in Providers
      BY <1>6 DEF OpensStream
    <3>3. free[EngineOf[t[1]]][prov[t]] - 1 \in Nat
      <4>1. free[EngineOf[t[1]]] \in [Providers -> Nat]
        BY <1>b
      <4>2. free[EngineOf[t[1]]][prov[t]] \in Nat
        BY <3>2, <4>1, Zenon
      <4>3. QED BY ONLY <3>1, <4>2
    <3>4. QED BY <1>b, <3>1, <3>2, <3>3, PermitsFunction
  <2>2. QED BY <1>6, <2>1 DEF OpensStream
<1>7. CASE WritesChunk(t)
  <2>1. partial' \in [Tasks -> NoFile..Chunks]
    BY <1>7 DEF WritesChunk
  <2>2. unflushed' \in [Jobs -> Nat]
    <3>1. CASE unflushed' = [unflushed EXCEPT ![t[1]] = 0]
      <4>1. 0 \in Nat
        OBVIOUS
      <4>2. QED BY <3>1, <4>1
    <3>2. CASE /\ unflushed[t[1]] + 1 < FlushThreshold
               /\ unflushed' = [unflushed EXCEPT ![t[1]] = @ + 1]
      <4>1. unflushed[t[1]] + 1 \in Nat
        BY <1>a, <3>2
      <4>2. QED BY <3>2, <4>1
    <3>3. QED BY <1>7, <3>1, <3>2 DEF WritesChunk, RecordsProgress
  <2>3. QED BY <1>7, <2>1, <2>2 DEF WritesChunk
<1>8. CASE StreamEnds(t)
  BY <1>5, <1>8 DEF StreamEnds
<1>9. CASE StreamSeesCancel(t)
  BY <1>5, <1>9, <1>c DEF StreamSeesCancel
<1>10. CASE StreamFallsBack(t)
  BY <1>5, <1>10, <1>a, <1>c DEF StreamFallsBack
<1>11. CASE StreamFailsHard(t)
  <2>1. unflushed' \in [Jobs -> Nat]
    <3>1. CASE UNCHANGED unflushed
      BY <3>1
    <3>2. CASE unflushed' = [unflushed EXCEPT ![t[1]] = @ + 1]
      <4>1. unflushed[t[1]] + 1 \in Nat
        BY <1>a, <3>2
      <4>2. QED BY <3>2, <4>1
    <3>3. QED BY <1>11, <3>1, <3>2 DEF StreamFailsHard
  <2>2. QED BY <1>5, <1>11, <1>a, <1>c, <2>1 DEF StreamFailsHard
<1>12. CASE Replaces(t)
  <2>1. complete' \in [Tasks -> NoFile..Chunks]
    BY <1>12 DEF Replaces
  <2>2. QED BY <1>12, <1>c, <2>1 DEF Replaces
<1>13. CASE MarksCompleted(t)
  <2>1. articlesCompleted' \in [Jobs -> Nat]
    BY <1>13, <1>a DEF MarksCompleted
  <2>2. QED BY <1>13, <2>1 DEF MarksCompleted
<1>14. CASE RecordsSuccess(t)
  BY <1>14 DEF RecordsSuccess
<1>15. CASE MarksAttemptFailed(t)
  BY <1>15 DEF MarksAttemptFailed
<1>16. CASE GoesToNextProvider(t)
  <2>1. prov' \in [Tasks -> 1..NumProviders + 1]
    <3>1. prov[t] \in 1..NumProviders
      BY <1>16 DEF GoesToNextProvider
    <3>2. prov[t] + 1 \in 1..NumProviders + 1
      BY <3>1
    <3>3. QED BY <1>16, <3>2 DEF GoesToNextProvider
  <2>2. QED BY <1>16, <2>1 DEF GoesToNextProvider
<1>17. CASE MarksArticleFailed(t)
  BY <1>17 DEF MarksArticleFailed
<1>18. CASE TaskRaises(t)
  BY <1>18, <1>a DEF TaskRaises
<1>19. QED
  BY <1>1, <1>2, <1>3, <1>4, <1>6, <1>7, <1>8, <1>9, <1>10, <1>11, <1>12, <1>13, <1>14,
     <1>15, <1>16, <1>17, <1>18 DEF TaskStep

LEMMA TypeCrash ==
  ASSUME TypeInv, NEW e \in Engines, Crash(e)
  PROVE  TypeInv'
  BY ConstantsAssumption
  DEF Crash, TypeInv, TypeOK, Providers, TaskPc, MainPc, Ended, Unassigned

LEMMA TypeInductive == TypeInv /\ [Next]_vars => TypeInv'
<1>1. ASSUME TypeInv, UNCHANGED vars PROVE TypeInv'
  BY <1>1 DEF TypeInv, TypeOK
<1>2. QED BY <1>1, TypeMain, TypeTask, TypeCrash DEF Next

(* Every variable keeps its type: in particular no semaphore goes below    *)
(* zero and the coalescer never holds more than its threshold.             *)
THEOREM TypeCorrect == Spec => []TypeOK
<1>1. Spec => []TypeInv
  BY TypeInit, TypeInductive, PTL DEF Spec
<1>2. TypeInv => TypeOK
  BY DEF TypeInv
<1>3. QED BY <1>1, <1>2, PTL

-----------------------------------------------------------------------------
(* Files, rows and threads.                                                *)

(* The stages of a task before its body is whole.                          *)
Fetching == {"slot", "try", "start", "acquire", "stream", "retryMark", "retryHealth"}

Whole(t) == row[t] = "completed" /\ complete[t] # NoFile

(* What holds of one article: no file is in its place before it is whole,  *)
(* no row says completed before the file is there, and an article that is  *)
(* completed and on disk is not being fetched.                             *)
TaskInv(t) ==
  /\ complete[t] \in {NoFile, Chunks}
  /\ row[t] = "completed" => complete[t] = Chunks
  /\ tpc[t] = "replace" => partial[t] = Chunks
  /\ tpc[t] = "mark" => complete[t] = Chunks
  /\ tpc[t] \in Fetching => ~Whole(t)
  /\ tpc[t] \in {"health", "done"} => row[t] = "completed"

(* What holds of one call: its pending articles are neither whole nor      *)
(* under way, it has threads only while its executor is open, until it     *)
(* fails no article is forgotten, and success means all of them.           *)
Busy == {"fill", "loop", "drainCancel", "drainFail"}

PendingAreFree(j) ==
  \A a \in pending[j] : tpc[<<j, a>>] = "none" /\ ~Whole(<<j, a>>)

QuietOutside(j) ==
  mpc[j] \notin Busy => pending[j] = {} /\ \A a \in Articles : tpc[<<j, a>>] = "none"

NoneForgotten(j) ==
  mpc[j] \in {"fill", "loop"} =>
    \A a \in Articles :
      a \in pending[j] \/ tpc[<<j, a>>] # "none" \/ row[<<j, a>>] = "completed"

LoopHasThreads(j) ==
  mpc[j] = "loop" /\ (\A a \in Articles : tpc[<<j, a>>] = "none") => pending[j] = {}

SuccessHasAll(j) ==
  /\ mpc[j] = "markFailed" => outcome[j] = "failed"
  /\ mpc[j] \in {"flush", "out"} /\ outcome[j] = "succeeded" =>
       \A a \in Articles : row[<<j, a>>] = "completed"

JobInv(j) ==
  /\ PendingAreFree(j)
  /\ QuietOutside(j)
  /\ NoneForgotten(j)
  /\ LoopHasThreads(j)
  /\ SuccessHasAll(j)

EngineInv ==
  /\ TypeInv
  /\ \A t \in Tasks : TaskInv(t)
  /\ \A j \in Jobs : JobInv(j)

LEMMA EngineInit == Init => EngineInv
<1> SUFFICES ASSUME Init PROVE EngineInv
  OBVIOUS
<1>1. ASSUME NEW t \in Tasks PROVE TaskInv(t)
  BY DEF Init, TaskInv, Whole, Fetching
<1>2. ASSUME NEW j \in Jobs PROVE JobInv(j)
  BY PairIsTask DEF Init, JobInv, PendingAreFree, QuietOutside, NoneForgotten,
     LoopHasThreads, SuccessHasAll, Busy
<1>3. QED BY <1>1, <1>2, TypeInit DEF EngineInv

(* A step of a task writes on nothing of the other tasks and on nothing of *)
(* the calls, and its thread stays until the main thread reaps it.         *)
LEMMA TaskFrame ==
  ASSUME TypeInv, NEW t \in Tasks, TaskStep(t)
  PROVE  /\ UNCHANGED <<mpc, pending, outcome>>
         /\ tpc[t] # "none" /\ tpc'[t] # "none"
         /\ \A u \in Tasks : u # t =>
              /\ row'[u] = row[u] /\ tpc'[u] = tpc[u]
              /\ complete'[u] = complete[u] /\ partial'[u] = partial[u]
<1> USE DEF TypeInv, TypeOK
<1>1. CASE TakesSlot(t) \/ TriesProvider(t) \/ ExhaustsProviders(t)
  BY <1>1 DEF TakesSlot, TriesProvider, ExhaustsProviders
<1>2. CASE StartsArticle(t) \/ OpensStream(t) \/ WritesChunk(t) \/ StreamEnds(t)
  BY <1>2 DEF StartsArticle, OpensStream, WritesChunk, StreamEnds
<1>3. CASE StreamSeesCancel(t) \/ StreamFallsBack(t) \/ StreamFailsHard(t)
  BY <1>3 DEF StreamSeesCancel, StreamFallsBack, StreamFailsHard, DropsPartial
<1>4. CASE Replaces(t) \/ MarksCompleted(t) \/ RecordsSuccess(t)
  BY <1>4 DEF Replaces, MarksCompleted, RecordsSuccess, DropsPartial
<1>5. CASE MarksAttemptFailed(t) \/ GoesToNextProvider(t) \/ MarksArticleFailed(t)
  BY <1>5 DEF MarksAttemptFailed, GoesToNextProvider, MarksArticleFailed
<1>6. CASE TaskRaises(t)
  BY <1>6 DEF TaskRaises
<1>7. QED BY <1>1, <1>2, <1>3, <1>4, <1>5, <1>6 DEF TaskStep

(* Its own article stays in order.                                         *)
LEMMA TaskKeepsOwn ==
  ASSUME TypeInv, NEW t \in Tasks, TaskInv(t), TaskStep(t)
  PROVE  TaskInv(t)'
<1> USE DEF TypeInv, TypeOK, TaskInv, Whole, Fetching
<1>1. CASE TakesSlot(t) \/ TriesProvider(t) \/ ExhaustsProviders(t)
  BY <1>1 DEF TakesSlot, TriesProvider, ExhaustsProviders
<1>2. CASE StartsArticle(t) \/ OpensStream(t) \/ WritesChunk(t) \/ StreamEnds(t)
  BY <1>2 DEF StartsArticle, OpensStream, WritesChunk, StreamEnds
<1>3. CASE StreamSeesCancel(t) \/ StreamFallsBack(t) \/ StreamFailsHard(t)
  BY <1>3 DEF StreamSeesCancel, StreamFallsBack, StreamFailsHard
<1>4. CASE Replaces(t) \/ MarksCompleted(t) \/ RecordsSuccess(t)
  BY <1>4 DEF Replaces, MarksCompleted, RecordsSuccess
<1>5. CASE MarksAttemptFailed(t) \/ GoesToNextProvider(t) \/ MarksArticleFailed(t)
  BY <1>5 DEF MarksAttemptFailed, GoesToNextProvider, MarksArticleFailed
<1>6. CASE TaskRaises(t)
  BY <1>6 DEF TaskRaises
<1>7. QED BY <1>1, <1>2, <1>3, <1>4, <1>5, <1>6 DEF TaskStep

LEMMA TaskKeepsJob ==
  ASSUME TypeInv, NEW t \in Tasks, TaskStep(t), NEW j \in Jobs, JobInv(j)
  PROVE  JobInv(j)'
<1>1. /\ UNCHANGED <<mpc, pending, outcome>>
      /\ tpc[t] # "none" /\ tpc'[t] # "none"
      /\ \A u \in Tasks : u # t =>
           row'[u] = row[u] /\ tpc'[u] = tpc[u] /\ complete'[u] = complete[u]
  BY TaskFrame
<1>2. \A a \in Articles : <<j, a>> \in Tasks
  BY PairIsTask
<1>3. pending[j] \subseteq Articles
  BY DEF TypeInv, TypeOK
<1>4. PendingAreFree(j)'
  BY <1>1, <1>2, <1>3 DEF JobInv, PendingAreFree, Whole
<1>5. QuietOutside(j)'
  BY <1>1, <1>2 DEF JobInv, QuietOutside
<1>6. NoneForgotten(j)'
  BY <1>1, <1>2 DEF JobInv, NoneForgotten
<1>7. LoopHasThreads(j)'
  BY <1>1, <1>2 DEF JobInv, LoopHasThreads
<1>8. SuccessHasAll(j)'
  BY <1>1, <1>2 DEF JobInv, SuccessHasAll, QuietOutside, Busy
<1>9. QED BY <1>4, <1>5, <1>6, <1>7, <1>8 DEF JobInv

LEMMA TaskKeepsEngine ==
  ASSUME EngineInv, NEW t \in Tasks, TaskStep(t)
  PROVE  EngineInv'
<1>1. ASSUME NEW u \in Tasks PROVE TaskInv(u)'
  <2>1. CASE u = t
    BY <2>1, TaskKeepsOwn DEF EngineInv
  <2>2. CASE u # t
    BY <2>2, TaskFrame DEF EngineInv, TaskInv, Whole
  <2>3. QED BY <2>1, <2>2
<1>2. QED BY <1>1, TypeTask, TaskKeepsJob DEF EngineInv

-----------------------------------------------------------------------------
(* Steps of the main thread.                                               *)

(* A step of the main thread of j touches no file, and what it may do to   *)
(* an article is to insert its row, to start its thread when the article   *)
(* is pending, or to forget the thread.                                    *)
KeepsOthers(j) ==
  \A k \in Jobs : k # j =>
    mpc'[k] = mpc[k] /\ pending'[k] = pending[k] /\ outcome'[k] = outcome[k]

InsertsRows(j) ==
  \A t \in Tasks :
    \/ row'[t] = row[t]
    \/ t[1] = j /\ row[t] = "absent" /\ row'[t] = "pending"

MovesThreads(j) ==
  \A t \in Tasks :
    \/ tpc'[t] = tpc[t]
    \/ t[1] = j /\ tpc'[t] = "none"
    \/ t[1] = j /\ t[2] \in pending[j] /\ tpc'[t] = "slot"

MainOp(j) == Begin(j) \/ MainStep(j) \/ Requeues(j) \/ RequestsCancel(j)

Submits(j) == Fills(j) \/ \E a \in Articles : Reaps(j, a)

LEMMA SubmitMovesThreads ==
  ASSUME TypeInv, NEW j \in Jobs, NEW tpc0, NEW later, NEW last,
         SubmitsNext(j, tpc0, later, last),
         tpc0 \in [Tasks -> TaskPc],
         \A t \in Tasks : tpc0[t] = tpc[t] \/ (t[1] = j /\ tpc0[t] = "none")
  PROVE  MovesThreads(j)
<1>1. CASE tpc' = tpc0
  BY <1>1 DEF MovesThreads
<1>2. ASSUME NEW a \in pending[j], tpc' = [tpc0 EXCEPT ![<<j, a>>] = "slot"]
      PROVE  MovesThreads(j)
  <2>1. a \in Articles
    BY DEF TypeInv, TypeOK
  <2>2. <<j, a>> \in Tasks /\ <<j, a>>[1] = j /\ <<j, a>>[2] = a
    BY <2>1, PairIsTask
  <2>3. tpc'[<<j, a>>] = "slot"
    BY <1>2, <2>2
  <2>4. \A t \in Tasks : t # <<j, a>> => tpc'[t] = tpc0[t]
    BY <1>2
  <2>5. QED BY <2>2, <2>3, <2>4 DEF MovesThreads
<1>3. QED BY <1>1, <1>2 DEF SubmitsNext

LEMMA SubmitTouches ==
  ASSUME TypeInv, NEW j \in Jobs, Submits(j)
  PROVE  /\ UNCHANGED <<partial, complete, row, outcome>>
         /\ KeepsOthers(j)
         /\ MovesThreads(j)
<1>a. tpc \in [Tasks -> TaskPc] /\ mpc \in [Jobs -> MainPc] /\ pending \in [Jobs -> SUBSET Articles]
  BY DEF TypeInv, TypeOK
<1>1. CASE Fills(j)
  <2>1. UNCHANGED <<partial, complete, row, outcome>>
    BY <1>1 DEF Fills
  <2>2. KeepsOthers(j)
    BY <1>1, <1>a, <2>1 DEF Fills, SubmitsNext, KeepsOthers
  <2>3. CASE j \in cancelRequested
    <3>1. tpc' = tpc
      BY <1>1, <2>3 DEF Fills
    <3>2. MovesThreads(j)
      BY <3>1 DEF MovesThreads
    <3>3. QED BY <2>1, <2>2, <3>2
  <2>4. CASE j \notin cancelRequested
    <3>1. PICK later : SubmitsNext(j, tpc, later, "loop")
      BY <1>1, <2>4 DEF Fills
    <3>2. MovesThreads(j)
      <4>1. \A t \in Tasks : tpc[t] = tpc[t] \/ (t[1] = j /\ tpc[t] = "none")
        OBVIOUS
      <4>2. QED BY <1>a, <3>1, <4>1, SubmitMovesThreads, Zenon
    <3>3. QED BY <2>1, <2>2, <3>2
  <2>5. QED BY <2>1, <2>2, <2>3, <2>4
<1>2. ASSUME NEW a \in Articles, Reaps(j, a)
      PROVE  /\ UNCHANGED <<partial, complete, row, outcome>>
             /\ KeepsOthers(j)
             /\ MovesThreads(j)
  <2> DEFINE reaped == [tpc EXCEPT ![<<j, a>>] = "none"]
  <2>1. UNCHANGED <<partial, complete, row, outcome>>
    BY <1>2 DEF Reaps
  <2>2. KeepsOthers(j)
    BY <1>2, <1>a, <2>1 DEF Reaps, SubmitsNext, KeepsOthers
  <2>3. <<j, a>> \in Tasks /\ <<j, a>>[1] = j
    BY PairIsTask
  <2>4. reaped \in [Tasks -> TaskPc]
    BY <1>a DEF TaskPc
  <2>5. \A t \in Tasks : reaped[t] = tpc[t] \/ (t[1] = j /\ reaped[t] = "none")
    <3>1. reaped[<<j, a>>] = "none"
      BY <1>a, <2>3
    <3>2. \A t \in Tasks : t # <<j, a>> => reaped[t] = tpc[t]
      BY <1>a
    <3> HIDE DEF reaped
    <3>3. QED BY <2>3, <3>1, <3>2, Zenon
  <2>6. CASE j \in cancelRequested
    <3>1. tpc' = reaped
      BY <1>2, <2>6 DEF Reaps
    <3>2. MovesThreads(j)
      BY <2>5, <3>1 DEF MovesThreads
    <3>3. QED BY <2>1, <2>2, <3>2
  <2>7. CASE j \notin cancelRequested
    <3>1. SubmitsNext(j, reaped, "loop", "loop")
      BY <1>2, <2>7 DEF Reaps
    <3>2. MovesThreads(j)
      BY <2>4, <2>5, <3>1, SubmitMovesThreads
    <3>3. QED BY <2>1, <2>2, <3>2
  <2>8. QED BY <2>6, <2>7
<1>3. QED BY <1>1, <1>2 DEF Submits

LEMMA MainTouches ==
  ASSUME TypeInv, NEW j \in Jobs, MainOp(j)
  PROVE  /\ UNCHANGED <<partial, complete>>
         /\ KeepsOthers(j)
         /\ InsertsRows(j)
         /\ MovesThreads(j)
<1>a. /\ row \in [Tasks -> {"absent", "pending", "in_progress", "completed", "failed"}]
      /\ tpc \in [Tasks -> TaskPc] /\ mpc \in [Jobs -> MainPc]
      /\ pending \in [Jobs -> SUBSET Articles]
      /\ outcome \in [Jobs -> {"none", "succeeded", "cancelled", "failed"}]
  BY DEF TypeInv, TypeOK
<1>1. CASE Begin(j) \/ Requeues(j) \/ RequestsCancel(j) \/ MarksFailed(j) \/ Flushes(j)
           \/ LeavesLoop(j) \/ ListsPending(j)
  <2>1. UNCHANGED <<partial, complete, row, tpc>>
    BY <1>1 DEF Begin, Requeues, RequestsCancel, MarksFailed, Flushes, LeavesLoop, ListsPending
  <2>2. KeepsOthers(j)
    BY <1>1, <1>a DEF KeepsOthers, Begin, Requeues, RequestsCancel, MarksFailed, Flushes,
       LeavesLoop, ListsPending
  <2>3. QED BY <2>1, <2>2 DEF InsertsRows, MovesThreads
<1>2. CASE EnsuresArticles(j)
  <2>1. UNCHANGED <<partial, complete, tpc, pending, outcome>>
    BY <1>2 DEF EnsuresArticles
  <2>2. KeepsOthers(j)
    BY <1>2, <1>a, <2>1 DEF EnsuresArticles, KeepsOthers
  <2>3. InsertsRows(j)
    BY <1>2, <1>a DEF EnsuresArticles, InsertsRows
  <2>4. QED BY <2>1, <2>2, <2>3 DEF MovesThreads
<1>3. CASE Submits(j)
  BY <1>3, SubmitTouches DEF InsertsRows
<1>4. ASSUME UNCHANGED <<partial, complete, row>>, KeepsOthers(j), MovesThreads(j)
      PROVE  InsertsRows(j)
  BY <1>4 DEF InsertsRows
<1>5. ASSUME NEW a \in Articles,
             \/ ReapsError(j, a)
             \/ mpc[j] = "loop" /\ MainRaises(j) /\ tpc' = [tpc EXCEPT ![<<j, a>>] = "none"]
      PROVE  /\ UNCHANGED <<partial, complete, row>>
             /\ KeepsOthers(j)
             /\ MovesThreads(j)
  <2>1. <<j, a>> \in Tasks /\ <<j, a>>[1] = j
    BY PairIsTask
  <2>2. UNCHANGED <<partial, complete, row>>
    BY <1>5 DEF ReapsError, MainRaises
  <2>3. KeepsOthers(j)
    BY <1>5, <1>a DEF KeepsOthers, ReapsError, MainRaises
  <2>4. tpc' = [tpc EXCEPT ![<<j, a>>] = "none"]
    BY <1>5 DEF ReapsError
  <2>5. MovesThreads(j)
    BY <1>a, <2>1, <2>4 DEF MovesThreads
  <2>6. QED BY <2>2, <2>3, <2>5
<1>6. CASE Drains(j)
  <2>1. UNCHANGED <<partial, complete, row>>
    BY <1>6 DEF Drains
  <2>2. KeepsOthers(j)
    BY <1>6, <1>a DEF KeepsOthers, Drains
  <2>3. MovesThreads(j)
    BY <1>6 DEF Drains, MovesThreads
  <2>4. QED BY <1>4, <2>1, <2>2, <2>3
<1>7. CASE MainRaises(j)
  <2>1. CASE tpc' = tpc
    <3>1. UNCHANGED <<partial, complete, row>>
      BY <1>7 DEF MainRaises
    <3>2. KeepsOthers(j)
      BY <1>7, <1>a DEF KeepsOthers, MainRaises
    <3>3. QED BY <1>4, <2>1, <3>1, <3>2 DEF MovesThreads
  <2>2. CASE mpc[j] = "loop" /\ \E a \in Articles : tpc' = [tpc EXCEPT ![<<j, a>>] = "none"]
    BY <1>4, <1>5, <1>7, <2>2
  <2>3. QED BY <1>7, <2>1, <2>2 DEF MainRaises
<1>8. QED
  BY <1>1, <1>2, <1>3, <1>4, <1>5, <1>6, <1>7 DEF MainOp, MainStep, Submits

LEMMA MainKeepsTasks ==
  ASSUME EngineInv, NEW j \in Jobs, NEW t \in Tasks,
         MainOp(j)
  PROVE  TaskInv(t)'
<1>1. /\ UNCHANGED <<partial, complete>>
      /\ row'[t] = row[t] \/ (row[t] = "absent" /\ row'[t] = "pending")
      /\ \/ tpc'[t] = tpc[t]
         \/ tpc'[t] = "none"
         \/ t[1] = j /\ t[2] \in pending[j] /\ tpc'[t] = "slot"
  <2>1. TypeInv
    BY DEF EngineInv
  <2>2. UNCHANGED <<partial, complete>> /\ InsertsRows(j) /\ MovesThreads(j)
    BY <2>1, MainTouches
  <2>3. row'[t] = row[t] \/ (row[t] = "absent" /\ row'[t] = "pending")
    BY <2>2, Zenon DEF InsertsRows
  <2>4. \/ tpc'[t] = tpc[t]
        \/ tpc'[t] = "none"
        \/ t[1] = j /\ t[2] \in pending[j] /\ tpc'[t] = "slot"
    BY <2>2, Zenon DEF MovesThreads
  <2>5. QED BY <2>2, <2>3, <2>4
<1>2. t[1] = j /\ t[2] \in pending[j] => ~Whole(t)
  BY TaskIsPair DEF EngineInv, JobInv, PendingAreFree
<1>3. QED BY <1>1, <1>2 DEF EngineInv, TaskInv, Whole, Fetching

(* What a call needs of the state is unchanged by the other calls.         *)
LEMMA MainKeepsOthers ==
  ASSUME EngineInv, NEW j \in Jobs, NEW k \in Jobs, k # j,
         MainOp(j)
  PROVE  JobInv(k)'
<1>1. /\ mpc'[k] = mpc[k] /\ pending'[k] = pending[k] /\ outcome'[k] = outcome[k]
      /\ complete' = complete
      /\ \A a \in Articles : row'[<<k, a>>] = row[<<k, a>>] /\ tpc'[<<k, a>>] = tpc[<<k, a>>]
  <2>1. \A a \in Articles : <<k, a>> \in Tasks /\ <<k, a>>[1] # j
    BY PairIsTask
  <2>2. QED
    BY <2>1, MainTouches DEF EngineInv, KeepsOthers, InsertsRows, MovesThreads
<1>2. pending[k] \subseteq Articles
  BY DEF EngineInv, TypeInv, TypeOK
<1>3. QED
  BY <1>1, <1>2 DEF EngineInv, JobInv, PendingAreFree, QuietOutside, NoneForgotten,
     LoopHasThreads, SuccessHasAll, Whole

(* Submitting the next article, the tasks before it being tpc0.            *)
LEMMA SubmitKeepsJob ==
  ASSUME EngineInv, NEW j \in Jobs, NEW tpc0, NEW later,
         SubmitsNext(j, tpc0, later, "loop"), later \in {"fill", "loop"},
         mpc[j] \in {"fill", "loop"},
         tpc0 \in [Tasks -> TaskPc],
         \A a \in Articles :
           \/ tpc0[<<j, a>>] = tpc[<<j, a>>]
           \/ tpc0[<<j, a>>] = "none" /\ row[<<j, a>>] = "completed",
         \A a \in pending[j] : tpc0[<<j, a>>] = "none",
         UNCHANGED <<dbVars, fileVars, outcome>>
  PROVE  JobInv(j)'
<1> USE DEF EngineInv, TypeInv, TypeOK
<1>1. \A a \in Articles : <<j, a>> \in Tasks
  BY PairIsTask
<1>2. \A a \in Articles : a \in pending[j] \/ tpc0[<<j, a>>] # "none" \/ row[<<j, a>>] = "completed"
  BY DEF JobInv, NoneForgotten
<1>3. \A a \in pending[j] : a \in Articles /\ ~Whole(<<j, a>>)
  BY DEF JobInv, PendingAreFree
<1>4. CASE pending[j] = {} /\ tpc' = tpc0 /\ mpc' = [mpc EXCEPT ![j] = "loop"] /\ UNCHANGED pending
  BY <1>2, <1>4 DEF JobInv, PendingAreFree, QuietOutside, NoneForgotten, LoopHasThreads,
     SuccessHasAll, Busy
<1>5. ASSUME NEW a \in pending[j],
             tpc' = [tpc0 EXCEPT ![<<j, a>>] = "slot"],
             pending' = [pending EXCEPT ![j] = @ \ {a}],
             mpc' = [mpc EXCEPT ![j] = later]
      PROVE  JobInv(j)'
  <2>1. /\ a \in Articles /\ <<j, a>> \in Tasks
        /\ tpc'[<<j, a>>] = "slot"
        /\ \A b \in Articles : b # a => tpc'[<<j, b>>] = tpc0[<<j, b>>]
    BY <1>1, <1>3, <1>5
  <2>2. pending'[j] = pending[j] \ {a} /\ mpc'[j] = later
    BY <1>5
  <2>3. PendingAreFree(j)'
    BY <1>3, <2>1, <2>2 DEF PendingAreFree, Whole
  <2>4. NoneForgotten(j)'
    BY <1>2, <2>1, <2>2 DEF NoneForgotten
  <2>5. LoopHasThreads(j)'
    BY <2>1 DEF LoopHasThreads
  <2>6. QuietOutside(j)' /\ SuccessHasAll(j)'
    BY <2>2 DEF QuietOutside, SuccessHasAll, Busy
  <2>7. QED BY <2>3, <2>4, <2>5, <2>6 DEF JobInv
<1>6. QED BY <1>4, <1>5 DEF SubmitsNext

LEMMA MainKeepsOwn ==
  ASSUME EngineInv, NEW j \in Jobs,
         MainOp(j)
  PROVE  JobInv(j)'
<1> USE DEF EngineInv, TypeInv, TypeOK
<1>a. \A a \in Articles : <<j, a>> \in Tasks
  BY PairIsTask
<1>b. JobInv(j) /\ pending[j] \subseteq Articles
  OBVIOUS
<1>1. CASE Begin(j)
  BY <1>1, <1>a, <1>b DEF Begin, JobInv, PendingAreFree, QuietOutside, NoneForgotten,
     LoopHasThreads, SuccessHasAll, Busy
<1>2. CASE EnsuresArticles(j)
  BY <1>2, <1>a, <1>b DEF EnsuresArticles, JobInv, PendingAreFree, QuietOutside, NoneForgotten,
     LoopHasThreads, SuccessHasAll, Busy
<1>3. CASE ListsPending(j)
  BY <1>3, <1>a, <1>b DEF ListsPending, Unfinished, Whole, JobInv, PendingAreFree, QuietOutside,
     NoneForgotten, LoopHasThreads, SuccessHasAll, Busy
<1>4. CASE Fills(j)
  <2>1. CASE j \in cancelRequested
    BY <1>4, <1>a, <1>b, <2>1 DEF Fills, JobInv, PendingAreFree, QuietOutside, NoneForgotten,
       LoopHasThreads, SuccessHasAll, Busy, Whole
  <2>2. CASE j \notin cancelRequested
    BY <1>4, <1>b, <2>2, SubmitKeepsJob DEF Fills, JobInv, PendingAreFree
  <2>3. QED BY <2>1, <2>2
<1>5. ASSUME NEW a \in Articles, Reaps(j, a) PROVE JobInv(j)'
  <2> DEFINE reaped == [tpc EXCEPT ![<<j, a>>] = "none"]
  <2>1. row[<<j, a>>] = "completed" /\ a \notin pending[j]
    BY <1>5, <1>a, <1>b DEF Reaps, TaskInv, JobInv, PendingAreFree
  <2>2. /\ reaped \in [Tasks -> TaskPc]
        /\ \A b \in Articles :
             \/ reaped[<<j, b>>] = tpc[<<j, b>>]
             \/ reaped[<<j, b>>] = "none" /\ row[<<j, b>>] = "completed"
        /\ \A b \in pending[j] : reaped[<<j, b>>] = "none"
    BY <1>a, <1>b, <2>1 DEF TaskPc, JobInv, PendingAreFree
  <2>3. CASE j \in cancelRequested
    BY <1>5, <1>a, <1>b, <2>2, <2>3 DEF Reaps, JobInv, PendingAreFree, QuietOutside,
       NoneForgotten, LoopHasThreads, SuccessHasAll, Busy, Whole
  <2>4. CASE j \notin cancelRequested
    BY <1>5, <2>2, <2>4, SubmitKeepsJob DEF Reaps
  <2>5. QED BY <2>3, <2>4
<1>6. ASSUME NEW a \in Articles, ReapsError(j, a) PROVE JobInv(j)'
  BY <1>6, <1>a, <1>b DEF ReapsError, JobInv, PendingAreFree, QuietOutside, NoneForgotten,
     LoopHasThreads, SuccessHasAll, Busy, Whole
<1>7. CASE LeavesLoop(j)
  BY <1>7, <1>a, <1>b DEF LeavesLoop, Futures, JobInv, PendingAreFree, QuietOutside,
     NoneForgotten, LoopHasThreads, SuccessHasAll, Busy, Whole
<1>8. CASE Drains(j)
  BY <1>8, <1>a, <1>b DEF Drains, JobInv, PendingAreFree, QuietOutside, NoneForgotten,
     LoopHasThreads, SuccessHasAll, Busy
<1>9. CASE MarksFailed(j)
  BY <1>9, <1>a, <1>b DEF MarksFailed, JobInv, PendingAreFree, QuietOutside, NoneForgotten,
     LoopHasThreads, SuccessHasAll, Busy
<1>10. CASE Flushes(j)
  BY <1>10, <1>a, <1>b DEF Flushes, JobInv, PendingAreFree, QuietOutside, NoneForgotten,
     LoopHasThreads, SuccessHasAll, Busy
<1>11. CASE MainRaises(j)
  <2>1. /\ UNCHANGED <<row, complete, pending>>
        /\ \A a \in Articles : tpc'[<<j, a>>] \in {tpc[<<j, a>>], "none"}
    BY <1>11, <1>a DEF MainRaises
  <2>2. \/ /\ mpc[j] \in {"ensure", "list", "flush"} /\ mpc'[j] = "out"
           /\ outcome'[j] = "failed" /\ tpc' = tpc
        \/ mpc[j] \in {"fill", "loop"} /\ mpc'[j] = "drainFail"
        \/ mpc[j] = "markFailed" /\ mpc'[j] = "flush" /\ UNCHANGED <<outcome, tpc>>
    BY <1>11 DEF MainRaises
  <2>3. QED
    BY ONLY <1>b, <2>1, <2>2 DEF JobInv, PendingAreFree, QuietOutside, NoneForgotten,
       LoopHasThreads, SuccessHasAll, Busy, Whole
<1>12. CASE Requeues(j)
  BY <1>12, <1>a, <1>b DEF Requeues, JobInv, PendingAreFree, QuietOutside, NoneForgotten,
     LoopHasThreads, SuccessHasAll, Busy
<1>13. CASE RequestsCancel(j)
  BY <1>13, <1>a, <1>b DEF RequestsCancel, JobInv, PendingAreFree, QuietOutside, NoneForgotten,
     LoopHasThreads, SuccessHasAll, Busy, Whole
<1>14. QED
  BY <1>1, <1>2, <1>3, <1>4, <1>5, <1>6, <1>7, <1>8, <1>9, <1>10, <1>11, <1>12, <1>13
  DEF MainOp, MainStep

LEMMA CrashKeepsEngine ==
  ASSUME EngineInv, NEW e \in Engines, Crash(e)
  PROVE  EngineInv'
<1> USE DEF EngineInv, TypeInv, TypeOK
<1>1. ASSUME NEW t \in Tasks PROVE TaskInv(t)'
  BY DEF Crash, TaskInv, Whole, Fetching
<1>2. ASSUME NEW j \in Jobs PROVE JobInv(j)'
  <2>1. \A a \in Articles : <<j, a>> \in Tasks /\ <<j, a>>[1] = j
    BY PairIsTask
  <2>2. pending[j] \subseteq Articles /\ JobInv(j)
    OBVIOUS
  <2>3. CASE EngineOf[j] = e /\ mpc[j] # "idle"
    BY <2>1, <2>3 DEF Crash, JobInv, PendingAreFree, QuietOutside, NoneForgotten,
       LoopHasThreads, SuccessHasAll, Busy
  <2>4. CASE ~(EngineOf[j] = e /\ mpc[j] # "idle")
    <3>1. /\ mpc'[j] = mpc[j] /\ pending'[j] = pending[j] /\ outcome'[j] = outcome[j]
          /\ row' = row /\ complete' = complete
          /\ \A a \in Articles : tpc'[<<j, a>>] = tpc[<<j, a>>]
      BY <2>1, <2>4 DEF Crash
    <3>2. QED
      BY ONLY <2>2, <3>1 DEF JobInv, PendingAreFree, QuietOutside, NoneForgotten,
         LoopHasThreads, SuccessHasAll, Whole
  <2>5. QED BY <2>3, <2>4
<1>3. QED BY <1>1, <1>2, TypeCrash

LEMMA EngineInductive == EngineInv /\ [Next]_vars => EngineInv'
<1> SUFFICES ASSUME EngineInv, [Next]_vars PROVE EngineInv'
  OBVIOUS
<1>1. CASE UNCHANGED vars
  <2>1. TypeInv'
    BY <1>1, TypeInductive DEF EngineInv
  <2>2. QED
    BY <1>1, <2>1 DEF EngineInv, TaskInv, Whole, JobInv, PendingAreFree, QuietOutside,
       NoneForgotten, LoopHasThreads, SuccessHasAll
<1>2. ASSUME NEW j \in Jobs, MainOp(j)
      PROVE  EngineInv'
  <2>1. TypeInv'
    BY <1>2, TypeMain DEF EngineInv, MainOp
  <2>2. \A t \in Tasks : TaskInv(t)'
    BY <1>2, MainKeepsTasks
  <2>3. \A k \in Jobs : JobInv(k)'
    BY <1>2, MainKeepsOwn, MainKeepsOthers
  <2>4. QED BY <2>1, <2>2, <2>3 DEF EngineInv
<1>3. QED BY <1>1, <1>2, TaskKeepsEngine, CrashKeepsEngine DEF Next, MainOp

LEMMA EngineCorrect == Spec => []EngineInv
  BY EngineInit, EngineInductive, PTL DEF Spec

(* Whatever is cancelled, raised or killed, a .complete file is whole and  *)
(* a row that reads completed has one.                                     *)
THEOREM CompletedArticlesAreWhole == Spec => []CompletedIsWhole
<1>1. EngineInv => CompletedIsWhole
  BY DEF EngineInv, TaskInv, CompletedIsWhole
<1>2. QED BY <1>1, EngineCorrect, PTL

(* A call that returns has every article, and once a call has left its     *)
(* executor no thread of it is left.                                       *)
THEOREM SuccessHasEverything == Spec => []SuccessIsComplete
<1>1. EngineInv => SuccessIsComplete
  BY DEF EngineInv, JobInv, SuccessHasAll, QuietOutside, Busy, SuccessIsComplete
<1>2. QED BY <1>1, EngineCorrect, PTL

(* No article that is completed and on disk is fetched again.              *)
THEOREM NothingIsRefetched == Spec => CompletedIsNotRefetched
<1> DEFINE Skips == \A t \in Tasks :
             row[t] = "completed" /\ complete[t] # NoFile => row'[t] # "in_progress"
<1>1. EngineInv /\ [Next]_vars => [Skips]_vars
  <2> SUFFICES ASSUME EngineInv, Next PROVE Skips
    OBVIOUS
  <2>1. ASSUME NEW j \in Jobs, MainOp(j)
        PROVE  Skips
    BY <2>1, MainTouches DEF EngineInv, InsertsRows
  <2>2. ASSUME NEW t \in Tasks, TaskStep(t) PROVE Skips
    <3>1. \A u \in Tasks : u # t => row'[u] = row[u]
      BY <2>2, TaskFrame DEF EngineInv
    <3>2. row[t] = "completed" /\ complete[t] # NoFile => row'[t] # "in_progress"
      <4>1. tpc[t] = "start" => ~Whole(t)
        BY DEF EngineInv, TaskInv, Fetching
      <4>2. CASE StartsArticle(t)
        BY <4>1, <4>2 DEF StartsArticle, Whole
      <4>3. CASE ~StartsArticle(t)
        BY <2>2, <4>3
        DEF TaskStep, TakesSlot, TriesProvider, ExhaustsProviders, OpensStream, WritesChunk,
            StreamEnds, StreamSeesCancel, StreamFallsBack, StreamFailsHard, Replaces,
            MarksCompleted, RecordsSuccess, MarksAttemptFailed, GoesToNextProvider,
            MarksArticleFailed, TaskRaises, EngineInv, TypeInv, TypeOK
      <4>4. QED BY <4>2, <4>3
    <3>3. QED BY <3>1, <3>2
  <2>3. ASSUME NEW e \in Engines, Crash(e) PROVE Skips
    BY <2>3 DEF Crash
  <2>4. QED BY <2>1, <2>2, <2>3 DEF Next, MainOp
<1>2. QED BY <1>1, EngineCorrect, PTL DEF Spec, CompletedIsNotRefetched

-----------------------------------------------------------------------------
(* What a step of a main thread does to threads: those at work go on, with *)
(* their providers; a thread that ended, or none, may be put in a slot's   *)
(* queue.                                                                  *)

Still == Ended \cup {"none"}

StartsThreads(j) ==
  \A t \in Tasks :
    \/ tpc'[t] = tpc[t] /\ prov'[t] = prov[t]
    \/ /\ t[1] = j /\ tpc[t] \in Still
       /\ \/ tpc'[t] = "none" /\ prov'[t] = prov[t]
          \/ tpc'[t] = "slot" /\ prov'[t] = 1 /\ mpc[j] \in {"fill", "loop"}

LEMMA SubmitStarts ==
  ASSUME EngineInv, NEW j \in Jobs, NEW tpc0, NEW later, NEW last,
         SubmitsNext(j, tpc0, later, last), mpc[j] \in {"fill", "loop"},
         tpc0 \in [Tasks -> TaskPc],
         \A t \in Tasks : tpc0[t] = tpc[t] \/ (t[1] = j /\ tpc[t] \in Still /\ tpc0[t] = "none")
  PROVE  StartsThreads(j)
<1>1. CASE tpc' = tpc0 /\ prov' = prov
  BY <1>1 DEF StartsThreads
<1>2. ASSUME NEW a \in pending[j], tpc' = [tpc0 EXCEPT ![<<j, a>>] = "slot"],
             prov' = [prov EXCEPT ![<<j, a>>] = 1]
      PROVE  StartsThreads(j)
  <2>1. a \in Articles
    BY DEF EngineInv, TypeInv, TypeOK
  <2>2. <<j, a>> \in Tasks /\ <<j, a>>[1] = j
    BY <2>1, PairIsTask
  <2>3. tpc[<<j, a>>] = "none"
    BY <2>1 DEF EngineInv, JobInv, PendingAreFree
  <2>4. tpc'[<<j, a>>] = "slot" /\ prov'[<<j, a>>] = 1
    BY <1>2, <2>2 DEF EngineInv, TypeInv, TypeOK
  <2>5. \A t \in Tasks : t # <<j, a>> => tpc'[t] = tpc0[t] /\ prov'[t] = prov[t]
    BY <1>2 DEF EngineInv, TypeInv, TypeOK
  <2>6. ASSUME NEW t \in Tasks, t = <<j, a>>
        PROVE  t[1] = j /\ tpc[t] \in Still /\ tpc'[t] = "slot" /\ prov'[t] = 1
    BY <2>2, <2>3, <2>4, <2>6 DEF Still
  <2>7. QED BY <2>5, <2>6 DEF StartsThreads
<1>3. QED BY <1>1, <1>2 DEF SubmitsNext

LEMMA MainStarts ==
  ASSUME EngineInv, NEW j \in Jobs, MainOp(j)
  PROVE  StartsThreads(j)
<1>a. tpc \in [Tasks -> TaskPc] /\ prov \in [Tasks -> 1..NumProviders + 1]
  BY DEF EngineInv, TypeInv, TypeOK
<1>1. CASE Begin(j) \/ Requeues(j) \/ RequestsCancel(j) \/ MarksFailed(j) \/ Flushes(j)
           \/ LeavesLoop(j) \/ ListsPending(j) \/ EnsuresArticles(j)
  <2>1. UNCHANGED <<tpc, prov>>
    BY <1>1 DEF Begin, Requeues, RequestsCancel, MarksFailed, Flushes, LeavesLoop, ListsPending,
       EnsuresArticles
  <2>2. QED BY <2>1 DEF StartsThreads
<1>2. CASE Fills(j)
  <2>1. CASE j \in cancelRequested
    <3>1. UNCHANGED <<tpc, prov>>
      BY <1>2, <2>1 DEF Fills
    <3>2. QED BY <3>1 DEF StartsThreads
  <2>2. CASE j \notin cancelRequested
    <3>1. PICK later : SubmitsNext(j, tpc, later, "loop")
      BY <1>2, <2>2 DEF Fills
    <3>2. mpc[j] = "fill"
      BY <1>2 DEF Fills
    <3>3. QED BY <1>a, <3>1, <3>2, SubmitStarts
  <2>3. QED BY <2>1, <2>2
<1>3. ASSUME NEW a \in Articles, tpc[<<j, a>>] \in Still
      PROVE  LET reaped == [tpc EXCEPT ![<<j, a>>] = "none"] IN
             /\ reaped \in [Tasks -> TaskPc]
             /\ \A t \in Tasks :
                  reaped[t] = tpc[t] \/ (t[1] = j /\ tpc[t] \in Still /\ reaped[t] = "none")
  <2>1. <<j, a>> \in Tasks /\ <<j, a>>[1] = j
    BY PairIsTask
  <2>2. QED BY <1>3, <1>a, <2>1 DEF TaskPc
<1>4. ASSUME NEW a \in Articles, Reaps(j, a) PROVE StartsThreads(j)
  <2> DEFINE reaped == [tpc EXCEPT ![<<j, a>>] = "none"]
  <2>1. mpc[j] = "loop" /\ tpc[<<j, a>>] \in Still
    BY <1>4 DEF Reaps, Still, Ended
  <2>2. /\ reaped \in [Tasks -> TaskPc]
        /\ \A t \in Tasks :
             reaped[t] = tpc[t] \/ (t[1] = j /\ tpc[t] \in Still /\ reaped[t] = "none")
    BY <1>3, <2>1
  <2>3. CASE j \in cancelRequested
    <3>1. tpc' = reaped /\ prov' = prov
      BY <1>4, <2>3 DEF Reaps
    <3>2. QED BY <2>2, <3>1 DEF StartsThreads
  <2>4. CASE j \notin cancelRequested
    <3>1. SubmitsNext(j, reaped, "loop", "loop")
      BY <1>4, <2>4 DEF Reaps
    <3>2. QED BY <2>1, <2>2, <3>1, SubmitStarts
  <2>5. QED BY <2>3, <2>4
<1>5. ASSUME NEW a \in Articles, ReapsError(j, a) PROVE StartsThreads(j)
  <2>1. tpc[<<j, a>>] \in Still /\ tpc' = [tpc EXCEPT ![<<j, a>>] = "none"] /\ prov' = prov
    BY <1>5 DEF ReapsError, Still, Ended
  <2>2. QED BY <1>3, <2>1 DEF StartsThreads
<1>6. CASE Drains(j)
  <2>1. /\ \A a \in Articles : tpc[<<j, a>>] \in Still
        /\ tpc' = [t \in Tasks |-> IF t[1] = j THEN "none" ELSE tpc[t]]
        /\ prov' = prov
    BY <1>6 DEF Drains, Futures, Still
  <2>2. \A t \in Tasks : t[1] = j => tpc[t] \in Still
    BY <2>1, TaskIsPair
  <2>3. QED BY <2>1, <2>2 DEF StartsThreads
<1>7. CASE MainRaises(j)
  <2>1. CASE tpc' = tpc
    BY <1>7, <2>1 DEF MainRaises, StartsThreads
  <2>2. ASSUME NEW a \in Articles, Goto(<<j, a>>, "done", "none") PROVE StartsThreads(j)
    <3>1. tpc[<<j, a>>] \in Still /\ tpc' = [tpc EXCEPT ![<<j, a>>] = "none"] /\ prov' = prov
      BY <1>7, <2>2 DEF MainRaises, Still, Ended
    <3>2. QED BY <1>3, <3>1 DEF StartsThreads
  <2>3. QED BY <1>7, <2>1, <2>2 DEF MainRaises
<1>8. QED BY <1>1, <1>2, <1>4, <1>5, <1>6, <1>7 DEF MainOp, MainStep

-----------------------------------------------------------------------------
(* Progress.  No thread is left when a call has been left, so that nothing *)
(* comes after the last flush.                                             *)

LEMMA ProgressStep ==
  ASSUME ~Store, EngineInv, ProgressIsFlushed, [Next]_vars
  PROVE  ProgressIsFlushed'
<1> USE DEF ProgressIsFlushed
<1>a. mpc \in [Jobs -> MainPc] /\ unflushed \in [Jobs -> Nat]
  BY DEF EngineInv, TypeInv, TypeOK
<1>1. CASE UNCHANGED vars
  BY <1>1
<1>2. ASSUME NEW j \in Jobs, MainOp(j) PROVE ProgressIsFlushed'
  <2>1. CASE Begin(j) \/ RequestsCancel(j) \/ EnsuresArticles(j) \/ ListsPending(j)
             \/ LeavesLoop(j) \/ MarksFailed(j) \/ Drains(j)
    BY <1>a, <2>1 DEF Begin, RequestsCancel, EnsuresArticles, ListsPending, LeavesLoop, MarksFailed,
       Drains
  <2>2. CASE Fills(j)
    <3>1. /\ unflushed' = unflushed
          /\ \E there \in MainPc \ {"out"} : mpc' = [mpc EXCEPT ![j] = there]
      BY <2>2 DEF Fills, SubmitsNext, MainPc, InCall
    <3>2. QED BY <1>a, <3>1
  <2>3. ASSUME NEW a \in Articles, Reaps(j, a) \/ ReapsError(j, a) PROVE ProgressIsFlushed'
    <3>1. /\ unflushed' = unflushed
          /\ \E there \in MainPc \ {"out"} : mpc' = [mpc EXCEPT ![j] = there]
      BY <2>3 DEF Reaps, ReapsError, SubmitsNext, MainPc, InCall
    <3>2. QED BY <1>a, <3>1
  <2>4. CASE Flushes(j) \/ Requeues(j)
    BY <1>a, <2>4 DEF Flushes, Requeues
  <2>5. CASE MainRaises(j)
    BY <2>5 DEF MainRaises
  <2>6. QED BY <1>2, <2>1, <2>2, <2>3, <2>4, <2>5 DEF MainOp, MainStep
<1>3. ASSUME NEW t \in Tasks, TaskStep(t) PROVE ProgressIsFlushed'
  <2>1. t[1] \in Jobs /\ mpc' = mpc /\ mpc[t[1]] # "out"
    <3>1. tpc[t] # "none" /\ mpc' = mpc
      BY <1>3, TaskFrame DEF EngineInv
    <3>2. QED BY <3>1, TaskIsPair DEF EngineInv, JobInv, QuietOutside, Busy
  <2>2. \A j \in Jobs : j # t[1] => unflushed'[j] = unflushed[j]
    <3>1. \/ unflushed' = unflushed
          \/ \E n : unflushed' = [unflushed EXCEPT ![t[1]] = n]
      BY <1>3 DEF TaskStep, TakesSlot, TriesProvider, ExhaustsProviders, StartsArticle, OpensStream,
         WritesChunk, RecordsProgress, StreamEnds, StreamSeesCancel, StreamFallsBack,
         StreamFailsHard, Replaces, MarksCompleted, RecordsSuccess, MarksAttemptFailed,
         GoesToNextProvider, MarksArticleFailed, TaskRaises
    <3>2. QED BY <1>a, <3>1
  <2>3. QED BY <2>1, <2>2
<1>4. ASSUME NEW e \in Engines, Crash(e) PROVE ProgressIsFlushed'
  BY <1>4 DEF Crash
<1>5. QED BY <1>1, <1>2, <1>3, <1>4 DEF Next, MainOp

(* While no transaction fails, nothing waits in the coalescer of a call    *)
(* that was left.                                                          *)
THEOREM ProgressGetsFlushed == Spec => []ProgressIsFlushed
<1>1. Init => ProgressIsFlushed
  BY DEF Init, ProgressIsFlushed
<1>2. EngineInv /\ ProgressIsFlushed /\ [Next]_vars => ProgressIsFlushed'
  BY ProgressStep DEF ProgressIsFlushed
<1>3. QED BY <1>1, <1>2, EngineCorrect, PTL DEF Spec

-----------------------------------------------------------------------------
(* Fallback.  An article whose providers so far all lack it has a pooled   *)
(* provider before it; what ends it as failed, and its call with it, is a  *)
(* failure the call met.                                                   *)

Everywhere == \A a \in Articles : \E p \in Pooled : <<p, a>> \in Carries

TaskFallback(t) ==
  \/ t[1] \in hurt
  \/ /\ tpc[t] \notin {"hardMark", "failed"}
     /\ tpc[t] \in Fetching => \A p \in Pooled : p < prov[t] => <<p, t[2]>> \notin Carries
     /\ tpc[t] \in {"retryMark", "retryHealth"} => <<prov[t], t[2]>> \notin Carries

JobFallback(j) ==
  mpc[j] \in {"drainFail", "markFailed"} \/ outcome[j] = "failed" => j \in hurt

FallbackInv == (\A t \in Tasks : TaskFallback(t)) /\ (\A j \in Jobs : JobFallback(j))

LEMMA FallbackOwnTask ==
  ASSUME Everywhere, EngineInv, NEW t \in Tasks, TaskFallback(t), TaskStep(t)
  PROVE  TaskFallback(t)'
<1> USE ConstantsAssumption DEF EngineInv, TypeInv, TypeOK, TaskFallback, Fetching, Providers
<1>a. t[1] \in Jobs /\ t[2] \in Articles
  BY TaskIsPair
<1>1. CASE TakesSlot(t) \/ StartsArticle(t) \/ OpensStream(t) \/ WritesChunk(t) \/ StreamEnds(t)
  BY <1>1 DEF TakesSlot, StartsArticle, OpensStream, WritesChunk, StreamEnds
<1>2. CASE TriesProvider(t)
  <2>1. /\ hurt' = hurt /\ tpc[t] = "try"
        /\ \/ tpc'[t] = "cancelled"
           \/ tpc'[t] = "start" /\ prov'[t] = prov[t]
           \/ tpc'[t] = "try" /\ prov'[t] = prov[t] + 1 /\ prov[t] \notin Pooled
    BY <1>2 DEF TriesProvider
  <2>2. prov[t] \in Nat /\ Pooled \subseteq Nat
    OBVIOUS
  <2>3. \A p \in Pooled : p < prov[t] + 1 /\ prov[t] \notin Pooled => p < prov[t]
    BY ONLY <2>2
  <2>4. TaskFallback(t)
    OBVIOUS
  <2>5. QED BY ONLY <2>1, <2>3, <2>4 DEF TaskFallback, Fetching
<1>3. CASE ExhaustsProviders(t)
  <2>1. PICK p \in Pooled : <<p, t[2]>> \in Carries
    BY <1>a DEF Everywhere
  <2>2. p < prov[t]
    BY <1>3 DEF ExhaustsProviders
  <2>3. t[1] \in hurt
    BY <1>3, <2>1, <2>2 DEF ExhaustsProviders
  <2>4. QED BY <1>3, <2>3 DEF ExhaustsProviders
<1>4. CASE StreamSeesCancel(t) \/ StreamFallsBack(t) \/ StreamFailsHard(t)
  BY <1>4 DEF StreamSeesCancel, StreamFallsBack, StreamFailsHard
<1>5. CASE Replaces(t) \/ MarksCompleted(t) \/ RecordsSuccess(t)
  <2>1. tpc'[t] \in {"mark", "health", "done"} /\ hurt' = hurt
    BY <1>5 DEF Replaces, MarksCompleted, RecordsSuccess
  <2>2. QED BY ONLY <2>1 DEF TaskFallback, Fetching
<1>6. CASE MarksAttemptFailed(t)
  BY <1>6 DEF MarksAttemptFailed
<1>7. CASE GoesToNextProvider(t)
  <2>1. /\ hurt' = hurt /\ tpc[t] = "retryHealth" /\ tpc'[t] = "try"
        /\ prov'[t] = prov[t] + 1
    BY <1>7 DEF GoesToNextProvider
  <2>2. prov[t] \in Nat /\ Pooled \subseteq Nat
    OBVIOUS
  <2>3. \A p \in Pooled : p < prov[t] + 1 => p < prov[t] \/ p = prov[t]
    BY ONLY <2>2
  <2>4. TaskFallback(t)
    OBVIOUS
  <2>5. QED BY ONLY <2>1, <2>3, <2>4 DEF TaskFallback, Fetching
<1>8. CASE MarksArticleFailed(t)
  BY <1>8 DEF MarksArticleFailed
<1>9. CASE TaskRaises(t)
  BY <1>9 DEF TaskRaises
<1>10. QED BY <1>1, <1>2, <1>3, <1>4, <1>5, <1>6, <1>7, <1>8, <1>9 DEF TaskStep

LEMMA FallbackTask ==
  ASSUME Everywhere, EngineInv, FallbackInv, NEW t \in Tasks, TaskStep(t)
  PROVE  FallbackInv'
<1>1. hurt \subseteq hurt' /\ UNCHANGED <<mpc, outcome>>
  <2>1. hurt \subseteq hurt'
    BY DEF TaskStep, TakesSlot, TriesProvider, ExhaustsProviders, StartsArticle, OpensStream,
       WritesChunk, StreamEnds, StreamSeesCancel, StreamFallsBack, StreamFailsHard, Replaces,
       MarksCompleted, RecordsSuccess, MarksAttemptFailed, GoesToNextProvider,
       MarksArticleFailed, TaskRaises
  <2>2. QED BY <2>1, TaskFrame DEF EngineInv
<1>2. \A u \in Tasks : u # t => tpc'[u] = tpc[u] /\ prov'[u] = prov[u]
  <2>1. \/ prov' = prov
        \/ \E n : prov' = [prov EXCEPT ![t] = n]
    BY DEF TaskStep, TakesSlot, TriesProvider, ExhaustsProviders, StartsArticle, OpensStream,
       WritesChunk, StreamEnds, StreamSeesCancel, StreamFallsBack, StreamFailsHard, Replaces,
       MarksCompleted, RecordsSuccess, MarksAttemptFailed, GoesToNextProvider,
       MarksArticleFailed, TaskRaises
  <2>2. \A u \in Tasks : u # t => prov'[u] = prov[u]
    BY <2>1 DEF EngineInv, TypeInv, TypeOK
  <2>3. QED BY <2>2, TaskFrame DEF EngineInv
<1>3. TaskFallback(t)'
  BY FallbackOwnTask DEF FallbackInv
<1>4. ASSUME NEW u \in Tasks, u # t PROVE TaskFallback(u)'
  BY <1>1, <1>2, <1>4 DEF FallbackInv, TaskFallback
<1>5. QED BY <1>1, <1>3, <1>4 DEF FallbackInv, JobFallback

LEMMA FallbackMain ==
  ASSUME EngineInv, FallbackInv, NEW j \in Jobs, MainOp(j)
  PROVE  FallbackInv'
<1>a. /\ outcome \in [Jobs -> {"none", "succeeded", "cancelled", "failed"}]
      /\ mpc \in [Jobs -> MainPc] /\ prov \in [Tasks -> 1..NumProviders + 1]
      /\ Pooled \subseteq 1..NumProviders
  BY ConstantsAssumption DEF EngineInv, TypeInv, TypeOK, Providers
<1>1. StartsThreads(j) /\ KeepsOthers(j)
  BY MainStarts, MainTouches DEF EngineInv
<1>2. CASE Begin(j)
  <2>1. /\ hurt' = hurt \ {j} /\ tpc' = tpc /\ prov' = prov
        /\ mpc[j] = "idle" /\ mpc'[j] = "ensure" /\ outcome'[j] = "none"
    BY <1>2, <1>a DEF Begin
  <2>2. \A t \in Tasks : t[1] = j => tpc[t] = "none"
    BY <2>1, TaskIsPair DEF EngineInv, JobInv, QuietOutside, Busy
  <2>3. \A t \in Tasks : TaskFallback(t)'
    BY <2>1, <2>2 DEF FallbackInv, TaskFallback, Fetching
  <2>4. \A k \in Jobs : JobFallback(k)'
    BY <1>1, <2>1 DEF FallbackInv, JobFallback, KeepsOthers
  <2>5. QED BY <2>3, <2>4 DEF FallbackInv
<1>3. CASE ~Begin(j)
  <2>1. hurt \subseteq hurt'
    BY <1>3 DEF MainOp, MainStep, EnsuresArticles, ListsPending, Fills, Reaps, ReapsError,
       LeavesLoop, Drains, MarksFailed, Flushes, MainRaises, Requeues, RequestsCancel
  <2>2. ASSUME NEW t \in Tasks PROVE TaskFallback(t)'
    <3>1. CASE tpc'[t] = tpc[t] /\ prov'[t] = prov[t]
      BY <2>1, <3>1 DEF FallbackInv, TaskFallback
    <3>2. CASE tpc'[t] = "none"
      BY <3>2 DEF TaskFallback, Fetching
    <3>3. CASE tpc'[t] = "slot" /\ prov'[t] = 1
      BY <1>a, <3>3 DEF TaskFallback
    <3>4. QED BY <1>1, <3>1, <3>2, <3>3 DEF StartsThreads
  <2>3. JobFallback(j)'
    <3>1. CASE \/ EnsuresArticles(j) \/ ListsPending(j) \/ Fills(j) \/ LeavesLoop(j)
               \/ Flushes(j) \/ Requeues(j) \/ RequestsCancel(j)
               \/ \E a \in Articles : Reaps(j, a)
      <4>1. /\ outcome'[j] \in {outcome[j], "succeeded"}
            /\ mpc'[j] \in {mpc[j], "list", "fill", "loop", "drainCancel", "flush", "out", "idle"}
        BY <1>a, <3>1 DEF EnsuresArticles, ListsPending, Fills, Reaps, SubmitsNext, LeavesLoop,
           Flushes, Requeues, RequestsCancel
      <4>2. QED BY <2>1, <4>1 DEF FallbackInv, JobFallback
    <3>2. ASSUME NEW a \in Articles, ReapsError(j, a) PROVE JobFallback(j)'
      <4>1. <<j, a>> \in Tasks /\ <<j, a>>[1] = j
        BY PairIsTask
      <4>2. tpc[<<j, a>>] = "failed" => j \in hurt
        BY <4>1 DEF FallbackInv, TaskFallback
      <4>3. /\ outcome'[j] = outcome[j]
            /\ \/ mpc'[j] = "drainCancel"
               \/ tpc[<<j, a>>] = "failed" /\ mpc'[j] = "drainFail"
        BY <1>a, <3>2 DEF ReapsError
      <4>4. QED BY <2>1, <4>2, <4>3 DEF FallbackInv, JobFallback
    <3>3. CASE Drains(j)
      <4>1. \/ mpc'[j] = "flush" /\ outcome'[j] = "cancelled"
            \/ mpc[j] = "drainFail" /\ mpc'[j] = "markFailed"
        BY <1>a, <3>3 DEF Drains
      <4>2. QED BY <2>1, <4>1 DEF FallbackInv, JobFallback
    <3>4. CASE MarksFailed(j)
      <4>1. mpc'[j] = "flush" /\ outcome' = outcome
        BY <1>a, <3>4 DEF MarksFailed
      <4>2. QED BY <2>1, <4>1 DEF FallbackInv, JobFallback
    <3>5. CASE MainRaises(j)
      BY <3>5 DEF MainRaises, JobFallback
    <3>6. QED BY <1>3, <3>1, <3>2, <3>3, <3>4, <3>5 DEF MainOp, MainStep
  <2>4. QED BY <1>1, <2>1, <2>2, <2>3 DEF FallbackInv, JobFallback, KeepsOthers
<1>4. QED BY <1>2, <1>3

LEMMA FallbackStep ==
  ASSUME Everywhere, EngineInv, FallbackInv, [Next]_vars
  PROVE  FallbackInv'
<1>1. CASE UNCHANGED vars
  BY <1>1 DEF FallbackInv, TaskFallback, JobFallback
<1>2. ASSUME NEW e \in Engines, Crash(e) PROVE FallbackInv'
  <2>1. UNCHANGED <<prov, hurt, outcome>>
    BY <1>2 DEF Crash
  <2>2. /\ \A t \in Tasks : tpc'[t] \in {tpc[t], "none"}
        /\ \A j \in Jobs : mpc'[j] \in {mpc[j], "idle"}
    BY <1>2 DEF Crash
  <2>3. QED BY <2>1, <2>2 DEF FallbackInv, TaskFallback, JobFallback, Fetching
<1>3. QED BY <1>1, <1>2, FallbackTask, FallbackMain DEF Next, MainOp

(* Fallback is automatic: when some pooled provider has each article, no   *)
(* call fails that met no failure.                                         *)
THEOREM FallbackAlwaysWorks == Spec => []FallbackIsAutomatic
<1>1. CASE Everywhere
  <2>1. Init => FallbackInv
    BY DEF Init, FallbackInv, TaskFallback, JobFallback, Fetching
  <2>2. EngineInv /\ FallbackInv /\ [Next]_vars => FallbackInv'
    BY <1>1, FallbackStep
  <2>3. FallbackInv => FallbackIsAutomatic
    BY DEF FallbackInv, JobFallback, FallbackIsAutomatic
  <2>4. QED BY <2>1, <2>2, <2>3, EngineCorrect, PTL DEF Spec
<1>2. CASE ~Everywhere
  <2>1. FallbackIsAutomatic
    BY <1>2 DEF Everywhere, FallbackIsAutomatic
  <2>2. QED BY <2>1, PTL
<1>3. QED BY <1>1, <1>2

-----------------------------------------------------------------------------
(* Rows.  While no transaction fails, a row that reads completed is not    *)
(* written again, and only mark_article_completed makes one.               *)

Unmarked == {"replace", "mark", "hardMark"}

MarkInv == \A t \in Tasks : tpc[t] \in Unmarked => row[t] # "completed"

LEMMA FetchingIsNotCompleted ==
  ASSUME EngineInv, NEW t \in Tasks, tpc[t] \in Fetching
  PROVE  row[t] # "completed"
  BY ConstantsAssumption DEF EngineInv, TaskInv, Whole

LEMMA MarkOwnTask ==
  ASSUME ~Store, EngineInv, MarkInv, NEW t \in Tasks, TaskStep(t)
  PROVE  tpc'[t] \in Unmarked => row'[t] # "completed"
<1> USE DEF EngineInv, TypeInv, TypeOK, Unmarked, Fetching
<1>1. CASE StreamEnds(t) \/ StreamFallsBack(t) \/ StreamFailsHard(t)
  <2>1. tpc[t] = "stream" /\ row' = row
    BY <1>1 DEF StreamEnds, StreamFallsBack, StreamFailsHard
  <2>2. QED BY <2>1, FetchingIsNotCompleted
<1>2. CASE Replaces(t)
  BY <1>2 DEF Replaces, MarkInv
<1>3. CASE TaskRaises(t)
  BY <1>3 DEF TaskRaises
<1>4. CASE \/ TakesSlot(t) \/ TriesProvider(t) \/ ExhaustsProviders(t) \/ StartsArticle(t)
           \/ OpensStream(t) \/ WritesChunk(t) \/ StreamSeesCancel(t)
  BY <1>4 DEF TakesSlot, TriesProvider, ExhaustsProviders, StartsArticle, OpensStream,
     WritesChunk, StreamSeesCancel
<1>5. CASE \/ MarksCompleted(t) \/ RecordsSuccess(t) \/ MarksAttemptFailed(t)
           \/ GoesToNextProvider(t) \/ MarksArticleFailed(t)
  BY <1>5 DEF MarksCompleted, RecordsSuccess, MarksAttemptFailed, GoesToNextProvider,
     MarksArticleFailed
<1>6. QED BY <1>1, <1>2, <1>3, <1>4, <1>5 DEF TaskStep

LEMMA MarkStep ==
  ASSUME ~Store, EngineInv, MarkInv, [Next]_vars
  PROVE  MarkInv'
<1>1. CASE UNCHANGED vars
  BY <1>1 DEF MarkInv
<1>2. ASSUME NEW j \in Jobs, MainOp(j) PROVE MarkInv'
  BY <1>2, MainTouches DEF EngineInv, MarkInv, InsertsRows, MovesThreads, Unmarked
<1>3. ASSUME NEW t \in Tasks, TaskStep(t) PROVE MarkInv'
  BY <1>3, MarkOwnTask, TaskFrame DEF EngineInv, MarkInv
<1>4. ASSUME NEW e \in Engines, Crash(e) PROVE MarkInv'
  BY <1>4 DEF Crash, MarkInv, Unmarked
<1>5. QED BY <1>1, <1>2, <1>3, <1>4 DEF Next, MainOp

LEMMA MarkInvariant == ~Store => (Spec => []MarkInv)
<1> SUFFICES ASSUME ~Store PROVE Spec => []MarkInv
  OBVIOUS
<1>1. Init => MarkInv
  BY DEF Init, MarkInv, Unmarked
<1>2. EngineInv /\ MarkInv /\ [Next]_vars => MarkInv'
  BY MarkStep
<1>3. QED BY <1>1, <1>2, EngineCorrect, PTL DEF Spec

SameCompleted == \A t \in Tasks : row'[t] = "completed" <=> row[t] = "completed"

LEMMA TaskCompletes ==
  ASSUME EngineInv, MarkInv, NEW t \in Tasks, TaskStep(t), ~MarksCompleted(t)
  PROVE  SameCompleted /\ articlesCompleted' = articlesCompleted
<1> USE DEF EngineInv, TypeInv, TypeOK
<1>1. \A u \in Tasks : u # t => row'[u] = row[u]
  BY TaskFrame
<1>2. CASE StartsArticle(t) \/ MarksAttemptFailed(t)
  <2>1. tpc[t] \in Fetching /\ row'[t] # "completed" /\ articlesCompleted' = articlesCompleted
    BY <1>2 DEF StartsArticle, MarksAttemptFailed, Fetching
  <2>2. QED BY <1>1, <2>1, FetchingIsNotCompleted DEF SameCompleted
<1>3. CASE MarksArticleFailed(t)
  <2>1. tpc[t] \in Unmarked /\ row'[t] # "completed" /\ articlesCompleted' = articlesCompleted
    BY <1>3 DEF MarksArticleFailed, Unmarked
  <2>2. QED BY <1>1, <2>1 DEF SameCompleted, MarkInv
<1>4. CASE ~StartsArticle(t) /\ ~MarksAttemptFailed(t) /\ ~MarksArticleFailed(t)
  <2>1. row' = row /\ articlesCompleted' = articlesCompleted
    BY <1>4 DEF TaskStep, TakesSlot, TriesProvider, ExhaustsProviders, OpensStream,
       WritesChunk, StreamEnds, StreamSeesCancel, StreamFallsBack, StreamFailsHard, Replaces,
       RecordsSuccess, GoesToNextProvider, TaskRaises
  <2>2. QED BY <2>1 DEF SameCompleted
<1>5. QED BY <1>2, <1>3, <1>4

LEMMA MainCompletesNothing ==
  ASSUME EngineInv, NEW j \in Jobs, MainOp(j)
  PROVE  SameCompleted /\ articlesCompleted' = articlesCompleted
<1>1. SameCompleted
  BY MainTouches DEF EngineInv, InsertsRows, SameCompleted
<1>2. articlesCompleted' = articlesCompleted
  BY DEF MainOp, MainStep, Begin, EnsuresArticles, ListsPending, Fills, Reaps, ReapsError,
     LeavesLoop, Drains, MarksFailed, Flushes, MainRaises, Requeues, RequestsCancel
<1>3. QED BY <1>1, <1>2

-----------------------------------------------------------------------------
(* The counter.                                                            *)

Have(j) == {a \in Articles : row[<<j, a>>] = "completed"}

Counts(j) == articlesCompleted[j] = Cardinality(Have(j))

LEMMA HaveIsFinite ==
  ASSUME NEW j
  PROVE  IsFiniteSet(Have(j)) /\ Cardinality(Have(j)) \in Nat
<1>1. IsFiniteSet(Articles)
  BY ConstantsAssumption, FS_Interval DEF Articles
<1>2. Have(j) \subseteq Articles
  BY DEF Have
<1>3. QED BY <1>1, <1>2, FS_Subset, FS_CardinalityType

LEMMA SameHave ==
  ASSUME SameCompleted, NEW j \in Jobs
  PROVE  Have(j)' = Have(j)
  BY PairIsTask DEF SameCompleted, Have

LEMMA CompletionAdds ==
  ASSUME EngineInv, MarkInv, NEW t \in Tasks, MarksCompleted(t)
  PROVE  /\ t[2] \in Articles /\ t[2] \notin Have(t[1])
         /\ Have(t[1])' = Have(t[1]) \cup {t[2]}
         /\ \A j \in Jobs : j # t[1] => Have(j)' = Have(j)
<1>1. /\ t = <<t[1], t[2]>> /\ t[1] \in Jobs /\ t[2] \in Articles
      /\ row' = [row EXCEPT ![t] = "completed"] /\ tpc[t] = "mark"
  BY TaskIsPair DEF MarksCompleted
<1>2. row[t] # "completed"
  BY <1>1 DEF MarkInv, Unmarked
<1>3. \A j \in Jobs, a \in Articles :
        /\ <<j, a>> \in Tasks
        /\ <<j, a>> = t <=> j = t[1] /\ a = t[2]
  <2> SUFFICES ASSUME NEW j \in Jobs, NEW a \in Articles
               PROVE  /\ <<j, a>> \in Tasks
                      /\ <<j, a>> = t <=> j = t[1] /\ a = t[2]
    OBVIOUS
  <2>1. <<j, a>> \in Tasks
    BY PairIsTask
  <2>2. <<j, a>> = t => j = t[1] /\ a = t[2]
    OBVIOUS
  <2>3. j = t[1] /\ a = t[2] => <<j, a>> = t
    BY <1>1
  <2>4. QED BY <2>1, <2>2, <2>3
<1>4. \A j \in Jobs, a \in Articles :
        row'[<<j, a>>] = IF j = t[1] /\ a = t[2] THEN "completed" ELSE row[<<j, a>>]
  BY <1>1, <1>3 DEF EngineInv, TypeInv, TypeOK
<1>5. QED BY <1>1, <1>2, <1>4 DEF Have

LEMMA CounterStep ==
  ASSUME ~Store, EngineInv, MarkInv, \A j \in Jobs : Counts(j), [Next]_vars
  PROVE  \A j \in Jobs : Counts(j)'
<1>1. ASSUME SameCompleted, articlesCompleted' = articlesCompleted
      PROVE  \A j \in Jobs : Counts(j)'
  BY <1>1, SameHave DEF Counts
<1>2. CASE UNCHANGED vars
  BY <1>1, <1>2 DEF SameCompleted
<1>3. ASSUME NEW e \in Engines, Crash(e) PROVE \A j \in Jobs : Counts(j)'
  BY <1>1, <1>3 DEF Crash, SameCompleted
<1>4. ASSUME NEW t \in Tasks, MarksCompleted(t), NEW j \in Jobs PROVE Counts(j)'
  <2>1. articlesCompleted'[j] = IF j = t[1] THEN articlesCompleted[j] + 1 ELSE articlesCompleted[j]
    BY <1>4 DEF MarksCompleted, EngineInv, TypeInv, TypeOK
  <2>2. CASE j = t[1]
    <3>1. Have(j)' = Have(j) \cup {t[2]} /\ t[2] \notin Have(j)
      BY <1>4, <2>2, CompletionAdds
    <3>2. Cardinality(Have(j) \cup {t[2]}) = Cardinality(Have(j)) + 1
      BY <3>1, HaveIsFinite, FS_AddElement
    <3>3. QED BY <2>1, <2>2, <3>1, <3>2 DEF Counts
  <2>3. CASE j # t[1]
    BY <1>4, <2>1, <2>3, CompletionAdds DEF Counts
  <2>4. QED BY <2>2, <2>3
<1>5. QED
  BY <1>1, <1>2, <1>3, <1>4, TaskCompletes, MainCompletesNothing DEF Next, MainOp

(* While no transaction fails, the counter is the number of completed      *)
(* rows, over all retries and crashes.                                     *)
THEOREM CounterIsTrue == Spec => []CounterCountsRows
<1>1. CASE ~Store
  <2> DEFINE AllCount == \A j \in Jobs : Counts(j)
  <2>1. Init => AllCount
    <3> SUFFICES ASSUME Init, NEW j \in Jobs PROVE Counts(j)
      OBVIOUS
    <3>1. Have(j) = {} /\ articlesCompleted[j] = 0
      BY PairIsTask DEF Init, Have
    <3>2. QED BY <3>1, FS_EmptySet DEF Counts
  <2>2. EngineInv /\ MarkInv /\ AllCount /\ [Next]_vars => AllCount'
    BY <1>1, CounterStep
  <2>3. AllCount => CounterCountsRows
    BY DEF Counts, Have, CounterCountsRows
  <2>4. Spec => []MarkInv
    BY <1>1, MarkInvariant
  <2> HIDE DEF AllCount
  <2>5. QED BY <2>1, <2>2, <2>3, <2>4, EngineCorrect, PTL DEF Spec
<1>2. CASE Store
  <2>1. CounterCountsRows
    BY <1>2 DEF CounterCountsRows
  <2>2. QED BY <2>1, PTL
<1>3. QED BY <1>1, <1>2

-----------------------------------------------------------------------------
(* download_job implements DownloadOutcome.  A thread that ended as        *)
(* cancelled, and a main thread that drains because of one, have a         *)
(* cancellation standing; a call that is flushing knows its outcome.       *)

CancelStands(j) ==
  /\ \A a \in Articles : tpc[<<j, a>>] = "cancelled" => j \in cancelRequested
  /\ mpc[j] = "drainCancel" => j \in cancelRequested
  /\ mpc[j] \in {"flush", "out"} => outcome[j] # "none"

CancelInv == \A j \in Jobs : CancelStands(j)

LEMMA CancelMain ==
  ASSUME EngineInv, CancelInv, NEW j \in Jobs, MainOp(j)
  PROVE  CancelInv'
<1> USE DEF EngineInv, TypeInv, TypeOK
<1>1. /\ \A k \in Jobs : k # j => mpc'[k] = mpc[k] /\ outcome'[k] = outcome[k]
      /\ \A t \in Tasks : tpc'[t] \in {tpc[t], "none", "slot"}
  BY MainTouches DEF KeepsOthers, MovesThreads
<1>2. \A k \in Jobs, a \in Articles : tpc'[<<k, a>>] = "cancelled" => tpc[<<k, a>>] = "cancelled"
  BY <1>1, PairIsTask
<1>3. CASE Requeues(j)
  <2>1. /\ mpc[j] = "out" /\ mpc'[j] = "idle" /\ tpc' = tpc
        /\ cancelRequested' = cancelRequested \ {j}
    BY <1>3 DEF Requeues
  <2>2. \A a \in Articles : tpc[<<j, a>>] = "none"
    BY <2>1 DEF JobInv, QuietOutside, Busy
  <2>3. CancelStands(j)'
    BY <2>1, <2>2 DEF CancelStands
  <2>4. ASSUME NEW k \in Jobs, k # j PROVE CancelStands(k)'
    BY <1>1, <1>2, <2>1, <2>4 DEF CancelInv, CancelStands
  <2>5. QED BY <2>3, <2>4 DEF CancelInv
<1>4. CASE ~Requeues(j)
  <2>1. cancelRequested \subseteq cancelRequested'
    BY <1>4 DEF MainOp, MainStep, Begin, EnsuresArticles, ListsPending, Fills, Reaps, ReapsError,
       LeavesLoop, Drains, MarksFailed, Flushes, MainRaises, RequestsCancel
  <2>2. mpc'[j] = "drainCancel" => j \in cancelRequested'
    <3>1. ASSUME NEW a \in Articles, ReapsError(j, a)
          PROVE  mpc'[j] = "drainCancel" => j \in cancelRequested'
      BY <2>1, <3>1 DEF ReapsError, CancelInv, CancelStands
    <3>2. CASE Fills(j) \/ \E a \in Articles : Reaps(j, a)
      BY <2>1, <3>2 DEF Fills, Reaps, SubmitsNext
    <3>3. CASE ~(Fills(j) \/ \E a \in Articles : Reaps(j, a) \/ ReapsError(j, a))
      <4>1. mpc'[j] = "drainCancel" => mpc[j] = "drainCancel"
        BY <1>4, <3>3 DEF MainOp, MainStep, Begin, EnsuresArticles, ListsPending, LeavesLoop,
           Drains, MarksFailed, Flushes, MainRaises, RequestsCancel
      <4>2. QED BY <2>1, <4>1 DEF CancelInv, CancelStands
    <3>4. QED BY <3>1, <3>2, <3>3
  <2>3. mpc'[j] \in {"flush", "out"} => outcome'[j] # "none"
    <3>1. CASE LeavesLoop(j) \/ Drains(j)
      BY <3>1 DEF LeavesLoop, Drains
    <3>2. CASE MarksFailed(j) \/ Flushes(j) \/ RequestsCancel(j)
      BY <3>2 DEF MarksFailed, Flushes, RequestsCancel, CancelInv, CancelStands, JobInv,
         SuccessHasAll
    <3>3. CASE MainRaises(j)
      <4>1. \/ mpc'[j] = "out" /\ outcome'[j] = "failed"
            \/ mpc'[j] = "drainFail"
            \/ mpc[j] = "markFailed" /\ mpc'[j] = "flush" /\ outcome' = outcome
        BY <3>3 DEF MainRaises
      <4>2. QED BY <4>1 DEF JobInv, SuccessHasAll
    <3>4. CASE Begin(j) \/ EnsuresArticles(j) \/ ListsPending(j)
      BY <3>4 DEF Begin, EnsuresArticles, ListsPending
    <3>5. CASE Fills(j) \/ \E a \in Articles : Reaps(j, a) \/ ReapsError(j, a)
      <4>1. \E there \in {"fill", "loop", "drainCancel", "drainFail"} :
              mpc' = [mpc EXCEPT ![j] = there]
        BY <3>5 DEF Fills, Reaps, ReapsError, SubmitsNext
      <4>2. QED BY <4>1
    <3>6. QED BY <1>4, <3>1, <3>2, <3>3, <3>4, <3>5 DEF MainOp, MainStep
  <2>4. CancelStands(j)'
    BY <1>2, <2>1, <2>2, <2>3 DEF CancelInv, CancelStands
  <2>5. ASSUME NEW k \in Jobs, k # j PROVE CancelStands(k)'
    BY <1>1, <1>2, <2>1, <2>5 DEF CancelInv, CancelStands
  <2>6. QED BY <2>4, <2>5 DEF CancelInv
<1>5. QED BY <1>3, <1>4

LEMMA CancelTask ==
  ASSUME EngineInv, CancelInv, NEW t \in Tasks, TaskStep(t)
  PROVE  CancelInv' /\ cancelRequested' = cancelRequested
<1>1. /\ UNCHANGED <<mpc, outcome>>
      /\ \A u \in Tasks : u # t => tpc'[u] = tpc[u]
  BY TaskFrame DEF EngineInv
<1>2. cancelRequested' = cancelRequested
  BY DEF TaskStep, TakesSlot, TriesProvider, ExhaustsProviders, StartsArticle, OpensStream,
     WritesChunk, StreamEnds, StreamSeesCancel, StreamFallsBack, StreamFailsHard, Replaces,
     MarksCompleted, RecordsSuccess, MarksAttemptFailed, GoesToNextProvider,
     MarksArticleFailed, TaskRaises
<1>3. tpc'[t] = "cancelled" => t[1] \in cancelRequested \/ tpc[t] = "cancelled"
  BY DEF EngineInv, TypeInv, TypeOK, TaskStep, TakesSlot, TriesProvider, ExhaustsProviders,
     StartsArticle, OpensStream, WritesChunk, StreamEnds, StreamSeesCancel, StreamFallsBack,
     StreamFailsHard, Replaces, MarksCompleted, RecordsSuccess, MarksAttemptFailed,
     GoesToNextProvider, MarksArticleFailed, TaskRaises
<1>4. t = <<t[1], t[2]>> /\ t[1] \in Jobs /\ t[2] \in Articles
  BY TaskIsPair
<1>5. tpc[t] = "cancelled" => t[1] \in cancelRequested
  BY <1>4 DEF CancelInv, CancelStands
<1>6. ASSUME NEW j \in Jobs, NEW a \in Articles, tpc'[<<j, a>>] = "cancelled"
      PROVE  j \in cancelRequested
  <2>1. <<j, a>> \in Tasks /\ <<j, a>>[1] = j
    BY PairIsTask
  <2>2. CASE <<j, a>> = t
    BY <1>3, <1>5, <1>6, <2>1, <2>2
  <2>3. CASE <<j, a>> # t
    BY <1>1, <1>6, <2>1, <2>3 DEF CancelInv, CancelStands
  <2>4. QED BY <2>2, <2>3
<1>7. QED BY <1>1, <1>2, <1>6 DEF CancelInv, CancelStands

LEMMA CancelInvariant == Spec => []CancelInv
<1>1. Init => CancelInv
  BY PairIsTask DEF Init, CancelInv, CancelStands
<1>2. EngineInv /\ CancelInv /\ [Next]_vars => CancelInv'
  <2> SUFFICES ASSUME EngineInv, CancelInv, [Next]_vars PROVE CancelInv'
    OBVIOUS
  <2>1. CASE UNCHANGED vars
    BY <2>1 DEF CancelInv, CancelStands
  <2>2. ASSUME NEW e \in Engines, Crash(e) PROVE CancelInv'
    <3>1. UNCHANGED <<cancelRequested, outcome>>
      BY <2>2 DEF Crash
    <3>2. /\ \A j \in Jobs, a \in Articles : tpc'[<<j, a>>] \in {tpc[<<j, a>>], "none"}
          /\ \A j \in Jobs : mpc'[j] \in {mpc[j], "idle"}
      BY <2>2, PairIsTask DEF Crash
    <3>3. QED BY <3>1, <3>2 DEF CancelInv, CancelStands
  <2>3. QED BY <2>1, <2>2, CancelMain, CancelTask DEF Next, MainOp
<1>3. QED BY <1>1, <1>2, EngineCorrect, PTL DEF Spec

(* The mapped functions, so that they need not be opened.                  *)
Phase == [j \in Jobs |-> PhaseOf(j)]
Has   == [j \in Jobs |-> Have(j)]

OutcomeStep == Outcome!Next \/ UNCHANGED <<Phase, cancelRequested, Has>>

LEMMA PhaseUpdate ==
  ASSUME NEW j \in Jobs, NEW p, PhaseOf(j)' = p,
         \A k \in Jobs : k # j => PhaseOf(k)' = PhaseOf(k)
  PROVE  Phase' = [Phase EXCEPT ![j] = p]
  BY DEF Phase

LEMMA PhaseSame ==
  ASSUME \A k \in Jobs : PhaseOf(k)' = PhaseOf(k)
  PROVE  UNCHANGED Phase
  BY DEF Phase

LEMMA HasSame ==
  ASSUME SameCompleted
  PROVE  UNCHANGED Has
  BY SameHave DEF Has

(* A thread is at work only while the call is running, and its steps do    *)
(* not change the phase of any call.                                       *)
LEMMA TaskKeepsPhases ==
  ASSUME EngineInv, NEW t \in Tasks, TaskStep(t)
  PROVE  PhaseOf(t[1]) = "running" /\ UNCHANGED Phase
<1>1. /\ UNCHANGED <<mpc, outcome>>
      /\ tpc[t] # "none" /\ tpc'[t] # "none"
      /\ \A u \in Tasks : u # t => tpc'[u] = tpc[u]
  BY TaskFrame DEF EngineInv
<1>2. t = <<t[1], t[2]>> /\ t[1] \in Jobs /\ t[2] \in Articles
  BY TaskIsPair
<1>3. PhaseOf(t[1]) = "running"
  <2>1. mpc[t[1]] \in Busy
    BY <1>1, <1>2 DEF EngineInv, JobInv, QuietOutside
  <2>2. t[2] \in Futures(t[1])
    BY <1>1, <1>2 DEF Futures
  <2>3. QED BY <2>1, <2>2 DEF PhaseOf, Busy
<1>4. ASSUME NEW k \in Jobs PROVE PhaseOf(k)' = PhaseOf(k)
  <2>1. Futures(k)' = Futures(k)
    BY <1>1, PairIsTask DEF Futures
  <2>2. QED BY <1>1, <2>1 DEF PhaseOf
<1>5. QED BY <1>3, <1>4, PhaseSame

LEMMA RefinesTask ==
  ASSUME EngineInv, MarkInv, CancelInv, NEW t \in Tasks, TaskStep(t)
  PROVE  OutcomeStep
<1>1. PhaseOf(t[1]) = "running" /\ UNCHANGED Phase /\ cancelRequested' = cancelRequested
  BY TaskKeepsPhases, CancelTask
<1>2. CASE ~MarksCompleted(t)
  BY <1>1, <1>2, TaskCompletes, HasSame DEF OutcomeStep
<1>3. CASE MarksCompleted(t)
  <2>1. t[1] \in Jobs /\ t[2] \in Articles
    BY TaskIsPair
  <2>2. Has' = [Has EXCEPT ![t[1]] = @ \cup {t[2]}]
    BY <1>3, <2>1, CompletionAdds DEF Has
  <2>3. Outcome!Gain(t[1], t[2])
    BY <1>1, <2>1, <2>2 DEF Outcome!Gain, Phase, Has, Have
  <2>4. QED BY <2>1, <2>3 DEF OutcomeStep, Outcome!Next
<1>4. QED BY <1>2, <1>3

(* A step of one main thread leaves the phases of the other calls alone.   *)
LEMMA MainKeepsPhases ==
  ASSUME EngineInv, NEW j \in Jobs, MainOp(j), NEW k \in Jobs, k # j
  PROVE  PhaseOf(k)' = PhaseOf(k)
<1>1. KeepsOthers(j) /\ MovesThreads(j)
  BY MainTouches DEF EngineInv
<1>2. \A a \in Articles : tpc'[<<k, a>>] = tpc[<<k, a>>]
  BY <1>1, PairIsTask DEF MovesThreads
<1>3. Futures(k)' = Futures(k)
  BY <1>2 DEF Futures
<1>4. mpc'[k] = mpc[k] /\ outcome'[k] = outcome[k]
  BY <1>1 DEF KeepsOthers
<1>5. QED BY <1>3, <1>4 DEF PhaseOf

(* Leaving submit_next without an article: the call has succeeded if no    *)
(* thread is left, and goes on if one is.                                  *)
LEMMA RefinesSubmit ==
  ASSUME EngineInv, NEW j \in Jobs, Submits(j)
  PROVE  OutcomeStep
<1> USE DEF EngineInv, TypeInv, TypeOK
<1>a. MainOp(j)
  BY DEF Submits, MainOp, MainStep
<1>b. cancelRequested' = cancelRequested /\ UNCHANGED Has
  <2>1. cancelRequested' = cancelRequested
    BY DEF Submits, Fills, Reaps
  <2>2. QED BY <1>a, <2>1, MainCompletesNothing, HasSame
<1>c. PhaseOf(j) = "running"
  <2>1. ASSUME NEW a \in Articles, Reaps(j, a) PROVE mpc[j] = "loop" /\ a \in Futures(j)
    BY <2>1 DEF Reaps, Futures
  <2>2. CASE Fills(j)
    BY <2>2 DEF Fills, PhaseOf
  <2>3. QED BY <2>1, <2>2 DEF Submits, PhaseOf
<1>d. \A k \in Jobs : k # j => PhaseOf(k)' = PhaseOf(k)
  BY <1>a, MainKeepsPhases
<1>e. JobInv(j)'
  BY <1>a, MainKeepsOwn
<1>f. mpc'[j] \in {"fill", "loop", "drainCancel"}
  BY DEF Submits, Fills, Reaps, SubmitsNext
<1>1. CASE PhaseOf(j)' = "running"
  BY <1>1, <1>b, <1>c, <1>d, PhaseSame DEF OutcomeStep
<1>2. CASE PhaseOf(j)' # "running"
  <2>1. mpc'[j] = "loop" /\ Futures(j)' = {} /\ PhaseOf(j)' = "succeeded"
    BY <1>2, <1>f DEF PhaseOf
  <2>2. j \notin cancelRequested
    BY <2>1 DEF Submits, Fills, Reaps
  <2>3. \A a \in Articles : row'[<<j, a>>] = "completed"
    <3>1. \A a \in Articles : tpc'[<<j, a>>] = "none"
      BY <2>1 DEF Futures
    <3>2. pending'[j] = {}
      BY <1>e, <2>1, <3>1 DEF JobInv, LoopHasThreads
    <3>3. QED BY <1>e, <2>1, <3>1, <3>2 DEF JobInv, NoneForgotten
  <2>4. Has[j] = Articles
    BY <1>b, <2>3 DEF Has, Have
  <2>5. Phase' = [Phase EXCEPT ![j] = "succeeded"]
    BY <1>d, <2>1, PhaseUpdate
  <2>6. Outcome!Succeed(j)
    BY <1>b, <1>c, <2>2, <2>4, <2>5
    DEF Outcome!Succeed, Outcome!Move, Phase, Has, Have
  <2>7. QED BY <2>6 DEF OutcomeStep, Outcome!Next
<1>3. QED BY <1>1, <1>2

LEMMA RefinesMain ==
  ASSUME ~Store, EngineInv, CancelInv, NEW j \in Jobs, MainOp(j)
  PROVE  OutcomeStep
<1> USE DEF EngineInv, TypeInv, TypeOK
<1>a. UNCHANGED Has
  BY MainCompletesNothing, HasSame
<1>b. \A k \in Jobs : k # j => PhaseOf(k)' = PhaseOf(k)
  BY MainKeepsPhases
<1>c. Phase[j] = PhaseOf(j)
  BY DEF Phase
<1>d. ASSUME NEW p, NEW q, PhaseOf(j) = p, PhaseOf(j)' = q
      PROVE  Phase[j] = p /\ Phase' = [Phase EXCEPT ![j] = q]
  BY <1>b, <1>c, <1>d, PhaseUpdate
<1>1. CASE Begin(j)
  <2>1. PhaseOf(j) = "idle" /\ PhaseOf(j)' = "running" /\ cancelRequested' = cancelRequested
    BY <1>1 DEF Begin, PhaseOf
  <2>2. Outcome!Begin(j)
    BY <1>a, <1>d, <2>1 DEF Outcome!Begin, Outcome!Move, Phase, Has, Have
  <2>3. QED BY <2>2 DEF OutcomeStep, Outcome!Next
<1>2. CASE RequestsCancel(j)
  <2>1. /\ PhaseOf(j) # "idle" /\ UNCHANGED <<mpc, outcome, tpc>>
        /\ cancelRequested' = cancelRequested \cup {j}
    BY <1>2 DEF RequestsCancel, PhaseOf, InCall, CancelInv, CancelStands, JobInv, SuccessHasAll
  <2>2. PhaseOf(j)' = PhaseOf(j)
    BY <2>1 DEF PhaseOf, Futures
  <2>3. UNCHANGED Phase
    BY <1>b, <2>2, PhaseSame
  <2>4. Outcome!Ask(j)
    BY <1>a, <1>c, <2>1, <2>3 DEF Outcome!Ask, Phase, Has, Have
  <2>5. QED BY <2>4 DEF OutcomeStep, Outcome!Next
<1>3. CASE Requeues(j)
  <2>1. /\ PhaseOf(j) = outcome[j] /\ outcome[j] \in {"succeeded", "cancelled", "failed"}
        /\ PhaseOf(j)' = "idle" /\ cancelRequested' = cancelRequested \ {j}
    BY <1>3 DEF Requeues, PhaseOf, CancelInv, CancelStands
  <2>2. Outcome!Requeue(j)
    BY <1>a, <1>d, <2>1 DEF Outcome!Requeue, Outcome!Move, Phase, Has, Have
  <2>3. QED BY <2>2 DEF OutcomeStep, Outcome!Next
<1>4. CASE Drains(j)
  <2>1. /\ PhaseOf(j) = "running" /\ cancelRequested' = cancelRequested
        /\ \/ PhaseOf(j)' = "cancelled" /\ j \in cancelRequested
           \/ PhaseOf(j)' = "failed"
    BY <1>4 DEF Drains, PhaseOf, CancelInv, CancelStands
  <2>2. Outcome!Cancel(j) \/ Outcome!Fail(j)
    BY <1>a, <1>d, <2>1 DEF Outcome!Cancel, Outcome!Fail, Outcome!Move, Phase, Has, Have
  <2>3. QED BY <2>2 DEF OutcomeStep, Outcome!Next
<1>5. CASE Submits(j)
  BY <1>5, RefinesSubmit
<1>6. CASE \/ EnsuresArticles(j) \/ ListsPending(j) \/ LeavesLoop(j) \/ MarksFailed(j) \/ Flushes(j)
           \/ \E a \in Articles : ReapsError(j, a)
  <2>1. cancelRequested' = cancelRequested
    BY <1>6 DEF EnsuresArticles, ListsPending, LeavesLoop, MarksFailed, Flushes, ReapsError
  <2>2. PhaseOf(j)' = PhaseOf(j)
    <3>1. CASE EnsuresArticles(j) \/ ListsPending(j)
      BY <3>1 DEF EnsuresArticles, ListsPending, PhaseOf
    <3>2. CASE LeavesLoop(j)
      BY <3>2 DEF LeavesLoop, PhaseOf
    <3>3. CASE MarksFailed(j) \/ Flushes(j)
      BY <3>3 DEF MarksFailed, Flushes, PhaseOf
    <3>4. ASSUME NEW a \in Articles, ReapsError(j, a) PROVE PhaseOf(j)' = PhaseOf(j)
      <4>1. mpc[j] = "loop" /\ a \in Futures(j) /\ mpc'[j] \in {"drainCancel", "drainFail"}
        BY <3>4 DEF ReapsError, Futures
      <4>2. QED BY <4>1 DEF PhaseOf
    <3>5. QED BY <1>6, <3>1, <3>2, <3>3, <3>4
  <2>3. UNCHANGED Phase
    BY <1>b, <2>2, PhaseSame
  <2>4. QED BY <1>a, <2>1, <2>3 DEF OutcomeStep
<1>7. QED
  BY <1>1, <1>2, <1>3, <1>4, <1>5, <1>6 DEF MainOp, MainStep, Submits, MainRaises

LEMMA RefinesCrash ==
  ASSUME EngineInv, NEW e \in Engines, Crash(e)
  PROVE  OutcomeStep
<1> DEFINE lost == {j \in Jobs : EngineOf[j] = e /\ mpc[j] # "idle"}
<1>1. UNCHANGED <<row, cancelRequested, outcome>>
  BY DEF Crash
<1>2. UNCHANGED Has
  BY <1>1, HasSame DEF SameCompleted
<1>3. ASSUME NEW j \in Jobs
      PROVE  PhaseOf(j)' = IF j \in lost THEN "idle" ELSE PhaseOf(j)
  <2>1. \A a \in Articles : <<j, a>> \in Tasks /\ <<j, a>>[1] = j
    BY PairIsTask
  <2>2. CASE j \in lost
    <3>1. mpc'[j] = "idle"
      BY <2>2 DEF Crash
    <3>2. QED BY <2>2, <3>1 DEF PhaseOf
  <2>3. CASE j \notin lost
    <3>1. mpc'[j] = mpc[j] /\ \A a \in Articles : tpc'[<<j, a>>] = tpc[<<j, a>>]
      BY <2>1, <2>3 DEF Crash
    <3>2. Futures(j)' = Futures(j)
      BY <3>1 DEF Futures
    <3>3. PhaseOf(j)' = PhaseOf(j)
      BY <1>1, <3>1, <3>2 DEF PhaseOf
    <3>4. QED BY <2>3, <3>3
  <2>4. QED BY <2>2, <2>3
<1>4. Phase' = [j \in Jobs |-> IF j \in lost THEN "idle" ELSE Phase[j]]
  BY <1>3 DEF Phase
<1>5. Outcome!Crash(lost)
  BY <1>1, <1>2, <1>4 DEF Outcome!Crash, Phase, Has, Have
<1>6. lost \in SUBSET Jobs
  OBVIOUS
<1> HIDE DEF lost
<1>7. QED BY <1>5, <1>6 DEF OutcomeStep, Outcome!Next

LEMMA RefinesNext ==
  ASSUME ~Store, EngineInv, MarkInv, CancelInv, [Next]_vars
  PROVE  OutcomeStep
<1>1. CASE UNCHANGED vars
  <2>1. \A j \in Jobs : PhaseOf(j)' = PhaseOf(j)
    BY <1>1 DEF PhaseOf, Futures
  <2>2. SameCompleted /\ cancelRequested' = cancelRequested
    BY <1>1 DEF SameCompleted
  <2>3. QED BY <2>1, <2>2, PhaseSame, HasSame DEF OutcomeStep
<1>2. QED BY <1>1, RefinesMain, RefinesTask, RefinesCrash DEF Next, MainOp

(* While no transaction fails, a call of download_job keeps the promise of *)
(* DownloadOutcome: it gathers articles and loses none, nothing of it goes *)
(* on once it ended, it succeeds only with every article and no            *)
(* cancellation standing, and is cancelled only if that was asked for.     *)
THEOREM DownloadImplementsOutcome ==
  ASSUME ~Store
  PROVE  Spec => ImplementsOutcome
<1>1. Init => Outcome!Init
  <2> SUFFICES ASSUME Init PROVE Outcome!Init
    OBVIOUS
  <2>1. \A j \in Jobs : PhaseOf(j) = "idle"
    BY DEF Init, PhaseOf
  <2>2. \A j \in Jobs : {a \in Articles : row[<<j, a>>] = "completed"} = {}
    BY PairIsTask DEF Init
  <2>3. QED BY <2>1, <2>2 DEF Init, Outcome!Init
<1>2. EngineInv /\ MarkInv /\ CancelInv /\ [Next]_vars => [Outcome!Next]_(Outcome!vars)
  BY RefinesNext DEF OutcomeStep, Outcome!vars, Phase, Has, Have
<1>3. Spec => []MarkInv
  BY MarkInvariant
<1>4. QED
  BY <1>1, <1>2, <1>3, EngineCorrect, CancelInvariant, PTL
  DEF Spec, ImplementsOutcome, Outcome!Spec

-----------------------------------------------------------------------------
(* Permits.  Each stream that is open holds one permit of its engine's     *)
(* pool: none is lost by an error, and none is returned twice.             *)

PermitsAdd(e, p) ==
  /\ IsFiniteSet(Streams(e, p))
  /\ free[e][p] + Cardinality(Streams(e, p)) = MaxConnections[p]

PermitInv == \A e \in Engines, p \in Providers : PermitsAdd(e, p)

LEMMA SamePermits ==
  ASSUME PermitInv, UNCHANGED free,
         \A t \in Tasks : /\ tpc'[t] = "stream" <=> tpc[t] = "stream"
                          /\ tpc[t] = "stream" => prov'[t] = prov[t]
  PROVE  PermitInv'
<1>1. \A e, p : Streams(e, p)' = Streams(e, p)
  BY DEF Streams
<1>2. QED BY <1>1 DEF PermitInv, PermitsAdd

(* What a task does to its provider, to the streams and to the permits.    *)
Opens(t) == OpensStream(t)
Closes(t) == StreamEnds(t) \/ StreamSeesCancel(t) \/ StreamFallsBack(t) \/ StreamFailsHard(t)

LEMMA OtherTaskSteps ==
  ASSUME EngineInv, NEW t \in Tasks, TaskStep(t), ~Opens(t), ~Closes(t)
  PROVE  /\ UNCHANGED free
         /\ tpc'[t] = "stream" <=> tpc[t] = "stream"
         /\ tpc[t] = "stream" => prov'[t] = prov[t]
<1> USE DEF EngineInv, TypeInv, TypeOK, Opens, Closes
<1>1. CASE TakesSlot(t) \/ TriesProvider(t) \/ ExhaustsProviders(t) \/ StartsArticle(t) \/ WritesChunk(t)
  BY <1>1 DEF TakesSlot, TriesProvider, ExhaustsProviders, StartsArticle, WritesChunk
<1>2. CASE \/ Replaces(t) \/ MarksCompleted(t) \/ RecordsSuccess(t) \/ MarksAttemptFailed(t)
           \/ GoesToNextProvider(t) \/ MarksArticleFailed(t) \/ TaskRaises(t)
  BY <1>2 DEF Replaces, MarksCompleted, RecordsSuccess, MarksAttemptFailed, GoesToNextProvider,
     MarksArticleFailed, TaskRaises
<1>3. QED BY <1>1, <1>2 DEF TaskStep

LEMMA OneProvider ==
  ASSUME EngineInv, NEW t \in Tasks, TaskStep(t)
  PROVE  \A u \in Tasks : u # t => tpc'[u] = tpc[u] /\ prov'[u] = prov[u]
<1>1. \/ prov' = prov
      \/ \E n : prov' = [prov EXCEPT ![t] = n]
  BY DEF TaskStep, TakesSlot, TriesProvider, ExhaustsProviders, StartsArticle, OpensStream,
     WritesChunk, StreamEnds, StreamSeesCancel, StreamFallsBack, StreamFailsHard, Replaces,
     MarksCompleted, RecordsSuccess, MarksAttemptFailed, GoesToNextProvider,
     MarksArticleFailed, TaskRaises
<1>2. \A u \in Tasks : u # t => prov'[u] = prov[u]
  BY <1>1 DEF EngineInv, TypeInv, TypeOK
<1>3. QED BY <1>2, TaskFrame DEF EngineInv

(* The permits after one of them was taken or returned.                    *)
LEMMA OnePermit ==
  ASSUME NEW F \in [Engines -> [Providers -> Nat]], NEW e \in Engines, NEW p \in Providers,
         NEW n, NEW f \in Engines, NEW q \in Providers
  PROVE  [F EXCEPT ![e][p] = n][f][q] = IF f = e /\ q = p THEN n ELSE F[f][q]
<1>1. F[e] \in [Providers -> Nat]
  OBVIOUS
<1>2. CASE f = e
  <2>1. [F EXCEPT ![e][p] = n][f] = [F[e] EXCEPT ![p] = n]
    BY <1>2
  <2>2. QED BY <1>1, <1>2, <2>1
<1>3. CASE f # e
  BY <1>3
<1>4. QED BY <1>2, <1>3

LEMMA PermitOpens ==
  ASSUME EngineInv, PermitInv, NEW t \in Tasks, TaskStep(t), OpensStream(t)
  PROVE  PermitInv'
<1> DEFINE e == EngineOf[t[1]]
           p == prov[t]
<1>1. /\ tpc[t] = "acquire" /\ tpc'[t] = "stream" /\ prov' = prov
      /\ free' = [free EXCEPT ![e][p] = free[e][p] - 1]
  BY DEF OpensStream, TakesPermit, EngineInv, TypeInv, TypeOK
<1>2. e \in Engines /\ p \in Providers
  BY <1>1, TaskIsPair, ConstantsAssumption DEF EngineInv, TypeInv, Unassigned, Ended
<1>3. \A u \in Tasks : u # t => tpc'[u] = tpc[u]
  BY OneProvider
<1>4. ASSUME NEW f \in Engines, NEW q \in Providers PROVE PermitsAdd(f, q)'
  <2>1. /\ IsFiniteSet(Streams(f, q)) /\ Cardinality(Streams(f, q)) \in Nat
        /\ free[f][q] + Cardinality(Streams(f, q)) = MaxConnections[q]
    BY FS_CardinalityType DEF PermitInv, PermitsAdd
  <2>2. free'[f][q] = IF f = e /\ q = p THEN free[e][p] - 1 ELSE free[f][q]
    <3>1. free \in [Engines -> [Providers -> Nat]]
      BY DEF EngineInv, TypeInv, TypeOK
    <3>2. QED BY <1>1, <1>2, <3>1, OnePermit
  <2>3. free[f][q] \in Nat
    BY DEF EngineInv, TypeInv, TypeOK
  <2>4. CASE f = e /\ q = p
    <3>1. Streams(f, q)' = Streams(f, q) \cup {t} /\ t \notin Streams(f, q)
      BY <1>1, <1>3, <2>4 DEF Streams
    <3>2. /\ IsFiniteSet(Streams(f, q) \cup {t})
          /\ Cardinality(Streams(f, q) \cup {t}) = Cardinality(Streams(f, q)) + 1
      BY <2>1, <3>1, FS_AddElement
    <3>3. free'[f][q] = free[f][q] - 1
      BY <2>2, <2>4
    <3>4. free'[f][q] + Cardinality(Streams(f, q)') = MaxConnections[q]
      BY <2>1, <2>3, <3>1, <3>2, <3>3
    <3>5. QED BY <3>1, <3>2, <3>4 DEF PermitsAdd
  <2>5. CASE ~(f = e /\ q = p)
    <3>1. Streams(f, q)' = Streams(f, q)
      BY <1>1, <1>3, <2>5 DEF Streams
    <3>2. free'[f][q] = free[f][q]
      BY <2>2, <2>5
    <3>3. QED BY <2>1, <3>1, <3>2 DEF PermitsAdd
  <2>6. QED BY <2>4, <2>5
<1>5. QED BY <1>4 DEF PermitInv

LEMMA PermitCloses ==
  ASSUME EngineInv, PermitInv, NEW t \in Tasks, TaskStep(t), Closes(t)
  PROVE  PermitInv'
<1> DEFINE e == EngineOf[t[1]]
           p == prov[t]
<1>1. /\ tpc[t] = "stream" /\ tpc'[t] # "stream" /\ prov' = prov
      /\ free' = [free EXCEPT ![e][p] = free[e][p] + 1]
  BY DEF Closes, StreamEnds, StreamSeesCancel, StreamFallsBack, StreamFailsHard, ReturnsPermit,
     EngineInv, TypeInv, TypeOK
<1>2. e \in Engines /\ p \in Providers
  BY <1>1, TaskIsPair, ConstantsAssumption DEF EngineInv, TypeInv, Unassigned, Ended
<1>3. \A u \in Tasks : u # t => tpc'[u] = tpc[u]
  BY OneProvider
<1>4. ASSUME NEW f \in Engines, NEW q \in Providers PROVE PermitsAdd(f, q)'
  <2>1. /\ IsFiniteSet(Streams(f, q)) /\ Cardinality(Streams(f, q)) \in Nat
        /\ free[f][q] + Cardinality(Streams(f, q)) = MaxConnections[q]
    BY FS_CardinalityType DEF PermitInv, PermitsAdd
  <2>2. free'[f][q] = IF f = e /\ q = p THEN free[e][p] + 1 ELSE free[f][q]
    <3>1. free \in [Engines -> [Providers -> Nat]]
      BY DEF EngineInv, TypeInv, TypeOK
    <3>2. QED BY <1>1, <1>2, <3>1, OnePermit
  <2>3. free[f][q] \in Nat
    BY DEF EngineInv, TypeInv, TypeOK
  <2>4. CASE f = e /\ q = p
    <3>1. Streams(f, q)' = Streams(f, q) \ {t} /\ t \in Streams(f, q)
      BY <1>1, <1>3, <2>4 DEF Streams
    <3>2. /\ IsFiniteSet(Streams(f, q) \ {t})
          /\ Cardinality(Streams(f, q) \ {t}) = Cardinality(Streams(f, q)) - 1
      BY <2>1, <3>1, FS_RemoveElement
    <3>3. free'[f][q] = free[f][q] + 1
      BY <2>2, <2>4
    <3>4. free'[f][q] + Cardinality(Streams(f, q)') = MaxConnections[q]
      BY <2>1, <2>3, <3>1, <3>2, <3>3
    <3>5. QED BY <3>1, <3>2, <3>4 DEF PermitsAdd
  <2>5. CASE ~(f = e /\ q = p)
    <3>1. Streams(f, q)' = Streams(f, q)
      BY <1>1, <1>3, <2>5 DEF Streams
    <3>2. free'[f][q] = free[f][q]
      BY <2>2, <2>5
    <3>3. QED BY <2>1, <3>1, <3>2 DEF PermitsAdd
  <2>6. QED BY <2>4, <2>5
<1>5. QED BY <1>4 DEF PermitInv

(* A process that dies leaves no stream of its engine behind.              *)
LEMMA PermitCrash ==
  ASSUME EngineInv, PermitInv, NEW e \in Engines, Crash(e)
  PROVE  PermitInv'
<1>1. ASSUME NEW f \in Engines, NEW p \in Providers PROVE PermitsAdd(f, p)'
  <2>1. prov' = prov /\ free' = [free EXCEPT ![e] = MaxConnections]
    BY DEF Crash
  <2>2. CASE f = e
    <3>1. \A t \in Tasks : EngineOf[t[1]] = e => tpc'[t] = "none"
      <4> SUFFICES ASSUME NEW t \in Tasks, EngineOf[t[1]] = e PROVE tpc'[t] = "none"
        OBVIOUS
      <4>1. t = <<t[1], t[2]>> /\ t[1] \in Jobs /\ t[2] \in Articles
        BY TaskIsPair
      <4>2. mpc[t[1]] = "idle" => tpc[t] = "none"
        BY <4>1 DEF EngineInv, JobInv, QuietOutside, Busy
      <4>3. QED BY <4>1, <4>2 DEF Crash
    <3>2. Streams(f, p)' = {}
      BY <2>2, <3>1 DEF Streams
    <3>3. free'[f][p] = MaxConnections[p] /\ MaxConnections[p] \in Nat
      BY <2>1, <2>2, ConstantsAssumption DEF EngineInv, TypeInv, TypeOK
    <3>4. QED BY <3>2, <3>3, FS_EmptySet DEF PermitsAdd
  <2>3. CASE f # e
    <3>1. \A t \in Tasks : EngineOf[t[1]] = f => tpc'[t] = tpc[t]
      BY <2>3 DEF Crash
    <3>2. Streams(f, p)' = Streams(f, p)
      BY <2>1, <3>1 DEF Streams
    <3>3. free'[f][p] = free[f][p]
      BY <2>1, <2>3 DEF EngineInv, TypeInv, TypeOK
    <3>4. QED BY <3>2, <3>3 DEF PermitInv, PermitsAdd
  <2>4. QED BY <2>2, <2>3
<1>2. QED BY <1>1 DEF PermitInv

LEMMA PermitStep ==
  ASSUME EngineInv, PermitInv, [Next]_vars
  PROVE  PermitInv'
<1>1. CASE UNCHANGED vars
  BY <1>1, SamePermits
<1>2. ASSUME NEW j \in Jobs, MainOp(j) PROVE PermitInv'
  <2>1. UNCHANGED free
    BY <1>2 DEF MainOp, MainStep, Begin, EnsuresArticles, ListsPending, Fills, Reaps, ReapsError,
       LeavesLoop, Drains, MarksFailed, Flushes, MainRaises, Requeues, RequestsCancel
  <2>2. \A t \in Tasks : /\ tpc'[t] = "stream" <=> tpc[t] = "stream"
                         /\ tpc[t] = "stream" => prov'[t] = prov[t]
    BY <1>2, MainStarts DEF StartsThreads, Still, Ended
  <2>3. QED BY <2>1, <2>2, SamePermits
<1>3. ASSUME NEW t \in Tasks, TaskStep(t), ~Opens(t), ~Closes(t) PROVE PermitInv'
  BY <1>3, OtherTaskSteps, OneProvider, SamePermits
<1>4. QED
  BY <1>1, <1>2, <1>3, PermitOpens, PermitCloses, PermitCrash DEF Next, MainOp, Opens

LEMMA PermitInvariant == Spec => []PermitInv
<1>1. Init => PermitInv
  <2> SUFFICES ASSUME Init, NEW e \in Engines, NEW p \in Providers PROVE PermitsAdd(e, p)
    BY DEF PermitInv
  <2>1. Streams(e, p) = {}
    BY DEF Init, Streams
  <2>2. free[e][p] = MaxConnections[p] /\ MaxConnections[p] \in Nat
    BY ConstantsAssumption DEF Init
  <2>3. QED BY <2>1, <2>2, FS_EmptySet DEF PermitsAdd
<1>2. EngineInv /\ PermitInv /\ [Next]_vars => PermitInv'
  BY PermitStep
<1>3. QED BY <1>1, <1>2, EngineCorrect, PTL DEF Spec

(* Every way out of a stream returns its permit, and only once.            *)
THEOREM PermitsAlwaysAddUp == Spec => []PermitsAddUp
<1>1. PermitInv => PermitsAddUp
  BY DEF PermitInv, PermitsAdd, PermitsAddUp
<1>2. QED BY <1>1, PermitInvariant, PTL

(* One engine never opens more streams to a provider than max_connections, *)
(* whatever its articles run into.                                         *)
THEOREM EngineConnectionsAreBounded ==
  Spec => [](\A e \in Engines, p \in Providers : Cardinality(Streams(e, p)) <= MaxConnections[p])
<1>1. EngineInv /\ PermitInv =>
        \A e \in Engines, p \in Providers : Cardinality(Streams(e, p)) <= MaxConnections[p]
  <2> SUFFICES ASSUME EngineInv, PermitInv, NEW e \in Engines, NEW p \in Providers
               PROVE  Cardinality(Streams(e, p)) <= MaxConnections[p]
    OBVIOUS
  <2>1. free[e][p] \in Nat
    BY DEF EngineInv, TypeInv, TypeOK
  <2>2. /\ Cardinality(Streams(e, p)) \in Nat
        /\ free[e][p] + Cardinality(Streams(e, p)) = MaxConnections[p]
    BY FS_CardinalityType DEF PermitInv, PermitsAdd
  <2>3. QED BY <2>1, <2>2
<1>2. QED BY <1>1, PermitInvariant, EngineCorrect, PTL

=============================================================================
