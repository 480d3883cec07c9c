----------------------------- MODULE GroupScan ------------------------------
(***************************************************************************)
(* The scan of one newsgroup of one provider (nntp/scanner.py): each call  *)
(* of scan_group_once reads the group's checkpoint, fetches the overview   *)
(* of one window of articles behind it, feeds it to the indexer            *)
(* (services/indexing.py) and commits releases and checkpoint              *)
(* (PostgresReleaseRepository.commit_index_batch).                         *)
(*                                                                         *)
(* Nothing keeps two scanners from one group: the nntp-scanner service,    *)
(* the scanner embedded in the API process and a manual --once run may all *)
(* be at it.  One action is one transaction, one NNTP command or one       *)
(* header fed to the grouper.                                              *)
(***************************************************************************)
EXTENDS Naturals, FiniteSets

CONSTANTS
  Scanners,            (* processes that run scan_group_once                *)
  Daemons,             (* those that do so for ever                         *)
  Backfilling,         (* those started with --mode backfill                *)
  LastNumber,          (* bound: article numbers the group may get          *)
  Posts,               (* subjects without their part numbers               *)
  Accepted,            (* those the classifier takes for audiobooks         *)
  Numbered,            (* those whose subjects say "part k of n"            *)
  Parts,               (* the articles of a posting                         *)
  Missing,             (* numbers the overview leaves out                   *)
  ScanBatchSize,       (* scan_batch_size of the group                      *)
  CommitBatch,         (* batch_size of index_batches                       *)
  MaxPending,          (* max_pending_groups of the grouper                 *)
  EmptyReplies,        (* to an overview of nothing: an empty "list", or    *)
                       (* the "error" 420 or 423                            *)
  MaxFailures          (* bound: calls that raise or are killed             *)

Numbers == 1..LastNumber

ASSUME ConstantsAssumption ==
  /\ Daemons \subseteq Scanners /\ Backfilling \subseteq Scanners
  /\ LastNumber \in Nat
  /\ IsFiniteSet(Posts)
  /\ Accepted \subseteq Posts /\ Numbered \subseteq Posts
  /\ Parts \in [Posts -> SUBSET Numbers]
  /\ \A p, q \in Posts : p # q => Parts[p] \cap Parts[q] = {}
  /\ Missing \subseteq Numbers
  /\ ScanBatchSize \in Nat \ {0}
  /\ CommitBatch \in Nat \ {0}
  /\ MaxPending \in Nat \ {0}
  /\ EmptyReplies \subseteq {"list", "error"}
  /\ MaxFailures \in Nat

(* Article numbers start at 1, so that 0 says "no row".                    *)
NoCheckpoint == 0

(* A release: its id is a hash of the subject and of the message ids the   *)
(* grouper put together.                                                   *)
Candidate == [post : Posts, parts : SUBSET Numbers]
NoRelease == [post |-> "none", parts |-> {}]

(* A grouper without groups.                                               *)
Nothing == [p \in Posts |-> {}]

VARIABLES
  low, high,           (* the group on the server                           *)
  checkpoint,          (* indexer_checkpoints.article_number                *)
  releases,            (* releases                                          *)
  owner,               (* release_articles: the release that has an article *)
  pc,
  known,               (* the checkpoint a scanner read                     *)
  from, to,            (* its window                                        *)
  rows,                (* the overview rows it got                          *)
  next,                (* the next header to feed                           *)
  pending,             (* its grouper: the parts it holds of each subject   *)
  records,             (* candidates to be committed                        *)
  locked,              (* its transaction found, and locked, the checkpoint *)
  scanned,             (* history: windows committed with a checkpoint      *)
  failures

server  == <<low, high>>
store   == <<checkpoint, releases, owner, scanned>>
call    == <<known, from, to, rows, next, pending, records, locked>>
vars    == <<server, store, pc, call, failures>>

Init ==
  /\ low = 1 /\ high = 0
  /\ checkpoint = NoCheckpoint
  /\ releases = {}
  /\ owner = [n \in Numbers |-> NoRelease]
  /\ pc = [s \in Scanners |-> "idle"]
  /\ known = [s \in Scanners |-> NoCheckpoint]
  /\ from = [s \in Scanners |-> 1] /\ to = [s \in Scanners |-> 0]
  /\ rows = [s \in Scanners |-> {}]
  /\ next = [s \in Scanners |-> 1]
  /\ pending = [s \in Scanners |-> Nothing]
  /\ records = [s \in Scanners |-> {}]
  /\ locked = [s \in Scanners |-> FALSE]
  /\ scanned = {}
  /\ failures = 0

Goto(s, here, there) == pc[s] = here /\ pc' = [pc EXCEPT ![s] = there]

(* The call is left, and its local variables with it.                      *)
Leaves(s) ==
  /\ pc' = [pc EXCEPT ![s] = "idle"]
  /\ known' = [known EXCEPT ![s] = NoCheckpoint]
  /\ from' = [from EXCEPT ![s] = 1]
  /\ to' = [to EXCEPT ![s] = 0]
  /\ rows' = [rows EXCEPT ![s] = {}]
  /\ next' = [next EXCEPT ![s] = 1]
  /\ pending' = [pending EXCEPT ![s] = Nothing]
  /\ records' = [records EXCEPT ![s] = {}]
  /\ locked' = [locked EXCEPT ![s] = FALSE]

-----------------------------------------------------------------------------
(* scan_group_once up to the overview.                                     *)

ReadsCheckpoint(s) ==
  /\ Goto(s, "idle", "group")
  /\ known' = [known EXCEPT ![s] = checkpoint]
  /\ UNCHANGED <<server, store, from, to, rows, next, pending, records, locked, failures>>

(* _scan_range, from the answer to GROUP.  Mutants: the article after the  *)
(* checkpoint is skipped; a group one article ahead counts as up to date.  *)
SkipsOne(s) ==
  IF known[s] # NoCheckpoint
  THEN IF low > known[s] + 2 THEN low ELSE known[s] + 2
  ELSE IF s \notin Backfilling /\ high + 1 > low + ScanBatchSize
       THEN high + 1 - ScanBatchSize
       ELSE low

WindowStart(s) ==
  IF known[s] # NoCheckpoint
  THEN IF low > known[s] + 1 THEN low ELSE known[s] + 1
  ELSE IF s \notin Backfilling /\ high + 1 > low + ScanBatchSize
       THEN high + 1 - ScanBatchSize
       ELSE low

AlmostUpToDate(s) == (known[s] # NoCheckpoint /\ known[s] + 1 >= high) \/ WindowStart(s) > high

UpToDate(s) == (known[s] # NoCheckpoint /\ known[s] >= high) \/ WindowStart(s) > high

ChoosesWindow(s) ==
  /\ ~UpToDate(s)
  /\ Goto(s, "group", "overview")
  /\ LET start == WindowStart(s)
         last  == start + ScanBatchSize - 1
     IN /\ from' = [from EXCEPT ![s] = start]
        /\ to' = [to EXCEPT ![s] = IF last < high THEN last ELSE high]
  /\ UNCHANGED <<server, store, known, rows, next, pending, records, locked, failures>>

FindsNothingNew(s) ==
  /\ pc[s] = "group"
  /\ UpToDate(s)
  /\ Leaves(s)
  /\ UNCHANGED <<server, store, failures>>

Overview(s) == {n \in from[s]..to[s] : n >= low} \ Missing

(* XOVER: the complete answer is there before anything else happens.       *)
FetchesOverview(s) ==
  /\ Overview(s) # {} \/ "list" \in EmptyReplies
  /\ Goto(s, "overview", "feed")
  /\ rows' = [rows EXCEPT ![s] = Overview(s)]
  /\ next' = [next EXCEPT ![s] = from[s]]
  /\ UNCHANGED <<server, store, known, from, to, pending, records, locked, failures>>

(* 420 or 423: NntpTemporaryError ends the call.                           *)
OverviewIsRefused(s) ==
  /\ pc[s] = "overview"
  /\ Overview(s) = {}
  /\ "error" \in EmptyReplies
  /\ Leaves(s)
  /\ UNCHANGED <<server, store, failures>>

-----------------------------------------------------------------------------
(* StreamingHeaderGrouper.  Headers come in the order of their numbers, so *)
(* that the group untouched for longest is the one whose last part is the  *)
(* first of all last parts.                                                *)

Groups(s) == {p \in Posts : pending[s][p] # {}}

(* Mutant: a group keeps its place when a header of it arrives.            *)
IsFirst(s, p) ==
  /\ p \in Groups(s)
  /\ \E k \in pending[s][p] : \A q \in Groups(s) : \A m \in pending[s][q] : k <= m

IsOldest(s, p) ==
  /\ p \in Groups(s)
  /\ \A q \in Groups(s) : \E m \in pending[s][q] : \A k \in pending[s][p] : k <= m

(* _make_room: a new subject evicts the oldest group of a full grouper.    *)
MakesRoom(s, p) ==
  IF p \in Groups(s) \/ Cardinality(Groups(s)) < MaxPending
  THEN {pending[s]}
  ELSE {[pending[s] EXCEPT ![q] = {}] : q \in {r \in Posts : IsOldest(s, r)}}

(* feed_one: a numbered group is handed out with the header that completes *)
(* it, and kept if the classifier accepts it.                              *)
TakesHeader(s, p, n, room) ==
  LET parts    == room[p] \cup {n}
      complete == p \in Numbered /\ parts = Parts[p]
  IN /\ pending' = [pending EXCEPT ![s] = [room EXCEPT ![p] = IF complete THEN {} ELSE parts]]
     /\ records' = IF complete /\ p \in Accepted
                   THEN [records EXCEPT ![s] = @ \cup {[post |-> p, parts |-> parts]}]
                   ELSE records

(* flush: what is left of the unnumbered postings.                         *)
Unnumbered(s) ==
  {[post |-> p, parts |-> pending[s][p]] : p \in (Groups(s) \cap Accepted) \ Numbered}

-----------------------------------------------------------------------------
(* index_batches and commit_index_batch.                                   *)

(* A header of no posting completes a group of its own that is rejected.   *)
FeedsHeader(s) ==
  /\ pc[s] = "feed"
  /\ next[s] <= to[s]
  /\ Cardinality(records[s]) < CommitBatch
  /\ next' = [next EXCEPT ![s] = @ + 1]
  /\ \/ /\ \A p \in Posts : next[s] \notin Parts[p] \cap rows[s]
        /\ UNCHANGED <<pending, records>>
     \/ \E p \in Posts :
          /\ next[s] \in Parts[p] \cap rows[s]
          /\ \E room \in MakesRoom(s, p) : TakesHeader(s, p, next[s], room)
  /\ UNCHANGED <<server, store, pc, known, from, to, rows, locked, failures>>

(* Mutant: the articles of a release are left to another transaction.      *)
StoresBare(batch) ==
  /\ releases' = releases \cup batch
  /\ UNCHANGED owner

(* INSERT ... ON CONFLICT DO NOTHING into releases, and for those that     *)
(* were inserted into release_articles, where message_id is unique.        *)
Stores(batch) ==
  /\ releases' = releases \cup batch
  /\ owner' = [n \in Numbers |->
       IF owner[n] = NoRelease /\ \E c \in batch \ releases : n \in c.parts
       THEN CHOOSE c \in batch \ releases : n \in c.parts
       ELSE owner[n]]

(* A full batch is committed on the way, without a checkpoint.             *)
CommitsFullBatch(s) ==
  /\ pc[s] = "feed"
  /\ Cardinality(records[s]) >= CommitBatch
  /\ Stores(records[s])
  /\ records' = [records EXCEPT ![s] = {}]
  /\ UNCHANGED <<server, checkpoint, scanned, pc, known, from, to, rows, next, pending, locked,
                 failures>>

(* Mutant: a plain SELECT.                                                 *)
NoRowLocks == FALSE

RowHeld == \E t \in Scanners : pc[t] = "commit" /\ locked[t]

(* Mutant: the checkpoint is not compared with the one in the row.         *)
OpensCommitBlindly(s) ==
  /\ Goto(s, "feed", "commit")
  /\ next[s] > to[s] /\ Cardinality(records[s]) < CommitBatch
  /\ checkpoint # NoCheckpoint => ~RowHeld
  /\ locked' = [locked EXCEPT ![s] = checkpoint # NoCheckpoint]
  /\ UNCHANGED <<server, store, known, from, to, rows, next, pending, records, failures>>

(* The transaction that carries the checkpoint begins: SELECT ... FOR      *)
(* UPDATE waits for, locks and checks the row, if there is one.            *)
OpensCommit(s) ==
  /\ Goto(s, "feed", "commit")
  /\ next[s] > to[s] /\ Cardinality(records[s]) < CommitBatch
  /\ checkpoint # NoCheckpoint => ~RowHeld
  /\ checkpoint <= to[s]
  /\ locked' = [locked EXCEPT ![s] = checkpoint # NoCheckpoint]
  /\ UNCHANGED <<server, store, known, from, to, rows, next, pending, records, failures>>

(* "checkpoint cannot move backwards": another scanner was faster.         *)
RefusesCommit(s) ==
  /\ pc[s] = "feed"
  /\ next[s] > to[s] /\ Cardinality(records[s]) < CommitBatch
  /\ ~RowHeld
  /\ checkpoint > to[s]
  /\ Leaves(s)
  /\ UNCHANGED <<server, store, failures>>

Window(s) == [known |-> known[s], from |-> from[s], to |-> to[s], rows |-> rows[s]]

(* Mutant: the checkpoint goes first, the releases follow.                 *)
CommitsCheckpointFirst(s) ==
  /\ Goto(s, "commit", "flush")
  /\ ~locked[s] => ~RowHeld
  /\ checkpoint' = to[s]
  /\ scanned' = scanned \cup {Window(s)}
  /\ records' = [records EXCEPT ![s] = @ \cup Unnumbered(s)]
  /\ UNCHANGED <<server, releases, owner, known, from, to, rows, next, pending, locked,
                 failures>>

(* It ends: releases, articles and the upserted checkpoint appear at once. *)
Commits(s) ==
  /\ Goto(s, "commit", "flush")
  /\ ~locked[s] => ~RowHeld
  /\ Stores(records[s])
  /\ checkpoint' = to[s]
  /\ scanned' = scanned \cup {Window(s)}
  /\ records' = [records EXCEPT ![s] = Unnumbered(s)]
  /\ UNCHANGED <<server, known, from, to, rows, next, pending, locked, failures>>

(* flush: the unnumbered postings are committed afterwards, in batches.    *)
CommitsUnnumbered(s) ==
  /\ pc[s] = "flush"
  /\ \E batch \in SUBSET records[s] :
       /\ batch # {}
       /\ Cardinality(batch) = CommitBatch \/ (batch = records[s] /\ Cardinality(batch) < CommitBatch)
       /\ Stores(batch)
       /\ records' = [records EXCEPT ![s] = @ \ batch]
  /\ UNCHANGED <<server, checkpoint, scanned, pc, known, from, to, rows, next, pending, locked,
                 failures>>

Returns(s) ==
  /\ pc[s] = "flush"
  /\ records[s] = {}
  /\ Leaves(s)
  /\ UNCHANGED <<server, store, failures>>

(* A disconnect, a failed transaction, which rolls back, or a killed       *)
(* process.  run_pass goes on to the next group, Docker starts the process *)
(* anew: the next call reads the checkpoint again.                         *)
Fails(s) ==
  /\ pc[s] # "idle"
  /\ failures < MaxFailures
  /\ failures' = failures + 1
  /\ Leaves(s)
  /\ UNCHANGED <<server, store>>

-----------------------------------------------------------------------------
(* The server: articles are posted, and the oldest expire.                 *)

Posted ==
  /\ high < LastNumber
  /\ high' = high + 1
  /\ UNCHANGED <<low, store, pc, call, failures>>

Expires ==
  /\ low <= high
  /\ low' = low + 1
  /\ UNCHANGED <<high, store, pc, call, failures>>

(* One call, once begun.                                                   *)
ScanStep(s) ==
  \/ ChoosesWindow(s) \/ FindsNothingNew(s)
  \/ FetchesOverview(s) \/ OverviewIsRefused(s)
  \/ FeedsHeader(s) \/ CommitsFullBatch(s) \/ OpensCommit(s) \/ RefusesCommit(s)
  \/ Commits(s) \/ CommitsUnnumbered(s) \/ Returns(s)

Next ==
  \/ \E s \in Scanners : ReadsCheckpoint(s) \/ ScanStep(s) \/ Fails(s)
  \/ Posted \/ Expires

Spec == Init /\ [][Next]_vars

(* run_forever scans again and again; a call that has begun goes on.       *)
Fairness ==
  /\ \A s \in Daemons : WF_vars(ReadsCheckpoint(s))
  /\ \A s \in Scanners : WF_vars(ScanStep(s))

FairSpec == Spec /\ Fairness

-----------------------------------------------------------------------------
(* Properties.                                                             *)

(* Every variable has its type, and only one transaction at a time holds   *)
(* the checkpoint row.                                                     *)
TypeOK ==
  /\ low \in 1..LastNumber + 1 /\ high \in 0..LastNumber
  /\ checkpoint \in 0..LastNumber
  /\ releases \subseteq Candidate
  /\ owner \in [Numbers -> Candidate \cup {NoRelease}]
  /\ pc \in [Scanners -> {"idle", "group", "overview", "feed", "commit", "flush"}]
  /\ known \in [Scanners -> 0..LastNumber]
  /\ from \in [Scanners -> 1..LastNumber + 1]
  /\ to \in [Scanners -> 0..LastNumber]
  /\ rows \in [Scanners -> SUBSET Numbers]
  /\ next \in [Scanners -> 1..LastNumber + 1]
  /\ pending \in [Scanners -> [Posts -> SUBSET Numbers]]
  /\ records \in [Scanners -> SUBSET Candidate]
  /\ locked \in [Scanners -> BOOLEAN]
  /\ scanned \subseteq
       [known : 0..LastNumber, from : Numbers, to : Numbers, rows : SUBSET Numbers]
  /\ failures \in 0..MaxFailures
  /\ \A s, t \in Scanners :
       /\ pc[s] = "commit" /\ locked[s] /\ pc[t] = "commit" /\ locked[t] => s = t

(* The live-NNTP design: checkpoints never move backwards.                 *)
CheckpointNeverBackwards == [][checkpoint' >= checkpoint]_checkpoint

(* A scanner that began behind a checkpoint never moves it backwards, and  *)
(* nobody does who found it in his transaction: only a group's first scan  *)
(* can whose transaction began while no other had committed.               *)
OnlyFirstScansMoveBack ==
  [][checkpoint' < checkpoint
       => \E s \in Scanners :
            pc[s] = "commit" /\ pc'[s] # "commit" /\ ~locked[s] /\ known[s] = NoCheckpoint]_vars

(* The other subjects between an article of a posting and its next one, or *)
(* the end of the window.                                                  *)
Between(p, m, seen) ==
  {q \in Posts \ {p} : \E k \in Parts[q] \cap seen :
     m < k /\ \A n \in Parts[p] \cap seen : m < n => k < n}

(* The grouper has room for a posting until its last article, or, if it is *)
(* not numbered, until the window ends.                                    *)
Fits(p, seen) ==
  \A m \in Parts[p] \cap seen :
    (p \in Numbered => \E n \in Parts[p] : m < n)
      => Cardinality(Between(p, m, seen)) < MaxPending

(* A window whose checkpoint is committed has the numbered audiobooks for  *)
(* which the grouper has room indexed, whatever failed; while nothing      *)
(* fails, its unnumbered ones too.                                         *)
WindowPostsAreIndexed ==
  \A w \in scanned :
    /\ \A p \in Accepted \cap Numbered :
         Parts[p] # {} /\ Parts[p] \subseteq w.rows /\ Fits(p, w.rows)
           => [post |-> p, parts |-> Parts[p]] \in releases
    /\ failures = 0 /\ (\A s \in Scanners : pc[s] = "idle")
         => \A p \in Accepted \ Numbered :
              Parts[p] \cap w.rows # {} /\ Fits(p, w.rows)
                => [post |-> p, parts |-> Parts[p] \cap w.rows] \in releases

(* Scanning resumes without skipping an uncommitted range: what lies       *)
(* between two windows ever committed has been scanned, was gone from the  *)
(* server, or lies below the window of a first scan, which begins at the   *)
(* newest articles.                                                        *)
NothingIsSkipped ==
  \A w, v \in scanned : \A n \in w.from..v.to :
    \/ n < low
    \/ \E u \in scanned : n \in u.from..u.to
    \/ \E u \in scanned : u.known = NoCheckpoint /\ n < u.from

(* Replays and overlapping scans never leave a numbered release without    *)
(* one of its articles: its NZB and its downloads are complete.            *)
ReleasesAreWhole ==
  \A c \in releases : c.post \in Numbered => \A n \in c.parts : owner[n] = c

(* The scanner catches up with the group: the checkpoint reaches whatever  *)
(* is there to be scanned, although calls fail and another scanner is at   *)
(* work.                                                                   *)
CatchesUp == []<>(checkpoint >= high \/ low > high)

(* A multipart release may span scan windows and is still completed: a     *)
(* numbered posting all of whose articles were scanned is indexed.         *)
ScannedPostsAreIndexed ==
  \A p \in Accepted \cap Numbered :
    Parts[p] # {} /\ Parts[p] \subseteq UNION {w.rows : w \in scanned}
      => [post |-> p, parts |-> Parts[p]] \in releases

=============================================================================
