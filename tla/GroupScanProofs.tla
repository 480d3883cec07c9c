-------------------------- MODULE GroupScanProofs ---------------------------
(***************************************************************************)
(* Theorems about GroupScan, for any number of scanners, articles and      *)
(* postings and any batch sizes.                                           *)
(***************************************************************************)
EXTENDS GroupScan, FiniteSetTheorems, TLAPS

USE DEF vars, server, store, call, Goto, NoCheckpoint

-----------------------------------------------------------------------------
(* Type correctness.  A scanner that has chosen its window has a window    *)
(* that is not empty.                                                      *)

Windowed == {"overview", "feed", "commit", "flush"}

WindowInv ==
  \A s \in Scanners : pc[s] \in Windowed =>
    /\ from[s] \in Numbers /\ to[s] \in Numbers
    /\ from[s] <= to[s]

TypeInv == TypeOK /\ WindowInv

LEMMA TypeInit == Init => TypeInv
  BY ConstantsAssumption DEF Init, TypeInv, TypeOK, WindowInv, Windowed, Numbers, RowHeld, Nothing

LEMMA LeavesType ==
  ASSUME TypeInv, NEW s \in Scanners, Leaves(s),
         UNCHANGED <<server, store>>, failures' \in 0..MaxFailures
  PROVE  TypeInv'
<1> USE ConstantsAssumption DEF TypeInv, TypeOK, Leaves
<1>1. /\ known' \in [Scanners -> 0..LastNumber]
      /\ from' \in [Scanners -> 1..LastNumber + 1]
      /\ to' \in [Scanners -> 0..LastNumber]
      /\ next' \in [Scanners -> 1..LastNumber + 1]
  OBVIOUS
<1>a. pending' \in [Scanners -> [Posts -> SUBSET Numbers]]
  BY DEF Nothing
<1>2. /\ pc' \in [Scanners -> {"idle", "group", "overview", "feed", "commit", "flush"}]
      /\ rows' \in [Scanners -> SUBSET Numbers]
      /\ records' \in [Scanners -> SUBSET Candidate]
      /\ locked' \in [Scanners -> BOOLEAN]
  OBVIOUS
<1>3. WindowInv'
  BY DEF WindowInv, Windowed
<1>4. QED BY <1>1, <1>2, <1>3, <1>a

(* A grouper that made room holds what it held, or nothing, of a subject.  *)
LEMMA RoomKeeps ==
  ASSUME TypeOK, NEW s \in Scanners, NEW p \in Posts, NEW room \in MakesRoom(s, p)
  PROVE  /\ room \in [Posts -> SUBSET Numbers]
         /\ \A q \in Posts : room[q] = pending[s][q] \/ room[q] = {}
<1>1. pending[s] \in [Posts -> SUBSET Numbers]
  BY DEF TypeOK
<1>2. room = pending[s] \/ \E q \in Posts : room = [pending[s] EXCEPT ![q] = {}]
  BY DEF MakesRoom
<1>3. QED BY <1>1, <1>2

(* What a header does to the grouper and the candidates.                   *)
HeaderEffect(s, p, n, room) ==
  LET parts    == room[p] \cup {n}
      complete == p \in Numbered /\ parts = Parts[p]
  IN /\ pending'[s][p] = IF complete THEN {} ELSE parts
     /\ \A q \in Posts \ {p} : pending'[s][q] = room[q]
     /\ \A t \in Scanners \ {s} : pending'[t] = pending[t] /\ records'[t] = records[t]
     /\ records'[s] = IF complete /\ p \in Accepted
                     THEN records[s] \cup {[post |-> p, parts |-> parts]}
                     ELSE records[s]

LEMMA HeaderDoes ==
  ASSUME TypeOK, NEW s \in Scanners, NEW p \in Posts, NEW n \in Numbers,
         NEW room \in [Posts -> SUBSET Numbers], TakesHeader(s, p, n, room)
  PROVE  /\ pending' \in [Scanners -> [Posts -> SUBSET Numbers]]
         /\ records' \in [Scanners -> SUBSET Candidate]
         /\ HeaderEffect(s, p, n, room)
<1> DEFINE parts == room[p] \cup {n}
           complete == p \in Numbered /\ parts = Parts[p]
           after    == [room EXCEPT ![p] = IF complete THEN {} ELSE parts]
<1>1. parts \in SUBSET Numbers
  OBVIOUS
<1>2. after \in [Posts -> SUBSET Numbers]
  BY <1>1
<1>3. pending' = [pending EXCEPT ![s] = after]
  BY DEF TakesHeader
<1>4. [post |-> p, parts |-> parts] \in Candidate
  BY <1>1 DEF Candidate
<1>5. records' = IF complete /\ p \in Accepted
                 THEN [records EXCEPT ![s] = @ \cup {[post |-> p, parts |-> parts]}]
                 ELSE records
  BY DEF TakesHeader
<1>6. /\ records' \in [Scanners -> SUBSET Candidate]
      /\ records'[s] = IF complete /\ p \in Accepted
                      THEN records[s] \cup {[post |-> p, parts |-> parts]}
                      ELSE records[s]
      /\ \A t \in Scanners \ {s} : records'[t] = records[t]
  <2> HIDE DEF parts, complete
  <2>1. records \in [Scanners -> SUBSET Candidate]
    BY DEF TypeOK
  <2>2. QED BY <1>4, <1>5, <2>1
<1>7. after[p] = IF complete THEN {} ELSE parts
  OBVIOUS
<1>8. \A q \in Posts \ {p} : after[q] = room[q]
  OBVIOUS
<1> HIDE DEF after
<1>9. /\ pending' \in [Scanners -> [Posts -> SUBSET Numbers]]
      /\ pending'[s] = after
      /\ \A t \in Scanners \ {s} : pending'[t] = pending[t]
  BY <1>2, <1>3 DEF TypeOK
<1>10. HeaderEffect(s, p, n, room)
  BY <1>6, <1>7, <1>8, <1>9 DEF HeaderEffect
<1>11. QED BY <1>6, <1>9, <1>10

LEMMA UnnumberedType ==
  ASSUME TypeOK, NEW s \in Scanners
  PROVE  Unnumbered(s) \subseteq Candidate
<1>1. \A p \in Posts : pending[s][p] \in SUBSET Numbers
  BY DEF TypeOK
<1>2. QED BY <1>1 DEF Unnumbered, Groups, Candidate

LEMMA StoresType ==
  ASSUME TypeOK, NEW batch \in SUBSET Candidate, Stores(batch)
  PROVE  /\ releases' \subseteq Candidate
         /\ owner' \in [Numbers -> Candidate \cup {NoRelease}]
<1>1. releases' \subseteq Candidate
  BY DEF TypeOK, Stores
<1>2. ASSUME NEW n \in Numbers, \E c \in batch \ releases : n \in c.parts
      PROVE  (CHOOSE c \in batch \ releases : n \in c.parts) \in Candidate
  BY <1>2
<1>3. owner' \in [Numbers -> Candidate \cup {NoRelease}]
  BY <1>2 DEF TypeOK, Stores
<1>4. QED BY <1>1, <1>3

LEMMA TypeScan ==
  ASSUME TypeInv, NEW s \in Scanners, ReadsCheckpoint(s) \/ ScanStep(s) \/ Fails(s)
  PROVE  TypeInv'
<1> USE ConstantsAssumption DEF TypeInv
<1>1. CASE ReadsCheckpoint(s)
  BY <1>1 DEF ReadsCheckpoint, TypeOK, WindowInv, Windowed
<1>2. CASE ChoosesWindow(s)
  <2>1. LET start == WindowStart(s)
            last  == start + ScanBatchSize - 1
        IN /\ start \in Nat /\ start >= 1 /\ start <= high /\ last >= start
           /\ from' = [from EXCEPT ![s] = start]
           /\ to' = [to EXCEPT ![s] = IF last < high THEN last ELSE high]
    BY <1>2 DEF ChoosesWindow, UpToDate, WindowStart, TypeOK
  <2> DEFINE start == WindowStart(s)
             end == IF start + ScanBatchSize - 1 < high THEN start + ScanBatchSize - 1 ELSE high
  <2>2. start \in Numbers /\ end \in Numbers /\ start <= end
    BY <2>1 DEF TypeOK, Numbers
  <2>3. from' = [from EXCEPT ![s] = start] /\ to' = [to EXCEPT ![s] = end]
    BY <2>1
  <2> HIDE DEF start, end
  <2>4. /\ from' \in [Scanners -> 1..LastNumber + 1]
        /\ to' \in [Scanners -> 0..LastNumber]
    BY <2>2, <2>3 DEF TypeOK, Numbers
  <2>5. WindowInv'
    BY <1>2, <2>2, <2>3 DEF ChoosesWindow, WindowInv, Windowed, TypeOK
  <2>6. QED BY <1>2, <2>4, <2>5 DEF ChoosesWindow, TypeOK
<1>3. CASE FindsNothingNew(s)
  <2>1. failures' \in 0..MaxFailures
    BY <1>3 DEF FindsNothingNew, TypeOK
  <2>2. QED BY <1>3, <2>1, LeavesType DEF FindsNothingNew
<1>4. CASE FetchesOverview(s)
  <2>1. from[s] \in Numbers /\ to[s] \in Numbers
    BY <1>4 DEF FetchesOverview, WindowInv, Windowed
  <2>2. Overview(s) \in SUBSET Numbers
    BY <2>1 DEF Overview, Numbers
  <2>3. rows' \in [Scanners -> SUBSET Numbers] /\ next' \in [Scanners -> 1..LastNumber + 1]
    BY <1>4, <2>1, <2>2 DEF FetchesOverview, TypeOK, Numbers
  <2>4. WindowInv'
    BY <1>4 DEF FetchesOverview, WindowInv, Windowed, TypeOK
  <2>5. QED BY <1>4, <2>3, <2>4 DEF FetchesOverview, TypeOK
<1>5. CASE FeedsHeader(s)
  <2>1. to[s] \in Numbers
    BY <1>5 DEF FeedsHeader, WindowInv, Windowed
  <2>2. next' \in [Scanners -> 1..LastNumber + 1]
    BY <1>5, <2>1 DEF FeedsHeader, TypeOK, Numbers
  <2>3. /\ records' \in [Scanners -> SUBSET Candidate]
        /\ pending' \in [Scanners -> [Posts -> SUBSET Numbers]]
    <3>1. CASE UNCHANGED <<pending, records>>
      BY <3>1 DEF TypeOK
    <3>2. ASSUME NEW p \in Posts, next[s] \in Parts[p] \cap rows[s],
                 NEW room \in MakesRoom(s, p), TakesHeader(s, p, next[s], room)
          PROVE  /\ records' \in [Scanners -> SUBSET Candidate]
                 /\ pending' \in [Scanners -> [Posts -> SUBSET Numbers]]
      <4>1. next[s] \in Numbers /\ room \in [Posts -> SUBSET Numbers]
        BY <3>2, RoomKeeps DEF TypeOK
      <4>2. QED BY <3>2, <4>1, HeaderDoes
    <3>3. QED BY <1>5, <3>1, <3>2 DEF FeedsHeader
  <2>4. WindowInv'
    BY <1>5 DEF FeedsHeader, WindowInv, Windowed
  <2>5. QED BY <1>5, <2>2, <2>3, <2>4 DEF FeedsHeader, TypeOK
<1>6. CASE CommitsFullBatch(s)
  <2>1. records[s] \in SUBSET Candidate
    BY DEF TypeOK
  <2>2. /\ releases' \subseteq Candidate
        /\ owner' \in [Numbers -> Candidate \cup {NoRelease}]
    BY <1>6, <2>1, StoresType DEF CommitsFullBatch
  <2>3. WindowInv'
    BY <1>6 DEF CommitsFullBatch, WindowInv, Windowed
  <2>4. QED BY <1>6, <2>2, <2>3 DEF CommitsFullBatch, TypeOK
<1>7. CASE OpensCommit(s)
  <2>1. WindowInv'
    BY <1>7 DEF OpensCommit, WindowInv, Windowed, TypeOK
  <2>2. \A t, u \in Scanners :
          pc'[t] = "commit" /\ locked'[t] /\ pc'[u] = "commit" /\ locked'[u] => t = u
    BY <1>7 DEF OpensCommit, RowHeld, TypeOK
  <2>3. QED BY <1>7, <2>1, <2>2 DEF OpensCommit, TypeOK
<1>8. CASE RefusesCommit(s)
  <2>1. failures' \in 0..MaxFailures
    BY <1>8 DEF RefusesCommit, TypeOK
  <2>2. QED BY <1>8, <2>1, LeavesType DEF RefusesCommit
<1>9. CASE Commits(s)
  <2>1. records[s] \in SUBSET Candidate /\ from[s] \in Numbers /\ to[s] \in Numbers
        /\ rows[s] \in SUBSET Numbers
    BY <1>9 DEF Commits, WindowInv, Windowed, TypeOK
  <2>2. /\ releases' \subseteq Candidate
        /\ owner' \in [Numbers -> Candidate \cup {NoRelease}]
    BY <1>9, <2>1, StoresType DEF Commits
  <2>3. scanned' \subseteq
          [known : 0..LastNumber, from : Numbers, to : Numbers, rows : SUBSET Numbers]
    BY <1>9, <2>1 DEF Commits, Window, TypeOK
  <2>4. records' \in [Scanners -> SUBSET Candidate]
    BY <1>9, UnnumberedType DEF Commits, TypeOK
  <2>5. checkpoint' \in 0..LastNumber
    BY <1>9, <2>1 DEF Commits, Numbers
  <2>6. WindowInv'
    BY <1>9 DEF Commits, WindowInv, Windowed, TypeOK
  <2>7. QED BY <1>9, <2>2, <2>3, <2>4, <2>5, <2>6 DEF Commits, TypeOK
<1>10. CASE CommitsUnnumbered(s)
  <2>1. PICK batch \in SUBSET records[s] :
          Stores(batch) /\ records' = [records EXCEPT ![s] = @ \ batch]
    BY <1>10 DEF CommitsUnnumbered
  <2>2. batch \in SUBSET Candidate /\ records' \in [Scanners -> SUBSET Candidate]
    BY <2>1 DEF TypeOK
  <2>3. /\ releases' \subseteq Candidate
        /\ owner' \in [Numbers -> Candidate \cup {NoRelease}]
    BY <2>1, <2>2, StoresType
  <2>4. WindowInv'
    BY <1>10 DEF CommitsUnnumbered, WindowInv, Windowed
  <2>5. QED BY <1>10, <2>2, <2>3, <2>4 DEF CommitsUnnumbered, TypeOK
<1>11. CASE Returns(s)
  <2>1. failures' \in 0..MaxFailures
    BY <1>11 DEF Returns, TypeOK
  <2>2. QED BY <1>11, <2>1, LeavesType DEF Returns
<1>12. CASE Fails(s)
  <2>1. failures' \in 0..MaxFailures
    BY <1>12 DEF Fails, TypeOK
  <2>2. QED BY <1>12, <2>1, LeavesType DEF Fails
<1>13. CASE OverviewIsRefused(s)
  <2>1. failures' \in 0..MaxFailures
    BY <1>13 DEF OverviewIsRefused, TypeOK
  <2>2. QED BY <1>13, <2>1, LeavesType DEF OverviewIsRefused
<1>14. QED
  BY <1>1, <1>2, <1>3, <1>4, <1>5, <1>6, <1>7, <1>8, <1>9, <1>10, <1>11, <1>12, <1>13 DEF ScanStep

LEMMA TypeInductive == TypeInv /\ [Next]_vars => TypeInv'
<1> SUFFICES ASSUME TypeInv, [Next]_vars PROVE TypeInv'
  OBVIOUS
<1>1. CASE UNCHANGED vars
  BY <1>1 DEF TypeInv, TypeOK, WindowInv
<1>2. CASE Posted
  BY <1>2, ConstantsAssumption DEF Posted, TypeInv, TypeOK, WindowInv
<1>3. CASE Expires
  BY <1>3, ConstantsAssumption DEF Expires, TypeInv, TypeOK, WindowInv
<1>4. QED BY <1>1, <1>2, <1>3, TypeScan DEF Next

LEMMA TypeInvariant == Spec => []TypeInv
  BY TypeInit, TypeInductive, PTL DEF Spec

(* Every variable keeps its type, and one transaction at a time holds the  *)
(* checkpoint row.                                                         *)
THEOREM TypeCorrect == Spec => []TypeOK
<1>1. TypeInv => TypeOK
  BY DEF TypeInv
<1>2. QED BY <1>1, TypeInvariant, PTL

-----------------------------------------------------------------------------
(* Checkpoints.  Who holds the row has checked it, and it does not change  *)
(* under a lock; who found no row began before there was one.              *)

KnownStays ==
  \A s \in Scanners : pc[s] # "idle" /\ known[s] # NoCheckpoint => checkpoint # NoCheckpoint

LockedIsChecked ==
  \A s \in Scanners :
    pc[s] = "commit" =>
      IF locked[s] THEN checkpoint # NoCheckpoint /\ checkpoint <= to[s]
                   ELSE known[s] = NoCheckpoint

CheckpointInv == TypeInv /\ KnownStays /\ LockedIsChecked

(* What the steps that write no checkpoint and open no commit do.          *)
LEMMA OtherScanSteps ==
  ASSUME TypeInv, NEW s \in Scanners,
         ScanStep(s) \/ Fails(s), ~OpensCommit(s), ~Commits(s)
  PROVE  /\ checkpoint' = checkpoint
         /\ pc[s] \notin {"idle"}
         /\ pc'[s] # "commit"  \/ UNCHANGED <<pc, locked, to>>
         /\ pc'[s] = "idle" \/ known'[s] = known[s]
         /\ \A t \in Scanners : t # s =>
              /\ pc'[t] = pc[t] /\ known'[t] = known[t]
              /\ locked'[t] = locked[t] /\ to'[t] = to[t]
<1> USE DEF TypeInv, TypeOK
<1>1. CASE \/ FindsNothingNew(s) \/ OverviewIsRefused(s) \/ RefusesCommit(s) \/ Returns(s)
           \/ Fails(s)
  BY <1>1 DEF FindsNothingNew, OverviewIsRefused, RefusesCommit, Returns, Fails, Leaves
<1>2. CASE ChoosesWindow(s)
  BY <1>2 DEF ChoosesWindow
<1>3. CASE FetchesOverview(s) \/ FeedsHeader(s)
  BY <1>3 DEF FetchesOverview, FeedsHeader
<1>4. CASE CommitsFullBatch(s) \/ CommitsUnnumbered(s)
  BY <1>4 DEF CommitsFullBatch, CommitsUnnumbered
<1>5. QED BY <1>1, <1>2, <1>3, <1>4 DEF ScanStep

LEMMA CommitWrites ==
  ASSUME CheckpointInv, NEW s \in Scanners, Commits(s)
  PROVE  /\ checkpoint' # NoCheckpoint
         /\ checkpoint' >= checkpoint \/ (~locked[s] /\ known[s] = NoCheckpoint)
<1>1. pc[s] = "commit" /\ checkpoint' = to[s]
  BY DEF Commits
<1>2. to[s] \in Numbers
  BY <1>1 DEF CheckpointInv, TypeInv, WindowInv, Windowed
<1>3. locked[s] \in BOOLEAN /\ checkpoint \in Nat
  BY DEF CheckpointInv, TypeInv, TypeOK
<1>4. IF locked[s] THEN checkpoint <= to[s] ELSE known[s] = NoCheckpoint
  BY <1>1 DEF CheckpointInv, LockedIsChecked
<1>5. QED BY <1>1, <1>2, <1>3, <1>4 DEF Numbers

LEMMA CheckpointInductive ==
  ASSUME CheckpointInv, [Next]_vars
  PROVE  CheckpointInv'
<1>1. TypeInv'
  BY TypeInductive DEF CheckpointInv
<1>2. CASE UNCHANGED vars \/ Posted \/ Expires
  <2>1. UNCHANGED <<checkpoint, pc, known, locked, to>>
    BY <1>2 DEF Posted, Expires
  <2>2. QED BY <1>1, <2>1 DEF CheckpointInv, KnownStays, LockedIsChecked
<1>3. ASSUME NEW s \in Scanners, ReadsCheckpoint(s) PROVE CheckpointInv'
  <2>1. KnownStays'
    BY <1>3 DEF ReadsCheckpoint, CheckpointInv, KnownStays, TypeInv, TypeOK
  <2>2. LockedIsChecked'
    BY <1>3 DEF ReadsCheckpoint, CheckpointInv, LockedIsChecked, TypeInv, TypeOK
  <2>3. QED BY <1>1, <2>1, <2>2 DEF CheckpointInv
<1>4. ASSUME NEW s \in Scanners, OpensCommit(s) PROVE CheckpointInv'
  <2>1. KnownStays'
    BY <1>4 DEF OpensCommit, CheckpointInv, KnownStays, TypeInv, TypeOK
  <2>2. LockedIsChecked'
    BY <1>4 DEF OpensCommit, CheckpointInv, KnownStays, LockedIsChecked, TypeInv, TypeOK
  <2>3. QED BY <1>1, <2>1, <2>2 DEF CheckpointInv
<1>5. ASSUME NEW s \in Scanners, Commits(s) PROVE CheckpointInv'
  <2>1. checkpoint' # NoCheckpoint
    BY <1>5, CommitWrites
  <2>2. pc'[s] = "flush" /\ \A t \in Scanners : t # s =>
          pc'[t] = pc[t] /\ locked'[t] = locked[t] /\ known'[t] = known[t]
    BY <1>5 DEF Commits, CheckpointInv, TypeInv, TypeOK
  <2>3. ASSUME NEW t \in Scanners, t # s, pc[t] = "commit" PROVE ~locked[t]
    <3>1. pc[s] = "commit" /\ (~locked[s] => ~RowHeld)
      BY <1>5 DEF Commits
    <3>2. CASE locked[s]
      BY <2>3, <3>1, <3>2 DEF CheckpointInv, TypeInv, TypeOK
    <3>3. CASE ~locked[s]
      BY <2>3, <3>1, <3>3 DEF RowHeld
    <3>4. QED BY <3>2, <3>3
  <2>4. LockedIsChecked'
    BY <2>2, <2>3 DEF CheckpointInv, LockedIsChecked
  <2>5. QED BY <1>1, <2>1, <2>4 DEF CheckpointInv, KnownStays
<1>6. ASSUME NEW s \in Scanners, ScanStep(s) \/ Fails(s), ~OpensCommit(s), ~Commits(s)
      PROVE  CheckpointInv'
  BY <1>1, <1>6, OtherScanSteps DEF CheckpointInv, KnownStays, LockedIsChecked
<1>7. QED BY <1>2, <1>3, <1>4, <1>5, <1>6 DEF Next

LEMMA CheckpointInvariant == Spec => []CheckpointInv
<1>1. Init => CheckpointInv
  BY TypeInit DEF Init, CheckpointInv, KnownStays, LockedIsChecked
<1>2. CheckpointInv /\ [Next]_vars => CheckpointInv'
  BY CheckpointInductive
<1>3. QED BY <1>1, <1>2, PTL DEF Spec

(* However scanners overlap, one that began behind a checkpoint or found   *)
(* the row in its transaction does not move it backwards.                  *)
THEOREM CheckpointsMoveBackInFirstScansOnly == Spec => OnlyFirstScansMoveBack
<1> DEFINE FirstScan ==
      \E s \in Scanners :
        pc[s] = "commit" /\ pc'[s] # "commit" /\ ~locked[s] /\ known[s] = NoCheckpoint
<1>1. CheckpointInv /\ [Next]_vars => [checkpoint' < checkpoint => FirstScan]_vars
  <2> SUFFICES ASSUME CheckpointInv, Next, checkpoint' < checkpoint
               PROVE  FirstScan
    OBVIOUS
  <2>1. checkpoint \in Nat /\ checkpoint' # checkpoint
    BY DEF CheckpointInv, TypeInv, TypeOK
  <2>2. PICK s \in Scanners : ReadsCheckpoint(s) \/ ScanStep(s) \/ Fails(s)
    BY <2>1 DEF Next, Posted, Expires
  <2>3. Commits(s)
    BY <2>1, <2>2, OtherScanSteps DEF ReadsCheckpoint, OpensCommit, CheckpointInv
  <2>4. pc[s] = "commit" /\ pc'[s] # "commit" /\ checkpoint' \in Nat
    BY <2>3, TypeInductive DEF Commits, CheckpointInv, TypeInv, TypeOK
  <2>5. ~locked[s] /\ known[s] = NoCheckpoint
    BY <2>1, <2>3, <2>4, CommitWrites
  <2>6. QED BY <2>4, <2>5
<1>2. [checkpoint' < checkpoint => FirstScan]_vars
        <=> [checkpoint' < checkpoint
               => \E s \in Scanners :
                    pc[s] = "commit" /\ pc'[s] # "commit" /\ ~locked[s]
                    /\ known[s] = NoCheckpoint]_vars
  OBVIOUS
<1> HIDE DEF FirstScan
<1>3. QED BY <1>1, <1>2, CheckpointInvariant, PTL DEF OnlyFirstScansMoveBack, Spec

-----------------------------------------------------------------------------
(* Releases.  The parts of a candidate are articles of its posting, all of *)
(* them if it is numbered; an article belongs to a release that has it.    *)

IsCandidate(c) ==
  /\ c.post \in Posts
  /\ c.parts \subseteq Parts[c.post]
  /\ c.post \in Numbered => c.parts = Parts[c.post]

HeldAreParts == \A s \in Scanners : \A p \in Posts : pending[s][p] \subseteq Parts[p]

CandidatesInv ==
  /\ HeldAreParts
  /\ \A c \in releases : IsCandidate(c)
  /\ \A s \in Scanners : \A c \in records[s] : IsCandidate(c)

OwnersInv ==
  \A n \in Numbers :
    owner[n] # NoRelease => owner[n] \in releases /\ n \in owner[n].parts

WholeInv == TypeInv /\ CandidatesInv /\ OwnersInv /\ ReleasesAreWhole

LEMMA FedAreCandidates ==
  ASSUME TypeOK, HeldAreParts, NEW s \in Scanners, FeedsHeader(s),
         \A c \in records[s] : IsCandidate(c)
  PROVE  /\ HeldAreParts'
         /\ \A c \in records'[s] : IsCandidate(c)
         /\ \A t \in Scanners \ {s} : records'[t] = records[t]
<1>1. CASE UNCHANGED <<pending, records>>
  BY <1>1 DEF HeldAreParts
<1>2. ASSUME NEW n, n = next[s], NEW p \in Posts, n \in Parts[p] \cap rows[s],
             NEW room \in MakesRoom(s, p), TakesHeader(s, p, n, room)
      PROVE  /\ HeldAreParts'
             /\ \A c \in records'[s] : IsCandidate(c)
             /\ \A t \in Scanners \ {s} : records'[t] = records[t]
  <2>0. PICK parts : parts = room[p] \cup {n}
    OBVIOUS
  <2> DEFINE complete == p \in Numbered /\ parts = Parts[p]
  <2>1. /\ n \in Numbers
        /\ room \in [Posts -> SUBSET Numbers]
        /\ \A q \in Posts : room[q] = pending[s][q] \/ room[q] = {}
    BY <1>2, RoomKeeps DEF TypeOK
  <2>2. /\ pending'[s][p] = IF complete THEN {} ELSE parts
        /\ \A q \in Posts \ {p} : pending'[s][q] = room[q]
        /\ \A t \in Scanners \ {s} : pending'[t] = pending[t] /\ records'[t] = records[t]
        /\ records'[s] = IF complete /\ p \in Accepted
                        THEN records[s] \cup {[post |-> p, parts |-> parts]}
                        ELSE records[s]
    <3>1. HeaderEffect(s, p, n, room)
      BY <1>2, <2>1, HeaderDoes
    <3>2. QED BY <2>0, <3>1 DEF HeaderEffect
  <2>3. \A q \in Posts : room[q] \subseteq Parts[q]
    BY <2>1 DEF HeldAreParts
  <2>4. parts \subseteq Parts[p]
    BY <1>2, <2>0, <2>3
  <2>5. IsCandidate([post |-> p, parts |-> parts]) \/ ~complete
    BY <2>4 DEF IsCandidate
  <2> HIDE DEF complete
  <2>6. pending'[s][p] \subseteq Parts[p]
    BY <2>2, <2>4
  <2>7. HeldAreParts'
    BY <2>2, <2>3, <2>6 DEF HeldAreParts
  <2>8. \A c \in records'[s] : IsCandidate(c)
    BY <2>2, <2>5
  <2>9. QED BY <2>2, <2>7, <2>8
<1>3. QED BY <1>1, <1>2 DEF FeedsHeader

LEMMA UnnumberedAreCandidates ==
  ASSUME HeldAreParts, NEW s \in Scanners, NEW c \in Unnumbered(s)
  PROVE  IsCandidate(c)
  BY DEF Unnumbered, Groups, HeldAreParts, IsCandidate

(* No article is in two postings, and a numbered posting has one release.  *)
LEMMA SameArticleSameRelease ==
  ASSUME NEW c \in Candidate, NEW d \in Candidate, IsCandidate(c), IsCandidate(d),
         c.post \in Numbered, NEW n \in c.parts, n \in d.parts
  PROVE  c = d
<1>1. c.post = d.post
  BY ConstantsAssumption DEF IsCandidate
<1>2. c.parts = d.parts
  BY <1>1 DEF IsCandidate
<1>3. QED BY <1>1, <1>2 DEF Candidate

(* A transaction that stores candidates leaves no release half-way.        *)
LEMMA StoresWhole ==
  ASSUME WholeInv, NEW batch \in SUBSET Candidate, \A c \in batch : IsCandidate(c),
         Stores(batch)
  PROVE  /\ \A c \in releases' : IsCandidate(c)
         /\ OwnersInv'
         /\ ReleasesAreWhole'
<1> USE DEF WholeInv
<1>1. /\ releases' = releases \cup batch
      /\ releases' \subseteq Candidate
      /\ \A c \in releases' : IsCandidate(c)
  BY DEF Stores, CandidatesInv, TypeInv, TypeOK
<1> DEFINE Having(n) == {c \in batch \ releases : n \in c.parts}
<1>2. ASSUME NEW n \in Numbers
      PROVE  \/ owner'[n] = owner[n]
             \/ owner[n] = NoRelease /\ owner'[n] \in Having(n)
  <2>1. owner'[n] = IF owner[n] = NoRelease /\ \E c \in batch \ releases : n \in c.parts
                    THEN CHOOSE c \in batch \ releases : n \in c.parts
                    ELSE owner[n]
    BY DEF Stores
  <2>2. ASSUME \E c \in batch \ releases : n \in c.parts
        PROVE  (CHOOSE c \in batch \ releases : n \in c.parts) \in Having(n)
    BY <2>2
  <2>3. QED BY <2>1, <2>2
<1>3. OwnersInv'
  BY <1>1, <1>2 DEF OwnersInv
<1>4. ASSUME NEW c \in releases', c.post \in Numbered, NEW n \in c.parts
      PROVE  owner'[n] = c
  <2>1. n \in Numbers /\ IsCandidate(c) /\ c \in Candidate
    BY <1>1, <1>4 DEF Candidate
  <2>2. CASE c \in releases
    <3>1. owner[n] = c
      BY <1>4, <2>2 DEF ReleasesAreWhole
    <3>2. c # NoRelease
      BY <1>4 DEF NoRelease
    <3>3. QED BY <1>2, <2>1, <3>1, <3>2
  <2>3. CASE c \notin releases
    <3>1. owner[n] = NoRelease
      <4>1. SUFFICES ASSUME owner[n] # NoRelease PROVE FALSE
        OBVIOUS
      <4>2. owner[n] \in releases /\ n \in owner[n].parts
        BY <2>1, <4>1 DEF OwnersInv
      <4>3. owner[n] = c
        BY <1>1, <1>4, <2>1, <4>2, SameArticleSameRelease
      <4>4. QED BY <2>3, <4>2, <4>3
    <3>2. c \in Having(n)
      BY <1>1, <1>4, <2>3
    <3>3. owner'[n] \in Having(n)
      <4>1. owner'[n] = CHOOSE d \in batch \ releases : n \in d.parts
        BY <2>1, <3>1, <3>2 DEF Stores
      <4>2. QED BY <3>2, <4>1
    <3>4. QED BY <1>1, <1>4, <2>1, <3>3, SameArticleSameRelease
  <2>4. QED BY <2>2, <2>3
<1>5. QED BY <1>1, <1>3, <1>4 DEF ReleasesAreWhole

(* What a step does to the candidates of all scanners.                     *)
LEMMA CandidatesOfStep ==
  ASSUME WholeInv, NEW s \in Scanners, ReadsCheckpoint(s) \/ ScanStep(s) \/ Fails(s)
  PROVE  /\ HeldAreParts'
         /\ \A t \in Scanners : \A c \in records'[t] : IsCandidate(c)
         /\ \/ UNCHANGED <<releases, owner>>
            \/ \E batch \in SUBSET records[s] : Stores(batch)
<1> USE DEF WholeInv, CandidatesInv, TypeInv, TypeOK
<1>a. ASSUME UNCHANGED pending PROVE HeldAreParts'
  BY <1>a DEF HeldAreParts
<1>1. CASE ReadsCheckpoint(s) \/ ChoosesWindow(s) \/ FetchesOverview(s) \/ OpensCommit(s)
  BY <1>1, <1>a DEF ReadsCheckpoint, ChoosesWindow, FetchesOverview, OpensCommit
<1>2. CASE \/ FindsNothingNew(s) \/ OverviewIsRefused(s) \/ RefusesCommit(s) \/ Returns(s)
           \/ Fails(s)
  <2>1. Leaves(s) /\ UNCHANGED <<releases, owner>>
    BY <1>2 DEF FindsNothingNew, OverviewIsRefused, RefusesCommit, Returns, Fails
  <2>2. HeldAreParts'
    BY <2>1 DEF Leaves, Nothing, HeldAreParts
  <2>3. QED BY <2>1, <2>2 DEF Leaves
<1>4. CASE FeedsHeader(s)
  <2>1. /\ HeldAreParts'
        /\ \A c \in records'[s] : IsCandidate(c)
        /\ \A t \in Scanners \ {s} : records'[t] = records[t]
    BY <1>4, FedAreCandidates
  <2>2. \A t \in Scanners : \A c \in records'[t] : IsCandidate(c)
    BY <2>1
  <2>3. QED BY <1>4, <2>1, <2>2 DEF FeedsHeader
<1>5. CASE CommitsFullBatch(s)
  BY <1>5, <1>a DEF CommitsFullBatch
<1>6. CASE Commits(s)
  BY <1>6, <1>a, UnnumberedAreCandidates DEF Commits
<1>7. CASE CommitsUnnumbered(s)
  BY <1>7, <1>a DEF CommitsUnnumbered
<1>8. QED BY <1>1, <1>2, <1>4, <1>5, <1>6, <1>7 DEF ScanStep

LEMMA WholeInductive ==
  ASSUME WholeInv, [Next]_vars
  PROVE  WholeInv'
<1>1. TypeInv'
  BY TypeInductive DEF WholeInv
<1>2. CASE UNCHANGED vars \/ Posted \/ Expires
  <2>1. UNCHANGED <<releases, owner, pending, records>>
    BY <1>2 DEF Posted, Expires
  <2>2. QED BY <1>1, <2>1 DEF WholeInv, CandidatesInv, HeldAreParts, OwnersInv, ReleasesAreWhole
<1>3. ASSUME NEW s \in Scanners, ReadsCheckpoint(s) \/ ScanStep(s) \/ Fails(s)
      PROVE  WholeInv'
  <2>1. HeldAreParts' /\ \A t \in Scanners : \A c \in records'[t] : IsCandidate(c)
    BY <1>3, CandidatesOfStep
  <2>2. CASE UNCHANGED <<releases, owner>>
    BY <1>1, <2>1, <2>2 DEF WholeInv, CandidatesInv, OwnersInv, ReleasesAreWhole
  <2>3. ASSUME NEW batch \in SUBSET records[s], Stores(batch) PROVE WholeInv'
    <3>1. batch \in SUBSET Candidate /\ \A c \in batch : IsCandidate(c)
      BY DEF WholeInv, CandidatesInv, TypeInv, TypeOK
    <3>2. QED BY <1>1, <2>1, <2>3, <3>1, StoresWhole DEF WholeInv, CandidatesInv
  <2>4. QED BY <1>3, <2>2, <2>3, CandidatesOfStep
<1>4. QED BY <1>2, <1>3 DEF Next

(* However scans overlap, fail and are repeated, a numbered release owns   *)
(* all of its articles.                                                    *)
THEOREM ReleasesStayWhole == Spec => []ReleasesAreWhole
<1>1. Init => WholeInv
  BY TypeInit DEF Init, Nothing, WholeInv, CandidatesInv, HeldAreParts, OwnersInv, ReleasesAreWhole
<1>2. WholeInv => ReleasesAreWhole
  BY DEF WholeInv
<1>3. QED BY <1>1, <1>2, WholeInductive, PTL DEF Spec

-----------------------------------------------------------------------------
(* Indexing.  The grouper holds of a subject only what was fed, its last   *)
(* article included, and all that was fed if the subject fits; a numbered  *)
(* posting that fits and was fed completely is among the candidates or     *)
(* indexed; a window's unnumbered ones wait for the flush.                 *)

CandidateOf(p) == [post |-> p, parts |-> Parts[p]]
PieceOf(p, got) == [post |-> p, parts |-> Parts[p] \cap got]

Fed(s) == {m \in rows[s] : m < next[s]}

(* A posting is kept together in a window: the grouper has room for it,    *)
(* and all of it is there if it is numbered.                               *)
Keeps(p, seen) == Fits(p, seen) /\ (p \in Numbered => Parts[p] \subseteq seen)

HoldsOf(s, p) ==
  /\ pending[s][p] \subseteq Parts[p] \cap Fed(s)
  /\ pending[s][p] # {} =>
       /\ \E m \in pending[s][p] : \A k \in Parts[p] \cap Fed(s) : k <= m
       /\ p \in Numbered => pending[s][p] # Parts[p]
  /\ Keeps(p, rows[s]) =>
       \/ pending[s][p] = Parts[p] \cap Fed(s)
       \/ p \in Numbered /\ Parts[p] \subseteq Fed(s) /\ pending[s][p] = {}

GrouperOf(s) ==
  IF pc[s] \in {"feed", "commit", "flush"}
  THEN \A p \in Posts : HoldsOf(s, p)
  ELSE pending[s] = Nothing

KeptOf(s) ==
  pc[s] \in {"feed", "commit"} =>
    \A p \in Accepted \cap Numbered :
      Parts[p] # {} /\ Parts[p] \subseteq Fed(s) /\ Fits(p, rows[s])
        => CandidateOf(p) \in records[s] \cup releases

WindowOf(s) ==
  /\ pc[s] \in {"feed", "commit", "flush"} => rows[s] \subseteq from[s]..to[s]
  /\ pc[s] = "commit" => next[s] > to[s]

CallsInv == \A s \in Scanners : WindowOf(s) /\ GrouperOf(s) /\ KeptOf(s)

NumberedIndexed ==
  \A w \in scanned, p \in Accepted \cap Numbered :
    Parts[p] # {} /\ Parts[p] \subseteq w.rows /\ Fits(p, w.rows) => CandidateOf(p) \in releases

UnnumberedKept ==
  failures = 0 =>
    \A w \in scanned, p \in Accepted \ Numbered :
      Parts[p] \cap w.rows # {} /\ Fits(p, w.rows) =>
        \/ PieceOf(p, w.rows) \in releases
        \/ \E s \in Scanners : pc[s] = "flush" /\ PieceOf(p, w.rows) \in records[s]

IndexInv == TypeInv /\ CallsInv /\ NumberedIndexed /\ UnnumberedKept

(* A full grouper evicts no posting that it keeps together: the groups it  *)
(* holds, and the new one, would all lie between two of its articles.      *)
LEMMA NoKeptGroupIsEvicted ==
  ASSUME TypeOK, NEW s \in Scanners, \A r \in Posts : HoldsOf(s, r),
         NEW p \in Posts, next[s] \in Parts[p] \cap rows[s], p \notin Groups(s),
         Cardinality(Groups(s)) >= MaxPending,
         NEW q \in Posts, IsOldest(s, q)
  PROVE  ~Keeps(q, rows[s])
<1> SUFFICES ASSUME Keeps(q, rows[s]) PROVE FALSE
  OBVIOUS
<1> DEFINE n == next[s]
           H == Groups(s)
<1>1. /\ q \in H /\ p \notin H /\ q # p
      /\ \A r \in H : \E m \in pending[s][r] : \A k \in pending[s][q] : k <= m
  BY DEF IsOldest
<1>2. \A r \in H : r \in Posts /\ pending[s][r] # {}
  BY DEF Groups
<1>3. \A a, b \in Posts : a # b => Parts[a] \cap Parts[b] = {}
  BY ConstantsAssumption
<1>4. n \in Nat /\ rows[s] \subseteq Nat
  BY DEF TypeOK, Numbers
<1>5. PICK m \in pending[s][q] : \A k \in Parts[q] \cap Fed(s) : k <= m
  BY <1>1, <1>2 DEF HoldsOf
<1>6. m \in Parts[q] /\ m \in rows[s] /\ m \in Nat /\ m < n
  BY <1>4, <1>5 DEF HoldsOf, Fed
<1>7. ASSUME NEW j \in Parts[q] \cap rows[s], m < j PROVE j \in Nat /\ j > n
  <2>1. j \in Nat /\ j # n
    BY <1>1, <1>3, <1>4, <1>7
  <2>2. ~(j < n)
    BY <1>4, <1>5, <1>6, <1>7, <2>1 DEF Fed
  <2>3. QED BY <1>4, <2>1, <2>2
<1> DEFINE B == Between(q, m, rows[s])
<1>8. ASSUME NEW r \in H \ {q} PROVE r \in B
  <2>1. PICK k \in pending[s][r] : \A i \in pending[s][q] : i <= k
    BY <1>1, <1>8
  <2>2. k \in Parts[r] /\ k \in rows[s] /\ k \in Nat /\ k < n
    BY <1>2, <1>4, <1>8, <2>1 DEF HoldsOf, Fed
  <2>3. k # m
    BY <1>2, <1>3, <1>6, <1>8, <2>2
  <2>4. m < k
    BY <1>5, <1>6, <2>1, <2>2, <2>3
  <2>5. \A j \in Parts[q] \cap rows[s] : m < j => k < j
    BY <1>4, <1>7, <2>2
  <2>6. r \in Posts \ {q}
    BY <1>2, <1>8
  <2>7. QED BY <2>2, <2>4, <2>5, <2>6 DEF Between
<1>9. p \in B
  <2>1. n \in Parts[p] \cap rows[s] /\ m < n /\ \A j \in Parts[q] \cap rows[s] : m < j => n < j
    BY <1>6, <1>7
  <2>2. QED BY <1>1, <2>1 DEF Between
<1>10. IsFiniteSet(Posts) /\ B \subseteq Posts /\ H \subseteq Posts
  BY ConstantsAssumption DEF Between, Groups
<1>11. /\ IsFiniteSet(H) /\ IsFiniteSet(B)
       /\ Cardinality(H) \in Nat /\ Cardinality(B) \in Nat
  BY <1>10, FS_Subset, FS_CardinalityType
<1>12. /\ IsFiniteSet(H \ {q}) /\ Cardinality(H \ {q}) = Cardinality(H) - 1
  BY <1>1, <1>11, FS_RemoveElement
<1>13. p \notin H \ {q}
  BY <1>1
<1>14. /\ IsFiniteSet((H \ {q}) \cup {p})
       /\ Cardinality((H \ {q}) \cup {p}) = Cardinality(H \ {q}) + 1
  BY <1>12, <1>13, FS_AddElement
<1>15. (H \ {q}) \cup {p} \subseteq B
  BY <1>8, <1>9
<1>16. Cardinality((H \ {q}) \cup {p}) <= Cardinality(B)
  BY <1>11, <1>15, FS_Subset
<1>17. Cardinality(B) >= MaxPending
  <2>1. Cardinality((H \ {q}) \cup {p}) = Cardinality(H)
    BY <1>11, <1>12, <1>14
  <2>2. MaxPending \in Nat
    BY ConstantsAssumption
  <2>3. QED BY <1>11, <1>16, <2>1, <2>2
<1>18. q \in Numbered => \E j \in Parts[q] : m < j
  <2> SUFFICES ASSUME q \in Numbered PROVE \E j \in Parts[q] : m < j
    OBVIOUS
  <2>1. pending[s][q] # {} /\ pending[s][q] # Parts[q]
    BY <1>1, <1>2 DEF HoldsOf
  <2>2. pending[s][q] = Parts[q] \cap Fed(s)
    BY <2>1 DEF HoldsOf
  <2>3. PICK j \in Parts[q] : j \notin Fed(s)
    BY <2>1, <2>2
  <2>4. j \in rows[s]
    BY DEF Keeps
  <2>5. j \in Nat /\ ~(j < n)
    BY <1>4, <2>3, <2>4 DEF Fed
  <2>6. QED BY <1>4, <1>6, <2>5
<1>19. Cardinality(B) < MaxPending
  BY <1>6, <1>18 DEF Keeps, Fits
<1>20. QED BY <1>11, <1>17, <1>19, ConstantsAssumption

(* Room is made for a header without touching the group it belongs to, and *)
(* never at the cost of a posting that is kept together.                   *)
LEMMA RoomIsHarmless ==
  ASSUME TypeOK, NEW s \in Scanners, \A r \in Posts : HoldsOf(s, r),
         NEW p \in Posts, next[s] \in Parts[p] \cap rows[s],
         NEW room \in MakesRoom(s, p)
  PROVE  /\ room[p] = pending[s][p]
         /\ \A q \in Posts : Keeps(q, rows[s]) => room[q] = pending[s][q]
<1>1. pending[s] \in [Posts -> SUBSET Numbers]
  BY DEF TypeOK
<1>2. CASE room = pending[s]
  BY <1>2
<1>3. ASSUME p \notin Groups(s), ~(Cardinality(Groups(s)) < MaxPending),
             NEW q \in Posts, IsOldest(s, q), room = [pending[s] EXCEPT ![q] = {}]
      PROVE  /\ room[p] = pending[s][p]
             /\ \A r \in Posts : Keeps(r, rows[s]) => room[r] = pending[s][r]
  <2>1. Cardinality(Groups(s)) \in Nat /\ MaxPending \in Nat
    <3>1. IsFiniteSet(Posts) /\ Groups(s) \subseteq Posts
      BY ConstantsAssumption DEF Groups
    <3>2. IsFiniteSet(Groups(s))
      BY <3>1, FS_Subset
    <3>3. QED BY <3>2, FS_CardinalityType, ConstantsAssumption
  <2>2. Cardinality(Groups(s)) >= MaxPending
    BY <1>3, <2>1
  <2>3. ~Keeps(q, rows[s])
    BY <1>3, <2>2, NoKeptGroupIsEvicted
  <2>4. q # p
    BY <1>3 DEF IsOldest
  <2>5. \A r \in Posts : r # q => room[r] = pending[s][r]
    BY <1>1, <1>3
  <2>6. QED BY <2>3, <2>4, <2>5
<1>4. QED BY <1>2, <1>3 DEF MakesRoom

(* A header keeps the grouper and the candidates true.                     *)
LEMMA FeedKeepsAll ==
  ASSUME TypeOK, NEW s \in Scanners, GrouperOf(s), KeptOf(s), FeedsHeader(s)
  PROVE  GrouperOf(s)' /\ KeptOf(s)'
<1>1. /\ pc[s] = "feed" /\ pc'[s] = "feed" /\ next'[s] = next[s] + 1
      /\ rows'[s] = rows[s] /\ releases' = releases
  BY DEF FeedsHeader, TypeOK
<1>2. \A r \in Posts : HoldsOf(s, r)
  BY <1>1 DEF GrouperOf
<1> DEFINE n == next[s]
<1>3. n \in Numbers \cup {LastNumber + 1} /\ n \in Nat /\ rows[s] \subseteq Nat
  BY ConstantsAssumption DEF TypeOK, Numbers
<1>4. Fed(s)' = IF n \in rows[s] THEN Fed(s) \cup {n} ELSE Fed(s)
  <2>1. Fed(s)' = {m \in rows[s] : m < n + 1}
    BY <1>1 DEF Fed
  <2>2. \A m \in rows[s] : m < n + 1 <=> m < n \/ m = n
    BY <1>3
  <2>3. QED BY <2>1, <2>2 DEF Fed
<1>5. n \notin Fed(s)
  BY <1>3 DEF Fed
<1>6. \A r \in Posts : /\ Fits(r, rows[s])' = Fits(r, rows[s])
                       /\ Keeps(r, rows[s])' = Keeps(r, rows[s])
  BY <1>1 DEF Fits, Between, Keeps
<1>7. SUFFICES /\ \A r \in Posts : HoldsOf(s, r)'
               /\ \A r \in Accepted \cap Numbered :
                    Parts[r] # {} /\ Parts[r] \subseteq Fed(s)' /\ Fits(r, rows[s])
                      => CandidateOf(r) \in records'[s] \cup releases
  BY <1>1, <1>6 DEF GrouperOf, KeptOf, CandidateOf
(* A subject no article of which is fed, and that is not evicted.          *)
<1>8. ASSUME NEW r \in Posts, n \notin Parts[r] \cap rows[s],
             \/ pending'[s][r] = pending[s][r]
             \/ pending'[s][r] = {} /\ ~Keeps(r, rows[s])
      PROVE  HoldsOf(s, r)'
  <2>1. Parts[r] \cap Fed(s)' = Parts[r] \cap Fed(s)
    BY <1>4, <1>8
  <2>2. Parts[r] \subseteq Fed(s) => Parts[r] \subseteq Fed(s)'
    BY <1>4
  <2>3. HoldsOf(s, r) /\ Keeps(r, rows[s])' = Keeps(r, rows[s])
    BY <1>2, <1>6
  <2>4. QED BY <1>8, <2>1, <2>2, <2>3 DEF HoldsOf
<1>9. ASSUME NEW r \in Accepted \cap Numbered, n \notin Parts[r] \cap rows[s],
             Parts[r] # {}, Parts[r] \subseteq Fed(s)', Fits(r, rows[s])
      PROVE  CandidateOf(r) \in records[s] \cup releases
  <2>1. Parts[r] \subseteq Fed(s)
    BY <1>4, <1>9
  <2>2. QED BY <1>1, <1>9, <2>1 DEF KeptOf
<1>10. CASE /\ \A p \in Posts : n \notin Parts[p] \cap rows[s]
            /\ UNCHANGED <<pending, records>>
  <2>1. Accepted \subseteq Posts
    BY ConstantsAssumption
  <2>2. QED BY <1>8, <1>9, <1>10, <2>1
<1>11. ASSUME NEW p \in Posts, n \in Parts[p] \cap rows[s],
              NEW room \in MakesRoom(s, p), TakesHeader(s, p, n, room)
       PROVE  /\ \A r \in Posts : HoldsOf(s, r)'
              /\ \A r \in Accepted \cap Numbered :
                   Parts[r] # {} /\ Parts[r] \subseteq Fed(s)' /\ Fits(r, rows[s])
                     => CandidateOf(r) \in records'[s] \cup releases
  <2>0. PICK parts : parts = room[p] \cup {n}
    OBVIOUS
  <2> DEFINE complete == p \in Numbered /\ parts = Parts[p]
  <2>1. /\ n \in Numbers
        /\ room \in [Posts -> SUBSET Numbers]
        /\ \A q \in Posts : room[q] = pending[s][q] \/ room[q] = {}
    BY <1>11, RoomKeeps DEF TypeOK
  <2>2. /\ room[p] = pending[s][p]
        /\ \A q \in Posts : Keeps(q, rows[s]) => room[q] = pending[s][q]
    BY <1>2, <1>11, RoomIsHarmless
  <2>3. /\ pending'[s][p] = IF complete THEN {} ELSE parts
        /\ \A q \in Posts \ {p} : pending'[s][q] = room[q]
        /\ records'[s] = IF complete /\ p \in Accepted
                       THEN records[s] \cup {[post |-> p, parts |-> parts]}
                       ELSE records[s]
    <3>1. HeaderEffect(s, p, n, room)
      BY <1>11, <2>1, HeaderDoes
    <3>2. QED BY <2>0, <3>1 DEF HeaderEffect
  <2>4. parts = pending[s][p] \cup {n}
    BY <2>0, <2>2
  <2>5. \A r \in Posts \ {p} : n \notin Parts[r]
    BY <1>11, ConstantsAssumption
  <2>6. ASSUME NEW r \in Posts \ {p} PROVE HoldsOf(s, r)'
    <3>1. n \notin Parts[r] \cap rows[s]
      BY <2>5
    <3>2. \/ pending'[s][r] = pending[s][r]
          \/ pending'[s][r] = {} /\ ~Keeps(r, rows[s])
      BY <2>1, <2>2, <2>3
    <3>3. QED BY <1>8, <3>1, <3>2
  <2>7. Fed(s)' = Fed(s) \cup {n}
    BY <1>4, <1>11
  <2>8. parts \subseteq Parts[p] \cap Fed(s)'
    BY <1>2, <1>11, <2>4, <2>7 DEF HoldsOf
  <2>9. Keeps(p, rows[s]) => parts = Parts[p] \cap Fed(s)'
    <3>1. Keeps(p, rows[s]) => pending[s][p] = Parts[p] \cap Fed(s)
      BY <1>2, <1>5, <1>11 DEF HoldsOf
    <3>2. QED BY <1>11, <2>4, <2>7, <3>1
  <2>10. HoldsOf(s, p)'
    <3>1. pending'[s][p] \subseteq Parts[p] \cap Fed(s)'
      BY <2>3, <2>8
    <3>2. ASSUME pending'[s][p] # {}
          PROVE  /\ \E m \in pending'[s][p] : \A k \in Parts[p] \cap Fed(s)' : k <= m
                 /\ p \in Numbered => pending'[s][p] # Parts[p]
      <4>1. ~complete /\ pending'[s][p] = parts
        BY <2>3, <3>2
      <4>2. n \in parts
        BY <2>4
      <4>3. \A k \in Fed(s)' : k <= n
        BY <1>3, <2>7 DEF Fed
      <4>4. \E m \in parts : \A k \in Parts[p] \cap Fed(s)' : k <= m
        BY <4>2, <4>3
      <4>5. QED BY <4>1, <4>4
    <3>3. ASSUME Keeps(p, rows[s])
          PROVE  \/ pending'[s][p] = Parts[p] \cap Fed(s)'
                 \/ p \in Numbered /\ Parts[p] \subseteq Fed(s)' /\ pending'[s][p] = {}
      <4>1. parts = Parts[p] \cap Fed(s)'
        BY <2>9, <3>3
      <4>2. CASE complete
        BY <2>3, <4>1, <4>2
      <4>3. CASE ~complete
        BY <2>3, <4>1, <4>3
      <4>4. QED BY <4>2, <4>3
    <3>4. Keeps(p, rows[s])' = Keeps(p, rows[s])
      BY <1>6
    <3>5. QED BY <3>1, <3>2, <3>3, <3>4 DEF HoldsOf
  <2>11. ASSUME NEW r \in Accepted \cap Numbered, Parts[r] # {}, Parts[r] \subseteq Fed(s)',
                Fits(r, rows[s])
         PROVE  CandidateOf(r) \in records'[s] \cup releases
    <3>1. CASE r # p
      <4>1. r \in Posts \ {p}
        BY <3>1, ConstantsAssumption
      <4>2. n \notin Parts[r] \cap rows[s]
        BY <2>5, <4>1
      <4>3. CandidateOf(r) \in records[s] \cup releases
        BY <1>9, <2>11, <4>2
      <4>4. QED BY <2>3, <4>3
    <3>2. CASE r = p
      <4>1. Keeps(p, rows[s])
        BY <1>11, <2>7, <2>11, <3>2 DEF Keeps, Fed
      <4>2. parts = Parts[p]
        BY <2>9, <2>11, <3>2, <4>1
      <4>3. complete /\ p \in Accepted
        BY <3>2, <4>2
      <4>4. QED BY <2>3, <3>2, <4>2, <4>3 DEF CandidateOf
    <3>3. QED BY <3>1, <3>2
  <2>12. QED BY <2>6, <2>10, <2>11
<1>12. QED BY <1>10, <1>11 DEF FeedsHeader

(* What a step of s leaves as it is.                                       *)
LEMMA ScanFrame ==
  ASSUME TypeInv, NEW s \in Scanners, ReadsCheckpoint(s) \/ ScanStep(s) \/ Fails(s)
  PROVE  /\ \A t \in Scanners \ {s} :
              /\ pc'[t] = pc[t] /\ known'[t] = known[t]
              /\ from'[t] = from[t] /\ to'[t] = to[t] /\ next'[t] = next[t]
              /\ rows'[t] = rows[t] /\ records'[t] = records[t] /\ locked'[t] = locked[t]
              /\ pending'[t] = pending[t]
         /\ releases \subseteq releases'
         /\ UNCHANGED server
         /\ ~Commits(s) => scanned' = scanned /\ checkpoint' = checkpoint
         /\ IF Fails(s) THEN failures' > 0 ELSE failures' = failures
<1> USE DEF TypeInv, TypeOK
<1>1. CASE ReadsCheckpoint(s)
  BY <1>1 DEF ReadsCheckpoint, Fails, Commits
<1>2. CASE ChoosesWindow(s)
  BY <1>2 DEF ChoosesWindow, Fails, Commits
<1>3. CASE FindsNothingNew(s)
  BY <1>3 DEF FindsNothingNew, Leaves, Fails, Commits
<1>4. CASE FetchesOverview(s)
  BY <1>4 DEF FetchesOverview, Fails, Commits
<1>a. CASE OverviewIsRefused(s)
  BY <1>a DEF OverviewIsRefused, Leaves, Fails, Commits
<1>5. CASE FeedsHeader(s)
  <2>1. /\ pc' = pc /\ UNCHANGED <<server, store, known, from, to, rows, locked, failures>>
        /\ next' = [next EXCEPT ![s] = @ + 1]
        /\ pc[s] = "feed"
    BY <1>5 DEF FeedsHeader
  <2>2. \A t \in Scanners \ {s} : pending'[t] = pending[t] /\ records'[t] = records[t]
    <3>1. CASE UNCHANGED <<pending, records>>
      BY <3>1
    <3>2. ASSUME NEW n, n = next[s], NEW p \in Posts, n \in Parts[p] \cap rows[s],
                 NEW room \in MakesRoom(s, p), TakesHeader(s, p, n, room)
          PROVE  \A t \in Scanners \ {s} : pending'[t] = pending[t] /\ records'[t] = records[t]
      <4>1. n \in Numbers /\ room \in [Posts -> SUBSET Numbers]
        BY <3>2, RoomKeeps
      <4>2. HeaderEffect(s, p, n, room)
        BY <3>2, <4>1, HeaderDoes
      <4>3. QED BY <4>2 DEF HeaderEffect
    <3>3. QED BY <1>5, <3>1, <3>2 DEF FeedsHeader
  <2>3. ~Fails(s) /\ ~Commits(s)
    BY <2>1 DEF Fails, Commits
  <2>4. QED BY <2>1, <2>2, <2>3
<1>6. CASE CommitsFullBatch(s)
  BY <1>6 DEF CommitsFullBatch, Stores, Fails, Commits
<1>7. CASE OpensCommit(s)
  BY <1>7 DEF OpensCommit, Fails, Commits
<1>8. CASE RefusesCommit(s)
  BY <1>8 DEF RefusesCommit, Leaves, Fails, Commits
<1>9. CASE Commits(s)
  BY <1>9 DEF Commits, Stores, Fails
<1>10. CASE CommitsUnnumbered(s)
  BY <1>10 DEF CommitsUnnumbered, Stores, Fails, Commits
<1>11. CASE Returns(s)
  BY <1>11 DEF Returns, Leaves, Fails, Commits
<1>12. CASE Fails(s)
  BY <1>12 DEF Leaves, Fails, Commits
<1>13. QED
  BY <1>1, <1>2, <1>3, <1>4, <1>a, <1>5, <1>6, <1>7, <1>8, <1>9, <1>10, <1>11, <1>12 DEF ScanStep

LEMMA IndexScan ==
  ASSUME IndexInv, NEW s \in Scanners, ReadsCheckpoint(s) \/ ScanStep(s) \/ Fails(s)
  PROVE  IndexInv'
<1>a. TypeInv /\ TypeInv'
  BY TypeScan DEF IndexInv
<1>b. WindowOf(s) /\ GrouperOf(s) /\ KeptOf(s)
  BY DEF IndexInv, CallsInv
(* The other scanners keep what they have.                                 *)
<1>2. ASSUME NEW t \in Scanners \ {s}
      PROVE  WindowOf(t)' /\ GrouperOf(t)' /\ KeptOf(t)'
  <2>1. /\ pc'[t] = pc[t] /\ from'[t] = from[t] /\ to'[t] = to[t] /\ next'[t] = next[t]
        /\ rows'[t] = rows[t] /\ records'[t] = records[t] /\ pending'[t] = pending[t]
        /\ releases \subseteq releases'
    BY <1>a, ScanFrame
  <2>2. WindowOf(t) /\ GrouperOf(t) /\ KeptOf(t)
    BY DEF IndexInv, CallsInv
  <2>3. WindowOf(t)'
    BY <2>1, <2>2 DEF WindowOf
  <2>4. /\ Fed(t)' = Fed(t)
        /\ \A p \in Posts : Fits(p, rows[t])' = Fits(p, rows[t])
    BY <2>1 DEF Fed, Fits, Between
  <2>5. \A p \in Posts : HoldsOf(t, p)' = HoldsOf(t, p)
    BY <2>1, <2>4 DEF HoldsOf, Keeps
  <2>6. GrouperOf(t)'
    BY <2>1, <2>2, <2>5 DEF GrouperOf
  <2>7. KeptOf(t)'
    BY <2>1, <2>2, <2>4, ConstantsAssumption DEF KeptOf, CandidateOf
  <2>8. QED BY <2>3, <2>6, <2>7
<1>3. ASSUME WindowOf(s)', GrouperOf(s)', KeptOf(s)'
      PROVE  CallsInv'
  BY <1>2, <1>3 DEF CallsInv
(* Nothing leaves the candidates of a flush but into the releases.         *)
<1>4. ASSUME ~Commits(s),
             pc[s] = "flush" /\ failures' = 0 =>
               \A c \in records[s] :
                 c \in releases' \/ (pc'[s] = "flush" /\ c \in records'[s])
      PROVE  NumberedIndexed' /\ UnnumberedKept'
  <2>1. scanned' = scanned /\ releases \subseteq releases'
    BY <1>a, <1>4, ScanFrame
  <2>a. NumberedIndexed /\ UnnumberedKept
    BY DEF IndexInv
  <2>2. NumberedIndexed'
    BY <2>1, <2>a DEF NumberedIndexed, CandidateOf, Fits, Between
  <2>3. SUFFICES ASSUME failures' = 0, NEW w \in scanned, NEW p \in Accepted \ Numbered,
                        Parts[p] \cap w.rows # {}, Fits(p, w.rows)
                 PROVE  \/ PieceOf(p, w.rows) \in releases'
                        \/ \E t \in Scanners : pc'[t] = "flush" /\ PieceOf(p, w.rows) \in records'[t]
    BY <2>1, <2>2 DEF UnnumberedKept, PieceOf, Fits, Between
  <2>4. failures = 0
    BY <1>a, <2>3, ScanFrame DEF TypeInv, TypeOK
  <2>5. CASE PieceOf(p, w.rows) \in releases
    BY <2>1, <2>5
  <2>6. ASSUME NEW t \in Scanners, pc[t] = "flush", PieceOf(p, w.rows) \in records[t]
        PROVE  \/ PieceOf(p, w.rows) \in releases'
               \/ \E u \in Scanners : pc'[u] = "flush" /\ PieceOf(p, w.rows) \in records'[u]
    <3>1. CASE t = s
      BY <1>4, <2>3, <2>6, <3>1
    <3>2. CASE t # s
      BY <1>a, <2>6, <3>2, ScanFrame
    <3>3. QED BY <3>1, <3>2
  <2>7. QED BY <2>3, <2>4, <2>5, <2>6, <2>a DEF UnnumberedKept
<1>5. CASE \/ FindsNothingNew(s) \/ OverviewIsRefused(s) \/ RefusesCommit(s) \/ Returns(s)
           \/ Fails(s)
  <2>1. /\ Leaves(s) /\ ~Commits(s)
        /\ pc[s] = "flush" /\ failures' = 0 => records[s] = {}
    BY <1>5, <1>a DEF FindsNothingNew, OverviewIsRefused, RefusesCommit, Returns, Fails, Commits,
       TypeInv, TypeOK
  <2>2. pc'[s] = "idle" /\ pending'[s] = Nothing
    BY <1>a, <2>1 DEF Leaves, TypeInv, TypeOK
  <2>3. WindowOf(s)' /\ GrouperOf(s)' /\ KeptOf(s)'
    BY <2>2 DEF WindowOf, GrouperOf, KeptOf, Nothing
  <2>4. NumberedIndexed' /\ UnnumberedKept'
    BY <1>4, <2>1
  <2>5. QED BY <1>a, <1>3, <2>3, <2>4 DEF IndexInv
<1>6. CASE ReadsCheckpoint(s) \/ ChoosesWindow(s)
  <2>1. /\ pc[s] \in {"idle", "group"} /\ pc'[s] \in {"group", "overview"}
        /\ ~Commits(s) /\ pending' = pending
    BY <1>6, <1>a DEF ReadsCheckpoint, ChoosesWindow, Commits, TypeInv, TypeOK
  <2>2. WindowOf(s)' /\ GrouperOf(s)' /\ KeptOf(s)'
    BY <1>b, <2>1 DEF WindowOf, GrouperOf, KeptOf, Nothing
  <2>3. NumberedIndexed' /\ UnnumberedKept'
    BY <1>4, <2>1
  <2>4. QED BY <1>a, <1>3, <2>2, <2>3 DEF IndexInv
<1>7. CASE FetchesOverview(s)
  <2>1. /\ pc[s] = "overview" /\ pc'[s] = "feed" /\ ~Commits(s)
        /\ from'[s] = from[s] /\ to'[s] = to[s] /\ next'[s] = from[s]
        /\ rows'[s] \subseteq from[s]..to[s] /\ pending'[s] = pending[s]
    BY <1>7, <1>a DEF FetchesOverview, Overview, Commits, TypeInv, TypeOK
  <2>2. Fed(s)' = {}
    BY <1>a, <2>1 DEF Fed, TypeInv, TypeOK
  <2>3. \A p \in Posts : pending'[s][p] = {}
    BY <1>b, <2>1 DEF GrouperOf, Nothing
  <2>4. \A p \in Posts : HoldsOf(s, p)'
    BY <2>2, <2>3 DEF HoldsOf
  <2>5. WindowOf(s)' /\ GrouperOf(s)' /\ KeptOf(s)'
    BY <2>1, <2>2, <2>4 DEF WindowOf, GrouperOf, KeptOf
  <2>6. NumberedIndexed' /\ UnnumberedKept'
    BY <1>4, <2>1
  <2>7. QED BY <1>a, <1>3, <2>5, <2>6 DEF IndexInv
<1>8. CASE FeedsHeader(s)
  <2>1. /\ pc[s] = "feed" /\ pc'[s] = "feed" /\ ~Commits(s)
        /\ from'[s] = from[s] /\ to'[s] = to[s] /\ rows'[s] = rows[s]
    BY <1>8 DEF FeedsHeader, Commits
  <2>2. WindowOf(s)'
    BY <1>b, <2>1 DEF WindowOf
  <2>3. GrouperOf(s)' /\ KeptOf(s)'
    BY <1>8, <1>a, <1>b, FeedKeepsAll DEF TypeInv
  <2>4. NumberedIndexed' /\ UnnumberedKept'
    BY <1>4, <2>1
  <2>5. QED BY <1>a, <1>3, <2>2, <2>3, <2>4 DEF IndexInv
<1>9. CASE CommitsFullBatch(s) \/ OpensCommit(s)
  <2>1. /\ pc[s] = "feed" /\ pc'[s] \in {"feed", "commit"} /\ ~Commits(s)
        /\ pc'[s] = "commit" => next[s] > to[s]
        /\ from'[s] = from[s] /\ to'[s] = to[s] /\ rows'[s] = rows[s] /\ next'[s] = next[s]
        /\ pending'[s] = pending[s]
        /\ records[s] \cup releases \subseteq records'[s] \cup releases'
    BY <1>9, <1>a DEF CommitsFullBatch, OpensCommit, Stores, Commits, TypeInv, TypeOK
  <2>2. WindowOf(s)'
    BY <1>b, <2>1 DEF WindowOf
  <2>3. /\ Fed(s)' = Fed(s)
        /\ \A p \in Posts : Fits(p, rows[s])' = Fits(p, rows[s])
    BY <2>1 DEF Fed, Fits, Between
  <2>4. \A p \in Posts : HoldsOf(s, p)' = HoldsOf(s, p)
    BY <2>1, <2>3 DEF HoldsOf, Keeps
  <2>5. GrouperOf(s)'
    BY <1>b, <2>1, <2>4 DEF GrouperOf
  <2>6. KeptOf(s)'
    BY <1>b, <2>1, <2>3, ConstantsAssumption DEF KeptOf, CandidateOf
  <2>7. NumberedIndexed' /\ UnnumberedKept'
    BY <1>4, <2>1
  <2>8. QED BY <1>a, <1>3, <2>2, <2>5, <2>6, <2>7 DEF IndexInv
<1>10. CASE Commits(s)
  <2>1. /\ pc[s] = "commit" /\ pc'[s] = "flush"
        /\ from'[s] = from[s] /\ to'[s] = to[s] /\ rows'[s] = rows[s] /\ next'[s] = next[s]
        /\ failures' = failures /\ pending'[s] = pending[s]
        /\ releases' = releases \cup records[s]
        /\ scanned' = scanned \cup {Window(s)}
        /\ records'[s] = Unnumbered(s)
    BY <1>10, <1>a DEF Commits, Stores, TypeInv, TypeOK
  <2>2. /\ Fed(s)' = Fed(s)
        /\ \A p \in Posts : Fits(p, rows[s])' = Fits(p, rows[s])
    BY <2>1 DEF Fed, Fits, Between
  <2>3. \A p \in Posts : HoldsOf(s, p) /\ HoldsOf(s, p)' = HoldsOf(s, p)
    BY <1>b, <2>1, <2>2 DEF HoldsOf, Keeps, GrouperOf
  <2>4. WindowOf(s)' /\ GrouperOf(s)' /\ KeptOf(s)'
    BY <1>b, <2>1, <2>3 DEF WindowOf, GrouperOf, KeptOf
  <2>5. rows[s] = Fed(s)
    BY <1>a, <1>b, <2>1 DEF WindowOf, Fed, TypeInv, TypeOK
  <2>6. Window(s).rows = rows[s]
    BY DEF Window
  <2>7. ASSUME NEW p \in Accepted \cap Numbered, Parts[p] # {}, Parts[p] \subseteq rows[s],
               Fits(p, rows[s])
        PROVE  CandidateOf(p) \in releases'
    BY <1>b, <2>1, <2>5, <2>7 DEF KeptOf
  <2>8. NumberedIndexed'
    <3>1. NumberedIndexed
      BY DEF IndexInv
    <3>2. SUFFICES ASSUME NEW w \in scanned', NEW p \in Accepted \cap Numbered,
                          Parts[p] # {}, Parts[p] \subseteq w.rows, Fits(p, w.rows)
                   PROVE  CandidateOf(p) \in releases'
      BY DEF NumberedIndexed, CandidateOf, Fits, Between
    <3>3. CASE w \in scanned
      BY <2>1, <3>1, <3>2, <3>3 DEF NumberedIndexed
    <3>4. CASE w = Window(s)
      BY <2>6, <2>7, <3>2, <3>4
    <3>5. QED BY <2>1, <3>3, <3>4
  <2>9. ASSUME NEW p \in Accepted \ Numbered, Parts[p] \cap rows[s] # {}, Fits(p, rows[s])
        PROVE  PieceOf(p, rows[s]) \in records'[s]
    <3>1. p \in Posts
      BY ConstantsAssumption
    <3>2. Keeps(p, rows[s])
      BY <2>9 DEF Keeps
    <3>3. pending[s][p] = Parts[p] \cap rows[s]
      BY <2>3, <2>5, <2>9, <3>1, <3>2 DEF HoldsOf
    <3>4. p \in (Groups(s) \cap Accepted) \ Numbered
      BY <2>9, <3>1, <3>3 DEF Groups
    <3>5. QED BY <2>1, <3>3, <3>4 DEF Unnumbered, PieceOf
  <2>10. UnnumberedKept'
    <3>1. \A t \in Scanners \ {s} : pc'[t] = pc[t] /\ records'[t] = records[t]
      BY <1>a, ScanFrame
    <3>2. SUFFICES ASSUME failures' = 0, NEW w \in scanned', NEW p \in Accepted \ Numbered,
                          Parts[p] \cap w.rows # {}, Fits(p, w.rows)
                   PROVE  \/ PieceOf(p, w.rows) \in releases'
                          \/ \E t \in Scanners :
                               pc'[t] = "flush" /\ PieceOf(p, w.rows) \in records'[t]
      BY DEF UnnumberedKept, PieceOf, Fits, Between
    <3>3. CASE w \in scanned
      <4>1. \/ PieceOf(p, w.rows) \in releases
            \/ \E t \in Scanners : pc[t] = "flush" /\ PieceOf(p, w.rows) \in records[t]
        BY <2>1, <3>2, <3>3 DEF IndexInv, UnnumberedKept
      <4>2. QED BY <2>1, <3>1, <4>1
    <3>4. CASE w = Window(s)
      BY <2>1, <2>6, <2>9, <3>2, <3>4
    <3>5. QED BY <2>1, <3>3, <3>4
  <2>11. QED BY <1>a, <1>3, <2>4, <2>8, <2>10 DEF IndexInv
<1>11. CASE CommitsUnnumbered(s)
  <2>1. PICK batch \in SUBSET records[s] :
          Stores(batch) /\ records' = [records EXCEPT ![s] = @ \ batch]
    BY <1>11 DEF CommitsUnnumbered
  <2>2. /\ pc[s] = "flush" /\ pc'[s] = "flush" /\ ~Commits(s)
        /\ from'[s] = from[s] /\ to'[s] = to[s] /\ rows'[s] = rows[s] /\ next'[s] = next[s]
        /\ pending'[s] = pending[s]
        /\ releases' = releases \cup batch /\ records'[s] = records[s] \ batch
    BY <1>11, <1>a, <2>1 DEF CommitsUnnumbered, Stores, Commits, TypeInv, TypeOK
  <2>3. \A p \in Posts : HoldsOf(s, p)' = HoldsOf(s, p)
    BY <2>2 DEF HoldsOf, Keeps, Fits, Between, Fed
  <2>4. WindowOf(s)' /\ GrouperOf(s)' /\ KeptOf(s)'
    BY <1>b, <2>2, <2>3 DEF WindowOf, GrouperOf, KeptOf
  <2>5. NumberedIndexed' /\ UnnumberedKept'
    BY <1>4, <2>2
  <2>6. QED BY <1>a, <1>3, <2>4, <2>5 DEF IndexInv
<1>12. QED
  BY <1>5, <1>6, <1>7, <1>8, <1>9, <1>10, <1>11 DEF ScanStep

LEMMA IndexInductive == IndexInv /\ [Next]_vars => IndexInv'
<1>1. ASSUME IndexInv, UNCHANGED vars \/ Posted \/ Expires PROVE IndexInv'
  <2>1. UNCHANGED <<store, pc, call, failures>>
    BY <1>1 DEF Posted, Expires
  <2>2. TypeInv'
    BY <1>1, TypeInductive DEF IndexInv, Next
  <2>3. ASSUME NEW s \in Scanners PROVE WindowOf(s)' /\ GrouperOf(s)' /\ KeptOf(s)'
    <3>1. WindowOf(s) /\ GrouperOf(s) /\ KeptOf(s)
      BY <1>1 DEF IndexInv, CallsInv
    <3>2. Fed(s)' = Fed(s)
      BY <2>1 DEF Fed
    <3>3. \A p \in Posts : Fits(p, rows[s])' = Fits(p, rows[s])
      BY <2>1 DEF Fits, Between
    <3>4. \A p \in Posts : HoldsOf(s, p)' = HoldsOf(s, p)
      BY <2>1, <3>2, <3>3 DEF HoldsOf, Keeps
    <3>5. WindowOf(s)'
      BY <2>1, <3>1 DEF WindowOf
    <3>6. GrouperOf(s)'
      BY <2>1, <3>1, <3>4 DEF GrouperOf
    <3>7. KeptOf(s)'
      BY <2>1, <3>1, <3>2, <3>3, ConstantsAssumption DEF KeptOf, CandidateOf
    <3>8. QED BY <3>5, <3>6, <3>7
  <2>7. CallsInv'
    BY <2>3 DEF CallsInv
  <2>4. NumberedIndexed' /\ UnnumberedKept'
    BY <1>1, <2>1 DEF IndexInv, NumberedIndexed, UnnumberedKept, CandidateOf, PieceOf, Fits, Between
  <2>5. QED BY <2>2, <2>4, <2>7 DEF IndexInv
<1>2. QED BY <1>1, IndexScan DEF Next

(* What lies in a committed window and fits the grouper is indexed: its    *)
(* numbered audiobooks whatever happens, and while nothing fails its       *)
(* unnumbered ones as well.                                                *)
THEOREM CommittedWindowsAreIndexed == Spec => []WindowPostsAreIndexed
<1>1. Init => IndexInv
  <2> SUFFICES ASSUME Init PROVE IndexInv
    OBVIOUS
  <2>1. \A s \in Scanners : pc[s] = "idle" /\ pending[s] = Nothing
    BY DEF Init
  <2>2. CallsInv
    BY <2>1 DEF CallsInv, WindowOf, GrouperOf, KeptOf
  <2>3. scanned = {}
    BY DEF Init
  <2>4. QED BY TypeInit, <2>2, <2>3 DEF IndexInv, NumberedIndexed, UnnumberedKept
<1>2. IndexInv => WindowPostsAreIndexed
  BY DEF IndexInv, NumberedIndexed, UnnumberedKept, CandidateOf, PieceOf, WindowPostsAreIndexed
<1>3. QED BY <1>1, <1>2, IndexInductive, PTL DEF Spec

-----------------------------------------------------------------------------
(* Gaps.  A checkpoint, or the one a scanner read, is the end of a window  *)
(* that was committed; a scanner that read one begins right behind it, or  *)
(* where the server still has articles; and before all other windows there *)
(* was one of a first scan.                                                *)

EndOf(n) == \E u \in scanned : u.to = n

KnownInv ==
  /\ checkpoint # NoCheckpoint => EndOf(checkpoint)
  /\ \A s \in Scanners : known[s] # NoCheckpoint => EndOf(known[s])

Chosen == {"overview", "feed", "commit"}

StartInv ==
  \A s \in Scanners : pc[s] \in Chosen /\ known[s] # NoCheckpoint =>
    \A n \in Nat : known[s] < n /\ n < from[s] => n < low

FirstInv == scanned # {} => \E f \in scanned : f.known = NoCheckpoint

SkipInv == TypeInv /\ KnownInv /\ StartInv /\ FirstInv /\ NothingIsSkipped

(* A window that is committed leaves no gap to those before it.            *)
LEMMA CommitSkipsNothing ==
  ASSUME SkipInv, NEW s \in Scanners, Commits(s)
  PROVE  NothingIsSkipped'
<1> DEFINE new == Window(s)
<1>1. /\ pc[s] = "commit" /\ low' = low /\ scanned' = scanned \cup {new}
  BY DEF Commits
<1>2. new.known = known[s] /\ new.from = from[s] /\ new.to = to[s]
  BY DEF Window
<1> HIDE DEF new
<1>3. known[s] \in Nat /\ from[s] \in Nat /\ to[s] \in Nat /\ low \in Nat
  BY DEF SkipInv, TypeInv, TypeOK
<1>4. \A w \in scanned : w.from \in Nat /\ w.to \in Nat
  BY DEF SkipInv, TypeInv, TypeOK, Numbers
<1>5. SUFFICES ASSUME NEW w \in scanned', NEW v \in scanned', NEW n \in w.from..v.to,
                      ~(n < low),
                      \A u \in scanned' : u.known = NoCheckpoint => ~(n < u.from)
               PROVE  \E u \in scanned' : n \in u.from..u.to
  BY <1>1 DEF NothingIsSkipped
<1>6. n \in Nat /\ w.from <= n /\ n <= v.to
  BY <1>1, <1>2, <1>3, <1>4, <1>5
<1>7. CASE n \in from[s]..to[s]
  BY <1>1, <1>2, <1>7
<1>8. CASE n \notin from[s]..to[s]
  <2>1. \E a \in scanned : a.from <= n
    <3>1. CASE w \in scanned
      BY <1>6, <3>1
    <3>2. CASE w = new
      <4>1. n > to[s]
        BY <1>2, <1>3, <1>6, <1>8, <3>2
      <4>2. v \in scanned
        BY <1>1, <1>2, <1>3, <1>6, <4>1
      <4>3. PICK f \in scanned : f.known = NoCheckpoint
        BY <4>2 DEF SkipInv, FirstInv
      <4>4. ~(n < f.from)
        BY <1>1, <1>5, <4>3
      <4>5. QED BY <1>4, <1>6, <4>4
    <3>3. QED BY <1>1, <3>1, <3>2
  <2>2. \E b \in scanned : n <= b.to
    <3>1. CASE v \in scanned
      BY <1>6, <3>1
    <3>2. CASE v = new
      <4>1. n < from[s]
        BY <1>2, <1>3, <1>6, <1>8, <3>2
      <4>2. known[s] # NoCheckpoint
        <5>1. new \in scanned'
          BY <1>1
        <5>2. QED BY <1>2, <1>5, <4>1, <5>1
      <4>3. n <= known[s]
        BY <1>1, <1>3, <1>5, <1>6, <4>1, <4>2 DEF SkipInv, StartInv, Chosen
      <4>4. PICK u \in scanned : u.to = known[s]
        BY <4>2 DEF SkipInv, KnownInv, EndOf
      <4>5. QED BY <4>3, <4>4
    <3>3. QED BY <1>1, <3>1, <3>2
  <2>3. PICK a \in scanned, b \in scanned : a.from <= n /\ n <= b.to
    BY <2>1, <2>2
  <2>4. n \in a.from..b.to
    BY <1>4, <1>6, <2>3
  <2>5. \/ \E u \in scanned : n \in u.from..u.to
        \/ \E u \in scanned : u.known = NoCheckpoint /\ n < u.from
    BY <1>5, <2>4 DEF SkipInv, NothingIsSkipped
  <2>6. ~(\E u \in scanned : u.known = NoCheckpoint /\ n < u.from)
    BY <1>1, <1>5
  <2>7. QED BY <1>1, <2>5, <2>6
<1>9. QED BY <1>7, <1>8

LEMMA SkipScan ==
  ASSUME SkipInv, NEW s \in Scanners, ReadsCheckpoint(s) \/ ScanStep(s) \/ Fails(s)
  PROVE  SkipInv'
<1>a. TypeInv /\ TypeInv'
  BY TypeScan DEF SkipInv
<1>b. /\ \A t \in Scanners \ {s} :
           pc'[t] = pc[t] /\ known'[t] = known[t] /\ from'[t] = from[t]
      /\ low' = low
  BY <1>a, ScanFrame
<1>c. KnownInv /\ StartInv /\ FirstInv /\ NothingIsSkipped
  BY DEF SkipInv
<1>1. CASE ~Commits(s)
  <2>1. checkpoint' = checkpoint /\ scanned' = scanned
    BY <1>1, <1>a, ScanFrame
  <2>2. NothingIsSkipped' /\ FirstInv'
    BY <1>b, <1>c, <2>1 DEF NothingIsSkipped, FirstInv
  <2>3. CASE ReadsCheckpoint(s)
    <3>1. pc'[s] = "group" /\ known'[s] = checkpoint
      BY <1>a, <2>3 DEF ReadsCheckpoint, TypeInv, TypeOK
    <3>2. KnownInv' /\ StartInv'
      BY <1>b, <1>c, <2>1, <3>1 DEF KnownInv, EndOf, StartInv, Chosen
    <3>3. QED BY <1>a, <2>2, <3>2 DEF SkipInv
  <2>4. CASE ChoosesWindow(s)
    <3>1. known' = known /\ from'[s] = WindowStart(s)
      BY <1>a, <2>4 DEF ChoosesWindow, TypeInv, TypeOK
    <3>2. known[s] # NoCheckpoint => \A n \in Nat : known[s] < n /\ n < WindowStart(s) => n < low
      BY <1>a DEF WindowStart, TypeInv, TypeOK
    <3>3. KnownInv'
      BY <1>c, <2>1, <3>1 DEF KnownInv, EndOf
    <3>4. StartInv'
      BY <1>b, <1>c, <3>1, <3>2 DEF StartInv
    <3>5. QED BY <1>a, <2>2, <3>3, <3>4 DEF SkipInv
  <2>5. CASE (ScanStep(s) \/ Fails(s)) /\ ~ChoosesWindow(s)
    <3>1. \/ pc'[s] \notin Chosen /\ known'[s] \in {known[s], NoCheckpoint}
          \/ pc[s] \in Chosen /\ known'[s] = known[s] /\ from'[s] = from[s]
      <4>1. CASE \/ FindsNothingNew(s) \/ OverviewIsRefused(s) \/ RefusesCommit(s) \/ Returns(s)
                 \/ Fails(s)
        BY <1>a, <4>1 DEF FindsNothingNew, OverviewIsRefused, RefusesCommit, Returns, Fails,
           Leaves, Chosen, TypeInv, TypeOK
      <4>2. CASE FetchesOverview(s) \/ FeedsHeader(s) \/ CommitsFullBatch(s) \/ OpensCommit(s)
        BY <4>2 DEF FetchesOverview, FeedsHeader, CommitsFullBatch, OpensCommit, Chosen
      <4>3. CASE CommitsUnnumbered(s)
        BY <4>3 DEF CommitsUnnumbered, Chosen
      <4>4. QED BY <1>1, <2>5, <4>1, <4>2, <4>3 DEF ScanStep
    <3>2. KnownInv' /\ StartInv'
      BY <1>b, <1>c, <2>1, <3>1 DEF KnownInv, EndOf, StartInv
    <3>3. QED BY <1>a, <2>2, <3>2 DEF SkipInv
  <2>6. QED BY <2>3, <2>4, <2>5
<1>2. CASE Commits(s)
  <2>1. /\ pc'[s] = "flush" /\ checkpoint' = to[s] /\ known' = known
        /\ scanned' = scanned \cup {Window(s)}
    BY <1>2, <1>a DEF Commits, TypeInv, TypeOK
  <2>2. Window(s).to = to[s] /\ Window(s).known = known[s]
    BY DEF Window
  <2>3. KnownInv'
    BY <1>c, <2>1, <2>2 DEF KnownInv, EndOf
  <2>4. StartInv'
    BY <1>b, <1>c, <2>1 DEF StartInv, Chosen
  <2>5. FirstInv'
    BY <1>c, <2>1, <2>2 DEF KnownInv, EndOf, FirstInv
  <2>6. NothingIsSkipped'
    BY <1>2, CommitSkipsNothing
  <2>7. QED BY <1>a, <2>3, <2>4, <2>5, <2>6 DEF SkipInv
<1>3. QED BY <1>1, <1>2

LEMMA SkipInductive ==
  ASSUME SkipInv, [Next]_vars
  PROVE  SkipInv'
<1>1. TypeInv'
  BY TypeInductive DEF SkipInv
<1>2. CASE UNCHANGED vars \/ Posted \/ Expires
  <2>1. /\ UNCHANGED <<checkpoint, scanned, pc, known, from>>
        /\ low' = low \/ low' = low + 1
    BY <1>2 DEF Posted, Expires
  <2>2. low \in Nat /\ low' \in Nat /\ low <= low'
    BY <2>1 DEF SkipInv, TypeInv, TypeOK
  <2>3. StartInv'
    BY <2>1, <2>2 DEF SkipInv, StartInv
  <2>4. NothingIsSkipped'
    <3>1. \A w \in scanned : w.from \in Nat /\ w.to \in Nat
      BY DEF SkipInv, TypeInv, TypeOK, Numbers
    <3>2. \A w, v \in scanned : \A n \in w.from..v.to : n < low => n < low'
      BY <2>2, <3>1
    <3>3. QED BY <2>1, <3>2 DEF SkipInv, NothingIsSkipped
  <2>5. KnownInv' /\ FirstInv'
    BY <2>1 DEF SkipInv, KnownInv, EndOf, FirstInv
  <2>6. QED BY <1>1, <2>3, <2>4, <2>5 DEF SkipInv
<1>3. QED BY <1>2, SkipScan DEF Next

(* However many scanners overlap, first scans included, every article      *)
(* between two committed windows was scanned, was gone from the server, or *)
(* lies below the window of a first scan.                                  *)
THEOREM ScansLeaveNoGap == Spec => []NothingIsSkipped
<1>1. Init => SkipInv
  BY TypeInit DEF Init, SkipInv, KnownInv, StartInv, FirstInv, Chosen, NothingIsSkipped
<1>2. SkipInv /\ [Next]_vars => SkipInv'
  BY SkipInductive
<1>3. SkipInv => NothingIsSkipped
  BY DEF SkipInv
<1>4. QED BY <1>1, <1>2, <1>3, PTL DEF Spec

=============================================================================
