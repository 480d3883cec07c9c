----------------------------- MODULE BookSearch -----------------------------
(***************************************************************************)
(* A search for a book on demand (api/releases.py): the releases known are *)
(* searched query by query and scored (services/on_demand_search.py); when *)
(* none is a strong match, the newest articles of every enabled group are  *)
(* looked through for the title, what they make is indexed                 *)
(* (services/targeted_nntp_search.py, indexer/classifier.py), and the      *)
(* search is done again.  Beside it the scanner indexes, articles arrive   *)
(* and expire, and other searches run.                                     *)
(*                                                                         *)
(* One action is one search_page with the gets of its results, one NNTP    *)
(* command, or one transaction.  Points and thresholds are those of the    *)
(* code; how similar two strings are is a fact of the instance.            *)
(***************************************************************************)
EXTENDS Integers, FiniteSets

CONSTANTS
  Clients,             (* requests                                          *)
  Releases,
  Facts,               (* [Releases -> record]: what the strings of a       *)
                       (* release come to, see Fact                         *)
  GroupOf, PartsOf,    (* its group, and the numbers of its articles there  *)
  NumGroups,           (* enabled groups of enabled providers, in order     *)
  LastNumber,          (* bound: article numbers                            *)
  Required,            (* significant words of the requested title          *)
  NumQueries, Finds,   (* expand_queries, and what search_page matches      *)
  IdOf, PageLimit,     (* the order of the ids, and the limit of a page     *)
  StopScore,
  MaxWindows, Batch,   (* max_scan_windows, scan_batch_size                 *)
  EmptyReplies,        (* to an overview of nothing: an empty "list", or    *)
                       (* the "error" 420 or 423                            *)
  MaxFailures          (* bound: requests of which the acquisition fails    *)

Groups  == 1..NumGroups
Numbers == 1..LastNumber

(* First what score_candidate goes by, of which title is the points of its *)
(* similarity, then what classify_audiobook does -- each has terms and     *)
(* endings of its own --, the words of the title in the subject, and what  *)
(* dedupe_candidates goes by.                                              *)
Fact == [title : 0..55, author : {0, 10, 25}, narrator : {0, 10}, series : {0, 8},
         audio : BOOLEAN, video : BOOLEAN,
         ending : BOOLEAN, archive : BOOLEAN, positive : BOOLEAN, negative : BOOLEAN,
         software : BOOLEAN, dashes : BOOLEAN, tagged : BOOLEAN,
         words : Nat, size : Nat, key : Nat]

ASSUME ConstantsAssumption ==
  /\ IsFiniteSet(Releases)
  /\ Facts \in [Releases -> Fact]
  /\ \A r, s \in Releases :   (* what a tie would keep is left open         *)
       r # s /\ Facts[r].key = Facts[s].key => Facts[r].size # Facts[s].size
  /\ NumGroups \in Nat /\ LastNumber \in Nat \ {0}
  /\ GroupOf \in [Releases -> Groups] /\ PartsOf \in [Releases -> (SUBSET Numbers) \ {{}}]
  /\ NumQueries \in Nat \ {0} /\ Finds \in [1..NumQueries -> SUBSET Releases]
  /\ IdOf \in [Releases -> Nat] /\ \A r, s \in Releases : IdOf[r] = IdOf[s] => r = s
  /\ PageLimit \in Nat \ {0} /\ StopScore \in 0..100
  /\ Required \in Nat \ {0} /\ MaxWindows \in 1..200 /\ Batch \in Nat \ {0}
  /\ EmptyReplies \subseteq {"list", "error"} /\ MaxFailures \in Nat

VARIABLES
  low, high,           (* of each group on the server                       *)
  indexed,             (* releases in the database                          *)
  pc,
  again,               (* the second search_local                           *)
  query, found,        (* execute_on_demand_search                          *)
  shown, stopped,      (* its result, stopped_early                         *)
  group, top, bottom,  (* the group looked through, info.low, window_end    *)
  windows, rows,       (* windows_scanned, matching_headers                 *)
  matched,             (* headers_matched                                   *)
  gathered,            (* history: releases the acquisition handed on       *)
  searched,            (* history: the stretch of each group looked through *)
  failed,              (* acquisition_error                                 *)
  failures

server == <<low, high>>
result == <<again, query, found, shown, stopped>>
window == <<top, bottom, windows, rows>>
past   == <<gathered, searched, failed>>
vars == <<server, indexed, pc, result, group, window, matched, past, failures>>

Unsearched == [from |-> 1, to |-> 0]

Init ==
  /\ low = [g \in Groups |-> 1] /\ high = [g \in Groups |-> LastNumber - 1]
  /\ indexed = {}
  /\ pc = [c \in Clients |-> "idle"]
  /\ again = [c \in Clients |-> FALSE]
  /\ query = [c \in Clients |-> 1]
  /\ found = [c \in Clients |-> {}]
  /\ shown = [c \in Clients |-> {}]
  /\ stopped = [c \in Clients |-> FALSE]
  /\ group = [c \in Clients |-> 1]
  /\ top = [c \in Clients |-> 0] /\ bottom = [c \in Clients |-> 1]
  /\ windows = [c \in Clients |-> 0]
  /\ rows = [c \in Clients |-> {}]
  /\ matched = [c \in Clients |-> FALSE]
  /\ gathered = [c \in Clients |-> {}]
  /\ searched = [c \in Clients |-> [g \in Groups |-> Unsearched]]
  /\ failed = [c \in Clients |-> FALSE]
  /\ failures = 0

Goto(c, here, there) == pc[c] = here /\ pc' = [pc EXCEPT ![c] = there]

-----------------------------------------------------------------------------
(* Scores.                                                                 *)

Points(yes, n) == IF yes THEN n ELSE 0
Clamped(n) == IF n < 0 THEN 0 ELSE IF n > 100 THEN 100 ELSE n

(* score_candidate of a release of the database: its completion is 1.      *)
Score(r) ==
  LET f == Facts[r] IN
  Clamped(f.title + f.author + f.narrator + f.series
            + (IF f.audio THEN 15 ELSE -25) + 5 - Points(f.video, 60))

Hidden(r) == Score(r) < 60

(* dedupe_candidates                                                       *)
Displaces(s, r) == Facts[s].key = Facts[r].key /\ Facts[s].size > Facts[r].size
Deduped(rs) == {r \in rs : ~\E s \in rs : Displaces(s, r)}

(* What ends the search, and what makes a look at the groups unnecessary:  *)
(* a hidden release is no result.                                          *)
Strong(rs) == \E r \in Deduped(rs) : Score(r) >= StopScore
StrongResult(rs) == \E r \in Deduped(rs) : ~Hidden(r) /\ Score(r) >= StopScore

(* subject_matches_request                                                 *)
Minimum == IF Required <= 2 THEN Required ELSE IF Required = 3 THEN 2 ELSE Required - 1
Wanted(r) == Facts[r].words >= Minimum

(* classify_audiobook, in thousandths                                      *)
Confidence(r) ==
  LET f == Facts[r]
      sum == Points(f.ending \/ f.archive, 700) + Points(f.positive, 200)
               + Points(f.tagged, 200) + Points(f.dashes, 100) - Points(f.negative, 800)
  IN IF f.archive /\ (f.software \/ f.negative) THEN 0
     ELSE IF sum < 0 THEN 0 ELSE IF sum > 1000 THEN 1000 ELSE sum

Audiobook(r) == Confidence(r) >= 800

-----------------------------------------------------------------------------
(* search_local                                                            *)

Requests(c) ==
  /\ Goto(c, "idle", "query")
  /\ UNCHANGED <<server, indexed, result, group, window, matched, past, failures>>

(* search_page: every release has completion 1, so that the order is that  *)
(* of the ids, from the last.                                              *)
Before(q, r) == {s \in Finds[q] \cap indexed : IdOf[s] > IdOf[r]}

Page(q) == {r \in Finds[q] \cap indexed : Cardinality(Before(q, r)) < PageLimit}

AsksLocal(c) ==
  LET all  == found[c] \cup Page(query[c])
      ends == Strong(all) \/ query[c] = NumQueries
  IN /\ pc[c] = "query"
     /\ \/ ends /\ (StrongResult(all) \/ again[c]) /\ Goto(c, "query", "done")
        \/ ends /\ ~StrongResult(all) /\ ~again[c] /\ Goto(c, "query", "group")
        \/ ~ends /\ UNCHANGED pc
     /\ found' = [found EXCEPT ![c] = all]
     /\ query' = [query EXCEPT ![c] = IF ends THEN 1 ELSE @ + 1]
     /\ shown' = [shown EXCEPT ![c] = IF ends THEN {r \in Deduped(all) : ~Hidden(r)} ELSE @]
     /\ stopped' = [stopped EXCEPT ![c] = Strong(all)]
     /\ UNCHANGED <<server, indexed, again, group, window, matched, past, failures>>

-----------------------------------------------------------------------------
(* acquire_requested_book                                                  *)

(* GROUP, of the next group.                                               *)
OpensGroup(c) ==
  /\ group[c] <= NumGroups
  /\ Goto(c, "group", "window")
  /\ top' = [top EXCEPT ![c] = high[group[c]]]
  /\ bottom' = [bottom EXCEPT ![c] = low[group[c]]]
  /\ windows' = [windows EXCEPT ![c] = 0]
  /\ rows' = [rows EXCEPT ![c] = {}]
  /\ UNCHANGED <<server, indexed, result, group, matched, past, failures>>

Larger(m, n) == IF m > n THEN m ELSE n
WindowStart(c) == Larger(bottom[c], top[c] - Batch + 1)

There(g)  == low[g]..high[g]
Window(c) == There(group[c]) \cap WindowStart(c)..top[c]
Articles(g, ns) == {x \in Releases \X Numbers : GroupOf[x[1]] = g /\ x[2] \in PartsOf[x[1]] \cap ns}

(* The window below.  Mutant: it begins one article too low.               *)
LeavesGap(c) == WindowStart(c) - 2

NextEnd(c) == WindowStart(c) - 1

MoreWindows(c) == windows[c] < MaxWindows /\ top[c] >= bottom[c]

(* XOVER, and which of its rows match.                                     *)
FetchesWindow(c) ==
  LET got == Articles(group[c], Window(c))
      hits == {x \in got : Wanted(x[1])}
  IN /\ pc[c] = "window" /\ rows[c] = {} /\ MoreWindows(c)
     /\ Window(c) # {} \/ "list" \in EmptyReplies
     /\ rows' = [rows EXCEPT ![c] = hits]
     /\ windows' = [windows EXCEPT ![c] = @ + 1]
     /\ top' = [top EXCEPT ![c] = NextEnd(c)]
     /\ searched' = [searched EXCEPT ![c][group[c]] =
          [from |-> WindowStart(c), to |-> IF windows[c] = 0 THEN top[c] ELSE @.to]]
     /\ UNCHANGED <<server, indexed, pc, result, group, bottom, matched, gathered, failed, failures>>

Whole(c) ==
  {r \in Releases : Audiobook(r) /\ \A n \in PartsOf[r] : <<r, n>> \in rows[c]}

(* index_batches, with what matched.                                       *)
Indexes(c) ==
  /\ rows[c] # {}
  /\ Goto(c, "window", "group")
  /\ indexed' = indexed \cup Whole(c)
  /\ gathered' = [gathered EXCEPT ![c] = @ \cup Whole(c)]
  /\ matched' = [matched EXCEPT ![c] = TRUE]
  /\ group' = [group EXCEPT ![c] = @ + 1]
  /\ UNCHANGED <<server, result, window, searched, failed, failures>>

FindsNothing(c) ==
  /\ rows[c] = {} /\ ~MoreWindows(c)
  /\ Goto(c, "window", "group")
  /\ group' = [group EXCEPT ![c] = @ + 1]
  /\ UNCHANGED <<server, indexed, result, window, matched, past, failures>>

(* Mutant: the first answer is kept.                                       *)
KeepsAnswer(c) ==
  /\ group[c] > NumGroups
  /\ Goto(c, "group", "done")
  /\ UNCHANGED <<server, indexed, result, group, window, matched, past, failures>>

EndsAcquisition(c) ==
  /\ group[c] > NumGroups
  /\ Goto(c, "group", IF matched[c] THEN "query" ELSE "done")
  /\ again' = [again EXCEPT ![c] = TRUE]
  /\ found' = [found EXCEPT ![c] = {}]
  /\ UNCHANGED <<server, indexed, query, shown, stopped, group, window, matched, past, failures>>

(* Any error leaves the whole acquisition, and what earlier groups brought *)
(* is not searched for.  Batches of the group may have been committed.     *)
LeavesAcquisition(c, batches) ==
  /\ \E here \in {"group", "window"} : Goto(c, here, "done")
  /\ indexed' = indexed \cup batches
  /\ failed' = [failed EXCEPT ![c] = TRUE]
  /\ searched' = [searched EXCEPT ![c] =
                    [g \in Groups |-> IF g < group[c] THEN @[g] ELSE Unsearched]]
  /\ UNCHANGED <<server, result, group, window, matched, gathered>>

AcquisitionFails(c) ==
  /\ failures < MaxFailures /\ failures' = failures + 1
  /\ \E batches \in SUBSET Whole(c) : LeavesAcquisition(c, batches)

(* 420 or 423: NntpTemporaryError.                                         *)
WindowIsRefused(c) ==
  /\ pc[c] = "window" /\ rows[c] = {} /\ MoreWindows(c)
  /\ Window(c) = {} /\ "error" \in EmptyReplies
  /\ LeavesAcquisition(c, {})
  /\ UNCHANGED failures

-----------------------------------------------------------------------------
(* The scanner and the server.                                             *)

ScannerIndexes(r) ==
  /\ Audiobook(r) /\ PartsOf[r] \subseteq There(GroupOf[r])
  /\ indexed' = indexed \cup {r}
  /\ UNCHANGED <<server, pc, result, group, window, matched, past, failures>>

Posted(g) ==
  /\ high[g] < LastNumber
  /\ high' = [high EXCEPT ![g] = @ + 1]
  /\ UNCHANGED <<low, indexed, pc, result, group, window, matched, past, failures>>

Expires(g) ==
  /\ low[g] <= high[g]
  /\ low' = [low EXCEPT ![g] = @ + 1]
  /\ UNCHANGED <<high, indexed, pc, result, group, window, matched, past, failures>>

Searches(c) ==
  \/ AsksLocal(c) \/ OpensGroup(c) \/ FetchesWindow(c) \/ WindowIsRefused(c)
  \/ Indexes(c) \/ FindsNothing(c) \/ EndsAcquisition(c)

Next ==
  \/ \E c \in Clients : Requests(c) \/ Searches(c) \/ AcquisitionFails(c)
  \/ \E r \in Releases : ScannerIndexes(r)
  \/ \E g \in Groups : Posted(g) \/ Expires(g)

Spec == Init /\ [][Next]_vars

-----------------------------------------------------------------------------
(* What the acquisition indexed for a request is in its answer, unless the *)
(* search stopped at a strong match before, it is not a match at all, a    *)
(* larger posting of the same book took its place, or every query that     *)
(* finds it finds a page of others first -- as long as no later group      *)
(* failed: then the answer is the one from before.                         *)
GatheredIsShown ==
  \A c \in Clients : pc[c] = "done" /\ ~failed[c] /\ ~stopped[c] =>
    \A r \in gathered[c] : ~Hidden(r) =>
      \/ r \in shown[c]
      \/ \E s \in indexed : Displaces(s, r)
      \/ \A q \in 1..NumQueries : r \in Finds[q] => Cardinality(Before(q, r)) >= PageLimit

(* A search that went through a stretch of a group, window by window from  *)
(* the newest article down, has indexed every audiobook of the requested   *)
(* title that lies wholly in that stretch and has not expired: no article  *)
(* falls between two windows, and none is passed over for a match that was *)
(* not complete.                                                           *)
StretchIsIndexed ==
  \A c \in Clients, r \in Releases :
    LET g == GroupOf[r]
        s == searched[c][g]
    IN (/\ g < group[c] /\ Wanted(r) /\ Audiobook(r)
        /\ PartsOf[r] \subseteq (s.from..s.to) \cap There(g))
       => r \in indexed
=============================================================================
