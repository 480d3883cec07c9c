-------------------------- MODULE BookSearchProofs --------------------------
(***************************************************************************)
(* Theorems about BookSearch, for any number of requests, releases, groups *)
(* and articles.                                                           *)
(***************************************************************************)
EXTENDS BookSearch, FiniteSetTheorems, TLAPS

Over(f, S) == f = [x \in S |-> f[x]]

(* What a request can read and write is there.                             *)
TypeInv ==
  /\ low \in [Groups -> Int] /\ high \in [Groups -> Int]
  /\ indexed \subseteq Releases
  /\ pc \in [Clients -> {"idle", "query", "group", "window", "done"}]
  /\ again \in [Clients -> BOOLEAN] /\ stopped \in [Clients -> BOOLEAN]
  /\ matched \in [Clients -> BOOLEAN] /\ failed \in [Clients -> BOOLEAN]
  /\ query \in [Clients -> 1..NumQueries] /\ group \in [Clients -> 1..NumGroups + 1]
  /\ found \in [Clients -> SUBSET Releases] /\ gathered \in [Clients -> SUBSET Releases]
  /\ Over(shown, Clients)
  /\ top \in [Clients -> Int] /\ bottom \in [Clients -> Int] /\ windows \in [Clients -> Nat]
  /\ rows \in [Clients -> SUBSET (Releases \X Numbers)]
  /\ searched \in [Clients -> [Groups -> [from : Int, to : Int]]]
  /\ \A c \in Clients : pc[c] = "window" => group[c] \in Groups

Crowded(q, r) == Cardinality(Before(q, r)) >= PageLimit

(* The second search finds again, with what the acquisition indexed, what  *)
(* the queries asked so far find of it and have room for.                  *)
AnswerInv(c) ==
  /\ found[c] \subseteq indexed /\ gathered[c] \subseteq indexed
  /\ gathered[c] # {} => matched[c]
  /\ pc[c] = "idle" \/ (pc[c] = "query" /\ ~again[c]) => gathered[c] = {}
  /\ pc[c] \in {"group", "window"} => query[c] = 1
  /\ pc[c] = "query" /\ again[c] => 
       \A q \in 1..query[c] - 1 : \A r \in gathered[c] \cap Finds[q] : r \in found[c] \/ Crowded(q, r)
  /\ pc[c] = "done" /\ ~failed[c] /\ ~stopped[c] /\ gathered[c] # {} =>
       /\ \A q \in 1..NumQueries : \A r \in gathered[c] \cap Finds[q] : r \in found[c] \/ Crowded(q, r)
       /\ shown[c] = {r \in Deduped(found[c]) : ~Hidden(r)}

Stretch(c, g) == searched[c][g].from..searched[c][g].to
Wholly(c, r)  == PartsOf[r] \subseteq Stretch(c, GroupOf[r]) \cap There(GroupOf[r])

(* A group the request is looking through: the window fetched last begins  *)
(* the stretch.  Nothing wanted is in what was fetched, or all of it is.   *)
WindowInv(c) ==
  LET g == group[c] IN
  pc[c] = "window" =>
    /\ top[c] <= high[g]
    /\ windows[c] = 0 => searched[c][g] = Unsearched /\ rows[c] = {}
    /\ windows[c] > 0 => searched[c][g].from = top[c] + 1 /\ searched[c][g].to <= high[g]
    /\ \A r \in Releases : GroupOf[r] = g /\ Wanted(r) =>
         /\ rows[c] = {} => PartsOf[r] \cap Stretch(c, g) \cap There(g) = {}
         /\ rows[c] # {} /\ Wholly(c, r) => \A n \in PartsOf[r] : <<r, n>> \in rows[c]

(* The groups before it are indexed, those after it not begun.             *)
StretchInv(c) ==
  /\ \A g \in Groups : g > group[c] => searched[c][g] = Unsearched
  /\ pc[c] # "window" /\ group[c] \in Groups => searched[c][group[c]] = Unsearched
  /\ \A g \in Groups : searched[c][g] = Unsearched \/ searched[c][g].to <= high[g]
  /\ \A r \in Releases :
       GroupOf[r] < group[c] /\ Wanted(r) /\ Audiobook(r) /\ Wholly(c, r) => r \in indexed

SearchInv ==
  /\ TypeInv
  /\ \A c \in Clients : AnswerInv(c)
  /\ \A c \in Clients : WindowInv(c) /\ StretchInv(c)
-----------------------------------------------------------------------------
USE DEF vars, server, result, window, past, Goto

(* The database only grows, and with it what comes before a release.       *)
LEMMA BeforeIsFinite ==
  ASSUME TypeInv, NEW q, NEW r
  PROVE  Cardinality(Before(q, r)) \in Nat
<1>1. IsFiniteSet(Releases) /\ Before(q, r) \subseteq Releases
  BY ConstantsAssumption DEF TypeInv, Before
<1>2. IsFiniteSet(Before(q, r))
  BY <1>1, FS_Subset
<1>3. QED BY <1>2, FS_CardinalityType

LEMMA CrowdedStays ==
  ASSUME TypeInv, TypeInv', indexed \subseteq indexed', NEW q, NEW r, Crowded(q, r)
  PROVE  Crowded(q, r)'
<1>1. Before(q, r) \subseteq Before(q, r)'
  BY DEF Before
<1>2. IsFiniteSet(Before(q, r)')
  <2>1. IsFiniteSet(Releases) /\ Before(q, r)' \subseteq Releases
    BY ConstantsAssumption DEF TypeInv, Before
  <2>2. QED BY <2>1, FS_Subset
<1>3. Cardinality(Before(q, r)) <= Cardinality(Before(q, r)')
  BY <1>1, <1>2, FS_Subset
<1>4. /\ Cardinality(Before(q, r)) \in Nat /\ Cardinality(Before(q, r)') \in Nat
      /\ PageLimit \in Nat
  BY <1>2, BeforeIsFinite, FS_CardinalityType, ConstantsAssumption
<1>5. QED BY <1>3, <1>4 DEF Crowded

LEMMA TypeStep ==
  ASSUME TypeInv, [Next]_vars
  PROVE  TypeInv'
<1> USE DEF TypeInv, Over
<1>0. NumQueries \in Nat \ {0} /\ NumGroups \in Nat /\ Batch \in Nat \ {0}
  BY ConstantsAssumption
<1>1. CASE UNCHANGED vars
  BY <1>1
<1>2. ASSUME NEW c \in Clients, Requests(c) PROVE TypeInv'
  BY <1>2 DEF Requests
<1>3. ASSUME NEW c \in Clients, AsksLocal(c) PROVE TypeInv'
  <2>1. found[c] \cup Page(query[c]) \subseteq Releases
    BY DEF TypeInv, Page
  <2>2. found' \in [Clients -> SUBSET Releases] /\ UNCHANGED <<server, indexed, again, group, window, matched, past>>
    BY <1>3, <2>1 DEF AsksLocal
  <2>3. query' \in [Clients -> 1..NumQueries]
    <3>1. query[c] \in 1..NumQueries
      OBVIOUS
    <3>2. 1 \in 1..NumQueries /\ (query[c] # NumQueries => query[c] + 1 \in 1..NumQueries)
      BY ONLY <1>0, <3>1
    <3>3. \/ query' = [query EXCEPT ![c] = 1]
          \/ query[c] # NumQueries /\ query' = [query EXCEPT ![c] = query[c] + 1]
      BY <1>3 DEF AsksLocal
    <3>4. QED BY <3>2, <3>3
  <2>4. pc' \in [Clients -> {"idle", "query", "group", "window", "done"}]
        /\ \A d \in Clients : pc'[d] = "window" => pc[d] = "window"
    BY <1>3 DEF AsksLocal
  <2>5. stopped' \in [Clients -> BOOLEAN] /\ Over(shown', Clients)
    BY <1>3 DEF AsksLocal, Strong
  <2>6. QED BY <2>2, <2>3, <2>4, <2>5
<1>4. ASSUME NEW c \in Clients, OpensGroup(c) PROVE TypeInv'
  <2>1. group[c] \in Groups
    BY <1>0, <1>4 DEF OpensGroup, Groups
  <2>2. QED BY <1>4, <2>1 DEF OpensGroup
<1>5. ASSUME NEW c \in Clients, FetchesWindow(c) PROVE TypeInv'
  <2>1. /\ WindowStart(c) \in Int /\ NextEnd(c) \in Int
    BY <1>0 DEF WindowStart, NextEnd, Larger
  <2>2. group[c] \in Groups
    BY <1>5 DEF FetchesWindow
  <2>3. \E hits \in SUBSET (Releases \X Numbers) : rows' = [rows EXCEPT ![c] = hits]
    BY <1>5 DEF FetchesWindow, Articles
  <2>4. \E s \in [from : Int, to : Int] : searched' = [searched EXCEPT ![c][group[c]] = s]
    <3> DEFINE n == IF windows[c] = 0 THEN top[c] ELSE searched[c][group[c]].to
    <3>1. searched' = [searched EXCEPT ![c][group[c]] = [from |-> WindowStart(c), to |-> n]]
      BY <1>5 DEF FetchesWindow
    <3>2. n \in Int
      BY <2>2
    <3>3. QED BY <2>1, <3>1, <3>2
  <2>5. searched' \in [Clients -> [Groups -> [from : Int, to : Int]]]
    <3>1. PICK s \in [from : Int, to : Int] : searched' = [searched EXCEPT ![c][group[c]] = s]
      BY <2>4
    <3>2. [searched[c] EXCEPT ![group[c]] = s] \in [Groups -> [from : Int, to : Int]]
      BY <2>2, <3>1
    <3>3. QED BY <3>1, <3>2
  <2>6. rows' \in [Clients -> SUBSET (Releases \X Numbers)]
    BY <2>3
  <2>7. windows' \in [Clients -> Nat] /\ top' \in [Clients -> Int]
    BY <1>5, <2>1 DEF FetchesWindow
  <2>8. UNCHANGED <<server, indexed, pc, result, group, bottom, matched, gathered, failed>>
    BY <1>5 DEF FetchesWindow
  <2>9. QED BY <2>5, <2>6, <2>7, <2>8
<1>6. ASSUME NEW c \in Clients, Indexes(c) \/ FindsNothing(c) PROVE TypeInv'
  <2>1. group[c] + 1 \in 1..NumGroups + 1
    BY <1>0, <1>6 DEF Indexes, FindsNothing, Groups
  <2>2. Whole(c) \subseteq Releases
    BY DEF Whole
  <2>3. indexed' \subseteq Releases /\ gathered' \in [Clients -> SUBSET Releases]
        /\ matched' \in [Clients -> BOOLEAN]
    <3>1. CASE Indexes(c)
      <4>1. gathered[c] \cup Whole(c) \in SUBSET Releases /\ indexed \cup Whole(c) \subseteq Releases
        BY <2>2
      <4>2. /\ indexed' = indexed \cup Whole(c) /\ matched' = [matched EXCEPT ![c] = TRUE]
            /\ gathered' = [gathered EXCEPT ![c] = gathered[c] \cup Whole(c)]
        BY <3>1 DEF Indexes
      <4>3. QED BY <4>1, <4>2
    <3>2. CASE FindsNothing(c)
      BY <3>2 DEF FindsNothing
    <3>3. QED BY <1>6, <3>1, <3>2
  <2>4. group' \in [Clients -> 1..NumGroups + 1]
    BY <1>6, <2>1 DEF Indexes, FindsNothing
  <2>5. /\ UNCHANGED <<server, result, window, searched, failed>>
        /\ pc[c] = "window" /\ pc' = [pc EXCEPT ![c] = "group"] /\ group' = [group EXCEPT ![c] = group[c] + 1]
    BY <1>6 DEF Indexes, FindsNothing
  <2>6. pc' \in [Clients -> {"idle", "query", "group", "window", "done"}]
        /\ \A d \in Clients : pc'[d] = "window" => group'[d] \in Groups
    BY <2>5
  <2>7. QED BY <2>3, <2>4, <2>5, <2>6
<1>7. ASSUME NEW c \in Clients, EndsAcquisition(c) PROVE TypeInv'
  BY <1>7 DEF EndsAcquisition
<1>8. ASSUME NEW c \in Clients, AcquisitionFails(c) \/ WindowIsRefused(c) PROVE TypeInv'
  <2>1. [g \in Groups |-> IF g < group[c] THEN searched[c][g] ELSE Unsearched]
          \in [Groups -> [from : Int, to : Int]]
    BY DEF Unsearched
  <2>2. ASSUME NEW batches \in SUBSET Whole(c), LeavesAcquisition(c, batches) PROVE TypeInv'
    <3>1. indexed \cup batches \subseteq Releases
      BY DEF Whole
    <3>2. QED BY <2>1, <2>2, <3>1 DEF LeavesAcquisition
  <2>3. QED BY <1>8, <2>2 DEF AcquisitionFails, WindowIsRefused
<1>9. ASSUME NEW r \in Releases, ScannerIndexes(r) PROVE TypeInv'
  BY <1>9 DEF ScannerIndexes
<1>10. ASSUME NEW g \in Groups, Posted(g) \/ Expires(g) PROVE TypeInv'
  BY <1>10 DEF Posted, Expires
<1>11. QED BY <1>1, <1>2, <1>3, <1>4, <1>5, <1>6, <1>7, <1>8, <1>9, <1>10 DEF Next, Searches

(* What a request has is its own; the database only grows, and what was    *)
(* posted before and is still there was there before.                      *)
Grows == /\ indexed \subseteq indexed'
         /\ \A g \in Groups : low[g] <= low'[g] /\ high[g] <= high'[g]

Own(c) == <<pc[c], again[c], query[c], found[c], shown[c], stopped[c], group[c], top[c], bottom[c],
            windows[c], rows[c], matched[c], gathered[c], searched[c], failed[c]>>

ClientStep(c) == Requests(c) \/ Searches(c) \/ AcquisitionFails(c)

LEMMA EveryStep ==
  ASSUME TypeInv, [Next]_vars
  PROVE  /\ Grows
         /\ \/ \A d \in Clients : Own(d)' = Own(d)
            \/ \E c \in Clients : /\ ClientStep(c) /\ UNCHANGED server
                                  /\ \A d \in Clients \ {c} : Own(d)' = Own(d)
<1> USE DEF TypeInv, Over, Own, Grows
<1>1. CASE UNCHANGED vars
  BY <1>1
<1>2. ASSUME NEW c \in Clients, ClientStep(c)
      PROVE  indexed \subseteq indexed' /\ UNCHANGED server /\ \A d \in Clients \ {c} : Own(d)' = Own(d)
  <2>1. CASE Requests(c) \/ AcquisitionFails(c) \/ WindowIsRefused(c) \/ AsksLocal(c)
    BY <2>1 DEF Requests, AcquisitionFails, WindowIsRefused, LeavesAcquisition, AsksLocal
  <2>2. CASE OpensGroup(c) \/ FetchesWindow(c) \/ Indexes(c)
    BY <2>2 DEF OpensGroup, FetchesWindow, Indexes
  <2>3. CASE FindsNothing(c) \/ EndsAcquisition(c)
    BY <2>3 DEF FindsNothing, EndsAcquisition
  <2>4. QED BY <1>2, <2>1, <2>2, <2>3 DEF ClientStep, Searches
<1>3. ASSUME NEW r \in Releases, ScannerIndexes(r) PROVE Grows /\ \A d \in Clients : Own(d)' = Own(d)
  BY <1>3 DEF ScannerIndexes
<1>4. ASSUME NEW g \in Groups, Posted(g) \/ Expires(g)
      PROVE  Grows /\ \A d \in Clients : Own(d)' = Own(d)
  <2>1. \A d \in Clients : Own(d)' = Own(d)
    BY <1>4 DEF Posted, Expires
  <2>2. ASSUME NEW h \in Groups PROVE low[h] <= low'[h] /\ high[h] <= high'[h]
    <3>1. low[h] \in Int /\ high[h] \in Int
      OBVIOUS
    <3>2. low'[h] \in {low[h], low[h] + 1} /\ high'[h] \in {high[h], high[h] + 1}
      BY <1>4 DEF Posted, Expires
    <3>3. QED BY ONLY <3>1, <3>2
  <2>3. indexed' = indexed
    BY <1>4 DEF Posted, Expires
  <2>4. QED BY <2>1, <2>2, <2>3
<1>5. QED BY <1>1, <1>2, <1>3, <1>4 DEF Next, ClientStep

LEMMA SearchFrame ==
  ASSUME TypeInv, TypeInv', Grows, NEW c \in Clients, Own(c)' = Own(c),
         AnswerInv(c), WindowInv(c), StretchInv(c)
  PROVE  AnswerInv(c)' /\ WindowInv(c)' /\ StretchInv(c)'
<1>0. /\ pc'[c] = pc[c] /\ again'[c] = again[c] /\ query'[c] = query[c] /\ found'[c] = found[c]
      /\ shown'[c] = shown[c] /\ stopped'[c] = stopped[c] /\ group'[c] = group[c] /\ top'[c] = top[c]
      /\ windows'[c] = windows[c] /\ rows'[c] = rows[c] /\ matched'[c] = matched[c]
      /\ gathered'[c] = gathered[c] /\ searched'[c] = searched[c] /\ failed'[c] = failed[c]
  BY DEF Own
<1>1. AnswerInv(c)'
  <2>1. \A q, r : Crowded(q, r) => Crowded(q, r)'
    BY CrowdedStays DEF Grows
  <2>2. QED BY <1>0, <2>1 DEF AnswerInv, Grows
<1>2. ASSUME NEW g \in Groups PROVE Stretch(c, g)' = Stretch(c, g) /\ Stretch(c, g) \cap There(g)' \subseteq There(g)
  <2>1. Stretch(c, g)' = Stretch(c, g)
    BY <1>0 DEF Stretch
  <2>2. /\ low[g] \in Int /\ high[g] \in Int /\ low'[g] \in Int /\ high'[g] \in Int
        /\ low[g] <= low'[g] /\ searched[c][g].from \in Int /\ searched[c][g].to \in Int
    BY DEF TypeInv, Grows
  <2>3. searched[c][g] = Unsearched \/ searched[c][g].to <= high[g]
    BY DEF StretchInv
  <2>4. ASSUME NEW n \in Stretch(c, g), n \in There(g)' PROVE n \in There(g)
    BY <2>2, <2>3, <2>4 DEF Stretch, There, Unsearched
  <2>5. QED BY <2>1, <2>4
<1>3. \A r \in Releases : GroupOf[r] \in Groups /\ (Wholly(c, r)' => Wholly(c, r))
  BY <1>2, ConstantsAssumption DEF Wholly
<1>4. \A g \in Groups : high[g] \in Int /\ high'[g] \in Int /\ high[g] <= high'[g] 
                        /\ searched[c][g].to \in Int /\ top[c] \in Int
  BY DEF TypeInv, Grows
<1>5. WindowInv(c)'
  <2> SUFFICES ASSUME pc[c] = "window" PROVE WindowInv(c)'
    BY <1>0 DEF WindowInv
  <2>1. PICK g \in Groups : g = group[c]
    BY DEF TypeInv
  <2>2. /\ top'[c] <= high'[g]
        /\ windows'[c] = 0 => searched'[c][g] = Unsearched /\ rows'[c] = {}
        /\ windows'[c] > 0 => searched'[c][g].from = top'[c] + 1 /\ searched'[c][g].to <= high'[g]
    BY <1>0, <1>4, <2>1 DEF WindowInv
  <2>3. ASSUME NEW r \in Releases, GroupOf[r] = g, Wanted(r)
        PROVE  /\ rows[c] = {} => PartsOf[r] \cap Stretch(c, g)' \cap There(g)' = {}
               /\ rows[c] # {} /\ Wholly(c, r)' => \A n \in PartsOf[r] : <<r, n>> \in rows[c]
    <3>1. /\ rows[c] = {} => PartsOf[r] \cap Stretch(c, g) \cap There(g) = {}
          /\ rows[c] # {} /\ Wholly(c, r) => \A n \in PartsOf[r] : <<r, n>> \in rows[c]
      BY <2>1, <2>3 DEF WindowInv
    <3>2. Stretch(c, g)' \cap There(g)' \subseteq Stretch(c, g) \cap There(g)
      BY <1>2
    <3>3. QED BY <1>3, <3>1, <3>2
  <2>4. There(g)' = There(group[c])' /\ Stretch(c, g)' = Stretch(c, group[c])'
    BY <1>0, <2>1
  <2>5. QED BY <1>0, <2>1, <2>2, <2>3, <2>4 DEF WindowInv
<1>6. StretchInv(c)'
  <2>1. \A g \in Groups : searched'[c][g] = Unsearched \/ searched'[c][g].to <= high'[g]
    BY <1>0, <1>4 DEF StretchInv
  <2>2. \A r \in Releases :
          GroupOf[r] < group'[c] /\ Wanted(r) /\ Audiobook(r) /\ Wholly(c, r)' => r \in indexed'
    BY <1>0, <1>3 DEF StretchInv, Grows
  <2>3. QED BY <1>0, <2>1, <2>2 DEF StretchInv
<1>7. QED BY <1>1, <1>5, <1>6

-----------------------------------------------------------------------------
(* The answer.                                                             *)

LEMMA AnswerStep ==
  ASSUME TypeInv, TypeInv', NEW c \in Clients, AnswerInv(c), ClientStep(c)
  PROVE  AnswerInv(c)'
<1> USE DEF TypeInv, Over
<1>0. NumQueries \in Nat \ {0} /\ query[c] \in 1..NumQueries
  BY ConstantsAssumption
<1>1. CASE Requests(c)
  BY <1>1 DEF Requests, AnswerInv
<1>2. CASE AsksLocal(c)
  <2> DEFINE all  == found[c] \cup Page(query[c])
             ends == Strong(all) \/ query[c] = NumQueries
             good == StrongResult(all)
  <2>1. /\ pc[c] = "query"
        /\ found'[c] = all
        /\ query'[c] = IF ends THEN 1 ELSE query[c] + 1
        /\ shown'[c] = IF ends THEN {r \in Deduped(all) : ~Hidden(r)} ELSE shown[c]
        /\ stopped'[c] = Strong(all)
        /\ UNCHANGED <<indexed, again, matched, gathered, failed>>
    BY <1>2 DEF AsksLocal
  <2>2. \/ ends /\ (good \/ again[c]) /\ pc'[c] = "done"
        \/ ends /\ ~good /\ ~again[c] /\ pc'[c] = "group"
        \/ ~ends /\ pc'[c] = pc[c]
    BY <1>2 DEF AsksLocal
  <2>3. /\ all \subseteq indexed
        /\ \A q, r : Crowded(q, r)' <=> Crowded(q, r)
    BY <2>1 DEF AnswerInv, Page, Crowded, Before
  <2>4. \A r \in gathered[c] \cap Finds[query[c]] : r \in all \/ Crowded(query[c], r)
    <3>1. ASSUME NEW r \in gathered[c] \cap Finds[query[c]], r \notin Page(query[c])
          PROVE  Crowded(query[c], r)
      <4>1. r \in Finds[query[c]] \cap indexed
        BY <3>1 DEF AnswerInv
      <4>2. Cardinality(Before(query[c], r)) \in Nat /\ PageLimit \in Nat
        BY BeforeIsFinite, ConstantsAssumption
      <4>3. ~(Cardinality(Before(query[c], r)) < PageLimit)
        BY <3>1, <4>1 DEF Page
      <4>4. QED BY <4>2, <4>3 DEF Crowded
    <3>2. QED BY <3>1
  <2>5. again[c] => \A q \in 1..query[c] : \A r \in gathered[c] \cap Finds[q] : r \in all \/ Crowded(q, r)
    <3>1. ASSUME again[c], NEW q \in 1..query[c]
          PROVE  \A r \in gathered[c] \cap Finds[q] : r \in all \/ Crowded(q, r)
      <4>1. q = query[c] \/ q \in 1..query[c] - 1
        BY ONLY <1>0, q \in 1..query[c]
      <4>2. QED BY <2>1, <2>4, <3>1, <4>1 DEF AnswerInv
    <3>2. QED BY <3>1
  <2>6. ~again[c] => gathered[c] = {}
    BY <2>1 DEF AnswerInv
  <2> HIDE DEF all
  <2>7. CASE ~ends
    <3>1. /\ pc'[c] = "query" /\ query'[c] = query[c] + 1 /\ query'[c] - 1 = query[c]
          /\ found'[c] = all /\ again'[c] = again[c] /\ gathered'[c] = gathered[c]
          /\ indexed' = indexed /\ matched'[c] = matched[c]
      BY <1>0, <2>1, <2>2, <2>7
    <3>2. QED BY <2>3, <2>5, <2>6, <3>1 DEF AnswerInv
  <2>8. CASE ends
    <3>1. /\ pc'[c] \in {"done", "group"} /\ query'[c] = 1
          /\ found'[c] = all /\ again'[c] = again[c] /\ gathered'[c] = gathered[c]
          /\ indexed' = indexed /\ matched'[c] = matched[c]
          /\ shown'[c] = {r \in Deduped(all) : ~Hidden(r)}
      BY <2>1, <2>2, <2>8
    <3>2. ~stopped'[c] /\ gathered[c] # {} =>
            \A q \in 1..NumQueries : \A r \in gathered[c] \cap Finds[q] : r \in all \/ Crowded(q, r)
      BY <2>1, <2>5, <2>6, <2>8
    <3>3. pc'[c] = "done" /\ ~failed'[c] /\ ~stopped'[c] /\ gathered'[c] # {} =>
            /\ \A q \in 1..NumQueries :
                 \A r \in gathered'[c] \cap Finds[q] : r \in found'[c] \/ Crowded(q, r)'
            /\ shown'[c] = {r \in Deduped(found'[c]) : ~Hidden(r)}
      BY <2>3, <3>1, <3>2
    <3>4. {r \in Deduped(found'[c]) : ~Hidden(r)} = {r \in Deduped(found[c])' : ~Hidden(r)}
      BY DEF Deduped
    <3>5. /\ found'[c] \subseteq indexed' /\ gathered'[c] \subseteq indexed'
          /\ gathered'[c] # {} => matched'[c]
      BY <2>3, <3>1 DEF AnswerInv
    <3>6. QED BY <3>1, <3>3, <3>4, <3>5 DEF AnswerInv
  <2>9. QED BY <2>7, <2>8
<1>3. CASE OpensGroup(c)
  BY <1>3 DEF OpensGroup, AnswerInv
<1>4. CASE FetchesWindow(c)
  BY <1>4 DEF FetchesWindow, AnswerInv
<1>5. CASE Indexes(c)
  <2>1. /\ pc[c] = "window" /\ pc'[c] = "group" /\ matched'[c] = TRUE
        /\ indexed' = indexed \cup Whole(c) /\ gathered'[c] = gathered[c] \cup Whole(c)
        /\ UNCHANGED <<again, query, found, shown, stopped, failed>>
    BY <1>5 DEF Indexes
  <2>2. QED BY <2>1 DEF AnswerInv
<1>6. CASE FindsNothing(c)
  BY <1>6 DEF FindsNothing, AnswerInv
<1>7. CASE EndsAcquisition(c)
  <2>1. /\ pc[c] = "group" /\ pc'[c] = IF matched[c] THEN "query" ELSE "done"
        /\ again'[c] = TRUE /\ found'[c] = {}
        /\ UNCHANGED <<indexed, query, shown, stopped, matched, gathered, failed>>
    BY <1>7 DEF EndsAcquisition
  <2>2. query[c] = 1 /\ 1..query[c] - 1 = {}
    BY <2>1 DEF AnswerInv
  <2>3. pc'[c] = "done" => gathered[c] = {}
    BY <2>1 DEF AnswerInv
  <2>4. QED BY <2>1, <2>2, <2>3 DEF AnswerInv
<1>8. CASE AcquisitionFails(c) \/ WindowIsRefused(c)
  <2>1. /\ pc[c] \in {"group", "window"} /\ pc'[c] = "done" /\ failed'[c] = TRUE
        /\ indexed \subseteq indexed'
        /\ UNCHANGED <<again, query, found, shown, stopped, matched, gathered>>
    BY <1>8 DEF AcquisitionFails, WindowIsRefused, LeavesAcquisition
  <2>2. QED BY <2>1 DEF AnswerInv
<1>9. QED BY <1>1, <1>2, <1>3, <1>4, <1>5, <1>6, <1>7, <1>8 DEF ClientStep, Searches

-----------------------------------------------------------------------------
(* The stretch.                                                            *)

(* Fetching the window below, of a stretch of which nothing was wanted.    *)
LEMMA FetchStep ==
  ASSUME TypeInv, TypeInv', NEW c \in Clients, WindowInv(c), StretchInv(c), FetchesWindow(c)
  PROVE  WindowInv(c)' /\ StretchInv(c)'
<1> DEFINE g == group[c]
           start == WindowStart(c)
           got == Articles(g, There(g) \cap start..top[c])
           hits == {x \in got : Wanted(x[1])}
           last == IF windows[c] = 0 THEN top[c] ELSE searched[c][g].to
<1>1. /\ pc[c] = "window" /\ rows[c] = {} /\ windows[c] < MaxWindows /\ top[c] >= bottom[c]
      /\ UNCHANGED <<server, indexed, pc, group, bottom>>
      /\ rows'[c] = hits /\ windows'[c] = windows[c] + 1 /\ top'[c] = start - 1
  BY DEF FetchesWindow, Window, MoreWindows, NextEnd, TypeInv
<1>2. g \in Groups /\ windows[c] \in Nat /\ top[c] \in Int /\ bottom[c] \in Int /\ Batch \in Nat \ {0}
      /\ low[g] \in Int /\ high[g] \in Int /\ searched[c][g].from \in Int /\ searched[c][g].to \in Int
      /\ NumGroups \in Nat
  BY <1>1, ConstantsAssumption DEF TypeInv
<1>3. start \in Int /\ start <= top[c]
  BY <1>1, <1>2 DEF WindowStart, Larger
<1>4. searched' = [searched EXCEPT ![c][g] = [from |-> start, to |-> last]]
  BY DEF FetchesWindow
<1>5. \A h \in Groups : searched'[c][h] = IF h = g THEN [from |-> start, to |-> last] ELSE searched[c][h]
  BY <1>2, <1>4 DEF TypeInv
<1>6. last <= high[g] /\ last \in Int
  BY <1>1, <1>2 DEF WindowInv
<1>7. \A n \in start..last : n \in start..top[c] \/ n \in Stretch(c, g)
  <2>1. CASE windows[c] = 0
    BY <2>1
  <2>2. CASE windows[c] # 0
    <3>1. searched[c][g].from = top[c] + 1
      BY <1>1, <1>2, <2>2 DEF WindowInv
    <3>2. QED BY <1>2, <1>3, <2>2, <3>1 DEF Stretch
  <2>3. QED BY <2>1, <2>2
<1>8. ASSUME NEW r \in Releases, GroupOf[r] = g, Wanted(r)
      PROVE  \A n \in PartsOf[r] : n \in There(g) /\ n \in start..last => <<r, n>> \in hits
  <2>1. PartsOf[r] \subseteq Numbers /\ PartsOf[r] \cap Stretch(c, g) \cap There(g) = {}
    BY <1>1, <1>8, ConstantsAssumption DEF WindowInv
  <2>2. QED BY <1>7, <1>8, <2>1 DEF Articles
<1>9. Stretch(c, g)' = start..last /\ There(g)' = There(g)
  BY <1>1, <1>2, <1>5 DEF Stretch, There
<1>10. ASSUME NEW r \in Releases, GroupOf[r] = g, Wanted(r)
       PROVE  /\ hits = {} => PartsOf[r] \cap (start..last) \cap There(g) = {}
              /\ Wholly(c, r)' => \A n \in PartsOf[r] : <<r, n>> \in hits
  <2>1. Wholly(c, r)' => PartsOf[r] \subseteq (start..last) \cap There(g)
    BY <1>1, <1>9, <1>10 DEF Wholly
  <2>2. QED BY <1>8, <1>10, <2>1
<1>11. WindowInv(c)'
  <2>1. /\ top'[c] <= high[g] /\ windows'[c] > 0
        /\ searched'[c][g].from = top'[c] + 1 /\ searched'[c][g].to <= high[g]
    BY <1>1, <1>2, <1>3, <1>5, <1>6 DEF WindowInv
  <2> HIDE DEF hits, last, start
  <2>2. QED BY <1>1, <1>2, <1>9, <1>10, <2>1 DEF WindowInv
<1>12. StretchInv(c)'
  <2>1. \A h \in Groups : h # g => searched'[c][h] = searched[c][h]
    BY <1>5
  <2>2. searched'[c][g].to = last
    BY <1>2, <1>5
  <2>3. \A r \in Releases : GroupOf[r] \in Groups /\ (GroupOf[r] < g => GroupOf[r] # g)
    BY <1>2, ConstantsAssumption DEF Groups
  <2>4. \A r \in Releases : GroupOf[r] < g /\ Wholly(c, r)' => Wholly(c, r)
    BY <1>1, <2>1, <2>3 DEF Wholly, Stretch, There
  <2>5. \A h \in Groups : h > g => h # g
    BY <1>2 DEF Groups
  <2> HIDE DEF last, start
  <2>6. QED BY <1>1, <1>6, <2>1, <2>2, <2>4, <2>5 DEF StretchInv
<1>13. QED BY <1>11, <1>12

(* The search of a group ends, with a match or without one.                *)
LEMMA GroupEnds ==
  ASSUME TypeInv, TypeInv', NEW c \in Clients, WindowInv(c), StretchInv(c),
         Indexes(c) \/ FindsNothing(c)
  PROVE  WindowInv(c)' /\ StretchInv(c)'
<1>1. /\ pc[c] = "window" /\ pc'[c] = "group" /\ group'[c] = group[c] + 1
      /\ UNCHANGED <<server, rows, searched>>
      /\ indexed \subseteq indexed'
      /\ rows[c] # {} => indexed' = indexed \cup Whole(c)
  BY DEF Indexes, FindsNothing, TypeInv
<1>2. group[c] \in Groups /\ NumGroups \in Nat
  BY <1>1, ConstantsAssumption DEF TypeInv
<1>3. \A r \in Releases : Wholly(c, r)' = Wholly(c, r)
  BY <1>1 DEF Wholly, Stretch, There
<1>4. ASSUME NEW r \in Releases, GroupOf[r] < group'[c], Wanted(r), Audiobook(r), Wholly(c, r)
      PROVE  r \in indexed'
  <2>1. GroupOf[r] < group[c] \/ GroupOf[r] = group[c]
    BY <1>1, <1>2, <1>4, ConstantsAssumption DEF Groups
  <2>2. CASE GroupOf[r] < group[c]
    BY <1>1, <1>4, <2>2 DEF StretchInv
  <2>3. CASE GroupOf[r] = group[c]
    <3>1. PartsOf[r] # {}
      BY ConstantsAssumption
    <3>2. rows[c] # {}
      BY <1>1, <1>4, <2>3, <3>1 DEF WindowInv, Wholly
    <3>3. \A n \in PartsOf[r] : <<r, n>> \in rows[c]
      BY <1>1, <1>4, <2>3, <3>2 DEF WindowInv
    <3>4. QED BY <1>1, <1>4, <3>2, <3>3 DEF Whole
  <2>4. QED BY <2>1, <2>2, <2>3
<1>5. StretchInv(c)'
  <2>1. \A h \in Groups : h >= group'[c] => h > group[c]
    BY <1>1, <1>2 DEF Groups
  <2>2. /\ \A h \in Groups : h >= group'[c] => searched'[c][h] = Unsearched
        /\ \A h \in Groups : searched'[c][h] = Unsearched \/ searched'[c][h].to <= high'[h]
    BY <1>1, <2>1 DEF StretchInv
  <2>3. group'[c] \in Int /\ \A h \in Groups : h \in Int
    BY <1>1, <1>2 DEF Groups
  <2>4. QED BY <1>3, <1>4, <2>2, <2>3 DEF StretchInv
<1>6. QED BY <1>1, <1>5 DEF WindowInv

LEMMA StretchStep ==
  ASSUME TypeInv, TypeInv', NEW c \in Clients, WindowInv(c), StretchInv(c), ClientStep(c)
  PROVE  WindowInv(c)' /\ StretchInv(c)'
<1>1. CASE Requests(c) \/ AsksLocal(c) \/ EndsAcquisition(c)
  <2>1. /\ UNCHANGED <<server, indexed, group, searched>>
        /\ pc[c] # "window" /\ pc'[c] # "window"
    BY <1>1 DEF Requests, AsksLocal, EndsAcquisition, TypeInv
  <2>2. \A r \in Releases : Wholly(c, r)' = Wholly(c, r)
    BY <2>1 DEF Wholly, Stretch, There
  <2>3. QED BY <2>1, <2>2 DEF WindowInv, StretchInv
<1>2. CASE OpensGroup(c)
  <2>1. /\ UNCHANGED <<server, indexed, group, searched>>
        /\ pc[c] = "group" /\ pc'[c] = "window" /\ top'[c] = high[group[c]]
        /\ windows'[c] = 0 /\ rows'[c] = {}
    BY <1>2 DEF OpensGroup, TypeInv
  <2>2. group[c] \in Groups
    BY <2>1 DEF TypeInv
  <2>3. searched[c][group[c]] = Unsearched /\ Stretch(c, group[c])' = {}
    BY <2>1, <2>2 DEF StretchInv, Stretch, Unsearched
  <2>4. \A r \in Releases : Wholly(c, r)' = Wholly(c, r)
    BY <2>1 DEF Wholly, Stretch, There
  <2>5. high[group[c]] \in Int
    BY <2>2 DEF TypeInv
  <2>6. QED BY <2>1, <2>2, <2>3, <2>4, <2>5 DEF WindowInv, StretchInv
<1>3. CASE AcquisitionFails(c) \/ WindowIsRefused(c)
  <2>1. /\ UNCHANGED <<server, group>> /\ indexed \subseteq indexed' /\ pc'[c] = "done"
        /\ \A g \in Groups : searched'[c][g] = IF g < group[c] THEN searched[c][g] ELSE Unsearched
    BY <1>3 DEF AcquisitionFails, WindowIsRefused, LeavesAcquisition, TypeInv
  <2>2. \A g \in Groups : group[c] \in Int /\ g \in Int
    BY DEF TypeInv, Groups
  <2>3. \A r \in Releases : GroupOf[r] < group[c] /\ Wholly(c, r)' => Wholly(c, r)
    <3>1. \A r \in Releases : GroupOf[r] \in Groups
      BY ConstantsAssumption
    <3>2. QED BY <2>1, <3>1 DEF Wholly, Stretch, There
  <2>4. QED BY <2>1, <2>2, <2>3 DEF WindowInv, StretchInv
<1>4. QED BY <1>1, <1>2, <1>3, FetchStep, GroupEnds DEF ClientStep, Searches

LEMMA SearchCorrect == Spec => []SearchInv
<1>1. Init => SearchInv
  <2> SUFFICES ASSUME Init PROVE SearchInv
    OBVIOUS
  <2>1. NumQueries \in Nat \ {0} /\ NumGroups \in Nat /\ LastNumber \in Nat \ {0}
    BY ConstantsAssumption
  <2>2. TypeInv
    BY <2>1 DEF Init, TypeInv, Over, Unsearched
  <2>3. ASSUME NEW c \in Clients PROVE AnswerInv(c) /\ WindowInv(c)
    BY DEF Init, AnswerInv, WindowInv
  <2>4. ASSUME NEW c \in Clients PROVE StretchInv(c)
    <3>1. group[c] = 1 /\ \A g \in Groups : searched[c][g] = Unsearched
      BY DEF Init
    <3>2. \A r \in Releases : ~(GroupOf[r] < group[c])
      BY <2>1, <3>1, ConstantsAssumption DEF Groups
    <3>3. QED BY <3>1, <3>2 DEF StretchInv
  <2>5. QED BY <2>2, <2>3, <2>4 DEF SearchInv
<1>2. SearchInv /\ [Next]_vars => SearchInv'
  <2> SUFFICES ASSUME SearchInv, [Next]_vars PROVE SearchInv'
    OBVIOUS
  <2>1. TypeInv /\ TypeInv' /\ \A d \in Clients : AnswerInv(d) /\ WindowInv(d) /\ StretchInv(d)
    BY TypeStep DEF SearchInv
  <2>2. ASSUME NEW d \in Clients PROVE AnswerInv(d)' /\ WindowInv(d)' /\ StretchInv(d)'
    <3>1. CASE Own(d)' = Own(d)
      BY <2>1, <3>1, EveryStep, SearchFrame
    <3>2. CASE ClientStep(d)
      BY <2>1, <3>2, AnswerStep, StretchStep
    <3>3. QED BY <2>1, <3>1, <3>2, EveryStep
  <2>3. QED BY <2>1, <2>2 DEF SearchInv
<1>3. QED BY <1>1, <1>2, PTL DEF Spec

(* What the acquisition indexed for a request is in its answer, whatever   *)
(* the scanner and other requests index meanwhile, if it is a match, is on *)
(* the page of a query and is not displaced.                               *)
THEOREM GatheredGetsShown == Spec => []GatheredIsShown
<1>1. SearchInv => GatheredIsShown
  <2> SUFFICES ASSUME SearchInv, NEW c \in Clients, pc[c] = "done", ~failed[c], ~stopped[c],
                      NEW r \in gathered[c], ~Hidden(r),
                      NEW q \in 1..NumQueries, r \in Finds[q], ~Crowded(q, r)
               PROVE  r \in shown[c] \/ \E s \in indexed : Displaces(s, r)
    BY DEF GatheredIsShown, Crowded
  <2>1. r \in found[c] /\ found[c] \subseteq indexed
        /\ shown[c] = {x \in Deduped(found[c]) : ~Hidden(x)}
    BY DEF SearchInv, AnswerInv
  <2>2. QED BY <2>1 DEF Deduped
<1>2. QED BY <1>1, SearchCorrect, PTL

(* No article falls between two windows of a search, and none is passed    *)
(* over for a match that was not complete.                                 *)
THEOREM StretchGetsIndexed == Spec => []StretchIsIndexed
<1>1. SearchInv => StretchIsIndexed
  BY DEF SearchInv, StretchInv, Wholly, Stretch, StretchIsIndexed
<1>2. QED BY <1>1, SearchCorrect, PTL

=============================================================================
