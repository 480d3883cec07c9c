------------------------ MODULE ScannerServiceProofs ------------------------
(***************************************************************************)
(* Theorems about ScannerService, for any number of providers, groups and  *)
(* clients, and any number of requests, edits and failures.                *)
(***************************************************************************)
EXTENDS ScannerService, TLAPS

USE DEF vars, config, setting, worker, calls, Goto

-----------------------------------------------------------------------------
(* Type correctness.  It needs to know where the worker has a scan under   *)
(* way, and that a token that has no row yet is 0.                         *)

Busy == {"scan", "completed", "failed", "note"}

PlaceInv ==
  /\ pc \in Busy => at \in Scan
  /\ pc \notin Busy => at = Nothing
  /\ ~up => pc = "off"

RowInv == ~tokenRow => token = 0

TypeInv == TypeOK /\ PlaceInv /\ RowInv

LEMMA TypeInit == Init => TypeInv
<1> SUFFICES ASSUME Init PROVE TypeInv
  OBVIOUS
<1>1. FullPair \in Pair /\ NoPair \in Pair
  BY DEF Pair, Secrets, FullPair, NoPair
<1>2. secret \in [Providers -> Pair]
  BY <1>1 DEF Init
<1>3. TypeOK
  <2>1. /\ row \in [Providers -> {"new", "there", "deleted"}]
        /\ enabled \in [Providers -> BOOLEAN]
        /\ groups \in [Providers -> SUBSET Groups]
        /\ state \in [Providers -> [Groups -> {"none", "idle", "scanning", "error"}]]
        /\ client \in [Clients -> {"idle", "asking", "insert"}]
    BY DEF Init
  <2>2. /\ last \in 0..token /\ token \in Nat /\ accepted \in Nat
        /\ requests \in 0..MaxRequests /\ edits \in 0..MaxEdits /\ failures \in 0..MaxFailures
    BY ConstantsAssumption DEF Init
  <2>3. QED BY <1>2, <2>1, <2>2 DEF Init, TypeOK
<1>4. PlaceInv /\ RowInv
  BY DEF Init, PlaceInv, RowInv, Busy
<1>5. QED BY <1>3, <1>4 DEF TypeInv

LEMMA UpdatedType ==
  ASSUME NEW s \in Secrets, NEW u \in {"keep", "clear", "replace"}
  PROVE  Updated(s, u) \in Secrets
  BY DEF Updated, Encrypts, Secrets

(* An edit leaves the worker and the tokens alone.                         *)
LEMMA TypeEdit ==
  ASSUME TypeInv, NEW p \in Providers,
         Create(p) \/ Patch(p) \/ ClearCredential(p) \/ Delete(p)
  PROVE  TypeInv'
<1> USE ConstantsAssumption DEF TypeInv, PlaceInv, RowInv, Edits
<1>1. edits' \in 0..MaxEdits
  BY DEF TypeOK, Create, Patch, ClearCredential, Delete
<1>2. secret[p] \in Pair /\ secret[p].username \in Secrets /\ secret[p].password \in Secrets
  BY DEF TypeOK, Pair
<1>3. CASE Create(p)
  <2>1. PICK user \in {"keep", "replace"}, pass \in {"keep", "replace"} :
          secret' = [secret EXCEPT ![p] = [username |-> Updated("none", user),
                                           password |-> Updated("none", pass)]]
    BY <1>3 DEF Create
  <2>2. Updated("none", user) \in Secrets /\ Updated("none", pass) \in Secrets
    BY UpdatedType DEF Secrets
  <2>3. secret' \in [Providers -> Pair]
    BY <2>1, <2>2 DEF TypeOK, Pair
  <2>4. QED BY <1>1, <1>3, <2>3 DEF Create, TypeOK
<1>4. ASSUME NEW on \in BOOLEAN, NEW gs \in SUBSET Groups,
             NEW user \in {"keep", "clear", "replace"}, NEW pass \in {"keep", "clear", "replace"},
             UpdatesRow(p, on, user, pass, gs)
      PROVE  /\ enabled' \in [Providers -> BOOLEAN]
             /\ secret' \in [Providers -> Pair]
             /\ groups' \in [Providers -> SUBSET Groups]
  <2>1. Updated(secret[p].username, user) \in Secrets /\ Updated(secret[p].password, pass) \in Secrets
    BY <1>2, UpdatedType
  <2>2. secret' \in [Providers -> Pair]
    BY <1>4, <2>1 DEF UpdatesRow, TypeOK, Pair
  <2>3. QED BY <1>4, <2>2 DEF UpdatesRow, TypeOK
<1>5. CASE Patch(p)
  BY <1>1, <1>4, <1>5 DEF Patch, TypeOK
<1>6. CASE ClearCredential(p)
  <2>1. enabled[p] \in BOOLEAN /\ groups[p] \in SUBSET Groups
    BY DEF TypeOK
  <2>2. QED BY <1>1, <1>4, <1>6, <2>1 DEF ClearCredential, TypeOK
<1>7. CASE Delete(p)
  BY <1>1, <1>7 DEF Delete, TypeOK
<1>8. QED BY <1>3, <1>5, <1>6, <1>7

LEMMA TypeRequest ==
  ASSUME TypeInv, NEW c \in Clients,
         AsksScanNow(c) \/ RequestScanNow(c) \/ InsertsToken(c)
  PROVE  TypeInv'
<1> USE ConstantsAssumption DEF TypeInv, PlaceInv, RowInv, At
<1>1. CASE AsksScanNow(c)
  BY <1>1 DEF AsksScanNow, TypeOK
<1>2. CASE RequestScanNow(c)
  <2>1. token' \in Nat /\ accepted' \in Nat /\ last' \in 0..token'
    BY <1>2 DEF RequestScanNow, CountsUp, TypeOK
  <2>2. client' \in [Clients -> {"idle", "asking", "insert"}]
    BY <1>2 DEF RequestScanNow, CountsUp, TypeOK
  <2>3. QED BY <1>2, <2>1, <2>2 DEF RequestScanNow, CountsUp, TypeOK
<1>3. CASE InsertsToken(c)
  <2>1. token' \in Nat /\ accepted' \in Nat /\ last' \in 0..token'
    BY <1>3 DEF InsertsToken, FirstToken, TypeOK
  <2>2. client' \in [Clients -> {"idle", "asking", "insert"}]
    BY <1>3 DEF InsertsToken, TypeOK
  <2>3. tokenRow' \in BOOLEAN /\ asked' \in BOOLEAN
    BY <1>3 DEF InsertsToken, FirstToken, TypeOK
  <2>4. RowInv'
    BY <1>3 DEF InsertsToken, FirstToken
  <2>5. QED BY <1>3, <2>1, <2>2, <2>3, <2>4 DEF InsertsToken, TypeOK
<1>4. QED BY <1>1, <1>2, <1>3

(* The end of the process, for every step that may be one.                 *)
LEMMA TypeDies ==
  ASSUME TypeInv, Dies, UNCHANGED <<row, enabled, groups, state, setting, calls, asked>>,
         fresh' \in BOOLEAN, secret' \in [Providers -> Pair],
         edits' \in 0..MaxEdits, failures' \in 0..MaxFailures
  PROVE  TypeInv'
<1>1. at # Nothing => at \in Scan
  BY DEF TypeInv, TypeOK
<1>2. cut' \subseteq Providers \X Groups
  BY <1>1 DEF Dies, TypeInv, TypeOK, Scan
<1>3. last' \in 0..token'
  BY DEF Dies, TypeInv, TypeOK
<1>4. PlaceInv' /\ RowInv'
  BY DEF Dies, TypeInv, PlaceInv, RowInv, Busy
<1>5. TypeOK'
  BY <1>2, <1>3 DEF Dies, TypeInv, TypeOK
<1>6. QED BY <1>4, <1>5 DEF TypeInv

LEMMA TypeWorker ==
  ASSUME TypeInv, Works \/ IntervalPasses \/ Boots \/ Fails
  PROVE  TypeInv'
<1> USE ConstantsAssumption DEF TypeInv, PlaceInv, RowInv, Busy, Beats
<1>1. CASE ReadsFirstToken
  BY <1>1 DEF ReadsFirstToken, TypeOK
<1>2. CASE ReadsSettings
  BY <1>2 DEF ReadsSettings, TypeOK
<1>3. CASE ListsEnabled
  BY <1>3 DEF ListsEnabled, TypeOK
<1>4. CASE LoadsAll
  BY <1>4 DEF LoadsAll, TypeOK
<1>5. ASSUME NEW p \in Providers, Loads(p) PROVE TypeInv'
  <2>1. CASE Dies
    BY <1>5, <2>1, TypeDies DEF Loads, TypeOK
  <2>2. CASE ~Dies
    <3> DEFINE paired == (secret[p].username = "none") = (secret[p].password = "none")
    <3>1. /\ pc = "load" /\ UNCHANGED <<up, pc, last, first, at, cut>>
          /\ todo' = todo \ {p}
          /\ pending' = pending \cup {[id |-> p, group |-> g, paired |-> paired] : g \in groups[p]}
      BY <1>5, <2>2 DEF Loads
    <3>2. paired \in BOOLEAN
      OBVIOUS
    <3> HIDE DEF paired
    <3>3. groups[p] \subseteq Groups
      BY DEF TypeOK
    <3>4. {[id |-> p, group |-> g, paired |-> paired] : g \in groups[p]} \subseteq Scan
      BY <3>2, <3>3 DEF Scan
    <3>5. pending' \subseteq Scan
      BY <3>1, <3>4 DEF TypeOK
    <3>6. QED BY <1>5, <3>1, <3>5 DEF Loads, TypeOK
  <2>3. QED BY <2>1, <2>2
<1>6. CASE MarksStarted
  <2>1. PICK x \in pending :
          \/ /\ Goto("next", "scan")
             /\ Upserts(x.id, x.group, "scanning")
             /\ at' = x /\ pending' = pending \ {x}
             /\ cut' = cut \ {<<x.id, x.group>>}
             /\ UNCHANGED <<up, last, first, todo>>
          \/ up /\ pc = "next" /\ row[x.id] # "there" /\ Dies /\ UNCHANGED state
    BY <1>6 DEF MarksStarted
  <2>2. x \in Scan /\ x.id \in Providers /\ x.group \in Groups
    BY DEF TypeOK, Scan
  <2>3. CASE Dies /\ UNCHANGED state
    BY <1>6, <2>3, TypeDies DEF MarksStarted, TypeOK
  <2>4. CASE Goto("next", "scan") /\ Upserts(x.id, x.group, "scanning") /\ at' = x
             /\ pending' = pending \ {x} /\ cut' = cut \ {<<x.id, x.group>>}
             /\ UNCHANGED <<up, last, first, todo>>
    <3>1. state' \in [Providers -> [Groups -> {"none", "idle", "scanning", "error"}]]
      BY <2>2, <2>4 DEF Upserts, TypeOK
    <3>2. QED BY <1>6, <2>2, <2>4, <3>1 DEF MarksStarted, TypeOK
  <2>5. QED BY <2>1, <2>3, <2>4
<1>7. CASE Scans
  BY <1>7 DEF Scans, TypeOK
<1>8. ASSUME NEW here \in {"completed", "failed"}, NEW s \in {"idle", "error"}, Marks(here, s)
      PROVE  TypeInv'
  <2>1. CASE Dies /\ UNCHANGED state
    BY <1>8, <2>1, TypeDies DEF Marks, TypeOK
  <2>2. CASE Goto(here, "note") /\ Records(s) /\ UNCHANGED <<up, last, first, todo, pending, at, cut>>
    <3>1. at \in Scan /\ at.id \in Providers /\ at.group \in Groups
      BY <2>2 DEF Scan
    <3>2. state' \in [Providers -> [Groups -> {"none", "idle", "scanning", "error"}]]
      BY <2>2, <3>1 DEF Records, Upserts, TypeOK
    <3>3. QED BY <1>8, <2>2, <3>1, <3>2 DEF Marks, TypeOK
  <2>3. QED BY <1>8, <2>1, <2>2 DEF Marks
<1>9. CASE AppendsActivity
  BY <1>9 DEF AppendsActivity, TypeOK
<1>10. CASE EndsPass
  BY <1>10 DEF EndsPass, TypeOK
<1>11. CASE ReadsToken
  <2>1. last' \in 0..token'
    BY <1>11 DEF ReadsToken, TypeOK
  <2>2. QED BY <1>11, <2>1 DEF ReadsToken, TypeOK
<1>12. CASE IntervalPasses
  BY <1>12 DEF IntervalPasses, TypeOK
<1>13. CASE Boots
  BY <1>13 DEF Boots, TypeOK
<1>14. CASE Fails
  BY <1>14, TypeDies DEF Fails, TypeOK
<1>15. QED
  BY <1>1, <1>2, <1>3, <1>4, <1>5, <1>6, <1>7, <1>8, <1>9, <1>10, <1>11, <1>12, <1>13, <1>14
  DEF Works, MarksCompleted, MarksError

LEMMA TypeRest ==
  ASSUME TypeInv, HeartbeatLoop \/ HeartbeatAges \/ KeyChanges \/ UpdateSettings
  PROVE  TypeInv'
<1> USE ConstantsAssumption DEF TypeInv, PlaceInv, RowInv, Beats, Edits
<1>1. CASE HeartbeatLoop
  BY <1>1 DEF HeartbeatLoop, TypeOK
<1>2. CASE HeartbeatAges
  BY <1>2 DEF HeartbeatAges, TypeOK
<1>3. CASE KeyChanges
  <2>1. \A p \in Providers : secret[p].username \in Secrets /\ secret[p].password \in Secrets
    BY DEF TypeOK, Pair
  <2>2. \A s \in Secrets : Aged(s) \in Secrets
    BY DEF Aged, Secrets
  <2>3. secret' \in [Providers -> Pair]
    BY <1>3, <2>1, <2>2 DEF KeyChanges, Pair
  <2>4. edits' \in 0..MaxEdits
    BY <1>3 DEF KeyChanges, TypeOK
  <2>5. QED BY <1>3, <2>3, <2>4, TypeDies DEF KeyChanges, TypeOK
<1>4. CASE UpdateSettings
  BY <1>4 DEF UpdateSettings, TypeOK
<1>5. QED BY <1>1, <1>2, <1>3, <1>4

LEMMA TypeStep == TypeInv /\ [Next]_vars => TypeInv'
<1> SUFFICES ASSUME TypeInv, [Next]_vars PROVE TypeInv'
  OBVIOUS
<1>1. CASE UNCHANGED vars
  BY <1>1 DEF TypeInv, TypeOK, PlaceInv, RowInv
<1>2. CASE Next
  BY <1>2, TypeEdit, TypeRequest, TypeWorker, TypeRest DEF Next
<1>3. QED BY <1>1, <1>2

LEMMA TypeInvariant == Spec => []TypeInv
  BY TypeInit, TypeStep, PTL DEF Spec

(* The service, its settings and its requests stay within their types.     *)
THEOREM TypeCorrect == Spec => []TypeOK
<1>1. TypeInv => TypeOK
  BY DEF TypeInv
<1>2. QED BY <1>1, TypeInvariant, PTL

-----------------------------------------------------------------------------
(* Tokens.                                                                 *)

LEMMA TokensStep == TypeInv /\ TokensAreDistinct /\ [Next]_vars => TokensAreDistinct'
<1> SUFFICES ASSUME TypeInv, TokensAreDistinct, [Next]_vars PROVE accepted' = token'
  BY DEF TokensAreDistinct
<1> USE DEF TokensAreDistinct
<1>1. CASE UNCHANGED <<token, accepted>>
  BY <1>1
<1>2. ASSUME NEW c \in Clients, RequestScanNow(c) PROVE accepted' = token'
  BY <1>2 DEF RequestScanNow, CountsUp
<1>3. ASSUME NEW c \in Clients, InsertsToken(c) PROVE accepted' = token'
  BY <1>3 DEF InsertsToken, FirstToken, TypeInv, RowInv
<1>4. ASSUME Works \/ IntervalPasses \/ Boots \/ Fails PROVE UNCHANGED <<token, accepted>>
  BY <1>4 DEF Works, IntervalPasses, Boots, Fails, ReadsFirstToken, ReadsSettings, ListsEnabled,
    LoadsAll, Loads, MarksStarted, Scans, MarksCompleted, MarksError, Marks, AppendsActivity,
    EndsPass, ReadsToken
<1>5. ASSUME \/ HeartbeatLoop \/ HeartbeatAges \/ KeyChanges \/ UpdateSettings
             \/ \E p \in Providers : Create(p) \/ Patch(p) \/ ClearCredential(p) \/ Delete(p)
             \/ \E c \in Clients : AsksScanNow(c)
             \/ UNCHANGED vars
      PROVE  UNCHANGED <<token, accepted>>
  BY <1>5 DEF HeartbeatLoop, HeartbeatAges, KeyChanges, UpdateSettings, Create, Patch,
    ClearCredential, Delete, AsksScanNow
<1>6. QED BY <1>1, <1>2, <1>3, <1>4, <1>5 DEF Next

(* Every accepted request has a token of its own, also when two of them    *)
(* find no row: one of the inserts is refused.                             *)
THEOREM RequestsAreToldApart == Spec => []TokensAreDistinct
<1>1. Init => TokensAreDistinct
  BY DEF Init, TokensAreDistinct
<1>2. QED BY <1>1, TokensStep, TypeInvariant, PTL DEF Spec

-----------------------------------------------------------------------------
(* Statuses.  A scan that is over is not forgotten before its status was   *)
(* taken back; so at the end of a group's turn nothing is left behind.     *)

Scanning(p, g) == state[p][g] = "scanning"

NoteInv == pc = "note" => ~Scanning(at.id, at.group)

StatusInv == StatusIsCurrent /\ NoteInv

LEMMA ScanIsSomething == \A x \in Scan : x # Nothing
<1>1. "id" \in DOMAIN Nothing /\ "group" \notin DOMAIN Nothing
  BY DEF Nothing
<1>2. \A x \in Scan : "group" \in DOMAIN x
  BY DEF Scan
<1>3. QED BY <1>1, <1>2

(* A step that moves neither statuses nor the scan under way.              *)
LEMMA StatusUntouched ==
  ASSUME StatusInv, UNCHANGED <<state, at, cut>>, pc' = "note" => pc = "note"
  PROVE  StatusInv'
  BY DEF StatusInv, StatusIsCurrent, NoteInv, Scanning

(* The process ends: the scan it was in is accounted for in cut.           *)
LEMMA StatusDies ==
  ASSUME TypeInv, StatusInv, Dies, UNCHANGED state
  PROVE  StatusInv'
<1>1. ASSUME NEW p \in Providers, NEW g \in Groups, state'[p][g] = "scanning"
      PROVE  <<p, g>> \in cut'
  <2>1. (at # Nothing /\ at.id = p /\ at.group = g) \/ <<p, g>> \in cut
    BY <1>1 DEF StatusInv, StatusIsCurrent
  <2>2. CASE <<p, g>> \in cut
    BY <2>2 DEF Dies
  <2>3. CASE at # Nothing /\ at.id = p /\ at.group = g
    BY <1>1, <2>3 DEF Dies
  <2>4. QED BY <2>1, <2>2, <2>3
<1>2. NoteInv'
  BY DEF Dies, NoteInv
<1>3. QED BY <1>1, <1>2 DEF StatusInv, StatusIsCurrent

LEMMA StatusStarts ==
  ASSUME TypeInv, StatusInv, MarksStarted
  PROVE  StatusInv'
<1>1. CASE Dies /\ UNCHANGED state
  BY <1>1, StatusDies
<1>2. CASE ~(Dies /\ UNCHANGED state)
  <2>1. PICK x \in pending :
          /\ Goto("next", "scan")
          /\ Upserts(x.id, x.group, "scanning")
          /\ at' = x /\ cut' = cut \ {<<x.id, x.group>>}
    BY <1>2 DEF MarksStarted
  <2>2. x \in Scan /\ x.id \in Providers /\ x.group \in Groups /\ x # Nothing
    BY ScanIsSomething DEF TypeInv, TypeOK, Scan
  <2>3. at = Nothing
    BY <2>1 DEF TypeInv, PlaceInv, Busy
  <2>4. ASSUME NEW p \in Providers, NEW g \in Groups, state'[p][g] = "scanning"
        PROVE  (at' # Nothing /\ at'.id = p /\ at'.group = g) \/ <<p, g>> \in cut'
    <3>1. CASE p = x.id /\ g = x.group
      BY <2>1, <2>2, <3>1
    <3>2. CASE ~(p = x.id /\ g = x.group)
      <4>1. state[p][g] = "scanning"
        BY <2>1, <2>2, <2>4, <3>2 DEF Upserts, TypeInv, TypeOK
      <4>2. <<p, g>> \in cut
        BY <2>3, <4>1 DEF StatusInv, StatusIsCurrent
      <4>3. QED BY <2>1, <3>2, <4>2
    <3>3. QED BY <3>1, <3>2
  <2>5. NoteInv'
    BY <2>1 DEF NoteInv
  <2>6. QED BY <2>4, <2>5 DEF StatusInv, StatusIsCurrent
<1>3. QED BY <1>1, <1>2

LEMMA StatusMarks ==
  ASSUME TypeInv, StatusInv, NEW here \in {"completed", "failed"}, NEW s \in {"idle", "error"},
         Marks(here, s)
  PROVE  StatusInv'
<1>1. CASE Dies /\ UNCHANGED state
  BY <1>1, StatusDies
<1>2. CASE ~(Dies /\ UNCHANGED state)
  <2>1. Goto(here, "note") /\ Records(s) /\ UNCHANGED <<at, cut>>
    BY <1>2 DEF Marks
  <2>2. at \in Scan /\ at.id \in Providers /\ at.group \in Groups
    BY <2>1 DEF TypeInv, PlaceInv, Busy, Scan
  <2>3. state' = [state EXCEPT ![at.id][at.group] = s]
    BY <2>1 DEF Records, Upserts
  <2>4. state'[at.id][at.group] = s
    BY <2>2, <2>3 DEF TypeInv, TypeOK
  <2>5. \A p \in Providers, g \in Groups : state'[p][g] = "scanning" => state[p][g] = "scanning"
    BY <2>2, <2>3 DEF TypeInv, TypeOK
  <2>6. QED BY <2>1, <2>4, <2>5 DEF StatusInv, StatusIsCurrent, NoteInv, Scanning
<1>3. QED BY <1>1, <1>2

LEMMA StatusEndsTurn ==
  ASSUME TypeInv, StatusInv, AppendsActivity
  PROVE  StatusInv'
<1>1. \A p \in Providers, g \in Groups : state[p][g] = "scanning" => <<p, g>> \in cut
  BY DEF StatusInv, StatusIsCurrent, NoteInv, Scanning, AppendsActivity
<1>2. QED BY <1>1 DEF AppendsActivity, StatusInv, StatusIsCurrent, NoteInv

LEMMA StatusDeletes ==
  ASSUME TypeInv, StatusInv, NEW p \in Providers, Delete(p)
  PROVE  StatusInv'
<1>1. state' = [state EXCEPT ![p] = [g \in Groups |-> "none"]]
  BY DEF Delete
<1>2. \A q \in Providers, g \in Groups :
        state'[q][g] = "scanning" => q # p /\ state[q][g] = "scanning"
  BY <1>1 DEF TypeInv, TypeOK
<1>3. UNCHANGED <<at, pc>> /\ cut' = {x \in cut : x[1] # p}
  BY DEF Delete
<1>4. StatusIsCurrent'
  BY <1>2, <1>3 DEF StatusInv, StatusIsCurrent
<1>5. NoteInv'
  <2>1. pc = "note" => at.id \in Providers /\ at.group \in Groups
    BY DEF TypeInv, PlaceInv, Busy, Scan
  <2>2. QED BY <1>2, <1>3, <2>1 DEF StatusInv, NoteInv, Scanning
<1>6. QED BY <1>4, <1>5 DEF StatusInv

LEMMA StatusStep == TypeInv /\ StatusInv /\ [Next]_vars => StatusInv'
<1> SUFFICES ASSUME TypeInv, StatusInv, [Next]_vars PROVE StatusInv'
  OBVIOUS
<1>1. ASSUME \/ ReadsFirstToken \/ ReadsSettings \/ ListsEnabled \/ LoadsAll \/ Scans
             \/ EndsPass \/ ReadsToken \/ IntervalPasses \/ Boots
      PROVE  StatusInv'
  BY <1>1, StatusUntouched DEF ReadsFirstToken, ReadsSettings, ListsEnabled, LoadsAll, Scans,
    EndsPass, ReadsToken, IntervalPasses, Boots
<1>2. ASSUME NEW p \in Providers, Loads(p) PROVE StatusInv'
  BY <1>2, StatusUntouched, StatusDies DEF Loads
<1>3. ASSUME Fails \/ KeyChanges PROVE StatusInv'
  BY <1>3, StatusDies DEF Fails, KeyChanges
<1>4. ASSUME MarksCompleted \/ MarksError PROVE StatusInv'
  BY <1>4, StatusMarks DEF MarksCompleted, MarksError
<1>5. ASSUME HeartbeatLoop \/ HeartbeatAges \/ UpdateSettings PROVE StatusInv'
  BY <1>5, StatusUntouched DEF HeartbeatLoop, HeartbeatAges, UpdateSettings
<1>6. ASSUME NEW p \in Providers, Create(p) \/ Patch(p) \/ ClearCredential(p) PROVE StatusInv'
  BY <1>6, StatusUntouched DEF Create, Patch, ClearCredential
<1>7. ASSUME NEW c \in Clients, AsksScanNow(c) \/ RequestScanNow(c) \/ InsertsToken(c)
      PROVE  StatusInv'
  BY <1>7, StatusUntouched DEF AsksScanNow, RequestScanNow, InsertsToken
<1>8. CASE UNCHANGED vars
  BY <1>8, StatusUntouched
<1>9. QED
  BY <1>1, <1>2, <1>3, <1>4, <1>5, <1>6, <1>7, <1>8, StatusStarts, StatusEndsTurn, StatusDeletes
  DEF Next, Works

(* "Scanning" on the status page means that the worker is at that group or *)
(* died in that scan, whatever raises, and however providers and groups    *)
(* change during the pass.                                                 *)
THEOREM StatusesAreCurrent == Spec => []StatusIsCurrent
<1>1. Init => StatusInv
  BY DEF Init, StatusInv, StatusIsCurrent, NoteInv
<1>2. StatusInv => StatusIsCurrent
  BY DEF StatusInv
<1>3. QED BY <1>1, <1>2, StatusStep, TypeInvariant, PTL DEF Spec
=============================================================================
