--------------------------- MODULE ScannerService ---------------------------
(***************************************************************************)
(* The scanner worker (workers/nntp_scanner.py) and what the browser may   *)
(* do to it meanwhile: change the providers and their secrets              *)
(* (api/nntp_settings.py, nntp/repository.py), switch scanning on and off  *)
(* and ask for a scan now (api/indexer.py, runtime_repository.py).         *)
(*                                                                         *)
(* One action is one transaction, a heartbeat just before it taken with    *)
(* it.  The scan of a group is one step with two outcomes here; GroupScan  *)
(* has its inside.  An exception outside the try block of run_pass ends    *)
(* run_forever and the process, which Docker starts again.                 *)
(***************************************************************************)
EXTENDS Naturals, FiniteSets

CONSTANTS
  Providers,           (* provider ids, never used twice                    *)
  Configured,          (* those there at first                              *)
  Groups,              (* newsgroup names                                   *)
  Clients,             (* requests for a scan now that may run at a time    *)
  MaxRequests,         (* bound: such requests                              *)
  MaxEdits,            (* bound: changes of providers and settings          *)
  MaxFailures          (* bound: transactions that raise, and kills         *)

ASSUME ConstantsAssumption ==
  /\ Configured \subseteq Providers
  /\ MaxRequests \in Nat /\ MaxEdits \in Nat /\ MaxFailures \in Nat

(* A stored secret: none, sealed under the current master key, or sealed   *)
(* under an earlier one.                                                   *)
Secrets == {"none", "sealed", "stale"}
Pair    == [username : Secrets, password : Secrets]
NoPair  == [username |-> "none", password |-> "none"]
FullPair == [username |-> "sealed", password |-> "sealed"]

Scan    == [id : Providers, group : Groups, paired : BOOLEAN]
Nothing == [id |-> "none"]

VARIABLES
  row,                 (* nntp_providers: "new", "there" or "deleted"       *)
  enabled, secret,     (* columns of it                                     *)
  groups,              (* nntp_provider_groups: the enabled ones            *)
  state,               (* scanner_group_state.status                        *)
  scanning,            (* scanner_enabled                                   *)
  token, tokenRow,     (* scan_request_token, and whether its row exists    *)
  fresh,               (* the heartbeat is not older than two minutes       *)
  up, pc,              (* the worker                                        *)
  last,                (* last_request_token                                *)
  first,               (* last_scan_at is None                              *)
  todo,                (* ids list_enabled has still to load                *)
  pending, at,         (* scans to come, and the one under way              *)
  client,              (* where a scan-now request is                       *)
  accepted,            (* history: requests answered with a token           *)
  asked,               (* history: one since the worker last read the token *)
  cut,                 (* history: scans the worker died in                 *)
  requests, edits, failures

config  == <<row, enabled, secret, groups>>
setting == <<scanning, token, tokenRow>>
worker  == <<up, pc, last, first, todo, pending, at>>
calls   == <<client, accepted, requests>>
vars == <<config, state, setting, fresh, worker, calls, asked, cut, edits, failures>>

Init ==
  /\ row = [p \in Providers |-> IF p \in Configured THEN "there" ELSE "new"]
  /\ enabled = [p \in Providers |-> p \in Configured]
  /\ secret = [p \in Providers |-> IF p \in Configured THEN FullPair ELSE NoPair]
  /\ groups = [p \in Providers |-> IF p \in Configured THEN Groups ELSE {}]
  /\ state = [p \in Providers |-> [g \in Groups |-> "none"]]
  /\ scanning = TRUE /\ token = 0 /\ tokenRow = FALSE
  /\ fresh = FALSE
  /\ up = FALSE /\ pc = "off" /\ last = 0 /\ first = TRUE
  /\ todo = {} /\ pending = {} /\ at = Nothing
  /\ client = [c \in Clients |-> "idle"]
  /\ accepted = 0 /\ asked = FALSE /\ cut = {}
  /\ requests = 0 /\ edits = 0 /\ failures = 0

-----------------------------------------------------------------------------
(* The provider settings.  A call that is refused changes nothing.         *)

Edits == edits < MaxEdits /\ edits' = edits + 1

Encrypts(s) == "sealed"
Decrypts(s) == s = "sealed"

(* _updated_secret                                                         *)
Updated(s, update) ==
  CASE update = "keep"    -> s
    [] update = "clear"   -> "none"
    [] update = "replace" -> Encrypts(s)

(* create: with both secrets, one of them or none.  What else an edit may  *)
(* choose, patch does.                                                     *)
Create(p) ==
  /\ Edits
  /\ row[p] = "new"
  /\ \E user, pass \in {"keep", "replace"} :
       secret' = [secret EXCEPT ![p] = [username |-> Updated("none", user),
                                        password |-> Updated("none", pass)]]
  /\ enabled' = [enabled EXCEPT ![p] = TRUE]
  /\ groups' = [groups EXCEPT ![p] = Groups]
  /\ row' = [row EXCEPT ![p] = "there"]
  /\ UNCHANGED <<state, setting, fresh, worker, calls, asked, cut, failures>>

UpdatesRow(p, on, user, pass, gs) ==
  /\ row[p] = "there"
  /\ enabled' = [enabled EXCEPT ![p] = on]
  /\ secret' = [secret EXCEPT ![p] = [username |-> Updated(secret[p].username, user),
                                      password |-> Updated(secret[p].password, pass)]]
  /\ groups' = [groups EXCEPT ![p] = gs]

Patch(p) ==
  /\ Edits
  /\ \E on \in BOOLEAN, user, pass \in {"keep", "replace"}, gs \in SUBSET Groups :
       UpdatesRow(p, on, user, pass, gs)
  /\ UNCHANGED <<row, state, setting, fresh, worker, calls, asked, cut, failures>>

ClearCredential(p) ==
  /\ Edits
  /\ \/ UpdatesRow(p, enabled[p], "clear", "keep", groups[p])
     \/ UpdatesRow(p, enabled[p], "keep", "clear", groups[p])
  /\ UNCHANGED <<row, state, setting, fresh, worker, calls, asked, cut, failures>>

(* The rows of the provider's groups and their states go with it.          *)
Delete(p) ==
  /\ Edits
  /\ row[p] = "there"
  /\ row' = [row EXCEPT ![p] = "deleted"]
  /\ groups' = [groups EXCEPT ![p] = {}]
  /\ state' = [state EXCEPT ![p] = [g \in Groups |-> "none"]]
  /\ cut' = {x \in cut : x[1] # p}
  /\ UNCHANGED <<enabled, secret, setting, fresh, worker, calls, asked, failures>>

UpdateSettings ==
  /\ Edits
  /\ scanning' = ~scanning
  /\ UNCHANGED <<config, state, token, tokenRow, fresh, worker, calls, asked, cut, failures>>

-----------------------------------------------------------------------------
(* Scan now.                                                               *)

At(c, here, there) == client[c] = here /\ client' = [client EXCEPT ![c] = there]

AsksScanNow(c) ==
  /\ fresh
  /\ requests < MaxRequests /\ requests' = requests + 1
  /\ At(c, "idle", "asking")
  /\ UNCHANGED <<config, state, setting, fresh, worker, accepted, asked, cut, edits, failures>>

(* The select locks the row, if there is one, until the commit.            *)
CountsUp(c) ==
  /\ tokenRow
  /\ At(c, "asking", "idle")
  /\ token' = token + 1
  /\ accepted' = accepted + 1 /\ asked' = TRUE
  /\ UNCHANGED tokenRow

RequestScanNow(c) ==
  /\ \/ CountsUp(c)
     \/ /\ ~tokenRow
        /\ At(c, "asking", "insert")
        /\ UNCHANGED <<token, tokenRow, accepted, asked>>
  /\ UNCHANGED <<config, state, scanning, fresh, worker, requests, cut, edits, failures>>

(* Of two first requests one inserts the row, the other raises.  Mutant:   *)
(* the insert is an upsert.                                                *)
FirstToken ==
  /\ token' = 1 /\ tokenRow' = TRUE
  /\ accepted' = accepted + 1 /\ asked' = TRUE

UpsertsToken(c) ==
  /\ At(c, "insert", "idle")
  /\ FirstToken
  /\ UNCHANGED <<config, state, scanning, fresh, worker, requests, cut, edits, failures>>

InsertsToken(c) ==
  /\ At(c, "insert", "idle")
  /\ IF tokenRow THEN UNCHANGED <<token, tokenRow, accepted, asked>> ELSE FirstToken
  /\ UNCHANGED <<config, state, scanning, fresh, worker, requests, cut, edits, failures>>

-----------------------------------------------------------------------------
(* The worker.                                                             *)

Goto(here, there) == up /\ pc = here /\ pc' = there

Beats == fresh' = TRUE

(* The process is over.  A group it was scanning stays as it is.           *)
Dies ==
  /\ up' = FALSE /\ pc' = "off"
  /\ last' = 0 /\ first' = TRUE
  /\ todo' = {} /\ pending' = {} /\ at' = Nothing
  /\ cut' = IF at # Nothing /\ state[at.id][at.group] = "scanning"
            THEN cut \cup {<<at.id, at.group>>} ELSE cut

Boots ==
  /\ ~up
  /\ up' = TRUE /\ pc' = "boot"
  /\ UNCHANGED <<config, state, setting, fresh, last, first, todo, pending, at, calls, asked, cut, edits,
                 failures>>

Fails ==
  /\ up
  /\ failures < MaxFailures /\ failures' = failures + 1
  /\ Dies
  /\ UNCHANGED <<config, state, setting, fresh, calls, asked, edits>>

ReadsFirstToken ==
  /\ Goto("boot", "settings")
  /\ last' = token
  /\ UNCHANGED <<config, state, setting, fresh, up, first, todo, pending, at, calls, asked, cut, edits,
                 failures>>

(* Whether the interval is over is open (IntervalPasses), except before    *)
(* the first pass.  Mutant: the token is not looked at.                    *)
FirstOnly == scanning /\ first

Wanted == scanning /\ (first \/ token # last)

ReadsSettings ==
  /\ \/ Wanted /\ Goto("settings", "list")
     \/ ~Wanted /\ Goto("settings", "settings")
  /\ Beats
  /\ UNCHANGED <<config, state, setting, up, last, first, todo, pending, at, calls, asked, cut, edits,
                 failures>>

IntervalPasses ==
  /\ scanning /\ ~first
  /\ Goto("settings", "list")
  /\ Beats
  /\ UNCHANGED <<config, state, setting, up, last, first, todo, pending, at, calls, asked, cut, edits,
                 failures>>

ListsEnabled ==
  /\ Goto("list", "load")
  /\ Beats
  /\ todo' = {p \in Providers : row[p] = "there" /\ enabled[p]}
  /\ UNCHANGED <<config, state, setting, up, last, first, pending, at, calls, asked, cut, edits, failures>>

(* _provider_from_row                                                      *)
Opens(p) ==
  \A s \in {secret[p].username, secret[p].password} : s # "none" => Decrypts(s)

(* get, for one of the ids.  It does not ask again whether the provider is *)
(* enabled.                                                                *)
Loads(p) ==
  /\ up /\ pc = "load" /\ p \in todo
  /\ \/ /\ row[p] = "there" => Opens(p)
        /\ todo' = todo \ {p}
        /\ pending' = pending \cup
             {[id |-> p, group |-> g,
               paired |-> (secret[p].username = "none") = (secret[p].password = "none")] :
                g \in groups[p]}
        /\ UNCHANGED <<up, pc, last, first, at, cut>>
     \/ row[p] = "there" /\ ~Opens(p) /\ Dies
  /\ UNCHANGED <<config, state, setting, fresh, calls, asked, edits, failures>>

LoadsAll ==
  /\ todo = {}
  /\ Goto("load", "next")
  /\ UNCHANGED <<config, state, setting, fresh, up, last, first, todo, pending, at, calls, asked, cut, edits,
                 failures>>

(* A state row needs its provider's row.                                   *)
Upserts(p, g, s) ==
  /\ row[p] = "there"
  /\ state' = [state EXCEPT ![p][g] = s]

MarksStarted ==
  /\ \E x \in pending :
       \/ /\ Goto("next", "scan")
          /\ Upserts(x.id, x.group, "scanning")
          /\ at' = x /\ pending' = pending \ {x}
          /\ cut' = cut \ {<<x.id, x.group>>}
          /\ UNCHANGED <<up, last, first, todo>>
       \/ up /\ pc = "next" /\ row[x.id] # "there" /\ Dies /\ UNCHANGED state
  /\ Beats
  /\ UNCHANGED <<config, setting, calls, asked, edits, failures>>

(* Half a pair of credentials is refused before anything is sent.          *)
Scans ==
  /\ \/ Goto("scan", "completed") /\ at.paired
     \/ Goto("scan", "failed")
  /\ UNCHANGED <<config, state, setting, fresh, up, last, first, todo, pending, at, calls, asked, cut, edits,
                 failures>>

(* Mutant: an exception of the scan is not recorded.                       *)
SkipsError(s) ==
  \/ s = "idle" /\ Upserts(at.id, at.group, s)
  \/ s = "error" /\ row[at.id] = "there" /\ UNCHANGED state

Records(s) == Upserts(at.id, at.group, s)

(* mark_scan_completed or mark_scan_error; then append_activity.           *)
Marks(here, s) ==
  /\ \/ /\ Goto(here, "note")
        /\ Records(s)
        /\ UNCHANGED <<up, last, first, todo, pending, at, cut>>
     \/ up /\ pc = here /\ row[at.id] # "there" /\ Dies /\ UNCHANGED state
  /\ UNCHANGED <<config, setting, fresh, calls, asked, edits, failures>>

MarksCompleted == Marks("completed", "idle")
MarksError     == Marks("failed", "error")

AppendsActivity ==
  /\ Goto("note", "next")
  /\ at' = Nothing
  /\ Beats
  /\ UNCHANGED <<config, state, setting, up, last, first, todo, pending, calls, asked, cut, edits, failures>>

EndsPass ==
  /\ pending = {}
  /\ Goto("next", "token")
  /\ UNCHANGED <<config, state, setting, fresh, up, last, first, todo, pending, at, calls, asked, cut, edits,
                 failures>>

(* What was requested while the pass ran is taken as served by it.         *)
(* Mutant: the token after it is remembered.                               *)
ReadsAhead ==
  /\ Goto("token", "settings")
  /\ last' = token + 1 /\ first' = FALSE
  /\ asked' = FALSE
  /\ UNCHANGED <<config, state, setting, fresh, up, todo, pending, at, calls, cut, edits, failures>>

ReadsToken ==
  /\ Goto("token", "settings")
  /\ last' = token /\ first' = FALSE
  /\ asked' = FALSE
  /\ UNCHANGED <<config, state, setting, fresh, up, todo, pending, at, calls, cut, edits, failures>>

(* The heartbeat thread, and two minutes without it.                       *)
HeartbeatLoop ==
  /\ up /\ pc # "boot" /\ ~fresh
  /\ Beats
  /\ UNCHANGED <<config, state, setting, worker, calls, asked, cut, edits, failures>>

HeartbeatAges ==
  /\ ~up /\ fresh
  /\ fresh' = FALSE
  /\ UNCHANGED <<config, state, setting, worker, calls, asked, cut, edits, failures>>

(* A redeployment with another LOREX_CREDENTIAL_KEY.                       *)
Aged(s) == IF s = "sealed" THEN "stale" ELSE s

KeyChanges ==
  /\ Edits
  /\ secret' = [p \in Providers |-> [username |-> Aged(secret[p].username),
                                     password |-> Aged(secret[p].password)]]
  /\ secret' # secret
  /\ Dies
  /\ UNCHANGED <<row, enabled, groups, state, setting, fresh, calls, asked, failures>>

-----------------------------------------------------------------------------
Works ==
  \/ ReadsFirstToken \/ ReadsSettings \/ ListsEnabled \/ LoadsAll
  \/ \E p \in Providers : Loads(p)
  \/ MarksStarted \/ Scans \/ MarksCompleted \/ MarksError \/ AppendsActivity
  \/ EndsPass \/ ReadsToken

Next ==
  \/ Works \/ IntervalPasses \/ Boots \/ Fails \/ HeartbeatLoop \/ HeartbeatAges \/ KeyChanges \/ UpdateSettings
  \/ \E p \in Providers : Create(p) \/ Patch(p) \/ ClearCredential(p) \/ Delete(p)
  \/ \E c \in Clients : AsksScanNow(c) \/ RequestScanNow(c) \/ InsertsToken(c)

Spec == Init /\ [][Next]_vars

(* The worker goes on, every transaction and every NNTP command comes to   *)
(* an end, and Docker starts the service again ("unless-stopped").  Nobody *)
(* has to call the API.                                                    *)
FairSpec == Spec /\ WF_vars(Works) /\ WF_vars(Boots)

-----------------------------------------------------------------------------
(* The type invariant.                                                     *)
TypeOK ==
  /\ row \in [Providers -> {"new", "there", "deleted"}]
  /\ enabled \in [Providers -> BOOLEAN] /\ secret \in [Providers -> Pair]
  /\ groups \in [Providers -> SUBSET Groups]
  /\ state \in [Providers -> [Groups -> {"none", "idle", "scanning", "error"}]]
  /\ scanning \in BOOLEAN /\ token \in Nat /\ tokenRow \in BOOLEAN /\ fresh \in BOOLEAN
  /\ up \in BOOLEAN /\ first \in BOOLEAN /\ last \in 0..token
  /\ pc \in {"off", "boot", "settings", "list", "load", "next", "scan", "completed", "failed", "note", "token"}
  /\ todo \subseteq Providers
  /\ pending \subseteq Scan /\ at \in Scan \cup {Nothing}
  /\ client \in [Clients -> {"idle", "asking", "insert"}]
  /\ accepted \in Nat /\ asked \in BOOLEAN
  /\ cut \subseteq Providers \X Groups
  /\ requests \in 0..MaxRequests /\ edits \in 0..MaxEdits /\ failures \in 0..MaxFailures

(* "Scanning" on the status page means that the worker is scanning the     *)
(* group, or that it died in that scan and has not begun another: every    *)
(* outcome, an exception too, takes the status back, also while providers  *)
(* and groups change under the pass.                                       *)
StatusIsCurrent ==
  \A p \in Providers, g \in Groups :
    state[p][g] = "scanning" =>
      \/ at # Nothing /\ at.id = p /\ at.group = g
      \/ <<p, g>> \in cut

(* Every accepted request has a token of its own, so that a later one is   *)
(* never taken for one the worker has seen; the two that both find no row  *)
(* do not both get the first token.                                        *)
TokensAreDistinct == accepted = token

(* A request for a scan is served: while scanning is on, a pass runs to    *)
(* its end after it, or was under way, whatever dies in between, as long   *)
(* as the secrets of all enabled providers can be opened.                  *)
Broken == \E p \in Providers : row[p] = "there" /\ enabled[p] /\ ~Opens(p)

RequestsAreServed == asked /\ scanning ~> ~asked \/ ~scanning \/ Broken

(* docs/superpowers/specs/2026-09-04-productionize-lorex-v1-design.md:33:  *)
(* a failure in one provider or group does not terminate the worker.  It   *)
(* only ends when the database fails, it is killed, or the key changes.    *)
WorkerSurvives ==
  [][up /\ ~up' => failures' # failures \/ secret' # secret]_vars
=============================================================================
