------------------------------ MODULE Metadata ------------------------------
(***************************************************************************)
(* The lookup of a book's metadata: MetadataResolver.resolve               *)
(* (metadata/resolver.py), run by threads of several processes over a      *)
(* cache and a lease in Redis (metadata/redis_cache.py), a cache of each   *)
(* process that stands in for Redis when it raises (metadata/cache.py),    *)
(* the providers (metadata/providers.py), and the scheduler that fetches   *)
(* artwork in the background (metadata/artwork.py).                        *)
(*                                                                         *)
(* One action is one Redis command, one request to a provider, one section *)
(* under a lock, or one step of the executor.  Entries and leases expire   *)
(* at any time: nothing ties the 15 s of a lease to the time three         *)
(* attempts at each provider take.                                         *)
(***************************************************************************)
EXTENDS Naturals, FiniteSets

CONSTANTS
  Threads, Keys, Processes,
  Roles,               (* [Threads -> [proc, key, calls]] to choose from    *)
  Live,                (* threads that go on whatever the others do         *)
  Schedulers,          (* processes with an artwork scheduler               *)
  NumProviders,
  MaxWorkers,          (* of the artwork executor                           *)
  QueueSize,           (* queue_size of the artwork scheduler               *)
  MaxFailures          (* bound: Redis commands that raise, and processes   *)
                       (* that are killed                                   *)

(* Lock objects of the key-lock tables; 0 is no object.                    *)
Locks == 1..Cardinality(Threads)

(* What a thread calls: resolve, or submit of the artwork scheduler.       *)
Calls == {"resolve", "submit", "nothing"}

ASSUME ConstantsAssumption ==
  /\ IsFiniteSet(Threads) /\ "free" \notin Threads
  /\ Roles \subseteq [Threads -> [proc : Processes, key : Keys, calls : Calls]]
  /\ Schedulers \subseteq Processes /\ Live \subseteq Threads
  /\ NumProviders \in Nat
  /\ MaxWorkers \in Nat \ {0} /\ QueueSize \in Nat
  /\ MaxFailures \in Nat

Capacity == MaxWorkers + QueueSize

Entries == {"none", "found", "not_found"}

VARIABLES
  role,                (* where a thread runs and which book it asks for    *)
  redis,               (* the shared cache                                  *)
  lease,               (* the token under a key's lease                     *)
  fallback,            (* the cache of each process                         *)
  table,               (* _key_locks: the lock object of a key              *)
  users, held,         (* of a lock object                                  *)
  permits, active,     (* of the artwork scheduler                          *)
  closed, down,        (* _closed is set, the executor is shut down         *)
  jobs, leaving,       (* downloads in the executor; ended, permit not back *)
  pc, lock,
  prov,                (* the provider asked                                *)
  failed,              (* saw_error                                         *)
  denials,             (* history: providers that answered not_found        *)
  has,                 (* a Lease object is held                            *)
  lost,                (* history: its lease ran out                        *)
  late,                (* the deadline of the wait has passed               *)
  failures

shared  == <<redis, lease>>
locking == <<table, users, held, lock>>
artwork == <<permits, active, closed, down, jobs, leaving>>
asking  == <<prov, failed, denials>>
leasing == <<has, lost>>
vars == <<role, shared, fallback, locking, artwork, asking, leasing, pc, late, failures>>

proc(t) == role[t].proc
key(t)  == role[t].key

Init ==
  /\ role \in Roles
  /\ redis = [k \in Keys |-> "none"]
  /\ lease = [k \in Keys |-> "free"]
  /\ fallback = [p \in Processes |-> [k \in Keys |-> "none"]]
  /\ table = [p \in Processes |-> [k \in Keys |-> 0]]
  /\ users = [o \in Locks |-> 0]
  /\ held = {}
  /\ permits = [p \in Processes |-> Capacity]
  /\ active = [p \in Processes |-> {}]
  /\ closed = {} /\ down = {}
  /\ jobs = [p \in Processes |-> [k \in Keys |-> 0]]
  /\ leaving = [p \in Processes |-> 0]
  /\ pc = [t \in Threads |-> "idle"]
  /\ lock = [t \in Threads |-> 0]
  /\ prov = [t \in Threads |-> 1]
  /\ failed = [t \in Threads |-> FALSE]
  /\ denials = [t \in Threads |-> 0]
  /\ has = [t \in Threads |-> FALSE]
  /\ lost = [t \in Threads |-> FALSE]
  /\ late = [t \in Threads |-> FALSE]
  /\ failures = 0

-----------------------------------------------------------------------------
(* Redis.  A command answers or raises.                                    *)

Answers == UNCHANGED failures
Raises  == failures < MaxFailures /\ failures' = failures + 1

(* RedisMetadataCache.get and InMemoryMetadataCache.get; an entry is gone  *)
(* once it expires.                                                        *)
RedisGet(t)  == redis[key(t)]
MemoryGet(t) == fallback[proc(t)][key(t)]

(* _get_entry                                                              *)
Reads(t, e) ==
  \/ Answers /\ e = RedisGet(t)
  \/ Raises  /\ e = MemoryGet(t)

(* set_found and set_not_found of both caches                              *)
RedisSet(t, e)  == redis' = [redis EXCEPT ![key(t)] = e]
MemorySet(t, e) == fallback' = [fallback EXCEPT ![proc(t)][key(t)] = e]

(* _set_found and _set_not_found                                           *)
Stores(t, e) ==
  /\ MemorySet(t, e)
  /\ \/ Answers /\ RedisSet(t, e)
     \/ Raises  /\ UNCHANGED redis

(* SET NX EX with a token, and its outcome.                                *)
Granted(t) ==
  /\ Answers
  /\ lease[key(t)] = "free"
  /\ lease' = [lease EXCEPT ![key(t)] = t]
  /\ has' = [has EXCEPT ![t] = TRUE]
Refused(t) ==
  /\ Answers
  /\ lease[key(t)] # "free"
  /\ UNCHANGED <<lease, has>>

(* The release script.  Mutant: the key is deleted whoever's token it has. *)
DeletesAnyLease(t) == lease' = [lease EXCEPT ![key(t)] = "free"]

DeletesOwnLease(t) ==
  IF lease[key(t)] = t THEN lease' = [lease EXCEPT ![key(t)] = "free"]
                       ELSE UNCHANGED lease

-----------------------------------------------------------------------------
(* resolve: the way into the lookup.                                       *)

Goto(t, here, there) == pc[t] = here /\ pc' = [pc EXCEPT ![t] = there]

Resolve(t) ==
  /\ role[t].calls = "resolve"
  /\ pc[t] = "idle"
  /\ \E e \in Entries :
       /\ Reads(t, e)
       /\ Goto(t, "idle", IF e = "none" THEN "reserve" ELSE "idle")
  /\ UNCHANGED <<role, shared, fallback, locking, artwork, asking, leasing, late>>

FreshLock == CHOOSE o \in Locks :
               users[o] = 0 /\ \A p \in Processes, k \in Keys : table[p][k] # o

(* _reserve_key_lock, under the guard                                      *)
ReservesKeyLock(t) ==
  /\ Goto(t, "reserve", "lock")
  /\ LET found == table[proc(t)][key(t)]
         o == IF found # 0 THEN found ELSE FreshLock
     IN /\ table' = [table EXCEPT ![proc(t)][key(t)] = o]
        /\ users' = [users EXCEPT ![o] = users[o] + 1]
        /\ lock' = [lock EXCEPT ![t] = o]
  /\ UNCHANGED <<role, shared, fallback, held, artwork, asking, leasing, late, failures>>

TakesKeyLock(t) ==
  /\ Goto(t, "lock", "recheck")
  /\ lock[t] \notin held
  /\ held' = held \cup {lock[t]}
  /\ UNCHANGED <<role, shared, fallback, table, users, lock, artwork, asking, leasing, late, failures>>

Rechecks(t) ==
  /\ pc[t] = "recheck"
  /\ \E e \in Entries :
       /\ Reads(t, e)
       /\ Goto(t, "recheck", IF e = "none" THEN "acquire" ELSE "unlock")
  /\ UNCHANGED <<role, shared, fallback, locking, artwork, asking, leasing, late>>

AcquiresLease(t) ==
  /\ \/ Goto(t, "acquire", "ask")  /\ Granted(t)
     \/ Goto(t, "acquire", "poll") /\ Refused(t)
     \/ Goto(t, "acquire", "ask")  /\ Raises /\ UNCHANGED <<lease, has>>
  /\ UNCHANGED <<role, redis, fallback, locking, artwork, asking, lost, late>>

-----------------------------------------------------------------------------
(* _wait_for_leader                                                        *)

(* Mutant: the loop has no deadline.                                       *)
WaitsForEver(t) == FALSE

TimedOut(t) == late[t]

PollsCache(t) ==
  /\ ~TimedOut(t)
  /\ pc[t] = "poll"
  /\ \E e \in Entries :
       /\ Reads(t, e)
       /\ Goto(t, "poll", IF e = "none" THEN "retry" ELSE "unlock")
       /\ late' = [late EXCEPT ![t] = late[t] /\ e = "none"]
  /\ UNCHANGED <<role, shared, fallback, locking, artwork, asking, leasing>>

GivesUpWaiting(t) ==
  /\ TimedOut(t)
  /\ Goto(t, "poll", "unlock")
  /\ late' = [late EXCEPT ![t] = FALSE]
  /\ UNCHANGED <<role, shared, fallback, locking, artwork, asking, leasing, failures>>

RetriesLease(t) ==
  /\ \/ Goto(t, "retry", "again") /\ Granted(t)
     \/ Goto(t, "retry", "poll")  /\ Refused(t)
     \/ Goto(t, "retry", "ask")   /\ Raises /\ UNCHANGED <<lease, has>>
  /\ late' = [late EXCEPT ![t] = late[t] /\ pc'[t] = "poll"]
  /\ UNCHANGED <<role, redis, fallback, locking, artwork, asking, lost>>

ChecksUnderLease(t) ==
  /\ pc[t] = "again"
  /\ \E e \in Entries :
       /\ Reads(t, e)
       /\ Goto(t, "again", IF e = "none" THEN "ask" ELSE "release")
  /\ UNCHANGED <<role, shared, fallback, locking, artwork, asking, leasing, late>>

DeadlinePasses(t) ==
  /\ pc[t] \in {"poll", "retry"} /\ ~late[t]
  /\ late' = [late EXCEPT ![t] = TRUE]
  /\ UNCHANGED <<role, shared, fallback, locking, artwork, asking, leasing, pc, failures>>

-----------------------------------------------------------------------------
(* _lookup_providers, and ProviderClient.get under it.                     *)

NextProvider(t) == prov' = [prov EXCEPT ![t] = prov[t] + 1]

EndsAsking(t) ==
  /\ prov' = [prov EXCEPT ![t] = 1]
  /\ failed' = [failed EXCEPT ![t] = FALSE]
  /\ denials' = [denials EXCEPT ![t] = 0]

(* Mutant: one provider too many is asked.                                 *)
AsksOneMore(t) == pc[t] = "ask" /\ prov[t] <= NumProviders + 1

Asking(t) == pc[t] = "ask" /\ prov[t] <= NumProviders

(* OpenLibraryProvider.lookup and GoogleBooksProvider.lookup: the first    *)
(* book of the answer, if it has a title; otherwise not found.             *)
ProviderFinds(t) ==
  /\ Asking(t)
  /\ Goto(t, "ask", "found")
  /\ EndsAsking(t)
  /\ UNCHANGED <<role, shared, fallback, locking, artwork, leasing, late, failures>>

(* Mutant: saw_error says whether the last provider raised.                *)
ForgetsErrors(t) ==
  /\ Asking(t)
  /\ NextProvider(t)
  /\ failed' = [failed EXCEPT ![t] = FALSE]
  /\ denials' = [denials EXCEPT ![t] = denials[t] + 1]
  /\ UNCHANGED <<role, shared, fallback, locking, artwork, leasing, pc, late, failures>>

ProviderDenies(t) ==
  /\ Asking(t)
  /\ NextProvider(t)
  /\ denials' = [denials EXCEPT ![t] = denials[t] + 1]
  /\ UNCHANGED <<role, shared, fallback, locking, artwork, failed, leasing, pc, late, failures>>

(* The third attempt without an answer, a rejection, or an answer that     *)
(* cannot be read.                                                         *)
ProviderRaises(t) ==
  /\ Asking(t)
  /\ NextProvider(t)
  /\ failed' = [failed EXCEPT ![t] = TRUE]
  /\ UNCHANGED <<role, shared, fallback, locking, artwork, denials, leasing, pc, late, failures>>

AfterLookup(t) == IF has[t] THEN "release" ELSE "unlock"

(* The book may come with the address of its artwork.                      *)
StoresFound(t) ==
  /\ \E there \in {AfterLookup(t)} \cup {"art_check" : p \in {proc(t)} \cap Schedulers} :
       Goto(t, "found", there)
  /\ Stores(t, "found")
  /\ UNCHANGED <<role, lease, locking, artwork, asking, leasing, late>>

NobodyFinds(t) ==
  /\ ~Asking(t)
  /\ Goto(t, "ask", AfterLookup(t))
  /\ IF failed[t] THEN UNCHANGED <<redis, fallback, failures>> ELSE Stores(t, "not_found")
  /\ EndsAsking(t)
  /\ UNCHANGED <<role, lease, locking, artwork, leasing, late>>

-----------------------------------------------------------------------------
(* The way out: the lease, the key lock, the caller.                       *)

(* The call is left, and its local variables with it.                      *)
Leaves(T) ==
  /\ pc' = [t \in Threads |-> IF t \in T THEN "idle" ELSE pc[t]]
  /\ prov' = [t \in Threads |-> IF t \in T THEN 1 ELSE prov[t]]
  /\ failed' = [t \in Threads |-> t \notin T /\ failed[t]]
  /\ denials' = [t \in Threads |-> IF t \in T THEN 0 ELSE denials[t]]
  /\ has' = [t \in Threads |-> t \notin T /\ has[t]]
  /\ lost' = [t \in Threads |-> t \notin T /\ lost[t]]
  /\ late' = [t \in Threads |-> t \notin T /\ late[t]]

ReleasesLease(t) ==
  /\ Goto(t, "release", "unlock")
  /\ \/ Answers /\ DeletesOwnLease(t)
     \/ Raises  /\ UNCHANGED lease
  /\ has' = [has EXCEPT ![t] = FALSE]
  /\ lost' = [lost EXCEPT ![t] = FALSE]
  /\ UNCHANGED <<role, redis, fallback, locking, artwork, asking, late>>

ReleasesKeyLock(t) ==
  /\ Goto(t, "unlock", "unreserve")
  /\ held' = held \ {lock[t]}
  /\ UNCHANGED <<role, shared, fallback, table, users, lock, artwork, asking, leasing, late, failures>>

(* _release_key_lock, under the guard.  Mutant: the entry goes although    *)
(* others have reserved it.                                                *)
DropsSharedLock(t) == TRUE

DropsEntry(t) == users[lock[t]] = 1 /\ table[proc(t)][key(t)] = lock[t]

UnreservesKeyLock(t) ==
  /\ pc[t] = "unreserve" /\ Leaves({t})
  /\ users' = [users EXCEPT ![lock[t]] = users[lock[t]] - 1]
  /\ table' = IF DropsEntry(t) THEN [table EXCEPT ![proc(t)][key(t)] = 0] ELSE table
  /\ lock' = [lock EXCEPT ![t] = 0]
  /\ UNCHANGED <<role, shared, fallback, held, artwork, failures>>

-----------------------------------------------------------------------------
(* ArtworkScheduler                                                        *)

(* Where submit returns to: the lookup, or a caller of its own.            *)
AfterSubmit(t) == IF role[t].calls = "submit" THEN "idle" ELSE AfterLookup(t)

Submits(t) ==
  /\ role[t].calls = "submit"
  /\ Goto(t, "idle", "art_check")
  /\ UNCHANGED <<role, shared, fallback, locking, artwork, asking, leasing, late, failures>>

Refusing(t) == proc(t) \in closed \/ key(t) \in active[proc(t)]

ChecksActive(t) ==
  /\ IF Refusing(t) THEN Goto(t, "art_check", AfterSubmit(t)) ELSE Goto(t, "art_check", "art_take")
  /\ UNCHANGED <<role, shared, fallback, locking, artwork, asking, leasing, late, failures>>

TakesCapacity(t) ==
  /\ IF permits[proc(t)] = 0
     THEN Goto(t, "art_take", AfterSubmit(t)) /\ UNCHANGED permits
     ELSE /\ Goto(t, "art_take", "art_add")
          /\ permits' = [permits EXCEPT ![proc(t)] = permits[proc(t)] - 1]
  /\ UNCHANGED <<role, shared, fallback, locking, active, closed, down, jobs, leaving, asking, leasing,
                 late, failures>>

GivesBack(t) == permits' = [permits EXCEPT ![proc(t)] = permits[proc(t)] + 1]

(* The second section under the lock.  Mutant: a submission refused there  *)
(* keeps its permit.                                                       *)
KeepsPermit(t) ==
  /\ IF Refusing(t)
     THEN Goto(t, "art_add", AfterSubmit(t)) /\ UNCHANGED active
     ELSE /\ Goto(t, "art_add", "art_submit")
          /\ active' = [active EXCEPT ![proc(t)] = active[proc(t)] \cup {key(t)}]
  /\ UNCHANGED <<role, shared, fallback, locking, permits, closed, down, jobs, leaving, asking, leasing,
                 late, failures>>

AddsActive(t) ==
  /\ IF Refusing(t)
     THEN Goto(t, "art_add", AfterSubmit(t)) /\ GivesBack(t) /\ UNCHANGED active
     ELSE /\ Goto(t, "art_add", "art_submit")
          /\ active' = [active EXCEPT ![proc(t)] = active[proc(t)] \cup {key(t)}]
          /\ UNCHANGED permits
  /\ UNCHANGED <<role, shared, fallback, locking, closed, down, jobs, leaving, asking, leasing, late, failures>>

(* executor.submit, which raises once the executor is shut down.           *)
HandsOver(t) ==
  /\ Goto(t, "art_submit", AfterSubmit(t))
  /\ IF proc(t) \in down
     THEN /\ active' = [active EXCEPT ![proc(t)] = active[proc(t)] \ {key(t)}]
          /\ GivesBack(t)
          /\ UNCHANGED jobs
     ELSE /\ jobs' = [jobs EXCEPT ![proc(t)][key(t)] = jobs[proc(t)][key(t)] + 1]
          /\ UNCHANGED <<active, permits>>
  /\ UNCHANGED <<role, shared, fallback, locking, closed, down, leaving, asking, leasing, late,
                 failures>>

(* _run: the worker returns or raises, the key leaves the active set ...   *)
ArtworkEnds(p, k) ==
  /\ jobs[p][k] > 0
  /\ jobs' = [jobs EXCEPT ![p][k] = jobs[p][k] - 1]
  /\ active' = [active EXCEPT ![p] = active[p] \ {k}]
  /\ leaving' = [leaving EXCEPT ![p] = leaving[p] + 1]
  /\ UNCHANGED <<role, shared, fallback, locking, permits, closed, down, asking, leasing, pc, late, failures>>

(* ... and, outside the lock, the permit is given back.                    *)
ArtworkGivesBack(p) ==
  /\ leaving[p] > 0
  /\ leaving' = [leaving EXCEPT ![p] = leaving[p] - 1]
  /\ permits' = [permits EXCEPT ![p] = permits[p] + 1]
  /\ UNCHANGED <<role, shared, fallback, locking, active, closed, down, jobs, asking, leasing, pc, late, failures>>

Close(p) ==
  /\ p \in Schedulers \ closed
  /\ closed' = closed \cup {p}
  /\ UNCHANGED <<role, shared, fallback, locking, permits, active, down, jobs, leaving, asking, leasing, pc, late, failures>>

ShutsDown(p) ==
  /\ p \in closed \ down
  /\ down' = down \cup {p}
  /\ UNCHANGED <<role, shared, fallback, locking, permits, active, closed, jobs, leaving, asking, leasing,
                 pc, late, failures>>

-----------------------------------------------------------------------------
(* Time and crashes.                                                       *)

LeaseExpires(k) ==
  /\ lease[k] # "free"
  /\ lease' = [lease EXCEPT ![k] = "free"]
  /\ lost' = [t \in Threads |-> lost[t] \/ (lease[k] = t /\ has[t])]
  /\ UNCHANGED <<role, redis, fallback, locking, artwork, asking, has, pc, late, failures>>

EntryExpires(k) ==
  /\ redis[k] # "none"
  /\ redis' = [redis EXCEPT ![k] = "none"]
  /\ UNCHANGED <<role, lease, fallback, locking, artwork, asking, leasing, pc, late, failures>>

FallbackExpires(p, k) ==
  /\ fallback[p][k] # "none"
  /\ fallback' = [fallback EXCEPT ![p][k] = "none"]
  /\ UNCHANGED <<role, shared, locking, artwork, asking, leasing, pc, late, failures>>

ThreadsOf(p) == {t \in Threads : proc(t) = p}

Crash(p) ==
  /\ Raises
  /\ \E t \in ThreadsOf(p) : pc[t] # "idle"
  /\ Leaves(ThreadsOf(p))
  /\ fallback' = [fallback EXCEPT ![p] = [k \in Keys |-> "none"]]
  /\ LET gone == {lock[t] : t \in ThreadsOf(p)}
     IN /\ users' = [o \in Locks |-> IF o \in gone THEN 0 ELSE users[o]]
        /\ held' = held \ gone
  /\ table' = [table EXCEPT ![p] = [k \in Keys |-> 0]]
  /\ lock' = [t \in Threads |-> IF proc(t) = p THEN 0 ELSE lock[t]]
  /\ permits' = [permits EXCEPT ![p] = Capacity]
  /\ active' = [active EXCEPT ![p] = {}]
  /\ closed' = closed \ {p} /\ down' = down \ {p}
  /\ jobs' = [jobs EXCEPT ![p] = [k \in Keys |-> 0]]
  /\ leaving' = [leaving EXCEPT ![p] = 0]
  /\ UNCHANGED <<role, shared>>
-----------------------------------------------------------------------------
(* What a thread does once it has called.                                  *)
Looks(t) ==
  \/ ReservesKeyLock(t) \/ TakesKeyLock(t) \/ Rechecks(t) \/ AcquiresLease(t)
  \/ PollsCache(t) \/ GivesUpWaiting(t) \/ RetriesLease(t) \/ ChecksUnderLease(t)
  \/ ProviderFinds(t) \/ ProviderDenies(t) \/ ProviderRaises(t)
  \/ StoresFound(t) \/ NobodyFinds(t)
  \/ ReleasesLease(t) \/ ReleasesKeyLock(t) \/ UnreservesKeyLock(t)
  \/ ChecksActive(t) \/ TakesCapacity(t) \/ AddsActive(t) \/ HandsOver(t)

Next ==
  \/ \E t \in Threads : Resolve(t) \/ Submits(t) \/ Looks(t) \/ DeadlinePasses(t)
  \/ \E k \in Keys : LeaseExpires(k) \/ EntryExpires(k)
  \/ \E p \in Processes :
       \/ \E k \in Keys : FallbackExpires(p, k) \/ ArtworkEnds(p, k)
       \/ ArtworkGivesBack(p) \/ Close(p) \/ ShutsDown(p) \/ Crash(p)

Spec == Init /\ [][Next]_vars

(* The threads of Live go on: an HTTP client and a Redis client time out,  *)
(* and the clock of a wait reaches its deadline.  The others may hang or   *)
(* die, nobody has to call, and nothing need expire.                       *)
FairSpec == Spec /\ \A t \in Live : WF_vars(Looks(t)) /\ WF_vars(DeadlinePasses(t))

-----------------------------------------------------------------------------
(* The type invariant.                                                     *)
Labels == {"idle", "reserve", "lock", "recheck", "acquire", "poll", "retry", "again", "ask", "found",
           "release", "unlock", "unreserve", "art_check", "art_take", "art_add", "art_submit"}

TypeOK ==
  /\ role \in Roles
  /\ redis \in [Keys -> Entries]
  /\ lease \in [Keys -> Threads \cup {"free"}]
  /\ fallback \in [Processes -> [Keys -> Entries]]
  /\ table \in [Processes -> [Keys -> Locks \cup {0}]]
  /\ users \in [Locks -> Nat] /\ held \subseteq Locks
  /\ permits \in [Processes -> 0..Capacity]
  /\ active \in [Processes -> SUBSET Keys]
  /\ closed \subseteq Processes /\ down \subseteq closed
  /\ jobs \in [Processes -> [Keys -> Nat]] /\ leaving \in [Processes -> Nat]
  /\ pc \in [Threads -> Labels]
  /\ lock \in [Threads -> Locks \cup {0}]
  /\ prov \in [Threads -> 1..NumProviders + 1]
  /\ failed \in [Threads -> BOOLEAN] /\ denials \in [Threads -> 0..NumProviders]
  /\ has \in [Threads -> BOOLEAN] /\ lost \in [Threads -> BOOLEAN]
  /\ late \in [Threads -> BOOLEAN]
  /\ failures \in 0..MaxFailures

(* Threads between _reserve_key_lock and _release_key_lock.                *)
Locked(t) == role[t].calls = "resolve" /\ pc[t] \notin {"idle", "reserve", "lock", "unreserve"}

(* Those of them that may ask the providers.                               *)
Leading(t) == Locked(t) /\ pc[t] \notin {"recheck", "acquire", "poll", "retry", "unlock"}

(* Two threads look one book up at a time only in two processes, and only  *)
(* when one of them has no lease, because Redis raised, or had one that    *)
(* ran out: the key lock is one object for all that wait for it, though it *)
(* is made and dropped with its users, and no release takes away the lease *)
(* of the thread that came after.                                          *)
LeadersAreAlone ==
  \A t, u \in Threads :
    t # u /\ key(t) = key(u) =>
      /\ Locked(t) /\ Locked(u) => proc(t) # proc(u)
      /\ Leading(t) /\ Leading(u) => ~has[t] \/ lost[t] \/ ~has[u] \/ lost[u]

(* "Not found" gets into a cache only out of a lookup in which every       *)
(* provider answered so.  One that was not reached, or answered garbage,   *)
(* must not hide a book from everybody for the life of the entry.          *)
Denied(k) ==
  \E t \in Threads : key(t) = k /\ pc[t] = "ask" /\ denials[t] = NumProviders

NegativesAreEarned ==
  [][\A k \in Keys :
       /\ redis[k] # "not_found" /\ redis'[k] = "not_found" => Denied(k)
       /\ \A p \in Processes :
            fallback[p][k] # "not_found" /\ fallback'[p][k] = "not_found" => Denied(k)]_vars

(* The permits of an artwork scheduler are all there: free, with a         *)
(* submission under way, with a download or with one that just ended.  No  *)
(* path out of submit keeps one and none gives one back twice, and a book  *)
(* is never downloaded twice at a time.                                    *)
HoldsPermit(t) == pc[t] \in {"art_add", "art_submit"}

Downloads(p) == Cardinality({d \in Keys \X Locks : d[2] <= jobs[p][d[1]]})

ArtworkAccounted ==
  \A p \in Processes :
    /\ permits[p] + Cardinality({t \in Threads : proc(t) = p /\ HoldsPermit(t)})
         + Downloads(p) + leaving[p] = Capacity
    /\ \A k \in Keys :
         jobs[p][k] + Cardinality({t \in Threads : proc(t) = p /\ key(t) = k /\ pc[t] = "art_submit"}) <= 1

(* A key lock that is taken is let go, and with it the requests for the    *)
(* book behind it: whatever becomes of the leader in another process, the  *)
(* wait for it ends, and so does the round of the providers.               *)
KeyLocksAreLetGo == \A t \in Live : Locked(t) ~> ~Locked(t)
=============================================================================
