--------------------------- MODULE MetadataProofs ---------------------------
(***************************************************************************)
(* Theorems about Metadata, for any number of threads, processes, books,   *)
(* providers and artwork workers.                                          *)
(***************************************************************************)
EXTENDS Metadata, FiniteSetTheorems, TLAPS

USE DEF vars, shared, locking, artwork, asking, leasing, Goto, proc, key, Answers, Raises

-----------------------------------------------------------------------------
(* Types, of everything but the key locks.                                 *)

Artistic == {"art_check", "art_take", "art_add", "art_submit"}

CacheTypes ==
  /\ redis \in [Keys -> Entries]
  /\ lease \in [Keys -> Threads \cup {"free"}]
  /\ fallback \in [Processes -> [Keys -> Entries]]

ArtTypes ==
  /\ permits \in [Processes -> Nat]
  /\ active \in [Processes -> SUBSET Keys]
  /\ closed \subseteq Processes /\ down \subseteq closed
  /\ jobs \in [Processes -> [Keys -> Nat]] /\ leaving \in [Processes -> Nat]

(* Every provider asked so far has denied the book, unless one has failed. *)
AskInv ==
  /\ prov \in [Threads -> 1..NumProviders + 1]
  /\ failed \in [Threads -> BOOLEAN]
  /\ denials \in [Threads -> Nat]
  /\ \A t \in Threads : /\ denials[t] + 1 <= prov[t]
                        /\ ~failed[t] => denials[t] + 1 = prov[t]

FlagTypes ==
  /\ has \in [Threads -> BOOLEAN] /\ lost \in [Threads -> BOOLEAN]
  /\ late \in [Threads -> BOOLEAN]
  /\ failures \in 0..MaxFailures

(* Only a thread that resolves gets beyond the artwork scheduler.          *)
PcInv ==
  /\ role \in Roles
  /\ pc \in [Threads -> Labels]
  /\ \A t \in Threads :
       /\ pc[t] \notin {"idle"} \cup Artistic => role[t].calls = "resolve"
       /\ pc[t] # "idle" => role[t].calls # "nothing"

LEMMA RoleType ==
  ASSUME PcInv, NEW t \in Threads
  PROVE  role[t].proc \in Processes /\ role[t].key \in Keys /\ role[t].calls \in Calls
<1>1. role \in [Threads -> [proc : Processes, key : Keys, calls : Calls]]
  BY ConstantsAssumption DEF PcInv
<1>2. QED BY <1>1

LEMMA NestedType ==
  ASSUME NEW S, NEW T, NEW V, NEW f \in [S -> [T -> V]], NEW x \in S, NEW y \in T, NEW v \in V
  PROVE  [f EXCEPT ![x][y] = v] \in [S -> [T -> V]]
<1>1. [f[x] EXCEPT ![y] = v] \in [T -> V]
  OBVIOUS
<1>2. QED BY <1>1

LEMMA NestedValue ==
  ASSUME NEW S, NEW T, NEW V, NEW f \in [S -> [T -> V]], NEW x \in S, NEW y \in T, NEW v,
         NEW u \in S, NEW w \in T
  PROVE  [f EXCEPT ![x][y] = v][u][w] = IF u = x /\ w = y THEN v ELSE f[u][w]
<1>1. f[x] \in [T -> V]
  OBVIOUS
<1>2. CASE u = x
  <2>1. [f EXCEPT ![x][y] = v][u] = [f[x] EXCEPT ![y] = v]
    BY <1>2
  <2>2. QED BY <1>1, <1>2, <2>1
<1>3. CASE u # x
  BY <1>3
<1>4. QED BY <1>2, <1>3

(* What a step of the system is, for a proof that needs no more of it.     *)
ThreadStep(t) == Resolve(t) \/ Submits(t) \/ Looks(t) \/ DeadlinePasses(t)

WorldStep ==
  \/ \E k \in Keys : LeaseExpires(k) \/ EntryExpires(k)
  \/ \E p \in Processes :
       \/ \E k \in Keys : FallbackExpires(p, k) \/ ArtworkEnds(p, k)
       \/ ArtworkGivesBack(p) \/ Close(p) \/ ShutsDown(p) \/ Crash(p)

LEMMA Steps == Next <=> (\E t \in Threads : ThreadStep(t)) \/ WorldStep
  BY DEF Next, ThreadStep, WorldStep

LEMMA CacheStep ==
  ASSUME PcInv, CacheTypes, [Next]_vars
  PROVE  CacheTypes'
<1> USE DEF CacheTypes, Entries
<1>1. CASE UNCHANGED vars
  BY <1>1
<1>2. ASSUME NEW t \in Threads, ThreadStep(t) PROVE CacheTypes'
  <2>1. role[t].proc \in Processes /\ role[t].key \in Keys
    BY RoleType
  <2>2. CASE \/ Resolve(t) \/ ReservesKeyLock(t) \/ TakesKeyLock(t) \/ Rechecks(t) \/ PollsCache(t)
             \/ GivesUpWaiting(t) \/ ChecksUnderLease(t) \/ DeadlinePasses(t) \/ Submits(t)
    BY <2>2 DEF Resolve, ReservesKeyLock, TakesKeyLock, Rechecks, PollsCache, GivesUpWaiting,
       ChecksUnderLease, DeadlinePasses, Submits
  <2>3. CASE \/ ProviderFinds(t) \/ ProviderDenies(t) \/ ProviderRaises(t) \/ ReleasesKeyLock(t)
             \/ UnreservesKeyLock(t) \/ ChecksActive(t) \/ TakesCapacity(t) \/ AddsActive(t)
             \/ HandsOver(t)
    BY <2>3 DEF ProviderFinds, ProviderDenies, ProviderRaises, ReleasesKeyLock, UnreservesKeyLock,
       ChecksActive, TakesCapacity, AddsActive, HandsOver
  <2>4. CASE AcquiresLease(t) \/ RetriesLease(t)
    BY <2>1, <2>4 DEF AcquiresLease, RetriesLease, Granted, Refused
  <2>5. CASE ReleasesLease(t)
    BY <2>1, <2>5 DEF ReleasesLease, DeletesOwnLease
  <2>6. ASSUME NEW e \in Entries, Stores(t, e), lease' = lease PROVE CacheTypes'
    <3>1. fallback' \in [Processes -> [Keys -> Entries]]
      BY <2>1, <2>6, NestedType DEF Stores, MemorySet
    <3>2. redis' \in [Keys -> Entries]
      BY <2>1, <2>6 DEF Stores, RedisSet
    <3>3. QED BY <2>6, <3>1, <3>2
  <2>7. CASE StoresFound(t) \/ NobodyFinds(t)
    BY <2>6, <2>7 DEF StoresFound, NobodyFinds
  <2>8. QED BY <1>2, <2>2, <2>3, <2>4, <2>5, <2>7 DEF ThreadStep, Looks
<1>3. CASE WorldStep
  <2>1. ASSUME NEW k \in Keys, LeaseExpires(k) \/ EntryExpires(k) PROVE CacheTypes'
    BY <2>1 DEF LeaseExpires, EntryExpires
  <2>2. ASSUME NEW p \in Processes, NEW k \in Keys, FallbackExpires(p, k) \/ ArtworkEnds(p, k)
        PROVE  CacheTypes'
    <3>1. CASE FallbackExpires(p, k)
      <4>1. fallback' \in [Processes -> [Keys -> Entries]]
        BY <3>1, NestedType DEF FallbackExpires
      <4>2. QED BY <3>1, <4>1 DEF FallbackExpires
    <3>2. CASE ArtworkEnds(p, k)
      BY <3>2 DEF ArtworkEnds
    <3>3. QED BY <2>2, <3>1, <3>2
  <2>3. ASSUME NEW p \in Processes,
               ArtworkGivesBack(p) \/ Close(p) \/ ShutsDown(p) \/ Crash(p)
        PROVE  CacheTypes'
    BY <2>3 DEF ArtworkGivesBack, Close, ShutsDown, Crash
  <2>4. QED BY <1>3, <2>1, <2>2, <2>3 DEF WorldStep
<1>4. QED BY <1>1, <1>2, <1>3, Steps

LEMMA ArtTypesStep ==
  ASSUME PcInv, ArtTypes, [Next]_vars
  PROVE  ArtTypes'
<1> USE DEF ArtTypes
<1>1. CASE UNCHANGED vars
  BY <1>1
<1>2. ASSUME NEW t \in Threads, ThreadStep(t) PROVE ArtTypes'
  <2>1. role[t].proc \in Processes /\ role[t].key \in Keys
    BY RoleType
  <2>2. CASE \/ Resolve(t) \/ ReservesKeyLock(t) \/ TakesKeyLock(t) \/ Rechecks(t) \/ PollsCache(t)
             \/ GivesUpWaiting(t) \/ ChecksUnderLease(t) \/ DeadlinePasses(t) \/ Submits(t)
             \/ AcquiresLease(t) \/ RetriesLease(t)
    BY <2>2 DEF Resolve, ReservesKeyLock, TakesKeyLock, Rechecks, PollsCache, GivesUpWaiting,
       ChecksUnderLease, DeadlinePasses, Submits, AcquiresLease, RetriesLease
  <2>3. CASE \/ ProviderFinds(t) \/ ProviderDenies(t) \/ ProviderRaises(t) \/ ReleasesKeyLock(t)
             \/ UnreservesKeyLock(t) \/ ChecksActive(t) \/ ReleasesLease(t) \/ StoresFound(t)
             \/ NobodyFinds(t)
    BY <2>3 DEF ProviderFinds, ProviderDenies, ProviderRaises, ReleasesKeyLock, UnreservesKeyLock,
       ChecksActive, ReleasesLease, StoresFound, NobodyFinds
  <2>4. CASE TakesCapacity(t)
    <3>1. permits[role[t].proc] # 0 => permits[role[t].proc] - 1 \in Nat
      BY <2>1
    <3>2. permits' \in [Processes -> Nat]
      BY <2>1, <2>4, <3>1 DEF TakesCapacity
    <3>3. QED BY <2>4, <3>2 DEF TakesCapacity
  <2>5. CASE AddsActive(t)
    BY <2>1, <2>5 DEF AddsActive, GivesBack
  <2>6. CASE HandsOver(t)
    <3>1. CASE role[t].proc \in down
      <4>1. /\ active' = [active EXCEPT ![role[t].proc] = active[role[t].proc] \ {role[t].key}]
            /\ permits' = [permits EXCEPT ![role[t].proc] = permits[role[t].proc] + 1]
            /\ UNCHANGED <<jobs, closed, down, leaving>>
        BY <2>6, <3>1 DEF HandsOver, GivesBack
      <4>2. active' \in [Processes -> SUBSET Keys]
        BY <2>1, <4>1
      <4>3. permits' \in [Processes -> Nat]
        BY <2>1, <4>1
      <4>4. QED BY <4>1, <4>2, <4>3
    <3>2. CASE role[t].proc \notin down
      <4>1. jobs[role[t].proc] \in [Keys -> Nat]
        BY <2>1
      <4>2. jobs[role[t].proc][role[t].key] + 1 \in Nat
        BY <2>1, <4>1
      <4>3. jobs' = [jobs EXCEPT ![role[t].proc][role[t].key] = jobs[role[t].proc][role[t].key] + 1]
        BY <2>6, <3>2 DEF HandsOver
      <4>4. jobs' \in [Processes -> [Keys -> Nat]]
        BY ONLY <2>1, <4>2, <4>3, NestedType, jobs \in [Processes -> [Keys -> Nat]]
      <4>5. QED BY <2>6, <3>2, <4>4 DEF HandsOver
    <3>3. QED BY <3>1, <3>2
  <2>7. QED BY <1>2, <2>2, <2>3, <2>4, <2>5, <2>6 DEF ThreadStep, Looks
<1>3. CASE WorldStep
  <2>1. ASSUME NEW k \in Keys, LeaseExpires(k) \/ EntryExpires(k) PROVE ArtTypes'
    BY <2>1 DEF LeaseExpires, EntryExpires
  <2>2. ASSUME NEW p \in Processes, NEW k \in Keys, FallbackExpires(p, k) PROVE ArtTypes'
    BY <2>2 DEF FallbackExpires
  <2>3. ASSUME NEW p \in Processes, NEW k \in Keys, ArtworkEnds(p, k) PROVE ArtTypes'
    <3>1. jobs' \in [Processes -> [Keys -> Nat]]
      <4>1. jobs[p] \in [Keys -> Nat]
        OBVIOUS
      <4>2. jobs[p][k] - 1 \in Nat
        BY <2>3, <4>1 DEF ArtworkEnds
      <4>3. QED BY <2>3, <4>2, NestedType DEF ArtworkEnds
    <3>2. QED BY <2>3, <3>1 DEF ArtworkEnds
  <2>4. ASSUME NEW p \in Processes, ArtworkGivesBack(p) \/ Close(p) \/ ShutsDown(p) PROVE ArtTypes'
    BY <2>4 DEF ArtworkGivesBack, Close, ShutsDown
  <2>5. ASSUME NEW p \in Processes, Crash(p) PROVE ArtTypes'
    BY <2>5, ConstantsAssumption DEF Crash, Capacity
  <2>6. QED BY <1>3, <2>1, <2>2, <2>3, <2>4, <2>5 DEF WorldStep
<1>4. QED BY <1>1, <1>2, <1>3, Steps

LEMMA AskStep ==
  ASSUME AskInv, [Next]_vars
  PROVE  AskInv'
<1>a. NumProviders \in Nat
  BY ConstantsAssumption
<1>1. CASE UNCHANGED vars
  BY <1>1 DEF AskInv
<1>2. ASSUME NEW t \in Threads, EndsAsking(t) PROVE AskInv'
  BY <1>2, <1>a DEF EndsAsking, AskInv
<1>3. ASSUME NEW T, Leaves(T) PROVE AskInv'
  BY <1>3, <1>a DEF Leaves, AskInv
<1>4. ASSUME NEW t \in Threads, ThreadStep(t) PROVE AskInv'
  <2>1. CASE ProviderDenies(t)
    <3>1. prov[t] + 1 \in 1..NumProviders + 1 /\ prov[t] \in Nat /\ denials[t] \in Nat
      BY <1>a, <2>1 DEF ProviderDenies, Asking, AskInv
    <3>2. QED BY <2>1, <3>1 DEF ProviderDenies, NextProvider, AskInv
  <2>2. CASE ProviderRaises(t)
    <3>1. prov[t] + 1 \in 1..NumProviders + 1 /\ prov[t] \in Nat /\ denials[t] \in Nat
      BY <1>a, <2>2 DEF ProviderRaises, Asking, AskInv
    <3>2. QED BY <2>2, <3>1 DEF ProviderRaises, NextProvider, AskInv
  <2>3. CASE ProviderFinds(t) \/ NobodyFinds(t) \/ UnreservesKeyLock(t)
    BY <1>2, <1>3, <2>3 DEF ProviderFinds, NobodyFinds, UnreservesKeyLock
  <2>4. CASE ~(ProviderDenies(t) \/ ProviderRaises(t) \/ ProviderFinds(t) \/ NobodyFinds(t)
               \/ UnreservesKeyLock(t))
    <3>1. UNCHANGED <<prov, failed, denials>>
      BY <1>4, <2>4 DEF ThreadStep, Looks, Resolve, Submits, DeadlinePasses, ReservesKeyLock,
         TakesKeyLock, Rechecks, AcquiresLease, PollsCache, GivesUpWaiting, RetriesLease,
         ChecksUnderLease, StoresFound, ReleasesLease, ReleasesKeyLock, ChecksActive,
         TakesCapacity, AddsActive, HandsOver
    <3>2. QED BY <3>1 DEF AskInv
  <2>5. QED BY <2>1, <2>2, <2>3, <2>4
<1>5. CASE WorldStep
  <2>1. (\E p \in Processes : Crash(p)) \/ UNCHANGED <<prov, failed, denials>>
    BY <1>5 DEF WorldStep, LeaseExpires, EntryExpires, FallbackExpires, ArtworkEnds,
       ArtworkGivesBack, Close, ShutsDown
  <2>2. CASE UNCHANGED <<prov, failed, denials>>
    BY <2>2 DEF AskInv
  <2>3. QED BY <1>3, <2>1, <2>2 DEF Crash
<1>6. QED BY <1>1, <1>4, <1>5, Steps

LEMMA FlagStep ==
  ASSUME FlagTypes, [Next]_vars
  PROVE  FlagTypes'
<1> USE ConstantsAssumption DEF FlagTypes
<1>1. CASE UNCHANGED vars
  BY <1>1
<1>2. failures' \in 0..MaxFailures
  <2>1. ASSUME NEW t \in Threads, ThreadStep(t) PROVE failures' = failures \/ Raises
    <3>1. CASE \/ Resolve(t) \/ Submits(t) \/ DeadlinePasses(t) \/ ReservesKeyLock(t) \/ TakesKeyLock(t)
               \/ Rechecks(t) \/ AcquiresLease(t) \/ PollsCache(t) \/ GivesUpWaiting(t) \/ RetriesLease(t)
      BY <3>1 DEF Resolve, Submits, DeadlinePasses, Reads, Granted, Refused, ReservesKeyLock,
         TakesKeyLock, Rechecks, AcquiresLease, PollsCache, GivesUpWaiting, RetriesLease
    <3>2. CASE \/ ChecksUnderLease(t) \/ ProviderFinds(t) \/ ProviderDenies(t) \/ ProviderRaises(t)
               \/ StoresFound(t) \/ NobodyFinds(t) \/ ReleasesLease(t) \/ ReleasesKeyLock(t)
      BY <3>2 DEF Reads, Stores, ChecksUnderLease, ProviderFinds, ProviderDenies, ProviderRaises,
         StoresFound, NobodyFinds, ReleasesLease, ReleasesKeyLock
    <3>3. CASE \/ UnreservesKeyLock(t) \/ ChecksActive(t) \/ TakesCapacity(t) \/ AddsActive(t)
               \/ HandsOver(t)
      BY <3>3 DEF UnreservesKeyLock, ChecksActive, TakesCapacity, AddsActive, HandsOver
    <3>4. QED BY <2>1, <3>1, <3>2, <3>3 DEF ThreadStep, Looks
  <2>2. WorldStep => failures' = failures \/ Raises
    BY DEF WorldStep, LeaseExpires, EntryExpires, FallbackExpires, ArtworkEnds,
       ArtworkGivesBack, Close, ShutsDown, Crash
  <2>3. CASE failures' = failures \/ Raises
    BY <2>3
  <2>4. QED BY <2>1, <2>2, <2>3, Steps
<1>3. ASSUME NEW t \in Threads, ThreadStep(t)
      PROVE  /\ has' \in [Threads -> BOOLEAN] /\ lost' \in [Threads -> BOOLEAN]
             /\ late' \in [Threads -> BOOLEAN]
  <2>1. CASE AcquiresLease(t) \/ RetriesLease(t) \/ ReleasesLease(t) \/ PollsCache(t)
             \/ GivesUpWaiting(t) \/ DeadlinePasses(t)
    BY <2>1 DEF AcquiresLease, RetriesLease, Granted, Refused, ReleasesLease, PollsCache,
       GivesUpWaiting, DeadlinePasses
  <2>2. CASE UnreservesKeyLock(t)
    BY <2>2 DEF UnreservesKeyLock, Leaves
  <2>3. CASE ~(AcquiresLease(t) \/ RetriesLease(t) \/ ReleasesLease(t) \/ PollsCache(t)
               \/ GivesUpWaiting(t) \/ DeadlinePasses(t) \/ UnreservesKeyLock(t))
    <3>1. UNCHANGED <<has, lost, late>>
      BY <1>3, <2>3 DEF ThreadStep, Looks, Resolve, Submits, ReservesKeyLock,
         TakesKeyLock, Rechecks, ChecksUnderLease, ProviderFinds, ProviderDenies, ProviderRaises,
         StoresFound, NobodyFinds, ReleasesKeyLock, ChecksActive, TakesCapacity, AddsActive, HandsOver
    <3>2. QED BY <3>1
  <2>4. QED BY <2>1, <2>2, <2>3
<1>4. CASE WorldStep
  <2>1. ASSUME NEW k \in Keys, LeaseExpires(k) PROVE FlagTypes'
    BY <1>2, <2>1 DEF LeaseExpires
  <2>2. ASSUME NEW p \in Processes, Crash(p) PROVE FlagTypes'
    BY <1>2, <2>2 DEF Crash, Leaves
  <2>3. \/ \E k \in Keys : LeaseExpires(k)
        \/ \E p \in Processes : Crash(p)
        \/ UNCHANGED <<has, lost, late>>
    BY <1>4 DEF WorldStep, EntryExpires, FallbackExpires, ArtworkEnds, ArtworkGivesBack, Close,
       ShutsDown
  <2>4. QED BY <1>2, <2>1, <2>2, <2>3
<1>5. QED BY <1>1, <1>2, <1>3, <1>4, Steps

LEMMA PcStep ==
  ASSUME PcInv, FlagTypes, [Next]_vars
  PROVE  PcInv'
<1> USE DEF PcInv, Labels, Artistic
<1>1. CASE UNCHANGED vars
  BY <1>1
<1>2. ASSUME NEW t \in Threads, ThreadStep(t) PROVE PcInv'
  <2>1. role' = role
    BY <1>2 DEF ThreadStep, Looks, Resolve, Submits, DeadlinePasses, ReservesKeyLock,
       TakesKeyLock, Rechecks, AcquiresLease, PollsCache, GivesUpWaiting, RetriesLease,
       ChecksUnderLease, ProviderFinds, ProviderDenies, ProviderRaises, StoresFound,
       NobodyFinds, ReleasesLease, ReleasesKeyLock, UnreservesKeyLock, ChecksActive,
       TakesCapacity, AddsActive, HandsOver
  <2>2. ASSUME NEW there \in Labels, pc' = [pc EXCEPT ![t] = there],
               there \notin {"idle"} \cup Artistic => role[t].calls = "resolve",
               there # "idle" => role[t].calls # "nothing"
        PROVE  PcInv'
    BY <2>1, <2>2
  <2>3. CASE Resolve(t) \/ Submits(t) \/ ReservesKeyLock(t) \/ TakesKeyLock(t) \/ Rechecks(t)
    BY <2>2, <2>3 DEF Resolve, Submits, ReservesKeyLock, TakesKeyLock, Rechecks
  <2>4. CASE AcquiresLease(t) \/ PollsCache(t) \/ GivesUpWaiting(t) \/ RetriesLease(t)
             \/ ChecksUnderLease(t) \/ ProviderFinds(t) \/ ReleasesLease(t) \/ ReleasesKeyLock(t)
    BY <2>2, <2>4 DEF AcquiresLease, PollsCache, GivesUpWaiting, RetriesLease, ChecksUnderLease,
       ProviderFinds, ReleasesLease, ReleasesKeyLock
  <2>5. CASE StoresFound(t) \/ NobodyFinds(t)
    BY <2>2, <2>5 DEF StoresFound, NobodyFinds, AfterLookup
  <2>6. CASE ProviderDenies(t) \/ ProviderRaises(t) \/ DeadlinePasses(t)
    BY <2>1, <2>6 DEF ProviderDenies, ProviderRaises, DeadlinePasses
  <2>7. CASE UnreservesKeyLock(t)
    BY <2>1, <2>7 DEF UnreservesKeyLock, Leaves
  <2>8. /\ AfterSubmit(t) \in Labels
        /\ AfterSubmit(t) # "idle" /\ role[t].calls # "nothing" => role[t].calls = "resolve"
    BY RoleType DEF AfterSubmit, AfterLookup, Calls
  <2>9. CASE ChecksActive(t) \/ TakesCapacity(t) \/ AddsActive(t) \/ HandsOver(t)
    BY <2>2, <2>8, <2>9 DEF ChecksActive, TakesCapacity, AddsActive, HandsOver
  <2>10. QED BY <1>2, <2>3, <2>4, <2>5, <2>6, <2>7, <2>9 DEF ThreadStep, Looks
<1>3. CASE WorldStep
  <2>1. role' = role
    BY <1>3 DEF WorldStep, LeaseExpires, EntryExpires, FallbackExpires, ArtworkEnds,
       ArtworkGivesBack, Close, ShutsDown, Crash
  <2>2. ASSUME NEW p \in Processes, Crash(p) PROVE PcInv'
    BY <2>1, <2>2 DEF Crash, Leaves
  <2>3. (\E p \in Processes : Crash(p)) \/ UNCHANGED pc
    BY <1>3 DEF WorldStep, LeaseExpires, EntryExpires, FallbackExpires, ArtworkEnds,
       ArtworkGivesBack, Close, ShutsDown
  <2>4. QED BY <2>1, <2>2, <2>3
<1>4. QED BY <1>1, <1>2, <1>3, Steps

BaseInv == PcInv /\ CacheTypes /\ ArtTypes /\ AskInv /\ FlagTypes

LEMMA BaseInit == Init => BaseInv
<1> SUFFICES ASSUME Init PROVE BaseInv
  OBVIOUS
<1>1. PcInv
  BY DEF Init, PcInv, Labels
<1>2. CacheTypes /\ ArtTypes
  BY ConstantsAssumption DEF Init, CacheTypes, ArtTypes, Entries, Capacity
<1>3. AskInv /\ FlagTypes
  BY ConstantsAssumption DEF Init, AskInv, FlagTypes
<1>4. QED BY <1>1, <1>2, <1>3 DEF BaseInv

LEMMA BaseCorrect == Spec => []BaseInv
<1>1. BaseInv /\ [Next]_vars => BaseInv'
  BY CacheStep, ArtTypesStep, AskStep, FlagStep, PcStep DEF BaseInv
<1>2. QED BY <1>1, BaseInit, PTL DEF Spec

-----------------------------------------------------------------------------
(* "Not found" gets into a cache only out of a lookup in which every       *)
(* provider answered so, whatever raised, expired or was killed.           *)
THEOREM NegativesHaveBeenEarned == Spec => NegativesAreEarned
<1> DEFINE Earned ==
      \A k \in Keys :
        /\ redis[k] # "not_found" /\ redis'[k] = "not_found" => Denied(k)
        /\ \A p \in Processes :
             fallback[p][k] # "not_found" /\ fallback'[p][k] = "not_found" => Denied(k)
<1>1. BaseInv /\ [Next]_vars => [Earned]_vars
  <2> SUFFICES ASSUME BaseInv, Next PROVE Earned
    OBVIOUS
  <2>a. UNCHANGED <<redis, fallback>> => Earned
    OBVIOUS
  <2>b. ASSUME NEW t \in Threads, NEW e, Stores(t, e)
        PROVE  /\ \A k \in Keys : redis'[k] = redis[k] \/ (k = role[t].key /\ redis'[k] = e)
               /\ \A p \in Processes, k \in Keys :
                    fallback'[p][k] = fallback[p][k] \/ (k = role[t].key /\ fallback'[p][k] = e)
    <3>1. role[t].proc \in Processes /\ role[t].key \in Keys
      BY RoleType DEF BaseInv
    <3>2. redis \in [Keys -> Entries] /\ fallback \in [Processes -> [Keys -> Entries]]
      BY DEF BaseInv, CacheTypes
    <3>3. \A k \in Keys : redis'[k] = redis[k] \/ (k = role[t].key /\ redis'[k] = e)
      BY <2>b, <3>1, <3>2 DEF Stores, RedisSet
    <3>4. fallback' = [fallback EXCEPT ![role[t].proc][role[t].key] = e]
      BY <2>b DEF Stores, MemorySet
    <3>5. ASSUME NEW p \in Processes, NEW k \in Keys
          PROVE  fallback'[p][k] = fallback[p][k] \/ (k = role[t].key /\ fallback'[p][k] = e)
      BY <3>1, <3>2, <3>4, NestedValue
    <3>6. QED BY <3>3, <3>5
  <2>1. ASSUME NEW t \in Threads, ThreadStep(t) PROVE Earned
    <3>1. CASE StoresFound(t)
      BY <2>b, <3>1 DEF StoresFound
    <3>2. CASE NobodyFinds(t)
      <4>1. CASE failed[t]
        BY <2>a, <3>2, <4>1 DEF NobodyFinds
      <4>2. CASE ~failed[t]
        <5>1. pc[t] = "ask" /\ prov[t] > NumProviders /\ denials[t] + 1 = prov[t]
          BY <3>2, <4>2, ConstantsAssumption DEF NobodyFinds, Asking, BaseInv, AskInv
        <5>2. denials[t] = NumProviders
          <6>1. prov[t] \in 1..NumProviders + 1 /\ denials[t] \in Nat /\ NumProviders \in Nat
            BY ConstantsAssumption DEF BaseInv, AskInv
          <6>2. QED BY ONLY <5>1, <6>1
        <5>3. Denied(role[t].key)
          BY <5>1, <5>2 DEF Denied
        <5>4. Stores(t, "not_found")
          BY <3>2, <4>2 DEF NobodyFinds
        <5>5. QED BY <2>b, <5>3, <5>4
      <4>3. QED BY <4>1, <4>2
    <3>3. CASE ~StoresFound(t) /\ ~NobodyFinds(t)
      <4>1. UNCHANGED <<redis, fallback>>
        BY <2>1, <3>3 DEF ThreadStep, Looks, Resolve, Submits, DeadlinePasses, ReservesKeyLock,
           TakesKeyLock, Rechecks, AcquiresLease, PollsCache, GivesUpWaiting, RetriesLease,
           ChecksUnderLease, ProviderFinds, ProviderDenies, ProviderRaises, ReleasesLease,
           ReleasesKeyLock, UnreservesKeyLock, ChecksActive, TakesCapacity, AddsActive, HandsOver
      <4>2. QED BY <2>a, <4>1
    <3>4. QED BY <3>1, <3>2, <3>3
  <2>2. CASE WorldStep
    <3>1. ASSUME NEW k \in Keys, EntryExpires(k) PROVE Earned
      BY <3>1 DEF EntryExpires, BaseInv, CacheTypes
    <3>2. ASSUME NEW p \in Processes, NEW k \in Keys, FallbackExpires(p, k) PROVE Earned
      <4>1. fallback' = [fallback EXCEPT ![p][k] = "none"] /\ redis' = redis
        BY <3>2 DEF FallbackExpires
      <4>2. \A q \in Processes, l \in Keys :
              fallback'[q][l] = IF q = p /\ l = k THEN "none" ELSE fallback[q][l]
        BY <4>1, NestedValue DEF BaseInv, CacheTypes
      <4>3. QED BY <4>1, <4>2
    <3>3. ASSUME NEW p \in Processes, Crash(p) PROVE Earned
      BY <3>3 DEF Crash, BaseInv, CacheTypes
    <3>4. \/ \E k \in Keys : EntryExpires(k)
          \/ \E p \in Processes, k \in Keys : FallbackExpires(p, k)
          \/ \E p \in Processes : Crash(p)
          \/ UNCHANGED <<redis, fallback>>
      BY <2>2 DEF WorldStep, LeaseExpires, ArtworkEnds, ArtworkGivesBack, Close, ShutsDown
    <3>5. QED BY <2>a, <3>1, <3>2, <3>3, <3>4
  <2>3. QED BY <2>1, <2>2, Steps
<1>2. QED BY <1>1, BaseCorrect, PTL DEF Spec, NegativesAreEarned

-----------------------------------------------------------------------------
(* Leases.  A thread that holds one that has not run out is the one Redis  *)
(* names under the book's key.                                             *)

LeaseInv == \A t \in Threads : has[t] /\ ~lost[t] => lease[role[t].key] = t

LEMMA LeaseStep ==
  ASSUME BaseInv, LeaseInv, [Next]_vars
  PROVE  LeaseInv'
<1>a. /\ lease \in [Keys -> Threads \cup {"free"}] /\ "free" \notin Threads
      /\ has \in [Threads -> BOOLEAN] /\ lost \in [Threads -> BOOLEAN]
      /\ \A t \in Threads : role[t].key \in Keys
  BY RoleType, ConstantsAssumption DEF BaseInv, CacheTypes, FlagTypes
<1>b. role' = role
  BY DEF Next, Looks, Resolve, Submits, DeadlinePasses, ReservesKeyLock,
     TakesKeyLock, Rechecks, AcquiresLease, PollsCache, GivesUpWaiting, RetriesLease,
     ChecksUnderLease, ProviderFinds, ProviderDenies, ProviderRaises, StoresFound,
     NobodyFinds, ReleasesLease, ReleasesKeyLock, UnreservesKeyLock, ChecksActive,
     TakesCapacity, AddsActive, HandsOver, LeaseExpires, EntryExpires, FallbackExpires,
     ArtworkEnds, ArtworkGivesBack, Close, ShutsDown, Crash
<1>1. CASE UNCHANGED <<lease, has, lost>>
  BY <1>1, <1>b DEF LeaseInv
<1>2. ASSUME NEW T, Leaves(T), lease' = lease PROVE LeaseInv'
  BY <1>2, <1>b DEF Leaves, LeaseInv
<1>3. ASSUME NEW t \in Threads, ThreadStep(t) PROVE LeaseInv'
  <2>1. CASE Granted(t) /\ lost' = lost
    BY <1>a, <1>b, <2>1 DEF Granted, LeaseInv
  <2>2. CASE AcquiresLease(t) \/ RetriesLease(t)
    BY <1>1, <2>1, <2>2 DEF AcquiresLease, RetriesLease, Refused
  <2>3. CASE ReleasesLease(t)
    BY <1>a, <1>b, <2>3 DEF ReleasesLease, DeletesOwnLease, LeaseInv
  <2>4. CASE UnreservesKeyLock(t)
    BY <1>2, <2>4 DEF UnreservesKeyLock
  <2>5. CASE ~(AcquiresLease(t) \/ RetriesLease(t) \/ ReleasesLease(t) \/ UnreservesKeyLock(t))
    <3>1. UNCHANGED <<lease, has, lost>>
      BY <1>3, <2>5 DEF ThreadStep, Looks, Resolve, Submits, DeadlinePasses, ReservesKeyLock,
         TakesKeyLock, Rechecks, PollsCache, GivesUpWaiting, ChecksUnderLease, ProviderFinds,
         ProviderDenies, ProviderRaises, StoresFound, NobodyFinds, ReleasesKeyLock, ChecksActive,
         TakesCapacity, AddsActive, HandsOver
    <3>2. QED BY <1>1, <3>1
  <2>6. QED BY <2>2, <2>3, <2>4, <2>5
<1>4. ASSUME NEW k \in Keys, LeaseExpires(k) PROVE LeaseInv'
  BY <1>a, <1>b, <1>4 DEF LeaseExpires, LeaseInv
<1>5. CASE WorldStep
  <2>1. \/ \E k \in Keys : LeaseExpires(k)
        \/ \E p \in Processes : Crash(p)
        \/ UNCHANGED <<lease, has, lost>>
    BY <1>5 DEF WorldStep, EntryExpires, FallbackExpires, ArtworkEnds, ArtworkGivesBack, Close,
       ShutsDown
  <2>2. QED BY <1>1, <1>2, <1>4, <2>1 DEF Crash
<1>6. QED BY <1>1, <1>3, <1>5, Steps

-----------------------------------------------------------------------------
(* Key locks.  The entry of a book in a process's table is one lock        *)
(* object, shared with no other entry, and it is there as long as a thread *)
(* has reserved it; the object counts those threads, and is held by one of *)
(* them at most.                                                           *)

HasLock(t) == role[t].calls = "resolve" /\ pc[t] \notin {"idle", "reserve"}

Users(o) == {t \in Threads : lock[t] = o}

LockTypes ==
  /\ table \in [Processes -> [Keys -> Locks \cup {0}]]
  /\ users \in [Locks -> Nat] /\ held \subseteq Locks
  /\ lock \in [Threads -> Locks \cup {0}]

LockIsEntry ==
  \A t \in Threads :
    IF HasLock(t) THEN lock[t] # 0 /\ table[role[t].proc][role[t].key] = lock[t] ELSE lock[t] = 0

EntriesDiffer ==
  \A p, q \in Processes, k, l \in Keys :
    table[p][k] # 0 /\ table[p][k] = table[q][l] => p = q /\ k = l

UsersCount == \A o \in Locks : users[o] = Cardinality(Users(o))

EntriesUsed ==
  \A p \in Processes, k \in Keys : table[p][k] # 0 => \E t \in Threads : lock[t] = table[p][k]

HeldOnce ==
  /\ \A t \in Threads : Locked(t) => lock[t] \in held
  /\ \A t, u \in Threads : Locked(t) /\ Locked(u) /\ lock[t] = lock[u] => t = u

KeyLockInv ==
  LockTypes /\ LockIsEntry /\ EntriesDiffer /\ UsersCount /\ EntriesUsed /\ HeldOnce

LEMMA LocksArePositive == \A o \in Locks : o \in Nat /\ o # 0
<1>1. Cardinality(Threads) \in Nat
  BY ConstantsAssumption, FS_CardinalityType
<1>2. QED BY <1>1 DEF Locks

LEMMA UsersFinite ==
  ASSUME NEW o
  PROVE  IsFiniteSet(Users(o)) /\ Cardinality(Users(o)) \in Nat
<1>1. Users(o) \in SUBSET Threads
  BY DEF Users
<1>2. QED BY <1>1, ConstantsAssumption, FS_Subset, FS_CardinalityType

(* Threads with one lock object run in one process and ask for one book.   *)
LEMMA SameLock ==
  ASSUME BaseInv, KeyLockInv, NEW t \in Threads, NEW u \in Threads,
         lock[t] = lock[u], lock[t] # 0
  PROVE  role[t].proc = role[u].proc /\ role[t].key = role[u].key
<1>1. /\ HasLock(t) /\ HasLock(u)
      /\ table[role[t].proc][role[t].key] = lock[t]
      /\ table[role[u].proc][role[u].key] = lock[u]
  BY DEF KeyLockInv, LockIsEntry
<1>2. /\ role[t].proc \in Processes /\ role[t].key \in Keys
      /\ role[u].proc \in Processes /\ role[u].key \in Keys
  BY RoleType DEF BaseInv
<1>3. QED BY <1>1, <1>2 DEF KeyLockInv, EntriesDiffer

(* There are as many lock objects as threads, so that a thread without one *)
(* finds one that is free.                                                 *)
LEMMA FreshLockExists ==
  ASSUME KeyLockInv, NEW t \in Threads, lock[t] = 0
  PROVE  /\ FreshLock \in Locks
         /\ users[FreshLock] = 0
         /\ \A p \in Processes, k \in Keys : table[p][k] # FreshLock
<1>1. \E o \in Locks : Users(o) = {}
  <2> SUFFICES ASSUME \A o \in Locks : Users(o) # {} PROVE FALSE
    OBVIOUS
  <2> DEFINE Rest == Threads \ {t}
             f == [o \in Locks |-> CHOOSE u \in Threads : lock[u] = o]
  <2>1. \A o \in Locks : f[o] \in Threads /\ lock[f[o]] = o
    BY DEF Users
  <2>2. f \in [Locks -> Rest]
    BY <2>1, LocksArePositive
  <2>3. /\ IsFiniteSet(Rest) /\ Cardinality(Rest) = Cardinality(Threads) - 1
        /\ Cardinality(Threads) \in Nat
    BY ConstantsAssumption, FS_RemoveElement, FS_CardinalityType
  <2>4. IsFiniteSet(Locks) /\ Cardinality(Locks) = Cardinality(Threads)
    <3>1. /\ IsFiniteSet(1..Cardinality(Threads))
          /\ Cardinality(1..Cardinality(Threads)) =
               IF 1 > Cardinality(Threads) THEN 0 ELSE Cardinality(Threads) - 1 + 1
      BY <2>3, FS_Interval
    <3>2. QED BY <2>3, <3>1 DEF Locks
  <2>5. Cardinality(Rest) < Cardinality(Locks)
    BY <2>3, <2>4
  <2> HIDE DEF f, Rest
  <2>6. \E x, y \in Locks : x # y /\ f[x] = f[y]
    BY <2>2, <2>3, <2>4, <2>5, FS_PigeonHole
  <2>7. QED BY <2>1, <2>6
<1>2. ASSUME NEW o \in Locks, Users(o) = {}
      PROVE  users[o] = 0 /\ \A p \in Processes, k \in Keys : table[p][k] # o
  <2>1. users[o] = 0
    BY <1>2, FS_EmptySet DEF KeyLockInv, UsersCount
  <2>2. \A p \in Processes, k \in Keys : table[p][k] # o
    BY <1>2, LocksArePositive DEF KeyLockInv, EntriesUsed, Users
  <2>3. QED BY <2>1, <2>2
<1>3. \E o \in Locks : users[o] = 0 /\ \A p \in Processes, k \in Keys : table[p][k] # o
  BY <1>1, <1>2
<1>4. QED BY <1>3 DEF FreshLock

(* A step that keeps the locks, and who should have one.                   *)
LEMMA LockFrame ==
  ASSUME KeyLockInv, UNCHANGED <<role, table, users, lock>>,
         \A t \in Threads : HasLock(t)' = HasLock(t),
         held' \subseteq Locks, HeldOnce'
  PROVE  KeyLockInv'
<1>1. LockTypes' /\ EntriesDiffer' /\ EntriesUsed'
  BY DEF KeyLockInv, LockTypes, EntriesDiffer, EntriesUsed
<1>2. LockIsEntry'
  BY DEF KeyLockInv, LockIsEntry
<1>3. UsersCount'
  BY DEF KeyLockInv, UsersCount, Users
<1>4. QED BY <1>1, <1>2, <1>3 DEF KeyLockInv

LEMMA LockStutter ==
  ASSUME KeyLockInv, UNCHANGED <<role, table, users, lock, held>>,
         \A t \in Threads : HasLock(t)' = HasLock(t) /\ Locked(t)' = Locked(t)
  PROVE  KeyLockInv'
<1>1. HeldOnce' /\ held' \subseteq Locks
  BY DEF KeyLockInv, HeldOnce, LockTypes
<1>2. QED BY <1>1, LockFrame

LEMMA ReserveStep ==
  ASSUME BaseInv, KeyLockInv, NEW t \in Threads, ReservesKeyLock(t)
  PROVE  KeyLockInv'
<1> DEFINE p == role[t].proc
           k == role[t].key
           o == IF table[p][k] # 0 THEN table[p][k] ELSE FreshLock
<1>1. p \in Processes /\ k \in Keys
  BY RoleType DEF BaseInv
<1>2. /\ pc[t] = "reserve" /\ pc' = [pc EXCEPT ![t] = "lock"]
      /\ table' = [table EXCEPT ![p][k] = o]
      /\ users' = [users EXCEPT ![o] = users[o] + 1]
      /\ lock' = [lock EXCEPT ![t] = o]
      /\ UNCHANGED <<role, held>>
  BY DEF ReservesKeyLock
<1>3. lock[t] = 0
  BY <1>2 DEF KeyLockInv, LockIsEntry, HasLock
<1>4. /\ o \in Locks /\ o # 0
      /\ \A q \in Processes, l \in Keys : table[q][l] = o => q = p /\ l = k
  <2>1. CASE table[p][k] # 0
    BY <1>1, <2>1 DEF KeyLockInv, LockTypes, EntriesDiffer
  <2>2. CASE table[p][k] = 0
    BY <1>3, <2>2, FreshLockExists, LocksArePositive
  <2>3. QED BY <2>1, <2>2
<1>5. \A q \in Processes, l \in Keys :
        table'[q][l] = IF q = p /\ l = k THEN o ELSE table[q][l]
  <2>1. table \in [Processes -> [Keys -> Locks \cup {0}]]
    BY DEF KeyLockInv, LockTypes
  <2> HIDE DEF p, k, o
  <2>2. QED BY <1>1, <1>2, <2>1, NestedValue
<1>6. \A u \in Threads : lock'[u] = IF u = t THEN o ELSE lock[u]
  BY <1>2 DEF KeyLockInv, LockTypes
<1>7. LockTypes'
  <2>1. table' \in [Processes -> [Keys -> Locks \cup {0}]]
    <3>1. table \in [Processes -> [Keys -> Locks \cup {0}]] /\ o \in Locks \cup {0}
      BY <1>4 DEF KeyLockInv, LockTypes
    <3> HIDE DEF p, k, o
    <3>2. QED BY <1>1, <1>2, <3>1, NestedType
  <2>2. QED BY <1>2, <1>4, <2>1 DEF KeyLockInv, LockTypes
<1> HIDE DEF o
<1>8. LockIsEntry'
  <2> SUFFICES ASSUME NEW u \in Threads
               PROVE  IF HasLock(u)' THEN lock'[u] # 0 /\ table'[role[u].proc][role[u].key] = lock'[u]
                                     ELSE lock'[u] = 0
    BY <1>2 DEF LockIsEntry
  <2>1. CASE u = t
    <3>1. HasLock(t)'
      <4>1. role[t].calls = "resolve" /\ pc'[t] = "lock"
        BY <1>2 DEF BaseInv, PcInv, Artistic
      <4>2. QED BY <1>2, <4>1 DEF HasLock
    <3>2. QED BY <1>1, <1>4, <1>5, <1>6, <2>1, <3>1
  <2>2. CASE u # t
    <3>1. HasLock(u)' = HasLock(u)
      BY <1>2, <2>2 DEF HasLock, BaseInv, PcInv
    <3>2. role[u].proc \in Processes /\ role[u].key \in Keys
      BY RoleType DEF BaseInv
    <3>3. HasLock(u) => table'[role[u].proc][role[u].key] = table[role[u].proc][role[u].key]
      BY <1>5, <3>2 DEF KeyLockInv, LockIsEntry, o
    <3>4. QED BY <1>6, <2>2, <3>1, <3>3 DEF KeyLockInv, LockIsEntry
  <2>3. QED BY <2>1, <2>2
<1>9. EntriesDiffer'
  BY <1>4, <1>5 DEF KeyLockInv, EntriesDiffer
<1>10. UsersCount'
  <2> SUFFICES ASSUME NEW c \in Locks PROVE users'[c] = Cardinality(Users(c)')
    BY DEF UsersCount
  <2>1. CASE c = o
    <3>1. Users(c)' = Users(c) \cup {t} /\ t \notin Users(c)
      BY <1>3, <1>4, <1>6, <2>1 DEF Users
    <3>2. Cardinality(Users(c) \cup {t}) = Cardinality(Users(c)) + 1
      BY <3>1, UsersFinite, FS_AddElement
    <3>3. users'[c] = users[c] + 1
      BY <1>2, <2>1 DEF KeyLockInv, LockTypes
    <3>4. QED BY <3>1, <3>2, <3>3 DEF KeyLockInv, UsersCount
  <2>2. CASE c # o
    <3>1. Users(c)' = Users(c)
      BY <1>3, <1>6, <2>2, LocksArePositive DEF Users
    <3>2. users'[c] = users[c]
      BY <1>2, <2>2 DEF KeyLockInv, LockTypes
    <3>3. QED BY <3>1, <3>2 DEF KeyLockInv, UsersCount
  <2>3. QED BY <2>1, <2>2
<1>11. EntriesUsed'
  <2> SUFFICES ASSUME NEW q \in Processes, NEW l \in Keys, table'[q][l] # 0
               PROVE  \E u \in Threads : lock'[u] = table'[q][l]
    BY DEF EntriesUsed
  <2>1. CASE q = p /\ l = k
    BY <1>5, <1>6, <2>1
  <2>2. CASE ~(q = p /\ l = k)
    <3>1. table'[q][l] = table[q][l]
      BY <1>5, <2>2
    <3>2. PICK u \in Threads : lock[u] = table[q][l]
      BY <3>1 DEF KeyLockInv, EntriesUsed
    <3>3. u # t
      BY <1>3, <3>1, <3>2
    <3>4. QED BY <1>6, <3>1, <3>2, <3>3
  <2>3. QED BY <2>1, <2>2
<1>12. HeldOnce'
  <2>1. \A u \in Threads : Locked(u)' => Locked(u) /\ u # t
    BY <1>2 DEF Locked, BaseInv, PcInv
  <2>2. QED BY <1>2, <1>6, <2>1 DEF KeyLockInv, HeldOnce
<1>13. QED BY <1>7, <1>8, <1>9, <1>10, <1>11, <1>12 DEF KeyLockInv

LEMMA UnreserveStep ==
  ASSUME BaseInv, KeyLockInv, NEW t \in Threads, UnreservesKeyLock(t)
  PROVE  KeyLockInv'
<1> DEFINE p == role[t].proc
           k == role[t].key
           o == lock[t]
<1>1. p \in Processes /\ k \in Keys
  BY RoleType DEF BaseInv
<1>2. /\ pc[t] = "unreserve" /\ pc' = [u \in Threads |-> IF u = t THEN "idle" ELSE pc[u]]
      /\ users' = [users EXCEPT ![o] = users[o] - 1]
      /\ table' = IF DropsEntry(t) THEN [table EXCEPT ![p][k] = 0] ELSE table
      /\ lock' = [lock EXCEPT ![t] = 0]
      /\ UNCHANGED <<role, held>>
  BY DEF UnreservesKeyLock, Leaves
<1>3. o # 0 /\ o \in Locks /\ table[p][k] = o
  <2>1. HasLock(t)
    BY <1>2 DEF HasLock, BaseInv, PcInv, Artistic
  <2>2. QED BY <2>1 DEF KeyLockInv, LockIsEntry, LockTypes
<1>4. \A u \in Threads : lock'[u] = IF u = t THEN 0 ELSE lock[u]
  BY <1>2 DEF KeyLockInv, LockTypes
<1>5. users[o] = Cardinality(Users(o)) /\ t \in Users(o)
  BY <1>3 DEF KeyLockInv, UsersCount, Users
<1>6. DropsEntry(t) => \A u \in Threads : lock[u] = o => u = t
  <2> SUFFICES ASSUME DropsEntry(t) PROVE \A u \in Threads : lock[u] = o => u = t
    OBVIOUS
  <2>1. Cardinality(Users(o)) = 1
    BY <1>5 DEF DropsEntry
  <2>2. PICK x : Users(o) = {x}
    BY <2>1, UsersFinite, FS_Singleton
  <2>3. QED BY <1>5, <2>2 DEF Users
<1>7. ~DropsEntry(t) => \E u \in Threads : u # t /\ lock[u] = o
  <2> SUFFICES ASSUME ~DropsEntry(t), \A u \in Threads : lock[u] = o => u = t PROVE FALSE
    OBVIOUS
  <2>1. Users(o) = {t}
    BY <1>5 DEF Users
  <2>2. Cardinality(Users(o)) = 1
    BY <2>1, FS_Singleton
  <2>3. QED BY <1>3, <1>5, <2>2 DEF DropsEntry
<1>8. \A q \in Processes, l \in Keys :
        table'[q][l] = IF DropsEntry(t) /\ q = p /\ l = k THEN 0 ELSE table[q][l]
  <2>1. table \in [Processes -> [Keys -> Locks \cup {0}]]
    BY DEF KeyLockInv, LockTypes
  <2> HIDE DEF p, k, o
  <2>2. QED BY <1>1, <1>2, <2>1, NestedValue
<1>9. LockTypes'
  <2>1. table' \in [Processes -> [Keys -> Locks \cup {0}]]
    <3>1. table \in [Processes -> [Keys -> Locks \cup {0}]] /\ 0 \in Locks \cup {0}
      BY DEF KeyLockInv, LockTypes
    <3> HIDE DEF p, k, o
    <3>2. QED BY <1>1, <1>2, <3>1, NestedType
  <2>2. users[o] - 1 \in Nat
    <3>1. Users(o) # {} /\ users[o] \in Nat
      BY <1>5, UsersFinite
    <3>2. users[o] # 0
      BY <1>5, <3>1, UsersFinite, FS_EmptySet
    <3>3. QED BY <3>1, <3>2
  <2>3. users' \in [Locks -> Nat]
    BY <1>2, <2>2 DEF KeyLockInv, LockTypes
  <2>4. lock' \in [Threads -> Locks \cup {0}]
    BY <1>2 DEF KeyLockInv, LockTypes
  <2>5. QED BY <1>2, <2>1, <2>3, <2>4 DEF KeyLockInv, LockTypes
<1>10. LockIsEntry'
  <2> SUFFICES ASSUME NEW u \in Threads
               PROVE  IF HasLock(u)' THEN lock'[u] # 0 /\ table'[role[u].proc][role[u].key] = lock'[u]
                                     ELSE lock'[u] = 0
    BY <1>2 DEF LockIsEntry
  <2>1. CASE u = t
    <3>1. ~HasLock(u)'
      BY <1>2, <2>1 DEF HasLock
    <3>2. QED BY <1>4, <2>1, <3>1
  <2>2. CASE u # t
    <3>1. HasLock(u)' = HasLock(u)
      BY <1>2, <2>2 DEF HasLock
    <3>2. role[u].proc \in Processes /\ role[u].key \in Keys
      BY RoleType DEF BaseInv
    <3>3. HasLock(u) => lock[u] # 0 /\ table[role[u].proc][role[u].key] = lock[u]
      BY DEF KeyLockInv, LockIsEntry
    <3>4. HasLock(u) => ~(DropsEntry(t) /\ role[u].proc = p /\ role[u].key = k)
      BY <1>3, <1>6, <2>2, <3>3
    <3>5. HasLock(u) => table'[role[u].proc][role[u].key] = lock[u]
      <4> HIDE DEF p, k, o
      <4>1. QED BY <1>8, <3>2, <3>3, <3>4
    <3>6. ~HasLock(u) => lock[u] = 0
      BY DEF KeyLockInv, LockIsEntry
    <3>7. QED BY <1>4, <2>2, <3>1, <3>3, <3>5, <3>6
  <2>3. QED BY <2>1, <2>2
<1>11. EntriesDiffer'
  <2> SUFFICES ASSUME NEW q \in Processes, NEW r \in Processes, NEW l \in Keys, NEW m \in Keys,
                      table'[q][l] # 0, table'[q][l] = table'[r][m]
               PROVE  q = r /\ l = m
    BY DEF EntriesDiffer
  <2>1. table[q][l] # 0 /\ table[q][l] = table[r][m]
    <3> HIDE DEF p, k, o
    <3>1. QED BY <1>8
  <2>2. QED BY <2>1 DEF KeyLockInv, EntriesDiffer
<1>12. UsersCount'
  <2> SUFFICES ASSUME NEW c \in Locks PROVE users'[c] = Cardinality(Users(c)')
    BY DEF UsersCount
  <2>0. c # 0
    BY LocksArePositive
  <2>1. CASE c = o
    <3>1. Users(c)' = Users(c) \ {t} /\ t \in Users(c)
      BY <1>4, <1>5, <2>0, <2>1 DEF Users
    <3>2. Cardinality(Users(c) \ {t}) = Cardinality(Users(c)) - 1
      BY <3>1, UsersFinite, FS_RemoveElement
    <3>3. users'[c] = users[c] - 1
      BY <1>2, <2>1 DEF KeyLockInv, LockTypes
    <3>4. QED BY <3>1, <3>2, <3>3 DEF KeyLockInv, UsersCount
  <2>2. CASE c # o
    <3>1. Users(c)' = Users(c)
      BY <1>4, <2>0, <2>2 DEF Users
    <3>2. users'[c] = users[c]
      BY <1>2, <2>2 DEF KeyLockInv, LockTypes
    <3>3. QED BY <3>1, <3>2 DEF KeyLockInv, UsersCount
  <2>3. QED BY <2>1, <2>2
<1>13. EntriesUsed'
  <2> SUFFICES ASSUME NEW q \in Processes, NEW l \in Keys, table'[q][l] # 0
               PROVE  \E u \in Threads : lock'[u] = table'[q][l]
    BY DEF EntriesUsed
  <2>1. table'[q][l] = table[q][l] /\ ~(DropsEntry(t) /\ q = p /\ l = k)
    <3> HIDE DEF p, k, o
    <3>1. QED BY <1>8
  <2>2. PICK u \in Threads : lock[u] = table[q][l]
    BY <2>1 DEF KeyLockInv, EntriesUsed
  <2>3. CASE u # t
    BY <1>4, <2>1, <2>2, <2>3
  <2>4. CASE u = t
    <3>1. q = p /\ l = k
      BY <1>1, <1>3, <2>2, <2>4 DEF KeyLockInv, EntriesDiffer
    <3>2. PICK v \in Threads : v # t /\ lock[v] = o
      BY <1>7, <2>1, <3>1
    <3>3. QED BY <1>4, <2>1, <2>2, <2>4, <3>2
  <2>5. QED BY <2>3, <2>4
<1>14. HeldOnce'
  <2>1. \A u \in Threads : Locked(u)' => Locked(u) /\ u # t
    BY <1>2 DEF Locked
  <2>2. QED BY <1>2, <1>4, <2>1 DEF KeyLockInv, HeldOnce
<1>15. QED BY <1>9, <1>10, <1>11, <1>12, <1>13, <1>14 DEF KeyLockInv

(* A process that dies takes its table, and no lock object of another.     *)
LEMMA LockCrash ==
  ASSUME BaseInv, KeyLockInv, NEW p \in Processes, Crash(p)
  PROVE  KeyLockInv'
<1> DEFINE gone == {lock[t] : t \in ThreadsOf(p)}
<1>1. /\ pc' = [t \in Threads |-> IF t \in ThreadsOf(p) THEN "idle" ELSE pc[t]]
      /\ users' = [o \in Locks |-> IF o \in gone THEN 0 ELSE users[o]]
      /\ held' = held \ gone
      /\ table' = [table EXCEPT ![p] = [k \in Keys |-> 0]]
      /\ lock' = [t \in Threads |-> IF role[t].proc = p THEN 0 ELSE lock[t]]
      /\ role' = role
  BY DEF Crash, Leaves
<1>2. \A t \in Threads : t \in ThreadsOf(p) <=> role[t].proc = p
  BY DEF ThreadsOf
<1>3. \A q \in Processes, k \in Keys : table'[q][k] = IF q = p THEN 0 ELSE table[q][k]
  BY <1>1 DEF KeyLockInv, LockTypes
<1>4. ASSUME NEW t \in Threads, role[t].proc # p, lock[t] # 0 PROVE lock[t] \notin gone
  <2>1. \A u \in Threads : lock[u] = lock[t] => role[u].proc = role[t].proc
    BY <1>4, SameLock
  <2>2. QED BY <1>2, <1>4, <2>1 DEF ThreadsOf
<1>5. LockTypes'
  <2>1. table' \in [Processes -> [Keys -> Locks \cup {0}]]
    BY <1>1 DEF KeyLockInv, LockTypes
  <2>2. QED BY <1>1, <2>1 DEF KeyLockInv, LockTypes
<1> HIDE DEF gone
<1>6. \A t \in Threads : HasLock(t)' <=> HasLock(t) /\ role[t].proc # p
  BY <1>1, <1>2 DEF HasLock
<1>7. LockIsEntry'
  <2> SUFFICES ASSUME NEW u \in Threads
               PROVE  IF HasLock(u)' THEN lock'[u] # 0 /\ table'[role[u].proc][role[u].key] = lock'[u]
                                     ELSE lock'[u] = 0
    BY <1>1 DEF LockIsEntry
  <2>1. role[u].proc \in Processes /\ role[u].key \in Keys
    BY RoleType DEF BaseInv
  <2>2. IF HasLock(u) THEN lock[u] # 0 /\ table[role[u].proc][role[u].key] = lock[u]
                      ELSE lock[u] = 0
    BY DEF KeyLockInv, LockIsEntry
  <2>3. QED BY <1>1, <1>3, <1>6, <2>1, <2>2
<1>8. EntriesDiffer'
  BY <1>3 DEF KeyLockInv, EntriesDiffer
<1>9. UsersCount'
  <2> SUFFICES ASSUME NEW c \in Locks PROVE users'[c] = Cardinality(Users(c)')
    BY DEF UsersCount
  <2>0. c # 0
    BY LocksArePositive
  <2>1. CASE c \in gone
    <3>1. PICK t \in Threads : role[t].proc = p /\ lock[t] = c
      BY <1>2, <2>1 DEF gone, ThreadsOf
    <3>2. \A u \in Threads : lock[u] = c => role[u].proc = p
      BY <2>0, <3>1, SameLock
    <3>3. Users(c)' = {}
      BY <1>1, <2>0, <3>2 DEF Users
    <3>4. users'[c] = 0
      BY <1>1, <2>1
    <3>5. QED BY <3>3, <3>4, FS_EmptySet
  <2>2. CASE c \notin gone
    <3>1. \A u \in Threads : lock[u] = c => role[u].proc # p
      BY <1>2, <2>2 DEF gone
    <3>2. Users(c)' = Users(c)
      BY <1>1, <2>0, <3>1 DEF Users
    <3>3. users'[c] = users[c]
      BY <1>1, <2>2
    <3>4. QED BY <3>2, <3>3 DEF KeyLockInv, UsersCount
  <2>3. QED BY <2>1, <2>2
<1>10. EntriesUsed'
  <2> SUFFICES ASSUME NEW q \in Processes, NEW l \in Keys, table'[q][l] # 0
               PROVE  \E u \in Threads : lock'[u] = table'[q][l]
    BY DEF EntriesUsed
  <2>1. q # p /\ table'[q][l] = table[q][l]
    BY <1>3
  <2>2. PICK u \in Threads : lock[u] = table[q][l]
    BY <2>1 DEF KeyLockInv, EntriesUsed
  <2>3. /\ role[u].proc \in Processes /\ role[u].key \in Keys
        /\ table[role[u].proc][role[u].key] = lock[u]
    BY <2>1, <2>2, RoleType DEF BaseInv, KeyLockInv, LockIsEntry
  <2>4. role[u].proc = q
    BY <2>1, <2>2, <2>3 DEF KeyLockInv, EntriesDiffer
  <2>5. QED BY <1>1, <2>1, <2>2, <2>4
<1>11. HeldOnce'
  <2>1. \A u \in Threads : Locked(u)' => Locked(u) /\ role[u].proc # p
    BY <1>1, <1>2 DEF Locked
  <2>2. \A u \in Threads : Locked(u) => lock[u] # 0
    BY DEF Locked, HasLock, KeyLockInv, LockIsEntry
  <2>3. QED BY <1>1, <1>4, <2>1, <2>2 DEF KeyLockInv, HeldOnce
<1>12. QED BY <1>5, <1>7, <1>8, <1>9, <1>10, <1>11 DEF KeyLockInv

LEMMA LockThread ==
  ASSUME BaseInv, KeyLockInv, NEW t \in Threads, ThreadStep(t)
  PROVE  KeyLockInv'
<1>a. /\ pc \in [Threads -> Labels]
      /\ pc[t] \notin {"idle"} \cup Artistic => role[t].calls = "resolve"
  BY DEF BaseInv, PcInv
<1>1. ASSUME UNCHANGED <<role, table, users, lock, held>>,
             NEW there, pc' = [pc EXCEPT ![t] = there],
             \/ role[t].calls # "resolve"
             \/ {pc[t], there} \subseteq {"idle", "reserve"}
             \/ {pc[t], there} \cap {"idle", "reserve", "lock", "unreserve"} = {}
      PROVE  KeyLockInv'
  <2>1. \A u \in Threads : HasLock(u)' = HasLock(u) /\ Locked(u)' = Locked(u)
    BY <1>1, <1>a DEF HasLock, Locked
  <2>2. QED BY <1>1, <2>1, LockStutter
<1>2. CASE Resolve(t) \/ Submits(t) \/ Rechecks(t) \/ AcquiresLease(t) \/ PollsCache(t)
  BY <1>1, <1>2 DEF Resolve, Submits, Rechecks, AcquiresLease, PollsCache
<1>3. CASE GivesUpWaiting(t) \/ RetriesLease(t) \/ ChecksUnderLease(t) \/ ProviderFinds(t)
           \/ StoresFound(t) \/ NobodyFinds(t) \/ ReleasesLease(t)
  BY <1>1, <1>3 DEF GivesUpWaiting, RetriesLease, ChecksUnderLease, ProviderFinds, StoresFound,
     NobodyFinds, ReleasesLease, AfterLookup
<1>4. CASE ChecksActive(t) \/ TakesCapacity(t) \/ AddsActive(t) \/ HandsOver(t)
  <2>1. role[t].calls = "submit" \/ AfterSubmit(t) \in {"release", "unlock"}
    BY DEF AfterSubmit, AfterLookup
  <2>2. QED BY <1>1, <1>4, <2>1 DEF ChecksActive, TakesCapacity, AddsActive, HandsOver
<1>5. CASE ProviderDenies(t) \/ ProviderRaises(t) \/ DeadlinePasses(t)
  <2>1. UNCHANGED <<role, table, users, lock, held, pc>>
    BY <1>5 DEF ProviderDenies, ProviderRaises, DeadlinePasses
  <2>2. QED BY <2>1, LockStutter DEF HasLock, Locked
<1>6. ASSUME UNCHANGED <<role, table, users, lock>>,
             NEW there, pc' = [pc EXCEPT ![t] = there],
             {pc[t], there} \cap {"idle", "reserve"} = {},
             held' \subseteq Locks, HeldOnce'
      PROVE  KeyLockInv'
  <2>1. \A u \in Threads : HasLock(u)' = HasLock(u)
    BY <1>6, <1>a DEF HasLock
  <2>2. QED BY <1>6, <2>1, LockFrame
<1>7. CASE TakesKeyLock(t)
  <2>1. /\ pc[t] = "lock" /\ pc' = [pc EXCEPT ![t] = "recheck"]
        /\ lock[t] \notin held /\ held' = held \cup {lock[t]}
        /\ UNCHANGED <<role, table, users, lock>>
    BY <1>7 DEF TakesKeyLock
  <2>2. lock[t] \in Locks
    BY <1>a, <2>1 DEF KeyLockInv, LockIsEntry, LockTypes, HasLock, Artistic
  <2>3. \A u \in Threads : Locked(u)' => u = t \/ Locked(u)
    BY <1>a, <2>1 DEF Locked
  <2>4. HeldOnce'
    BY <2>1, <2>3 DEF KeyLockInv, HeldOnce
  <2>5. held' \subseteq Locks
    BY <2>1, <2>2 DEF KeyLockInv, LockTypes
  <2>6. QED BY <1>6, <2>1, <2>4, <2>5
<1>8. CASE ReleasesKeyLock(t)
  <2>1. /\ pc[t] = "unlock" /\ pc' = [pc EXCEPT ![t] = "unreserve"]
        /\ held' = held \ {lock[t]}
        /\ UNCHANGED <<role, table, users, lock>>
    BY <1>8 DEF ReleasesKeyLock
  <2>2. Locked(t)
    BY <1>a, <2>1 DEF Locked, Artistic
  <2>3. \A u \in Threads : Locked(u)' => u # t /\ Locked(u)
    BY <1>a, <2>1 DEF Locked
  <2>4. HeldOnce'
    BY <2>1, <2>2, <2>3 DEF KeyLockInv, HeldOnce
  <2>5. held' \subseteq Locks
    BY <2>1 DEF KeyLockInv, LockTypes
  <2>6. QED BY <1>6, <2>1, <2>4, <2>5
<1>9. QED
  BY <1>2, <1>3, <1>4, <1>5, <1>7, <1>8, ReserveStep, UnreserveStep DEF ThreadStep, Looks

LEMMA KeyLockInvariant == Spec => []KeyLockInv
<1>1. Init => KeyLockInv
  <2> SUFFICES ASSUME Init PROVE KeyLockInv
    OBVIOUS
  <2>1. LockTypes /\ LockIsEntry /\ EntriesDiffer /\ EntriesUsed /\ HeldOnce
    BY DEF Init, LockTypes, LockIsEntry, EntriesDiffer, EntriesUsed, HeldOnce, HasLock, Locked
  <2>2. \A o \in Locks : Users(o) = {}
    BY LocksArePositive DEF Init, Users
  <2>3. UsersCount
    BY <2>2, FS_EmptySet DEF Init, UsersCount
  <2>4. QED BY <2>1, <2>3 DEF KeyLockInv
<1>2. BaseInv /\ KeyLockInv /\ [Next]_vars => KeyLockInv'
  <2> SUFFICES ASSUME BaseInv, KeyLockInv, [Next]_vars PROVE KeyLockInv'
    OBVIOUS
  <2>1. CASE UNCHANGED vars
    BY <2>1, LockStutter DEF HasLock, Locked
  <2>2. CASE WorldStep
    <3>1. (\E p \in Processes : Crash(p)) \/ UNCHANGED <<role, table, users, lock, held, pc>>
      BY <2>2 DEF WorldStep, LeaseExpires, EntryExpires, FallbackExpires, ArtworkEnds,
         ArtworkGivesBack, Close, ShutsDown
    <3>2. CASE UNCHANGED <<role, table, users, lock, held, pc>>
      BY <3>2, LockStutter DEF HasLock, Locked
    <3>3. QED BY <3>1, <3>2, LockCrash
  <2>3. QED BY <2>1, <2>2, LockThread, Steps
<1>3. QED BY <1>1, <1>2, BaseCorrect, PTL DEF Spec

(* In one process one thread at a time looks a book up, and over the       *)
(* processes one among those whose lease has not run out.                  *)
THEOREM LeadersStayAlone == Spec => []LeadersAreAlone
<1>1. Init => LeaseInv
  BY DEF Init, LeaseInv
<1>2. BaseInv /\ LeaseInv /\ [Next]_vars => LeaseInv'
  BY LeaseStep
<1>3. BaseInv /\ KeyLockInv /\ LeaseInv => LeadersAreAlone
  <2> SUFFICES ASSUME BaseInv, KeyLockInv, LeaseInv, NEW t \in Threads, NEW u \in Threads, t # u,
                      role[t].key = role[u].key
               PROVE  /\ Locked(t) /\ Locked(u) => role[t].proc # role[u].proc
                      /\ Leading(t) /\ Leading(u) => ~has[t] \/ lost[t] \/ ~has[u] \/ lost[u]
    BY DEF LeadersAreAlone
  <2>1. Locked(t) /\ Locked(u) => role[t].proc # role[u].proc
    BY DEF KeyLockInv, LockIsEntry, HeldOnce, HasLock, Locked
  <2>2. ~has[t] \/ lost[t] \/ ~has[u] \/ lost[u]
    BY DEF LeaseInv
  <2>3. QED BY <2>1, <2>2
<1>4. QED BY <1>1, <1>2, <1>3, BaseCorrect, KeyLockInvariant, PTL DEF Spec

-----------------------------------------------------------------------------
(* Artwork.  A submission is in the active set of its scheduler before it  *)
(* is handed over, so that no other gets as far; its permit is with the    *)
(* thread, then with the download, then with the worker that ends it.      *)

Holders(p)  == {t \in Threads : role[t].proc = p /\ HoldsPermit(t)}
DownSet(p) == {d \in Keys \X Locks : d[2] <= jobs[p][d[1]]}

PermitsAdd(p) ==
  /\ IsFiniteSet(DownSet(p))
  /\ permits[p] + Cardinality(Holders(p)) + Cardinality(DownSet(p)) + leaving[p] = Capacity

OneDownload(p, k) ==
  /\ jobs[p][k] <= 1
  /\ jobs[p][k] = 1 =>
       /\ k \in active[p] /\ Threads # {}
       /\ \A t \in Threads : role[t].proc = p /\ role[t].key = k => pc[t] # "art_submit"

OneSubmission ==
  /\ \A t \in Threads : pc[t] = "art_submit" => role[t].key \in active[role[t].proc]
  /\ \A t, u \in Threads :
       pc[t] = "art_submit" /\ pc[u] = "art_submit"
         /\ role[t].proc = role[u].proc /\ role[t].key = role[u].key => t = u

ArtInv ==
  /\ \A p \in Processes : PermitsAdd(p)
  /\ \A p \in Processes, k \in Keys : OneDownload(p, k)
  /\ OneSubmission

LEMMA HoldersFinite ==
  ASSUME NEW p
  PROVE  IsFiniteSet(Holders(p)) /\ Cardinality(Holders(p)) \in Nat
<1>1. Holders(p) \in SUBSET Threads
  BY DEF Holders
<1>2. QED BY <1>1, ConstantsAssumption, FS_Subset, FS_CardinalityType

LEMMA OneIsALock ==
  ASSUME NEW t \in Threads
  PROVE  1 \in Locks
<1>1. Threads # {} /\ Cardinality(Threads) \in Nat
  BY ConstantsAssumption, FS_CardinalityType
<1>2. Cardinality(Threads) # 0
  BY <1>1, ConstantsAssumption, FS_EmptySet
<1>3. QED BY <1>1, <1>2 DEF Locks

LEMMA PermitsFrame ==
  ASSUME NEW p, PermitsAdd(p), permits'[p] = permits[p], leaving'[p] = leaving[p],
         jobs'[p] = jobs[p], Holders(p)' = Holders(p)
  PROVE  PermitsAdd(p)'
<1>1. DownSet(p)' = DownSet(p)
  BY DEF DownSet
<1>2. QED BY <1>1 DEF PermitsAdd

LEMMA ArtFrame ==
  ASSUME ArtInv, UNCHANGED <<role, permits, active, jobs, leaving>>,
         \A t \in Threads : /\ pc'[t] = "art_submit" <=> pc[t] = "art_submit"
                            /\ HoldsPermit(t)' = HoldsPermit(t)
  PROVE  ArtInv'
<1>1. \A p \in Processes : Holders(p)' = Holders(p)
  BY DEF Holders
<1>2. \A p \in Processes : PermitsAdd(p)'
  BY <1>1, PermitsFrame DEF ArtInv
<1>3. QED BY <1>2 DEF ArtInv, OneDownload, OneSubmission

(* The sum when one thread gets a permit or lets one go.                   *)
LEMMA HolderMoves ==
  ASSUME BaseInv, ArtInv, NEW t \in Threads, role' = role,
         \A u \in Threads : u # t => pc'[u] = pc[u]
  PROVE  /\ \A p \in Processes : p # role[t].proc => Holders(p)' = Holders(p)
         /\ ~HoldsPermit(t) /\ HoldsPermit(t)' =>
              Cardinality(Holders(role[t].proc)') = Cardinality(Holders(role[t].proc)) + 1
         /\ HoldsPermit(t) /\ ~HoldsPermit(t)' =>
              Cardinality(Holders(role[t].proc)') = Cardinality(Holders(role[t].proc)) - 1
<1>1. \A u \in Threads : u # t => HoldsPermit(u)' = HoldsPermit(u)
  BY DEF HoldsPermit
<1>2. \A p \in Processes : p # role[t].proc => Holders(p)' = Holders(p)
  BY <1>1 DEF Holders
<1> DEFINE H == Holders(role[t].proc)
<1>3. ASSUME ~HoldsPermit(t), HoldsPermit(t)' PROVE Cardinality(H') = Cardinality(H) + 1
  <2>1. H' = H \cup {t} /\ t \notin H
    BY <1>1, <1>3 DEF Holders
  <2>2. QED BY <2>1, HoldersFinite, FS_AddElement
<1>4. ASSUME HoldsPermit(t), ~HoldsPermit(t)' PROVE Cardinality(H') = Cardinality(H) - 1
  <2>1. H' = H \ {t} /\ t \in H
    BY <1>1, <1>4 DEF Holders
  <2>2. QED BY <2>1, HoldersFinite, FS_RemoveElement
<1>5. QED BY <1>2, <1>3, <1>4

LEMMA ArtTake ==
  ASSUME BaseInv, ArtInv, NEW t \in Threads, TakesCapacity(t), permits[role[t].proc] # 0
  PROVE  ArtInv'
<1> DEFINE p == role[t].proc
<1>1. /\ pc[t] = "art_take" /\ pc' = [pc EXCEPT ![t] = "art_add"]
      /\ permits' = [permits EXCEPT ![p] = permits[p] - 1]
      /\ UNCHANGED <<role, active, jobs, leaving>>
  BY DEF TakesCapacity
<1>2. p \in Processes
  BY RoleType DEF BaseInv
<1>3. /\ pc'[t] = "art_add" /\ \A u \in Threads : u # t => pc'[u] = pc[u]
      /\ \A q \in Processes : permits[q] \in Nat /\ leaving[q] \in Nat
                              /\ permits'[q] = IF q = p THEN permits[p] - 1 ELSE permits[q]
  BY <1>1, <1>2 DEF BaseInv, PcInv, ArtTypes
<1>4. ~HoldsPermit(t) /\ HoldsPermit(t)'
  BY <1>1, <1>3 DEF HoldsPermit
<1>5. /\ \A q \in Processes : q # p => Holders(q)' = Holders(q)
      /\ Cardinality(Holders(p)') = Cardinality(Holders(p)) + 1
  BY <1>1, <1>3, <1>4, HolderMoves
<1>6. ASSUME NEW q \in Processes PROVE PermitsAdd(q)'
  <2>1. CASE q # p
    BY <1>1, <1>3, <1>5, <2>1, PermitsFrame DEF ArtInv
  <2>2. CASE q = p
    <3>1. DownSet(q)' = DownSet(q) /\ leaving'[q] = leaving[q]
      BY <1>1 DEF DownSet
    <3>2. PermitsAdd(q) /\ Cardinality(DownSet(q)) \in Nat /\ Cardinality(Holders(q)) \in Nat
      BY FS_CardinalityType, HoldersFinite DEF ArtInv, PermitsAdd
    <3>3. permits[q] \in Nat /\ leaving[q] \in Nat /\ permits'[q] = permits[q] - 1
      BY <1>3, <2>2
    <3>4. Cardinality(Holders(q)') = Cardinality(Holders(q)) + 1
      BY <1>1, <1>5, <2>2
    <3>5. permits'[q] + Cardinality(Holders(q)') + Cardinality(DownSet(q)') + leaving'[q] = Capacity
      BY <3>1, <3>2, <3>3, <3>4 DEF PermitsAdd
    <3>6. QED BY <3>1, <3>2, <3>5 DEF PermitsAdd
  <2>3. QED BY <2>1, <2>2
<1>7. \A u \in Threads : pc'[u] = "art_submit" <=> pc[u] = "art_submit"
  BY <1>1, <1>3
<1>8. QED BY <1>1, <1>6, <1>7 DEF ArtInv, OneDownload, OneSubmission

(* A submission that ends before a download was handed over: its permit    *)
(* is given back, and its book, if it was added, leaves the active set.    *)
LEMMA ArtGivesUp ==
  ASSUME BaseInv, ArtInv, NEW t \in Threads, HoldsPermit(t), ~HoldsPermit(t)',
         GivesBack(t), UNCHANGED <<role, jobs, leaving>>,
         \A u \in Threads : u # t => pc'[u] = pc[u],
         \/ pc[t] = "art_add" /\ active' = active
         \/ /\ pc[t] = "art_submit"
            /\ active' = [active EXCEPT ![role[t].proc] = active[role[t].proc] \ {role[t].key}]
  PROVE  ArtInv'
<1> DEFINE p == role[t].proc
           k == role[t].key
<1>1. p \in Processes /\ k \in Keys
  BY RoleType DEF BaseInv
<1>2. \A q \in Processes : permits[q] \in Nat /\ leaving[q] \in Nat
                           /\ permits'[q] = IF q = p THEN permits[p] + 1 ELSE permits[q]
  BY <1>1 DEF BaseInv, ArtTypes, GivesBack
<1>3. /\ \A q \in Processes : q # p => Holders(q)' = Holders(q)
      /\ Cardinality(Holders(p)') = Cardinality(Holders(p)) - 1
  BY HolderMoves
<1>4. ASSUME NEW q \in Processes PROVE PermitsAdd(q)'
  <2>1. CASE q # p
    BY <1>2, <1>3, <2>1, PermitsFrame DEF ArtInv
  <2>2. CASE q = p
    <3>1. DownSet(q)' = DownSet(q) /\ leaving'[q] = leaving[q]
      BY DEF DownSet
    <3>2. PermitsAdd(q) /\ Cardinality(DownSet(q)) \in Nat /\ Cardinality(Holders(q)) \in Nat
      BY FS_CardinalityType, HoldersFinite DEF ArtInv, PermitsAdd
    <3>3. permits[q] \in Nat /\ leaving[q] \in Nat /\ permits'[q] = permits[q] + 1
      BY <1>2, <2>2
    <3>4. QED BY <1>3, <2>2, <3>1, <3>2, <3>3 DEF PermitsAdd
  <2>3. QED BY <2>1, <2>2
<1>5. pc'[t] # "art_submit"
  BY DEF HoldsPermit
<1>6. \A u \in Threads : pc'[u] = "art_submit" => u # t /\ pc[u] = "art_submit"
  BY <1>5
<1>7. \A q \in Processes, l \in Keys :
        l \in active[q] => l \in active'[q] \/ (pc[t] = "art_submit" /\ q = p /\ l = k)
  BY <1>1 DEF BaseInv, ArtTypes
<1>8. OneSubmission'
  <2>1. \A u \in Threads : role[u].proc \in Processes /\ role[u].key \in Keys
    BY RoleType DEF BaseInv
  <2>2. QED BY <1>6, <1>7, <2>1 DEF ArtInv, OneSubmission
<1>9. ASSUME NEW q \in Processes, NEW l \in Keys PROVE OneDownload(q, l)'
  <2>1. OneDownload(q, l)
    BY DEF ArtInv
  <2>2. jobs[q][l] = 1 => ~(pc[t] = "art_submit" /\ q = p /\ l = k)
    BY <2>1 DEF OneDownload
  <2>3. QED BY <1>6, <1>7, <2>1, <2>2 DEF OneDownload
<1>10. QED BY <1>4, <1>8, <1>9 DEF ArtInv

LEMMA ArtAdd ==
  ASSUME BaseInv, ArtInv, NEW t \in Threads, AddsActive(t), ~Refusing(t)
  PROVE  ArtInv'
<1> DEFINE p == role[t].proc
           k == role[t].key
<1>1. /\ pc[t] = "art_add" /\ pc' = [pc EXCEPT ![t] = "art_submit"]
      /\ active' = [active EXCEPT ![p] = active[p] \cup {k}]
      /\ k \notin active[p]
      /\ UNCHANGED <<role, permits, jobs, leaving>>
  BY DEF AddsActive, Refusing
<1>2. p \in Processes /\ k \in Keys
  BY RoleType DEF BaseInv
<1>3. /\ pc'[t] = "art_submit" /\ \A u \in Threads : u # t => pc'[u] = pc[u]
      /\ \A q \in Processes : active'[q] = IF q = p THEN active[p] \cup {k} ELSE active[q]
  BY <1>1, <1>2 DEF BaseInv, PcInv, ArtTypes
<1>4. \A u \in Threads : HoldsPermit(u)' = HoldsPermit(u)
  BY <1>1, <1>3 DEF HoldsPermit
<1>5. \A q \in Processes : Holders(q)' = Holders(q)
  BY <1>1, <1>4 DEF Holders
<1>6. \A q \in Processes : PermitsAdd(q)'
  BY <1>1, <1>5, PermitsFrame DEF ArtInv
<1>7. OneSubmission'
  <2>1. \A u \in Threads : role[u].proc \in Processes /\ role[u].key \in Keys
    BY RoleType DEF BaseInv
  <2>2. \A u \in Threads : role[u].proc = p /\ role[u].key = k => pc[u] # "art_submit"
    BY <1>1 DEF ArtInv, OneSubmission
  <2>3. QED BY <1>1, <1>3, <2>1, <2>2 DEF ArtInv, OneSubmission
<1>8. ASSUME NEW q \in Processes, NEW l \in Keys PROVE OneDownload(q, l)'
  <2>1. OneDownload(q, l)
    BY DEF ArtInv
  <2>2. jobs[q][l] = 1 => ~(q = p /\ l = k)
    BY <1>1, <2>1 DEF OneDownload
  <2>3. QED BY <1>1, <1>3, <2>1, <2>2 DEF OneDownload
<1>9. QED BY <1>6, <1>7, <1>8 DEF ArtInv

(* The permit goes with the download.                                      *)
LEMMA ArtHandsOver ==
  ASSUME BaseInv, ArtInv, NEW t \in Threads, HandsOver(t), role[t].proc \notin down
  PROVE  ArtInv'
<1> DEFINE p == role[t].proc
           k == role[t].key
<1>1. /\ pc[t] = "art_submit" /\ pc' = [pc EXCEPT ![t] = AfterSubmit(t)]
      /\ jobs' = [jobs EXCEPT ![p][k] = jobs[p][k] + 1]
      /\ UNCHANGED <<role, permits, active, leaving>>
  BY DEF HandsOver
<1>2. p \in Processes /\ k \in Keys
  BY RoleType DEF BaseInv
<1>3. pc'[t] \notin {"art_add", "art_submit"} /\ \A u \in Threads : u # t => pc'[u] = pc[u]
  BY <1>1 DEF BaseInv, PcInv, AfterSubmit, AfterLookup
<1>4. jobs[p][k] = 0
  <2>1. OneDownload(p, k) /\ jobs[p][k] \in Nat
    BY <1>2 DEF ArtInv, BaseInv, ArtTypes
  <2>2. jobs[p][k] # 1
    BY <1>1, <2>1 DEF OneDownload
  <2>3. QED BY <2>1, <2>2 DEF OneDownload
<1>5. jobs \in [Processes -> [Keys -> Nat]]
  BY DEF BaseInv, ArtTypes
<1>6. \A q \in Processes, l \in Keys : jobs'[q][l] = IF q = p /\ l = k THEN 1 ELSE jobs[q][l]
  <2> HIDE DEF p, k
  <2>1. jobs' = [jobs EXCEPT ![p][k] = 1]
    BY <1>1, <1>4
  <2>2. QED BY <1>2, <1>5, <2>1, NestedValue
<1>7. HoldsPermit(t) /\ ~HoldsPermit(t)'
  BY <1>1, <1>3 DEF HoldsPermit
<1>8. /\ \A q \in Processes : q # p => Holders(q)' = Holders(q)
      /\ Cardinality(Holders(p)') = Cardinality(Holders(p)) - 1
  BY <1>1, <1>3, <1>7, HolderMoves
<1>9. ASSUME NEW q \in Processes PROVE PermitsAdd(q)'
  <2>1. CASE q # p
    <3>1. jobs'[q] = jobs[q]
      BY <1>1, <1>5, <2>1
    <3>2. QED BY <1>1, <1>8, <2>1, <3>1, PermitsFrame DEF ArtInv
  <2>2. CASE q = p
    <3>1. DownSet(q)' = DownSet(q) \cup {<<k, 1>>} /\ <<k, 1>> \notin DownSet(q)
      <4>1. 1 \in Locks /\ \A l \in Locks : l <= 1 <=> l = 1
        BY OneIsALock, LocksArePositive
      <4>2. \A d \in Keys \X Locks :
              d[2] <= jobs'[q][d[1]] <=> d[2] <= jobs[q][d[1]] \/ d = <<k, 1>>
        <5>1. ASSUME NEW l \in Keys, NEW o \in Locks
              PROVE  o <= jobs'[q][l] <=> o <= jobs[q][l] \/ <<l, o>> = <<k, 1>>
          <6>1. ~(o <= 0)
            BY LocksArePositive
          <6>2. CASE l = k
            BY <1>4, <1>6, <2>2, <4>1, <6>1, <6>2
          <6>3. CASE l # k
            BY <1>6, <6>3
          <6>4. QED BY <6>2, <6>3
        <5>2. QED BY <5>1
      <4>3. <<k, 1>> \in Keys \X Locks /\ ~(1 <= jobs[q][k])
        BY <1>2, <1>4, <2>2, <4>1
      <4>4. QED BY <4>2, <4>3 DEF DownSet
    <3>2. /\ PermitsAdd(q) /\ IsFiniteSet(DownSet(q))
          /\ Cardinality(DownSet(q)) \in Nat /\ Cardinality(Holders(q)) \in Nat
      BY FS_CardinalityType, HoldersFinite DEF ArtInv, PermitsAdd
    <3>3. /\ permits[q] \in Nat /\ permits'[q] = permits[q]
          /\ leaving[q] \in Nat /\ leaving'[q] = leaving[q]
      BY <1>1 DEF BaseInv, ArtTypes
    <3>4. Cardinality(Holders(q)') = Cardinality(Holders(q)) - 1
      BY <1>1, <1>8, <2>2
    <3>5. IsFiniteSet(DownSet(q)') /\ Cardinality(DownSet(q)') = Cardinality(DownSet(q)) + 1
      <4>1. \A S, x : IsFiniteSet(S) /\ x \notin S =>
                       IsFiniteSet(S \cup {x}) /\ Cardinality(S \cup {x}) = Cardinality(S) + 1
        BY FS_AddElement
      <4>2. QED BY <3>1, <3>2, <4>1
    <3>6. permits'[q] + Cardinality(Holders(q)') + Cardinality(DownSet(q)') + leaving'[q] = Capacity
      BY <3>2, <3>3, <3>4, <3>5 DEF PermitsAdd
    <3>7. QED BY <3>5, <3>6 DEF PermitsAdd
  <2>3. QED BY <2>1, <2>2
<1>10. \A u \in Threads : pc'[u] = "art_submit" => u # t /\ pc[u] = "art_submit"
  BY <1>3
<1>11. OneSubmission'
  BY <1>1, <1>10 DEF ArtInv, OneSubmission
<1>12. ASSUME NEW q \in Processes, NEW l \in Keys PROVE OneDownload(q, l)'
  <2>1. OneDownload(q, l)
    BY DEF ArtInv
  <2>2. CASE q = p /\ l = k
    <3>1. jobs'[q][l] = 1 /\ l \in active'[q]
      BY <1>1, <1>6, <2>2 DEF ArtInv, OneSubmission
    <3>2. \A u \in Threads : role'[u].proc = q /\ role'[u].key = l => pc'[u] # "art_submit"
      BY <1>1, <1>10, <2>2 DEF ArtInv, OneSubmission
    <3>3. QED BY <3>1, <3>2 DEF OneDownload
  <2>3. CASE ~(q = p /\ l = k)
    BY <1>1, <1>6, <1>10, <2>1, <2>3 DEF OneDownload
  <2>4. QED BY <2>2, <2>3
<1>13. QED BY <1>9, <1>11, <1>12 DEF ArtInv

(* A download ends, and its permit is about to come back.                  *)
LEMMA ArtEnds ==
  ASSUME BaseInv, ArtInv, NEW p \in Processes, NEW k \in Keys, ArtworkEnds(p, k)
  PROVE  ArtInv'
<1>1. /\ jobs[p][k] > 0
      /\ jobs' = [jobs EXCEPT ![p][k] = jobs[p][k] - 1]
      /\ active' = [active EXCEPT ![p] = active[p] \ {k}]
      /\ leaving' = [leaving EXCEPT ![p] = leaving[p] + 1]
      /\ UNCHANGED <<role, permits, pc>>
  BY DEF ArtworkEnds
<1>2. jobs \in [Processes -> [Keys -> Nat]]
  BY DEF BaseInv, ArtTypes
<1>3. OneDownload(p, k) /\ jobs[p][k] \in Nat
  BY <1>2 DEF ArtInv
<1>4. jobs[p][k] = 1
  BY <1>1, <1>3 DEF OneDownload
<1>5. \A q \in Processes, l \in Keys : jobs'[q][l] = IF q = p /\ l = k THEN 0 ELSE jobs[q][l]
  <2>1. jobs' = [jobs EXCEPT ![p][k] = 0]
    BY <1>1, <1>4
  <2>2. QED BY <1>2, <2>1, NestedValue
<1>6. \A q \in Processes : active'[q] = IF q = p THEN active[p] \ {k} ELSE active[q]
  BY <1>1 DEF BaseInv, ArtTypes
<1>7. \A q \in Processes : Holders(q)' = Holders(q)
  BY <1>1 DEF Holders, HoldsPermit
<1>8. ASSUME NEW q \in Processes PROVE PermitsAdd(q)'
  <2>1. CASE q # p
    <3>1. jobs'[q] = jobs[q] /\ leaving'[q] = leaving[q]
      BY <1>1, <1>2, <2>1 DEF BaseInv, ArtTypes
    <3>2. QED BY <1>1, <1>7, <3>1, PermitsFrame DEF ArtInv
  <2>2. CASE q = p
    <3>1. DownSet(q)' = DownSet(q) \ {<<k, 1>>} /\ (1 \in Locks => <<k, 1>> \in DownSet(q))
      <4>1. ASSUME NEW l \in Keys, NEW o \in Locks
            PROVE  o <= jobs'[q][l] <=> o <= jobs[q][l] /\ <<l, o>> # <<k, 1>>
        <5>1. o \in Nat /\ o # 0
          BY LocksArePositive
        <5>2. CASE l = k
          <6>1. jobs'[q][l] = 0 /\ jobs[q][l] = 1
            BY <1>4, <1>5, <2>2, <5>2
          <6>2. QED BY <5>1, <5>2, <6>1
        <5>3. CASE l # k
          BY <1>5, <5>3
        <5>4. QED BY <5>2, <5>3
      <4>2. \A d \in Keys \X Locks : d[2] <= jobs'[q][d[1]] <=> d[2] <= jobs[q][d[1]] /\ d # <<k, 1>>
        BY <4>1
      <4>3. 1 <= jobs[q][k]
        BY <1>4, <2>2
      <4>4. QED BY <4>2, <4>3 DEF DownSet
    <3>2. /\ PermitsAdd(q) /\ IsFiniteSet(DownSet(q))
          /\ Cardinality(DownSet(q)) \in Nat /\ Cardinality(Holders(q)) \in Nat
      BY FS_CardinalityType, HoldersFinite DEF ArtInv, PermitsAdd
    <3>3. /\ permits[q] \in Nat /\ permits'[q] = permits[q]
          /\ leaving[q] \in Nat /\ leaving'[q] = leaving[q] + 1
      BY <1>1, <2>2 DEF BaseInv, ArtTypes
    <3>4. Cardinality(Holders(q)') = Cardinality(Holders(q))
      BY <1>7
    <3>5. 1 \in Locks
      BY <1>3, <1>4, OneIsALock DEF OneDownload
    <3>6. IsFiniteSet(DownSet(q)') /\ Cardinality(DownSet(q)') = Cardinality(DownSet(q)) - 1
      <4>1. \A S, x : IsFiniteSet(S) /\ x \in S =>
                       IsFiniteSet(S \ {x}) /\ Cardinality(S \ {x}) = Cardinality(S) - 1
        BY FS_RemoveElement
      <4>2. QED BY <3>1, <3>2, <3>5, <4>1
    <3>7. permits'[q] + Cardinality(Holders(q)') + Cardinality(DownSet(q)') + leaving'[q] = Capacity
      BY <3>2, <3>3, <3>4, <3>6 DEF PermitsAdd
    <3>8. QED BY <3>6, <3>7 DEF PermitsAdd
  <2>3. QED BY <2>1, <2>2
<1>9. OneSubmission'
  <2>1. \A u \in Threads : role[u].proc \in Processes /\ role[u].key \in Keys
    BY RoleType DEF BaseInv
  <2>2. \A u \in Threads : role[u].proc = p /\ role[u].key = k => pc[u] # "art_submit"
    BY <1>3, <1>4 DEF OneDownload
  <2>3. QED BY <1>1, <1>6, <2>1, <2>2 DEF ArtInv, OneSubmission
<1>10. ASSUME NEW q \in Processes, NEW l \in Keys PROVE OneDownload(q, l)'
  <2>1. OneDownload(q, l)
    BY DEF ArtInv
  <2>2. QED BY <1>1, <1>5, <1>6, <2>1 DEF OneDownload
<1>11. QED BY <1>8, <1>9, <1>10 DEF ArtInv

LEMMA ArtBack ==
  ASSUME BaseInv, ArtInv, NEW p \in Processes, ArtworkGivesBack(p)
  PROVE  ArtInv'
<1>1. /\ leaving[p] > 0
      /\ leaving' = [leaving EXCEPT ![p] = leaving[p] - 1]
      /\ permits' = [permits EXCEPT ![p] = permits[p] + 1]
      /\ UNCHANGED <<role, active, jobs, pc>>
  BY DEF ArtworkGivesBack
<1>2. ASSUME NEW q \in Processes PROVE PermitsAdd(q)'
  <2>1. Holders(q)' = Holders(q) /\ DownSet(q)' = DownSet(q)
    BY <1>1 DEF Holders, HoldsPermit, DownSet
  <2>2. /\ PermitsAdd(q)
        /\ Cardinality(DownSet(q)) \in Nat /\ Cardinality(Holders(q)) \in Nat
    BY FS_CardinalityType, HoldersFinite DEF ArtInv, PermitsAdd
  <2>3. permits'[q] + leaving'[q] = permits[q] + leaving[q]
    BY <1>1 DEF BaseInv, ArtTypes
  <2>4. /\ permits[q] \in Nat /\ leaving[q] \in Nat
        /\ permits'[q] \in Int /\ leaving'[q] \in Int
    BY <1>1 DEF BaseInv, ArtTypes
  <2>5. QED BY <2>1, <2>2, <2>3, <2>4 DEF PermitsAdd
<1>3. QED BY <1>1, <1>2 DEF ArtInv, OneDownload, OneSubmission

(* A scheduler that dies takes its submissions and its downloads along.    *)
LEMMA ArtCrash ==
  ASSUME BaseInv, ArtInv, NEW p \in Processes, Crash(p)
  PROVE  ArtInv'
<1>1. /\ pc' = [t \in Threads |-> IF t \in ThreadsOf(p) THEN "idle" ELSE pc[t]]
      /\ permits' = [permits EXCEPT ![p] = Capacity]
      /\ active' = [active EXCEPT ![p] = {}]
      /\ jobs' = [jobs EXCEPT ![p] = [k \in Keys |-> 0]]
      /\ leaving' = [leaving EXCEPT ![p] = 0]
      /\ role' = role
  BY DEF Crash, Leaves
<1>2. \A t \in Threads : pc'[t] = IF role[t].proc = p THEN "idle" ELSE pc[t]
  BY <1>1 DEF ThreadsOf
<1>3. ASSUME NEW q \in Processes, q # p PROVE PermitsAdd(q)'
  <2>1. \A t \in Threads : role[t].proc = q => HoldsPermit(t)' = HoldsPermit(t)
    BY <1>2, <1>3 DEF HoldsPermit
  <2>2. Holders(q)' = Holders(q)
    BY <1>1, <2>1 DEF Holders
  <2>3. permits'[q] = permits[q] /\ leaving'[q] = leaving[q] /\ jobs'[q] = jobs[q]
    BY <1>1, <1>3 DEF BaseInv, ArtTypes
  <2>4. QED BY <2>2, <2>3, PermitsFrame DEF ArtInv
<1>4. PermitsAdd(p)'
  <2>1. Holders(p)' = {}
    BY <1>1, <1>2 DEF Holders, HoldsPermit
  <2>2. permits'[p] = Capacity /\ leaving'[p] = 0 /\ jobs'[p] = [k \in Keys |-> 0]
    BY <1>1 DEF BaseInv, ArtTypes
  <2>3. DownSet(p)' = {}
    BY <2>2, LocksArePositive DEF DownSet
  <2>4. Capacity \in Nat
    BY ConstantsAssumption DEF Capacity
  <2>5. QED BY <2>1, <2>2, <2>3, <2>4, FS_EmptySet DEF PermitsAdd
<1>5. OneSubmission'
  <2>1. \A t \in Threads : pc'[t] = "art_submit" => pc[t] = "art_submit" /\ role[t].proc # p
    BY <1>2
  <2>2. \A t \in Threads : role[t].proc # p => active'[role[t].proc] = active[role[t].proc]
    BY <1>1, RoleType DEF BaseInv, ArtTypes
  <2>3. QED BY <1>1, <2>1, <2>2 DEF ArtInv, OneSubmission
<1>6. ASSUME NEW q \in Processes, NEW l \in Keys PROVE OneDownload(q, l)'
  <2>1. OneDownload(q, l)
    BY DEF ArtInv
  <2>2. CASE q = p
    <3>1. jobs'[q][l] = 0
      BY <1>1, <2>2 DEF BaseInv, ArtTypes
    <3>2. QED BY <3>1 DEF OneDownload
  <2>3. CASE q # p
    <3>1. jobs'[q] = jobs[q] /\ active'[q] = active[q]
      BY <1>1, <2>3 DEF BaseInv, ArtTypes
    <3>2. \A u \in Threads : role[u].proc = q => pc'[u] = pc[u]
      BY <1>2, <2>3
    <3>3. QED BY <1>1, <2>1, <3>1, <3>2 DEF OneDownload
  <2>4. QED BY <2>2, <2>3
<1>7. QED BY <1>3, <1>4, <1>5, <1>6 DEF ArtInv

LEMMA ArtThread ==
  ASSUME BaseInv, ArtInv, NEW t \in Threads, ThreadStep(t)
  PROVE  ArtInv'
<1>a. pc \in [Threads -> Labels]
  BY DEF BaseInv, PcInv
<1>1. ASSUME NEW here, NEW there, {here, there} \cap {"art_add", "art_submit"} = {},
             pc[t] = here, pc' = [pc EXCEPT ![t] = there],
             UNCHANGED <<role, permits, active, jobs, leaving>>
      PROVE  ArtInv'
  <2>1. \A u \in Threads : /\ pc'[u] = "art_submit" <=> pc[u] = "art_submit"
                           /\ pc'[u] = "art_add" <=> pc[u] = "art_add"
    BY <1>a, <1>1
  <2>2. QED BY <1>1, <2>1, ArtFrame DEF HoldsPermit
<1>2. CASE Resolve(t) \/ Submits(t) \/ Rechecks(t) \/ AcquiresLease(t) \/ PollsCache(t)
  BY <1>1, <1>2 DEF Resolve, Submits, Rechecks, AcquiresLease, PollsCache
<1>3. CASE GivesUpWaiting(t) \/ RetriesLease(t) \/ ChecksUnderLease(t) \/ ProviderFinds(t)
           \/ StoresFound(t) \/ NobodyFinds(t) \/ ReleasesLease(t)
  BY <1>1, <1>3 DEF GivesUpWaiting, RetriesLease, ChecksUnderLease, ProviderFinds, StoresFound,
     NobodyFinds, ReleasesLease, AfterLookup
<1>4. CASE ReservesKeyLock(t) \/ TakesKeyLock(t) \/ ReleasesKeyLock(t)
  BY <1>1, <1>4 DEF ReservesKeyLock, TakesKeyLock, ReleasesKeyLock
<1>5. CASE ProviderDenies(t) \/ ProviderRaises(t) \/ DeadlinePasses(t)
  <2>1. UNCHANGED <<role, permits, active, jobs, leaving, pc>>
    BY <1>5 DEF ProviderDenies, ProviderRaises, DeadlinePasses
  <2>2. QED BY <2>1, ArtFrame DEF HoldsPermit
<1>6. CASE UnreservesKeyLock(t)
  <2>1. pc[t] = "unreserve" /\ pc' = [pc EXCEPT ![t] = "idle"]
        /\ UNCHANGED <<role, permits, active, jobs, leaving>>
    BY <1>a, <1>6 DEF UnreservesKeyLock, Leaves
  <2>2. QED BY <1>1, <2>1
<1>7. AfterSubmit(t) \notin {"art_add", "art_submit"}
  BY DEF AfterSubmit, AfterLookup
<1>8. CASE ChecksActive(t)
  BY <1>1, <1>7, <1>8 DEF ChecksActive
<1>9. CASE TakesCapacity(t)
  <2>1. CASE permits[role[t].proc] = 0
    BY <1>1, <1>7, <1>9, <2>1 DEF TakesCapacity
  <2>2. QED BY <1>9, <2>1, ArtTake
<1>10. CASE AddsActive(t)
  <2>1. CASE Refusing(t)
    <3>1. /\ pc[t] = "art_add" /\ pc' = [pc EXCEPT ![t] = AfterSubmit(t)]
          /\ GivesBack(t) /\ UNCHANGED <<role, active, jobs, leaving>>
      BY <1>10, <2>1 DEF AddsActive
    <3>2. HoldsPermit(t) /\ ~HoldsPermit(t)' /\ \A u \in Threads : u # t => pc'[u] = pc[u]
      BY <1>a, <1>7, <3>1 DEF HoldsPermit
    <3>3. QED BY <3>1, <3>2, ArtGivesUp
  <2>2. QED BY <1>10, <2>1, ArtAdd
<1>11. CASE HandsOver(t)
  <2>1. CASE role[t].proc \in down
    <3>1. /\ pc[t] = "art_submit" /\ pc' = [pc EXCEPT ![t] = AfterSubmit(t)]
          /\ active' = [active EXCEPT ![role[t].proc] = active[role[t].proc] \ {role[t].key}]
          /\ GivesBack(t) /\ UNCHANGED <<role, jobs, leaving>>
      BY <1>11, <2>1 DEF HandsOver
    <3>2. HoldsPermit(t) /\ ~HoldsPermit(t)' /\ \A u \in Threads : u # t => pc'[u] = pc[u]
      BY <1>a, <1>7, <3>1 DEF HoldsPermit
    <3>3. QED BY <3>1, <3>2, ArtGivesUp
  <2>2. QED BY <1>11, <2>1, ArtHandsOver
<1>12. QED
  BY <1>2, <1>3, <1>4, <1>5, <1>6, <1>8, <1>9, <1>10, <1>11 DEF ThreadStep, Looks

LEMMA ArtInvariant == Spec => []ArtInv
<1>1. Init => ArtInv
  <2> SUFFICES ASSUME Init PROVE ArtInv
    OBVIOUS
  <2>1. ASSUME NEW p \in Processes PROVE PermitsAdd(p)
    <3>1. Holders(p) = {}
      BY DEF Init, Holders, HoldsPermit
    <3>2. DownSet(p) = {}
      BY LocksArePositive DEF Init, DownSet
    <3>3. permits[p] = Capacity /\ leaving[p] = 0 /\ Capacity \in Nat
      BY ConstantsAssumption DEF Init, Capacity
    <3>4. QED BY <3>1, <3>2, <3>3, FS_EmptySet DEF PermitsAdd
  <2>2. (\A p \in Processes, k \in Keys : OneDownload(p, k)) /\ OneSubmission
    BY DEF Init, OneDownload, OneSubmission
  <2>3. QED BY <2>1, <2>2 DEF ArtInv
<1>2. BaseInv /\ ArtInv /\ [Next]_vars => ArtInv'
  <2> SUFFICES ASSUME BaseInv, ArtInv, [Next]_vars PROVE ArtInv'
    OBVIOUS
  <2>1. ASSUME UNCHANGED <<role, permits, active, jobs, leaving, pc>> PROVE ArtInv'
    BY <2>1, ArtFrame DEF HoldsPermit
  <2>2. CASE UNCHANGED vars
    BY <2>1, <2>2
  <2>3. CASE WorldStep
    <3>1. \/ UNCHANGED <<role, permits, active, jobs, leaving, pc>>
          \/ \E p \in Processes : (\E k \in Keys : ArtworkEnds(p, k)) \/ ArtworkGivesBack(p) \/ Crash(p)
      BY <2>3 DEF WorldStep, LeaseExpires, EntryExpires, FallbackExpires, Close, ShutsDown
    <3>2. QED BY <2>1, <3>1, ArtEnds, ArtBack, ArtCrash
  <2>4. QED BY <2>2, <2>3, ArtThread, Steps
<1>3. QED BY <1>1, <1>2, BaseCorrect, PTL DEF Spec

(* No path out of submit keeps a permit or gives one back twice, and a     *)
(* book's artwork is not downloaded twice at a time.                       *)
THEOREM ArtworkStaysAccounted == Spec => []ArtworkAccounted
<1>1. BaseInv /\ ArtInv => ArtworkAccounted
  <2> SUFFICES ASSUME BaseInv, ArtInv, NEW p \in Processes
               PROVE /\ permits[p] + Cardinality(Holders(p)) + Cardinality(DownSet(p)) + leaving[p] = Capacity
                     /\ \A k \in Keys :
                          jobs[p][k] + Cardinality({t \in Threads : role[t].proc = p /\ role[t].key = k
                                                                    /\ pc[t] = "art_submit"}) <= 1
    BY DEF ArtworkAccounted, Downloads, Holders, DownSet
  <2>1. permits[p] + Cardinality(Holders(p)) + Cardinality(DownSet(p)) + leaving[p] = Capacity
    BY DEF ArtInv, PermitsAdd
  <2>2. ASSUME NEW k \in Keys
        PROVE  jobs[p][k] + Cardinality({t \in Threads : role[t].proc = p /\ role[t].key = k
                                                         /\ pc[t] = "art_submit"}) <= 1
    <3> DEFINE S == {t \in Threads : role[t].proc = p /\ role[t].key = k /\ pc[t] = "art_submit"}
    <3>1. OneDownload(p, k) /\ jobs[p][k] \in Nat
      BY DEF ArtInv, BaseInv, ArtTypes
    <3>2. jobs[p][k] = 0 \/ jobs[p][k] = 1
      BY <3>1 DEF OneDownload
    <3>3. CASE S = {}
      <4>1. Cardinality(S) = 0
        BY <3>3, FS_EmptySet
      <4>2. QED BY <3>2, <4>1
    <3>4. CASE S # {}
      <4>1. PICK t \in Threads : t \in S
        BY <3>4
      <4>2. S = {t}
        BY <4>1 DEF ArtInv, OneSubmission
      <4>3. Cardinality(S) = 1
        BY <4>2, FS_Singleton
      <4>4. jobs[p][k] = 0
        BY <3>1, <3>2, <4>1 DEF OneDownload
      <4>5. QED BY <4>3, <4>4
    <3>5. QED BY <3>3, <3>4
  <2>3. QED BY <2>1, <2>2
<1>2. QED BY <1>1, BaseCorrect, ArtInvariant, PTL

(* The types; a scheduler never has more permits than it was made with.    *)
THEOREM TypeCorrect == Spec => []TypeOK
<1>1. BaseInv /\ KeyLockInv /\ ArtInv => TypeOK
  <2> SUFFICES ASSUME BaseInv, KeyLockInv, ArtInv PROVE TypeOK
    OBVIOUS
  <2>1. ASSUME NEW p \in Processes PROVE permits[p] \in 0..Capacity
    <3>1. /\ permits[p] \in Nat /\ leaving[p] \in Nat /\ Capacity \in Nat
          /\ Cardinality(Holders(p)) \in Nat /\ Cardinality(DownSet(p)) \in Nat
      BY HoldersFinite, FS_CardinalityType, ConstantsAssumption
      DEF BaseInv, ArtTypes, ArtInv, PermitsAdd, Capacity
    <3>2. permits[p] + Cardinality(Holders(p)) + Cardinality(DownSet(p)) + leaving[p] = Capacity
      BY DEF ArtInv, PermitsAdd
    <3>3. QED BY <3>1, <3>2
  <2>2. permits \in [Processes -> 0..Capacity]
    BY <2>1 DEF BaseInv, ArtTypes
  <2>3. ASSUME NEW t \in Threads PROVE denials[t] \in 0..NumProviders
    <3>1. /\ prov[t] \in 1..NumProviders + 1 /\ denials[t] \in Nat /\ denials[t] + 1 <= prov[t]
          /\ NumProviders \in Nat
      BY ConstantsAssumption DEF BaseInv, AskInv
    <3>2. QED BY <3>1
  <2>4. denials \in [Threads -> 0..NumProviders]
    BY <2>3 DEF BaseInv, AskInv
  <2>5. QED BY <2>2, <2>4 DEF TypeOK, BaseInv, PcInv, CacheTypes, ArtTypes, AskInv, FlagTypes, KeyLockInv, LockTypes
<1>2. QED BY <1>1, BaseCorrect, KeyLockInvariant, ArtInvariant, PTL

=============================================================================
