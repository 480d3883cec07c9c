--------------------------- MODULE DeliveryProofs ---------------------------
(***************************************************************************)
(* Theorems about Delivery, for any number of workers, jobs, releases and  *)
(* failures.                                                               *)
(***************************************************************************)
EXTENDS Delivery, FiniteSetTheorems, TLAPS

Labels == {"idle", "rebuild", "repair", "extract", "pick", "choose", "copy", "replace", "stat", "add",
           "undo", "unlink", "complete", "fail"}

Files == {NoFile} \cup {Contents(r) : r \in Releases}

Over(f, S) == f = [x \in S |-> f[x]]

(* What two workers of one job may have left.                              *)
Torn(f) == \E j \in contested : f.of = ReleaseOf[j]

(* The types; a file of the library is a whole one, or torn, or none.      *)
TypeInv ==
  /\ parcel \in Parcels
  /\ status \in [Jobs -> {"queued", "postprocessing", "completed", "failed"}]
  /\ Over(work, Jobs) /\ Over(final, Jobs) /\ Over(book, Books)
  /\ \A j \in Jobs : final[j] = NoFile \/ final[j].kind \in AudioKinds
  /\ Over(library, Paths)
  /\ \A p \in Paths : library[p] \in Files \/ (Torn(library[p]) /\ p[1] \in raced)
  /\ pc \in [Workers -> Labels] /\ Over(job, Workers)
  /\ Over(dest, Workers) /\ Over(created, Workers) /\ Over(size, Workers) /\ Over(copy, Workers)
  /\ \A j \in contested : j \in Jobs /\ TitleOf[ReleaseOf[j]] \in raced

(* Where it was not contested, a worker has its job to itself.             *)
ClaimInv ==
  /\ \A w \in Workers :
       pc[w] # "idle" =>
         job[w] \in Jobs /\ (job[w] \notin contested => status[job[w]] = "postprocessing")
  /\ \A v, w \in Workers :
       v # w /\ pc[v] # "idle" /\ pc[w] # "idle" /\ job[v] \notin contested => job[v] # job[w]

(* What the steps of a worker so far have made of its job.                 *)
Undisturbed(w) ==
  /\ pc[w] \in {"repair", "extract"} =>
       work[job[w]] = [reconstructed |-> Reconstructed(parcel[Rel(w)]), extracted |-> {}]
  /\ pc[w] = "pick" => Audio(job[w]) = AudioOf(parcel[Rel(w)])
  /\ pc[w] \in {"choose"} \cup Importing =>
       \E k \in AudioKinds :
         final[job[w]] = [of |-> Rel(w), kind |-> k, pieces |-> Product(parcel[Rel(w)])]
  /\ pc[w] = "replace" => copy[w] = Product(parcel[Rel(w)])

StageInv(w) ==
  /\ job[w] \notin contested => Undisturbed(w)
  /\ pc[w] \in Importing \cup {"unlink", "complete"} =>
       dest[w] \in Paths /\ dest[w][1] = TitleOf[Rel(w)]
  /\ pc[w] \in {"copy", "replace"} => created[w]

(* No import under way will replace or take away what is at p.             *)
Keeps(p) == \A v \in Workers : pc[v] \in Importing /\ created[v] => dest[v] # p

RaceInv ==
  \A v, w \in Workers :
    v # w /\ pc[v] \in Importing /\ pc[w] \in Importing /\ TitleOf[Rel(v)] = TitleOf[Rel(w)]
      => TitleOf[Rel(w)] \in raced

(* A file import_file takes for the book of r.                             *)
StandsFor(f, r) == f \in Files /\ f # NoFile /\ SizeOfFile(f) = SizeOfFile(Contents(r))

(* An import that none overlaps has its book at its destination.           *)
ImportInv(w) ==
  pc[w] \in {"stat", "add", "unlink", "complete"} /\ TitleOf[Rel(w)] \notin raced =>
    /\ StandsFor(library[dest[w]], Rel(w))
    /\ pc[w] = "add" => size[w] = SizeOfFile(Contents(Rel(w)))
    /\ pc[w] \in {"unlink", "complete"} => Keeps(dest[w])

CompletedInv(j) ==
  status[j] = "completed" /\ TitleOf[ReleaseOf[j]] \notin raced =>
    \E p \in Paths : StandsFor(library[p], ReleaseOf[j]) /\ Keeps(p)

RowInv(x) ==
  book[x] # NoRow /\ book[x].path[1] \notin raced =>
    LET p == book[x].path
        f == library[p]
    IN /\ p \in Paths /\ Keeps(p)
       /\ f # NoFile /\ SizeOfFile(f) = book[x].size
       /\ ~Lookalike(f.of) => BookOf[f.of] = x

DeliveryInv ==
  /\ TypeInv /\ ClaimInv
  /\ \A w \in Workers : StageInv(w)
ShelfInv ==
  /\ RaceInv
  /\ \A w \in Workers : ImportInv(w)
  /\ \A j \in Jobs : CompletedInv(j)
  /\ \A x \in Books : RowInv(x)
-----------------------------------------------------------------------------
USE DEF vars, disk, local, past, Goto, Budget, Rel

WorkerStep(w) == Delivers(w) \/ Raises(w) \/ Crash(w)

(* The steps of others on a job.                                           *)
JobStep(j) == Retries(j) \/ Unwinds(j)

LEMMA Steps == Next <=> (\E w \in Workers : WorkerStep(w)) \/ \E j \in Jobs : JobStep(j)
  BY DEF Next, WorkerStep, JobStep

(* A claim, and the steps of a job that is claimed.                        *)
Works(w) ==
  \/ Rebuilds(w) \/ Repairs(w) \/ Extracts(w) \/ Picks(w) \/ Unusable(w) \/ Chooses(w)
  \/ Refuses(w) \/ Copies(w) \/ Replaces(w) \/ Stats(w) \/ Adds(w) \/ AddRaises(w)
  \/ TakesBack(w) \/ UnlinksSource(w) \/ Raises(w)

Ends(w) == MarksCompleted(w) \/ MarksFailed(w) \/ Crash(w)

LEMMA WorkerSteps ==
  ASSUME NEW w
  PROVE  WorkerStep(w) <=> Claims(w) \/ Works(w) \/ Ends(w)
  BY DEF WorkerStep, Delivers, Works, Ends

(* A step leaves alone what is another worker's.                           *)
LEMMA OthersOfWorks ==
  ASSUME TypeInv, NEW w \in Workers, Works(w)
  PROVE  /\ UNCHANGED <<parcel, status, job, contested>>
         /\ pc[w] # "idle" /\ pc'[w] # "idle"
         /\ \A u \in Workers : u # w =>
              /\ pc'[u] = pc[u] /\ dest'[u] = dest[u] /\ created'[u] = created[u] /\ size'[u] = size[u]
              /\ copy'[u] = copy[u]
         /\ \A j \in Jobs : j # job[w] => work'[j] = work[j] /\ final'[j] = final[j]
<1> USE DEF TypeInv, Over
<1>1. CASE Rebuilds(w) \/ Repairs(w) \/ Extracts(w) \/ Picks(w) \/ Unusable(w)
  BY <1>1 DEF Rebuilds, Repairs, Extracts, Picks, Unusable
<1>2. CASE Chooses(w) \/ Refuses(w) \/ Copies(w) \/ Replaces(w) \/ Stats(w)
  BY <1>2 DEF Chooses, Refuses, Copies, Replaces, Stats
<1>3. CASE Adds(w) \/ AddRaises(w) \/ TakesBack(w) \/ UnlinksSource(w) \/ Raises(w)
  BY <1>3 DEF Adds, AddRaises, TakesBack, UnlinksSource, Raises
<1>4. QED BY <1>1, <1>2, <1>3 DEF Works

LEMMA OthersOfEnds ==
  ASSUME TypeInv, NEW w \in Workers, Ends(w)
  PROVE  /\ UNCHANGED <<parcel, disk, library, book, past>>
         /\ pc[w] # "idle" /\ pc'[w] = "idle"
         /\ \A u \in Workers : u # w =>
              /\ pc'[u] = pc[u] /\ job'[u] = job[u] /\ copy'[u] = copy[u]
              /\ dest'[u] = dest[u] /\ created'[u] = created[u] /\ size'[u] = size[u]
         /\ \A j \in Jobs : j # job[w] => status'[j] = status[j]
  BY DEF TypeInv, Over, Ends, MarksCompleted, MarksFailed, Crash, Forgets

LEMMA OthersOfClaims ==
  ASSUME TypeInv, NEW w \in Workers, Claims(w)
  PROVE  /\ UNCHANGED <<parcel, disk, library, book, local, past>>
         /\ pc[w] = "idle" /\ pc'[w] = "rebuild"
         /\ job'[w] \in Jobs /\ status[job'[w]] = "queued"
         /\ \A u \in Workers : u # w => pc'[u] = pc[u] /\ job'[u] = job[u]
         /\ \A j \in Jobs : status'[j] = IF j = job'[w] THEN "postprocessing" ELSE status[j]
  BY DEF TypeInv, Over, Claims

LEMMA JobSteps ==
  ASSUME TypeInv, NEW j \in Jobs, JobStep(j)
  PROVE  /\ UNCHANGED <<parcel, disk, library, book, pc, job, local>>
         /\ contested \subseteq contested' /\ raced \subseteq raced'
         /\ \A k \in contested' : k \in Jobs /\ TitleOf[ReleaseOf[k]] \in raced'
         /\ \A k \in Jobs : k \notin contested' /\ status[k] # "failed" => status'[k] = status[k]
         /\ \A k \in Jobs : status'[k] = "completed" => status[k] = "completed"
         /\ status' \in [Jobs -> {"queued", "postprocessing", "completed", "failed"}]
  BY DEF TypeInv, JobStep, Retries, Unwinds

-----------------------------------------------------------------------------
LEMMA ContentsIsAFile ==
  ASSUME TypeInv, NEW r \in Releases
  PROVE  Contents(r) # NoFile
  BY ConstantsAssumption DEF Contents, NoFile

LEMMA Products ==
  ASSUME TypeInv, NEW w \in Workers, job[w] \in Jobs, Picks(w)
  PROVE  /\ final'[job[w]].kind \in AudioKinds
         /\ job[w] \notin contested =>
              final'[job[w]] = [of |-> Rel(w), kind |-> final'[job[w]].kind,
                                pieces |-> Combined(Audio(job[w]))]
<1>0. PICK audio \in Sights(job[w]) :
        /\ Usable(audio)
        /\ \E pieces \in Glimpses(job[w], Combined(audio)) :
             final' = [final EXCEPT ![job[w]] =
               [of |-> Rel(w), kind |-> (CHOOSE f \in audio : TRUE).kind, pieces |-> pieces]]
  BY DEF Picks
<1>1. PICK pieces \in Glimpses(job[w], Combined(audio)) :
        final' = [final EXCEPT ![job[w]] =
          [of |-> Rel(w), kind |-> (CHOOSE f \in audio : TRUE).kind, pieces |-> pieces]]
  BY <1>0
<1>2. audio # {}
  BY <1>0, FS_EmptySet DEF Usable
<1>3. audio \subseteq Audio(job[w])
  BY <1>0 DEF Sights
<1>4. \A f \in audio : f.kind \in AudioKinds
  BY <1>3 DEF Audio, AudioFiles
<1>5. (CHOOSE f \in audio : TRUE).kind \in AudioKinds
  BY <1>2, <1>4
<1>6. final'[job[w]] = [of |-> Rel(w), kind |-> (CHOOSE f \in audio : TRUE).kind, pieces |-> pieces]
  BY <1>1 DEF TypeInv, Over
<1>7. job[w] \notin contested => audio = Audio(job[w]) /\ pieces = Combined(audio)
  BY <1>0, <1>1 DEF Sights, Glimpses
<1>8. QED BY <1>5, <1>6, <1>7

LEMMA TypeStep ==
  ASSUME DeliveryInv, [Next]_vars
  PROVE  TypeInv'
<1>1. TypeInv /\ (parcel' = parcel => Files' = Files)
  BY DEF DeliveryInv, Files, Contents
<1>2. CASE UNCHANGED vars
  BY <1>1, <1>2 DEF TypeInv, Over, Torn
<1>3. ASSUME NEW j \in Jobs, JobStep(j) PROVE TypeInv'
  <2>1. \A p \in Paths : library'[p] \in Files' \/ (Torn(library[p])' /\ p[1] \in raced')
    BY <1>1, <1>3, JobSteps DEF TypeInv, Torn
  <2>2. QED BY <1>1, <1>3, <2>1, JobSteps DEF TypeInv, Over
<1>4. ASSUME NEW w \in Workers, Claims(w) PROVE TypeInv'
  BY <1>1, <1>4 DEF TypeInv, Over, Claims, Labels, Torn
<1>5. ASSUME NEW w \in Workers, Ends(w) PROVE TypeInv'
  BY <1>1, <1>5 DEF TypeInv, Over, Ends, MarksCompleted, MarksFailed, Crash, Forgets, Labels, Torn
<1>6. ASSUME NEW w \in Workers, Works(w) PROVE TypeInv'
  <2> USE DEF TypeInv, Over, Labels, Torn
  <2>0. job[w] \in Jobs
    BY <1>1, <1>6, OthersOfWorks DEF DeliveryInv, ClaimInv
  <2>1. CASE Rebuilds(w) \/ Repairs(w) \/ Extracts(w) \/ Unusable(w)
    BY <1>1, <2>0, <2>1 DEF Rebuilds, Repairs, Extracts, Unusable
  <2>2. CASE Picks(w)
    <3>1. final'[job[w]].kind \in AudioKinds
      BY <1>1, <2>0, <2>2, Products
    <3>2. Over(final', Jobs) /\ \A j \in Jobs : final'[j] = NoFile \/ final'[j].kind \in AudioKinds
      BY <1>1, <1>6, <2>2, <3>1, OthersOfWorks DEF Picks
    <3>3. QED BY <1>1, <2>2, <3>2 DEF Picks
  <2>3. CASE Chooses(w) \/ Refuses(w) \/ Copies(w) \/ Stats(w)
    BY <1>1, <2>3 DEF Chooses, Refuses, Copies, Stats
  <2>4. CASE Adds(w) \/ AddRaises(w) \/ UnlinksSource(w) \/ Raises(w)
    BY <1>1, <2>4 DEF Adds, AddRaises, UnlinksSource, Raises
  <2>5. CASE TakesBack(w)
    <3>1. NoFile \in Files
      BY DEF Files
    <3>2. Over(library', Paths)
          /\ \A p \in Paths : library'[p] \in Files \/ (Torn(library'[p]) /\ p[1] \in raced)
      BY <1>1, <2>5, <3>1 DEF TakesBack
    <3>3. QED BY <1>1, <2>5, <3>2 DEF TakesBack
  <2>6. CASE Replaces(w)
    <3>1. /\ pc[w] = "replace" /\ Rel(w) \in Releases /\ StageInv(w)
          /\ library' = [library EXCEPT ![dest[w]] = [of |-> Rel(w), pieces |-> copy[w]]]
      BY <1>1, <2>0, <2>6, ConstantsAssumption DEF Replaces, DeliveryInv
    <3>2. dest[w][1] = TitleOf[Rel(w)]
      BY <3>1 DEF StageInv, Importing
    <3>3. \/ [of |-> Rel(w), pieces |-> copy[w]] \in Files
          \/ job[w] \in contested /\ dest[w][1] \in raced
      <4>1. CASE job[w] \in contested
        BY <1>1, <3>2, <4>1
      <4>2. CASE job[w] \notin contested
        <5>1. copy[w] = Product(parcel[Rel(w)])
          BY <3>1, <4>2 DEF StageInv, Undisturbed
        <5>2. [of |-> Rel(w), pieces |-> copy[w]] = Contents(Rel(w))
          BY <5>1 DEF Contents
        <5>3. QED BY <3>1, <5>2 DEF Files
      <4>3. QED BY <4>1, <4>2
    <3>4. Over(library', Paths)
          /\ \A p \in Paths : library'[p] \in Files \/ (Torn(library'[p]) /\ p[1] \in raced)
      BY <1>1, <3>1, <3>3
    <3>5. QED BY <1>1, <2>6, <3>4 DEF Replaces
  <2>7. QED BY <1>6, <2>1, <2>2, <2>3, <2>4, <2>5, <2>6 DEF Works
<1>7. QED BY <1>2, <1>3, <1>4, <1>5, <1>6, Steps, WorkerSteps

LEMMA ClaimStep ==
  ASSUME DeliveryInv, [Next]_vars
  PROVE  ClaimInv'
<1>1. TypeInv /\ ClaimInv
  BY DEF DeliveryInv
<1>2. CASE UNCHANGED vars
  BY <1>1, <1>2 DEF ClaimInv
<1>3. ASSUME NEW j \in Jobs, JobStep(j) PROVE ClaimInv'
  BY <1>1, <1>3, JobSteps DEF ClaimInv
<1>4. ASSUME NEW w \in Workers, Claims(w) PROVE ClaimInv'
  BY <1>1, <1>4, OthersOfClaims DEF ClaimInv
<1>5. ASSUME NEW w \in Workers, Ends(w) PROVE ClaimInv'
  BY <1>1, <1>5, OthersOfEnds DEF ClaimInv
<1>6. ASSUME NEW w \in Workers, Works(w) PROVE ClaimInv'
  BY <1>1, <1>6, OthersOfWorks DEF ClaimInv
<1>7. QED BY <1>2, <1>3, <1>4, <1>5, <1>6, Steps, WorkerSteps

LEMMA StageFrame ==
  ASSUME NEW u \in Workers, StageInv(u), pc'[u] = pc[u],
         pc[u] # "idle" => /\ UNCHANGED parcel
                           /\ job'[u] = job[u] /\ dest'[u] = dest[u] /\ created'[u] = created[u],
         job[u] \in contested => job[u] \in contested',
         pc[u] # "idle" /\ job[u] \notin contested =>
           /\ work'[job[u]] = work[job[u]] /\ final'[job[u]] = final[job[u]]
           /\ copy'[u] = copy[u]
  PROVE  StageInv(u)'
<1>1. CASE pc[u] = "idle"
  BY <1>1 DEF StageInv, Undisturbed, Importing
<1>2. CASE pc[u] # "idle"
  <2>1. job[u] \notin contested => Undisturbed(u)'
    BY <1>2 DEF StageInv, Undisturbed, Importing, Audio
  <2>2. QED BY <1>2, <2>1 DEF StageInv, Importing
<1>3. QED BY <1>1, <1>2

LEMMA OwnStage ==
  ASSUME DeliveryInv, NEW w \in Workers, Works(w)
  PROVE  StageInv(w)'
<1>1. /\ TypeInv /\ StageInv(w) /\ Rel(w) \in Releases /\ job[w] \in Jobs
      /\ parcel' = parcel /\ job' = job /\ contested' = contested
      /\ job[w] \notin contested => Undisturbed(w)
  BY OthersOfWorks, ConstantsAssumption DEF DeliveryInv, ClaimInv, StageInv
<1> DEFINE r == Rel(w)
<1>2. CASE Rebuilds(w)
  <2>1. pc'[w] = "repair"
        /\ work'[job[w]] = [reconstructed |-> Reconstructed(parcel[r]), extracted |-> {}]
    BY <1>1, <1>2 DEF Rebuilds, TypeInv, Over
  <2>2. QED BY <1>1, <2>1 DEF StageInv, Undisturbed, Importing
<1>3. CASE Repairs(w)
  <2>1. pc[w] = "repair" /\ pc'[w] = "extract" /\ work' = work
    BY <1>1, <1>3 DEF Repairs, TypeInv
  <2>2. QED BY <1>1, <2>1 DEF StageInv, Undisturbed, Importing
<1>4. CASE Extracts(w)
  <2>1. pc[w] = "extract" /\ pc'[w] = "pick"
    BY <1>1, <1>4 DEF Extracts, TypeInv
  <2>2. ASSUME job[w] \notin contested PROVE Audio(job[w])' = AudioOf(parcel[r])
    <3>1. work[job[w]] = [reconstructed |-> Reconstructed(parcel[r]), extracted |-> {}]
      BY <1>1, <2>1, <2>2 DEF Undisturbed
    <3>2. work' = [work EXCEPT ![job[w]].extracted = Unpacked(parcel[r])]
      BY <1>4, <3>1 DEF Extracts, Unpacked
    <3>3. work'[job[w]] = [work[job[w]] EXCEPT !.extracted = Unpacked(parcel[r])]
      BY <1>1, <3>2 DEF TypeInv, Over
    <3>4. work'[job[w]] = [reconstructed |-> Reconstructed(parcel[r]), extracted |-> Unpacked(parcel[r])]
      BY <3>1, <3>3
    <3>5. QED BY <1>1, <3>4 DEF Audio, AudioOf
  <2>3. QED BY <1>1, <2>1, <2>2 DEF StageInv, Undisturbed, Importing
<1>5. CASE Picks(w)
  <2>1. pc[w] = "pick" /\ pc'[w] = "choose"
    BY <1>1, <1>5 DEF Picks, TypeInv
  <2>2. ASSUME job[w] \notin contested
        PROVE  \E k \in AudioKinds : final'[job[w]] = [of |-> r, kind |-> k, pieces |-> Product(parcel[r])]
    <3>1. Audio(job[w]) = AudioOf(parcel[r])
      BY <1>1, <2>1, <2>2 DEF Undisturbed
    <3>2. Combined(Audio(job[w])) = Product(parcel[r])
      BY <3>1 DEF Product
    <3>3. QED BY <1>1, <1>5, <2>2, <3>2, Products
  <2>3. QED BY <1>1, <2>1, <2>2 DEF StageInv, Undisturbed, Importing
<1>6. CASE Chooses(w)
  <2>1. /\ pc[w] = "choose" /\ final[job[w]] # NoFile
        /\ dest'[w] = Destination(w) /\ created'[w] = Free(Destination(w)) /\ final' = final
        /\ pc'[w] = IF Free(Destination(w)) THEN "copy" ELSE "stat"
    BY <1>1, <1>6 DEF Chooses, There, TypeInv, Over
  <2>2. TitleOf[r] \in Titles /\ PrefixOf[r] \in {0} \cup {PrefixOf[s] : s \in Releases}
        /\ final[job[w]].kind \in AudioKinds
    BY <1>1, <2>1 DEF Titles, TypeInv
  <2>3. PICK k \in AudioKinds : k = final[job[w]].kind
    BY <2>2
  <2>4. /\ Plain(w) = <<TitleOf[r], 0, k>> /\ Suffixed(w) = <<TitleOf[r], PrefixOf[r], k>>
        /\ Plain(w) \in Paths /\ Suffixed(w) \in Paths
    BY <2>2, <2>3 DEF Plain, Suffixed, Paths
  <2>5. Destination(w) \in Paths /\ Destination(w)[1] = TitleOf[r]
    BY <2>4 DEF Destination
  <2>6. ASSUME job[w] \notin contested
        PROVE  \E l \in AudioKinds : final'[job'[w]] = [of |-> r, kind |-> l, pieces |-> Product(parcel[r])]
    BY <1>1, <2>1, <2>6 DEF Undisturbed
  <2>7. QED BY <1>1, <2>1, <2>5, <2>6 DEF StageInv, Undisturbed, Importing
<1>7. CASE Copies(w)
  <2>1. /\ pc[w] = "copy" /\ pc'[w] = "replace"
        /\ dest' = dest /\ created' = created /\ final' = final
    BY <1>1, <1>7 DEF Copies, TypeInv
  <2>2. ASSUME job[w] \notin contested PROVE copy'[w] = Product(parcel[r])
    <3>1. copy'[w] = final[job[w]].pieces
      BY <1>1, <1>7, <2>2 DEF Copies, Glimpses, TypeInv, Over
    <3>2. PICK k \in AudioKinds : final[job[w]] = [of |-> r, kind |-> k, pieces |-> Product(parcel[r])]
      BY <1>1, <2>1, <2>2 DEF Undisturbed, Importing
    <3>3. QED BY <3>1, <3>2
  <2>3. QED BY <1>1, <2>1, <2>2 DEF StageInv, Undisturbed, Importing
<1>8. CASE Replaces(w) \/ Stats(w) \/ Adds(w) \/ AddRaises(w) \/ TakesBack(w) \/ UnlinksSource(w)
  <2>1. /\ dest' = dest /\ created' = created
        /\ final' = final \/ pc'[w] = "complete"
        /\ \/ pc[w] \in Importing /\ pc'[w] \in {"stat", "add", "undo", "unlink", "fail"}
           \/ pc[w] = "unlink" /\ pc'[w] = "complete"
    BY <1>1, <1>8 DEF Replaces, Stats, Adds, AddRaises, TakesBack, UnlinksSource, TypeInv, Importing
  <2>2. QED BY <1>1, <2>1 DEF StageInv, Undisturbed, Importing
<1>9. CASE Unusable(w) \/ Refuses(w) \/ Raises(w)
  <2>1. pc'[w] = "fail"
    BY <1>1, <1>9 DEF Unusable, Refuses, Raises, TypeInv
  <2>2. QED BY <2>1 DEF StageInv, Undisturbed, Importing
<1>10. QED BY <1>2, <1>3, <1>4, <1>5, <1>6, <1>7, <1>8, <1>9 DEF Works

LEMMA DeliveryCorrect == Spec => []DeliveryInv
<1>1. Init => DeliveryInv
  <2> SUFFICES ASSUME Init PROVE DeliveryInv
    OBVIOUS
  <2>1. library \in [Paths -> Files]
    <3>1. parcel \in Parcels /\ library \in Shelves
      BY DEF Init
    <3>2. library \in [Paths -> {NoFile} \cup {[of |-> r, pieces |-> Product(parcel[r])] : r \in Releases}]
      BY <3>1, ShelvesAssumption
    <3>3. QED BY <3>2 DEF Files, Contents
  <2>2. TypeInv
    BY <2>1 DEF Init, TypeInv, Over, Labels
  <2>3. QED BY <2>2 DEF Init, DeliveryInv, ClaimInv, StageInv, Undisturbed, Importing
<1>2. DeliveryInv /\ [Next]_vars => DeliveryInv'
  <2> SUFFICES ASSUME DeliveryInv, [Next]_vars PROVE DeliveryInv'
    OBVIOUS
  <2>0. TypeInv /\ ClaimInv /\ \A u \in Workers : StageInv(u)
    BY DEF DeliveryInv
  <2>1. ASSUME NEW u \in Workers PROVE StageInv(u)'
    <3>1. CASE UNCHANGED vars
      BY <2>0, <3>1, StageFrame
    <3>2. ASSUME NEW j \in Jobs, JobStep(j) PROVE StageInv(u)'
      BY <2>0, <3>2, JobSteps, StageFrame
    <3>3. ASSUME NEW w \in Workers, Claims(w) PROVE StageInv(u)'
      <4>1. CASE u = w
        BY <2>0, <3>3, <4>1, OthersOfClaims DEF StageInv, Undisturbed, Importing
      <4>2. QED BY <2>0, <3>3, <4>1, OthersOfClaims, StageFrame
    <3>4. ASSUME NEW w \in Workers, Ends(w) PROVE StageInv(u)'
      <4>1. CASE u = w
        BY <2>0, <3>4, <4>1, OthersOfEnds DEF StageInv, Undisturbed, Importing
      <4>2. QED BY <2>0, <3>4, <4>1, OthersOfEnds, StageFrame
    <3>5. ASSUME NEW w \in Workers, Works(w) PROVE StageInv(u)'
      <4>1. CASE u = w
        BY <3>5, <4>1, OwnStage
      <4>2. CASE u # w
        <5>1. pc[u] # "idle" /\ job[u] \notin contested => job[u] # job[w] /\ job[u] \in Jobs
          BY <2>0, <3>5, <4>2, OthersOfWorks DEF ClaimInv
        <5>2. QED BY <2>0, <3>5, <4>2, <5>1, OthersOfWorks, StageFrame
      <4>3. QED BY <4>1, <4>2
    <3>6. QED BY <3>1, <3>2, <3>3, <3>4, <3>5, Steps, WorkerSteps
  <2>2. QED BY <2>1, TypeStep, ClaimStep DEF DeliveryInv
<1>3. QED BY <1>1, <1>2, PTL DEF Spec

(* Whatever is killed or raises and however imports overlap, what can be   *)
(* seen in the library is all that was made of the posting of one release, *)
(* unless two workers delivered that release at once.                      *)
THEOREM DeliveredStaysWhole == Spec => []DeliveredIsWhole
<1>1. DeliveryInv => DeliveredIsWhole
  <2> SUFFICES ASSUME DeliveryInv, NEW p \in Paths, library[p] # NoFile,
                      \A j \in contested : ReleaseOf[j] # library[p].of
               PROVE  library[p] = Contents(library[p].of)
    BY DEF DeliveredIsWhole
  <2>1. library[p] \in Files
    BY DEF DeliveryInv, TypeInv, Torn
  <2>2. QED BY <2>1 DEF Files, Contents
<1>2. QED BY <1>1, DeliveryCorrect, PTL

-----------------------------------------------------------------------------
(* The library changes only under the destination of an import that found  *)
(* nothing there.                                                          *)

LEMMA LibraryChange ==
  ASSUME DeliveryInv, NEW w \in Workers, WorkerStep(w)
  PROVE  \/ library' = library
         \/ /\ pc[w] \in Importing /\ created[w]
            /\ \A p \in Paths : p # dest[w] => library'[p] = library[p]
<1>1. Over(library, Paths) /\ StageInv(w)
  BY DEF DeliveryInv, TypeInv
<1>2. CASE Replaces(w) \/ TakesBack(w)
  BY <1>1, <1>2 DEF Over, Replaces, TakesBack, Undoes, StageInv, Importing
<1>3. CASE ~Replaces(w) /\ ~TakesBack(w)
  <2>1. CASE Claims(w) \/ Ends(w)
    BY <2>1, OthersOfClaims, OthersOfEnds DEF DeliveryInv
  <2>2. CASE Rebuilds(w) \/ Repairs(w) \/ Extracts(w) \/ Picks(w) \/ Unusable(w) \/ Chooses(w)
             \/ Refuses(w)
    BY <2>2 DEF Rebuilds, Repairs, Extracts, Picks, Unusable, Chooses, Refuses
  <2>3. CASE Copies(w) \/ Stats(w) \/ Adds(w) \/ AddRaises(w) \/ UnlinksSource(w) \/ Raises(w)
    BY <2>3 DEF Copies, Stats, Adds, AddRaises, UnlinksSource, Raises
  <2>4. QED BY <1>3, <2>1, <2>2, <2>3, WorkerSteps DEF Works
<1>4. QED BY <1>2, <1>3

LEMMA ImportChange ==
  ASSUME DeliveryInv, NEW w \in Workers, WorkerStep(w), pc'[w] \in Importing, ~Chooses(w)
  PROVE  /\ pc[w] \in Importing
         /\ created'[w] = created[w] /\ dest'[w] = dest[w] /\ job'[w] = job[w]
<1> USE DEF Importing
<1>1. TypeInv
  BY DEF DeliveryInv
<1>2. ~Claims(w) /\ ~Ends(w)
  BY <1>1, OthersOfClaims, OthersOfEnds
<1>3. Copies(w) \/ Replaces(w) \/ Stats(w) \/ Adds(w) \/ AddRaises(w)
  <2>1. CASE Rebuilds(w) \/ Repairs(w) \/ Extracts(w) \/ Picks(w) \/ Unusable(w) \/ Refuses(w)
    BY <1>1, <2>1 DEF Rebuilds, Repairs, Extracts, Picks, Unusable, Refuses, TypeInv
  <2>2. CASE TakesBack(w) \/ UnlinksSource(w) \/ Raises(w)
    BY <1>1, <2>2 DEF TakesBack, UnlinksSource, Raises, TypeInv
  <2>3. QED BY <1>2, <2>1, <2>2, WorkerSteps DEF Works
<1>4. QED BY <1>3 DEF Copies, Replaces, Stats, Adds, AddRaises

LEMMA ChoiceOf ==
  ASSUME DeliveryInv, NEW w \in Workers, Chooses(w)
  PROVE  /\ pc[w] = "choose" /\ job' = job /\ library' = library /\ parcel' = parcel
         /\ dest'[w] = Destination(w) /\ created'[w] = Free(dest'[w])
         /\ pc'[w] = IF created'[w] THEN "copy" ELSE "stat"
         /\ final[job[w]] # NoFile /\ Fits(w, dest'[w])
         /\ Overlaps(w) => TitleOf[Rel(w)] \in raced'
  BY DEF DeliveryInv, TypeInv, Over, Chooses, There

LEMMA RacedGrows ==
  ASSUME NEW w \in Workers, DeliveryInv, WorkerStep(w)
  PROVE  raced \subseteq raced'
<1>1. CASE Claims(w) \/ Ends(w)
  BY <1>1, OthersOfClaims, OthersOfEnds DEF DeliveryInv
<1>2. CASE Rebuilds(w) \/ Repairs(w) \/ Extracts(w) \/ Picks(w) \/ Unusable(w) \/ Refuses(w)
  BY <1>2 DEF Rebuilds, Repairs, Extracts, Picks, Unusable, Refuses
<1>3. CASE Chooses(w)
  BY <1>3 DEF Chooses
<1>4. CASE Copies(w) \/ Replaces(w) \/ Stats(w) \/ Adds(w) \/ AddRaises(w) \/ TakesBack(w)
           \/ UnlinksSource(w) \/ Raises(w)
  BY <1>4 DEF Copies, Replaces, Stats, Adds, AddRaises, TakesBack, UnlinksSource, Raises
<1>5. QED BY <1>1, <1>2, <1>3, <1>4, WorkerSteps DEF Works

(* The fields of a worker another takes a step of.                         *)
LEMMA OthersStay ==
  ASSUME DeliveryInv, NEW w \in Workers, WorkerStep(w), NEW u \in Workers, u # w
  PROVE  /\ pc'[u] = pc[u] /\ job'[u] = job[u] /\ parcel' = parcel
         /\ dest'[u] = dest[u] /\ created'[u] = created[u] /\ size'[u] = size[u]
<1>1. TypeInv
  BY DEF DeliveryInv
<1>2. CASE Claims(w)
  BY <1>1, <1>2, OthersOfClaims
<1>3. CASE Ends(w)
  BY <1>1, <1>3, OthersOfEnds
<1>4. CASE Works(w)
  BY <1>1, <1>4, OthersOfWorks
<1>5. QED BY <1>2, <1>3, <1>4, WorkerSteps

(* What no import under way threatens stays where it is.                   *)
LEMMA KeptStays ==
  ASSUME DeliveryInv, NEW w \in Workers, WorkerStep(w),
         NEW p \in Paths, library[p] # NoFile, Keeps(p)
  PROVE  library'[p] = library[p] /\ Keeps(p)'
<1>1. library'[p] = library[p]
  BY LibraryChange DEF Keeps
<1>2. ASSUME NEW v \in Workers, pc'[v] \in Importing, created'[v] PROVE dest'[v] # p
  <2>1. CASE v # w
    BY <1>2, <2>1, OthersStay DEF Keeps
  <2>2. CASE v = w /\ ~Chooses(w)
    BY <1>2, <2>2, ImportChange DEF Keeps
  <2>3. CASE v = w /\ Chooses(w)
    <3>1. library[dest'[w]] = NoFile
      BY <1>2, <2>3, ChoiceOf DEF Free
    <3>2. QED BY <2>3, <3>1
  <2>4. QED BY <2>1, <2>2, <2>3
<1>3. QED BY <1>1, <1>2 DEF Keeps, Importing

LEMMA RaceStep ==
  ASSUME DeliveryInv, RaceInv, NEW w \in Workers, WorkerStep(w)
  PROVE  RaceInv'
<1> SUFFICES ASSUME NEW v \in Workers, NEW u \in Workers, v # u,
                    pc'[v] \in Importing, pc'[u] \in Importing,
                    TitleOf[ReleaseOf[job'[v]]] = TitleOf[ReleaseOf[job'[u]]]
             PROVE  TitleOf[ReleaseOf[job'[u]]] \in raced'
  BY DEF RaceInv, Importing
<1>1. ASSUME NEW x \in Workers, pc'[x] \in Importing, ~(x = w /\ Chooses(w))
      PROVE  pc[x] \in Importing /\ job'[x] = job[x]
  BY <1>1, OthersStay, ImportChange
<1>2. CASE (v # w /\ u # w) \/ ~Chooses(w)
  BY <1>1, <1>2, RacedGrows DEF RaceInv
<1>3. CASE Chooses(w) /\ v = w
  <2>1. Overlaps(w) /\ job'[w] = job[w] /\ job'[u] = job[u]
    BY <1>1, <1>3, ChoiceOf DEF Overlaps
  <2>2. QED BY <1>3, <2>1, ChoiceOf
<1>4. CASE Chooses(w) /\ u = w
  <2>1. Overlaps(w) /\ job'[w] = job[w]
    BY <1>1, <1>4, ChoiceOf DEF Overlaps
  <2>2. QED BY <1>4, <2>1, ChoiceOf
<1>5. QED BY <1>2, <1>3, <1>4

(* Of two imports of which neither is in a race, the destinations differ.  *)
LEMMA DestinationsDiffer ==
  ASSUME DeliveryInv, RaceInv, NEW v \in Workers, NEW w \in Workers, v # w,
         pc[v] \in Importing, pc[w] \in Importing, TitleOf[Rel(w)] \notin raced
  PROVE  dest[v] # dest[w]
<1>1. TitleOf[Rel(v)] # TitleOf[Rel(w)]
  BY DEF RaceInv
<1>2. dest[v][1] = TitleOf[Rel(v)] /\ dest[w][1] = TitleOf[Rel(w)]
  BY DEF DeliveryInv, StageInv
<1>3. QED BY <1>1, <1>2

LEMMA SameSize ==
  ASSUME TypeInv, NEW r \in Releases, NEW f, StandsFor(f, r)
  PROVE  /\ f.of \in Releases
         /\ ~Lookalike(r) => f = Contents(r)
         /\ ~Lookalike(f.of) => f.of = r
<1>1. PICK s \in Releases : f = Contents(s)
  BY DEF StandsFor, Files
<1>2. f.of = s
  BY <1>1 DEF Contents
<1>3. SizeOfFile(Contents(s)) = SizeOfFile(Contents(r))
  BY <1>1 DEF StandsFor
<1>4. s # r => Lookalike(r) /\ Lookalike(s)
  BY <1>3 DEF Lookalike
<1>5. QED BY <1>1, <1>2, <1>4

LEMMA SizesStay ==
  ASSUME parcel' = parcel
  PROVE  /\ Files' = Files
         /\ \A r : Contents(r)' = Contents(r) /\ SizeOfFile(Contents(r))' = SizeOfFile(Contents(r))
         /\ \A r : Lookalike(r)' = Lookalike(r)
         /\ \A f, r : StandsFor(f, r)' = StandsFor(f, r)
  BY DEF Files, Contents, SizeOfFile, Lookalike, StandsFor

LEMMA StandsStay ==
  ASSUME parcel' = parcel, NEW p \in Paths, NEW r,
         StandsFor(library[p], r), library'[p] = library[p]
  PROVE  StandsFor(library[p], r)'
  BY DEF StandsFor, Files, Contents, SizeOfFile

LEMMA ImportOfOther ==
  ASSUME DeliveryInv, RaceInv, NEW w \in Workers, WorkerStep(w),
         NEW u \in Workers, u # w, ImportInv(u)
  PROVE  ImportInv(u)'
<1>1. /\ pc'[u] = pc[u] /\ job'[u] = job[u] /\ parcel' = parcel
      /\ dest'[u] = dest[u] /\ size'[u] = size[u] /\ raced \subseteq raced'
  BY OthersStay, RacedGrows
<1>0. SUFFICES ASSUME pc[u] \in {"stat", "add", "unlink", "complete"}, TitleOf[Rel(u)] \notin raced
               PROVE  /\ StandsFor(library[dest[u]], Rel(u))'
                      /\ pc[u] = "add" => size[u] = SizeOfFile(Contents(Rel(u)))'
                      /\ pc[u] \in {"unlink", "complete"} => Keeps(dest[u])'
  BY <1>1 DEF ImportInv
<1>2. dest[u] \in Paths /\ StandsFor(library[dest[u]], Rel(u))
  BY <1>0 DEF DeliveryInv, StageInv, ImportInv, Importing
<1>3. PICK p, r : p \in Paths /\ p = dest[u] /\ r = Rel(u)
  BY <1>2
<1>4. library[p] # NoFile /\ StandsFor(library[p], r)
  BY <1>2, <1>3 DEF StandsFor
<1>5. library'[p] = library[p] /\ (pc[u] \in {"unlink", "complete"} => Keeps(p)')
  <2>1. CASE pc[u] \in {"unlink", "complete"}
    <3>1. Keeps(p)
      BY <1>0, <1>3, <2>1 DEF ImportInv
    <3>2. QED BY <1>3, <1>4, <3>1, KeptStays
  <2>2. CASE pc[u] \in {"stat", "add"}
    <3>1. pc[w] \in Importing => dest[w] # dest[u]
      BY <1>0, <2>2, DestinationsDiffer DEF Importing
    <3>2. QED BY <1>3, <2>2, <3>1, LibraryChange
  <2>3. QED BY <1>0, <2>1, <2>2
<1>6. StandsFor(library[p], r)'
  BY <1>1, <1>3, <1>4, <1>5, StandsStay
<1>7. p = dest'[u] /\ r = Rel(u)'
  BY <1>1, <1>3
<1>8. StandsFor(library[dest[u]], Rel(u))'
  BY <1>6, <1>7 DEF StandsFor
<1>9. SizeOfFile(Contents(Rel(u)))' = SizeOfFile(Contents(Rel(u)))
  BY <1>1 DEF SizeOfFile, Contents
<1>10. pc[u] \in {"unlink", "complete"} => Keeps(dest[u])'
  BY <1>5, <1>7 DEF Keeps
<1>11. pc[u] = "add" => size[u] = SizeOfFile(Contents(Rel(u)))
  BY <1>0 DEF ImportInv
<1>12. QED BY <1>8, <1>9, <1>10, <1>11

LEMMA ImportOfOwn ==
  ASSUME DeliveryInv, RaceInv, NEW w \in Workers, WorkerStep(w), ImportInv(w)
  PROVE  ImportInv(w)'
<1>0. SUFFICES ASSUME pc'[w] \in {"stat", "add", "unlink", "complete"}, TitleOf[Rel(w)'] \notin raced'
               PROVE  /\ StandsFor(library[dest[w]], Rel(w))'
                      /\ pc'[w] = "add" => size'[w] = SizeOfFile(Contents(Rel(w)))'
                      /\ pc'[w] \in {"unlink", "complete"} => Keeps(dest[w])'
  BY DEF ImportInv
<1>1. TypeInv
  BY DEF DeliveryInv
<1>2. Chooses(w) \/ Replaces(w) \/ Stats(w) \/ Adds(w) \/ UnlinksSource(w)
  <2>1. Works(w)
    BY <1>0, <1>1, OthersOfClaims, OthersOfEnds, WorkerSteps
  <2>2. ~(Rebuilds(w) \/ Repairs(w) \/ Extracts(w) \/ Picks(w) \/ Unusable(w) \/ Refuses(w))
    BY <1>0, <1>1 DEF Rebuilds, Repairs, Extracts, Picks, Unusable, Refuses, TypeInv
  <2>3. ~(Copies(w) \/ AddRaises(w) \/ TakesBack(w) \/ Raises(w))
    BY <1>0, <1>1 DEF Copies, AddRaises, TakesBack, Raises, TypeInv
  <2>4. QED BY <2>1, <2>2, <2>3 DEF Works
<1>3. Works(w)
  BY <1>2 DEF Works
<1>4. /\ parcel' = parcel /\ job' = job /\ TitleOf[Rel(w)] \notin raced
      /\ pc[w] # "idle" /\ Rel(w) \in Releases /\ StageInv(w) /\ StageInv(w)'
      /\ job[w] \in Jobs /\ job[w] \notin contested
  BY <1>0, <1>1, <1>3, OthersOfWorks, OwnStage, RacedGrows, ConstantsAssumption
  DEF DeliveryInv, ClaimInv, TypeInv
<1>5. PICK r \in Releases : r = Rel(w) /\ r = Rel(w)'
  BY <1>4
<1>6. Undisturbed(w) /\ Undisturbed(w)'
  BY <1>3, <1>4, OthersOfWorks, <1>1 DEF StageInv
<1>7. dest'[w] \in Paths
  BY <1>0, <1>2, <1>4 DEF StageInv, Importing
<1>8. PICK p \in Paths : p = dest'[w]
  BY <1>7
<1>9. /\ Contents(r)' = Contents(r) /\ SizeOfFile(Contents(r))' = SizeOfFile(Contents(r))
      /\ Files' = Files
  BY <1>4, SizesStay
<1>10. SUFFICES /\ StandsFor(library[p], r)'
                /\ pc'[w] = "add" => size'[w] = SizeOfFile(Contents(r))
                /\ pc'[w] \in {"unlink", "complete"} => Keeps(p)'
  <2>1. StandsFor(library[dest[w]], Rel(w))' <=> StandsFor(library[p], r)'
    BY <1>5, <1>8 DEF StandsFor
  <2>2. Keeps(dest[w])' <=> Keeps(p)'
    BY <1>8 DEF Keeps
  <2>3. SizeOfFile(Contents(Rel(w)))' = SizeOfFile(Contents(r))
    BY <1>5, <1>9 DEF SizeOfFile, Contents
  <2>4. QED BY <2>1, <2>2, <2>3
<1>11. CASE Chooses(w)
  <2>1. /\ pc[w] = "choose" /\ library' = library /\ pc'[w] = "stat"
        /\ ~Free(p) /\ Fits(w, p) /\ created'[w] = FALSE
    BY <1>0, <1>8, <1>11, ChoiceOf
  <2>2. PICK k \in AudioKinds :
          final[job[w]] = [of |-> Rel(w), kind |-> k, pieces |-> Product(parcel[Rel(w)])]
    BY <1>6, <2>1 DEF Undisturbed
  <2>3. SizeOfFile(final[job[w]]) = SizeOfFile(Contents(r))
    <3>1. SizeOfFile(final[job[w]]) = SizeOfFile(Contents(Rel(w)))
      BY <2>2 DEF SizeOfFile, Contents
    <3>2. SizeOfFile(Contents(Rel(w))) = SizeOfFile(Contents(r))
      BY <1>5 DEF SizeOfFile, Contents
    <3>3. QED BY <3>1, <3>2
  <2>4. dest'[w][1] = TitleOf[r] /\ TitleOf[r] \notin raced
    BY <1>4, <1>5, <2>1 DEF StageInv, Importing
  <2>5. library[p] \in Files /\ library[p] # NoFile
    BY <1>1, <1>8, <2>1, <2>4 DEF TypeInv, Free
  <2>6. StandsFor(library[p], r)
    BY <2>1, <2>3, <2>5 DEF StandsFor, Fits, Free
  <2>7. QED BY <1>4, <2>1, <2>6, StandsStay
<1>12. CASE Replaces(w)
  <2>1. /\ pc[w] = "replace" /\ pc'[w] = "stat" /\ dest' = dest
        /\ library' = [library EXCEPT ![dest[w]] = [of |-> Rel(w), pieces |-> copy[w]]]
    BY <1>1, <1>12 DEF Replaces, TypeInv
  <2>2. copy[w] = Product(parcel[Rel(w)])
    BY <1>6, <2>1 DEF Undisturbed
  <2>3. library' = [library EXCEPT ![p] = Contents(r)]
    BY <1>5, <1>8, <2>1, <2>2 DEF Contents
  <2>4. library'[p] = Contents(r)
    BY <1>1, <2>3 DEF TypeInv, Over
  <2>5. library'[p] = Contents(r)'
    BY <1>9, <2>4
  <2>6. Contents(r)' \in Files' /\ Contents(r)' # NoFile
    BY <1>1, <1>9, ContentsIsAFile DEF Files
  <2>7. StandsFor(library[p], r)'
    BY <2>5, <2>6 DEF StandsFor
  <2>8. QED BY <2>1, <2>7
<1>13. CASE Stats(w)
  <2>1. /\ pc[w] = "stat" /\ pc'[w] = "add" /\ library' = library /\ dest' = dest
        /\ size'[w] = SizeOfFile(library[dest[w]])
    BY <1>0, <1>1, <1>13 DEF Stats, TypeInv, Over
  <2>2. StandsFor(library[p], r)
    BY <1>4, <1>5, <1>8, <2>1 DEF ImportInv
  <2>3. size'[w] = SizeOfFile(library[p])
    BY <1>8, <2>1
  <2>4. size'[w] = SizeOfFile(Contents(r))
    BY <2>2, <2>3 DEF StandsFor
  <2>5. QED BY <1>4, <2>1, <2>2, <2>4, StandsStay
<1>14. CASE Adds(w)
  <2>1. /\ pc[w] = "add" /\ pc'[w] = "unlink" /\ library' = library /\ dest' = dest
        /\ created' = created
    BY <1>1, <1>14 DEF Adds, TypeInv
  <2>2. StandsFor(library[p], r)
    BY <1>4, <1>5, <1>8, <2>1 DEF ImportInv
  <2>3. ASSUME NEW v \in Workers, pc'[v] \in Importing PROVE dest'[v] # dest[w]
    <3>1. v # w
      BY <2>1, <2>3 DEF Importing
    <3>2. pc[v] \in Importing
      BY <2>3, <3>1, OthersStay
    <3>3. pc[w] \in Importing
      BY <2>1 DEF Importing
    <3>4. QED BY <1>4, <2>1, <3>1, <3>2, <3>3, DestinationsDiffer
  <2>4. Keeps(p)'
    BY <1>8, <2>1, <2>3 DEF Keeps, Importing
  <2>5. QED BY <1>4, <2>1, <2>2, <2>4, StandsStay
<1>15. CASE UnlinksSource(w)
  <2>1. pc[w] = "unlink" /\ pc'[w] = "complete" /\ library' = library /\ dest' = dest
    BY <1>1, <1>15 DEF UnlinksSource, TypeInv
  <2>2. StandsFor(library[p], r) /\ Keeps(p)
    BY <1>4, <1>5, <1>8, <2>1 DEF ImportInv
  <2>3. library[p] # NoFile
    BY <2>2 DEF StandsFor
  <2>4. Keeps(p)'
    BY <2>2, <2>3, KeptStays
  <2>5. QED BY <1>4, <2>1, <2>2, <2>4, StandsStay
<1>16. QED BY <1>2, <1>11, <1>12, <1>13, <1>14, <1>15

LEMMA CompletedStep ==
  ASSUME DeliveryInv, NEW w \in Workers, ImportInv(w), WorkerStep(w),
         NEW j \in Jobs, CompletedInv(j)
  PROVE  CompletedInv(j)'
<1> SUFFICES ASSUME status'[j] = "completed", TitleOf[ReleaseOf[j]] \notin raced'
             PROVE  \E p \in Paths : StandsFor(library[p], ReleaseOf[j])' /\ Keeps(p)'
  BY DEF CompletedInv
<1>1. TypeInv /\ parcel' = parcel /\ TitleOf[ReleaseOf[j]] \notin raced
  BY RacedGrows, OthersOfClaims, OthersOfEnds, OthersOfWorks, WorkerSteps DEF DeliveryInv
<1>2. \E p \in Paths : StandsFor(library[p], ReleaseOf[j]) /\ Keeps(p)
  <2>1. CASE status[j] = "completed"
    BY <1>1, <2>1 DEF CompletedInv
  <2>2. CASE status[j] # "completed"
    <3>1. MarksCompleted(w) /\ job[w] = j
      <4>1. Ends(w)
        BY <1>1, <2>2, OthersOfClaims, OthersOfWorks, WorkerSteps
      <4>2. QED BY <1>1, <2>2, <4>1 DEF Ends, MarksCompleted, MarksFailed, Crash, TypeInv
    <3>2. pc[w] = "complete" /\ Rel(w) = ReleaseOf[j]
      BY <3>1 DEF MarksCompleted
    <3>3. dest[w] \in Paths
      BY <3>2 DEF DeliveryInv, StageInv
    <3>4. StandsFor(library[dest[w]], Rel(w)) /\ Keeps(dest[w])
      BY <1>1, <3>2 DEF ImportInv
    <3>5. QED BY <3>2, <3>3, <3>4
  <2>3. QED BY <2>1, <2>2
<1>3. PICK p \in Paths : StandsFor(library[p], ReleaseOf[j]) /\ Keeps(p)
  BY <1>2
<1>4. library[p] # NoFile
  BY <1>3 DEF StandsFor
<1>5. library'[p] = library[p] /\ Keeps(p)'
  BY <1>3, <1>4, KeptStays
<1>6. StandsFor(library[p], ReleaseOf[j])'
  BY <1>1, <1>3, <1>5, StandsStay
<1>7. QED BY <1>5, <1>6

LEMMA RowStep ==
  ASSUME DeliveryInv, RaceInv, NEW w \in Workers, ImportInv(w), ImportInv(w)', WorkerStep(w),
         NEW x \in Books, RowInv(x)
  PROVE  RowInv(x)'
<1>1. TypeInv /\ raced \subseteq raced' /\ parcel' = parcel
  BY RacedGrows, OthersStay, OthersOfClaims, OthersOfEnds, OthersOfWorks, WorkerSteps DEF DeliveryInv
<1>2. CASE book'[x] = book[x]
  <2> SUFFICES ASSUME book[x] # NoRow, book[x].path[1] \notin raced
               PROVE  RowInv(x)'
    BY <1>1, <1>2 DEF RowInv
  <2>1. PICK p \in Paths : p = book[x].path
    BY DEF RowInv
  <2>2. library[p] # NoFile /\ Keeps(p)
    BY <2>1 DEF RowInv
  <2>3. library'[p] = library[p] /\ Keeps(p)'
    BY <2>2, KeptStays
  <2>4. Keeps(book[x].path)'
    BY <1>2, <2>1, <2>3 DEF Keeps
  <2>5. QED BY <1>1, <1>2, <2>1, <2>3, <2>4 DEF RowInv, SizeOfFile, Lookalike, Contents
<1>3. CASE book'[x] # book[x]
  <2>1. Adds(w)
    <3>1. Works(w)
      BY <1>1, <1>3, OthersOfClaims, OthersOfEnds, WorkerSteps
    <3>2. ~(Rebuilds(w) \/ Repairs(w) \/ Extracts(w) \/ Picks(w) \/ Unusable(w) \/ Refuses(w)
            \/ Chooses(w))
      BY <1>3 DEF Rebuilds, Repairs, Extracts, Picks, Unusable, Refuses, Chooses
    <3>3. ~(Copies(w) \/ AddRaises(w) \/ TakesBack(w) \/ Raises(w) \/ Replaces(w) \/ Stats(w)
            \/ UnlinksSource(w))
      BY <1>3 DEF Copies, AddRaises, TakesBack, Raises, Replaces, Stats, UnlinksSource
    <3>4. QED BY <3>1, <3>2, <3>3 DEF Works
  <2>2. /\ pc[w] = "add" /\ pc'[w] = "unlink" /\ library' = library /\ dest' = dest /\ raced' = raced
        /\ job' = job
        /\ x = BookOf[Rel(w)] /\ book'[x] = [path |-> dest[w], size |-> size[w]]
    BY <1>1, <1>3, <2>1 DEF Adds, TypeInv, Over
  <2>3. /\ dest[w] \in Paths /\ dest[w][1] = TitleOf[Rel(w)] /\ Rel(w) \in Releases
    BY <2>2, ConstantsAssumption DEF DeliveryInv, StageInv, ClaimInv, Importing
  <2> SUFFICES ASSUME TitleOf[Rel(w)] \notin raced
               PROVE  RowInv(x)'
    BY <2>2, <2>3 DEF RowInv
  <2>4. PICK p \in Paths, r \in Releases : p = dest[w] /\ r = Rel(w)
    BY <2>3
  <2>5. PICK f : f = library[p]
    OBVIOUS
  <2>6. StandsFor(f, r) /\ size[w] = SizeOfFile(Contents(r))
    BY <2>2, <2>4, <2>5 DEF ImportInv
  <2>7. f # NoFile /\ SizeOfFile(f) = size[w] /\ (~Lookalike(f.of) => BookOf[f.of] = x)
    BY <1>1, <2>2, <2>4, <2>6, SameSize DEF StandsFor
  <2>8. SizeOfFile(f)' = SizeOfFile(f) /\ Lookalike(f.of)' = Lookalike(f.of)
    BY <1>1 DEF SizeOfFile, Lookalike, Contents
  <2>9. Keeps(dest[w])'
    BY <2>2 DEF ImportInv
  <2>10. Keeps(p)'
    BY <2>2, <2>4, <2>9 DEF Keeps
  <2>11. book'[x].path = p /\ book'[x].size = size[w] /\ library'[p] = f
    BY <2>2, <2>4, <2>5
  <2>12. QED BY <2>7, <2>8, <2>10, <2>11 DEF RowInv, Keeps, SizeOfFile, Lookalike
<1>4. QED BY <1>2, <1>3

LEMMA ShelfInvariant == Spec => []ShelfInv
<1>1. Init => ShelfInv
  <2> SUFFICES ASSUME Init PROVE ShelfInv
    OBVIOUS
  <2>1. \A w \in Workers : pc[w] = "idle"
    BY DEF Init
  <2>2. RaceInv /\ (\A w \in Workers : ImportInv(w)) /\ \A j \in Jobs : CompletedInv(j)
    BY <2>1 DEF Init, RaceInv, ImportInv, CompletedInv, Importing
  <2>3. ASSUME NEW x \in Books PROVE RowInv(x)
    <3>1. book[x] = RowOf(x)
      BY DEF Init
    <3>2. CASE book[x] # NoRow
      <4> DEFINE own == {p \in Paths : library[p] # NoFile /\ BookOf[library[p].of] = x}
      <4>1. own # {} /\ book[x] = LET p == CHOOSE p \in own : TRUE
                                  IN [path |-> p, size |-> SizeOfFile(library[p])]
        BY <3>1, <3>2 DEF RowOf
      <4>2. PICK p \in own : book[x] = [path |-> p, size |-> SizeOfFile(library[p])]
        BY <4>1
      <4>3. Keeps(p)
        BY <2>1 DEF Keeps, Importing
      <4>4. QED BY <4>2, <4>3 DEF RowInv
    <3>3. QED BY <3>2 DEF RowInv
  <2>4. QED BY <2>2, <2>3 DEF ShelfInv
<1>2. DeliveryInv /\ ShelfInv /\ [Next]_vars => ShelfInv'
  <2> SUFFICES ASSUME DeliveryInv, ShelfInv, [Next]_vars PROVE ShelfInv'
    OBVIOUS
  <2>0. RaceInv /\ (\A w \in Workers : ImportInv(w)) /\ (\A j \in Jobs : CompletedInv(j))
        /\ \A x \in Books : RowInv(x)
    BY DEF ShelfInv
  <2>1. CASE UNCHANGED vars \/ \E j \in Jobs : JobStep(j)
    <3>1. /\ UNCHANGED <<parcel, disk, library, book, pc, job, local>>
          /\ raced \subseteq raced'
          /\ \A j \in Jobs : status'[j] = "completed" => status[j] = "completed"
      BY <2>1, JobSteps DEF DeliveryInv
    <3>2. RaceInv'
      BY <2>0, <3>1 DEF RaceInv, Importing
    <3>3. ASSUME NEW w \in Workers PROVE ImportInv(w)'
      BY <2>0, <3>1 DEF ImportInv, StandsFor, Files, Keeps, SizeOfFile, Contents, Importing
    <3>4. ASSUME NEW j \in Jobs PROVE CompletedInv(j)'
      <4> SUFFICES ASSUME status'[j] = "completed", TitleOf[ReleaseOf[j]] \notin raced'
                   PROVE  \E p \in Paths : StandsFor(library[p], ReleaseOf[j])' /\ Keeps(p)'
        BY DEF CompletedInv
      <4>1. PICK p \in Paths : StandsFor(library[p], ReleaseOf[j]) /\ Keeps(p)
        BY <2>0, <3>1 DEF CompletedInv
      <4>2. StandsFor(library[p], ReleaseOf[j])'
        BY <3>1, <4>1, StandsStay
      <4>3. Keeps(p)'
        BY <3>1, <4>1 DEF Keeps, Importing
      <4>4. QED BY <4>2, <4>3
    <3>5. ASSUME NEW x \in Books PROVE RowInv(x)'
      BY <2>0, <3>1 DEF RowInv, Keeps, SizeOfFile, Lookalike, Contents, Importing
    <3>6. QED BY <3>2, <3>3, <3>4, <3>5 DEF ShelfInv
  <2>2. ASSUME NEW w \in Workers, WorkerStep(w) PROVE ShelfInv'
    <3>1. \A u \in Workers : ImportInv(u)'
      BY <2>0, <2>2, ImportOfOther, ImportOfOwn
    <3>2. RaceInv' /\ (\A j \in Jobs : CompletedInv(j)') /\ \A x \in Books : RowInv(x)'
      BY <2>0, <2>2, <3>1, RaceStep, CompletedStep, RowStep
    <3>3. QED BY <3>1, <3>2 DEF ShelfInv
  <2>3. QED BY <2>1, <2>2, Steps
<1>3. QED BY <1>1, <1>2, DeliveryCorrect, PTL DEF Spec

(* Of every title no two imports of which overlapped, a completed job's    *)
(* book stays in the library and a row names a file that is there, of its  *)
(* size and its book, if no other release has a file of just that size.    *)
THEOREM LibraryStaysTrue == Spec => []LibraryIsTrue
<1>1. DeliveryInv /\ ShelfInv => LibraryIsTrue
  <2> SUFFICES ASSUME DeliveryInv, ShelfInv PROVE LibraryIsTrue
    OBVIOUS
  <2>1. ASSUME NEW j \in Jobs, status[j] = "completed", TitleOf[ReleaseOf[j]] \notin raced,
               ~Lookalike(ReleaseOf[j])
        PROVE  \E p \in Paths : library[p] = Contents(ReleaseOf[j])
    <3>1. PICK p \in Paths : StandsFor(library[p], ReleaseOf[j])
      BY <2>1 DEF ShelfInv, CompletedInv
    <3>2. ReleaseOf[j] \in Releases /\ TypeInv
      BY ConstantsAssumption DEF DeliveryInv
    <3>3. PICK r, f : r \in Releases /\ r = ReleaseOf[j] /\ f = library[p]
      BY <3>2
    <3>4. StandsFor(f, r) /\ ~Lookalike(r)
      BY <2>1, <3>1, <3>3
    <3>5. f = Contents(r)
      BY <3>2, <3>3, <3>4, SameSize
    <3>6. QED BY <3>3, <3>5
  <2>2. QED BY <2>1 DEF ShelfInv, RowInv, LibraryIsTrue
<1>2. QED BY <1>1, DeliveryCorrect, ShelfInvariant, PTL

=============================================================================
