------------------------------ MODULE Delivery ------------------------------
(***************************************************************************)
(* The second half of process_next_download (services/download_jobs.py):   *)
(* a downloaded release is post-processed (postprocess.py) and moved into  *)
(* the library (library/importer.py, PostgresLibraryRepository).  Several  *)
(* workers deliver at once: the download worker, and the API's             *)
(* process-next; any of them may be killed, any step may raise.            *)
(*                                                                         *)
(* One action is one run of a tool, one file operation or one transaction; *)
(* tests of a path are taken together with the operation they decide.      *)
(* What download_job left in the staging directory of a job stays there.   *)
(*                                                                         *)
(* A job whose first worker unwinds late (DownloadJobs, retry_race) may    *)
(* have two workers here: they share its post-processing directory, and    *)
(* either may read what the other is only just writing or has removed.     *)
(***************************************************************************)
EXTENDS PostProcess

CONSTANTS
  Workers, Jobs, Releases,
  ReleaseOf,           (* [Jobs -> Releases]                                *)
  TitleOf,             (* [Releases -> titles]: author and title as a path  *)
  BookOf,              (* [Releases -> ids]: of author, title and narrator  *)
  PrefixOf,            (* [Releases -> Nat]: release_id[:8]                 *)
  Parcels,             (* assignments of parcels to releases to choose from *)
  Shelves,             (* what the library may hold at first                *)
  MaxFailures,         (* bound: steps that raise, and kills                *)
  MaxContests          (* bound: jobs that get a second worker              *)

ASSUME ConstantsAssumption ==
  /\ "none" \notin Releases /\ ReleaseOf \in [Jobs -> Releases]
  /\ PrefixOf \in [Releases -> Nat \ {0}]
  /\ MaxFailures \in Nat /\ MaxContests \in Nat
ASSUME ParcelsAssumption ==
  \A a \in Parcels, r \in Releases :
    /\ a[r].unit \in Nat
    /\ \A i \in DOMAIN a[r].posts : a[r].posts[i].kind \in Kinds /\ a[r].posts[i].magic \in Magics

Titles == {TitleOf[r] : r \in Releases}
Books  == {BookOf[r] : r \in Releases}

(* A path of the library: author/title/title.ext, or with the prefix of a  *)
(* release id (0: without).                                                *)
Paths == Titles \X ({0} \cup {PrefixOf[r] : r \in Releases}) \X AudioKinds

NoFile == [of |-> "none", pieces |-> <<>>]
NoRow  == [path |-> <<>>, size |-> 0]

(* What an earlier import left on a shelf is whole.                        *)
ASSUME ShelvesAssumption ==
  \A a \in Parcels :
    Shelves \subseteq [Paths -> {NoFile} \cup {[of |-> r, pieces |-> Product(a[r])] : r \in Releases}]

VARIABLES
  parcel,              (* the posting of each release                       *)
  status,              (* download_jobs.status                              *)
  work,                (* postprocessed/ of a job: reconstructed, extracted *)
  final,               (* the processed file of a job                       *)
  library,             (* files by path                                     *)
  book,                (* library_books                                     *)
  pc, job,             (* of a worker                                       *)
  dest, created, size, (* import_file's destination, created_destination    *)
  copy,                (* what the temporary file of a worker holds         *)
  contested,           (* history: jobs that may have had two workers       *)
  raced,               (* history: their titles, and titles two imports of  *)
                       (* which overlapped                                  *)
  failures

disk  == <<work, final>>
local == <<dest, created, size, copy>>
past  == <<contested, raced>>
vars == <<parcel, status, disk, library, book, pc, job, local, past, failures>>

SizeOfFile(f) == IF f.of = "none" THEN 0 ELSE parcel[f.of].unit * Len(f.pieces)

(* The row of a book an earlier import put into the library.               *)
RowOf(b) ==
  LET own == {p \in Paths : library[p] # NoFile /\ BookOf[library[p].of] = b}
  IN IF own = {} THEN NoRow
     ELSE LET p == CHOOSE p \in own : TRUE IN [path |-> p, size |-> SizeOfFile(library[p])]

NoWork == [reconstructed |-> {}, extracted |-> {}]
Contents(r) == [of |-> r, pieces |-> Product(parcel[r])]
Rel(w) == ReleaseOf[job[w]]

Init ==
  /\ parcel \in Parcels
  /\ status = [j \in Jobs |-> "queued"]
  /\ work = [j \in Jobs |-> NoWork]
  /\ final = [j \in Jobs |-> NoFile]
  /\ library \in Shelves
  /\ book = [b \in Books |-> RowOf(b)]
  /\ pc = [w \in Workers |-> "idle"]
  /\ job = [w \in Workers |-> "none"]
  /\ dest = [w \in Workers |-> <<>>]
  /\ created = [w \in Workers |-> FALSE]
  /\ size = [w \in Workers |-> 0]
  /\ copy = [w \in Workers |-> <<>>]
  /\ contested = {}
  /\ raced = {}
  /\ failures = 0

Goto(w, here, there) == pc[w] = here /\ pc' = [pc EXCEPT ![w] = there]

Budget == failures < MaxFailures /\ failures' = failures + 1

(* What reading files may give of the pieces of a job: all of them, or,    *)
(* when another worker may be writing them, some.                          *)
Glimpses(j, pieces) ==
  {pieces} \cup {SelectSeq(pieces, LAMBDA x : x \in some) :
                   some \in IF j \in contested THEN SUBSET ToSet(pieces) ELSE {}}

-----------------------------------------------------------------------------
(* claim_next; the articles have been downloaded.                          *)
Claims(w) ==
  /\ Goto(w, "idle", "rebuild")
  /\ \E j \in Jobs :
       /\ status[j] = "queued"
       /\ status' = [status EXCEPT ![j] = "postprocessing"]
       /\ job' = [job EXCEPT ![w] = j]
  /\ UNCHANGED <<parcel, disk, library, book, local, past, failures>>

(* A fresh postprocessed directory.                                        *)
Rebuilds(w) ==
  /\ Goto(w, "rebuild", "repair")
  /\ work' = [work EXCEPT ![job[w]] =
                [reconstructed |-> Reconstructed(parcel[Rel(w)]), extracted |-> {}]]
  /\ final' = [final EXCEPT ![job[w]] = NoFile]
  /\ UNCHANGED <<parcel, status, library, book, job, local, past, failures>>

(* par2 leaves the pieces as they were posted.  It may fail: Raises.       *)
Repairs(w) ==
  /\ Goto(w, "repair", "extract")
  /\ UNCHANGED <<parcel, status, disk, library, book, job, local, past, failures>>

Extracts(w) ==
  LET archives == Archives(work[job[w]].reconstructed) IN
  /\ Goto(w, "extract", "pick")
  /\ archives # {} => Unpackable(archives)
  /\ work' = [work EXCEPT ![job[w]].extracted = IF archives = {} THEN {} ELSE parcel[Rel(w)].inside]
  /\ UNCHANGED <<parcel, status, final, library, book, job, local, past, failures>>

(* The one audio file, or all of them joined into combined.mp3.            *)
Audio(j) == AudioFiles(work[j].reconstructed \cup work[j].extracted)
Sights(j) == {Audio(j)} \cup IF j \in contested THEN SUBSET Audio(j) ELSE {}

Picks(w) ==
  /\ Goto(w, "pick", "choose")
  /\ \E audio \in Sights(job[w]) :
       /\ Usable(audio)
       /\ \E pieces \in Glimpses(job[w], Combined(audio)) :
            final' = [final EXCEPT ![job[w]] =
              [of |-> Rel(w), kind |-> (CHOOSE f \in audio : TRUE).kind, pieces |-> pieces]]
  /\ UNCHANGED <<parcel, status, work, library, book, job, local, past, failures>>

(* What the tools refuse, and what makes no audiobook.                     *)
Unusable(w) ==
  /\ LET archives == Archives(work[job[w]].reconstructed) IN
     \/ Goto(w, "extract", "fail") /\ archives # {} /\ ~Unpackable(archives)
     \/ Goto(w, "pick", "fail") /\ \E audio \in Sights(job[w]) : ~Usable(audio)
  /\ UNCHANGED <<parcel, status, disk, library, book, job, local, past, failures>>

-----------------------------------------------------------------------------
(* import_file.                                                            *)

Plain(w)    == <<TitleOf[Rel(w)], 0, final[job[w]].kind>>
Suffixed(w) == <<TitleOf[Rel(w)], PrefixOf[Rel(w)], final[job[w]].kind>>

There(w) == final[job[w]] # NoFile
Free(p) == library[p] = NoFile
Fits(w, p) == Free(p) \/ SizeOfFile(library[p]) = SizeOfFile(final[job[w]])

(* Another file of another size is there: the release's own name.          *)
Destination(w) == IF Fits(w, Plain(w)) THEN Plain(w) ELSE Suffixed(w)

Importing == {"copy", "replace", "stat", "add", "undo"}

Overlaps(w) ==
  \E v \in Workers \ {w} : pc[v] \in Importing /\ TitleOf[Rel(v)] = TitleOf[Rel(w)]

Chooses(w) ==
  LET p == Destination(w) IN
  /\ pc[w] = "choose" /\ There(w) /\ Fits(w, p)
  /\ Goto(w, "choose", IF Free(p) THEN "copy" ELSE "stat")
  /\ dest' = [dest EXCEPT ![w] = p]
  /\ created' = [created EXCEPT ![w] = Free(p)]
  /\ raced' = IF Overlaps(w) THEN raced \cup {TitleOf[Rel(w)]} ELSE raced
  /\ UNCHANGED <<parcel, status, disk, library, book, job, size, copy, contested, failures>>

(* FileExistsError; FileNotFoundError, if another worker took it away.     *)
Refuses(w) ==
  /\ \/ Goto(w, "choose", "fail") /\ (There(w) => ~Fits(w, Destination(w)))
     \/ Goto(w, "copy", "fail") /\ ~There(w)
  /\ UNCHANGED <<parcel, status, disk, library, book, job, local, past, failures>>

(* Into a temporary file of its own name, synced.  Mutant: straight to the *)
(* destination, in two steps of which the first is taken in CopiesInPlace. *)
CopiesInPlace(w) ==
  /\ Goto(w, "copy", "replace")
  /\ There(w)
  /\ copy' = [copy EXCEPT ![w] = final[job[w]].pieces]
  /\ library' = [library EXCEPT ![dest[w]] =
                   [of |-> Rel(w), pieces |-> <<Head(final[job[w]].pieces)>>]]
  /\ UNCHANGED <<parcel, status, disk, book, job, dest, created, size, past, failures>>

Copies(w) ==
  /\ Goto(w, "copy", "replace")
  /\ There(w)
  /\ \E pieces \in Glimpses(job[w], final[job[w]].pieces) : copy' = [copy EXCEPT ![w] = pieces]
  /\ UNCHANGED <<parcel, status, disk, library, book, job, dest, created, size, past, failures>>

Replaces(w) ==
  /\ Goto(w, "replace", "stat")
  /\ library' = [library EXCEPT ![dest[w]] = [of |-> Rel(w), pieces |-> copy[w]]]
  /\ UNCHANGED <<parcel, status, disk, book, job, local, past, failures>>

Stats(w) ==
  /\ \/ /\ Goto(w, "stat", "add")
        /\ ~Free(dest[w])
        /\ size' = [size EXCEPT ![w] = SizeOfFile(library[dest[w]])]
     \/ Goto(w, "stat", "fail") /\ Free(dest[w]) /\ UNCHANGED size
  /\ UNCHANGED <<parcel, status, disk, library, book, job, dest, created, copy, past, failures>>

(* PostgresLibraryRepository.add                                           *)
Adds(w) ==
  /\ Goto(w, "add", "unlink")
  /\ book' = [book EXCEPT ![BookOf[Rel(w)]] = [path |-> dest[w], size |-> size[w]]]
  /\ UNCHANGED <<parcel, status, disk, library, job, local, past, failures>>

(* The insert raises.                                                      *)
AddRaises(w) ==
  /\ Budget
  /\ Goto(w, "add", "undo")
  /\ UNCHANGED <<parcel, status, disk, library, book, job, local, past>>

(* What this call created is taken back.  Mutant: whatever is there is.    *)
UndoesAll(w) == TRUE
Undoes(w)    == created[w]

TakesBack(w) ==
  /\ Goto(w, "undo", "fail")
  /\ library' = IF Undoes(w) THEN [library EXCEPT ![dest[w]] = NoFile] ELSE library
  /\ UNCHANGED <<parcel, status, disk, book, job, local, past, failures>>

UnlinksSource(w) ==
  /\ Goto(w, "unlink", "complete")
  /\ final' = [final EXCEPT ![job[w]] = NoFile]
  /\ UNCHANGED <<parcel, status, work, library, book, job, local, past, failures>>

-----------------------------------------------------------------------------
(* The end of a job.                                                       *)

Forgets(w) ==
  /\ job' = [job EXCEPT ![w] = "none"]
  /\ dest' = [dest EXCEPT ![w] = <<>>]
  /\ created' = [created EXCEPT ![w] = FALSE]
  /\ size' = [size EXCEPT ![w] = 0]
  /\ copy' = [copy EXCEPT ![w] = <<>>]

MarksCompleted(w) ==
  /\ Goto(w, "complete", "idle")
  /\ status' = [status EXCEPT ![job[w]] = "completed"]
  /\ Forgets(w)
  /\ UNCHANGED <<parcel, disk, library, book, past, failures>>

MarksFailed(w) ==
  /\ Goto(w, "fail", "idle")
  /\ status' = [status EXCEPT ![job[w]] = "failed"]
  /\ Forgets(w)
  /\ UNCHANGED <<parcel, disk, library, book, past, failures>>

(* A tool fails or is not there, the disk is full, a transaction fails.  A *)
(* temporary file goes with the exception.                                 *)
Raises(w) ==
  /\ Budget
  /\ \E here \in {"rebuild", "repair", "extract", "pick", "choose", "copy", "replace", "stat", "unlink", "complete"} :
       Goto(w, here, "fail")
  /\ UNCHANGED <<parcel, status, disk, library, book, job, local, past>>

(* retry of a failed job                                                   *)
Retries(j) ==
  /\ status[j] = "failed"
  /\ status' = [status EXCEPT ![j] = "queued"]
  /\ UNCHANGED <<parcel, disk, library, book, pc, job, local, past, failures>>

(* The second mark of a worker that failed in the engine, after its job    *)
(* was retried and claimed by another: once retried again, it may have two *)
(* workers here.                                                           *)
Unwinds(j) ==
  /\ j \notin contested /\ Cardinality(contested) < MaxContests
  /\ status[j] = "postprocessing"
  /\ status' = [status EXCEPT ![j] = "failed"]
  /\ contested' = contested \cup {j}
  /\ raced' = raced \cup {TitleOf[ReleaseOf[j]]}
  /\ UNCHANGED <<parcel, disk, library, book, pc, job, local, failures>>

(* Kills the process.  Its job stays "postprocessing": recover_stale puts  *)
(* back only those that are "downloading".                                 *)
Crash(w) ==
  /\ Budget
  /\ pc[w] # "idle"
  /\ pc' = [pc EXCEPT ![w] = "idle"]
  /\ Forgets(w)
  /\ UNCHANGED <<parcel, status, disk, library, book, past>>

-----------------------------------------------------------------------------
Delivers(w) ==
  \/ Claims(w) \/ Rebuilds(w) \/ Repairs(w) \/ Extracts(w) \/ Picks(w) \/ Unusable(w)
  \/ Chooses(w) \/ Refuses(w) \/ Copies(w) \/ Replaces(w) \/ Stats(w) \/ Adds(w)
  \/ AddRaises(w) \/ TakesBack(w) \/ UnlinksSource(w) \/ MarksCompleted(w) \/ MarksFailed(w)

Next ==
  \/ \E w \in Workers : Delivers(w) \/ Raises(w) \/ Crash(w)
  \/ \E j \in Jobs : Retries(j) \/ Unwinds(j)

Spec == Init /\ [][Next]_vars

-----------------------------------------------------------------------------
(* Whatever is killed or raises, and however imports overlap, a file of    *)
(* the library is from the moment it can be seen all that the              *)
(* post-processor makes of the posting of one release, nothing of another; *)
(* releases two workers of one job delivered at once are left out.         *)
DeliveredIsWhole ==
  \A p \in Paths :
    library[p] # NoFile /\ (\A j \in contested : ReleaseOf[j] # library[p].of)
      => library[p] = Contents(library[p].of)

(* Another release's file has just as many bytes.                          *)
Lookalike(r) == \E s \in Releases \ {r} : SizeOfFile(Contents(s)) = SizeOfFile(Contents(r))

(* A completed job's book stays in the library, and a row of the library   *)
(* names a file that is there, has the size it says and is an edition of   *)
(* that book: a failed transaction does not leave a row without its file   *)
(* or take the file of another.  Two imports of one title that overlap can *)
(* break it (RowsHaveFiles), and of files of one size import_file cannot   *)
(* tell which it has (EditionsAreKept); nothing else can.                  *)
LibraryIsTrue ==
  /\ \A j \in Jobs :
       /\ status[j] = "completed" /\ TitleOf[ReleaseOf[j]] \notin raced
       /\ ~Lookalike(ReleaseOf[j])
       => \E p \in Paths : library[p] = Contents(ReleaseOf[j])
  /\ \A b \in Books :
       book[b] # NoRow /\ book[b].path[1] \notin raced =>
         LET f == library[book[b].path] IN
           /\ f # NoFile /\ SizeOfFile(f) = book[b].size
           /\ ~Lookalike(f.of) => BookOf[f.of] = b

(* docs/superpowers/plans/2026-09-04-productionize-lorex-v1.md:144:        *)
(* "ensure a DB failure does not silently claim an absent file".  Fails    *)
(* when two imports of a title overlap and the row of one is refused.      *)
RowsHaveFiles == \A b \in Books : book[b] # NoRow => library[book[b].path] # NoFile

(* docs/superpowers/specs/2026-09-01-lorex-v1-design.md:64: "Detect        *)
(* duplicates and alternate editions but never automatically delete them." *)
(* Fails when the file of another edition has the same size: import_file   *)
(* takes it for its own and unlinks what it was to import.                 *)
EditionsAreKept ==
  \A j \in Jobs :
    status[j] = "completed" /\ TitleOf[ReleaseOf[j]] \notin raced =>
      \E p \in Paths : library[p].of = ReleaseOf[j]

(* docs/superpowers/specs/2026-09-01-lorex-v1-design.md:59: "ambiguous     *)
(* ordering goes to manual identification rather than creating a bad       *)
(* book".  Fails where the alphabetic order of the tracks is not theirs.   *)
TracksAreInOrder ==
  \A p \in Paths :
    library[p] # NoFile /\ library[p] = Contents(library[p].of) =>
      library[p].pieces = parcel[library[p].of].book
=============================================================================
