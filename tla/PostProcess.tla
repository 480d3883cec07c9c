---------------------------- MODULE PostProcess ----------------------------
(***************************************************************************)
(* The decisions of PostProcessor.process (postprocess.py): which articles *)
(* make which file, what each file is, which archive is unpacked and what  *)
(* the one audio file of the result holds.  Delivery takes the steps.      *)
(*                                                                         *)
(* A parcel is the posting of a release: its articles in release order,    *)
(* each with the file name its subject shows (a rank in the alphabet, 0    *)
(* when it shows none), the name's extension, the number n of a ".partn"   *)
(* name, whether it shows a name of another kind, the magic bytes it       *)
(* begins with and the piece of the book, or of an archive, it carries;    *)
(* the release's format; and what unpacking its archive yields.            *)
(***************************************************************************)
EXTENDS Naturals, Sequences, FiniteSets, SequencesExt

AudioKinds   == {"m4b", "mp3"}
ArchiveKinds == {"rar", "7z", "zip"}
(* r00 is any name of the old style, for the volumes after the first.      *)
Kinds  == AudioKinds \cup ArchiveKinds \cup {"r00", "par2", "bin"}
Magics == ArchiveKinds \cup {"par2", "plain"}

(* The names the code makes up, payload-NNNN and unnamed-NNNN, come after  *)
(* all others of the instances.                                            *)
Payload(i) == 100 + i
Unnamed(i) == 200 + i

File(name, kind, posts) ==
  [name |-> name, kind |-> kind, part |-> posts[1].part, magic |-> posts[1].magic, lost |-> FALSE,
   pieces |-> [i \in DOMAIN posts |-> posts[i].piece]]

Titled(p) == {p.posts[i].name : i \in DOMAIN p.posts} \ {0}
PostsOf(p, n) == SelectSeq(p.posts, LAMBDA post : post.name = n)

(* The magic bytes win over the extension: the file is renamed, as the     *)
(* i-th one, and what its name told is lost.                               *)
Normalized(f, i) ==
  IF f.magic \in {"plain", f.kind} THEN f
  ELSE [f EXCEPT !.name = Payload(i), !.kind = f.magic, !.part = 0, !.lost = (f.kind = "r00")]

(* Joins the articles of each name in order; the files are numbered in the *)
(* order in which their names first appear.                                *)
NamedFiles(p) ==
  LET First(n) == CHOOSE i \in DOMAIN p.posts :
                    /\ p.posts[i].name = n
                    /\ \A k \in 1 .. i - 1 : p.posts[k].name # n
      Index(n) == Cardinality({m \in Titled(p) : First(m) <= First(n)})
  IN {Normalized(File(n, PostsOf(p, n)[1].kind, PostsOf(p, n)), Index(n)) : n \in Titled(p)}

(* Beside named files, each unnamed article is a file of its own.          *)
StrayFiles(p) ==
  LET stray == PostsOf(p, 0)
      Kind(m) == IF m = "plain" THEN "bin" ELSE m
  IN {File(Unnamed(i), Kind(stray[i].magic), <<stray[i]>>) : i \in DOMAIN stray}

(* With no name at all they are one file, of the release's format unless a *)
(* subject names a file that is neither audio nor archive.                 *)
WholeFile(p) ==
  LET odd == p.posts[1].magic = "plain" /\ \E i \in DOMAIN p.posts : p.posts[i].odd
  IN Normalized(File(Payload(0), IF odd THEN "bin" ELSE p.format, p.posts), 1)

Reconstructed(p) ==
  IF Titled(p) = {} THEN {WholeFile(p)} ELSE NamedFiles(p) \cup StrayFiles(p)

Par2Files(files) == {f \in files : f.kind = "par2"}
Archives(files)  == {f \in files : f.kind \in ArchiveKinds}
AudioFiles(files) == {f \in files : f.kind \in AudioKinds}

(* _primary_archive                                                        *)
Priority(f) ==
  CASE f.kind = "rar" /\ f.part = 0 -> 0
    [] f.kind = "rar" /\ f.part = 1 -> 1
    [] f.kind = "7z"  -> 2
    [] f.kind = "zip" -> 3
    [] OTHER -> 4

Primary(archives) ==
  CHOOSE f \in archives : \A g \in archives \ {f} :
    \/ Priority(f) < Priority(g)
    \/ Priority(f) = Priority(g) /\ f.name < g.name

(* unar and 7z start with a first volume or refuse, and unar finds the     *)
(* others by their names.                                                  *)
Unpackable(archives) ==
  /\ Primary(archives).part \in {0, 1}
  /\ Primary(archives).kind = "rar" => \A f \in archives : ~f.lost

(* Several files are one book only if all are MP3, in the alphabetic order *)
(* of their names, "Track 10" before "Track 2".                            *)
Usable(audio) ==
  \/ Cardinality(audio) = 1
  \/ Cardinality(audio) > 1 /\ \A f \in audio : f.kind = "mp3"

Combined(audio) ==
  LET parts == SetToSortSeq(audio, LAMBDA f, g : f.name < g.name)
  IN FlattenSeq([i \in DOMAIN parts |-> parts[i].pieces])

(* What PostProcessor.process makes of a parcel that nobody disturbs.      *)
Unpacked(p) == IF Archives(Reconstructed(p)) = {} THEN {} ELSE p.inside
AudioOf(p)  == AudioFiles(Reconstructed(p) \cup Unpacked(p))
Product(p)  == Combined(AudioOf(p))
=============================================================================
