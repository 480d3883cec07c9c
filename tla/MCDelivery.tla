----------------------------- MODULE MCDelivery -----------------------------
(* Instances of Delivery for TLC.                                          *)
EXTENDS Delivery, TLC

CONSTANTS w1, w2, j1, j2, a, b, earlier, earliest

TwoWorkers == {w1, w2}
TwoJobs == {j1, j2}
(* Two editions of one title, and two that were imported before.           *)
AllReleases == {a, b, earlier, earliest}
TwoReleases == (j1 :> a) @@ (j2 :> b)
OneTitle  == [r \in AllReleases |-> "title"]
Narrators == (a :> "first") @@ (b :> "second") @@ (earlier :> "third") @@ (earliest :> "fourth")
ShortIds  == (a :> 1) @@ (b :> 2) @@ (earlier :> 1) @@ (earliest :> 3)
Units     == (a :> 1) @@ (b :> 10) @@ (earlier :> 100) @@ (earliest :> 1000)

Post(name, kind, part, magic, piece) ==
  [name |-> name, kind |-> kind, part |-> part, magic |-> magic, piece |-> piece, odd |-> FALSE]
Parcel(posts, inside, whole) ==
  [posts |-> posts, format |-> "m4b", inside |-> inside, book |-> whole, unit |-> 0]
Item(name, kind, pieces) ==
  [name |-> name, kind |-> kind, part |-> 0, magic |-> "plain", lost |-> FALSE, pieces |-> pieces]

Direct   == Parcel(<<Post(1, "m4b", 0, "plain", 1), Post(1, "m4b", 0, "plain", 2)>>, {}, <<1, 2>>)
Nameless == Parcel(<<Post(0, "bin", 0, "plain", 1), Post(0, "bin", 0, "plain", 2)>>, {}, <<1, 2>>)
Disguised == Parcel(<<Post(1, "m4b", 0, "rar", 8), Post(1, "m4b", 0, "plain", 9)>>,
                    {Item(1, "m4b", <<1, 2>>)}, <<1, 2>>)
Volumes  == Parcel(<<Post(2, "rar", 2, "rar", 9), Post(1, "rar", 1, "rar", 8), Post(3, "par2", 0, "par2", 7)>>,
                   {Item(1, "mp3", <<1>>), Item(2, "mp3", <<2>>)}, <<1, 2>>)
LastOnly == Parcel(<<Post(2, "rar", 2, "rar", 9)>>, {}, <<1, 2>>)
OldStyle == Parcel(<<Post(1, "rar", 0, "rar", 8), Post(2, "r00", 0, "rar", 9)>>, {}, <<1, 2>>)
(* Track 1, Track 10 and Track 2, by name.                                 *)
Ten      == Parcel(<<Post(1, "mp3", 0, "plain", 1), Post(3, "mp3", 0, "plain", 2), Post(2, "mp3", 0, "plain", 3)>>,
                   {}, <<1, 2, 3>>)
Tracks   == Parcel(<<Post(2, "mp3", 0, "plain", 2), Post(1, "mp3", 0, "plain", 1), Post(0, "bin", 0, "plain", 7)>>,
                   {}, <<1, 2>>)
Mixed    == Parcel(<<Post(1, "m4b", 0, "plain", 1), Post(2, "mp3", 0, "plain", 2)>>, {}, <<1, 2>>)
Other    == [Parcel(<<[Post(0, "bin", 0, "plain", 7) EXCEPT !.odd = TRUE]>>, {}, <<>>) EXCEPT !.format = "mp3"]

Postings(x, units) ==
  [r \in AllReleases |-> [(IF r = a THEN x ELSE Direct) EXCEPT !.unit = units[r]]]
(* All editions of one size each, and two of the same size.                *)
AllParcels ==
  {Postings(x, Units) :
     x \in {Direct, Nameless, Disguised, Volumes, LastOnly, OldStyle, Tracks, Ten, Mixed, Other}}
  \cup {Postings(Direct, [Units EXCEPT ![b] = Units[earliest]])}

OldFile(r) == [of |-> r, pieces |-> <<1, 2>>]
Bare == [p \in Paths |-> NoFile]
AllShelves ==
  {Bare,
   [Bare EXCEPT ![<<"title", 0, "m4b">>] = OldFile(earliest)],
   [Bare EXCEPT ![<<"title", 0, "m4b">>] = OldFile(earliest), ![<<"title", 1, "m4b">>] = OldFile(earlier)]}

(* Bound: two workers share a job of several tracks, on an empty shelf, and *)
(* meet one failure or kill at most.                                       *)
ContestsAreFew ==
  contested # {} =>
    /\ failures <= 1
    /\ parcel = Postings(Tracks, Units)
    /\ \A p \in Paths : library[p].of \notin {earlier, earliest}
=============================================================================
