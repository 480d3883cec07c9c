----------------------------- MODULE MCGroupScan -----------------------------
(* Instances of GroupScan for TLC.                                         *)
EXTENDS GroupScan, TLC

CONSTANTS daemon, manual, book, short, set, spam

OneScanner  == {daemon}
TwoScanners == {daemon, manual}
ManualOnly  == {manual}
None        == {}

AnyReply  == {"list", "error"}
EmptyList == {"list"}

(* A book of two numbered parts and a short one of a single part.          *)
BookAndShort == {book, short}
BookParts == (book :> {1, 2}) @@ (short :> {3})

(* An archive set, whose files are not numbered, and spam, which the       *)
(* classifier rejects.  In a grouper of two groups the book keeps its     *)
(* place through its second article, while the set has to go for the spam. *)
BooksAndSet == {book, short, set}
Crowd == {book, short, set, spam}
CrowdParts == (book :> {1, 3, 5}) @@ (short :> {6}) @@ (set :> {2}) @@ (spam :> {4})

(* One posting of two articles.                                            *)
OneBook == {book}
PairParts == (book :> {1, 2})
=============================================================================
