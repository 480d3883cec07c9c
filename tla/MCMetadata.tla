----------------------------- MODULE MCMetadata -----------------------------
(* Instances of Metadata for TLC.                                          *)
EXTENDS Metadata, TLC

CONSTANTS api, worker, second, t1, t2, t3, book, other

ThreeProcesses == {api, worker, second}
ThreeThreads == {t1, t2, t3}
OneThread    == {t1}
TwoBooks     == {book, other}

Role(p, k, c) == [proc |-> p, key |-> k, calls |-> c]

(* Two requests for a book in one process and one in another; one with     *)
(* artwork beside two submissions of a picture.                            *)
Together == (t1 :> Role(worker, book, "resolve")) @@ (t2 :> Role(worker, book, "resolve"))
              @@ (t3 :> Role(worker, book, "nothing"))
Apart == (t1 :> Role(worker, book, "resolve")) @@ (t2 :> Role(second, book, "resolve"))
              @@ (t3 :> Role(worker, book, "nothing"))
Pictures == (t1 :> Role(api, book, "submit")) @@ (t2 :> Role(api, book, "submit"))
              @@ (t3 :> Role(api, other, "submit"))
Illustrated == (t1 :> Role(api, book, "resolve")) @@ (t2 :> Role(api, book, "nothing"))
              @@ (t3 :> Role(api, other, "nothing"))
AllRoles == {Together, Apart, Pictures, Illustrated}
OnlyApi == {api}
=============================================================================
