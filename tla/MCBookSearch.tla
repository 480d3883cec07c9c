---------------------------- MODULE MCBookSearch ----------------------------
(* Instances of BookSearch for TLC.                                        *)
EXTENDS BookSearch, TLC

CONSTANTS c1, wanted, split, bigger, video

OneClient == {c1}
FourReleases == {wanted, split, bigger, video}

Plain == [title |-> 55, author |-> 0, narrator |-> 0, series |-> 0, audio |-> TRUE,
          video |-> FALSE, ending |-> TRUE, archive |-> FALSE, positive |-> FALSE,
          negative |-> FALSE, software |-> FALSE, dashes |-> FALSE, tagged |-> TRUE,
          words |-> 2, size |-> 1, key |-> 1]

(* A good posting in two articles; one with the author, whose articles lie *)
(* in two windows, or one and a new one; a larger one of the same book in  *)
(* the other group; and the sound of a film of that name, which only the   *)
(* scorer knows for one, before the others on every page.                  *)
SomeFacts ==
  (wanted :> Plain) @@
  (split :> [Plain EXCEPT !.author = 25, !.key = 2]) @@
  (bigger :> [Plain EXCEPT !.size = 2, !.words = 3]) @@
  (video :> [Plain EXCEPT !.video = TRUE, !.key = 3])
SomeGroups == (wanted :> 1) @@ (split :> 1) @@ (bigger :> 2) @@ (video :> 2)
SomeParts  == (wanted :> {1, 2}) @@ (split :> {2, 4}) @@ (bigger :> {2}) @@ (video :> {1})
SomeIds    == (wanted :> 1) @@ (split :> 2) @@ (bigger :> 3) @@ (video :> 4)
SomeFinds  == <<{split, video}, {wanted, bigger, split}>>
=============================================================================
