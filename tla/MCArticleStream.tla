--------------------------- MODULE MCArticleStream ---------------------------
(* Instances of ArticleStream for TLC.                                     *)
EXTENDS ArticleStream

(* Encoded: a dot; "=", NUL and CR, which are escaped; a byte that wraps.  *)
(* 46 is the dot of a text.                                                *)
SomeBytes == {4, 19, 46, 214, 227, 250}
AllContents == UNION {[1..n -> SomeBytes] : n \in 1..3}
AllForms == {"single", "part", "bare", "text"}
(* "=", ".", CR, and the encoding of another content byte.                 *)
Changed == {61, 46, 13, 36}
AllLogins == {"none", "pair", "half"}
SomeCodes == {200, 222, 281, 381, 400, 430, 480, 502}
=============================================================================
