--------------------------- MODULE ArticleStream ---------------------------
(***************************************************************************)
(* NntpArticleProvider.stream_article (nntp/article_provider.py): one      *)
(* article is fetched over a connection of its own (nntp/client.py) and    *)
(* decoded while it arrives (nntp/yenc.py).  It is what ArticleDownload    *)
(* calls a stream; how it ends there is the outcome here.                  *)
(*                                                                         *)
(* The poster, the server and the wire are around it: any reply to any     *)
(* command, a connection lost at any read, and an article that lost a      *)
(* line, has one twice or out of order, or has one of its bytes changed.   *)
(* One action is one command with its reply, or one line of the article.   *)
(***************************************************************************)
EXTENDS Integers, Sequences, SequencesExt

CONSTANTS
  Contents,            (* what may be posted: sequences of bytes            *)
  LineLength,          (* bytes of it in a line                             *)
  Forms,               (* how it is posted, see Article                     *)
  OtherBytes,          (* what a damaged byte may turn into, but a line end *)
                       (* (which would make two lines of one)               *)
  Logins,              (* of the provider: "none", "pair" or "half" a pair  *)
  Codes,               (* replies of the server                             *)
  OutputChunk          (* output_chunk_size                                 *)

Bytes == 0..255
LineEnds == {10, 13}

ASSUME ConstantsAssumption ==
  /\ \A c \in Contents : c \in Seq(Bytes) /\ c # <<>>
  /\ LineLength \in Nat \ {0} /\ OutputChunk \in Nat \ {0}
  /\ Forms \subseteq {"single", "part", "bare", "text"}
  /\ OtherBytes \subseteq Bytes \ {10}
  /\ Logins \subseteq {"none", "pair", "half"}
  /\ Codes \subseteq 100..599

VARIABLES
  content, form,       (* what was posted, and how                          *)
  whole,               (* the server has it undamaged                       *)
  wire,                (* lines the server has still to send                *)
  login,
  open,                (* the connection                                    *)
  pc, outcome,
  mode, finished,      (* _mode, _finished                                  *)
  expected,            (* _expected_size                                    *)
  decoded,             (* what _decoded_size and _crc are taken of          *)
  output,              (* _output                                           *)
  handed               (* the bytes yielded so far                          *)

article == <<content, form, whole, login>>
decoder == <<mode, finished, expected, decoded, output, handed>>
vars == <<article, wire, open, pc, outcome, decoder>>

-----------------------------------------------------------------------------
(* The article as it is posted.  A control line keeps the first bytes of   *)
(* its text; a size of -1 is one that cannot be read.  No other line reads *)
(* like one, before or after a damage, and none is over max_line_length.   *)

Escape == 61
Dot    == 46
CRLF   == <<13, 10>>

(* The checksum of a sequence stands for it.  CRC-32 tells sequences of up *)
(* to four bytes from all others of their length; of longer ones, those    *)
(* that collide are taken for one.                                         *)
NoCrc  == <<>>
Crc(s) == s

(* Its fields are size, pcrc32 (of the part) and crc32 (of the file).      *)
Line(kind, bytes, size, pcrc, crc) ==
  [kind |-> kind, bytes |-> bytes, size |-> size, pcrc |-> pcrc, crc |-> crc]

Data(bytes)          == Line("data", bytes, 0, NoCrc, NoCrc)
Begin(size)          == Line("=ybegin", <<Escape, 121, 98>>, size, NoCrc, NoCrc)
Part                 == Line("=ypart", <<Escape, 121, 112>>, 0, NoCrc, NoCrc)
End(size, pcrc, crc) == Line("=yend", <<Escape, 121, 101>>, size, pcrc, crc)

Encoded(b) ==
  LET e == (b + 42) % 256
  IN IF e \in {0, 10, 13, Escape} THEN <<Escape, (e + 64) % 256>> ELSE <<e>>

Encodes(s) == FlattenSeq([k \in DOMAIN s |-> Encoded(s[k])])

(* Its lines, encoded or as they are.                                      *)
NumLines(s) == (Len(s) + LineLength - 1) \div LineLength
EndOf(s, i) == IF i * LineLength > Len(s) THEN Len(s) ELSE i * LineLength
Piece(s, i) == SubSeq(s, (i - 1) * LineLength + 1, EndOf(s, i))

Cut(s, encode) ==
  [i \in 1..NumLines(s) |-> Data(IF encode THEN Encodes(Piece(s, i)) ELSE Piece(s, i))]

(* A part is of a file that has a byte more.                               *)
Trailer(c, f) ==
  CASE f = "part"   -> End(Len(c), Crc(c), Crc(Append(c, 0)))
    [] f = "single" -> End(Len(c), NoCrc, Crc(c))
    [] f = "bare"   -> End(Len(c), NoCrc, NoCrc)

Article(c, f) ==
  CASE f = "text" -> Cut(c, FALSE)
    [] f = "part" -> <<Begin(Len(c) + 1), Part>> \o Cut(c, TRUE) \o <<Trailer(c, f)>>
    [] f \in {"single", "bare"} -> <<Begin(Len(c))>> \o Cut(c, TRUE) \o <<Trailer(c, f)>>

(* A text has no line ends but those of its lines.                         *)
MayBePosted(c, f) == f = "text" => \A i \in DOMAIN c : c[i] \notin LineEnds

(* What a reader of the article should get.                                *)
Posted ==
  IF form # "text" THEN content
  ELSE LET lines == Article(content, form)
       IN FlattenSeq([i \in DOMAIN lines |-> lines[i].bytes \o CRLF])

(* One damage: a byte of a data line is another, a size in the header or   *)
(* the trailer is, a line is lost, doubled or late, the rest is cut off,   *)
(* or there is a line more.                                                *)
DataLines(a)    == {i \in DOMAIN a : a[i].kind = "data"}
ControlLines(a) == {i \in DOMAIN a : a[i].kind \in {"=ybegin", "=yend"}}

ByteChanged(a) ==
  UNION {{[a EXCEPT ![i].bytes[k] = b] : k \in DOMAIN a[i].bytes, b \in OtherBytes} : i \in DataLines(a)}

SizeChanged(a) == {[a EXCEPT ![i].size = n] : i \in ControlLines(a), n \in {-1, 0, Len(content) + 1}}

Damaged(a) ==
  LET I == DOMAIN a
  IN {RemoveAt(a, i) : i \in I}
     \cup {InsertAt(a, i, a[i]) : i \in I}
     \cup {SubSeq(a, 1, i) : i \in I \cup {0}}
     \cup {[a EXCEPT ![i] = a[i + 1], ![i + 1] = a[i]] : i \in I \ {Len(a)}}
     \cup ByteChanged(a) \cup SizeChanged(a)
     \cup {<<Data(<<>>)>> \o a, a \o <<Data(<<>>)>>}

(* A line that begins with a dot is sent with another one.                 *)
Stuffed(line) ==
  IF line.bytes # <<>> /\ line.bytes[1] = Dot THEN [line EXCEPT !.bytes = <<Dot>> \o @] ELSE line

Sent(a) == [i \in DOMAIN a |-> Stuffed(a[i])] \o <<Data(<<Dot>>)>>

Init ==
  /\ content \in Contents /\ form \in Forms /\ MayBePosted(content, form)
  /\ LET a == Article(content, form)
     IN \E b \in {a} \cup Damaged(a) : whole = (a = b) /\ wire = Sent(b)
  /\ login \in Logins
  /\ open = FALSE
  /\ pc = "connect" /\ outcome = "none"
  /\ mode = "none" /\ finished = FALSE /\ expected = 0
  /\ decoded = <<>> /\ output = <<>> /\ handed = <<>>

-----------------------------------------------------------------------------
(* The client.                                                             *)

Goto(here, there) == pc = here /\ pc' = there /\ UNCHANGED outcome

(* An exception leaves the call; what is open is closed on the way.        *)
Raises(what) == pc' = "close" /\ outcome' = what

(* _raise_for_code, and what article_provider.py makes of the exception.   *)
(* Authentication and protocol errors go through as they are: "failed",    *)
(* and "refused" when the decoder raises one.                              *)
RaisedFor(code, auth, body) ==
  CASE code \in 200..399                              -> "nothing"
    [] body /\ code \in {423, 430}                    -> "unavailable"
    [] auth /\ code \in {480, 481, 482, 502}          -> "failed"
    [] code \in 400..499 /\ ~(body /\ code \in {423, 430}) /\ ~(auth /\ code \in 480..482)
                                                      -> "temporary"
    [] OTHER                                          -> "failed"

(* After a reply that is not the one hoped for.                            *)
Refused(code, auth, body) ==
  LET what == RaisedFor(code, auth, body)
  IN Raises(IF what = "nothing" THEN "failed" ELSE what)

Connects ==
  /\ Goto("connect", "greeting")
  /\ open' = TRUE
  /\ UNCHANGED <<article, wire, decoder>>

(* The host cannot be reached or its certificate is refused.               *)
NotConnected ==
  /\ pc = "connect" /\ Raises("temporary")
  /\ UNCHANGED <<article, wire, open, decoder>>

Greets ==
  /\ pc = "greeting"
  /\ \E code \in Codes :
       \/ code \in {200, 201} /\ login = "none" /\ Goto("greeting", "body")
       \/ code \in {200, 201} /\ login = "pair" /\ Goto("greeting", "user")
       \/ (code \in {200, 201} => login = "half") /\ Raises("failed")
  /\ UNCHANGED <<article, wire, open, decoder>>

AuthenticatesUser ==
  /\ pc = "user"
  /\ \E code \in Codes :
       \/ code = 281 /\ Goto("user", "body")
       \/ code = 381 /\ Goto("user", "pass")
       \/ code \notin {281, 381} /\ Refused(code, TRUE, FALSE)
  /\ UNCHANGED <<article, wire, open, decoder>>

AuthenticatesPass ==
  /\ pc = "pass"
  /\ \E code \in Codes :
       \/ code = 281 /\ Goto("pass", "body")
       \/ code # 281 /\ Refused(code, TRUE, FALSE)
  /\ UNCHANGED <<article, wire, open, decoder>>

AsksBody ==
  /\ pc = "body"
  /\ \E code \in Codes :
       \/ code = 222 /\ Goto("body", "lines")
       \/ code # 222 /\ Refused(code, FALSE, TRUE)
  /\ UNCHANGED <<article, wire, open, decoder>>

(* The socket times out or is closed, or a line is broken or too long.     *)
ReadFails ==
  /\ pc \in {"greeting", "user", "pass", "body", "lines"}
  /\ \E what \in {"temporary", "failed"} : Raises(what)
  /\ UNCHANGED <<article, wire, open, decoder>>

(* QUIT, whatever comes back.  A greeting that cannot be read leaves the   *)
(* socket to the garbage collector, here at once.                          *)
Closes ==
  /\ Goto("close", "ended")
  /\ open' = FALSE
  /\ UNCHANGED <<article, wire, decoder>>

-----------------------------------------------------------------------------
(* The decoder.                                                            *)

(* _read_raw_line: whatever line ends there are at the end of the line.    *)
Stripped(raw) == SubSeq(raw, 1, SelectLastInSeq(raw, LAMBDA b : b \notin LineEnds))

(* Mutant: a doubled dot stays.                                            *)
KeepsDots(raw) == raw

Unstuffed(raw) ==
  IF Len(raw) > 1 /\ raw[1] = Dot /\ raw[2] = Dot THEN Tail(raw) ELSE raw

(* _flush_output: whole chunks, and at the end the rest.                   *)
WholeChunks(s) == SubSeq(s, 1, Len(s) - (Len(s) % OutputChunk))

Flushes(s, force) ==
  LET out == IF force THEN s ELSE WholeChunks(s)
  IN /\ handed' = handed \o out
     /\ output' = SubSeq(s, Len(out) + 1, Len(s))

(* The bytes of a data line.                                               *)
Escaping(s) ==
  LET at[i \in 0..Len(s)] == i > 0 /\ s[i] = Escape /\ ~at[i - 1] IN at

Dangling(s) == Escaping(s)[Len(s)]

Decoded(s) ==
  LET at == Escaping(s)
      Byte(i) == IF at[i - 1] THEN (((s[i] - 64) % 256) - 42) % 256 ELSE (s[i] - 42) % 256
  IN FlattenSeq([i \in DOMAIN s |-> IF at[i] THEN <<>> ELSE <<Byte(i)>>])

(* What =yend is compared with: the checksum of the part if it has one.    *)
(* Mutant: the sizes only.                                                 *)
Checksum(line) == IF line.pcrc # NoCrc THEN line.pcrc ELSE line.crc

SizeOnly(line) == line.size = Len(decoded) /\ line.size <= expected

Checked(line) ==
  /\ line.size = Len(decoded) /\ line.size <= expected
  /\ Checksum(line) # NoCrc => Checksum(line) = Crc(decoded)

BeginsYenc(line) ==
  /\ mode = "none" /\ line.kind = "=ybegin" /\ line.size # -1
  /\ mode' = "yenc" /\ expected' = line.size
  /\ UNCHANGED <<pc, outcome, finished, decoded, output, handed>>

(* The first line decides; every line goes through as it is.               *)
PassesPlain(line) ==
  /\ mode = "plain" \/ (mode = "none" /\ line.kind # "=ybegin")
  /\ mode' = "plain"
  /\ Flushes(output \o line.bytes \o CRLF, FALSE)
  /\ UNCHANGED <<pc, outcome, finished, expected, decoded>>

SkipsPart(line) ==
  /\ mode = "yenc" /\ ~finished /\ line.kind = "=ypart"
  /\ UNCHANGED <<pc, outcome, decoder>>

DecodesData(line) ==
  /\ mode = "yenc" /\ ~finished /\ line.kind \in {"data", "=ybegin"} /\ ~Dangling(line.bytes)
  /\ decoded' = decoded \o Decoded(line.bytes)
  /\ Flushes(output \o Decoded(line.bytes), FALSE)
  /\ UNCHANGED <<pc, outcome, mode, finished, expected>>

EndsYenc(line) ==
  /\ mode = "yenc" /\ ~finished /\ line.kind = "=yend" /\ Checked(line)
  /\ finished' = TRUE
  /\ Flushes(output, TRUE)
  /\ UNCHANGED <<pc, outcome, mode, expected, decoded>>

(* Malformed header or trailer, wrong size or checksum, an escape at the   *)
(* end of a line, a line after the trailer.                                *)
RefusesLine(line) ==
  /\ \/ mode = "none" /\ line.kind = "=ybegin" /\ line.size = -1
     \/ mode = "yenc" /\ finished
     \/ mode = "yenc" /\ ~finished /\ line.kind = "=yend" /\ ~Checked(line)
     \/ mode = "yenc" /\ ~finished /\ line.kind \in {"data", "=ybegin"} /\ Dangling(line.bytes)
  /\ Raises("refused")
  /\ UNCHANGED decoder

ReadsLine ==
  /\ pc = "lines" /\ Stripped(wire[1].bytes) # <<Dot>>
  /\ LET line == [wire[1] EXCEPT !.bytes = Unstuffed(Stripped(@))]
     IN \/ BeginsYenc(line) \/ PassesPlain(line) \/ SkipsPart(line) \/ DecodesData(line)
        \/ EndsYenc(line) \/ RefusesLine(line)
  /\ wire' = Tail(wire)
  /\ UNCHANGED <<article, open>>

(* The line with the dot; finish.                                          *)
Finishes ==
  /\ pc = "lines" /\ Stripped(wire[1].bytes) = <<Dot>>
  /\ IF mode = "yenc" /\ ~finished
     THEN Raises("refused") /\ UNCHANGED decoder
     ELSE /\ pc' = "close" /\ outcome' = "done"
          /\ Flushes(output, TRUE)
          /\ UNCHANGED <<mode, finished, expected, decoded>>
  /\ wire' = Tail(wire)
  /\ UNCHANGED <<article, open>>

(* The engine closes the generator between two chunks.                     *)
Abandons ==
  /\ pc = "lines" /\ handed # <<>> /\ Raises("abandoned")
  /\ UNCHANGED <<article, wire, open, decoder>>

Next ==
  \/ Connects \/ NotConnected \/ Greets \/ AuthenticatesUser \/ AuthenticatesPass \/ AsksBody
  \/ ReadFails \/ Closes \/ ReadsLine \/ Finishes \/ Abandons

Spec == Init /\ [][Next]_vars

-----------------------------------------------------------------------------
(* A stream of a yEnc article that ends well has yielded what was posted,  *)
(* byte for byte, whatever the server did to the article, if the poster    *)
(* gave a checksum; without one, as many bytes.  An article that lost its  *)
(* first line, or has another before it, is taken for plain text, and      *)
(* nothing is checked (README, divergences).                               *)
DeliveredIsPosted ==
  outcome = "done" /\ mode = "yenc" =>
    /\ Len(handed) = Len(content)
    /\ form # "bare" => handed = content

(* An article the server has undamaged is never refused for what it says,  *)
(* what was yielded of it at any time is how it begins, and a stream of it *)
(* that ends well has yielded all: lines of dots, escapes and bytes that   *)
(* wrap around come through the wire and the decoder as they were posted.  *)
WholeIsAccepted ==
  whole =>
    /\ outcome # "refused"
    /\ IsPrefix(handed, Posted)
    /\ outcome = "done" => handed = Posted
=============================================================================
