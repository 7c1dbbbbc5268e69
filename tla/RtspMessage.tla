---------------------------- MODULE RtspMessage ----------------------------
(***************************************************************************)
(* What a peer sends to rtsp-parser.c, and what makes it well formed: the  *)
(* lines, headers and chunks of RFC 2326 and RFC 2616 that the comments of *)
(* rtsp-parser.c quote, given by the places of their parts in the text.    *)
(*                                                                         *)
(* A text is a sequence of tokens: blanks, line ends, colons, and words,   *)
(* each standing for a run of other characters; in a body a token is one   *)
(* byte.  Lengths and positions count tokens, from 0.                      *)
(***************************************************************************)
EXTENDS Integers, Sequences

CONSTANTS
  Message,      \* what may be sent: its text, good, folded, where its parts are (layout),
                \* and what it says: server_mode, method, uri, code, reason, headers, body
  Version,      \* the words sscanf reads as an RTSP version (no name may look so)
  StatusCode,   \* the words of three digits
  Number,       \* what atoi makes of each word that begins with a number
  Hex,          \* the value of each word of hexadecimal digits
  SizeMod       \* what size_t counts modulo

SP == "SP"
CR == "CR"
LF == "LF"
COLON == "COLON"
NUL == "NUL"
NULL == <<NUL>>     \* no text

-----------------------------------------------------------------------------
\* The token at position i, and the tokens at positions i to j - 1.
At(m, i) == m.text[i + 1]
Over(m, i, j) == {At(m, k) : k \in i..(j - 1)}

\* A field is a stretch of the text, as in struct rtsp_string_t.
FieldType == [pos : Nat, len : Nat]
End(f) == f.pos + f.len
Said(m, f) == SubSeq(m.text, f.pos + 1, End(f))

\* From i to j there is nothing but blanks, and a line ends at i, before j.
Blank(m, i, j)   == i <= j /\ Over(m, i, j) \subseteq {SP}
LineEnd(m, i, j) == \/ At(m, i) = LF /\ j = i + 1
                    \/ At(m, i) = CR /\ At(m, i + 1) = LF /\ j = i + 2

\* A field without a blank, and one that may have blanks between its words, up to the end
\* of the line.
Word(m, f) ==
  f \in FieldType /\ f.len > 0 /\ Over(m, f.pos, End(f)) \cap {SP, CR, LF, NUL} = {}
Phrase(m, f, end) ==
  /\ f \in FieldType /\ Over(m, f.pos, End(f)) \cap {CR, LF, NUL} = {}
  /\ IF f.len > 0 THEN At(m, f.pos) # SP /\ At(m, End(f) - 1) # SP ELSE f.pos = end
  /\ Blank(m, End(f), end)

\* The headers that the parser measures the body by.
Name(m, k) == At(m, m.layout.headers[k].name.pos)
MeasuredBy(m, k)  == ~m.layout.headers[k].fold /\ Name(m, k) = "Content-Length"
ChunkedBy(m, k) ==
  /\ ~m.layout.headers[k].fold /\ Name(m, k) = "Transfer-Encoding"
  /\ At(m, m.layout.headers[k].value.pos) = "chunked"

\* The lines' beginnings: of each header, of the blank line, and of the body.
HeaderCount(m) == Len(m.layout.headers)
Start(m, k) ==
  IF k <= HeaderCount(m) THEN m.layout.headers[k].name.pos
  ELSE IF k = HeaderCount(m) + 1 THEN m.layout.blank ELSE m.layout.body
TrailerStart(m, k) ==
  IF k <= Len(m.layout.trailers) THEN m.layout.trailers[k].start ELSE m.layout.last

\* Section 6.1 and section 5.1: three fields, of which the third may have several words.
FirstLineFormed(m) ==
  LET l == m.layout IN
  /\ Word(m, l.first) /\ l.first.pos = 0
  /\ End(l.first) < l.second.pos /\ Blank(m, End(l.first), l.second.pos) /\ Word(m, l.second)
  /\ End(l.second) < l.third.pos /\ Blank(m, End(l.second), l.third.pos)
  /\ Phrase(m, l.third, l.end) /\ l.third.len > 0
  /\ l.end \in Nat /\ LineEnd(m, l.end, Start(m, 1))
  /\ IF m.server_mode
     THEN /\ At(m, l.third.pos) \in Version
          /\ m.method = Said(m, l.first) /\ m.uri = Said(m, l.second)
     ELSE /\ l.first.len = 1 /\ At(m, 0) \in Version
          /\ l.second.len = 1 /\ At(m, l.second.pos) \in StatusCode \cap DOMAIN Number
          /\ m.code = Number[At(m, l.second.pos)] /\ m.reason = Said(m, l.third)

\* Section 4.2: a name, a colon and a value; or the value goes on in a line of its own.
HeaderFormed(m, k) ==
  LET h == m.layout.headers[k] IN
  /\ h.fold \in BOOLEAN /\ h.name.pos \in Nat /\ h.end \in Nat /\ h.end < m.layout.blank
  /\ IF h.fold
     THEN /\ m.folded /\ k > 1 /\ h.value.len > 0
          /\ h.name.pos < h.value.pos /\ Blank(m, h.name.pos, h.value.pos)
     ELSE /\ h.name.len = 1 /\ h.name \in FieldType
          /\ Name(m, k) \notin Version \cup {SP, CR, LF, COLON, NUL}
          /\ h.colon \in Nat /\ At(m, h.colon) = COLON
          /\ h.name.pos < h.colon /\ Blank(m, h.name.pos + 1, h.colon)
          /\ h.colon < h.value.pos /\ Blank(m, h.colon + 1, h.value.pos)
  /\ Phrase(m, h.value, h.end) /\ LineEnd(m, h.end, Start(m, k + 1))

\* The headers, each of another name, and the blank line behind them.
HeadersFormed(m) ==
  LET l == m.layout
      names == {i \in 1..HeaderCount(m) : ~l.headers[i].fold}
  IN  /\ l.headers \in Seq([name : FieldType, colon : Nat, value : FieldType, end : Nat,
                            fold : BOOLEAN])
      /\ \A k \in 1..HeaderCount(m) : HeaderFormed(m, k)
      /\ \A i \in names : \A k \in names : Name(m, i) = Name(m, k) => i = k
      /\ l.blank \in Nat /\ l.body \in Nat /\ l.body <= Len(m.text)
      /\ LineEnd(m, l.blank, l.body)
      /\ ~m.folded => /\ DOMAIN m.headers = {Name(m, k) : k \in names}
                      /\ \A k \in names : m.headers[Name(m, k)] = Said(m, l.headers[k].value)

\* Section 3.6.1 of RFC 2616: the chunks, of which the last has no data, and the trailer.
ChunkFormed(m, j) ==
  LET c == m.layout.chunks[j]
      next == m.layout.chunks[j + 1]
  IN  /\ At(m, c.size) \in DOMAIN Hex /\ Hex[At(m, c.size)] = c.len
      /\ c.size < c.end /\ (c.end = c.size + 1 \/ At(m, c.size + 1) = SP)
      /\ Over(m, c.size + 1, c.end) \cap {CR, LF} = {} /\ LineEnd(m, c.end, c.data)
      /\ IF j < Len(m.layout.chunks)
         THEN /\ c.len > 0 /\ c.data + c.len + 2 = next.size /\ c.at + c.len = next.at
              /\ At(m, c.data + c.len) = CR /\ At(m, c.data + c.len + 1) = LF
              /\ next.size < Len(m.text) /\ next.at <= Len(m.body)
              /\ \A i \in 1..c.len : m.body[c.at + i] = m.text[c.data + i]
         ELSE c.len = 0 /\ c.at = Len(m.body) /\ c.data = TrailerStart(m, 1)
TrailerFormed(m, k) ==
  LET t == m.layout.trailers[k] IN
  /\ t.start < t.end /\ t.end < m.layout.last
  /\ Over(m, t.start, t.end) \cap {CR, LF} = {} /\ LineEnd(m, t.end, TrailerStart(m, k + 1))
ChunksFormed(m) ==
  LET l == m.layout IN
  /\ l.chunks \in Seq([size : Nat, end : Nat, data : Nat, len : Nat, at : Nat])
  /\ l.trailers \in Seq([start : Nat, end : Nat])
  /\ l.chunks # <<>> /\ l.chunks[1].size = l.body /\ l.chunks[1].at = 0
  /\ \A j \in 1..Len(l.chunks) : l.chunks[j].end < l.last /\ ChunkFormed(m, j)
  /\ \A k \in 1..Len(l.trailers) : TrailerFormed(m, k)
  /\ l.last \in Nat /\ l.last < Len(m.text) /\ LineEnd(m, l.last, Len(m.text))

\* Section 4.4: the body is chunked, or of the length a header gives, or there is none.
BodyFormed(m) ==
  LET l == m.layout
      all == 1..HeaderCount(m)
  IN  /\ m.body \in Seq(STRING)
      /\ m.folded => \A k \in all : l.headers[k].fold
                       \/ Name(m, k) \notin {"Content-Length", "Transfer-Encoding"}
      /\ IF \E k \in all : ChunkedBy(m, k)
         THEN /\ \A k \in all : ~MeasuredBy(m, k) /\ (ChunkedBy(m, k) => l.headers[k].value.len = 1)
              /\ ChunksFormed(m)
         ELSE /\ m.body = SubSeq(m.text, l.body + 1, Len(m.text))
              /\ \A k \in all : MeasuredBy(m, k) =>
                   /\ l.headers[k].value.len > 0
                   /\ At(m, l.headers[k].value.pos) \in DOMAIN Number
                   /\ Len(m.text) = l.body + Number[At(m, l.headers[k].value.pos)]
              /\ (\A k \in all : ~MeasuredBy(m, k)) => Len(m.text) = l.body

WellFormed(m) == FirstLineFormed(m) /\ HeadersFormed(m) /\ BodyFormed(m)

\* Chunked, and yet a header behind the one that says so gives a length.
MeasuredTwice(m) ==
  /\ FirstLineFormed(m) /\ HeadersFormed(m) /\ ~m.folded /\ ChunksFormed(m)
  /\ \E j, k \in 1..HeaderCount(m) : j < k /\ ChunkedBy(m, j) /\ MeasuredBy(m, k)

\* No size that is sent is so large that a place behind such a chunk cannot be counted.
Countable(m) ==
  \A i \in DOMAIN m.text :
    m.text[i] \in DOMAIN Hex => Hex[m.text[i]] + Len(m.text) + 2 < SizeMod

-----------------------------------------------------------------------------
ASSUME NumberAssumption == \A w \in DOMAIN Number : Number[w] \in Int
ASSUME HexAssumption    == /\ \A w \in DOMAIN Hex : Hex[w] \in Nat
                           /\ {SP, NUL} \cap DOMAIN Hex = {}
ASSUME MessageAssumption ==
  \A m \in Message : m.text \in Seq(STRING) /\ m.server_mode \in BOOLEAN
ASSUME SizeAssumption == SizeMod \in Nat \ {0} /\ \A m \in Message : Len(m.text) + 2 < SizeMod
ASSUME GrammarAssumption == \A m \in Message : m.good => WellFormed(m)
=============================================================================
