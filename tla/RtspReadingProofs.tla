------------------------- MODULE RtspReadingProofs -------------------------
(***************************************************************************)
(* The parser of RtspParser on a well formed message, for every such       *)
(* message and every cut of it: no assert of the parsing fails, it is done *)
(* at the last byte and not before, and the getters give what was sent.    *)
(***************************************************************************)
EXTENDS RtspParserProofs, FiniteSetTheorems

-----------------------------------------------------------------------------
(* The reading of a well formed message: where the parser is in it, what it  *)
(* has kept of it, and what it has noted.                                    *)

\* The text is untouched from position i on.
Unread(r, m, i) == \A k \in 1..Len(r.raw) : k > i => r.raw[k] = m.text[k]

\* The field f of the text has become a string.
Intact(r, m, f) ==
  /\ \A k \in (f.pos + 1)..End(f) : r.raw[k] = m.text[k]
  /\ Char(r, End(f)) = NUL

\* The parser is behind a word of the phrase g, which the field f measures, and only blanks
\* lie between.
Trailing(m, f, g, end, o) ==
  /\ f.pos = g.pos /\ f.len \in Nat /\ End(f) <= End(g) /\ o <= end /\ Blank(m, End(f), o)

\* What the status line's states have read.
StatusAt(r, m) ==
  LET l == m.layout
      o == r.offset
      s == r.stateM
  IN  /\ s = "STATUS_START" => o = 0
      /\ s = "STATUS_VERSION" => r.name.pos = 0 /\ o <= End(l.first)
      /\ s = "STATUS_SP1" => r.name = l.first /\ o <= l.second.pos /\ End(l.first) <= o
      /\ s = "STATUS_CODE" => r.name = l.first /\ r.value.pos = l.second.pos
                              /\ l.second.pos <= o /\ o <= End(l.second)
      /\ s \in {"STATUS_SP2", "STATUS_REASON", "STATUS_SP3", "STATUS_CR", "STATUS_LF"} =>
           r.name = l.first /\ r.value = l.second
      /\ s = "STATUS_SP2" => End(l.second) <= o /\ o <= l.third.pos
      /\ s = "STATUS_REASON" => r.reason.pos = l.third.pos
                                /\ l.third.pos <= o /\ o <= End(l.third)
      /\ s = "STATUS_SP3" => Trailing(m, r.reason, l.third, l.end, o)
      /\ s \in {"STATUS_CR", "STATUS_LF"} => r.reason = l.third /\ o = Start(m, 1) - 1

\* What the request line's states have read.
RequestAt(r, m) ==
  LET l == m.layout
      o == r.offset
      s == r.stateM
  IN  /\ s = "REQUEST_START" => o = 0
      /\ s = "REQUEST_METHOD" => r.method.pos = 0 /\ o <= End(l.first)
      /\ s = "REQUEST_SP1" => r.method = l.first /\ o <= l.second.pos /\ End(l.first) <= o
      /\ s = "REQUEST_URI" => r.method = l.first /\ r.uri.pos = l.second.pos
                              /\ l.second.pos <= o /\ o <= End(l.second)
      /\ s \in {"REQUEST_SP2", "REQUEST_VERSION", "REQUEST_SP3", "REQUEST_CR", "REQUEST_LF"} =>
           r.method = l.first /\ r.uri = l.second
      /\ s = "REQUEST_SP2" => End(l.second) <= o /\ o <= l.third.pos
      /\ s = "REQUEST_VERSION" => r.name.pos = l.third.pos
                                  /\ l.third.pos <= o /\ o <= End(l.third)
      /\ s = "REQUEST_SP3" => Trailing(m, r.name, l.third, l.end, o)
      /\ s \in {"REQUEST_CR", "REQUEST_LF"} => r.name = l.third /\ o = Start(m, 1) - 1

FirstReading(r, m) ==
  /\ r.stateM \in LineState
  /\ StatusAt(r, m) /\ RequestAt(r, m) /\ Unread(r, m, 0)
  /\ r.headers = <<>> /\ r.connection_close = -1 /\ r.content_encoding = 0
  /\ r.content_length = -1 /\ r.transfer_encoding = 0 /\ r.cookie = 0 /\ r.location = 0

\* What the first line said is kept; it ends before position i.
FirstKept(r, m, i) ==
  LET l == m.layout IN
  IF m.server_mode
  THEN /\ r.method = l.first /\ Intact(r, m, l.first) /\ End(l.first) < i
       /\ r.uri = l.second /\ Intact(r, m, l.second) /\ End(l.second) < i
  ELSE /\ r.code = m.code /\ r.reason = l.third /\ Intact(r, m, l.third) /\ End(l.third) < i

\* Before line k: v is what the header of that name gave, given[i], or none.
NotedAs(m, k, v, name, given, none) ==
  /\ \A i \in 1..(k - 1) : Name(m, i) = name => v = given[i]
  /\ (\A i \in 1..(k - 1) : Name(m, i) # name) => v = none

Places(m)  == [i \in 1..HeaderCount(m) |-> m.layout.headers[i].value.pos]
Lengths(m) == [i \in 1..HeaderCount(m) |-> atoi(At(m, m.layout.headers[i].value.pos))]
Closes(m)  == [i \in 1..HeaderCount(m) |->
                 IF Said(m, m.layout.headers[i].value) = <<"close">> THEN 1 ELSE 0]

\* The headers before line k are listed, and kept; they end before position i.
Listed(r, m, k, i) ==
  /\ Len(r.headers) = k - 1
  /\ \A j \in 1..(k - 1) :
       LET h == m.layout.headers[j] IN
       /\ r.headers[j].name = h.name /\ r.headers[j].value = h.value
       /\ Intact(r, m, h.name) /\ End(h.name) < i
       /\ Intact(r, m, h.value) /\ End(h.value) < i
  /\ NotedAs(m, k, r.connection_close, "Connection", Closes(m), -1)
  /\ NotedAs(m, k, r.content_encoding, "Content-Encoding", Places(m), 0)
  /\ NotedAs(m, k, r.transfer_encoding, "Transfer-Encoding", Places(m), 0)
  /\ NotedAs(m, k, r.cookie, "Set-Cookie", Places(m), 0)
  /\ NotedAs(m, k, r.location, "Location", Places(m), 0)

\* A folded message has no body, and no header that measures one.
Unmeasured(r, k) ==
  /\ \A j \in 1..Len(r.headers) :
       Char(r, r.headers[j].name.pos) \notin {"Content-Length", "Transfer-Encoding"}
  /\ k > 1 => r.headers # <<>>
  /\ r.transfer_encoding = 0

\* What has been kept of the lines before line k.
LinesKept(r, m, k) ==
  IF m.folded THEN Unmeasured(r, k)
  ELSE FirstKept(r, m, Start(m, k)) /\ Listed(r, m, k, Start(m, k))

\* The name of line k has been read, or its fold.
NameRead(r, h) == IF h.fold THEN r.name.pos = 0 /\ h.name.pos < r.offset
                  ELSE r.name = h.name /\ h.colon < r.offset

\* What the states of header line k have read.
HeaderAt(r, m, k) ==
  LET h == m.layout.headers[k]
      o == r.offset
      s == r.stateM
      more == k <= HeaderCount(m)
  IN  /\ s = "HEADER_START" => o = Start(m, k)
      /\ s = "HEADER_NAME" => more /\ ~h.fold /\ r.name.pos = h.name.pos
                              /\ o \in {h.name.pos, h.name.pos + 1}
      /\ s = "HEADER_SP1" => more /\ ~h.fold /\ r.name = h.name /\ h.name.pos < o /\ o <= h.colon
      /\ s = "HEADER_SEPARATOR" => more /\ ~h.fold /\ r.name = h.name /\ o = h.colon
      /\ s \in {"HEADER_SP2", "HEADER_VALUE", "HEADER_SP3"} => more /\ NameRead(r, h)
      /\ s = "HEADER_SP2" => o <= h.value.pos
      /\ s = "HEADER_VALUE" => r.value.pos = h.value.pos /\ h.value.pos <= o /\ o <= End(h.value)
      /\ s = "HEADER_SP3" => Trailing(m, r.value, h.value, h.end, o)
      /\ s \in {"HEADER_CR", "HEADER_LF"} =>
           /\ o = Start(m, k + 1) - 1
           /\ IF more THEN NameRead(r, h) /\ r.value = h.value ELSE r.value.pos = 0

HeaderReading(r, m) ==
  /\ r.stateM \in HeaderState
  /\ \E k \in 1..(HeaderCount(m) + 1) :
       /\ HeaderAt(r, m, k) /\ Unread(r, m, Start(m, k)) /\ LinesKept(r, m, k)
       /\ NotedAs(m, k, r.content_length, "Content-Length", Lengths(m), -1)

ChunkedBody(m) == \E k \in 1..HeaderCount(m) : ChunkedBy(m, k)

\* The data of the chunks before chunk j is the body so far.
Taken(r, m, j) ==
  /\ r.content_length = m.layout.chunks[j].at
  /\ \A i \in 1..r.content_length : r.raw[m.layout.body + i] = m.body[i]

\* What the states of chunk j, and of the trailer, have read.
ChunkAt(r, m, j) ==
  LET c == m.layout.chunks[j]
      o == r.chunk.offset
      s == r.stateM
  IN  /\ s = "CHUNK_START" => o = c.size
      /\ s \in {"CHUNK_SIZE", "CHUNK_EXTENSION", "CHUNK_EXTENSION_CR", "CHUNK_DATA"} =>
           r.chunk.len = c.len
      /\ s = "CHUNK_SIZE" => o = c.size + 1
      /\ s = "CHUNK_EXTENSION" => c.size < o /\ o <= c.end
      /\ s = "CHUNK_EXTENSION_CR" => o = c.data - 1
      /\ s = "CHUNK_DATA" => o = c.data /\ c.len > 0
\* After the last chunk, in trailer line k.
TrailerAt(r, m, k) ==
  LET t == m.layout.trailers[k]
      o == r.chunk.offset
      s == r.stateM
  IN  /\ s = "CHUNK_TRAILER_START" => o = TrailerStart(m, k)
      /\ s = "CHUNK_TRAILER" => k <= Len(m.layout.trailers) /\ t.start < o /\ o <= t.end
      /\ s = "CHUNK_TRAILER_CR" =>
           k <= Len(m.layout.trailers) /\ o = TrailerStart(m, k + 1) - 1
      /\ s = "CHUNK_END_CR" => o = Len(m.text) - 1

BeforeTrailer == {"CHUNK_START", "CHUNK_SIZE", "CHUNK_EXTENSION", "CHUNK_EXTENSION_CR", "CHUNK_DATA"}

ChunkReading(r, m) ==
  /\ Unread(r, m, r.chunk.offset)
  /\ \/ /\ r.stateM \in BeforeTrailer
        /\ \E j \in 1..Len(m.layout.chunks) : ChunkAt(r, m, j) /\ Taken(r, m, j)
     \/ /\ r.stateM \notin BeforeTrailer
        /\ Taken(r, m, Len(m.layout.chunks))
        /\ \E k \in 1..(Len(m.layout.trailers) + 1) : TrailerAt(r, m, k)
        /\ r.stateM = "DONE" => r.chunk.offset = Len(m.text)

BodyReading(r, m) ==
  /\ r.stateM \in ChunkState \cup {"DONE"} /\ r.offset = m.layout.body
  /\ LinesKept(r, m, HeaderCount(m) + 1)
  /\ is_transfer_encoding_chunked(r) <=> ChunkedBody(m)
  /\ IF ChunkedBody(m) /\ r.chunk.offset # 0 THEN ChunkReading(r, m)
     ELSE /\ Unread(r, m, m.layout.body) /\ r.chunk.offset = 0
          /\ \/ /\ r.stateM = "CHUNK_START"
                /\ NotedAs(m, HeaderCount(m) + 1, r.content_length, "Content-Length", Lengths(m), -1)
             \/ /\ r.stateM = "DONE" /\ ~ChunkedBody(m)
                /\ r.content_length = Len(m.text) - m.layout.body
                /\ Len(r.raw) = Len(m.text)

Reading(r, m) == FirstReading(r, m) \/ HeaderReading(r, m) \/ BodyReading(r, m)

\* The inductive invariant: the reading of a well formed message goes as its grammar has it.
GInv ==
  message.good =>
    /\ Reading(rtsp, message)
    /\ ret \notin {"parse assert", "overrun"}
    /\ ret = "done" => rtsp.stateM = "DONE"
    /\ ret = "needmore" => fed < Len(message.text)

\* The text is shorter than size_t counts.
Sized(m) == Len(m.text) \in Nat /\ SizeMod \in Nat \ {0} /\ Len(m.text) + 2 < SizeMod

-----------------------------------------------------------------------------
(* What the grammar says of one place of the text.                           *)

\* A field is its place and its length.
LEMMA FieldIs ==
  ASSUME NEW f \in FieldType
  PROVE  f = [pos |-> f.pos, len |-> f.len] /\ f.pos \in Nat /\ f.len \in Nat
         /\ End(f) \in Nat /\ f.pos <= End(f) /\ End(f) = f.pos + f.len
BY DEF FieldType, End

\* Two fields with the same place and end.
LEMMA SameField ==
  ASSUME NEW f \in FieldType, NEW g \in FieldType, f.pos = g.pos, End(f) = End(g)
  PROVE  f = g
<1>1. f.len = g.len
  BY DEF FieldType, End
<1> QED
  BY <1>1 DEF FieldType

\* Between i and j.
LEMMA OverAt ==
  ASSUME NEW m, NEW i, NEW j, NEW o \in i..(j - 1)
  PROVE  At(m, o) \in Over(m, i, j)
BY DEF Over

\* There is nothing but blanks between i and j.
LEMMA BlankAt ==
  ASSUME NEW m, NEW i \in Nat, NEW j \in Nat, Blank(m, i, j), NEW o \in Nat, i <= o, o < j
  PROVE  At(m, o) = SP
<1>1. o \in i..(j - 1)
  OBVIOUS
<1> QED
  BY <1>1, OverAt DEF Blank

\* A word's tokens,
LEMMA WordAt ==
  ASSUME NEW m, NEW f, Word(m, f), NEW o \in Nat, f.pos <= o, o < End(f)
  PROVE  At(m, o) \notin {SP, CR, LF, NUL}
<1>1. f \in FieldType /\ End(f) \in Nat
  BY FieldIs DEF Word
<1>2. o \in f.pos..(End(f) - 1)
  BY <1>1 DEF FieldType
<1> QED
  BY <1>2, OverAt DEF Word

\* and a phrase's.
LEMMA PhraseAt ==
  ASSUME NEW m, NEW f, NEW end, Phrase(m, f, end), NEW o \in Nat, f.pos <= o, o < End(f)
  PROVE  At(m, o) \notin {CR, LF, NUL}
<1>1. f \in FieldType /\ End(f) \in Nat
  BY FieldIs DEF Phrase
<1>2. o \in f.pos..(End(f) - 1)
  BY <1>1 DEF FieldType
<1> QED
  BY <1>2, OverAt DEF Phrase

\* The blanks behind a place reach one further.
LEMMA BlankMore ==
  ASSUME NEW m, NEW i \in Nat, NEW o \in Nat, Blank(m, i, o), At(m, o) = SP
  PROVE  Blank(m, i, o + 1)
<1>1. \A k \in i..o : k \in i..(o - 1) \/ k = o
  OBVIOUS
<1>2. \A k \in i..o : At(m, k) = SP
  BY <1>1, OverAt DEF Blank
<1>3. i <= o + 1 /\ (o + 1) - 1 = o
  BY DEF Blank
<1> QED
  BY <1>2, <1>3 DEF Blank, Over

\* A line ends with a LF, maybe behind a CR.
LEMMA LineEndAt ==
  ASSUME NEW m, NEW i \in Nat, NEW j, LineEnd(m, i, j)
  PROVE  /\ j \in Nat /\ i < j /\ j - 1 \in Nat /\ At(m, j - 1) = LF
         /\ At(m, i) \in {CR, LF}
         /\ At(m, i) = CR => j = i + 2
         /\ At(m, i) = LF => j = i + 1
<1>1. CR # LF
  BY DEF CR, LF
<1>2. (i + 1) - 1 = i /\ (i + 2) - 1 = i + 1 /\ i + 1 \in Nat /\ i + 2 \in Nat
  OBVIOUS
<1> QED
  BY <1>1, <1>2 DEF LineEnd

-----------------------------------------------------------------------------
(* The four ways to scan a line.                                             *)

\* Over a word, up to the blank behind it.
LEMMA ScanWord ==
  ASSUME NEW m, NEW f, Word(m, f), NEW j \in Nat, End(f) < j, Blank(m, End(f), j),
         NEW o \in Nat, f.pos <= o, o <= End(f)
  PROVE  /\ At(m, o) \in {SP, CR, LF} => o = End(f)
         /\ At(m, o) \notin {SP, CR, LF} => o < End(f)
<1>1. End(f) \in Nat
  BY FieldIs DEF Word
<1>2. At(m, End(f)) = SP
  BY <1>1, BlankAt
<1>3. o < End(f) => At(m, o) \notin {SP, CR, LF}
  BY WordAt
<1>4. o < End(f) \/ o = End(f)
  BY <1>1
<1> QED
  BY <1>2, <1>3, <1>4

\* Over blanks, up to what follows them.
LEMMA ScanBlank ==
  ASSUME NEW m, NEW i \in Nat, NEW j \in Nat, Blank(m, i, j), At(m, j) # SP,
         NEW o \in Nat, i <= o, o <= j
  PROVE  /\ At(m, o) = SP => o < j
         /\ At(m, o) # SP => o = j
<1>1. o < j \/ o = j
  OBVIOUS
<1>2. o < j => At(m, o) = SP
  BY BlankAt
<1> QED
  BY <1>1, <1>2

\* Over a word of a phrase: at its end only blanks are behind it.
LEMMA ScanPhrase ==
  ASSUME NEW m, NEW g, NEW end \in Nat, NEW j, Phrase(m, g, end), LineEnd(m, end, j),
         NEW o \in Nat, g.pos <= o, o <= End(g)
  PROVE  /\ At(m, o) \in {SP, CR, LF} => Trailing(m, [pos |-> g.pos, len |-> o - g.pos], g, end, o)
         /\ At(m, o) \notin {SP, CR, LF} => o < End(g)
<1>1. g \in FieldType /\ g.pos \in Nat /\ End(g) \in Nat /\ End(g) <= end
  BY FieldIs DEF Phrase, Blank
<1>2. At(m, End(g)) \in {SP, CR, LF}
  <2>1. CASE End(g) < end
    BY <1>1, <2>1, BlankAt DEF Phrase
  <2>2. CASE End(g) = end
    BY <1>1, <2>2, LineEndAt
  <2> QED
    BY <1>1, <2>1, <2>2
<1>3. Trailing(m, [pos |-> g.pos, len |-> o - g.pos], g, end, o)
  <2>1. o - g.pos \in Nat /\ End([pos |-> g.pos, len |-> o - g.pos]) = o /\ o <= end
    BY <1>1 DEF End
  <2>2. Blank(m, o, o)
    <3>1. o..(o - 1) = {}
      OBVIOUS
    <3> QED
      BY <3>1 DEF Blank, Over
  <2> QED
    BY <2>1, <2>2 DEF Trailing
<1>4. o < End(g) \/ o = End(g)
  BY <1>1
<1> QED
  BY <1>2, <1>3, <1>4

\* Over the blanks behind a word of a phrase: a further word, or the line's end.
LEMMA ScanTrailing ==
  ASSUME NEW m, NEW f \in FieldType, NEW g, NEW end \in Nat, NEW j, Phrase(m, g, end),
         LineEnd(m, end, j), NEW o \in Nat, End(f) <= o, Trailing(m, f, g, end, o)
  PROVE  /\ At(m, o) = SP => Trailing(m, f, g, end, o + 1)
         /\ At(m, o) \in {CR, LF} => f = g /\ o = end
         /\ At(m, o) \notin {SP, CR, LF} => o < End(g) /\ g.pos <= o
<1>1. /\ g \in FieldType /\ g.pos \in Nat /\ End(g) \in Nat /\ End(g) <= end
      /\ f.pos = g.pos /\ End(f) \in Nat /\ f.pos <= End(f) /\ End(f) <= End(g) /\ o <= end
      /\ f.len \in Nat /\ Blank(m, End(f), o)
  BY FieldIs DEF Phrase, Blank, Trailing
<1>2. CR \notin {SP, LF} /\ SP # LF
  BY DEF CR, LF, SP
<1>3. At(m, end) \in {CR, LF}
  BY LineEndAt
<1>4. CASE o < End(g)
  <2>1. o + 1 <= end /\ g.pos <= o
    BY <1>1, <1>4
  <2>2. At(m, o) \notin {CR, LF}
    BY <1>1, <1>4, <2>1, PhraseAt
  <2>3. At(m, o) = SP => Trailing(m, f, g, end, o + 1)
    BY <1>1, <2>1, BlankMore DEF Trailing
  <2> QED
    BY <1>4, <2>1, <2>2, <2>3
<1>5. CASE End(g) <= o
  <2>1. o < end => At(m, o) = SP
    BY <1>1, <1>5, BlankAt DEF Phrase
  <2>2. f = g
    <3>1. CASE g.len = 0
      BY <1>1, <3>1, SameField DEF End
    <3>2. CASE End(f) = End(g)
      BY <1>1, <3>2, SameField
    <3>3. CASE g.len # 0 /\ End(f) # End(g)
      <4>1. End(f) <= End(g) - 1 /\ End(g) - 1 < o /\ End(g) - 1 \in Nat
        BY <1>1, <1>5, <3>3
      <4>2. At(m, End(g) - 1) = SP
        BY <1>1, <4>1, BlankAt
      <4>3. g.len > 0
        BY <1>1, <3>3, FieldIs
      <4> QED
        BY <4>2, <4>3 DEF Phrase
    <3> QED
      BY <3>1, <3>2, <3>3
  <2>3. At(m, o) = SP => o < end
    BY <1>1, <1>2, <1>3
  <2>4. At(m, o) = SP => Trailing(m, f, g, end, o + 1)
    BY <1>1, <2>3, BlankMore DEF Trailing
  <2> QED
    BY <1>1, <1>2, <1>3, <2>1, <2>2, <2>4
<1> QED
  BY <1>1, <1>4, <1>5

-----------------------------------------------------------------------------
(* The first line's states, one by one.                                      *)

\* Where the parts of a well formed first line are.
FirstPlaces(m, l) ==
  /\ l.first \in FieldType /\ l.second \in FieldType /\ l.third \in FieldType
  /\ End(l.first) \in Nat /\ End(l.second) \in Nat /\ End(l.third) \in Nat
  /\ l.end \in Nat /\ Start(m, 1) \in Nat
  /\ l.first.pos = 0 /\ End(l.first) < l.second.pos
  /\ l.second.pos <= End(l.second) /\ End(l.second) < l.third.pos
  /\ l.third.pos <= End(l.third) /\ End(l.third) <= l.end /\ l.end < Start(m, 1)
  /\ l.first.len \in Nat \ {0} /\ l.second.len \in Nat \ {0} /\ l.third.len \in Nat \ {0}

\* They follow from its grammar.
LEMMA FirstLinePlaces ==
  ASSUME NEW m, FirstLineFormed(m), NEW l, l = m.layout
  PROVE  /\ FirstPlaces(m, l)
         /\ At(m, 0) # SP /\ At(m, l.second.pos) # SP /\ At(m, l.third.pos) # SP
<1>1. /\ l.first \in FieldType /\ l.second \in FieldType /\ l.third \in FieldType
      /\ l.first.len > 0 /\ l.second.len > 0 /\ l.third.len > 0
      /\ l.end \in Nat /\ LineEnd(m, l.end, Start(m, 1))
      /\ End(l.third) <= l.end /\ l.first.pos = 0 /\ End(l.first) < l.second.pos
      /\ End(l.second) < l.third.pos /\ At(m, l.third.pos) # SP
      /\ Word(m, l.first) /\ Word(m, l.second)
  BY DEF FirstLineFormed, Word, Phrase, Blank
<1>2. Start(m, 1) \in Nat /\ l.end < Start(m, 1)
  BY <1>1, LineEndAt
<1>3. FirstPlaces(m, l)
  BY <1>1, <1>2, FieldIs DEF FirstPlaces, FieldType
<1>4. 0 < End(l.first) /\ l.second.pos < End(l.second) /\ l.second.pos \in Nat
  BY <1>1 DEF FieldType, End
<1>5. At(m, 0) # SP /\ At(m, l.second.pos) # SP
  BY <1>1, <1>4, WordAt
<1> QED
  BY <1>1, <1>3, <1>5

\* A word state ends its field where the field ends.
LEMMA WordEnds ==
  ASSUME NEW g \in FieldType, NEW o, o = End(g)
  PROVE  [pos |-> g.pos, len |-> o - g.pos] = g
<1>1. o - g.pos = g.len
  BY DEF FieldType, End
<1> QED
  BY <1>1, FieldIs

\* Where the line begins.
LEMMA StatusStartReads ==
  ASSUME Typed(rtsp), NEW m, FirstLineFormed(m), StatusAt(rtsp, m), rtsp.stateM = "STATUS_START",
         LineTurn("STATUS_START", At(m, rtsp.offset))
  PROVE  StatusAt(rtsp', m) /\ rtsp'.stateM \in StatusState
<1>0. PICK l, o : l = m.layout /\ o = rtsp.offset
  OBVIOUS
<1>1. /\ FirstPlaces(m, l) /\ o \in Nat
      /\ At(m, 0) # SP /\ At(m, l.second.pos) # SP /\ At(m, l.third.pos) # SP
  BY <1>0, FirstLinePlaces DEF Typed
<1>2. o = 0
  BY <1>0 DEF StatusAt
<1>3. Begun("STATUS_VERSION", "name")
  BY <1>0, <1>1, <1>2, StatusStartTurn
<1>4. Turned("STATUS_VERSION", 0, {"name"}) /\ rtsp'.name.pos = o
  BY <1>0, <1>3 DEF Begun
<1>5. rtsp'.stateM = "STATUS_VERSION" /\ rtsp'.offset = o
  BY <1>0, <1>1, <1>4 DEF Turned
<1>6. rtsp'.offset <= End(l.first)
  BY <1>1, <1>2, <1>5 DEF FirstPlaces
<1> QED
  BY <1>0, <1>2, <1>4, <1>5, <1>6 DEF StatusAt, StatusState

\* Over a word.
LEMMA StatusVersionReads ==
  ASSUME Typed(rtsp), NEW m, FirstLineFormed(m), StatusAt(rtsp, m), rtsp.stateM = "STATUS_VERSION",
         LineTurn("STATUS_VERSION", At(m, rtsp.offset))
  PROVE  StatusAt(rtsp', m) /\ rtsp'.stateM \in StatusState
<1>0. PICK l, o : l = m.layout /\ o = rtsp.offset
  OBVIOUS
<1>1. /\ FirstPlaces(m, l) /\ o \in Nat
      /\ At(m, 0) # SP /\ At(m, l.second.pos) # SP /\ At(m, l.third.pos) # SP
  BY <1>0, FirstLinePlaces DEF Typed
<1>2. rtsp.name.pos = l.first.pos /\ l.first.pos <= o /\ o <= End(l.first)
  BY <1>0, <1>1 DEF StatusAt, FirstPlaces
<1>3. Word(m, l.first) /\ Blank(m, End(l.first), l.second.pos) /\ l.second.pos \in Nat
  BY <1>0, <1>1 DEF FirstLineFormed, FirstPlaces, FieldType
<1>4. /\ At(m, o) \in {SP, CR, LF} => o = End(l.first)
      /\ At(m, o) \notin {SP, CR, LF} => o < End(l.first)
  BY <1>0, <1>1, <1>2, <1>3, ScanWord DEF FirstPlaces
<1>5. \/ o = End(l.first) /\ Ended("STATUS_SP1", "name")
      \/ o < End(l.first) /\ Turned("STATUS_VERSION", 1, {})
  BY <1>0, <1>4, StatusVersionTurn
<1>6. o = End(l.first) => [pos |-> l.first.pos, len |-> o - l.first.pos] = l.first
  BY <1>0, <1>1, WordEnds DEF FirstPlaces
<1>7. Ended("STATUS_SP1", "name") /\ o = End(l.first) => rtsp'.name = l.first
  BY <1>0, <1>2, <1>6 DEF Ended
<1> QED
  BY <1>0, <1>1, <1>2, <1>5, <1>7 DEF StatusAt, FirstPlaces, Turned, Begun, Ended, StatusState, FieldType

\* Over blanks.
LEMMA StatusSp1Reads ==
  ASSUME Typed(rtsp), NEW m, FirstLineFormed(m), StatusAt(rtsp, m), rtsp.stateM = "STATUS_SP1",
         LineTurn("STATUS_SP1", At(m, rtsp.offset))
  PROVE  StatusAt(rtsp', m) /\ rtsp'.stateM \in StatusState
<1>0. PICK l, o : l = m.layout /\ o = rtsp.offset
  OBVIOUS
<1>1. /\ FirstPlaces(m, l) /\ o \in Nat
      /\ At(m, 0) # SP /\ At(m, l.second.pos) # SP /\ At(m, l.third.pos) # SP
  BY <1>0, FirstLinePlaces DEF Typed
<1>2. End(l.first) <= o /\ o <= l.second.pos
  BY <1>0 DEF StatusAt
<1>3. Blank(m, End(l.first), l.second.pos) /\ l.second.pos \in Nat /\ End(l.first) \in Nat
  BY <1>0, <1>1 DEF FirstLineFormed, FirstPlaces, FieldType
<1>4. /\ At(m, o) = SP => o < l.second.pos
      /\ At(m, o) # SP => o = l.second.pos
  BY <1>0, <1>1, <1>2, <1>3, ScanBlank
<1>5. \/ o < l.second.pos /\ Turned("STATUS_SP1", 1, {})
      \/ o = l.second.pos /\ Begun("STATUS_CODE", "value")
  BY <1>0, <1>4, StatusSp1Turn
<1> QED
  BY <1>0, <1>1, <1>2, <1>5 DEF StatusAt, FirstPlaces, Turned, Begun, Ended, StatusState, FieldType

\* Over a word.
LEMMA StatusCodeReads ==
  ASSUME Typed(rtsp), NEW m, FirstLineFormed(m), StatusAt(rtsp, m), rtsp.stateM = "STATUS_CODE",
         LineTurn("STATUS_CODE", At(m, rtsp.offset))
  PROVE  StatusAt(rtsp', m) /\ rtsp'.stateM \in StatusState
<1>0. PICK l, o : l = m.layout /\ o = rtsp.offset
  OBVIOUS
<1>1. /\ FirstPlaces(m, l) /\ o \in Nat
      /\ At(m, 0) # SP /\ At(m, l.second.pos) # SP /\ At(m, l.third.pos) # SP
  BY <1>0, FirstLinePlaces DEF Typed
<1>2. rtsp.value.pos = l.second.pos /\ l.second.pos <= o /\ o <= End(l.second)
  BY <1>0, <1>1 DEF StatusAt, FirstPlaces
<1>3. Word(m, l.second) /\ Blank(m, End(l.second), l.third.pos) /\ l.third.pos \in Nat
  BY <1>0, <1>1 DEF FirstLineFormed, FirstPlaces, FieldType
<1>4. /\ At(m, o) \in {SP, CR, LF} => o = End(l.second)
      /\ At(m, o) \notin {SP, CR, LF} => o < End(l.second)
  BY <1>0, <1>1, <1>2, <1>3, ScanWord DEF FirstPlaces
<1>5. \/ o = End(l.second) /\ Ended("STATUS_SP2", "value")
      \/ o < End(l.second) /\ Turned("STATUS_CODE", 1, {})
  BY <1>0, <1>4, StatusCodeTurn
<1>6. o = End(l.second) => [pos |-> l.second.pos, len |-> o - l.second.pos] = l.second
  BY <1>0, <1>1, WordEnds DEF FirstPlaces
<1>7. Ended("STATUS_SP2", "value") /\ o = End(l.second) => rtsp'.value = l.second
  BY <1>0, <1>2, <1>6 DEF Ended
<1> QED
  BY <1>0, <1>1, <1>2, <1>5, <1>7 DEF StatusAt, FirstPlaces, Turned, Begun, Ended, StatusState, FieldType

\* Over blanks.
LEMMA StatusSp2Reads ==
  ASSUME Typed(rtsp), NEW m, FirstLineFormed(m), StatusAt(rtsp, m), rtsp.stateM = "STATUS_SP2",
         LineTurn("STATUS_SP2", At(m, rtsp.offset))
  PROVE  StatusAt(rtsp', m) /\ rtsp'.stateM \in StatusState
<1>0. PICK l, o : l = m.layout /\ o = rtsp.offset
  OBVIOUS
<1>1. /\ FirstPlaces(m, l) /\ o \in Nat
      /\ At(m, 0) # SP /\ At(m, l.second.pos) # SP /\ At(m, l.third.pos) # SP
  BY <1>0, FirstLinePlaces DEF Typed
<1>2. End(l.second) <= o /\ o <= l.third.pos
  BY <1>0 DEF StatusAt
<1>3. Blank(m, End(l.second), l.third.pos) /\ l.third.pos \in Nat /\ End(l.second) \in Nat
  BY <1>0, <1>1 DEF FirstLineFormed, FirstPlaces, FieldType
<1>4. /\ At(m, o) = SP => o < l.third.pos
      /\ At(m, o) # SP => o = l.third.pos
  BY <1>0, <1>1, <1>2, <1>3, ScanBlank
<1>5. \/ o < l.third.pos /\ Turned("STATUS_SP2", 1, {})
      \/ o = l.third.pos /\ Begun("STATUS_REASON", "reason")
  BY <1>0, <1>4, StatusSp2Turn
<1> QED
  BY <1>0, <1>1, <1>2, <1>5 DEF StatusAt, FirstPlaces, Turned, Begun, Ended, StatusState, FieldType

\* Over a word of the last field.
LEMMA StatusReasonReads ==
  ASSUME Typed(rtsp), NEW m, FirstLineFormed(m), StatusAt(rtsp, m), rtsp.stateM = "STATUS_REASON",
         LineTurn("STATUS_REASON", At(m, rtsp.offset))
  PROVE  StatusAt(rtsp', m) /\ rtsp'.stateM \in StatusState
<1>0. PICK l, o : l = m.layout /\ o = rtsp.offset
  OBVIOUS
<1>1. /\ FirstPlaces(m, l) /\ o \in Nat
      /\ At(m, 0) # SP /\ At(m, l.second.pos) # SP /\ At(m, l.third.pos) # SP
  BY <1>0, FirstLinePlaces DEF Typed
<1>2. rtsp.reason.pos = l.third.pos /\ l.third.pos <= o /\ o <= End(l.third)
  BY <1>0 DEF StatusAt
<1>3. /\ Phrase(m, l.third, l.end) /\ LineEnd(m, l.end, Start(m, 1)) /\ l.end \in Nat
  BY <1>0 DEF FirstLineFormed
<1>4. /\ At(m, o) \in {SP, CR, LF} =>
           Trailing(m, [pos |-> l.third.pos, len |-> o - l.third.pos], l.third, l.end, o)
      /\ At(m, o) \notin {SP, CR, LF} => o < End(l.third)
  BY <1>0, <1>1, <1>2, <1>3, ScanPhrase
<1>5. \/ /\ Trailing(m, [pos |-> l.third.pos, len |-> o - l.third.pos], l.third, l.end, o)
         /\ Ended("STATUS_SP3", "reason")
      \/ o < End(l.third) /\ Turned("STATUS_REASON", 1, {})
  BY <1>0, <1>4, StatusReasonTurn
<1>6. Ended("STATUS_SP3", "reason") => rtsp'.reason = [pos |-> l.third.pos, len |-> o - l.third.pos]
  BY <1>0, <1>2 DEF Ended
<1>7. Ended("STATUS_SP3", "reason") => rtsp'.offset = o
  BY <1>0, <1>1 DEF Ended, Turned
<1>8. \/ Ended("STATUS_SP3", "reason") /\ Trailing(m, rtsp'.reason, l.third, l.end, rtsp'.offset)
      \/ o < End(l.third) /\ Turned("STATUS_REASON", 1, {})
  BY ONLY <1>5, <1>6, <1>7
<1> QED
  BY <1>0, <1>1, <1>2, <1>8 DEF StatusAt, FirstPlaces, Turned, Begun, Ended, StatusState, FieldType

\* Behind a word of the last field.
LEMMA StatusSp3Reads ==
  ASSUME Typed(rtsp), NEW m, FirstLineFormed(m), StatusAt(rtsp, m), rtsp.stateM = "STATUS_SP3",
         LineTurn("STATUS_SP3", At(m, rtsp.offset))
  PROVE  StatusAt(rtsp', m) /\ rtsp'.stateM \in StatusState
<1>0. PICK l, o : l = m.layout /\ o = rtsp.offset
  OBVIOUS
<1>1. /\ FirstPlaces(m, l) /\ o \in Nat
      /\ At(m, 0) # SP /\ At(m, l.second.pos) # SP /\ At(m, l.third.pos) # SP
  BY <1>0, FirstLinePlaces DEF Typed
<1>2. Trailing(m, rtsp.reason, l.third, l.end, o) /\ rtsp.reason \in FieldType
  BY <1>0 DEF StatusAt, Typed
<1>3. /\ Phrase(m, l.third, l.end) /\ LineEnd(m, l.end, Start(m, 1)) /\ l.end \in Nat
  BY <1>0 DEF FirstLineFormed
<1>4. End(rtsp.reason) <= o
  BY <1>0, <1>2 DEF Trailing, Blank
<1>5. /\ At(m, o) = SP => Trailing(m, rtsp.reason, l.third, l.end, o + 1)
      /\ At(m, o) \in {CR, LF} => rtsp.reason = l.third /\ o = l.end
      /\ At(m, o) \notin {SP, CR, LF} => o < End(l.third) /\ l.third.pos <= o
  <2>1. PICK f : f = rtsp.reason
    OBVIOUS
  <2>2. f \in FieldType /\ End(f) <= o /\ Trailing(m, f, l.third, l.end, o)
    BY ONLY <2>1, <1>2, <1>4
  <2>3. /\ At(m, o) = SP => Trailing(m, f, l.third, l.end, o + 1)
        /\ At(m, o) \in {CR, LF} => f = l.third /\ o = l.end
        /\ At(m, o) \notin {SP, CR, LF} => o < End(l.third) /\ l.third.pos <= o
    BY ONLY <2>2, <1>1, <1>3, ScanTrailing
  <2> QED
    BY ONLY <2>1, <2>3
<1>6. /\ At(m, l.end) = CR => Start(m, 1) = l.end + 2
      /\ At(m, l.end) = LF => Start(m, 1) = l.end + 1
  BY <1>0, <1>3, LineEndAt
<1>7. \/ Trailing(m, rtsp.reason, l.third, l.end, o + 1) /\ Turned("STATUS_SP3", 1, {})
      \/ rtsp.reason = l.third /\ o + 1 = Start(m, 1) - 1 /\ Turned("STATUS_CR", 1, {})
      \/ rtsp.reason = l.third /\ o = Start(m, 1) - 1 /\ Turned("STATUS_LF", 0, {})
      \/ o < End(l.third) /\ l.third.pos <= o /\ Turned("STATUS_REASON", 1, {})
  BY <1>0, <1>1, <1>5, <1>6, StatusSp3Turn
<1>8. rtsp.reason.pos = l.third.pos
  BY <1>0, <1>2 DEF Trailing
<1> QED
  BY <1>0, <1>1, <1>7, <1>8 DEF StatusAt, FirstPlaces, Turned, Begun, Ended, StatusState, FieldType

\* Where the line begins.
LEMMA RequestStartReads ==
  ASSUME Typed(rtsp), NEW m, FirstLineFormed(m), RequestAt(rtsp, m), rtsp.stateM = "REQUEST_START",
         LineTurn("REQUEST_START", At(m, rtsp.offset))
  PROVE  RequestAt(rtsp', m) /\ rtsp'.stateM \in RequestState
<1>0. PICK l, o : l = m.layout /\ o = rtsp.offset
  OBVIOUS
<1>1. /\ FirstPlaces(m, l) /\ o \in Nat
      /\ At(m, 0) # SP /\ At(m, l.second.pos) # SP /\ At(m, l.third.pos) # SP
  BY <1>0, FirstLinePlaces DEF Typed
<1>2. o = 0
  BY <1>0 DEF RequestAt
<1>3. Begun("REQUEST_METHOD", "method")
  BY <1>0, <1>1, <1>2, RequestStartTurn
<1>4. Turned("REQUEST_METHOD", 0, {"method"}) /\ rtsp'.method.pos = o
  BY <1>0, <1>3 DEF Begun
<1>5. rtsp'.stateM = "REQUEST_METHOD" /\ rtsp'.offset = o
  BY <1>0, <1>1, <1>4 DEF Turned
<1>6. rtsp'.offset <= End(l.first)
  BY <1>1, <1>2, <1>5 DEF FirstPlaces
<1> QED
  BY <1>0, <1>2, <1>4, <1>5, <1>6 DEF RequestAt, RequestState

\* Over a word.
LEMMA RequestMethodReads ==
  ASSUME Typed(rtsp), NEW m, FirstLineFormed(m), RequestAt(rtsp, m), rtsp.stateM = "REQUEST_METHOD",
         LineTurn("REQUEST_METHOD", At(m, rtsp.offset))
  PROVE  RequestAt(rtsp', m) /\ rtsp'.stateM \in RequestState
<1>0. PICK l, o : l = m.layout /\ o = rtsp.offset
  OBVIOUS
<1>1. /\ FirstPlaces(m, l) /\ o \in Nat
      /\ At(m, 0) # SP /\ At(m, l.second.pos) # SP /\ At(m, l.third.pos) # SP
  BY <1>0, FirstLinePlaces DEF Typed
<1>2. rtsp.method.pos = l.first.pos /\ l.first.pos <= o /\ o <= End(l.first)
  BY <1>0, <1>1 DEF RequestAt, FirstPlaces
<1>3. Word(m, l.first) /\ Blank(m, End(l.first), l.second.pos) /\ l.second.pos \in Nat
  BY <1>0, <1>1 DEF FirstLineFormed, FirstPlaces, FieldType
<1>4. /\ At(m, o) \in {SP, CR, LF} => o = End(l.first)
      /\ At(m, o) \notin {SP, CR, LF} => o < End(l.first)
  BY <1>0, <1>1, <1>2, <1>3, ScanWord DEF FirstPlaces
<1>5. \/ o = End(l.first) /\ Ended("REQUEST_SP1", "method")
      \/ o < End(l.first) /\ Turned("REQUEST_METHOD", 1, {})
  BY <1>0, <1>4, RequestMethodTurn
<1>6. o = End(l.first) => [pos |-> l.first.pos, len |-> o - l.first.pos] = l.first
  BY <1>0, <1>1, WordEnds DEF FirstPlaces
<1>7. Ended("REQUEST_SP1", "method") /\ o = End(l.first) => rtsp'.method = l.first
  BY <1>0, <1>2, <1>6 DEF Ended
<1> QED
  BY <1>0, <1>1, <1>2, <1>5, <1>7 DEF RequestAt, FirstPlaces, Turned, Begun, Ended, RequestState, FieldType

\* Over blanks.
LEMMA RequestSp1Reads ==
  ASSUME Typed(rtsp), NEW m, FirstLineFormed(m), RequestAt(rtsp, m), rtsp.stateM = "REQUEST_SP1",
         LineTurn("REQUEST_SP1", At(m, rtsp.offset))
  PROVE  RequestAt(rtsp', m) /\ rtsp'.stateM \in RequestState
<1>0. PICK l, o : l = m.layout /\ o = rtsp.offset
  OBVIOUS
<1>1. /\ FirstPlaces(m, l) /\ o \in Nat
      /\ At(m, 0) # SP /\ At(m, l.second.pos) # SP /\ At(m, l.third.pos) # SP
  BY <1>0, FirstLinePlaces DEF Typed
<1>2. End(l.first) <= o /\ o <= l.second.pos
  BY <1>0 DEF RequestAt
<1>3. Blank(m, End(l.first), l.second.pos) /\ l.second.pos \in Nat /\ End(l.first) \in Nat
  BY <1>0, <1>1 DEF FirstLineFormed, FirstPlaces, FieldType
<1>4. /\ At(m, o) = SP => o < l.second.pos
      /\ At(m, o) # SP => o = l.second.pos
  BY <1>0, <1>1, <1>2, <1>3, ScanBlank
<1>5. \/ o < l.second.pos /\ Turned("REQUEST_SP1", 1, {})
      \/ o = l.second.pos /\ Begun("REQUEST_URI", "uri")
  BY <1>0, <1>4, RequestSp1Turn
<1> QED
  BY <1>0, <1>1, <1>2, <1>5 DEF RequestAt, FirstPlaces, Turned, Begun, Ended, RequestState, FieldType

\* Over a word.
LEMMA RequestUriReads ==
  ASSUME Typed(rtsp), NEW m, FirstLineFormed(m), RequestAt(rtsp, m), rtsp.stateM = "REQUEST_URI",
         LineTurn("REQUEST_URI", At(m, rtsp.offset))
  PROVE  RequestAt(rtsp', m) /\ rtsp'.stateM \in RequestState
<1>0. PICK l, o : l = m.layout /\ o = rtsp.offset
  OBVIOUS
<1>1. /\ FirstPlaces(m, l) /\ o \in Nat
      /\ At(m, 0) # SP /\ At(m, l.second.pos) # SP /\ At(m, l.third.pos) # SP
  BY <1>0, FirstLinePlaces DEF Typed
<1>2. rtsp.uri.pos = l.second.pos /\ l.second.pos <= o /\ o <= End(l.second)
  BY <1>0, <1>1 DEF RequestAt, FirstPlaces
<1>3. Word(m, l.second) /\ Blank(m, End(l.second), l.third.pos) /\ l.third.pos \in Nat
  BY <1>0, <1>1 DEF FirstLineFormed, FirstPlaces, FieldType
<1>4. /\ At(m, o) \in {SP, CR, LF} => o = End(l.second)
      /\ At(m, o) \notin {SP, CR, LF} => o < End(l.second)
  BY <1>0, <1>1, <1>2, <1>3, ScanWord DEF FirstPlaces
<1>5. \/ o = End(l.second) /\ Ended("REQUEST_SP2", "uri")
      \/ o < End(l.second) /\ Turned("REQUEST_URI", 1, {})
  BY <1>0, <1>4, RequestUriTurn
<1>6. o = End(l.second) => [pos |-> l.second.pos, len |-> o - l.second.pos] = l.second
  BY <1>0, <1>1, WordEnds DEF FirstPlaces
<1>7. Ended("REQUEST_SP2", "uri") /\ o = End(l.second) => rtsp'.uri = l.second
  BY <1>0, <1>2, <1>6 DEF Ended
<1> QED
  BY <1>0, <1>1, <1>2, <1>5, <1>7 DEF RequestAt, FirstPlaces, Turned, Begun, Ended, RequestState, FieldType

\* Over blanks.
LEMMA RequestSp2Reads ==
  ASSUME Typed(rtsp), NEW m, FirstLineFormed(m), RequestAt(rtsp, m), rtsp.stateM = "REQUEST_SP2",
         LineTurn("REQUEST_SP2", At(m, rtsp.offset))
  PROVE  RequestAt(rtsp', m) /\ rtsp'.stateM \in RequestState
<1>0. PICK l, o : l = m.layout /\ o = rtsp.offset
  OBVIOUS
<1>1. /\ FirstPlaces(m, l) /\ o \in Nat
      /\ At(m, 0) # SP /\ At(m, l.second.pos) # SP /\ At(m, l.third.pos) # SP
  BY <1>0, FirstLinePlaces DEF Typed
<1>2. End(l.second) <= o /\ o <= l.third.pos
  BY <1>0 DEF RequestAt
<1>3. Blank(m, End(l.second), l.third.pos) /\ l.third.pos \in Nat /\ End(l.second) \in Nat
  BY <1>0, <1>1 DEF FirstLineFormed, FirstPlaces, FieldType
<1>4. /\ At(m, o) = SP => o < l.third.pos
      /\ At(m, o) # SP => o = l.third.pos
  BY <1>0, <1>1, <1>2, <1>3, ScanBlank
<1>5. \/ o < l.third.pos /\ Turned("REQUEST_SP2", 1, {})
      \/ o = l.third.pos /\ Begun("REQUEST_VERSION", "name")
  BY <1>0, <1>4, RequestSp2Turn
<1> QED
  BY <1>0, <1>1, <1>2, <1>5 DEF RequestAt, FirstPlaces, Turned, Begun, Ended, RequestState, FieldType

\* Over a word of the last field.
LEMMA RequestVersionReads ==
  ASSUME Typed(rtsp), NEW m, FirstLineFormed(m), RequestAt(rtsp, m), rtsp.stateM = "REQUEST_VERSION",
         LineTurn("REQUEST_VERSION", At(m, rtsp.offset))
  PROVE  RequestAt(rtsp', m) /\ rtsp'.stateM \in RequestState
<1>0. PICK l, o : l = m.layout /\ o = rtsp.offset
  OBVIOUS
<1>1. /\ FirstPlaces(m, l) /\ o \in Nat
      /\ At(m, 0) # SP /\ At(m, l.second.pos) # SP /\ At(m, l.third.pos) # SP
  BY <1>0, FirstLinePlaces DEF Typed
<1>2. rtsp.name.pos = l.third.pos /\ l.third.pos <= o /\ o <= End(l.third)
  BY <1>0 DEF RequestAt
<1>3. /\ Phrase(m, l.third, l.end) /\ LineEnd(m, l.end, Start(m, 1)) /\ l.end \in Nat
  BY <1>0 DEF FirstLineFormed
<1>4. /\ At(m, o) \in {SP, CR, LF} =>
           Trailing(m, [pos |-> l.third.pos, len |-> o - l.third.pos], l.third, l.end, o)
      /\ At(m, o) \notin {SP, CR, LF} => o < End(l.third)
  BY <1>0, <1>1, <1>2, <1>3, ScanPhrase
<1>5. \/ /\ Trailing(m, [pos |-> l.third.pos, len |-> o - l.third.pos], l.third, l.end, o)
         /\ Ended("REQUEST_SP3", "name")
      \/ o < End(l.third) /\ Turned("REQUEST_VERSION", 1, {})
  BY <1>0, <1>4, RequestVersionTurn
<1>6. Ended("REQUEST_SP3", "name") => rtsp'.name = [pos |-> l.third.pos, len |-> o - l.third.pos]
  BY <1>0, <1>2 DEF Ended
<1>7. Ended("REQUEST_SP3", "name") => rtsp'.offset = o
  BY <1>0, <1>1 DEF Ended, Turned
<1>8. \/ Ended("REQUEST_SP3", "name") /\ Trailing(m, rtsp'.name, l.third, l.end, rtsp'.offset)
      \/ o < End(l.third) /\ Turned("REQUEST_VERSION", 1, {})
  BY ONLY <1>5, <1>6, <1>7
<1> QED
  BY <1>0, <1>1, <1>2, <1>8 DEF RequestAt, FirstPlaces, Turned, Begun, Ended, RequestState, FieldType

\* Behind a word of the last field.
LEMMA RequestSp3Reads ==
  ASSUME Typed(rtsp), NEW m, FirstLineFormed(m), RequestAt(rtsp, m), rtsp.stateM = "REQUEST_SP3",
         LineTurn("REQUEST_SP3", At(m, rtsp.offset))
  PROVE  RequestAt(rtsp', m) /\ rtsp'.stateM \in RequestState
<1>0. PICK l, o : l = m.layout /\ o = rtsp.offset
  OBVIOUS
<1>1. /\ FirstPlaces(m, l) /\ o \in Nat
      /\ At(m, 0) # SP /\ At(m, l.second.pos) # SP /\ At(m, l.third.pos) # SP
  BY <1>0, FirstLinePlaces DEF Typed
<1>2. Trailing(m, rtsp.name, l.third, l.end, o) /\ rtsp.name \in FieldType
  BY <1>0 DEF RequestAt, Typed
<1>3. /\ Phrase(m, l.third, l.end) /\ LineEnd(m, l.end, Start(m, 1)) /\ l.end \in Nat
  BY <1>0 DEF FirstLineFormed
<1>4. End(rtsp.name) <= o
  BY <1>0, <1>2 DEF Trailing, Blank
<1>5. /\ At(m, o) = SP => Trailing(m, rtsp.name, l.third, l.end, o + 1)
      /\ At(m, o) \in {CR, LF} => rtsp.name = l.third /\ o = l.end
      /\ At(m, o) \notin {SP, CR, LF} => o < End(l.third) /\ l.third.pos <= o
  <2>1. PICK f : f = rtsp.name
    OBVIOUS
  <2>2. f \in FieldType /\ End(f) <= o /\ Trailing(m, f, l.third, l.end, o)
    BY ONLY <2>1, <1>2, <1>4
  <2>3. /\ At(m, o) = SP => Trailing(m, f, l.third, l.end, o + 1)
        /\ At(m, o) \in {CR, LF} => f = l.third /\ o = l.end
        /\ At(m, o) \notin {SP, CR, LF} => o < End(l.third) /\ l.third.pos <= o
    BY ONLY <2>2, <1>1, <1>3, ScanTrailing
  <2> QED
    BY ONLY <2>1, <2>3
<1>6. /\ At(m, l.end) = CR => Start(m, 1) = l.end + 2
      /\ At(m, l.end) = LF => Start(m, 1) = l.end + 1
  BY <1>0, <1>3, LineEndAt
<1>7. \/ Trailing(m, rtsp.name, l.third, l.end, o + 1) /\ Turned("REQUEST_SP3", 1, {})
      \/ rtsp.name = l.third /\ o + 1 = Start(m, 1) - 1 /\ Turned("REQUEST_CR", 1, {})
      \/ rtsp.name = l.third /\ o = Start(m, 1) - 1 /\ Turned("REQUEST_LF", 0, {})
      \/ o < End(l.third) /\ l.third.pos <= o /\ Turned("REQUEST_VERSION", 1, {})
  BY <1>0, <1>1, <1>5, <1>6, RequestSp3Turn
<1>8. rtsp.name.pos = l.third.pos
  BY <1>0, <1>2 DEF Trailing
<1> QED
  BY <1>0, <1>1, <1>7, <1>8 DEF RequestAt, FirstPlaces, Turned, Begun, Ended, RequestState, FieldType

-----------------------------------------------------------------------------
(* The first line as a whole.                                                *)

\* Behind what has been read the parser sees the message.
LEMMA UnreadChar ==
  ASSUME NEW r, NEW m, NEW i \in Nat, Unread(r, m, i), NEW o \in Nat, i <= o, o < Len(r.raw),
         Len(r.raw) \in Nat
  PROVE  Char(r, o) = At(m, o)
<1>1. o + 1 \in 1..Len(r.raw) /\ o + 1 > i
  OBVIOUS
<1>2. r.raw[o + 1] = m.text[o + 1]
  BY <1>1 DEF Unread
<1> QED
  BY <1>2 DEF Char, At

\* What has not been read stays so.
LEMMA UnreadLater ==
  ASSUME NEW r, NEW m, NEW i \in Nat, Unread(r, m, i), NEW q, q.raw = r.raw, NEW j \in Nat, i <= j,
         Len(r.raw) \in Nat
  PROVE  Unread(q, m, j)
BY DEF Unread

\* A stored text's length.
LEMMA RawLen ==
  ASSUME NEW r, Typed(r)
  PROVE  Len(r.raw) \in Nat /\ r.offset \in Nat /\ r.chunk.offset \in Nat
BY DEF Typed, ChunkType

\* A turn of the status line's loop, in any of its states.
LEMMA StatusLineReads ==
  ASSUME Typed(rtsp), NEW m, FirstLineFormed(m), StatusAt(rtsp, m), rtsp.stateM \in StatusState,
         LineTurn(rtsp.stateM, At(m, rtsp.offset))
  PROVE  StatusAt(rtsp', m) /\ rtsp'.stateM \in StatusState
<1>1. rtsp.stateM \in SkipStates \cup RestStates \cup DOMAIN Field
  BY DEF LineTurn
<1>2. rtsp.stateM \in {"STATUS_START", "STATUS_VERSION", "STATUS_SP1", "STATUS_CODE", "STATUS_SP2",
                       "STATUS_REASON", "STATUS_SP3"}
  BY <1>1 DEF SkipStates, RestStates, Field, StatusState
<1> QED
  BY <1>2, StatusStartReads, StatusVersionReads, StatusSp1Reads, StatusCodeReads, StatusSp2Reads,
     StatusReasonReads, StatusSp3Reads

\* The same for the request line.
LEMMA RequestLineReads ==
  ASSUME Typed(rtsp), NEW m, FirstLineFormed(m), RequestAt(rtsp, m), rtsp.stateM \in RequestState,
         LineTurn(rtsp.stateM, At(m, rtsp.offset))
  PROVE  RequestAt(rtsp', m) /\ rtsp'.stateM \in RequestState
<1>1. rtsp.stateM \in SkipStates \cup RestStates \cup DOMAIN Field
  BY DEF LineTurn
<1>2. rtsp.stateM \in {"REQUEST_START", "REQUEST_METHOD", "REQUEST_SP1", "REQUEST_URI",
                       "REQUEST_SP2", "REQUEST_VERSION", "REQUEST_SP3"}
  BY <1>1 DEF SkipStates, RestStates, Field, RequestState
<1> QED
  BY <1>2, RequestStartReads, RequestMethodReads, RequestSp1Reads, RequestUriReads,
     RequestSp2Reads, RequestVersionReads, RequestSp3Reads

\* Each line has its own states.
LEMMA OtherLine ==
  ASSUME NEW r, NEW m
  PROVE  /\ r.stateM \in StatusState => RequestAt(r, m)
         /\ r.stateM \in RequestState => StatusAt(r, m)
<1>1. r.stateM \in StatusState => RequestAt(r, m)
  BY DEF StatusState, RequestAt
<1>2. r.stateM \in RequestState => StatusAt(r, m)
  BY DEF RequestState, StatusAt
<1> QED
  BY <1>1, <1>2

\* What the first line's loop leaves of the rest of the parser.
LEMMA FirstRest ==
  ASSUME Typed(rtsp), NEW m, FirstReading(rtsp, m), SameRest, rtsp'.stateM \in LineState,
         StatusAt(rtsp', m), RequestAt(rtsp', m)
  PROVE  FirstReading(rtsp', m)
<1>1. Unread(rtsp', m, 0)
  BY UnreadLater, RawLen DEF FirstReading, SameRest
<1> QED
  BY <1>1 DEF FirstReading, SameRest

\* A turn of the first line's loop.
LEMMA FirstTurnReads ==
  ASSUME Typed(rtsp), NEW m, FirstLineFormed(m), FirstReading(rtsp, m), SameRest,
         rtsp.offset < Len(rtsp.raw), LineTurn(rtsp.stateM, Char(rtsp, rtsp.offset))
  PROVE  FirstReading(rtsp', m)
<1>1. Char(rtsp, rtsp.offset) = At(m, rtsp.offset)
  BY UnreadChar, RawLen DEF FirstReading
<1>2. rtsp.stateM \in LineState /\ StatusAt(rtsp, m) /\ RequestAt(rtsp, m)
  BY DEF FirstReading
<1>3. CASE rtsp.stateM \in StatusState
  BY <1>1, <1>2, <1>3, StatusLineReads, FirstRest, OtherLine DEF LineState
<1>4. CASE rtsp.stateM \in RequestState
  BY <1>1, <1>2, <1>4, RequestLineReads, FirstRest, OtherLine DEF LineState
<1> QED
  BY <1>2, <1>3, <1>4 DEF LineState

\* The line feed behind the carriage return.
LEMMA FirstCrReads ==
  ASSUME Typed(rtsp), NEW m, FirstLineFormed(m), FirstReading(rtsp, m),
         rtsp.offset < Len(rtsp.raw), LineCr(rtsp.stateM, Char(rtsp, rtsp.offset))
  PROVE  FirstReading(rtsp', m) /\ ret' = "running"
<1>1. Char(rtsp, rtsp.offset) = At(m, rtsp.offset)
  BY UnreadChar, RawLen DEF FirstReading
<1>2. rtsp.stateM \in {"STATUS_CR", "REQUEST_CR"}
  BY DEF FirstReading, LineCr, CrStates, LineState, StatusState, RequestState
<1>3. rtsp.offset = Start(m, 1) - 1
  BY <1>2 DEF FirstReading, StatusAt, RequestAt
<1>4. At(m, Start(m, 1) - 1) = LF
  BY LineEndAt DEF FirstLineFormed
<1>5. rtsp' = Move(NextState[rtsp.stateM], 0) /\ ret' = "running"
  BY <1>1, <1>3, <1>4 DEF LineCr, Checked
<1>6. Turned(NextState[rtsp.stateM], 0, {})
  BY <1>5, MoveTurns
<1>7. rtsp.offset \in Nat
  BY RawLen
<1>8. CASE rtsp.stateM = "STATUS_CR"
  <2>1. Turned("STATUS_LF", 0, {})
    BY <1>6, <1>8 DEF NextState
  <2>2. StatusAt(rtsp', m) /\ rtsp'.stateM \in StatusState
    BY <2>1, <1>7, <1>8 DEF FirstReading, StatusAt, Turned, StatusState
  <2>3. RequestAt(rtsp', m) /\ rtsp'.stateM \in LineState
    BY <2>2, OtherLine DEF LineState
  <2> QED
    BY ONLY <1>5, <2>3, <2>2, <2>1, Typed(rtsp), FirstReading(rtsp, m), FirstRest DEF Turned
<1>9. CASE rtsp.stateM = "REQUEST_CR"
  <2>1. Turned("REQUEST_LF", 0, {})
    BY <1>6, <1>9 DEF NextState
  <2>2. RequestAt(rtsp', m) /\ rtsp'.stateM \in RequestState
    BY <2>1, <1>7, <1>9 DEF FirstReading, RequestAt, Turned, RequestState
  <2>3. StatusAt(rtsp', m) /\ rtsp'.stateM \in LineState
    BY <2>2, OtherLine DEF LineState
  <2> QED
    BY ONLY <1>5, <2>3, <2>2, <2>1, Typed(rtsp), FirstReading(rtsp, m), FirstRest DEF Turned
<1> QED
  BY <1>2, <1>5, <1>8, <1>9

-----------------------------------------------------------------------------
(* The end of the first line.                                                *)

\* A text with two tokens replaced by NULs, seen from between and behind them.
NulsAt(raw, s, i, j) ==
  /\ Len(raw) = Len(s)
  /\ \A k \in 1..Len(raw) : raw[k] = IF k \in {i + 1, j + 1} THEN NUL ELSE s[k]

\* What lies behind both is untouched.
LEMMA NulsUnread ==
  ASSUME NEW r, NEW m, NEW u \in Nat, Unread(r, m, u), NEW q, NEW i \in Nat, NEW j \in Nat,
         NulsAt(q.raw, r.raw, i, j), NEW o \in Nat, i < o, j < o, u <= o, Len(r.raw) \in Nat
  PROVE  Unread(q, m, o)
BY DEF Unread, NulsAt

\* A field with a NUL behind it has become a string.
LEMMA NulsKeep ==
  ASSUME NEW r, NEW m, NEW u \in Nat, Unread(r, m, u), NEW q, NEW i \in Nat, NEW j \in Nat,
         NulsAt(q.raw, r.raw, i, j), NEW f \in FieldType, u <= f.pos, End(f) \in {i, j},
         i < f.pos \/ End(f) <= i, j < f.pos \/ End(f) <= j, End(f) < Len(r.raw),
         Len(r.raw) \in Nat
  PROVE  Intact(q, m, f)
<1>1. f.pos \in Nat /\ End(f) \in Nat /\ f.pos <= End(f)
  BY FieldIs
<1>2. \A k \in (f.pos + 1)..End(f) : q.raw[k] = m.text[k]
  BY <1>1 DEF Unread, NulsAt
<1>3. End(f) + 1 \in 1..Len(q.raw) /\ End(f) < Len(q.raw)
  BY <1>1 DEF NulsAt
<1>4. q.raw[End(f) + 1] = NUL
  BY <1>3 DEF NulsAt
<1> QED
  BY <1>2, <1>3, <1>4 DEF Intact, Char

\* Nothing has been noted before the first header.
LEMMA NoneNoted ==
  ASSUME NEW m, NEW v, NEW name, NEW given
  PROVE  NotedAs(m, 1, v, name, given, v)
<1>1. 1..(1 - 1) = {}
  OBVIOUS
<1> QED
  BY <1>1 DEF NotedAs

\* The headers begin.
LEMMA HeadersBegin ==
  ASSUME NEW m, NEW r, FirstReading(r, m), NEW q, q.stateM = "HEADER_START",
         q.offset = Start(m, 1), Unread(q, m, Start(m, 1)), q.headers = r.headers,
         q.connection_close = r.connection_close, q.content_encoding = r.content_encoding,
         q.content_length = r.content_length, q.transfer_encoding = r.transfer_encoding,
         q.cookie = r.cookie, q.location = r.location, FirstKept(q, m, Start(m, 1)),
         HeaderCount(m) \in Nat
  PROVE  HeaderReading(q, m)
<1>1. /\ q.headers = <<>> /\ q.connection_close = -1 /\ q.content_encoding = 0
      /\ q.content_length = -1 /\ q.transfer_encoding = 0 /\ q.cookie = 0 /\ q.location = 0
  BY DEF FirstReading
<1>2. 1 \in 1..(HeaderCount(m) + 1) /\ 1..(1 - 1) = {} /\ 1 - 1 = 0
  OBVIOUS
<1>3. HeaderAt(q, m, 1)
  BY DEF HeaderAt
<1>4. Len(q.headers) = 0
  BY <1>1
<1>5. Listed(q, m, 1, Start(m, 1))
  BY <1>1, <1>2, <1>4, NoneNoted DEF Listed
<1>6. Unmeasured(q, 1)
  <2>1. 1..Len(q.headers) = {}
    BY <1>4
  <2> QED
    BY <1>1, <2>1 DEF Unmeasured
<1>7. LinesKept(q, m, 1)
  BY <1>5, <1>6 DEF LinesKept
<1>8. NotedAs(m, 1, q.content_length, "Content-Length", Lengths(m), -1)
  BY <1>1, NoneNoted
<1>9. q.stateM \in HeaderState
  BY DEF HeaderState
<1> QED
  BY <1>2, <1>3, <1>7, <1>8, <1>9 DEF HeaderReading

\* rtsp_parse_status_line on a well formed line.
LEMMA StatusLineDone ==
  ASSUME Typed(rtsp), NEW m, FirstLineFormed(m), FirstReading(rtsp, m), ~m.server_mode,
         rtsp.offset < Len(rtsp.raw), EndStatusLine(rtsp.stateM), HeaderCount(m) \in Nat
  PROVE  HeaderReading(rtsp', m) /\ ret' = "running"
<1>0. PICK l, o, n : l = m.layout /\ o = rtsp.offset /\ n = Len(rtsp.raw)
  OBVIOUS
<1>1. FirstPlaces(m, l) /\ o \in Nat /\ n \in Nat /\ o < n
  BY <1>0, FirstLinePlaces, RawLen
<1>2. /\ rtsp.stateM = "STATUS_LF" /\ rtsp.name = l.first /\ rtsp.value = l.second
      /\ rtsp.reason = l.third /\ o = Start(m, 1) - 1
  BY <1>0 DEF EndStatusLine, FirstReading, StatusAt
<1>3. PICK u \in Nat : u = 0 /\ Unread(rtsp, m, u)
  BY DEF FirstReading
<1>4. /\ 0 < n /\ l.second.pos \in Nat /\ l.second.pos < n /\ End(l.second) < l.third.pos
      /\ End(l.third) <= o /\ End(l.second) <= o /\ End(l.third) < n /\ Start(m, 1) = o + 1
      /\ l.second.pos <= End(l.second)
  <2>1. l.first.pos \in Nat /\ l.second.pos \in Nat /\ l.third.pos \in Nat
    BY <1>1 DEF FirstPlaces, FieldType
  <2>2. PICK s, a, b, c, x, y, z : /\ s = Start(m, 1) /\ a = l.first.pos /\ b = l.second.pos
                                   /\ c = l.third.pos /\ x = End(l.first) /\ y = End(l.second)
                                   /\ z = End(l.third)
    OBVIOUS
  <2>3. /\ s \in Nat /\ a \in Nat /\ b \in Nat /\ c \in Nat /\ x \in Nat /\ y \in Nat /\ z \in Nat
        /\ a = 0 /\ x < b /\ b <= y /\ y < c /\ c <= z /\ l.end \in Nat /\ z <= l.end /\ l.end < s
        /\ o = s - 1
    BY ONLY <1>1, <1>2, <2>1, <2>2 DEF FirstPlaces
  <2> QED
    BY ONLY <1>1, <2>2, <2>3
<1>5. Char(rtsp, 0) = At(m, 0) /\ Char(rtsp, l.second.pos) = At(m, l.second.pos)
  BY <1>0, <1>1, <1>3, <1>4, UnreadChar
<1>6. /\ At(m, 0) \in Version /\ l.first.len = 1 /\ l.second.len = 1 /\ l.first.pos = 0
      /\ At(m, l.second.pos) \in StatusCode /\ At(m, l.second.pos) \in DOMAIN Number
      /\ m.code = Number[At(m, l.second.pos)] /\ l.third.len >= 1
  <2>1. /\ At(m, 0) \in Version /\ l.first.len = 1 /\ l.second.len = 1 /\ l.first.pos = 0
        /\ At(m, l.second.pos) \in StatusCode /\ At(m, l.second.pos) \in DOMAIN Number
        /\ m.code = Number[At(m, l.second.pos)]
    BY ONLY <1>0, FirstLineFormed(m), ~m.server_mode DEF FirstLineFormed
  <2>2. l.third.len >= 1
    BY ONLY <1>1 DEF FirstPlaces
  <2> QED
    BY ONLY <2>1, <2>2
<1>7. /\ Char(rtsp, rtsp.name.pos) \in Version /\ rtsp.name.len = 1
      /\ Char(rtsp, rtsp.value.pos) \in StatusCode /\ rtsp.value.len = 1
      /\ rtsp.reason.len >= 1
  BY <1>2, <1>5, <1>6
<1>8. /\ ret' = "running"
      /\ rtsp' = [Move("HEADER_START", 1) EXCEPT
                   !.raw = Put(Put(@, rtsp.reason.pos + rtsp.reason.len, NUL),
                               rtsp.value.pos + rtsp.value.len, NUL),
                   !.code = atoi(Char(rtsp, rtsp.value.pos))]
  BY <1>7 DEF EndStatusLine, Checked
<1>9. rtsp'.stateM = "HEADER_START"
  BY <1>8, Typed(rtsp) DEF Typed, Shape, Move
<1>10. /\ FirstLineRead /\ rtsp'.code = atoi(Char(rtsp, rtsp.value.pos))
       /\ rtsp'.raw = Put(Put(rtsp.raw, End(rtsp.reason), NUL), End(rtsp.value), NUL)
  BY <1>2, <1>9, StatusLineRead
<1>11. NulsAt(rtsp'.raw, rtsp.raw, End(l.third), End(l.second))
  BY <1>2, <1>10, TwoNuls DEF NulsAt
<1>11a. u <= l.first.pos /\ u <= l.second.pos /\ u <= l.third.pos /\ u <= o + 1
  BY <1>1, <1>3 DEF FirstPlaces, FieldType
<1>12. Unread(rtsp', m, o + 1)
  <2>1. PICK x, y : x = End(l.third) /\ y = End(l.second)
    OBVIOUS
  <2>2. x \in Nat /\ y \in Nat /\ x <= o /\ y <= o
    BY ONLY <1>1, <1>4, <2>1 DEF FirstPlaces
  <2>3. x < o + 1 /\ y < o + 1 /\ o + 1 \in Nat /\ Len(rtsp.raw) \in Nat
    BY ONLY <1>0, <1>1, <2>2
  <2>4. NulsAt(rtsp'.raw, rtsp.raw, x, y)
    BY ONLY <1>11, <2>1
  <2> QED
    BY ONLY <1>3, <1>11a, <2>2, <2>3, <2>4, NulsUnread
<1>13. Intact(rtsp', m, l.third)
  <2>1. PICK x, y, f : x = End(l.third) /\ y = End(l.second) /\ f = l.third
    OBVIOUS
  <2>2. /\ x \in Nat /\ y \in Nat /\ f \in FieldType /\ u <= f.pos
        /\ End(f) = x /\ x < n /\ y < f.pos /\ n \in Nat
    BY ONLY <1>1, <1>4, <1>11a, <2>1 DEF FirstPlaces
  <2>3. /\ End(f) \in {x, y} /\ (x < f.pos \/ End(f) <= x) /\ (y < f.pos \/ End(f) <= y)
        /\ End(f) < Len(rtsp.raw) /\ Len(rtsp.raw) \in Nat
    BY ONLY <1>0, <2>2
  <2>4. NulsAt(rtsp'.raw, rtsp.raw, x, y)
    BY ONLY <1>11, <2>1
  <2>5. Intact(rtsp', m, f)
    BY ONLY <1>3, <2>2, <2>3, <2>4, NulsKeep
  <2> QED
    BY ONLY <2>1, <2>5
<1>14. rtsp'.code = m.code
  BY <1>2, <1>5, <1>6, <1>10 DEF atoi
<1>15. FirstKept(rtsp', m, Start(m, 1))
  BY <1>0, <1>1, <1>2, <1>10, <1>13, <1>14 DEF FirstKept, FirstLineRead, FirstPlaces
<1>16. HeaderReading(rtsp', m)
  BY ONLY <1>0, <1>4, <1>10, <1>12, <1>15, FirstReading(rtsp, m), HeaderCount(m) \in Nat,
     HeadersBegin DEF FirstLineRead
<1> QED
  BY <1>8, <1>16

\* rtsp_parse_request_line on a well formed line.
LEMMA RequestLineDone ==
  ASSUME Typed(rtsp), NEW m, FirstLineFormed(m), FirstReading(rtsp, m), m.server_mode,
         rtsp.offset < Len(rtsp.raw), EndRequestLine(rtsp.stateM), HeaderCount(m) \in Nat
  PROVE  HeaderReading(rtsp', m) /\ ret' = "running"
<1>0. PICK l, o, n : l = m.layout /\ o = rtsp.offset /\ n = Len(rtsp.raw)
  OBVIOUS
<1>1. FirstPlaces(m, l) /\ o \in Nat /\ n \in Nat /\ o < n
  BY <1>0, FirstLinePlaces, RawLen
<1>2. /\ rtsp.stateM = "REQUEST_LF" /\ rtsp.method = l.first /\ rtsp.uri = l.second
      /\ rtsp.name = l.third /\ o = Start(m, 1) - 1
  BY <1>0 DEF EndRequestLine, FirstReading, RequestAt
<1>3. PICK u \in Nat : u = 0 /\ Unread(rtsp, m, u)
  BY DEF FirstReading
<1>4. /\ l.third.pos \in Nat /\ l.third.pos < n /\ End(l.first) < l.second.pos
      /\ End(l.second) < l.third.pos /\ End(l.second) < n /\ End(l.first) < n
      /\ End(l.first) <= o /\ End(l.second) <= o /\ Start(m, 1) = o + 1
      /\ l.second.pos <= End(l.second) /\ End(l.first) <= End(l.second)
  <2>1. l.first.pos \in Nat /\ l.second.pos \in Nat /\ l.third.pos \in Nat
    BY <1>1 DEF FirstPlaces, FieldType
  <2>2. PICK s, a, b, c, x, y, z : /\ s = Start(m, 1) /\ a = l.first.pos /\ b = l.second.pos
                                   /\ c = l.third.pos /\ x = End(l.first) /\ y = End(l.second)
                                   /\ z = End(l.third)
    OBVIOUS
  <2>3. /\ s \in Nat /\ a \in Nat /\ b \in Nat /\ c \in Nat /\ x \in Nat /\ y \in Nat /\ z \in Nat
        /\ a = 0 /\ x < b /\ b <= y /\ y < c /\ c <= z /\ l.end \in Nat /\ z <= l.end /\ l.end < s
        /\ o = s - 1
    BY ONLY <1>1, <1>2, <2>1, <2>2 DEF FirstPlaces
  <2> QED
    BY ONLY <1>1, <2>2, <2>3
<1>5. Char(rtsp, l.third.pos) = At(m, l.third.pos)
  BY <1>0, <1>1, <1>3, <1>4, UnreadChar
<1>6. /\ At(m, l.third.pos) \in Version
      /\ l.first.len >= 1 /\ l.second.len >= 1 /\ l.third.len >= 1
  <2>1. At(m, l.third.pos) \in Version
    BY ONLY <1>0, FirstLineFormed(m), m.server_mode DEF FirstLineFormed
  <2>2. l.first.len >= 1 /\ l.second.len >= 1 /\ l.third.len >= 1
    BY ONLY <1>1 DEF FirstPlaces
  <2> QED
    BY ONLY <2>1, <2>2
<1>7. /\ rtsp.method.len >= 1 /\ rtsp.uri.len >= 1
      /\ rtsp.name.len >= 1 /\ Char(rtsp, rtsp.name.pos) \in Version
  BY <1>2, <1>5, <1>6
<1>8. /\ ret' = "running"
      /\ rtsp' = [Move("HEADER_START", 1) EXCEPT
                   !.raw = Put(Put(@, rtsp.method.pos + rtsp.method.len, NUL),
                               rtsp.uri.pos + rtsp.uri.len, NUL)]
  BY <1>7 DEF EndRequestLine, Checked
<1>9. rtsp'.stateM = "HEADER_START"
  BY <1>8, Typed(rtsp) DEF Typed, Shape, Move
<1>10. /\ FirstLineRead
       /\ rtsp'.raw = Put(Put(rtsp.raw, End(rtsp.method), NUL), End(rtsp.uri), NUL)
  BY <1>2, <1>9, RequestLineRead
<1>11. NulsAt(rtsp'.raw, rtsp.raw, End(l.first), End(l.second))
  BY <1>2, <1>10, TwoNuls DEF NulsAt
<1>11a. u <= l.first.pos /\ u <= l.second.pos /\ u <= l.third.pos /\ u <= o + 1
  BY <1>1, <1>3 DEF FirstPlaces, FieldType
<1>12. Unread(rtsp', m, o + 1)
  <2>1. PICK x, y : x = End(l.first) /\ y = End(l.second)
    OBVIOUS
  <2>2. x \in Nat /\ y \in Nat /\ x <= o /\ y <= o
    BY ONLY <1>1, <1>4, <2>1 DEF FirstPlaces
  <2>3. x < o + 1 /\ y < o + 1 /\ o + 1 \in Nat /\ Len(rtsp.raw) \in Nat
    BY ONLY <1>0, <1>1, <2>2
  <2>4. NulsAt(rtsp'.raw, rtsp.raw, x, y)
    BY ONLY <1>11, <2>1
  <2> QED
    BY ONLY <1>3, <1>11a, <2>2, <2>3, <2>4, NulsUnread
<1>13. Intact(rtsp', m, l.first) /\ Intact(rtsp', m, l.second)
  <2>1. PICK x, y : x = End(l.first) /\ y = End(l.second)
    OBVIOUS
  <2>2. NulsAt(rtsp'.raw, rtsp.raw, x, y)
    BY ONLY <1>11, <2>1
  <2>3. ASSUME NEW f \in {l.first, l.second} PROVE Intact(rtsp', m, f)
    <3>1. /\ x \in Nat /\ y \in Nat /\ f \in FieldType /\ u <= f.pos /\ x <= y /\ y < n
          /\ (End(f) = x \/ (End(f) = y /\ x < f.pos)) /\ n \in Nat
      BY ONLY <1>1, <1>4, <1>11a, <2>1, f \in {l.first, l.second} DEF FirstPlaces
    <3>2. /\ End(f) \in {x, y} /\ (x < f.pos \/ End(f) <= x) /\ (y < f.pos \/ End(f) <= y)
          /\ End(f) < Len(rtsp.raw) /\ Len(rtsp.raw) \in Nat
      <4>1. CASE End(f) = x
        BY ONLY <1>0, <3>1, <4>1
      <4>2. CASE End(f) = y /\ x < f.pos
        BY ONLY <1>0, <3>1, <4>2
      <4> QED
        BY ONLY <3>1, <4>1, <4>2
    <3> QED
      BY ONLY <1>3, <2>2, <3>1, <3>2, NulsKeep
  <2> QED
    BY ONLY <2>3
<1>15. FirstKept(rtsp', m, Start(m, 1))
  <2>1. rtsp'.method = l.first /\ rtsp'.uri = l.second
    BY ONLY <1>2, <1>10 DEF FirstLineRead
  <2>2. PICK x, y, s : x = End(l.first) /\ y = End(l.second) /\ s = Start(m, 1)
    OBVIOUS
  <2>3. x \in Nat /\ y \in Nat /\ x <= o /\ y <= o /\ s = o + 1
    BY ONLY <1>1, <1>4, <2>2 DEF FirstPlaces
  <2>4. x < s /\ y < s
    BY ONLY <1>1, <2>3
  <2> QED
    BY ONLY <1>0, <1>13, <2>1, <2>2, <2>4, m.server_mode DEF FirstKept
<1>16. HeaderReading(rtsp', m)
  BY ONLY <1>0, <1>4, <1>10, <1>12, <1>15, FirstReading(rtsp, m), HeaderCount(m) \in Nat,
     HeadersBegin DEF FirstLineRead
<1> QED
  BY <1>8, <1>16

-----------------------------------------------------------------------------
(* The header lines' states, one by one.                                     *)

\* Where the parts of a well formed header are, in the line from s to before e.
HeaderPlaces(h, s, e) ==
  /\ h.name.pos = s /\ s \in Nat /\ e \in Nat /\ h.end \in Nat
  /\ h.value \in FieldType /\ End(h.value) \in Nat /\ h.value.pos \in Nat
  /\ s < h.value.pos /\ h.value.pos <= End(h.value) /\ End(h.value) <= h.end /\ h.end < e
  /\ ~h.fold =>
       /\ h.name \in FieldType /\ h.name.len = 1 /\ End(h.name) = s + 1
       /\ h.colon \in Nat /\ s < h.colon /\ h.colon < h.value.pos

\* They follow from its grammar, with what is to be seen at their beginnings.
LEMMA HeaderLinePlaces ==
  ASSUME NEW m, NEW k \in 1..HeaderCount(m), HeaderCount(m) \in Nat, HeaderFormed(m, k),
         NEW h, h = m.layout.headers[k]
  PROVE  /\ HeaderPlaces(h, Start(m, k), Start(m, k + 1)) /\ h.fold \in BOOLEAN
         /\ Phrase(m, h.value, h.end) /\ LineEnd(m, h.end, Start(m, k + 1))
         /\ At(m, h.value.pos) # SP
         /\ h.fold => At(m, h.name.pos) = SP /\ Blank(m, h.name.pos, h.value.pos)
         /\ ~h.fold => /\ At(m, h.name.pos) \notin {SP, CR, LF, COLON}
                       /\ Blank(m, h.name.pos + 1, h.colon) /\ At(m, h.colon) = COLON
                       /\ Blank(m, h.colon + 1, h.value.pos)
<1>1. /\ h.fold \in BOOLEAN /\ h.name.pos \in Nat /\ h.end \in Nat
      /\ Phrase(m, h.value, h.end) /\ LineEnd(m, h.end, Start(m, k + 1))
      /\ h.fold => h.name.pos < h.value.pos /\ Blank(m, h.name.pos, h.value.pos)
      /\ ~h.fold => /\ h.name \in FieldType /\ h.name.len = 1 /\ h.colon \in Nat
                    /\ At(m, h.name.pos) \notin {SP, CR, LF, COLON}
                    /\ Blank(m, h.name.pos + 1, h.colon) /\ At(m, h.colon) = COLON
                    /\ h.name.pos < h.colon /\ h.colon < h.value.pos
                    /\ Blank(m, h.colon + 1, h.value.pos)
  BY DEF HeaderFormed, Name
<1>2. k <= HeaderCount(m)
  OBVIOUS
<1>3. Start(m, k) = h.name.pos
  BY <1>2 DEF Start
<1>4. Start(m, k + 1) \in Nat /\ h.end < Start(m, k + 1) /\ At(m, h.end) \in {CR, LF}
  BY <1>1, LineEndAt
<1>5. /\ h.value \in FieldType /\ End(h.value) \in Nat /\ h.value.pos \in Nat
      /\ h.value.pos <= End(h.value) /\ End(h.value) <= h.end
  BY <1>1, FieldIs DEF Phrase, Blank
<1>6. ~h.fold => End(h.name) = h.name.pos + 1
  BY <1>1 DEF End
<1>7. HeaderPlaces(h, Start(m, k), Start(m, k + 1))
  <2>1. h.name.pos < h.value.pos
    BY <1>1, <1>5
  <2> QED
    BY ONLY <1>1, <1>3, <1>4, <1>5, <1>6, <2>1 DEF HeaderPlaces
<1>8. At(m, h.value.pos) # SP
  <2>1. CR # SP /\ LF # SP
    BY DEF CR, LF, SP
  <2> QED
    BY <1>1, <1>4, <2>1 DEF Phrase
<1>9. h.fold => At(m, h.name.pos) = SP
  BY <1>1, <1>5, BlankAt
<1> QED
  BY ONLY <1>1, <1>7, <1>8, <1>9

\* The blank line behind the headers.
LEMMA BlankLinePlaces ==
  ASSUME NEW m, HeadersFormed(m), NEW k, k = HeaderCount(m) + 1
  PROVE  /\ Start(m, k) \in Nat /\ Start(m, k + 1) \in Nat /\ Start(m, k) < Start(m, k + 1)
         /\ Start(m, k + 1) = m.layout.body /\ Start(m, k) = m.layout.blank
         /\ At(m, Start(m, k)) \in {CR, LF}
         /\ At(m, Start(m, k)) = CR => Start(m, k) + 1 = Start(m, k + 1) - 1
         /\ At(m, Start(m, k)) = LF => Start(m, k) = Start(m, k + 1) - 1
         /\ At(m, Start(m, k + 1) - 1) = LF
<1>1. HeaderCount(m) \in Nat
  BY DEF HeadersFormed, HeaderCount
<1>2. Start(m, k) = m.layout.blank /\ Start(m, k + 1) = m.layout.body
  BY <1>1 DEF Start
<1>3. m.layout.blank \in Nat /\ LineEnd(m, m.layout.blank, m.layout.body)
  BY DEF HeadersFormed
<1>4. /\ m.layout.body \in Nat /\ m.layout.blank < m.layout.body
      /\ At(m, m.layout.body - 1) = LF /\ At(m, m.layout.blank) \in {CR, LF}
      /\ At(m, m.layout.blank) = CR => m.layout.body = m.layout.blank + 2
      /\ At(m, m.layout.blank) = LF => m.layout.body = m.layout.blank + 1
  BY ONLY <1>3, LineEndAt
<1> QED
  BY ONLY <1>2, <1>3, <1>4

\* At the beginning of a line.
LEMMA HeaderStartReads ==
  ASSUME Typed(rtsp), NEW m, HeadersFormed(m), NEW k \in 1..(HeaderCount(m) + 1),
         HeaderAt(rtsp, m, k), rtsp.stateM = "HEADER_START",
         rtsp' = HeaderStart(At(m, rtsp.offset))
  PROVE  HeaderAt(rtsp', m, k) /\ rtsp'.stateM \in HeaderState
<1>0. PICK h, o, s, e, c : /\ h = m.layout.headers[k] /\ o = rtsp.offset /\ c = At(m, rtsp.offset)
                           /\ s = Start(m, k) /\ e = Start(m, k + 1)
  OBVIOUS
<1>1. o \in Nat /\ HeaderCount(m) \in Nat
  BY <1>0 DEF Typed, HeadersFormed, HeaderCount
<1>2. o = s
  BY <1>0 DEF HeaderAt
<1>3. \/ /\ c = SP /\ Turned("HEADER_SP2", 1, {"name"})
         /\ rtsp'.name = [pos |-> 0, len |-> rtsp.name.len]
      \/ /\ c = CR /\ Turned("HEADER_CR", 1, {"value"})
         /\ rtsp'.value = [pos |-> 0, len |-> rtsp.value.len]
      \/ /\ c = LF /\ Turned("HEADER_LF", 0, {"value"})
         /\ rtsp'.value = [pos |-> 0, len |-> rtsp.value.len]
      \/ c \notin {SP, CR, LF} /\ Begun("HEADER_NAME", "name")
  BY <1>0, HeaderStartTurn
<1>4. CASE k = HeaderCount(m) + 1
  <2>1. /\ c \in {CR, LF} /\ (c = CR => o + 1 = e - 1) /\ (c = LF => o = e - 1)
    BY <1>0, <1>2, <1>4, BlankLinePlaces
  <2>2. CR # LF /\ CR # SP /\ LF # SP
    BY DEF CR, LF, SP
  <2>3. \/ /\ o + 1 = e - 1 /\ Turned("HEADER_CR", 1, {"value"})
           /\ rtsp'.value = [pos |-> 0, len |-> rtsp.value.len]
        \/ /\ o = e - 1 /\ Turned("HEADER_LF", 0, {"value"})
           /\ rtsp'.value = [pos |-> 0, len |-> rtsp.value.len]
    BY ONLY <1>3, <2>1, <2>2
  <2>4. ~(k <= HeaderCount(m))
    BY <1>1, <1>4
  <2>5. rtsp'.value.pos = 0 /\ rtsp'.stateM \in {"HEADER_CR", "HEADER_LF"}
        /\ rtsp'.offset = e - 1
    BY <1>0, <1>1, <2>3 DEF Turned
  <2> QED
    BY ONLY <1>0, <2>4, <2>5 DEF HeaderAt, HeaderState
<1>5. CASE k # HeaderCount(m) + 1
  <2>2. k \in 1..HeaderCount(m) /\ k <= HeaderCount(m)
    BY <1>1, <1>5
  <2>3. HeaderFormed(m, k)
    BY <2>2 DEF HeadersFormed
  <2>4. /\ HeaderPlaces(h, s, e) /\ h.fold \in BOOLEAN
        /\ h.fold => At(m, h.name.pos) = SP
        /\ ~h.fold => At(m, h.name.pos) \notin {SP, CR, LF, COLON}
    BY <1>0, <1>1, <2>2, <2>3, HeaderLinePlaces
  <2>5. c = At(m, h.name.pos)
    BY <1>0, <1>2, <2>4 DEF HeaderPlaces
  <2>6. CR # SP /\ LF # SP
    BY DEF CR, LF, SP
  <2>7. CASE h.fold
    <3>1. Turned("HEADER_SP2", 1, {"name"}) /\ rtsp'.name = [pos |-> 0, len |-> rtsp.name.len]
      BY <1>3, <2>4, <2>5, <2>6, <2>7
    <3>2. rtsp'.name.pos = 0 /\ rtsp'.stateM = "HEADER_SP2" /\ rtsp'.offset = o + 1
      BY <1>0, <3>1 DEF Turned
    <3>3. o + 1 <= h.value.pos /\ h.name.pos < o + 1
      BY <1>1, <1>2, <2>4 DEF HeaderPlaces
    <3> QED
      BY ONLY <1>0, <2>2, <2>7, <3>2, <3>3 DEF HeaderAt, HeaderState, NameRead
  <2>8. CASE ~h.fold
    <3>1. Begun("HEADER_NAME", "name")
      BY <1>3, <2>4, <2>5, <2>8
    <3>2. rtsp'.name.pos = o /\ rtsp'.stateM = "HEADER_NAME" /\ rtsp'.offset = o
      BY <1>0, <1>1, <3>1 DEF Begun, Turned
    <3>3. o = h.name.pos
      BY <1>2, <2>4 DEF HeaderPlaces
    <3> QED
      BY ONLY <1>0, <2>2, <2>8, <3>2, <3>3 DEF HeaderAt, HeaderState
  <2> QED
    BY <2>4, <2>7, <2>8
<1> QED
  BY <1>4, <1>5

\* Over the name.
LEMMA HeaderNameReads ==
  ASSUME Typed(rtsp), NEW m, HeadersFormed(m), NEW k \in 1..(HeaderCount(m) + 1),
         HeaderAt(rtsp, m, k), rtsp.stateM = "HEADER_NAME",
         LineTurn("HEADER_NAME", At(m, rtsp.offset))
  PROVE  HeaderAt(rtsp', m, k) /\ rtsp'.stateM \in HeaderState
<1>0. PICK h, o, s, e : /\ h = m.layout.headers[k] /\ o = rtsp.offset
                        /\ s = Start(m, k) /\ e = Start(m, k + 1)
  OBVIOUS
<1>1. o \in Nat /\ HeaderCount(m) \in Nat
  BY <1>0 DEF Typed, HeadersFormed, HeaderCount
<1>2. k \in 1..HeaderCount(m) /\ k <= HeaderCount(m)
  BY <1>0, <1>1 DEF HeaderAt
<1>3. HeaderFormed(m, k)
  BY <1>2 DEF HeadersFormed
<1>4. /\ HeaderPlaces(h, s, e) /\ h.fold \in BOOLEAN
      /\ Phrase(m, h.value, h.end) /\ LineEnd(m, h.end, e)
      /\ At(m, h.value.pos) # SP
      /\ h.fold => At(m, h.name.pos) = SP /\ Blank(m, h.name.pos, h.value.pos)
      /\ ~h.fold => /\ At(m, h.name.pos) \notin {SP, CR, LF, COLON}
                    /\ Blank(m, h.name.pos + 1, h.colon) /\ At(m, h.colon) = COLON
                    /\ Blank(m, h.colon + 1, h.value.pos)
  BY <1>0, <1>1, <1>2, <1>3, HeaderLinePlaces
<1>5. ~h.fold /\ rtsp.name.pos = h.name.pos /\ o \in {h.name.pos, h.name.pos + 1}
  BY <1>0 DEF HeaderAt
<1>6. CASE o = h.name.pos
  <2>1. Turned("HEADER_NAME", 1, {})
    BY <1>0, <1>4, <1>5, <1>6, HeaderNameTurn
  <2> QED
    BY ONLY <1>0, <1>1, <1>2, <1>5, <1>6, <2>1 DEF HeaderAt, HeaderState, Turned
<1>7. CASE o = h.name.pos + 1
  <2>1. /\ h.name.pos \in Nat /\ h.colon \in Nat /\ h.name.pos < h.colon /\ h.name.len = 1
        /\ h.name \in FieldType
    BY <1>4, <1>5 DEF HeaderPlaces
  <2>2. At(m, o) \in {SP, COLON}
    <3>1. CASE o = h.colon
      BY <1>4, <1>5, <3>1
    <3>2. CASE o # h.colon
      <4>1. o < h.colon
        BY <1>7, <2>1, <3>2
      <4>2. Blank(m, o, h.colon)
        BY <1>4, <1>5, <1>7
      <4> QED
        BY <1>1, <2>1, <4>1, <4>2, BlankAt
    <3> QED
      BY <3>1, <3>2
  <2>3. Ended("HEADER_SP1", "name")
    BY <1>0, <2>2, HeaderNameTurn
  <2>4. rtsp'.name = [pos |-> h.name.pos, len |-> o - h.name.pos]
    BY <1>0, <1>5, <2>3 DEF Ended
  <2>5. o - h.name.pos = h.name.len
    BY <1>7, <2>1
  <2>6. rtsp'.name = h.name
    BY <2>1, <2>4, <2>5, FieldIs
  <2>7. rtsp'.stateM = "HEADER_SP1" /\ rtsp'.offset = o
    BY <1>0, <1>1, <2>3 DEF Ended, Turned
  <2>8. h.name.pos < o /\ o <= h.colon
    BY <1>7, <2>1
  <2> QED
    BY ONLY <1>0, <1>2, <1>5, <2>6, <2>7, <2>8 DEF HeaderAt, HeaderState
<1> QED
  BY <1>5, <1>6, <1>7

\* Over the blanks before the colon.
LEMMA HeaderSp1Reads ==
  ASSUME Typed(rtsp), NEW m, HeadersFormed(m), NEW k \in 1..(HeaderCount(m) + 1),
         HeaderAt(rtsp, m, k), rtsp.stateM = "HEADER_SP1",
         LineTurn("HEADER_SP1", At(m, rtsp.offset))
  PROVE  HeaderAt(rtsp', m, k) /\ rtsp'.stateM \in HeaderState
<1>0. PICK h, o, s, e : /\ h = m.layout.headers[k] /\ o = rtsp.offset
                        /\ s = Start(m, k) /\ e = Start(m, k + 1)
  OBVIOUS
<1>1. o \in Nat /\ HeaderCount(m) \in Nat
  BY <1>0 DEF Typed, HeadersFormed, HeaderCount
<1>2. k \in 1..HeaderCount(m) /\ k <= HeaderCount(m)
  BY <1>0, <1>1 DEF HeaderAt
<1>3. HeaderFormed(m, k)
  BY <1>2 DEF HeadersFormed
<1>4. /\ HeaderPlaces(h, s, e) /\ h.fold \in BOOLEAN
      /\ Phrase(m, h.value, h.end) /\ LineEnd(m, h.end, e)
      /\ At(m, h.value.pos) # SP
      /\ h.fold => At(m, h.name.pos) = SP /\ Blank(m, h.name.pos, h.value.pos)
      /\ ~h.fold => /\ At(m, h.name.pos) \notin {SP, CR, LF, COLON}
                    /\ Blank(m, h.name.pos + 1, h.colon) /\ At(m, h.colon) = COLON
                    /\ Blank(m, h.colon + 1, h.value.pos)
  BY <1>0, <1>1, <1>2, <1>3, HeaderLinePlaces
<1>5. ~h.fold /\ rtsp.name = h.name /\ h.name.pos < o /\ o <= h.colon
  BY <1>0 DEF HeaderAt
<1>6. h.colon \in Nat /\ h.name.pos \in Nat /\ h.name.pos + 1 \in Nat /\ h.name.pos + 1 <= o
  BY <1>1, <1>4, <1>5 DEF HeaderPlaces
<1>7. At(m, h.colon) # SP
  BY <1>4, <1>5 DEF COLON, SP
<1>8. /\ At(m, o) = SP => o < h.colon
      /\ At(m, o) # SP => o = h.colon
  BY <1>1, <1>4, <1>5, <1>6, <1>7, ScanBlank
<1>9. \/ o < h.colon /\ Turned("HEADER_SP1", 1, {})
      \/ o = h.colon /\ Turned("HEADER_SEPARATOR", 0, {})
  BY <1>0, <1>8, HeaderSp1Turn
<1> QED
  BY ONLY <1>0, <1>1, <1>2, <1>5, <1>6, <1>9 DEF HeaderAt, HeaderState, Turned

\* At the colon.
LEMMA HeaderSeparatorReads ==
  ASSUME Typed(rtsp), NEW m, HeadersFormed(m), NEW k \in 1..(HeaderCount(m) + 1),
         HeaderAt(rtsp, m, k), rtsp.stateM = "HEADER_SEPARATOR",
         Checked(At(m, rtsp.offset) = COLON, Move("HEADER_SP2", 1))
  PROVE  HeaderAt(rtsp', m, k) /\ rtsp'.stateM \in HeaderState /\ ret' = "running"
<1>0. PICK h, o, s, e : /\ h = m.layout.headers[k] /\ o = rtsp.offset
                        /\ s = Start(m, k) /\ e = Start(m, k + 1)
  OBVIOUS
<1>1. o \in Nat /\ HeaderCount(m) \in Nat
  BY <1>0 DEF Typed, HeadersFormed, HeaderCount
<1>2. k \in 1..HeaderCount(m) /\ k <= HeaderCount(m)
  BY <1>0, <1>1 DEF HeaderAt
<1>3. HeaderFormed(m, k)
  BY <1>2 DEF HeadersFormed
<1>4. /\ HeaderPlaces(h, s, e) /\ h.fold \in BOOLEAN
      /\ Phrase(m, h.value, h.end) /\ LineEnd(m, h.end, e)
      /\ At(m, h.value.pos) # SP
      /\ h.fold => At(m, h.name.pos) = SP /\ Blank(m, h.name.pos, h.value.pos)
      /\ ~h.fold => /\ At(m, h.name.pos) \notin {SP, CR, LF, COLON}
                    /\ Blank(m, h.name.pos + 1, h.colon) /\ At(m, h.colon) = COLON
                    /\ Blank(m, h.colon + 1, h.value.pos)
  BY <1>0, <1>1, <1>2, <1>3, HeaderLinePlaces
<1>5. ~h.fold /\ rtsp.name = h.name /\ o = h.colon
  BY <1>0 DEF HeaderAt
<1>6. rtsp' = Move("HEADER_SP2", 1) /\ ret' = "running"
  BY <1>0, <1>4, <1>5 DEF Checked
<1>7. Turned("HEADER_SP2", 1, {})
  BY <1>6, MoveTurns
<1>8. o + 1 <= h.value.pos /\ h.colon < o + 1
  BY <1>1, <1>4, <1>5 DEF HeaderPlaces
<1> QED
  BY ONLY <1>0, <1>1, <1>2, <1>5, <1>6, <1>7, <1>8 DEF HeaderAt, HeaderState, NameRead, Turned

\* Over the blanks before the value.
LEMMA HeaderSp2Reads ==
  ASSUME Typed(rtsp), NEW m, HeadersFormed(m), NEW k \in 1..(HeaderCount(m) + 1),
         HeaderAt(rtsp, m, k), rtsp.stateM = "HEADER_SP2",
         LineTurn("HEADER_SP2", At(m, rtsp.offset))
  PROVE  HeaderAt(rtsp', m, k) /\ rtsp'.stateM \in HeaderState
<1>0. PICK h, o, s, e : /\ h = m.layout.headers[k] /\ o = rtsp.offset
                        /\ s = Start(m, k) /\ e = Start(m, k + 1)
  OBVIOUS
<1>1. o \in Nat /\ HeaderCount(m) \in Nat
  BY <1>0 DEF Typed, HeadersFormed, HeaderCount
<1>2. k \in 1..HeaderCount(m) /\ k <= HeaderCount(m)
  BY <1>0, <1>1 DEF HeaderAt
<1>3. HeaderFormed(m, k)
  BY <1>2 DEF HeadersFormed
<1>4. /\ HeaderPlaces(h, s, e) /\ h.fold \in BOOLEAN
      /\ Phrase(m, h.value, h.end) /\ LineEnd(m, h.end, e)
      /\ At(m, h.value.pos) # SP
      /\ h.fold => At(m, h.name.pos) = SP /\ Blank(m, h.name.pos, h.value.pos)
      /\ ~h.fold => /\ At(m, h.name.pos) \notin {SP, CR, LF, COLON}
                    /\ Blank(m, h.name.pos + 1, h.colon) /\ At(m, h.colon) = COLON
                    /\ Blank(m, h.colon + 1, h.value.pos)
  BY <1>0, <1>1, <1>2, <1>3, HeaderLinePlaces
<1>5. NameRead(rtsp, h) /\ o <= h.value.pos
  BY <1>0 DEF HeaderAt
<1>6. \E i \in Nat : i <= o /\ Blank(m, i, h.value.pos)
  <2>1. CASE h.fold
    <3>1. h.name.pos \in Nat /\ h.name.pos <= o
      BY <1>0, <1>1, <1>4, <1>5, <2>1 DEF NameRead, HeaderPlaces
    <3> QED
      BY <1>4, <2>1, <3>1
  <2>2. CASE ~h.fold
    <3>1. h.colon + 1 \in Nat /\ h.colon + 1 <= o
      BY <1>0, <1>1, <1>4, <1>5, <2>2 DEF NameRead, HeaderPlaces
    <3> QED
      BY <1>4, <2>2, <3>1
  <2> QED
    BY <1>4, <2>1, <2>2
<1>7. PICK i \in Nat : i <= o /\ Blank(m, i, h.value.pos)
  BY <1>6
<1>8. /\ At(m, o) = SP => o < h.value.pos
      /\ At(m, o) # SP => o = h.value.pos
  BY <1>1, <1>4, <1>5, <1>7, ScanBlank DEF HeaderPlaces
<1>9. \/ o < h.value.pos /\ Turned("HEADER_SP2", 1, {})
      \/ o = h.value.pos /\ Begun("HEADER_VALUE", "value")
  BY <1>0, <1>8, HeaderSp2Turn
<1>10. h.value.pos \in Nat /\ h.value.pos <= End(h.value) /\ h.name.pos \in Nat
       /\ (h.fold \/ h.colon \in Nat)
  BY <1>4 DEF HeaderPlaces
<1> QED
  BY ONLY <1>0, <1>1, <1>2, <1>5, <1>9, <1>10 DEF HeaderAt, HeaderState, NameRead, Turned, Begun

\* Over a word of the value.
LEMMA HeaderValueReads ==
  ASSUME Typed(rtsp), NEW m, HeadersFormed(m), NEW k \in 1..(HeaderCount(m) + 1),
         HeaderAt(rtsp, m, k), rtsp.stateM = "HEADER_VALUE",
         LineTurn("HEADER_VALUE", At(m, rtsp.offset))
  PROVE  HeaderAt(rtsp', m, k) /\ rtsp'.stateM \in HeaderState
<1>0. PICK h, o, s, e : /\ h = m.layout.headers[k] /\ o = rtsp.offset
                        /\ s = Start(m, k) /\ e = Start(m, k + 1)
  OBVIOUS
<1>1. o \in Nat /\ HeaderCount(m) \in Nat
  BY <1>0 DEF Typed, HeadersFormed, HeaderCount
<1>2. k \in 1..HeaderCount(m) /\ k <= HeaderCount(m)
  BY <1>0, <1>1 DEF HeaderAt
<1>3. HeaderFormed(m, k)
  BY <1>2 DEF HeadersFormed
<1>4. /\ HeaderPlaces(h, s, e) /\ h.fold \in BOOLEAN
      /\ Phrase(m, h.value, h.end) /\ LineEnd(m, h.end, e)
      /\ At(m, h.value.pos) # SP
      /\ h.fold => At(m, h.name.pos) = SP /\ Blank(m, h.name.pos, h.value.pos)
      /\ ~h.fold => /\ At(m, h.name.pos) \notin {SP, CR, LF, COLON}
                    /\ Blank(m, h.name.pos + 1, h.colon) /\ At(m, h.colon) = COLON
                    /\ Blank(m, h.colon + 1, h.value.pos)
  BY <1>0, <1>1, <1>2, <1>3, HeaderLinePlaces
<1>5. NameRead(rtsp, h) /\ rtsp.value.pos = h.value.pos /\ h.value.pos <= o /\ o <= End(h.value)
  BY <1>0 DEF HeaderAt
<1>6. h.end \in Nat /\ h.value.pos \in Nat /\ h.name.pos \in Nat /\ (h.fold \/ h.colon \in Nat)
      /\ End(h.value) \in Nat
  BY <1>4 DEF HeaderPlaces
<1>7. /\ At(m, o) \in {SP, CR, LF} =>
           Trailing(m, [pos |-> h.value.pos, len |-> o - h.value.pos], h.value, h.end, o)
      /\ At(m, o) \notin {SP, CR, LF} => o < End(h.value)
  BY ONLY <1>1, <1>4, <1>5, <1>6, ScanPhrase
<1>8. \/ /\ Trailing(m, [pos |-> h.value.pos, len |-> o - h.value.pos], h.value, h.end, o)
         /\ Ended("HEADER_SP3", "value")
      \/ o < End(h.value) /\ Turned("HEADER_VALUE", 1, {})
  BY <1>0, <1>7, HeaderValueTurn
<1>9. Ended("HEADER_SP3", "value") => rtsp'.value = [pos |-> h.value.pos, len |-> o - h.value.pos]
  BY <1>0, <1>5 DEF Ended
<1>10. Ended("HEADER_SP3", "value") => rtsp'.offset = o
  BY <1>0, <1>1 DEF Ended, Turned
<1>11. \/ Ended("HEADER_SP3", "value") /\ Trailing(m, rtsp'.value, h.value, h.end, rtsp'.offset)
       \/ o < End(h.value) /\ Turned("HEADER_VALUE", 1, {})
  BY ONLY <1>8, <1>9, <1>10
<1> QED
  BY ONLY <1>0, <1>1, <1>2, <1>5, <1>6, <1>11 DEF HeaderAt, HeaderState, NameRead, Turned, Ended

\* Behind a word of the value.
LEMMA HeaderSp3Reads ==
  ASSUME Typed(rtsp), NEW m, HeadersFormed(m), NEW k \in 1..(HeaderCount(m) + 1),
         HeaderAt(rtsp, m, k), rtsp.stateM = "HEADER_SP3",
         LineTurn("HEADER_SP3", At(m, rtsp.offset))
  PROVE  HeaderAt(rtsp', m, k) /\ rtsp'.stateM \in HeaderState
<1>0. PICK h, o, s, e : /\ h = m.layout.headers[k] /\ o = rtsp.offset
                        /\ s = Start(m, k) /\ e = Start(m, k + 1)
  OBVIOUS
<1>1. o \in Nat /\ HeaderCount(m) \in Nat
  BY <1>0 DEF Typed, HeadersFormed, HeaderCount
<1>2. k \in 1..HeaderCount(m) /\ k <= HeaderCount(m)
  BY <1>0, <1>1 DEF HeaderAt
<1>3. HeaderFormed(m, k)
  BY <1>2 DEF HeadersFormed
<1>4. /\ HeaderPlaces(h, s, e) /\ h.fold \in BOOLEAN
      /\ Phrase(m, h.value, h.end) /\ LineEnd(m, h.end, e)
      /\ At(m, h.value.pos) # SP
      /\ h.fold => At(m, h.name.pos) = SP /\ Blank(m, h.name.pos, h.value.pos)
      /\ ~h.fold => /\ At(m, h.name.pos) \notin {SP, CR, LF, COLON}
                    /\ Blank(m, h.name.pos + 1, h.colon) /\ At(m, h.colon) = COLON
                    /\ Blank(m, h.colon + 1, h.value.pos)
  BY <1>0, <1>1, <1>2, <1>3, HeaderLinePlaces
<1>5. NameRead(rtsp, h) /\ Trailing(m, rtsp.value, h.value, h.end, o) /\ rtsp.value \in FieldType
  BY <1>0 DEF HeaderAt, Typed
<1>6. h.end \in Nat /\ h.value.pos \in Nat /\ h.name.pos \in Nat /\ (h.fold \/ h.colon \in Nat)
      /\ End(h.value) \in Nat /\ e \in Nat
  BY <1>4 DEF HeaderPlaces
<1>7. /\ At(m, o) = SP => Trailing(m, rtsp.value, h.value, h.end, o + 1)
      /\ At(m, o) \in {CR, LF} => rtsp.value = h.value /\ o = h.end
      /\ At(m, o) \notin {SP, CR, LF} => o < End(h.value) /\ h.value.pos <= o
  <2>1. PICK f : f = rtsp.value
    OBVIOUS
  <2>2. f \in FieldType /\ End(f) <= o /\ Trailing(m, f, h.value, h.end, o)
    BY ONLY <2>1, <1>5 DEF Trailing, Blank
  <2>3. /\ At(m, o) = SP => Trailing(m, f, h.value, h.end, o + 1)
        /\ At(m, o) \in {CR, LF} => f = h.value /\ o = h.end
        /\ At(m, o) \notin {SP, CR, LF} => o < End(h.value) /\ h.value.pos <= o
    BY ONLY <2>2, <1>1, <1>4, <1>6, ScanTrailing
  <2> QED
    BY ONLY <2>1, <2>3
<1>8. /\ At(m, h.end) = CR => e = h.end + 2
      /\ At(m, h.end) = LF => e = h.end + 1
  BY <1>4, <1>6, LineEndAt
<1>9. \/ Trailing(m, rtsp.value, h.value, h.end, o + 1) /\ Turned("HEADER_SP3", 1, {})
      \/ rtsp.value = h.value /\ o + 1 = e - 1 /\ Turned("HEADER_CR", 1, {})
      \/ rtsp.value = h.value /\ o = e - 1 /\ Turned("HEADER_LF", 0, {})
      \/ o < End(h.value) /\ h.value.pos <= o /\ Turned("HEADER_VALUE", 1, {})
  <2>1. \/ At(m, o) = SP /\ Turned("HEADER_SP3", 1, {})
        \/ At(m, o) = CR /\ Turned("HEADER_CR", 1, {})
        \/ At(m, o) = LF /\ Turned("HEADER_LF", 0, {})
        \/ At(m, o) \notin {SP, CR, LF} /\ Turned("HEADER_VALUE", 1, {})
    BY <1>0, HeaderSp3Turn
  <2> QED
    BY ONLY <1>6, <1>7, <1>8, <2>1
<1>10. rtsp.value.pos = h.value.pos
  BY <1>5 DEF Trailing
<1> QED
  BY ONLY <1>0, <1>1, <1>2, <1>5, <1>6, <1>9, <1>10 DEF HeaderAt, HeaderState, NameRead, Turned

\* The line feed behind the carriage return.
LEMMA HeaderCrReads ==
  ASSUME Typed(rtsp), NEW m, HeadersFormed(m), NEW k \in 1..(HeaderCount(m) + 1),
         HeaderAt(rtsp, m, k), rtsp.stateM = "HEADER_CR",
         LineCr("HEADER_CR", At(m, rtsp.offset))
  PROVE  HeaderAt(rtsp', m, k) /\ rtsp'.stateM \in HeaderState /\ ret' = "running"
<1>0. PICK h, o, s, e : /\ h = m.layout.headers[k] /\ o = rtsp.offset
                        /\ s = Start(m, k) /\ e = Start(m, k + 1)
  OBVIOUS
<1>1. o \in Nat /\ HeaderCount(m) \in Nat
  BY <1>0 DEF Typed, HeadersFormed, HeaderCount
<1>2. o = e - 1
  BY <1>0 DEF HeaderAt
<1>3. At(m, e - 1) = LF /\ e \in Nat
  <2>1. CASE k = HeaderCount(m) + 1
    BY <1>0, <2>1, BlankLinePlaces
  <2>2. CASE k # HeaderCount(m) + 1
    <3>1. k \in 1..HeaderCount(m)
      BY <1>1, <2>2
    <3>2. HeaderFormed(m, k)
      BY <3>1 DEF HeadersFormed
    <3>3. LineEnd(m, h.end, e) /\ h.end \in Nat
      BY <1>0, <1>1, <3>1, <3>2, HeaderLinePlaces DEF HeaderPlaces
    <3> QED
      BY <3>3, LineEndAt
  <2> QED
    BY <2>1, <2>2
<1>4. rtsp' = Move("HEADER_LF", 0) /\ ret' = "running"
  BY <1>0, <1>2, <1>3 DEF LineCr, Checked, NextState
<1>5. Turned("HEADER_LF", 0, {})
  BY <1>4, MoveTurns
<1> QED
  BY ONLY <1>0, <1>1, <1>4, <1>5, HeaderAt(rtsp, m, k), rtsp.stateM = "HEADER_CR"
  DEF HeaderAt, HeaderState, NameRead, Turned

-----------------------------------------------------------------------------
(* The turns within a header line.                                           *)

\* What these turns leave alone.
HeaderRest ==
  SameRest /\ rtsp'.method = rtsp.method /\ rtsp'.uri = rtsp.uri /\ rtsp'.reason = rtsp.reason

\* They keep what has been kept,
LEMMA SameLines ==
  ASSUME NEW m, NEW k, LinesKept(rtsp, m, k), HeaderRest
  PROVE  LinesKept(rtsp', m, k)
<1>1. \A f : Intact(rtsp, m, f) => Intact(rtsp', m, f)
  BY DEF Intact, Char, HeaderRest, SameRest
<1>2. \A i : FirstKept(rtsp, m, i) => FirstKept(rtsp', m, i)
  BY <1>1 DEF FirstKept, HeaderRest, SameRest
<1>3. \A i : Listed(rtsp, m, k, i) => Listed(rtsp', m, k, i)
  BY <1>1 DEF Listed, HeaderRest, SameRest
<1>4. Unmeasured(rtsp, k) => Unmeasured(rtsp', k)
  BY DEF Unmeasured, Char, HeaderRest, SameRest
<1> QED
  BY <1>2, <1>3, <1>4 DEF LinesKept

\* so that only the place in the line has to be shown.
LEMMA HeaderGoes ==
  ASSUME Typed(rtsp), NEW m, NEW k \in 1..(HeaderCount(m) + 1), Start(m, k) \in Nat,
         Unread(rtsp, m, Start(m, k)), LinesKept(rtsp, m, k),
         NotedAs(m, k, rtsp.content_length, "Content-Length", Lengths(m), -1),
         HeaderRest, rtsp'.stateM \in HeaderState, HeaderAt(rtsp', m, k)
  PROVE  HeaderReading(rtsp', m)
<1>1. Unread(rtsp', m, Start(m, k))
  BY UnreadLater, RawLen DEF HeaderRest, SameRest
<1>2. rtsp'.content_length = rtsp.content_length
  BY DEF HeaderRest, SameRest
<1> QED
  BY <1>1, <1>2, SameLines DEF HeaderReading

\* The parser is in the line, behind its beginning.
LEMMA HeaderBehind ==
  ASSUME Typed(rtsp), NEW m, HeadersFormed(m), NEW k \in 1..(HeaderCount(m) + 1),
         HeaderAt(rtsp, m, k), rtsp.stateM \in HeaderState
  PROVE  Start(m, k) \in Nat /\ Start(m, k) <= rtsp.offset
<1>0. PICK h, o, s, e : /\ h = m.layout.headers[k] /\ o = rtsp.offset
                        /\ s = Start(m, k) /\ e = Start(m, k + 1)
  OBVIOUS
<1>1. o \in Nat /\ HeaderCount(m) \in Nat
  BY <1>0 DEF Typed, HeadersFormed, HeaderCount
<1>2. CASE k = HeaderCount(m) + 1
  <2>1. s \in Nat /\ e \in Nat /\ s < e
    BY <1>0, <1>2, BlankLinePlaces
  <2>2. o = s \/ o = e - 1
    BY <1>0, <1>1, <1>2 DEF HeaderAt, HeaderState
  <2> QED
    BY <1>0, <1>1, <2>1, <2>2
<1>3. CASE k # HeaderCount(m) + 1
  <2>1. k \in 1..HeaderCount(m)
    BY <1>1, <1>3
  <2>2. HeaderPlaces(h, s, e) /\ h.fold \in BOOLEAN
    BY <1>0, <1>1, <2>1, HeaderLinePlaces DEF HeadersFormed
  <2>3. /\ s \in Nat /\ e \in Nat /\ s < e /\ s = h.name.pos
        /\ NameRead(rtsp, h) => s < o
        /\ ~h.fold => h.colon \in Nat /\ s < h.colon
    BY <1>0, <1>1, <2>2 DEF HeaderPlaces, NameRead
  <2>4. s <= o
    <3>1. k <= HeaderCount(m)
      BY <1>1, <2>1
    <3>2. CASE rtsp.stateM = "HEADER_START"
      BY ONLY <1>0, <1>1, <2>3, <3>2, HeaderAt(rtsp, m, k) DEF HeaderAt
    <3>3. CASE rtsp.stateM = "HEADER_NAME"
      BY ONLY <1>0, <1>1, <2>3, <3>3, HeaderAt(rtsp, m, k) DEF HeaderAt
    <3>4. CASE rtsp.stateM = "HEADER_SP1"
      BY ONLY <1>0, <1>1, <2>3, <3>4, HeaderAt(rtsp, m, k) DEF HeaderAt
    <3>5. CASE rtsp.stateM = "HEADER_SEPARATOR"
      BY ONLY <1>0, <1>1, <2>3, <3>5, HeaderAt(rtsp, m, k) DEF HeaderAt
    <3>6. CASE rtsp.stateM \in {"HEADER_SP2", "HEADER_VALUE", "HEADER_SP3", "HEADER_CR", "HEADER_LF"}
      <4>1. NameRead(rtsp, h)
        BY ONLY <1>0, <3>1, <3>6, HeaderAt(rtsp, m, k) DEF HeaderAt
      <4> QED
        BY ONLY <1>1, <2>3, <4>1
    <3> QED
      BY ONLY <3>2, <3>3, <3>4, <3>5, <3>6, rtsp.stateM \in HeaderState DEF HeaderState
  <2> QED
    BY <1>0, <2>3, <2>4
<1> QED
  BY <1>2, <1>3

\* A turn within a header line.
LEMMA HeaderTurnReads ==
  ASSUME Typed(rtsp), Bounds(rtsp), NEW m, HeadersFormed(m), HeaderReading(rtsp, m),
         rtsp.offset < Len(rtsp.raw), ret = "running",
         NEW c, c = Char(rtsp, rtsp.offset),
         \/ rtsp.stateM = "HEADER_START" /\ rtsp' = HeaderStart(c) /\ UNCHANGED ret
         \/ LineTurn(rtsp.stateM, c) /\ UNCHANGED ret
         \/ rtsp.stateM = "HEADER_SEPARATOR" /\ Checked(c = COLON, Move("HEADER_SP2", 1))
         \/ LineCr(rtsp.stateM, c)
  PROVE  HeaderReading(rtsp', m) /\ ret' = "running"
<1>1. PICK k \in 1..(HeaderCount(m) + 1) :
        /\ HeaderAt(rtsp, m, k) /\ Unread(rtsp, m, Start(m, k)) /\ LinesKept(rtsp, m, k)
        /\ NotedAs(m, k, rtsp.content_length, "Content-Length", Lengths(m), -1)
  BY DEF HeaderReading
<1>2. rtsp.stateM \in HeaderState
  BY DEF HeaderReading
<1>3. Start(m, k) \in Nat /\ Start(m, k) <= rtsp.offset
  BY <1>1, <1>2, HeaderBehind
<1>4. c = At(m, rtsp.offset)
  BY <1>1, <1>3, UnreadChar, RawLen
<1>5. CASE rtsp.stateM = "HEADER_START" /\ rtsp' = HeaderStart(c) /\ UNCHANGED ret
  <2>1. HeaderAt(rtsp', m, k) /\ rtsp'.stateM \in HeaderState
    BY <1>1, <1>4, <1>5, HeaderStartReads
  <2>2. HeaderRest
    BY <1>5, HeaderStartTurn DEF HeaderRest, Turned, Begun
  <2> QED
    BY <1>1, <1>3, <1>5, <2>1, <2>2, HeaderGoes
<1>6. CASE LineTurn(rtsp.stateM, c) /\ UNCHANGED ret
  <2>1. rtsp.stateM \in SkipStates \cup RestStates \cup DOMAIN Field
    BY <1>6 DEF LineTurn
  <2>2. rtsp.stateM \in {"HEADER_NAME", "HEADER_SP1", "HEADER_SP2", "HEADER_VALUE", "HEADER_SP3"}
    BY <1>2, <2>1 DEF SkipStates, RestStates, Field, HeaderState
  <2>3. HeaderAt(rtsp', m, k) /\ rtsp'.stateM \in HeaderState
    BY <1>1, <1>4, <1>6, <2>2, HeaderNameReads, HeaderSp1Reads, HeaderSp2Reads, HeaderValueReads,
       HeaderSp3Reads
  <2>4. TurnKeeps
    BY <1>6, LineTurnFields DEF Bounds
  <2>5. HeaderRest
    BY <1>2, <2>4 DEF HeaderRest, TurnKeeps
  <2> QED
    BY <1>1, <1>3, <1>6, <2>3, <2>5, HeaderGoes
<1>7. CASE rtsp.stateM = "HEADER_SEPARATOR" /\ Checked(c = COLON, Move("HEADER_SP2", 1))
  <2>1. HeaderAt(rtsp', m, k) /\ rtsp'.stateM \in HeaderState /\ ret' = "running"
    BY <1>1, <1>4, <1>7, HeaderSeparatorReads
  <2>2. rtsp' # rtsp
    <3>1. rtsp' = Move("HEADER_SP2", 1) \/ ret' = "parse assert"
      BY <1>7 DEF Checked
    <3>2. rtsp' = Move("HEADER_SP2", 1)
      BY <2>1, <3>1
    <3>3. Turned("HEADER_SP2", 1, {})
      BY <3>2, MoveTurns
    <3> QED
      BY <1>7, <3>3 DEF Turned
  <2>3. Turned("HEADER_SP2", 1, {})
    BY <1>7, <2>2, MoveTurns DEF Checked
  <2>4. HeaderRest
    BY <2>3 DEF HeaderRest, Turned
  <2> QED
    BY <1>1, <1>3, <2>1, <2>4, HeaderGoes
<1>8. CASE LineCr(rtsp.stateM, c)
  <2>1. rtsp.stateM = "HEADER_CR"
    BY <1>2, <1>8 DEF LineCr, CrStates, HeaderState
  <2>2. HeaderAt(rtsp', m, k) /\ rtsp'.stateM \in HeaderState /\ ret' = "running"
    BY <1>1, <1>4, <1>8, <2>1, HeaderCrReads
  <2>3. rtsp' = Move("HEADER_LF", 0)
    BY <1>8, <2>1, <2>2 DEF LineCr, Checked, NextState
  <2>4. Turned("HEADER_LF", 0, {})
    BY <2>3, MoveTurns
  <2>5. HeaderRest
    BY <2>4 DEF HeaderRest, Turned
  <2> QED
    BY <1>1, <1>3, <2>2, <2>5, HeaderGoes
<1> QED
  BY <1>5, <1>6, <1>7, <1>8

-----------------------------------------------------------------------------
(* The strings in the text.                                                  *)

\* A set of naturals that is not empty has a least element.
LEMMA LeastNatural ==
  ASSUME NEW S, S \subseteq Nat, S # {}
  PROVE  \E x \in S : \A y \in S : x <= y
<1>1. PICK R, F, T : /\ R = StrictSubsetOrdering(Nat) /\ F = FiniteSubsetsOf(Nat)
                     /\ T = {0..x : x \in S}
  OBVIOUS
<1>2. IsWellFoundedOn(R, F)
  BY <1>1, FS_StrictSubsetOrderingWellFounded
<1>3. T \subseteq F
  <2>1. ASSUME NEW x \in S
        PROVE  0..x \in F
    <3>1. IsFiniteSet(0..x)
      BY FS_Interval
    <3> QED
      BY <1>1, <3>1 DEF FiniteSubsetsOf
  <2> QED
    BY <1>1, <2>1
<1>4. T # {}
  BY <1>1
<1>5. PICK t \in T : \A u \in T : ~(<<u, t>> \in R)
  BY ONLY <1>2, <1>3, <1>4, WFMin
<1>6. PICK x \in S : t = 0..x
  BY <1>1
<1>7. ASSUME NEW y \in S, y < x
      PROVE  FALSE
  <2>1. 0..y \in T
    BY <1>1
  <2>2. 0..y \subseteq 0..x /\ 0..y # 0..x
    BY <1>7
  <2>3. <<0..y, 0..x>> \in R
    BY <1>1, <2>2 DEF StrictSubsetOrdering
  <2> QED
    BY <1>5, <1>6, <2>1, <2>3
<1> QED
  BY <1>6, <1>7

\* The string that starts at i ends at the first NUL,
LEMMA TextIs ==
  ASSUME NEW r, Len(r.raw) \in Nat, NEW i \in Nat, NEW e \in i..Len(r.raw), Char(r, e) = NUL,
         \A k \in i..(e - 1) : Char(r, k) # NUL
  PROVE  Text(r, i) = SubSeq(r.raw, i + 1, e)
<1>1. PICK d : d = CHOOSE x \in i..Len(r.raw) :
                     Char(r, x) = NUL /\ \A k \in i..(x - 1) : Char(r, k) # NUL
  OBVIOUS
<1>2. d \in i..Len(r.raw) /\ Char(r, d) = NUL /\ \A k \in i..(d - 1) : Char(r, k) # NUL
  BY <1>1
<1>3. ~(d < e)
  BY <1>2
<1>4. ~(e < d)
  BY <1>2
<1>5. d = e
  BY <1>2, <1>3, <1>4
<1> QED
  BY <1>1, <1>5 DEF Text

\* and there always is one: what ends the text.
LEMMA TextEnds ==
  ASSUME NEW r, Len(r.raw) \in Nat, NEW i \in Nat, i <= Len(r.raw)
  PROVE  \E e \in i..Len(r.raw) : Char(r, e) = NUL /\ \A k \in i..(e - 1) : Char(r, k) # NUL
<1>1. PICK S : S = {e \in i..Len(r.raw) : Char(r, e) = NUL}
  OBVIOUS
<1>2. Len(r.raw) \in S
  BY <1>1 DEF Char
<1>3. S \subseteq Nat /\ S # {}
  BY <1>1, <1>2
<1>4. PICK e \in S : \A y \in S : e <= y
  BY <1>3, LeastNatural
<1>5. ASSUME NEW k \in i..(e - 1)
      PROVE  Char(r, k) # NUL
  <2>1. k \in i..Len(r.raw) /\ ~(e <= k)
    BY <1>1
  <2> QED
    BY <1>1, <1>4, <2>1
<1> QED
  BY <1>1, <1>5

\* A string of one token is that token.
LEMMA TextHead ==
  ASSUME NEW r, r.raw \in Seq(Token), NEW i \in Nat, i <= Len(r.raw), NEW w, Text(r, i) = <<w>>
  PROVE  Char(r, i) = w
<1>1. Len(r.raw) \in Nat /\ \A k \in 1..Len(r.raw) : r.raw[k] \in Token
  OBVIOUS
<1>2. PICK e \in i..Len(r.raw) : Char(r, e) = NUL /\ \A k \in i..(e - 1) : Char(r, k) # NUL
  BY <1>1, TextEnds
<1>3. Text(r, i) = SubSeq(r.raw, i + 1, e)
  BY <1>1, <1>2, TextIs
<1>4. PICK s, p, S : s = r.raw /\ p = i + 1 /\ S = Token
  OBVIOUS
<1>5. p \in Int /\ e \in Int /\ \A k \in p..e : s[k] \in S
  BY <1>1, <1>4
<1>6. /\ Len(SubSeq(s, p, e)) = IF p <= e THEN e - p + 1 ELSE 0
      /\ \A k \in 1..(e - p + 1) : SubSeq(s, p, e)[k] = s[p + k - 1]
  BY ONLY <1>5, SubSeqProperties
<1>7. SubSeq(s, p, e) = <<w>>
  BY <1>3, <1>4
<1>8. Len(SubSeq(s, p, e)) = 1 /\ SubSeq(s, p, e)[1] = w
  BY ONLY <1>7
<1>9. p <= e /\ e - p + 1 = 1
  BY <1>4, <1>6, <1>8
<1>10. s[p] = w
  <2>1. 1 \in 1..(e - p + 1) /\ p + 1 - 1 = p
    BY <1>4, <1>9
  <2> QED
    BY <1>6, <1>8, <2>1
<1>11. i < Len(r.raw)
  BY <1>4, <1>9
<1> QED
  BY <1>4, <1>10, <1>11 DEF Char

\* Two texts that are the same from i to j.
LEMMA SameText ==
  ASSUME NEW S, NEW s, NEW t, NEW i \in Int, NEW j \in Int,
         \A k \in i..j : s[k] \in S /\ s[k] = t[k]
  PROVE  SubSeq(s, i, j) = SubSeq(t, i, j)
<1>1. /\ SubSeq(s, i, j) \in Seq(S) /\ Len(SubSeq(s, i, j)) = IF i <= j THEN j - i + 1 ELSE 0
      /\ \A k \in 1..(j - i + 1) : SubSeq(s, i, j)[k] = s[i + k - 1]
  BY SubSeqProperties
<1>2. /\ SubSeq(t, i, j) \in Seq(S) /\ Len(SubSeq(t, i, j)) = IF i <= j THEN j - i + 1 ELSE 0
      /\ \A k \in 1..(j - i + 1) : SubSeq(t, i, j)[k] = t[i + k - 1]
  <2>1. \A k \in i..j : t[k] \in S
    OBVIOUS
  <2> QED
    BY <2>1, SubSeqProperties
<1>3. PICK a, b : a = SubSeq(s, i, j) /\ b = SubSeq(t, i, j)
  OBVIOUS
<1>4. a \in Seq(S) /\ b \in Seq(S) /\ Len(a) = Len(b)
  BY <1>1, <1>2, <1>3
<1>5. \A k \in 1..Len(a) : a[k] = b[k]
  <2>1. ASSUME NEW k \in 1..Len(a)
        PROVE  a[k] = b[k]
    <3>1. k \in 1..(j - i + 1) /\ i + k - 1 \in i..j
      BY <1>1, <1>3
    <3>2. a[k] = s[i + k - 1] /\ b[k] = t[i + k - 1]
      BY <1>1, <1>2, <1>3, <3>1
    <3>3. PICK z \in i..j : z = i + k - 1
      BY <3>1
    <3> QED
      BY <3>2, <3>3
  <2> QED
    BY <2>1
<1>6. a = b
  BY ONLY <1>4, <1>5, SeqEqual
<1> QED
  BY <1>3, <1>6

\* A kept field reads as it was sent.
LEMMA TextKept ==
  ASSUME NEW r, r.raw \in Seq(Token), NEW m, NEW f \in FieldType, Intact(r, m, f),
         End(f) <= Len(r.raw), NUL \notin Over(m, f.pos, End(f))
  PROVE  Text(r, f.pos) = Said(m, f)
<1>1. Len(r.raw) \in Nat /\ \A k \in 1..Len(r.raw) : r.raw[k] \in Token
  OBVIOUS
<1>2. PICK p, e : p = f.pos /\ e = End(f)
  OBVIOUS
<1>3. p \in Nat /\ e \in p..Len(r.raw) /\ e \in Nat
  BY <1>1, <1>2, FieldIs
<1>4. \A k \in (p + 1)..e : r.raw[k] = m.text[k] /\ r.raw[k] \in Token
  BY <1>1, <1>2, <1>3 DEF Intact
<1>5. \A k \in p..(e - 1) : Char(r, k) # NUL
  <2>1. ASSUME NEW k \in p..(e - 1)
        PROVE  Char(r, k) # NUL
    <3>1. k + 1 \in (p + 1)..e /\ k < Len(r.raw)
      BY <1>1, <1>3
    <3>2. Char(r, k) = At(m, k)
      BY <1>4, <3>1 DEF Char, At
    <3> QED
      BY <1>2, <3>2, OverAt
  <2> QED
    BY <2>1
<1>6. Text(r, p) = SubSeq(r.raw, p + 1, e)
  BY <1>1, <1>2, <1>3, <1>5, TextIs DEF Intact
<1>7. SubSeq(r.raw, p + 1, e) = SubSeq(m.text, p + 1, e)
  BY <1>3, <1>4, SameText
<1> QED
  BY <1>2, <1>6, <1>7 DEF Said

-----------------------------------------------------------------------------
(* The end of a header line.                                                 *)

\* What was kept before the line stays kept.
LEMMA NulsKeepOld ==
  ASSUME NEW r, NEW m, NEW f \in FieldType, Intact(r, m, f), NEW q, NEW i \in Nat, NEW j \in Nat,
         NulsAt(q.raw, r.raw, i, j), End(f) < i, End(f) < j, End(f) < Len(r.raw), Len(r.raw) \in Nat
  PROVE  Intact(q, m, f)
<1>1. f.pos \in Nat /\ End(f) \in Nat /\ f.pos <= End(f)
  BY FieldIs
<1>2. \A k \in (f.pos + 1)..End(f) : q.raw[k] = m.text[k]
  BY <1>1 DEF Intact, NulsAt
<1>3. End(f) + 1 \in 1..Len(q.raw) /\ End(f) < Len(q.raw) /\ End(f) < Len(r.raw)
  BY <1>1 DEF NulsAt
<1>4. r.raw[End(f) + 1] = NUL
  BY <1>3 DEF Intact, Char
<1>5. q.raw[End(f) + 1] = NUL
  BY <1>3, <1>4 DEF NulsAt
<1> QED
  BY <1>2, <1>3, <1>5 DEF Intact, Char

\* A token that is replaced by what it is.
LEMMA PutSame ==
  ASSUME NEW s \in Seq(Token), NEW i, i + 1 \in 1..Len(s), s[i + 1] = NUL
  PROVE  Put(s, i, NUL) = s
<1>1. PICK t, p : t = NUL /\ p = i + 1
  OBVIOUS
<1>2. s[p] = t /\ DOMAIN s = 1..Len(s) /\ s = [k \in DOMAIN s |-> s[k]]
  BY <1>1
<1>3. [s EXCEPT ![p] = t] = s
  BY ONLY <1>2
<1> QED
  BY <1>1, <1>3 DEF Put

\* The headers as the parser's loops leave them.
NoneFold(m) == \A k \in 1..HeaderCount(m) : ~m.layout.headers[k].fold

\* The parser after rtsp_header_add.
LEMMA HeaderAdded ==
  ASSUME Typed(rtsp), NEW h, h = [name |-> rtsp.name, value |-> rtsp.value],
         NEW r, r = rtsp_header_add(Move("HEADER_START", 1), h)
  PROVE  /\ h \in HeaderType /\ h.name = rtsp.name /\ h.value = rtsp.value
         /\ DOMAIN r = DOMAIN rtsp /\ r.stateM = "HEADER_START" /\ r.offset = rtsp.offset + 1
         /\ \A g \in DOMAIN rtsp : g \notin {"stateM", "offset", "raw", "headers"} => r[g] = rtsp[g]
         /\ r.raw \in Seq(Token) /\ NulsAt(r.raw, rtsp.raw, End(rtsp.name), End(rtsp.value))
         /\ r.headers \in Seq(HeaderType) /\ Len(r.headers) = Len(rtsp.headers) + 1
         /\ \A i \in 1..Len(rtsp.headers) : r.headers[i] = rtsp.headers[i]
         /\ r.headers[Len(rtsp.headers) + 1] = h
<1>2. PICK q : q = Move("HEADER_START", 1)
  OBVIOUS
<1>3. PICK raw : raw = Put(Put(rtsp.raw, End(rtsp.name), NUL), End(rtsp.value), NUL)
  OBVIOUS
<1>5. /\ DOMAIN q = DOMAIN rtsp /\ q.stateM = "HEADER_START" /\ q.offset = rtsp.offset + 1
      /\ \A g \in DOMAIN rtsp : g \notin {"stateM", "offset"} => q[g] = rtsp[g]
  BY <1>2, Moved
<1>6. q.raw = rtsp.raw /\ q.headers = rtsp.headers
  BY ONLY <1>5, Typed(rtsp) DEF Typed, Shape
<1>7. r = [q EXCEPT !.raw = raw, !.headers = Append(rtsp.headers, h)]
  BY ONLY <1>2, <1>3, <1>6, h = [name |-> rtsp.name, value |-> rtsp.value],
          r = rtsp_header_add(Move("HEADER_START", 1), h) DEF rtsp_header_add, End
<1>9. h \in HeaderType /\ h.name = rtsp.name /\ h.value = rtsp.value
  BY DEF Typed, HeaderType
<1>11. raw \in Seq(Token) /\ NulsAt(raw, rtsp.raw, End(rtsp.name), End(rtsp.value))
  BY <1>3, TwoNuls DEF NulsAt
<1>12. /\ DOMAIN r = DOMAIN rtsp /\ r.stateM = "HEADER_START" /\ r.offset = rtsp.offset + 1
       /\ r.raw = raw /\ r.headers = Append(rtsp.headers, h)
       /\ \A g \in DOMAIN rtsp : g \notin {"stateM", "offset", "raw", "headers"} => r[g] = rtsp[g]
  BY ONLY <1>5, <1>7, Typed(rtsp) DEF Typed, Shape
<1>13. PICK hs : hs = Append(rtsp.headers, h)
  OBVIOUS
<1>14. /\ hs \in Seq(HeaderType) /\ Len(hs) = Len(rtsp.headers) + 1
       /\ \A i \in 1..Len(rtsp.headers) : hs[i] = rtsp.headers[i]
       /\ hs[Len(rtsp.headers) + 1] = h
  <2>1. rtsp.headers \in Seq(HeaderType)
    BY DEF Typed
  <2> QED
    BY ONLY <2>1, <1>9, <1>13, AppendProperties
<1>15. r.headers = hs /\ r.raw = raw
  BY <1>12, <1>13
<1> QED
  BY ONLY <1>9, <1>11, <1>12, <1>14, <1>15

\* What a header gave is noted with it,
LEMMA NotedNext ==
  ASSUME NEW m, NEW k \in Nat \ {0}, NEW v, NEW w, NEW name, NEW given, NEW none,
         NotedAs(m, k, v, name, given, none),
         Name(m, k) # name => w = v,
         Name(m, k) = name => w = given[k] /\ \A i \in 1..(k - 1) : Name(m, i) # name
  PROVE  NotedAs(m, k + 1, w, name, given, none)
<1>1. 1..((k + 1) - 1) = (1..(k - 1)) \cup {k}
  OBVIOUS
<1>2. CASE Name(m, k) = name
  BY <1>1, <1>2 DEF NotedAs
<1>3. CASE Name(m, k) # name
  BY <1>1, <1>3 DEF NotedAs
<1> QED
  BY <1>2, <1>3

\* and the name is a new one.
LEMMA NewName ==
  ASSUME NEW m, HeadersFormed(m), NoneFold(m), NEW k \in 1..HeaderCount(m), NEW i \in 1..(k - 1)
  PROVE  Name(m, i) # Name(m, k)
<1>1. HeaderCount(m) \in Nat
  BY DEF HeadersFormed, HeaderCount
<1>2. i \in 1..HeaderCount(m) /\ i # k
  BY <1>1
<1>3. ~m.layout.headers[i].fold /\ ~m.layout.headers[k].fold
  BY <1>2 DEF NoneFold
<1>4. \A a \in {x \in 1..HeaderCount(m) : ~m.layout.headers[x].fold} :
        \A b \in {x \in 1..HeaderCount(m) : ~m.layout.headers[x].fold} : Name(m, a) = Name(m, b) => a = b
  BY DEF HeadersFormed
<1> QED
  BY ONLY <1>2, <1>3, <1>4, k \in 1..HeaderCount(m)

\* A message that is not folded has no fold.
LEMMA NotFolded ==
  ASSUME NEW m, HeadersFormed(m), ~m.folded
  PROVE  NoneFold(m)
<1>1. ASSUME NEW k \in 1..HeaderCount(m), m.layout.headers[k].fold
      PROVE  FALSE
  <2>1. HeaderFormed(m, k)
    BY DEF HeadersFormed
  <2> QED
    BY <1>1, <2>1 DEF HeaderFormed
<1> QED
  BY <1>1 DEF NoneFold

\* Before line k the body is known to be chunked, if a header has said so.
LEMMA ChunkedKnown ==
  ASSUME NEW m, HeadersFormed(m), NoneFold(m), BodyFormed(m), NEW k \in 1..(HeaderCount(m) + 1),
         NEW r, r.raw \in Seq(Token), NEW i, i <= Len(r.raw), Listed(r, m, k, i), i \in Nat
  PROVE  is_transfer_encoding_chunked(r) <=> \E j \in 1..(k - 1) : ChunkedBy(m, j)
<1>1. HeaderCount(m) \in Nat /\ Len(r.raw) \in Nat
  BY DEF HeadersFormed, HeaderCount
<1>2. NotedAs(m, k, r.transfer_encoding, "Transfer-Encoding", Places(m), 0)
  BY DEF Listed
<1>3. CASE \E j \in 1..(k - 1) : Name(m, j) = "Transfer-Encoding"
  <2>1. PICK j \in 1..(k - 1) : Name(m, j) = "Transfer-Encoding"
    BY <1>3
  <2>2. j \in 1..HeaderCount(m)
    BY <1>1
  <2>3. PICK h, f : h = m.layout.headers[j] /\ f = h.value
    OBVIOUS
  <2>4. r.transfer_encoding = f.pos
    BY <1>2, <2>1, <2>2, <2>3 DEF NotedAs, Places
  <2>5. HeaderPlaces(h, Start(m, j), Start(m, j + 1)) /\ Phrase(m, f, h.end)
    BY <1>1, <2>2, <2>3, HeaderLinePlaces DEF HeadersFormed
  <2>6. f \in FieldType /\ f.pos \in Nat /\ f.pos > 0 /\ f.len \in Nat /\ End(f) = f.pos + f.len
    BY <2>3, <2>5, FieldIs DEF HeaderPlaces
  <2>7. Intact(r, m, f) /\ End(f) < i
    BY <2>1, <2>3 DEF Listed
  <2>8. ~h.fold /\ ~MeasuredBy(m, j)
    BY <2>1, <2>2, <2>3 DEF NoneFold, MeasuredBy
  <2>9. CASE f.len = 0
    <3>1. Char(r, f.pos) = NUL
      BY <2>6, <2>7, <2>9 DEF Intact
    <3>2. ~is_transfer_encoding_chunked(r)
      BY <2>4, <3>1 DEF is_transfer_encoding_chunked, NUL
    <3>3. \A x \in 1..(k - 1) : ~ChunkedBy(m, x)
      <4>1. ASSUME NEW x \in 1..(k - 1), ChunkedBy(m, x)
            PROVE  FALSE
        <5>1. x \in 1..HeaderCount(m)
          BY <1>1
        <5>2. m.layout.headers[x].value.len = 1 /\ Name(m, x) = "Transfer-Encoding"
          BY <4>1, <5>1 DEF BodyFormed, ChunkedBy
        <5>3. x = j
          BY <2>1, <2>2, <2>8, <2>3, <5>1, <5>2 DEF HeadersFormed, NoneFold
        <5> QED
          BY <2>3, <2>9, <5>2, <5>3
      <4> QED
        BY <4>1
    <3> QED
      BY <3>2, <3>3
  <2>10. CASE f.len # 0
    <3>1. f.pos + 1 \in (f.pos + 1)..End(f) /\ f.pos < Len(r.raw)
      BY <1>1, <2>6, <2>7, <2>10
    <3>2. Char(r, f.pos) = At(m, f.pos)
      BY <2>7, <3>1 DEF Intact, Char, At
    <3>3. is_transfer_encoding_chunked(r) <=> At(m, f.pos) = "chunked"
      BY <2>4, <2>6, <3>2 DEF is_transfer_encoding_chunked
    <3>4. At(m, f.pos) = "chunked" => ChunkedBy(m, j)
      BY <2>1, <2>3, <2>8 DEF ChunkedBy
    <3>5. ASSUME NEW x \in 1..(k - 1), ChunkedBy(m, x)
          PROVE  At(m, f.pos) = "chunked"
      <4>1. x \in 1..HeaderCount(m) /\ Name(m, x) = "Transfer-Encoding"
        BY <1>1, <3>5 DEF ChunkedBy
      <4>2. x = j
        BY <2>1, <2>2, <2>8, <2>3, <4>1 DEF HeadersFormed, NoneFold
      <4> QED
        BY <2>3, <3>5, <4>2 DEF ChunkedBy
    <3> QED
      BY <3>3, <3>4, <3>5
  <2> QED
    BY <2>9, <2>10
<1>4. CASE \A j \in 1..(k - 1) : Name(m, j) # "Transfer-Encoding"
  <2>1. r.transfer_encoding = 0
    BY <1>2, <1>4 DEF NotedAs
  <2>2. ~is_transfer_encoding_chunked(r)
    BY <2>1 DEF is_transfer_encoding_chunked
  <2> QED
    BY <1>4, <2>2 DEF ChunkedBy
<1> QED
  BY <1>3, <1>4

-----------------------------------------------------------------------------
(* rtsp_header_add on a well formed header.                                  *)

\* The parser stands at the end of header line k, with its name and value.
AtHeaderEnd(m, k) ==
  LET h == m.layout.headers[k] IN
  /\ k \in 1..HeaderCount(m) /\ ~h.fold /\ rtsp.name = h.name /\ rtsp.value = h.value
  /\ rtsp.offset = Start(m, k + 1) - 1
  /\ Unread(rtsp, m, Start(m, k)) /\ rtsp.offset < Len(rtsp.raw) /\ Len(rtsp.raw) <= Len(m.text)

\* What the added header reads as, and what it leaves.
LEMMA AddedReads ==
  ASSUME Typed(rtsp), NEW m, HeadersFormed(m), NEW k, AtHeaderEnd(m, k),
         NEW h, h = m.layout.headers[k], NEW r, r.raw \in Seq(Token),
         NulsAt(r.raw, rtsp.raw, End(rtsp.name), End(rtsp.value))
  PROVE  /\ HeaderPlaces(h, Start(m, k), Start(m, k + 1))
         /\ Start(m, k + 1) <= Len(r.raw) /\ Start(m, k + 1) = rtsp.offset + 1
         /\ Intact(r, m, h.name) /\ Intact(r, m, h.value) /\ Unread(r, m, Start(m, k + 1))
         /\ \A f \in FieldType : Intact(rtsp, m, f) /\ End(f) < Start(m, k) => Intact(r, m, f)
         /\ Char(rtsp, h.name.pos) = Name(m, k) /\ Char(r, h.name.pos) = Name(m, k)
         /\ Text(r, h.name.pos) = <<Name(m, k)>> /\ Text(r, h.value.pos) = Said(m, h.value)
         /\ Char(r, h.value.pos) = IF h.value.len = 0 THEN NUL ELSE At(m, h.value.pos)
<1>0. PICK o, s, e, n : /\ o = rtsp.offset /\ s = Start(m, k) /\ e = Start(m, k + 1)
                        /\ n = Len(rtsp.raw)
  OBVIOUS
<1>1. o \in Nat /\ HeaderCount(m) \in Nat /\ n \in Nat
  BY <1>0 DEF Typed, HeadersFormed, HeaderCount
<1>2. /\ k \in 1..HeaderCount(m) /\ ~h.fold /\ rtsp.name = h.name /\ rtsp.value = h.value
      /\ o = e - 1 /\ Unread(rtsp, m, s) /\ o < n
  BY <1>0 DEF AtHeaderEnd
<1>3. HeaderFormed(m, k)
  BY <1>2 DEF HeadersFormed
<1>4. /\ HeaderPlaces(h, s, e) /\ Phrase(m, h.value, h.end)
  BY <1>0, <1>1, <1>2, <1>3, HeaderLinePlaces
<1>5. PICK a, b, i, j : a = h.name.pos /\ b = h.value.pos /\ i = End(h.name) /\ j = End(h.value)
  OBVIOUS
<1>6. /\ s \in Nat /\ e \in Nat /\ a \in Nat /\ b \in Nat /\ i \in Nat /\ j \in Nat
      /\ a = s /\ i = s + 1 /\ i < b /\ b <= j /\ j < e /\ j <= o /\ e <= n /\ e = o + 1
      /\ h.name \in FieldType /\ h.value \in FieldType /\ h.name.len = 1
  <2>1. PICK d : d = h.end
    OBVIOUS
  <2>2. /\ s \in Nat /\ e \in Nat /\ a \in Nat /\ b \in Nat /\ i \in Nat /\ j \in Nat /\ d \in Nat
        /\ a = s /\ i = s + 1 /\ b <= j /\ j <= d /\ d < e
        /\ h.name \in FieldType /\ h.value \in FieldType /\ h.name.len = 1
    BY ONLY <1>2, <1>4, <1>5, <2>1 DEF HeaderPlaces
  <2>3. i < b
    <3>1. PICK c : c = h.colon
      OBVIOUS
    <3>2. c \in Nat /\ s < c /\ c < b
      BY ONLY <1>2, <1>4, <1>5, <3>1 DEF HeaderPlaces
    <3> QED
      BY ONLY <2>2, <3>2
  <2>4. o = e - 1 /\ o < n
    BY ONLY <1>2
  <2> QED
    BY ONLY <1>1, <2>2, <2>3, <2>4
<1>7. NulsAt(r.raw, rtsp.raw, i, j) /\ Len(r.raw) = n
  BY <1>0, <1>2, <1>5 DEF NulsAt
<1>8. Unread(r, m, e)
  BY <1>0, <1>1, <1>2, <1>6, <1>7, NulsUnread
<1>9. Intact(r, m, h.name) /\ Intact(r, m, h.value)
  <2>1. PICK f, g : f = h.name /\ g = h.value
    OBVIOUS
  <2>2. /\ f \in FieldType /\ g \in FieldType /\ s <= f.pos /\ s <= g.pos
        /\ End(f) \in {i, j} /\ End(g) \in {i, j} /\ End(f) <= i /\ End(f) <= j
        /\ i < g.pos /\ End(g) <= j /\ End(f) < n /\ End(g) < n
    <3>1. f.pos = a /\ g.pos = b /\ End(f) = i /\ End(g) = j
      BY ONLY <1>5, <2>1
    <3>2. f \in FieldType /\ g \in FieldType
      BY ONLY <1>6, <2>1
    <3>3. s <= a /\ s <= b /\ i <= j /\ i < n /\ j < n /\ i < b /\ i <= i /\ j <= j
      BY ONLY <1>1, <1>6
    <3> QED
      BY ONLY <3>1, <3>2, <3>3
  <2>3. Unread(rtsp, m, s)
    BY <1>2
  <2>4. Intact(r, m, f)
    BY ONLY <1>0, <1>1, <1>6, <1>7, <2>2, <2>3, NulsKeep
  <2>5. Intact(r, m, g)
    BY ONLY <1>0, <1>1, <1>6, <1>7, <2>2, <2>3, NulsKeep
  <2> QED
    BY <2>1, <2>4, <2>5
<1>10. \A f \in FieldType : Intact(rtsp, m, f) /\ End(f) < s => Intact(r, m, f)
  <2>1. ASSUME NEW f \in FieldType, Intact(rtsp, m, f), End(f) < s
        PROVE  Intact(r, m, f)
    <3>1. End(f) \in Nat
      BY FieldIs
    <3>2. End(f) < i /\ End(f) < j /\ End(f) < n
      BY <1>1, <1>6, <2>1, <3>1
    <3> QED
      BY <1>0, <1>1, <1>6, <1>7, <2>1, <3>2, NulsKeepOld
  <2> QED
    BY <2>1
<1>11. Name(m, k) \notin {SP, CR, LF, COLON, NUL}
  BY <1>2, <1>3 DEF HeaderFormed
<1>12. Char(rtsp, a) = Name(m, k)
  BY <1>0, <1>1, <1>2, <1>5, <1>6, UnreadChar DEF Name
<1>13. Char(r, a) = Name(m, k)
  <2>1. a + 1 \in (a + 1)..i /\ a < Len(r.raw)
    BY <1>1, <1>6, <1>7
  <2> QED
    BY <1>5, <1>9, <2>1 DEF Intact, Char, Name, At
<1>14. Text(r, a) = <<Name(m, k)>>
  <2>1. \A x \in a..(i - 1) : x = a
    BY <1>6
  <2>2. Over(m, a, i) \subseteq {Name(m, k)}
    BY <1>5, <2>1 DEF Over, Name
  <2>3. Text(r, a) = Said(m, h.name)
    <3>1. PICK f : f = h.name
      OBVIOUS
    <3>2. /\ f \in FieldType /\ Intact(r, m, f) /\ End(f) <= Len(r.raw) /\ f.pos = a
          /\ NUL \notin Over(m, f.pos, End(f))
      <4>1. f.pos = a /\ End(f) = i /\ f \in FieldType /\ Intact(r, m, f)
        BY ONLY <1>5, <1>6, <1>9, <3>1
      <4>2. i <= Len(r.raw)
        BY ONLY <1>1, <1>6, <1>7
      <4>3. NUL \notin Over(m, a, i)
        BY ONLY <1>11, <2>2
      <4> QED
        BY ONLY <4>1, <4>2, <4>3
    <3>3. Text(r, f.pos) = Said(m, f)
      BY ONLY <3>2, r.raw \in Seq(Token), TextKept
    <3> QED
      BY <3>1, <3>2, <3>3
  <2>4. Said(m, h.name) = <<Name(m, k)>>
    <3>1. PICK t, p : t = m.text /\ p = a + 1
      OBVIOUS
    <3>2. Said(m, h.name) = SubSeq(t, p, p)
      BY <1>5, <1>6, <3>1 DEF Said
    <3>3. p \in Int /\ t[p] = Name(m, k) /\ \A x \in p..p : x = p
      BY <1>5, <1>6, <3>1 DEF Name, At
    <3>4. PICK S : S = {t[p]}
      OBVIOUS
    <3>5. \A x \in p..p : t[x] \in S
      BY <3>3, <3>4
    <3>6. /\ SubSeq(t, p, p) \in Seq(S) /\ Len(SubSeq(t, p, p)) = IF p <= p THEN p - p + 1 ELSE 0
          /\ \A x \in 1..(p - p + 1) : SubSeq(t, p, p)[x] = t[p + x - 1]
      BY ONLY <3>3, <3>5, SubSeqProperties
    <3>7. PICK q : q = SubSeq(t, p, p)
      OBVIOUS
    <3>8. q \in Seq(S) /\ Len(q) = 1
      BY ONLY <3>3, <3>6, <3>7
    <3>9. q[1] \in S
      BY ONLY <3>8
    <3>10. q = <<q[1]>>
      BY ONLY <3>8
    <3> QED
      BY ONLY <3>2, <3>3, <3>4, <3>7, <3>9, <3>10
  <2> QED
    BY <2>3, <2>4
<1>15. Text(r, b) = Said(m, h.value)
  BY <1>1, <1>4, <1>5, <1>6, <1>7, <1>9, TextKept DEF Phrase
<1>16. Char(r, b) = IF h.value.len = 0 THEN NUL ELSE At(m, b)
  <2>1. h.value.len \in Nat /\ j = b + h.value.len
    BY <1>5, <1>6, FieldIs
  <2>2. CASE h.value.len = 0
    BY <1>5, <1>6, <1>9, <2>1, <2>2 DEF Intact
  <2>3. CASE h.value.len # 0
    <3>1. b + 1 \in (b + 1)..j /\ b < Len(r.raw)
      <4>1. PICK l : l = h.value.len
        OBVIOUS
      <4>2. /\ l \in Nat /\ l # 0 /\ b \in Nat /\ j = b + l /\ j < e /\ e <= n /\ e \in Nat
            /\ n \in Nat /\ Len(r.raw) = n
        BY ONLY <1>1, <1>6, <1>7, <2>1, <2>3, <4>1
      <4> QED
        BY ONLY <4>2
    <3> QED
      BY <1>5, <1>9, <2>3, <3>1 DEF Intact, Char, At
  <2> QED
    BY <2>2, <2>3
<1> QED
  BY ONLY <1>0, <1>4, <1>5, <1>6, <1>7, <1>8, <1>9, <1>10, <1>12, <1>13, <1>14, <1>15, <1>16

\* What a length is that ends with the text.
LEMMA NumberIsLength ==
  ASSUME NEW m, HeadersFormed(m), Sized(m), NEW w \in DOMAIN Number,
         Len(m.text) = m.layout.body + Number[w]
  PROVE  Number[w] \in Nat
<1>1. /\ m.layout.body \in Nat /\ m.layout.body <= Len(m.text) /\ Len(m.text) \in Nat
      /\ Number[w] \in Int
  BY NumberAssumption DEF HeadersFormed, Sized
<1> QED
  BY ONLY <1>1, Len(m.text) = m.layout.body + Number[w]

\* The parser finds no length that is negative, nor the body measured in two ways.
LEMMA NoBadLength ==
  ASSUME Typed(rtsp), NEW m, HeadersFormed(m), BodyFormed(m), Sized(m), NEW k, AtHeaderEnd(m, k),
         LinesKept(rtsp, m, k), NotedAs(m, k, rtsp.content_length, "Content-Length", Lengths(m), -1),
         NEW h, h = [name |-> rtsp.name, value |-> rtsp.value],
         NEW r, r = rtsp_header_add(Move("HEADER_START", 1), h)
  PROVE  ~BadLength(r, h)
<1>0. PICK g : g = m.layout.headers[k]
  OBVIOUS
<1>1. /\ h.name = g.name /\ h.value = g.value /\ ~g.fold /\ k \in 1..HeaderCount(m)
      /\ HeaderCount(m) \in Nat
  BY <1>0 DEF AtHeaderEnd, HeadersFormed, HeaderCount
<1>2. /\ r.raw \in Seq(Token) /\ NulsAt(r.raw, rtsp.raw, End(rtsp.name), End(rtsp.value))
      /\ \A x \in DOMAIN rtsp : x \notin {"stateM", "offset", "raw", "headers"} => r[x] = rtsp[x]
      /\ \A i \in 1..Len(rtsp.headers) : r.headers[i] = rtsp.headers[i]
  BY HeaderAdded
<1>3. r.content_length = rtsp.content_length /\ r.transfer_encoding = rtsp.transfer_encoding
  BY <1>2, Typed(rtsp) DEF Typed, Shape
<1>4. /\ Text(r, h.name.pos) = <<Name(m, k)>> /\ HeaderPlaces(g, Start(m, k), Start(m, k + 1))
      /\ Char(r, h.value.pos) = IF g.value.len = 0 THEN NUL ELSE At(m, g.value.pos)
      /\ \A f \in FieldType : Intact(rtsp, m, f) /\ End(f) < Start(m, k) => Intact(r, m, f)
      /\ Start(m, k + 1) <= Len(r.raw)
  BY <1>0, <1>1, <1>2, AddedReads
<1>5. CASE m.folded
  <2>1. Name(m, k) \notin {"Content-Length", "Transfer-Encoding"}
    BY <1>0, <1>1, <1>5 DEF BodyFormed
  <2>2. <<Name(m, k)>> # <<"Content-Length">> /\ <<Name(m, k)>> # <<"Transfer-Encoding">>
    BY <2>1
  <2> QED
    BY <1>4, <2>2 DEF BadLength
<1>6. CASE ~m.folded
  <2>1. NoneFold(m)
    BY <1>6, NotFolded
  <2>2. Listed(rtsp, m, k, Start(m, k))
    BY <1>6 DEF LinesKept
  <2>3. is_transfer_encoding_chunked(rtsp) <=> \E j \in 1..(k - 1) : ChunkedBy(m, j)
    <3>1. PICK s, e : s = Start(m, k) /\ e = Start(m, k + 1)
      OBVIOUS
    <3>2. s \in Nat /\ e \in Nat /\ s <= e
      BY ONLY <1>4, <3>1 DEF HeaderPlaces
    <3>3. e <= Len(rtsp.raw) /\ Len(rtsp.raw) \in Nat
      BY ONLY <1>2, <1>4, <3>1 DEF NulsAt
    <3>4. s <= Len(rtsp.raw)
      BY ONLY <3>2, <3>3
    <3>5. k \in 1..(HeaderCount(m) + 1)
      BY ONLY <1>1
    <3> QED
      BY <2>1, <2>2, <3>1, <3>2, <3>4, <3>5, ChunkedKnown DEF Typed
  <2>4. is_transfer_encoding_chunked(r) => is_transfer_encoding_chunked(rtsp)
    <3>1. PICK i : i = rtsp.transfer_encoding
      OBVIOUS
    <3>2. i \in Nat /\ Len(r.raw) \in Nat /\ Len(r.raw) = Len(rtsp.raw)
      BY <1>2, <3>1 DEF Typed, NulsAt
    <3>3. Char(r, i) \in {Char(rtsp, i), NUL}
      <4>1. CASE i < Len(r.raw)
        <5>1. i + 1 \in 1..Len(r.raw)
          BY <3>2, <4>1
        <5>2. r.raw[i + 1] \in {rtsp.raw[i + 1], NUL}
          BY <1>2, <5>1 DEF NulsAt
        <5> QED
          BY <3>2, <4>1, <5>2 DEF Char
      <4>2. CASE ~(i < Len(r.raw))
        BY <4>2 DEF Char
      <4> QED
        BY <4>1, <4>2
    <3> QED
      BY <1>3, <3>1, <3>3 DEF is_transfer_encoding_chunked, NUL
  <2>5. CASE Name(m, k) = "Content-Length"
    <3>1. MeasuredBy(m, k)
      BY <1>0, <1>1, <2>5 DEF MeasuredBy
    <3>2. \A x \in 1..HeaderCount(m) : ~ChunkedBy(m, x)
      BY <1>1, <3>1 DEF BodyFormed
    <3>3. ~is_transfer_encoding_chunked(r)
      BY <1>1, <2>3, <2>4, <3>2
    <3>4. Text(r, h.name.pos) # <<"Transfer-Encoding">>
      BY <1>4, <2>5
    <3>5. ~(atoi(Char(r, h.value.pos)) < 0)
      <4>1. PICK w : w = At(m, g.value.pos)
        OBVIOUS
      <4>2. g.value.len > 0 /\ w \in DOMAIN Number /\ Len(m.text) = m.layout.body + Number[w]
        BY <1>0, <1>1, <3>1, <3>2, <4>1 DEF BodyFormed
      <4>3. g.value.len # 0
        BY ONLY <4>2
      <4>4. Char(r, h.value.pos) = w
        BY <1>4, <4>1, <4>3
      <4>5. Number[w] \in Nat
        BY <4>2, NumberIsLength
      <4>6. atoi(w) = Number[w]
        BY <4>2 DEF atoi
      <4> QED
        BY ONLY <4>4, <4>5, <4>6
    <3> QED
      BY <3>3, <3>4, <3>5 DEF BadLength
  <2>6. CASE Name(m, k) = "Transfer-Encoding"
    <3>1. Text(r, h.name.pos) # <<"Content-Length">>
      BY <1>4, <2>6
    <3>2. CASE Char(r, h.value.pos) # "chunked"
      BY <3>1, <3>2 DEF BadLength
    <3>3. CASE Char(r, h.value.pos) = "chunked"
      <4>1. At(m, g.value.pos) = "chunked"
        BY <1>4, <3>3 DEF NUL
      <4>2. ChunkedBy(m, k)
        BY <1>0, <1>1, <2>6, <4>1 DEF ChunkedBy
      <4>3. \A x \in 1..HeaderCount(m) : ~MeasuredBy(m, x)
        BY <1>1, <4>2 DEF BodyFormed
      <4>4. \A x \in 1..(k - 1) : Name(m, x) # "Content-Length"
        <5>1. ASSUME NEW x \in 1..(k - 1)
              PROVE  Name(m, x) # "Content-Length"
          <6>1. x \in 1..HeaderCount(m)
            BY <1>1
          <6> QED
            BY <2>1, <4>3, <6>1 DEF NoneFold, MeasuredBy
        <5> QED
          BY <5>1
      <4>5. rtsp.content_length = -1
        BY <4>4 DEF NotedAs
      <4> QED
        BY <1>3, <3>1, <4>5 DEF BadLength
    <3> QED
      BY <3>2, <3>3
  <2>7. CASE Name(m, k) \notin {"Content-Length", "Transfer-Encoding"}
    BY <1>4, <2>7 DEF BadLength
  <2> QED
    BY <2>5, <2>6, <2>7
<1> QED
  BY <1>5, <1>6

\* What rtsp_header_handler notes of a well formed header; the text it leaves alone.
LEMMA AddedHandled ==
  ASSUME Typed(rtsp), NEW m, HeadersFormed(m), BodyFormed(m), NEW k, AtHeaderEnd(m, k),
         NEW h, h = [name |-> rtsp.name, value |-> rtsp.value],
         NEW r, r = rtsp_header_add(Move("HEADER_START", 1), h),
         NEW q, q = rtsp_header_handler(r, h), NEW w, w = Name(m, k)
  PROVE  /\ HandlerKeeps(r, q) /\ q.raw = r.raw
         /\ q.content_length = IF w = "Content-Length" THEN Lengths(m)[k] ELSE rtsp.content_length
         /\ q.transfer_encoding =
              IF w = "Transfer-Encoding" THEN Places(m)[k] ELSE rtsp.transfer_encoding
         /\ q.connection_close = IF w = "Connection" THEN Closes(m)[k] ELSE rtsp.connection_close
         /\ q.content_encoding =
              IF w = "Content-Encoding" THEN Places(m)[k] ELSE rtsp.content_encoding
         /\ q.cookie = IF w = "Set-Cookie" THEN Places(m)[k] ELSE rtsp.cookie
         /\ q.location = IF w = "Location" THEN Places(m)[k] ELSE rtsp.location
<1>0. PICK g, name : g = m.layout.headers[k] /\ name = Text(r, h.name.pos)
  OBVIOUS
<1>1. /\ h.name = g.name /\ h.value = g.value /\ ~g.fold /\ k \in 1..HeaderCount(m)
  BY <1>0 DEF AtHeaderEnd
<1>2. /\ DOMAIN r = DOMAIN rtsp /\ r.raw \in Seq(Token)
      /\ NulsAt(r.raw, rtsp.raw, End(rtsp.name), End(rtsp.value))
      /\ \A x \in DOMAIN rtsp : x \notin {"stateM", "offset", "raw", "headers"} => r[x] = rtsp[x]
  BY HeaderAdded
<1>3. /\ r.content_length = rtsp.content_length /\ r.transfer_encoding = rtsp.transfer_encoding
      /\ r.connection_close = rtsp.connection_close /\ r.content_encoding = rtsp.content_encoding
      /\ r.cookie = rtsp.cookie /\ r.location = rtsp.location /\ Shape(r)
  BY ONLY <1>2, Typed(rtsp) DEF Typed, Shape
<1>4. /\ name = <<w>> /\ HeaderPlaces(g, Start(m, k), Start(m, k + 1))
      /\ Char(r, g.value.pos) = IF g.value.len = 0 THEN NUL ELSE At(m, g.value.pos)
      /\ Intact(r, m, g.value) /\ Start(m, k + 1) <= Len(r.raw)
      /\ Text(r, g.value.pos) = Said(m, g.value)
  BY <1>0, <1>1, <1>2, AddedReads
<1>5. /\ HandlerKeeps(r, q)
      /\ name = <<"Content-Length">> => q.content_length = atoi(Char(r, g.value.pos))
      /\ name # <<"Content-Length">> => q.content_length = r.content_length
      /\ name = <<"Transfer-Encoding">> =>
           /\ q.transfer_encoding = g.value.pos
           /\ q.raw = IF Char(r, g.value.pos) = "chunked" THEN Put(r.raw, g.value.pos + 1, NUL)
                      ELSE r.raw
      /\ name # <<"Transfer-Encoding">> =>
           q.transfer_encoding = r.transfer_encoding /\ q.raw = r.raw
      /\ name = <<"Connection">> =>
           q.connection_close = IF Text(r, g.value.pos) = <<"close">> THEN 1 ELSE 0
      /\ name # <<"Connection">> => q.connection_close = r.connection_close
      /\ name = <<"Content-Encoding">> => q.content_encoding = g.value.pos
      /\ name # <<"Content-Encoding">> => q.content_encoding = r.content_encoding
      /\ name = <<"Set-Cookie">> => q.cookie = g.value.pos
      /\ name # <<"Set-Cookie">> => q.cookie = r.cookie
      /\ name = <<"Location">> => q.location = g.value.pos
      /\ name # <<"Location">> => q.location = r.location
  BY <1>0, <1>1, <1>3, HandlerSteps
<1>6. \A x : name = <<x>> <=> w = x
  BY ONLY <1>4
<1>7. /\ Places(m)[k] = g.value.pos
      /\ Lengths(m)[k] = atoi(At(m, g.value.pos))
      /\ Closes(m)[k] = IF Said(m, g.value) = <<"close">> THEN 1 ELSE 0
  BY <1>0, <1>1 DEF Places, Lengths, Closes
<1>8. ASSUME w = "Content-Length"
      PROVE  Char(r, g.value.pos) = At(m, g.value.pos)
  <2>1. MeasuredBy(m, k)
    BY <1>0, <1>1, <1>8 DEF MeasuredBy
  <2>2. g.value.len > 0
    BY <1>0, <1>1, <2>1 DEF BodyFormed
  <2>3. g.value.len # 0
    BY ONLY <2>2
  <2> QED
    BY <1>4, <2>3
<1>9. ASSUME w = "Transfer-Encoding", Char(r, g.value.pos) = "chunked"
      PROVE  Put(r.raw, g.value.pos + 1, NUL) = r.raw
  <2>1. At(m, g.value.pos) = "chunked"
    BY <1>4, <1>9 DEF NUL
  <2>2. ChunkedBy(m, k)
    BY <1>0, <1>1, <1>9, <2>1 DEF ChunkedBy
  <2>3. g.value.len = 1
    BY <1>0, <1>1, <2>2 DEF BodyFormed
  <2>4. PICK i, e : i = End(g.value) /\ e = Start(m, k + 1)
    OBVIOUS
  <2>5. g.value.pos + 1 = i /\ i \in Nat /\ i < e /\ e <= Len(r.raw) /\ e \in Nat
    <3>1. End(g.value) = g.value.pos + g.value.len /\ End(g.value) \in Nat
      BY <1>4, FieldIs DEF HeaderPlaces
    <3>2. End(g.value) < Start(m, k + 1) /\ Start(m, k + 1) \in Nat
      BY ONLY <1>4, <3>1 DEF HeaderPlaces
    <3> QED
      BY ONLY <1>4, <2>3, <2>4, <3>1, <3>2
  <2>6. Len(r.raw) \in Nat
    BY <1>2
  <2>7. i + 1 \in 1..Len(r.raw) /\ i < Len(r.raw)
    BY ONLY <2>5, <2>6
  <2>8. r.raw[i + 1] = NUL
    BY <1>4, <2>4, <2>7 DEF Intact, Char
  <2> QED
    BY <1>2, <2>5, <2>7, <2>8, PutSame
<1>10. q.raw = r.raw
  BY ONLY <1>5, <1>6, <1>9
<1>11. q.content_length = IF w = "Content-Length" THEN Lengths(m)[k] ELSE rtsp.content_length
  BY ONLY <1>3, <1>5, <1>6, <1>7, <1>8
<1> QED
  BY ONLY <1>3, <1>4, <1>5, <1>6, <1>7, <1>10, <1>11

\* The notes go on with it.
LEMMA AddedNoted ==
  ASSUME NEW m, HeadersFormed(m), NoneFold(m), NEW k \in 1..HeaderCount(m), NEW v, NEW name,
         NEW given, NEW none, NotedAs(m, k, v, name, given, none),
         NEW w, w = IF Name(m, k) = name THEN given[k] ELSE v
  PROVE  NotedAs(m, k + 1, w, name, given, none)
<1>1. k \in Nat \ {0}
  BY DEF HeadersFormed, HeaderCount
<1>2. \A i \in 1..(k - 1) : Name(m, i) # Name(m, k)
  BY NewName
<1> QED
  BY <1>1, <1>2, NotedNext

\* The length is noted of a folded message, too: there is none.
LEMMA LengthNoted ==
  ASSUME NEW m, HeadersFormed(m), BodyFormed(m), NEW k \in 1..HeaderCount(m), NEW v,
         NotedAs(m, k, v, "Content-Length", Lengths(m), -1), Name(m, k) # "Content-Length"
  PROVE  NotedAs(m, k + 1, v, "Content-Length", Lengths(m), -1)
<1>1. k \in Nat \ {0}
  BY DEF HeadersFormed, HeaderCount
<1> QED
  BY <1>1, NotedNext

\* What was kept of a message without a fold is kept, with the new header.
LEMMA AddedListed ==
  ASSUME Typed(rtsp), NEW m, FirstLineFormed(m), HeadersFormed(m), BodyFormed(m), NoneFold(m),
         NEW k, AtHeaderEnd(m, k), FirstKept(rtsp, m, Start(m, k)),
         Listed(rtsp, m, k, Start(m, k)),
         NEW h, h = [name |-> rtsp.name, value |-> rtsp.value],
         NEW r, r = rtsp_header_add(Move("HEADER_START", 1), h),
         NEW q, q = rtsp_header_handler(r, h)
  PROVE  FirstKept(q, m, Start(m, k + 1)) /\ Listed(q, m, k + 1, Start(m, k + 1))
<1>0. PICK g, s, e, l : /\ g = m.layout.headers[k] /\ s = Start(m, k) /\ e = Start(m, k + 1)
                        /\ l = m.layout
  OBVIOUS
<1>1. /\ h.name = g.name /\ h.value = g.value /\ ~g.fold /\ k \in 1..HeaderCount(m)
      /\ HeaderCount(m) \in Nat
  BY <1>0 DEF AtHeaderEnd, HeadersFormed, HeaderCount
<1>2. /\ DOMAIN r = DOMAIN rtsp /\ r.raw \in Seq(Token)
      /\ NulsAt(r.raw, rtsp.raw, End(rtsp.name), End(rtsp.value))
      /\ \A x \in DOMAIN rtsp : x \notin {"stateM", "offset", "raw", "headers"} => r[x] = rtsp[x]
      /\ Len(r.headers) = Len(rtsp.headers) + 1
      /\ \A i \in 1..Len(rtsp.headers) : r.headers[i] = rtsp.headers[i]
      /\ r.headers[Len(rtsp.headers) + 1] = h
  BY HeaderAdded
<1>3. /\ r.method = rtsp.method /\ r.uri = rtsp.uri /\ r.reason = rtsp.reason /\ r.code = rtsp.code
  BY ONLY <1>2, Typed(rtsp) DEF Typed, Shape, LineField
<1>4. /\ HandlerKeeps(r, q) /\ q.raw = r.raw
      /\ q.transfer_encoding =
           IF Name(m, k) = "Transfer-Encoding" THEN Places(m)[k] ELSE rtsp.transfer_encoding
      /\ q.connection_close =
           IF Name(m, k) = "Connection" THEN Closes(m)[k] ELSE rtsp.connection_close
      /\ q.content_encoding =
           IF Name(m, k) = "Content-Encoding" THEN Places(m)[k] ELSE rtsp.content_encoding
      /\ q.cookie = IF Name(m, k) = "Set-Cookie" THEN Places(m)[k] ELSE rtsp.cookie
      /\ q.location = IF Name(m, k) = "Location" THEN Places(m)[k] ELSE rtsp.location
  BY AddedHandled
<1>5. /\ HeaderPlaces(g, s, e) /\ Intact(r, m, g.name) /\ Intact(r, m, g.value)
      /\ \A f \in FieldType : Intact(rtsp, m, f) /\ End(f) < s => Intact(r, m, f)
  BY <1>0, <1>2, AddedReads
<1>6. \A f : Intact(r, m, f) => Intact(q, m, f)
  BY ONLY <1>4 DEF Intact, Char
<1>7. /\ s \in Nat /\ e \in Nat /\ s < e /\ End(g.name) < e /\ End(g.value) < e
  <2>1. g.name \in FieldType /\ g.value \in FieldType /\ End(g.name) \in Nat
        /\ End(g.value) \in Nat
    BY <1>1, <1>5, FieldIs DEF HeaderPlaces
  <2> QED
    BY ONLY <1>1, <1>5, <2>1 DEF HeaderPlaces, FieldType, End
<1>8. \A f \in FieldType : Intact(rtsp, m, f) /\ End(f) < s => Intact(q, m, f) /\ End(f) < e
  <2>1. ASSUME NEW f \in FieldType, Intact(rtsp, m, f), End(f) < s
        PROVE  Intact(q, m, f) /\ End(f) < e
    <3>1. End(f) \in Nat
      BY FieldIs
    <3>2. End(f) < e
      BY ONLY <1>7, <2>1, <3>1
    <3> QED
      BY <1>5, <1>6, <2>1, <3>2
  <2> QED
    BY <2>1
<1>9. FirstKept(q, m, e)
  <2>1. l.first \in FieldType /\ l.second \in FieldType /\ l.third \in FieldType
    BY <1>0 DEF FirstLineFormed, Word, Phrase
  <2>2. /\ q.method = rtsp.method /\ q.uri = rtsp.uri /\ q.reason = rtsp.reason
        /\ q.code = rtsp.code
    BY ONLY <1>3, <1>4 DEF HandlerKeeps
  <2>3. CASE m.server_mode
    <3>1. /\ rtsp.method = l.first /\ Intact(rtsp, m, l.first) /\ End(l.first) < s
          /\ rtsp.uri = l.second /\ Intact(rtsp, m, l.second) /\ End(l.second) < s
      BY <1>0, <2>3 DEF FirstKept
    <3>2. Intact(q, m, l.first) /\ End(l.first) < e /\ Intact(q, m, l.second) /\ End(l.second) < e
      BY ONLY <1>8, <2>1, <3>1
    <3> QED
      BY <1>0, <2>2, <2>3, <3>1, <3>2 DEF FirstKept
  <2>4. CASE ~m.server_mode
    <3>1. /\ rtsp.code = m.code /\ rtsp.reason = l.third
          /\ Intact(rtsp, m, l.third) /\ End(l.third) < s
      BY <1>0, <2>4 DEF FirstKept
    <3>2. Intact(q, m, l.third) /\ End(l.third) < e
      BY ONLY <1>8, <2>1, <3>1
    <3> QED
      BY <1>0, <2>2, <2>4, <3>1, <3>2 DEF FirstKept
  <2> QED
    BY <2>3, <2>4
<1>10. ASSUME NEW j \in 1..k
       PROVE  /\ q.headers[j].name = m.layout.headers[j].name
              /\ q.headers[j].value = m.layout.headers[j].value
              /\ Intact(q, m, m.layout.headers[j].name) /\ End(m.layout.headers[j].name) < e
              /\ Intact(q, m, m.layout.headers[j].value) /\ End(m.layout.headers[j].value) < e
  <2>1. q.headers = r.headers /\ Len(rtsp.headers) = k - 1
    BY <1>4 DEF HandlerKeeps, Listed
  <2>2. CASE j = k
    <3>1. q.headers[j] = h
      <4>1. (k - 1) + 1 = k
        BY <1>1
      <4> QED
        BY ONLY <1>2, <2>1, <2>2, <4>1
    <3> QED
      BY <1>0, <1>1, <1>5, <1>6, <1>7, <2>2, <3>1
  <2>3. CASE j # k
    <3>1. j \in 1..(k - 1) /\ j \in 1..HeaderCount(m)
      BY <1>1, <2>3
    <3>2. PICK f : f = m.layout.headers[j]
      OBVIOUS
    <3>3. q.headers[j] = rtsp.headers[j]
      BY ONLY <1>2, <2>1, <3>1
    <3>4. /\ rtsp.headers[j].name = f.name /\ rtsp.headers[j].value = f.value
          /\ Intact(rtsp, m, f.name) /\ End(f.name) < s
          /\ Intact(rtsp, m, f.value) /\ End(f.value) < s
      BY <1>0, <3>1, <3>2 DEF Listed
    <3>5. f.name \in FieldType /\ f.value \in FieldType
      <4>1. ~f.fold /\ HeaderFormed(m, j)
        BY <3>1, <3>2 DEF HeadersFormed, NoneFold
      <4>2. f.name \in FieldType /\ Phrase(m, f.value, f.end)
        BY <3>2, <4>1 DEF HeaderFormed
      <4> QED
        BY ONLY <4>2 DEF Phrase
    <3>6. Intact(q, m, f.name) /\ End(f.name) < e /\ Intact(q, m, f.value) /\ End(f.value) < e
      BY ONLY <1>8, <3>4, <3>5
    <3> QED
      BY ONLY <3>2, <3>3, <3>4, <3>6
  <2> QED
    BY <2>2, <2>3
<1>11. Len(q.headers) = (k + 1) - 1
  <2>1. q.headers = r.headers /\ Len(rtsp.headers) = k - 1
    BY <1>4 DEF HandlerKeeps, Listed
  <2>2. (k + 1) - 1 = (k - 1) + 1
    BY <1>1
  <2> QED
    BY ONLY <1>2, <2>1, <2>2
<1>12. 1..((k + 1) - 1) = 1..k
  BY <1>1
<1>13. /\ NotedAs(m, k + 1, q.connection_close, "Connection", Closes(m), -1)
       /\ NotedAs(m, k + 1, q.content_encoding, "Content-Encoding", Places(m), 0)
       /\ NotedAs(m, k + 1, q.transfer_encoding, "Transfer-Encoding", Places(m), 0)
       /\ NotedAs(m, k + 1, q.cookie, "Set-Cookie", Places(m), 0)
       /\ NotedAs(m, k + 1, q.location, "Location", Places(m), 0)
  <2>1. /\ NotedAs(m, k, rtsp.connection_close, "Connection", Closes(m), -1)
        /\ NotedAs(m, k, rtsp.content_encoding, "Content-Encoding", Places(m), 0)
        /\ NotedAs(m, k, rtsp.transfer_encoding, "Transfer-Encoding", Places(m), 0)
        /\ NotedAs(m, k, rtsp.cookie, "Set-Cookie", Places(m), 0)
        /\ NotedAs(m, k, rtsp.location, "Location", Places(m), 0)
    BY DEF Listed
  <2> QED
    BY ONLY <1>1, <1>4, <2>1, AddedNoted, HeadersFormed(m), NoneFold(m)
<1>14. Listed(q, m, k + 1, e)
  BY ONLY <1>10, <1>11, <1>12, <1>13 DEF Listed
<1> QED
  BY <1>0, <1>9, <1>14

\* A folded message goes on having no header that measures the body.
LEMMA AddedUnmeasured ==
  ASSUME Typed(rtsp), NEW m, HeadersFormed(m), BodyFormed(m), m.folded,
         NEW k, AtHeaderEnd(m, k), Unmeasured(rtsp, k),
         NEW h, h = [name |-> rtsp.name, value |-> rtsp.value],
         NEW r, r = rtsp_header_add(Move("HEADER_START", 1), h),
         NEW q, q = rtsp_header_handler(r, h)
  PROVE  Unmeasured(q, k + 1) /\ Name(m, k) # "Content-Length"
<1>0. PICK g : g = m.layout.headers[k]
  OBVIOUS
<1>1. /\ h.name = g.name /\ h.value = g.value /\ ~g.fold /\ k \in 1..HeaderCount(m)
  BY <1>0 DEF AtHeaderEnd
<1>2. /\ r.raw \in Seq(Token) /\ NulsAt(r.raw, rtsp.raw, End(rtsp.name), End(rtsp.value))
      /\ Len(r.headers) = Len(rtsp.headers) + 1
      /\ \A i \in 1..Len(rtsp.headers) : r.headers[i] = rtsp.headers[i]
      /\ r.headers[Len(rtsp.headers) + 1] = h
  BY HeaderAdded
<1>3. Name(m, k) \notin {"Content-Length", "Transfer-Encoding"}
  BY <1>0, <1>1 DEF BodyFormed
<1>4. HandlerKeeps(r, q) /\ q.raw = r.raw /\ q.transfer_encoding = rtsp.transfer_encoding
  BY <1>3, AddedHandled
<1>5. Char(r, g.name.pos) = Name(m, k)
  BY <1>0, <1>2, AddedReads
<1>6. Len(rtsp.headers) \in Nat /\ Len(rtsp.raw) \in Nat /\ Len(r.raw) = Len(rtsp.raw)
  BY <1>2 DEF Typed, NulsAt
<1>7. ASSUME NEW j \in 1..Len(q.headers)
      PROVE  Char(q, q.headers[j].name.pos) \notin {"Content-Length", "Transfer-Encoding"}
  <2>1. q.headers = r.headers
    BY <1>4 DEF HandlerKeeps
  <2>2. CASE j = Len(rtsp.headers) + 1
    <3>1. q.headers[j].name.pos = g.name.pos
      BY ONLY <1>1, <1>2, <2>1, <2>2
    <3>2. Char(q, g.name.pos) = Char(r, g.name.pos)
      BY ONLY <1>4 DEF Char
    <3> QED
      BY ONLY <1>3, <1>5, <3>1, <3>2
  <2>3. CASE j # Len(rtsp.headers) + 1
    <3>1. j \in 1..Len(rtsp.headers)
      BY ONLY <1>2, <1>6, <2>1, <2>3, j \in 1..Len(q.headers)
    <3>2. PICK p : p = rtsp.headers[j].name.pos
      OBVIOUS
    <3>3. Char(rtsp, p) \notin {"Content-Length", "Transfer-Encoding"} /\ p \in Nat
      <4>1. rtsp.headers[j] \in HeaderType
        BY <3>1 DEF Typed
      <4>2. p \in Nat
        BY ONLY <4>1, <3>2 DEF HeaderType, FieldType
      <4> QED
        BY <3>1, <3>2, <4>2 DEF Unmeasured
    <3>4. Char(r, p) \in {Char(rtsp, p), NUL}
      <4>1. CASE p < Len(r.raw)
        <5>1. p + 1 \in 1..Len(r.raw)
          BY ONLY <1>6, <3>3, <4>1
        <5>2. r.raw[p + 1] \in {rtsp.raw[p + 1], NUL}
          BY ONLY <1>2, <5>1 DEF NulsAt
        <5> QED
          BY ONLY <1>6, <4>1, <5>2 DEF Char
      <4>2. CASE ~(p < Len(r.raw))
        BY ONLY <4>2 DEF Char
      <4> QED
        BY <4>1, <4>2
    <3>5. Char(q, p) = Char(r, p) /\ q.headers[j].name.pos = p
      BY <1>2, <1>4, <2>1, <3>1, <3>2 DEF Char
    <3> QED
      BY ONLY <3>3, <3>4, <3>5 DEF NUL
  <2> QED
    BY <2>2, <2>3
<1>8. q.headers # <<>>
  <2>1. q.headers = r.headers
    BY <1>4 DEF HandlerKeeps
  <2>2. Len(q.headers) # 0
    BY ONLY <1>2, <1>6, <2>1
  <2> QED
    BY <2>2
<1>9. q.transfer_encoding = 0
  BY <1>4 DEF Unmeasured
<1> QED
  BY <1>3, <1>7, <1>8, <1>9 DEF Unmeasured

\* The end of a header line that is not a fold.
LEMMA AddHeaderReads ==
  ASSUME Typed(rtsp), NEW m, WellFormed(m), Sized(m), NEW k, AtHeaderEnd(m, k),
         LinesKept(rtsp, m, k),
         NotedAs(m, k, rtsp.content_length, "Content-Length", Lengths(m), -1), AddHeader
  PROVE  HeaderReading(rtsp', m) /\ ret' = "running"
<1>0. PICK g, h, r : /\ g = m.layout.headers[k] /\ h = [name |-> rtsp.name, value |-> rtsp.value]
                     /\ r = rtsp_header_add(Move("HEADER_START", 1), h)
  OBVIOUS
<1>1. /\ h.name = g.name /\ h.value = g.value /\ ~g.fold /\ k \in 1..HeaderCount(m)
      /\ FirstLineFormed(m) /\ HeadersFormed(m) /\ BodyFormed(m) /\ HeaderCount(m) \in Nat
  <2>1. FirstLineFormed(m) /\ HeadersFormed(m) /\ BodyFormed(m)
    BY DEF WellFormed
  <2>2. h.name = g.name /\ h.value = g.value /\ ~g.fold /\ k \in 1..HeaderCount(m)
    BY <1>0 DEF AtHeaderEnd
  <2>3. HeaderCount(m) \in Nat
    BY <2>1 DEF HeadersFormed, HeaderCount
  <2> QED
    BY ONLY <2>1, <2>2, <2>3
<1>2. /\ DOMAIN r = DOMAIN rtsp /\ r.stateM = "HEADER_START" /\ r.offset = rtsp.offset + 1
      /\ r.raw \in Seq(Token) /\ NulsAt(r.raw, rtsp.raw, End(rtsp.name), End(rtsp.value))
  BY <1>0, HeaderAdded
<1>3. /\ Unread(r, m, Start(m, k + 1)) /\ Start(m, k + 1) = rtsp.offset + 1
      /\ Char(rtsp, g.name.pos) = Name(m, k)
  BY <1>0, <1>1, <1>2, AddedReads
<1>4. g.name.len = 1 /\ Name(m, k) \notin Version
  BY <1>0, <1>1 DEF HeadersFormed, HeaderFormed
<1>5. ~BadLength(r, h)
  BY <1>0, <1>1, NoBadLength
<1>6. rtsp' = rtsp_header_handler(r, h) /\ ret' = "running"
  <2>1. h.name.len >= 1 /\ Char(rtsp, h.name.pos) \notin Version /\ ~BadLength(r, h)
    BY <1>1, <1>3, <1>4, <1>5
  <2> QED
    BY <1>0, <2>1 DEF AddHeader, Checked
<1>7. /\ HandlerKeeps(r, rtsp') /\ rtsp'.raw = r.raw
      /\ rtsp'.content_length =
           IF Name(m, k) = "Content-Length" THEN Lengths(m)[k] ELSE rtsp.content_length
  BY <1>0, <1>1, <1>6, AddedHandled
<1>8. /\ LinesKept(rtsp', m, k + 1)
      /\ NotedAs(m, k + 1, rtsp'.content_length, "Content-Length", Lengths(m), -1)
  <2>1. CASE m.folded
    <3>1. Unmeasured(rtsp, k)
      BY <2>1 DEF LinesKept
    <3>2. Unmeasured(rtsp', k + 1) /\ Name(m, k) # "Content-Length"
      BY <1>0, <1>1, <1>6, <2>1, <3>1, AddedUnmeasured
    <3>3. rtsp'.content_length = rtsp.content_length
      BY <1>7, <3>2
    <3> QED
      BY <1>1, <2>1, <3>2, <3>3, LengthNoted DEF LinesKept
  <2>2. CASE ~m.folded
    <3>1. NoneFold(m)
      BY <1>1, <2>2, NotFolded
    <3>2. FirstKept(rtsp, m, Start(m, k)) /\ Listed(rtsp, m, k, Start(m, k))
      BY <2>2 DEF LinesKept
    <3>3. FirstKept(rtsp', m, Start(m, k + 1)) /\ Listed(rtsp', m, k + 1, Start(m, k + 1))
      BY <1>0, <1>1, <1>6, <3>1, <3>2, AddedListed
    <3>4. NotedAs(m, k + 1, rtsp'.content_length, "Content-Length", Lengths(m), -1)
      BY <1>1, <1>7, <3>1, AddedNoted
    <3> QED
      BY <2>2, <3>3, <3>4 DEF LinesKept
  <2> QED
    BY <2>1, <2>2
<1>9. /\ rtsp'.stateM = "HEADER_START" /\ rtsp'.offset = Start(m, k + 1)
      /\ Unread(rtsp', m, Start(m, k + 1))
  BY <1>2, <1>3, <1>7 DEF HandlerKeeps, Unread
<1>10. HeaderAt(rtsp', m, k + 1)
  BY <1>9 DEF HeaderAt
<1>11. k + 1 \in 1..(HeaderCount(m) + 1)
  BY <1>1
<1>12. rtsp'.stateM \in HeaderState
  BY <1>9 DEF HeaderState
<1> QED
  BY <1>6, <1>8, <1>9, <1>10, <1>11, <1>12 DEF HeaderReading

-----------------------------------------------------------------------------
(* A fold of a well formed message.                                          *)

\* r is the parser with a folded line joined to the last header: the text is disturbed up to
\* the end of the line's value, by blanks and a NUL.
Joined(r, joined) ==
  LET n == Len(rtsp.headers) IN
  /\ n \in 1..Len(rtsp.headers) /\ joined.name = rtsp.headers[n].name
  /\ DOMAIN r = DOMAIN rtsp /\ r.stateM = "HEADER_START" /\ r.offset = rtsp.offset + 1
  /\ \A g \in DOMAIN rtsp : g \notin {"stateM", "offset", "raw", "headers"} => r[g] = rtsp[g]
  /\ r.raw \in Seq(Token) /\ Len(r.raw) = Len(rtsp.raw)
  /\ \A i \in 1..Len(rtsp.raw) :
       /\ r.raw[i] \in {rtsp.raw[i], NUL, SP}
       /\ i > End(rtsp.value) + 1 => r.raw[i] = rtsp.raw[i]
  /\ r.headers # <<>> /\ Len(r.headers) = n
  /\ \A i \in 1..n : r.headers[i].name = rtsp.headers[i].name

\* What a fold is a check of.
LEMMA FoldJoins ==
  ASSUME Typed(rtsp), Bounds(rtsp), rtsp.stateM = "HEADER_LF", rtsp.headers # <<>>, FoldHeader
  PROVE  \E r, joined : /\ Joined(r, joined)
                        /\ Checked(~BadLength(r, joined), rtsp_header_handler(r, joined))
<1>1. PICK n, h : n = Len(rtsp.headers) /\ h = rtsp.headers[n]
  OBVIOUS
<1>2. n # 0
  <2>1. rtsp.headers \in Seq(HeaderType)
    BY DEF Typed
  <2>2. PICK hs : hs = rtsp.headers
    OBVIOUS
  <2>3. hs \in Seq(HeaderType) /\ hs # <<>>
    BY ONLY rtsp.headers # <<>>, <2>1, <2>2
  <2>4. Len(hs) # 0
    BY ONLY <2>3, EmptySeq
  <2> QED
    BY <1>1, <2>2, <2>4
<1>3. PICK len : len = rtsp.value.pos - h.value.pos + rtsp.value.len
  OBVIOUS
<1>4. PICK joined : joined = [h EXCEPT !.value.len = rtsp.value.pos - h.value.pos + rtsp.value.len]
  OBVIOUS
<1>5. PICK blanked : blanked = [i \in 1..raw_size |->
                                  IF i - 1 \in h.value.len..(rtsp.value.pos - 1)
                                  THEN SP ELSE rtsp.raw[i]]
  OBVIOUS
<1>6. PICK raw : raw = Put(blanked, joined.value.pos + joined.value.len, NUL)
  OBVIOUS
<1>7. PICK q : q = Move("HEADER_START", 1)
  OBVIOUS
<1>8. PICK r : r = [q EXCEPT !.headers[n] = joined, !.raw = raw]
  OBVIOUS
<1>9. rtsp.value.pos # 0 /\ Checked(~BadLength(r, joined), rtsp_header_handler(r, joined))
  BY <1>1, <1>2, <1>4, <1>5, <1>6, <1>7, <1>8 DEF FoldHeader
<1>10. /\ rtsp.headers \in Seq(HeaderType) /\ n \in Nat /\ DOMAIN rtsp.headers = 1..n
       /\ n \in 1..n /\ h \in HeaderType
  <2>1. /\ rtsp.headers \in Seq(HeaderType) /\ n \in Nat /\ DOMAIN rtsp.headers = 1..n
    BY <1>1 DEF Typed
  <2>2. n \in 1..n
    BY ONLY <2>1, <1>2
  <2> QED
    BY <1>1, <2>1, <2>2
<1>11. /\ h.value.pos \in Nat /\ h.value.len \in Nat /\ rtsp.value.pos \in Nat
       /\ rtsp.value.len \in Nat /\ rtsp.offset \in Nat
  <2>1. h.value.pos \in Nat /\ h.value.len \in Nat
    BY ONLY <1>10 DEF HeaderType, FieldType
  <2> QED
    BY ONLY <2>1, Typed(rtsp) DEF Typed, FieldType
<1>12. h.value.pos <= rtsp.value.pos
  BY ONLY <1>1, <1>9, <1>10, Bounds(rtsp), rtsp.stateM = "HEADER_LF"
  DEF Bounds, HeadersBehind, ValueKnown
<1>13. len \in Nat /\ h.value.pos + len = End(rtsp.value)
  BY ONLY <1>3, <1>11, <1>12 DEF End
<1>14. /\ joined = [name |-> h.name, value |-> [pos |-> h.value.pos, len |-> len]]
       /\ joined \in HeaderType
  <2>1. joined = [h EXCEPT !.value.len = len]
    BY <1>3, <1>4
  <2> QED
    BY ONLY <2>1, <1>10, <1>13 DEF HeaderType, FieldType
<1>15. joined.name = h.name /\ joined.value.pos + joined.value.len = End(rtsp.value)
  BY ONLY <1>13, <1>14
<1>16. /\ DOMAIN q = DOMAIN rtsp /\ q.stateM = "HEADER_START" /\ q.offset = rtsp.offset + 1
       /\ \A g \in DOMAIN rtsp : g \notin {"stateM", "offset"} => q[g] = rtsp[g]
  BY <1>7, Moved
<1>17. /\ DOMAIN r = DOMAIN rtsp /\ r.stateM = "HEADER_START" /\ r.offset = rtsp.offset + 1
       /\ r.raw = raw /\ r.headers = [rtsp.headers EXCEPT ![n] = joined]
       /\ \A g \in DOMAIN rtsp : g \notin {"stateM", "offset", "raw", "headers"} => r[g] = rtsp[g]
  BY ONLY <1>8, <1>16, Typed(rtsp) DEF Typed, Shape
<1>18. /\ blanked \in Seq(Token) /\ Len(blanked) = Len(rtsp.raw)
       /\ \A i \in 1..Len(rtsp.raw) :
            /\ blanked[i] \in {rtsp.raw[i], SP}
            /\ i > rtsp.value.pos => blanked[i] = rtsp.raw[i]
  <2>1. Len(rtsp.raw) \in Nat /\ \A i \in 1..Len(rtsp.raw) : rtsp.raw[i] \in Token
    BY DEF Typed
  <2>2. SP \in Token
    BY DEF Token
  <2>3. blanked = [i \in 1..Len(rtsp.raw) |-> IF i - 1 \in h.value.len..(rtsp.value.pos - 1)
                                              THEN SP ELSE rtsp.raw[i]]
    BY <1>5 DEF raw_size
  <2>4. blanked \in [1..Len(rtsp.raw) -> Token]
    BY ONLY <2>1, <2>2, <2>3
  <2>5. \A i \in 1..Len(rtsp.raw) : blanked[i] \in {rtsp.raw[i], SP}
    BY ONLY <2>3
  <2>6. \A i \in 1..Len(rtsp.raw) : i > rtsp.value.pos =>
          ~(i - 1 \in h.value.len..(rtsp.value.pos - 1))
    BY ONLY <1>11, <2>1
  <2>7. \A i \in 1..Len(rtsp.raw) : i > rtsp.value.pos => blanked[i] = rtsp.raw[i]
    BY ONLY <2>3, <2>6
  <2> QED
    BY ONLY <2>1, <2>4, <2>5, <2>7, FunctionIsSequence
<1>19. /\ raw \in Seq(Token) /\ Len(raw) = Len(rtsp.raw)
       /\ \A i \in 1..Len(rtsp.raw) :
            /\ raw[i] \in {rtsp.raw[i], NUL, SP}
            /\ i > End(rtsp.value) + 1 => raw[i] = rtsp.raw[i]
  <2>1. PICK p : p = End(rtsp.value)
    OBVIOUS
  <2>2. NUL \in Token /\ raw = Put(blanked, p, NUL)
    BY <1>6, <1>15, <2>1 DEF Token
  <2>3. /\ raw \in Seq(Token) /\ Len(raw) = Len(blanked)
        /\ \A i \in 1..Len(blanked) : raw[i] = IF i = p + 1 THEN NUL ELSE blanked[i]
    BY ONLY <1>18, <2>2, PutText
  <2>4. p \in Nat /\ rtsp.value.pos \in Nat /\ rtsp.value.pos <= p
    BY ONLY <1>11, <2>1 DEF End
  <2>5. ASSUME NEW i \in 1..Len(rtsp.raw), i > p + 1
        PROVE  raw[i] = rtsp.raw[i]
    <3>1. i > rtsp.value.pos /\ i # p + 1
      BY ONLY <2>4, <2>5
    <3> QED
      BY ONLY <1>18, <2>3, <3>1, i \in 1..Len(rtsp.raw)
  <2>6. \A i \in 1..Len(rtsp.raw) : raw[i] \in {rtsp.raw[i], NUL, SP}
    BY ONLY <1>18, <2>3
  <2> QED
    BY ONLY <1>18, <2>1, <2>3, <2>5, <2>6
<1>20. PICK hs : hs = [rtsp.headers EXCEPT ![n] = joined]
  OBVIOUS
<1>21. /\ hs \in Seq(HeaderType) /\ Len(hs) = n
       /\ \A i \in 1..n : hs[i] = IF i = n THEN joined ELSE rtsp.headers[i]
  <2>1. DOMAIN hs = 1..n /\ \A i \in 1..n : hs[i] = IF i = n THEN joined ELSE rtsp.headers[i]
    BY ONLY <1>10, <1>20
  <2>2. hs \in [1..n -> HeaderType]
    <3>1. \A i \in 1..n : rtsp.headers[i] \in HeaderType
      BY ONLY <1>10
    <3> QED
      BY ONLY <1>10, <1>14, <1>20, <3>1
  <2> QED
    BY ONLY <1>10, <2>1, <2>2, FunctionIsSequence
<1>22. r.headers = hs
  BY <1>17, <1>20
<1>23. r.headers # <<>> /\ Len(r.headers) = n
  <2>1. Len(r.headers) = n
    BY ONLY <1>21, <1>22
  <2> QED
    BY ONLY <2>1, <1>2
<1>24. \A i \in 1..n : r.headers[i].name = rtsp.headers[i].name
  BY ONLY <1>15, <1>21, <1>22, <1>1
<1>25. Joined(r, joined)
  BY ONLY <1>1, <1>10, <1>15, <1>17, <1>19, <1>23, <1>24 DEF Joined
<1> QED
  BY ONLY <1>9, <1>25

\* The end of a fold.
LEMMA FoldHeaderReads ==
  ASSUME Typed(rtsp), Bounds(rtsp), rtsp.stateM = "HEADER_LF", rtsp.offset < Len(rtsp.raw),
         NEW m, WellFormed(m), NEW k \in 1..HeaderCount(m), m.layout.headers[k].fold,
         rtsp.value = m.layout.headers[k].value, rtsp.offset = Start(m, k + 1) - 1,
         Unread(rtsp, m, Start(m, k)), LinesKept(rtsp, m, k),
         NotedAs(m, k, rtsp.content_length, "Content-Length", Lengths(m), -1), FoldHeader
  PROVE  HeaderReading(rtsp', m) /\ ret' = "running"
<1>0. PICK g, e, s : g = m.layout.headers[k] /\ e = Start(m, k + 1) /\ s = Start(m, k)
  OBVIOUS
<1>1. FirstLineFormed(m) /\ HeadersFormed(m) /\ BodyFormed(m)
  BY DEF WellFormed
<1>2. HeaderCount(m) \in Nat /\ Len(rtsp.raw) \in Nat /\ rtsp.offset \in Nat
  BY <1>1, RawLen DEF HeadersFormed, HeaderCount
<1>3. HeaderFormed(m, k)
  BY <1>1 DEF HeadersFormed
<1>4. /\ HeaderPlaces(g, s, e) /\ At(m, g.name.pos) = SP
  BY <1>0, <1>2, <1>3, HeaderLinePlaces
<1>5. m.folded /\ k > 1
  BY <1>3 DEF HeaderFormed
<1>6. Unmeasured(rtsp, k) /\ rtsp.headers # <<>>
  BY <1>5 DEF LinesKept, Unmeasured
<1>7. PICK n : n = Len(rtsp.headers)
  OBVIOUS
<1>8. PICK r, joined : /\ Joined(r, joined)
                       /\ Checked(~BadLength(r, joined), rtsp_header_handler(r, joined))
  BY ONLY <1>6, FoldJoins, Typed(rtsp), Bounds(rtsp), rtsp.stateM = "HEADER_LF", FoldHeader
<1>14. /\ n \in 1..n /\ joined.name = rtsp.headers[n].name
       /\ DOMAIN r = DOMAIN rtsp /\ r.stateM = "HEADER_START" /\ r.offset = rtsp.offset + 1
       /\ \A x \in DOMAIN rtsp : x \notin {"stateM", "offset", "raw", "headers"} => r[x] = rtsp[x]
       /\ r.raw \in Seq(Token) /\ Len(r.raw) = Len(rtsp.raw)
       /\ \A i \in 1..Len(rtsp.raw) :
            /\ r.raw[i] \in {rtsp.raw[i], NUL, SP}
            /\ i > End(rtsp.value) + 1 => r.raw[i] = rtsp.raw[i]
       /\ r.headers # <<>> /\ Len(r.headers) = n
       /\ \A i \in 1..n : r.headers[i].name = rtsp.headers[i].name
  BY ONLY <1>7, <1>8 DEF Joined
<1>15. r.content_length = rtsp.content_length /\ r.transfer_encoding = 0 /\ Shape(r)
  <2>1. rtsp.transfer_encoding = 0
    BY <1>6 DEF Unmeasured
  <2> QED
    BY ONLY <1>14, <2>1, Typed(rtsp) DEF Typed, Shape
<1>16. ASSUME NEW j \in 1..n
       PROVE  /\ rtsp.headers[j].name.pos \in Nat /\ rtsp.headers[j].name.pos <= Len(r.raw)
              /\ Char(r, rtsp.headers[j].name.pos) \notin {"Content-Length", "Transfer-Encoding"}
  <2>1. rtsp.headers[j] \in HeaderType /\ j \in DOMAIN rtsp.headers
    BY <1>7 DEF Typed
  <2>2. PICK f : f = rtsp.headers[j].name
    OBVIOUS
  <2>3. f \in FieldType
    BY ONLY <2>1, <2>2 DEF HeaderType
  <2>4. End(f) < rtsp.offset
    BY <2>1, <2>2 DEF Bounds, HeadersBehind
  <2>5. PICK p : p = f.pos
    OBVIOUS
  <2>6. p \in Nat /\ p < Len(rtsp.raw)
    BY ONLY <1>2, <2>3, <2>4, <2>5, FieldIs, rtsp.offset < Len(rtsp.raw)
  <2>7. Char(rtsp, p) \notin {"Content-Length", "Transfer-Encoding"}
    BY <1>6, <1>7, <2>2, <2>5 DEF Unmeasured
  <2>8. p + 1 \in 1..Len(rtsp.raw)
    BY ONLY <1>2, <2>6
  <2>9. Char(r, p) \in {Char(rtsp, p), NUL, SP}
    BY ONLY <1>14, <2>6, <2>8 DEF Char
  <2> QED
    BY ONLY <1>2, <1>14, <2>2, <2>5, <2>6, <2>7, <2>9 DEF NUL, SP
<1>17. /\ Text(r, joined.name.pos) # <<"Content-Length">>
       /\ Text(r, joined.name.pos) # <<"Transfer-Encoding">>
  <2>1. PICK p : p = joined.name.pos
    OBVIOUS
  <2>2. /\ p \in Nat /\ p <= Len(r.raw)
        /\ Char(r, p) \notin {"Content-Length", "Transfer-Encoding"}
    BY <1>7, <1>14, <1>16, <2>1
  <2>3. \A w : Text(r, p) = <<w>> => Char(r, p) = w
    BY <1>14, <2>2, TextHead
  <2> QED
    BY <2>1, <2>2, <2>3
<1>18. ~BadLength(r, joined)
  BY <1>17 DEF BadLength
<1>19. rtsp' = rtsp_header_handler(r, joined) /\ ret' = "running"
  BY <1>8, <1>18 DEF Checked
<1>20. /\ HandlerKeeps(r, rtsp') /\ rtsp'.raw = r.raw
       /\ rtsp'.content_length = r.content_length
       /\ rtsp'.transfer_encoding = r.transfer_encoding
  BY <1>15, <1>17, <1>19, HandlerSteps
<1>21. Unmeasured(rtsp', k + 1)
  <2>1. rtsp'.headers = r.headers
    BY <1>20 DEF HandlerKeeps
  <2>2. ASSUME NEW j \in 1..Len(rtsp'.headers)
        PROVE  Char(rtsp', rtsp'.headers[j].name.pos) \notin {"Content-Length", "Transfer-Encoding"}
    <3>1. j \in 1..n
      BY <1>14, <2>1
    <3>2. rtsp'.headers[j].name = rtsp.headers[j].name
      BY ONLY <1>14, <2>1, <3>1
    <3>3. \A p : Char(rtsp', p) = Char(r, p)
      BY <1>20 DEF Char
    <3> QED
      BY ONLY <1>16, <3>1, <3>2, <3>3
  <2>3. rtsp'.headers # <<>> /\ rtsp'.transfer_encoding = 0
    BY <1>14, <1>15, <1>20, <2>1
  <2> QED
    BY <2>2, <2>3 DEF Unmeasured
<1>22. NotedAs(m, k + 1, rtsp'.content_length, "Content-Length", Lengths(m), -1)
  <2>1. Name(m, k) # "Content-Length"
    BY <1>0, <1>4 DEF Name, SP
  <2>2. rtsp'.content_length = rtsp.content_length
    BY <1>15, <1>20
  <2> QED
    BY <1>1, <2>1, <2>2, LengthNoted
<1>23. Unread(rtsp', m, e)
  <2>1. End(rtsp.value) \in Nat /\ End(rtsp.value) < e /\ e \in Nat /\ s \in Nat /\ s < e
    <3>1. rtsp.value = g.value
      BY <1>0
    <3> QED
      BY ONLY <1>4, <3>1 DEF HeaderPlaces
  <2>2. ASSUME NEW i \in 1..Len(rtsp'.raw), i > e
        PROVE  rtsp'.raw[i] = m.text[i]
    <3>1. i \in 1..Len(rtsp.raw) /\ i > End(rtsp.value) + 1 /\ i > s
      BY ONLY <1>2, <1>14, <1>20, <2>1, <2>2
    <3>2. rtsp.raw[i] = m.text[i]
      BY <1>0, <3>1 DEF Unread
    <3> QED
      BY ONLY <1>14, <1>20, <3>1, <3>2
  <2> QED
    BY <2>2 DEF Unread
<1>24. rtsp'.stateM = "HEADER_START" /\ rtsp'.offset = Start(m, k + 1)
  <2>1. rtsp'.stateM = "HEADER_START" /\ rtsp'.offset = rtsp.offset + 1
    BY <1>14, <1>20 DEF HandlerKeeps
  <2>2. e \in Nat
    BY <1>4 DEF HeaderPlaces
  <2> QED
    BY <1>0, <2>1, <2>2
<1>25. HeaderAt(rtsp', m, k + 1)
  BY <1>24 DEF HeaderAt
<1>26. k + 1 \in 1..(HeaderCount(m) + 1) /\ rtsp'.stateM \in HeaderState
  BY <1>2, <1>24 DEF HeaderState
<1> QED
  BY <1>0, <1>5, <1>19, <1>21, <1>22, <1>23, <1>25, <1>26 DEF HeaderReading, LinesKept

-----------------------------------------------------------------------------
(* The end of the headers, and the loop over them as a whole.                *)

\* A folded message's body is not chunked.
LEMMA FoldedPlain ==
  ASSUME NEW m, BodyFormed(m), m.folded
  PROVE  ~ChunkedBody(m)
<1>1. \A k \in 1..HeaderCount(m) : ~ChunkedBy(m, k)
  BY DEF BodyFormed, ChunkedBy
<1> QED
  BY <1>1 DEF ChunkedBody

\* The blank line.
LEMMA EndHeadersReads ==
  ASSUME Typed(rtsp), Bounds(rtsp), rtsp.stateM = "HEADER_LF", rtsp.offset < Len(rtsp.raw),
         NEW m, WellFormed(m), NEW k, k = HeaderCount(m) + 1, rtsp.offset = Start(m, k + 1) - 1,
         Unread(rtsp, m, Start(m, k)), LinesKept(rtsp, m, k),
         NotedAs(m, k, rtsp.content_length, "Content-Length", Lengths(m), -1), EndHeaders
  PROVE  BodyReading(rtsp', m) /\ ret' = ret
<1>1. FirstLineFormed(m) /\ HeadersFormed(m) /\ BodyFormed(m)
  BY DEF WellFormed
<1>2. HeaderCount(m) \in Nat /\ Len(rtsp.raw) \in Nat /\ rtsp.offset \in Nat
  BY <1>1, RawLen DEF HeadersFormed, HeaderCount
<1>3. /\ Start(m, k) \in Nat /\ Start(m, k + 1) \in Nat /\ Start(m, k) < Start(m, k + 1)
      /\ Start(m, k + 1) = m.layout.body
  BY <1>1, BlankLinePlaces
<1>4. Turned("CHUNK_START", 1, {})
  BY EndHeadersBounds
<1>5. /\ HeaderRest /\ rtsp'.stateM = "CHUNK_START" /\ rtsp'.offset = rtsp.offset + 1
      /\ rtsp'.raw = rtsp.raw /\ rtsp'.content_length = rtsp.content_length
      /\ rtsp'.chunk = rtsp.chunk
  BY ONLY <1>4 DEF Turned, HeaderRest, SameRest
<1>6. rtsp'.offset = m.layout.body
  BY <1>2, <1>3, <1>5
<1>7. LinesKept(rtsp', m, k)
  BY <1>5, SameLines
<1>8. is_transfer_encoding_chunked(rtsp') <=> ChunkedBody(m)
  <2>1. CASE m.folded
    <3>1. Unmeasured(rtsp', k)
      BY <1>7, <2>1 DEF LinesKept
    <3>2. ~is_transfer_encoding_chunked(rtsp')
      BY <3>1 DEF Unmeasured, is_transfer_encoding_chunked
    <3> QED
      BY <1>1, <2>1, <3>2, FoldedPlain
  <2>2. CASE ~m.folded
    <3>1. NoneFold(m) /\ Listed(rtsp', m, k, Start(m, k))
      BY <1>1, <1>7, <2>2, NotFolded DEF LinesKept
    <3>2. rtsp'.raw \in Seq(Token) /\ Start(m, k) <= Len(rtsp'.raw)
      <4>1. rtsp'.raw \in Seq(Token)
        BY <1>5 DEF Typed
      <4>2. Start(m, k) <= Len(rtsp'.raw)
        BY ONLY <1>2, <1>3, <1>5, rtsp.offset = Start(m, k + 1) - 1, rtsp.offset < Len(rtsp.raw)
      <4> QED
        BY <4>1, <4>2
    <3>3. k \in 1..(HeaderCount(m) + 1) /\ k - 1 = HeaderCount(m)
      BY <1>2
    <3>4. is_transfer_encoding_chunked(rtsp') <=> \E j \in 1..(k - 1) : ChunkedBy(m, j)
      BY <1>1, <1>3, <3>1, <3>2, <3>3, ChunkedKnown
    <3> QED
      BY <3>3, <3>4 DEF ChunkedBody
  <2> QED
    BY <2>1, <2>2
<1>9. rtsp'.chunk.offset = 0
  BY <1>5 DEF Bounds, BodyBehind, HeaderState
<1>10. Unread(rtsp', m, m.layout.body)
  BY <1>2, <1>3, <1>5, UnreadLater
<1>11. ret' = ret /\ rtsp'.stateM \in ChunkState \cup {"DONE"}
  BY <1>5 DEF EndHeaders, ChunkState
<1>12. NotedAs(m, k, rtsp'.content_length, "Content-Length", Lengths(m), -1)
  BY <1>5
<1> QED
  BY <1>5, <1>6, <1>7, <1>8, <1>9, <1>10, <1>11, <1>12 DEF BodyReading

\* The end of a header line, a fold or the blank line.
LEMMA HeaderEndReads ==
  ASSUME Typed(rtsp), Bounds(rtsp), rtsp.stateM = "HEADER_LF", rtsp.offset < Len(rtsp.raw),
         Len(rtsp.raw) <= Len(message.text), NEW m, m = message, WellFormed(m), Sized(m),
         HeaderReading(rtsp, m), ret = "running", EndHeaders \/ AddHeader \/ FoldHeader
  PROVE  (HeaderReading(rtsp', m) \/ BodyReading(rtsp', m)) /\ ret' = "running"
<1>1. PICK k \in 1..(HeaderCount(m) + 1) :
        /\ HeaderAt(rtsp, m, k) /\ Unread(rtsp, m, Start(m, k)) /\ LinesKept(rtsp, m, k)
        /\ NotedAs(m, k, rtsp.content_length, "Content-Length", Lengths(m), -1)
  BY DEF HeaderReading
<1>2. FirstLineFormed(m) /\ HeadersFormed(m) /\ BodyFormed(m)
  BY DEF WellFormed
<1>3. HeaderCount(m) \in Nat
  BY <1>2 DEF HeadersFormed, HeaderCount
<1>4. PICK h : h = m.layout.headers[k]
  OBVIOUS
<1>5. /\ rtsp.offset = Start(m, k + 1) - 1
      /\ IF k <= HeaderCount(m) THEN NameRead(rtsp, h) /\ rtsp.value = h.value
         ELSE rtsp.value.pos = 0
  BY ONLY <1>1, <1>4, rtsp.stateM = "HEADER_LF" DEF HeaderAt
<1>6. CASE k <= HeaderCount(m)
  <2>1. k \in 1..HeaderCount(m)
    BY <1>3, <1>6
  <2>2. HeaderPlaces(h, Start(m, k), Start(m, k + 1)) /\ h.fold \in BOOLEAN
    BY <1>2, <1>3, <1>4, <2>1, HeaderLinePlaces DEF HeadersFormed
  <2>3. rtsp.value = h.value /\ rtsp.value.pos # 0 /\ ~EndHeaders
    <3>1. h.value.pos # 0
      BY ONLY <2>2 DEF HeaderPlaces
    <3> QED
      BY <1>5, <1>6, <3>1 DEF EndHeaders
  <2>4. CASE h.fold
    <3>1. rtsp.name.pos = 0
      BY <1>5, <1>6, <2>4 DEF NameRead
    <3>2. FoldHeader
      BY <2>3, <3>1 DEF AddHeader
    <3> QED
      BY ONLY <1>1, <1>4, <1>5, <2>1, <2>3, <2>4, <3>2, FoldHeaderReads, Typed(rtsp), Bounds(rtsp),
              rtsp.stateM = "HEADER_LF", rtsp.offset < Len(rtsp.raw), WellFormed(m)
  <2>5. CASE ~h.fold
    <3>1. rtsp.name = h.name
      BY <1>5, <1>6, <2>5 DEF NameRead
    <3>2. rtsp.name.pos # 0
      <4>1. k # 1 \/ Start(m, 1) # 0
        <5>1. FirstPlaces(m, m.layout)
          BY <1>2, FirstLinePlaces
        <5>2. m.layout.end \in Nat /\ m.layout.end < Start(m, 1)
          BY ONLY <5>1 DEF FirstPlaces
        <5> QED
          BY ONLY <5>2
      <4>2. h.name.pos = Start(m, k) /\ Start(m, k) # 0
        <5>1. rtsp.name.pos \in Nat
          BY DEF Typed, FieldType
        <5>2. PICK f : f = m.layout.headers[k]
          OBVIOUS
        <5>3. h.name.pos = Start(m, k)
          BY <2>2 DEF HeaderPlaces
        <5>4. ASSUME k # 1
              PROVE  Start(m, k) # 0
          <6>1. k - 1 \in 1..HeaderCount(m) /\ (k - 1) + 1 = k
            BY <1>3, <2>1, <5>4
          <6>2. HeaderPlaces(m.layout.headers[k - 1], Start(m, k - 1), Start(m, (k - 1) + 1))
            BY <1>2, <1>3, <6>1, HeaderLinePlaces DEF HeadersFormed
          <6>3. PICK a, b, j : /\ a = Start(m, k - 1) /\ b = Start(m, k)
                               /\ j = m.layout.headers[k - 1]
            OBVIOUS
          <6>4. HeaderPlaces(j, a, b)
            BY <6>1, <6>2, <6>3
          <6>5. b # 0
            BY ONLY <6>4 DEF HeaderPlaces
          <6> QED
            BY <6>3, <6>5
        <5> QED
          BY <4>1, <5>3, <5>4
      <4> QED
        BY <3>1, <4>2
    <3>3. AddHeader
      BY <2>3, <3>2 DEF FoldHeader
    <3>4. AtHeaderEnd(m, k)
      BY <1>1, <1>4, <1>5, <2>1, <2>3, <2>5, <3>1 DEF AtHeaderEnd
    <3> QED
      BY ONLY <1>1, <3>3, <3>4, AddHeaderReads, Typed(rtsp), WellFormed(m), Sized(m)
  <2> QED
    BY <2>2, <2>4, <2>5
<1>7. CASE ~(k <= HeaderCount(m))
  <2>1. k = HeaderCount(m) + 1
    BY <1>3, <1>7
  <2>2. rtsp.value.pos = 0
    BY <1>5, <1>7
  <2>3. EndHeaders
    BY <2>2 DEF AddHeader, FoldHeader
  <2>4. BodyReading(rtsp', m) /\ ret' = ret
    BY ONLY <1>1, <1>5, <2>1, <2>3, EndHeadersReads, Typed(rtsp), Bounds(rtsp),
            rtsp.stateM = "HEADER_LF", rtsp.offset < Len(rtsp.raw), WellFormed(m)
  <2> QED
    BY <2>4
<1> QED
  BY <1>6, <1>7

-----------------------------------------------------------------------------
(* What happens behind the lines leaves what has been kept of them.          *)

\* q is the parser r, up to what lies behind offset in the text, and to the body's length.
LinesSame(r, q) ==
  /\ q.method = r.method /\ q.uri = r.uri /\ q.reason = r.reason /\ q.code = r.code
  /\ q.headers = r.headers /\ q.connection_close = r.connection_close
  /\ q.content_encoding = r.content_encoding /\ q.transfer_encoding = r.transfer_encoding
  /\ q.cookie = r.cookie /\ q.location = r.location
  /\ Len(q.raw) \in Nat /\ r.offset <= Len(q.raw)
  /\ \A i \in 1..r.offset : q.raw[i] = r.raw[i]

\* What has been kept of the lines is kept, and so is whether the body is chunked.
LEMMA LinesStay ==
  ASSUME NEW r, Typed(r), Bounds(r), NEW m, NEW k \in Nat \ {0}, NEW s \in Nat, s = Start(m, k),
         s <= r.offset, LinesKept(r, m, k), NEW q, LinesSame(r, q)
  PROVE  LinesKept(q, m, k) /\ (is_transfer_encoding_chunked(q) <=> is_transfer_encoding_chunked(r))
<1>1. r.offset \in Nat /\ Len(r.raw) \in Nat /\ r.offset <= Len(r.raw)
  BY RawLen DEF Bounds
<1>2. /\ q.method = r.method /\ q.uri = r.uri /\ q.reason = r.reason /\ q.code = r.code
      /\ q.headers = r.headers /\ q.connection_close = r.connection_close
      /\ q.content_encoding = r.content_encoding /\ q.transfer_encoding = r.transfer_encoding
      /\ q.cookie = r.cookie /\ q.location = r.location
      /\ Len(q.raw) \in Nat /\ r.offset <= Len(q.raw)
      /\ \A i \in 1..r.offset : q.raw[i] = r.raw[i]
  BY DEF LinesSame
<1>3. ASSUME NEW i \in Nat, i < r.offset
      PROVE  Char(q, i) = Char(r, i)
  <2>1. i + 1 \in 1..r.offset /\ i < Len(q.raw) /\ i < Len(r.raw)
    BY ONLY <1>1, <1>2, <1>3
  <2> QED
    BY ONLY <1>2, <2>1 DEF Char
<1>4. ASSUME NEW f \in FieldType, Intact(r, m, f), End(f) < s
      PROVE  Intact(q, m, f)
  <2>1. f.pos \in Nat /\ End(f) \in Nat
    BY FieldIs
  <2>2. End(f) < r.offset
    BY ONLY <1>1, <1>4, <2>1, s \in Nat, s <= r.offset
  <2>3. \A i \in (f.pos + 1)..End(f) : q.raw[i] = m.text[i]
    <3>1. ASSUME NEW i \in (f.pos + 1)..End(f)
          PROVE  q.raw[i] = m.text[i]
      <4>1. i \in 1..r.offset
        BY ONLY <1>1, <2>1, <2>2, <3>1
      <4> QED
        BY <1>2, <1>4, <4>1 DEF Intact
    <3> QED
      BY <3>1
  <2>4. Char(q, End(f)) = NUL
    BY <1>3, <1>4, <2>1, <2>2 DEF Intact
  <2> QED
    BY <2>3, <2>4 DEF Intact
<1>5. is_transfer_encoding_chunked(q) <=> is_transfer_encoding_chunked(r)
  <2>1. r.transfer_encoding \in Nat
    BY DEF Typed
  <2>2. r.transfer_encoding = 0 \/ r.transfer_encoding < r.offset
    BY DEF Bounds, HeadersBehind
  <2>3. CASE r.transfer_encoding = 0
    BY <1>2, <2>3 DEF is_transfer_encoding_chunked
  <2>4. CASE r.transfer_encoding # 0
    BY <1>2, <1>3, <2>1, <2>2, <2>4 DEF is_transfer_encoding_chunked
  <2> QED
    BY <2>3, <2>4
<1>6. CASE m.folded
  <2>1. Unmeasured(r, k)
    BY <1>6 DEF LinesKept
  <2>2. ASSUME NEW j \in 1..Len(q.headers)
        PROVE  Char(q, q.headers[j].name.pos) \notin {"Content-Length", "Transfer-Encoding"}
    <3>1. j \in DOMAIN r.headers /\ r.headers[j] \in HeaderType
      BY <1>2 DEF Typed
    <3>2. PICK f : f = r.headers[j].name
      OBVIOUS
    <3>3. f \in FieldType /\ End(f) < r.offset
      BY <3>1, <3>2 DEF HeaderType, Bounds, HeadersBehind
    <3>4. f.pos \in Nat /\ f.pos < r.offset
      BY ONLY <1>1, <3>3, FieldIs
    <3>5. Char(q, f.pos) = Char(r, f.pos)
      BY <1>3, <3>4
    <3> QED
      BY <1>2, <2>1, <3>2, <3>5 DEF Unmeasured
  <2>3. Unmeasured(q, k)
    BY ONLY <1>2, <2>1, <2>2 DEF Unmeasured
  <2> QED
    BY ONLY <1>5, <1>6, <2>3 DEF LinesKept
<1>7. CASE ~m.folded
  <2>1. FirstKept(r, m, s) /\ Listed(r, m, k, s)
    BY <1>7 DEF LinesKept
  <2>2. FirstKept(q, m, s)
    <3>1. r.method \in FieldType /\ r.uri \in FieldType /\ r.reason \in FieldType
      BY DEF Typed
    <3> QED
      BY <1>2, <1>4, <2>1, <3>1 DEF FirstKept
  <2>3. ASSUME NEW j \in 1..(k - 1)
        PROVE  LET h == m.layout.headers[j] IN
               /\ q.headers[j].name = h.name /\ q.headers[j].value = h.value
               /\ Intact(q, m, h.name) /\ End(h.name) < s
               /\ Intact(q, m, h.value) /\ End(h.value) < s
    <3>1. PICK h : h = m.layout.headers[j]
      OBVIOUS
    <3>2. /\ r.headers[j].name = h.name /\ r.headers[j].value = h.value
          /\ Intact(r, m, h.name) /\ End(h.name) < s
          /\ Intact(r, m, h.value) /\ End(h.value) < s
      BY <2>1, <3>1 DEF Listed
    <3>3. r.headers[j] \in HeaderType
      <4>1. Len(r.headers) = k - 1 /\ r.headers \in Seq(HeaderType)
        BY <2>1 DEF Listed, Typed
      <4> QED
        BY ONLY <4>1, j \in 1..(k - 1)
    <3>4. h.name \in FieldType /\ h.value \in FieldType
      BY ONLY <3>2, <3>3 DEF HeaderType
    <3> QED
      BY <1>2, <1>4, <3>1, <3>2, <3>4
  <2>4. Listed(q, m, k, s)
    <3>1. /\ Len(q.headers) = k - 1
          /\ NotedAs(m, k, q.connection_close, "Connection", Closes(m), -1)
          /\ NotedAs(m, k, q.content_encoding, "Content-Encoding", Places(m), 0)
          /\ NotedAs(m, k, q.transfer_encoding, "Transfer-Encoding", Places(m), 0)
          /\ NotedAs(m, k, q.cookie, "Set-Cookie", Places(m), 0)
          /\ NotedAs(m, k, q.location, "Location", Places(m), 0)
      BY <1>2, <2>1 DEF Listed
    <3> QED
      BY <2>3, <3>1 DEF Listed
  <2> QED
    BY ONLY <1>5, <1>7, <2>2, <2>4, s = Start(m, k) DEF LinesKept
<1> QED
  BY <1>5, <1>6, <1>7

-----------------------------------------------------------------------------
(* The body of a well formed message.                                        *)

\* The last header line ends before the body.
LEMMA BodyPlace ==
  ASSUME NEW m, HeadersFormed(m)
  PROVE  /\ HeaderCount(m) + 1 \in Nat \ {0} /\ Start(m, HeaderCount(m) + 1) \in Nat
         /\ Start(m, HeaderCount(m) + 1) < m.layout.body /\ m.layout.body \in Nat
         /\ Start(m, HeaderCount(m) + 1) = m.layout.blank
<1>1. HeaderCount(m) \in Nat
  BY DEF HeadersFormed, HeaderCount
<1> QED
  BY <1>1, BlankLinePlaces

\* A length is noted as a header gives it, and only a header that measures the body does.
LEMMA LengthKnown ==
  ASSUME NEW m, HeadersFormed(m), NEW v,
         NotedAs(m, HeaderCount(m) + 1, v, "Content-Length", Lengths(m), -1)
  PROVE  \/ v = -1 /\ \A k \in 1..HeaderCount(m) : ~MeasuredBy(m, k)
         \/ \E k \in 1..HeaderCount(m) :
              MeasuredBy(m, k) /\ v = atoi(At(m, m.layout.headers[k].value.pos))
<1>1. HeaderCount(m) \in Nat
  BY DEF HeadersFormed, HeaderCount
<1>2. (HeaderCount(m) + 1) - 1 = HeaderCount(m)
  BY <1>1
<1>3. CASE \E k \in 1..HeaderCount(m) : Name(m, k) = "Content-Length"
  <2>1. PICK k \in 1..HeaderCount(m) : Name(m, k) = "Content-Length"
    BY <1>3
  <2>2. v = Lengths(m)[k]
    BY <1>2, <2>1 DEF NotedAs
  <2>3. v = atoi(At(m, m.layout.headers[k].value.pos))
    BY <2>2 DEF Lengths
  <2>4. MeasuredBy(m, k)
    <3>1. CASE m.layout.headers[k].fold
      <4>1. HeaderFormed(m, k)
        BY DEF HeadersFormed
      <4>2. At(m, m.layout.headers[k].name.pos) = SP
        BY <1>1, <3>1, <4>1, HeaderLinePlaces
      <4> QED
        BY <2>1, <4>2 DEF Name, SP
    <3>2. CASE ~m.layout.headers[k].fold
      BY <2>1, <3>2 DEF MeasuredBy
    <3> QED
      BY <3>1, <3>2
  <2> QED
    BY <2>3, <2>4
<1>4. CASE \A k \in 1..HeaderCount(m) : Name(m, k) # "Content-Length"
  BY <1>2, <1>4 DEF NotedAs, MeasuredBy
<1> QED
  BY <1>3, <1>4

\* A body that is not chunked is as long as has been noted, or there is none.
LEMMA PlainLength ==
  ASSUME NEW m, HeadersFormed(m), BodyFormed(m), Sized(m), ~ChunkedBody(m), NEW v,
         NotedAs(m, HeaderCount(m) + 1, v, "Content-Length", Lengths(m), -1)
  PROVE  \/ v = -1 /\ Len(m.text) = m.layout.body
         \/ v \in Nat /\ Len(m.text) = m.layout.body + v
<1>1. ~\E k \in 1..HeaderCount(m) : ChunkedBy(m, k)
  BY DEF ChunkedBody
<1>2. CASE v = -1 /\ \A k \in 1..HeaderCount(m) : ~MeasuredBy(m, k)
  BY <1>1, <1>2 DEF BodyFormed
<1>3. CASE \E k \in 1..HeaderCount(m) :
              MeasuredBy(m, k) /\ v = atoi(At(m, m.layout.headers[k].value.pos))
  <2>1. PICK k \in 1..HeaderCount(m) :
              MeasuredBy(m, k) /\ v = atoi(At(m, m.layout.headers[k].value.pos))
    BY <1>3
  <2>2. PICK w : w = At(m, m.layout.headers[k].value.pos)
    OBVIOUS
  <2>3. w \in DOMAIN Number /\ Len(m.text) = m.layout.body + Number[w]
    BY <1>1, <2>1, <2>2 DEF BodyFormed
  <2>4. v = Number[w] /\ Number[w] \in Nat
    BY <2>1, <2>2, <2>3, NumberIsLength DEF atoi
  <2> QED
    BY <2>3, <2>4
<1> QED
  BY <1>2, <1>3, LengthKnown

\* rtsp_parse_chunked begins with the first chunk.
LEMMA ChunkEnterReads ==
  ASSUME Typed(rtsp), Bounds(rtsp), NEW m, WellFormed(m), BodyReading(rtsp, m), ChunkEnter
  PROVE  BodyReading(rtsp', m) /\ ret' = "running"
<1>1. HeadersFormed(m) /\ BodyFormed(m)
  BY DEF WellFormed
<1>2. PICK k : k = HeaderCount(m) + 1
  OBVIOUS
<1>3. /\ k \in Nat \ {0} /\ Start(m, k) \in Nat /\ Start(m, k) < m.layout.body
      /\ m.layout.body \in Nat
  BY <1>1, <1>2, BodyPlace
<1>4. /\ rtsp.stateM \in ChunkState /\ is_transfer_encoding_chunked(rtsp) /\ rtsp.chunk.offset = 0
  BY DEF ChunkEnter
<1>5. /\ ChunkedBody(m) /\ rtsp.offset = m.layout.body /\ LinesKept(rtsp, m, k)
      /\ Unread(rtsp, m, m.layout.body) /\ rtsp.stateM = "CHUNK_START"
      /\ NotedAs(m, k, rtsp.content_length, "Content-Length", Lengths(m), -1)
  BY <1>2, <1>4 DEF BodyReading
<1>6. \A i \in 1..HeaderCount(m) : ~MeasuredBy(m, i)
  BY <1>1, <1>5 DEF BodyFormed, ChunkedBody
<1>7. rtsp.content_length = -1
  BY <1>1, <1>2, <1>5, <1>6, LengthKnown
<1>8. rtsp' = [rtsp EXCEPT !.chunk.offset = rtsp.offset, !.content_length = 0] /\ ret' = "running"
  BY <1>7 DEF ChunkEnter, Checked
<1>9. /\ rtsp'.stateM = "CHUNK_START" /\ rtsp'.offset = rtsp.offset /\ rtsp'.raw = rtsp.raw
      /\ rtsp'.content_length = 0 /\ rtsp'.chunk.offset = rtsp.offset
      /\ rtsp'.method = rtsp.method /\ rtsp'.uri = rtsp.uri /\ rtsp'.reason = rtsp.reason
      /\ rtsp'.code = rtsp.code /\ rtsp'.headers = rtsp.headers
      /\ rtsp'.connection_close = rtsp.connection_close
      /\ rtsp'.content_encoding = rtsp.content_encoding
      /\ rtsp'.transfer_encoding = rtsp.transfer_encoding
      /\ rtsp'.cookie = rtsp.cookie /\ rtsp'.location = rtsp.location
  BY ONLY <1>5, <1>8, Typed(rtsp) DEF Typed, Shape, LineField, ChunkType
<1>10. LinesSame(rtsp, rtsp')
  <2>1. Len(rtsp.raw) \in Nat /\ rtsp.offset <= Len(rtsp.raw)
    BY RawLen DEF Bounds
  <2> QED
    BY ONLY <1>9, <2>1 DEF LinesSame
<1>11. LinesKept(rtsp', m, k) /\ is_transfer_encoding_chunked(rtsp')
  <2>1. Start(m, k) <= rtsp.offset
    BY <1>3, <1>5
  <2> QED
    BY ONLY <1>3, <1>4, <1>5, <1>10, <2>1, LinesStay, Typed(rtsp), Bounds(rtsp)
<1>12. ChunksFormed(m)
  BY <1>1, <1>5 DEF BodyFormed, ChunkedBody
<1>13. ChunkReading(rtsp', m)
  <2>1. /\ m.layout.chunks[1].size = m.layout.body /\ m.layout.chunks[1].at = 0
        /\ 1 \in 1..Len(m.layout.chunks)
    <3>1. PICK s, T : /\ s = m.layout.chunks
                      /\ T = [size : Nat, end : Nat, data : Nat, len : Nat, at : Nat]
      OBVIOUS
    <3>2. s \in Seq(T) /\ s # <<>>
      BY <1>12, <3>1 DEF ChunksFormed
    <3>3. 1 \in 1..Len(s)
      BY ONLY <3>2, EmptySeq
    <3> QED
      BY <1>12, <3>1, <3>3 DEF ChunksFormed
  <2>2. Unread(rtsp', m, rtsp'.chunk.offset)
    BY <1>5, <1>9 DEF Unread
  <2>3. ChunkAt(rtsp', m, 1)
    BY <1>5, <1>9, <2>1 DEF ChunkAt
  <2>4. Taken(rtsp', m, 1)
    BY <1>9, <2>1 DEF Taken
  <2> QED
    BY <1>9, <2>1, <2>2, <2>3, <2>4 DEF ChunkReading, BeforeTrailer
<1>14. rtsp'.chunk.offset # 0
  BY <1>3, <1>5, <1>9
<1> QED
  BY <1>2, <1>4, <1>5, <1>8, <1>9, <1>11, <1>13, <1>14 DEF BodyReading

-----------------------------------------------------------------------------
(* The turns of rtsp_parse_chunked up to a chunk's data, and behind the last. *)

\* The places of a chunk's line.
ChunkPlaces(m, c) ==
  /\ c.size \in Nat /\ c.end \in Nat /\ c.data \in Nat /\ c.len \in Nat /\ c.at \in Nat
  /\ c.size < c.end /\ c.end < c.data
  /\ At(m, c.size) \in DOMAIN Hex /\ Hex[At(m, c.size)] = c.len
  /\ c.end = c.size + 1 \/ At(m, c.size + 1) = SP
  /\ \A i \in (c.size + 1)..(c.end - 1) : At(m, i) \notin {CR, LF}
  /\ At(m, c.end) \in {CR, LF} /\ At(m, c.data - 1) = LF
  /\ At(m, c.end) = CR => c.data = c.end + 2
  /\ At(m, c.end) = LF => c.data = c.end + 1

\* A chunk's line.
LEMMA ChunkLinePlaces ==
  ASSUME NEW m, ChunksFormed(m), NEW j \in 1..Len(m.layout.chunks),
         NEW c, c = m.layout.chunks[j]
  PROVE  ChunkPlaces(m, c)
<1>1. c \in [size : Nat, end : Nat, data : Nat, len : Nat, at : Nat]
  <2>1. PICK s, T : /\ s = m.layout.chunks
                    /\ T = [size : Nat, end : Nat, data : Nat, len : Nat, at : Nat]
    OBVIOUS
  <2>2. s \in Seq(T) /\ j \in 1..Len(s)
    BY <2>1 DEF ChunksFormed
  <2>3. s[j] \in T
    BY ONLY <2>2
  <2> QED
    BY <2>1, <2>3
<1>2. c.size \in Nat /\ c.end \in Nat /\ c.data \in Nat /\ c.len \in Nat /\ c.at \in Nat
  BY ONLY <1>1
<1>3. /\ At(m, c.size) \in DOMAIN Hex /\ Hex[At(m, c.size)] = c.len
      /\ c.size < c.end /\ (c.end = c.size + 1 \/ At(m, c.size + 1) = SP)
      /\ Over(m, c.size + 1, c.end) \cap {CR, LF} = {} /\ LineEnd(m, c.end, c.data)
  BY DEF ChunksFormed, ChunkFormed
<1>4. /\ c.end < c.data /\ At(m, c.data - 1) = LF /\ At(m, c.end) \in {CR, LF}
      /\ At(m, c.end) = CR => c.data = c.end + 2
      /\ At(m, c.end) = LF => c.data = c.end + 1
  BY ONLY <1>2, <1>3, LineEndAt
<1>5. \A i \in (c.size + 1)..(c.end - 1) : At(m, i) \notin {CR, LF}
  BY ONLY <1>3 DEF Over
<1> QED
  BY ONLY <1>2, <1>3, <1>4, <1>5 DEF ChunkPlaces

\* The chunks and the trailer's lines are sequences.
LEMMA ChunkCounts ==
  ASSUME NEW m, ChunksFormed(m)
  PROVE  Len(m.layout.chunks) \in Nat \ {0} /\ Len(m.layout.trailers) \in Nat
<1>1. PICK s, t, S, T : /\ s = m.layout.chunks /\ t = m.layout.trailers
                        /\ S = [size : Nat, end : Nat, data : Nat, len : Nat, at : Nat]
                        /\ T = [start : Nat, end : Nat]
  OBVIOUS
<1>2. s \in Seq(S) /\ t \in Seq(T) /\ s # <<>>
  BY <1>1 DEF ChunksFormed
<1>3. Len(s) \in Nat \ {0} /\ Len(t) \in Nat
  BY ONLY <1>2, LenProperties, EmptySeq
<1> QED
  BY <1>1, <1>3

\* In the body of a chunked message the parser sees its chunks.
LEMMA InChunks ==
  ASSUME Typed(rtsp), Bounds(rtsp), NEW m, WellFormed(m), BodyReading(rtsp, m), ChunkTurn
  PROVE  /\ ChunkedBody(m) /\ ChunksFormed(m) /\ HeadersFormed(m) /\ ChunkReading(rtsp, m)
         /\ rtsp.chunk.offset \in Nat /\ rtsp.chunk.offset < Len(rtsp.raw)
         /\ Char(rtsp, rtsp.chunk.offset) = At(m, rtsp.chunk.offset)
         /\ ret = "running" /\ rtsp.stateM # "DONE"
<1>1. /\ ret = "running" /\ is_transfer_encoding_chunked(rtsp) /\ rtsp.chunk.offset # 0
      /\ rtsp.chunk.offset < Len(rtsp.raw) /\ rtsp.stateM # "DONE"
  BY DEF ChunkTurn, raw_size
<1>2. ChunkedBody(m) /\ ChunkReading(rtsp, m)
  BY <1>1 DEF BodyReading
<1>3. HeadersFormed(m) /\ ChunksFormed(m)
  BY <1>2 DEF WellFormed, BodyFormed, ChunkedBody
<1>4. Unread(rtsp, m, rtsp.chunk.offset)
  BY <1>2 DEF ChunkReading
<1>5. Char(rtsp, rtsp.chunk.offset) = At(m, rtsp.chunk.offset)
  BY <1>1, <1>4, RawLen, UnreadChar
<1> QED
  BY <1>1, <1>2, <1>3, <1>5, RawLen

\* A step over one token: only the place in the chunk has to be shown.
LEMMA ScanGoes ==
  ASSUME Typed(rtsp), Bounds(rtsp), NEW m, WellFormed(m), BodyReading(rtsp, m), ChunkedBody(m),
         rtsp.chunk.offset # 0, NEW s \in ChunkState \cup {"DONE"}, NEW len, NEW pos,
         Scanned(s, Next1(len, pos)),
         \/ /\ s \in BeforeTrailer
            /\ \E j \in 1..Len(m.layout.chunks) : ChunkAt(rtsp', m, j) /\ Taken(rtsp, m, j)
         \/ /\ s \notin BeforeTrailer
            /\ Taken(rtsp, m, Len(m.layout.chunks))
            /\ \E k \in 1..(Len(m.layout.trailers) + 1) : TrailerAt(rtsp', m, k)
            /\ s = "DONE" => rtsp.chunk.offset + 1 = Len(m.text)
  PROVE  BodyReading(rtsp', m)
<1>1. /\ Shape(rtsp) /\ rtsp.chunk.offset \in Nat /\ Len(rtsp.raw) \in Nat /\ rtsp.offset \in Nat
      /\ rtsp.offset <= Len(rtsp.raw)
  BY RawLen DEF Typed, Bounds
<1>2. /\ rtsp'.stateM = s /\ rtsp'.offset = rtsp.offset /\ rtsp'.raw = rtsp.raw
      /\ rtsp'.content_length = rtsp.content_length
      /\ rtsp'.chunk.offset = rtsp.chunk.offset + 1
      /\ rtsp'.method = rtsp.method /\ rtsp'.uri = rtsp.uri /\ rtsp'.reason = rtsp.reason
      /\ rtsp'.code = rtsp.code /\ rtsp'.headers = rtsp.headers
      /\ rtsp'.connection_close = rtsp.connection_close
      /\ rtsp'.content_encoding = rtsp.content_encoding
      /\ rtsp'.transfer_encoding = rtsp.transfer_encoding
      /\ rtsp'.cookie = rtsp.cookie /\ rtsp'.location = rtsp.location
  BY ONLY <1>1, Scanned(s, Next1(len, pos)) DEF Scanned, Next1, Shape, LineField
<1>3. LinesSame(rtsp, rtsp')
  BY ONLY <1>1, <1>2 DEF LinesSame
<1>4. PICK k : k = HeaderCount(m) + 1
  OBVIOUS
<1>5. /\ k \in Nat \ {0} /\ Start(m, k) \in Nat /\ Start(m, k) < m.layout.body
      /\ m.layout.body \in Nat
  BY <1>4, BodyPlace DEF WellFormed
<1>6. /\ rtsp.offset = m.layout.body /\ LinesKept(rtsp, m, k) /\ ChunkReading(rtsp, m)
      /\ is_transfer_encoding_chunked(rtsp)
  BY <1>4 DEF BodyReading
<1>7. LinesKept(rtsp', m, k) /\ is_transfer_encoding_chunked(rtsp')
  <2>1. Start(m, k) <= rtsp.offset
    BY <1>5, <1>6
  <2> QED
    BY ONLY <1>3, <1>5, <1>6, <2>1, LinesStay, Typed(rtsp), Bounds(rtsp)
<1>8. Unread(rtsp', m, rtsp'.chunk.offset)
  <2>1. Unread(rtsp, m, rtsp.chunk.offset)
    BY <1>6 DEF ChunkReading
  <2>2. rtsp'.chunk.offset \in Nat /\ rtsp.chunk.offset <= rtsp'.chunk.offset
    BY ONLY <1>1, <1>2
  <2> QED
    BY ONLY <1>1, <1>2, <2>1, <2>2, UnreadLater
<1>9. \A j : Taken(rtsp, m, j) => Taken(rtsp', m, j)
  BY ONLY <1>2 DEF Taken
<1>10. ChunkReading(rtsp', m)
  BY <1>2, <1>8, <1>9 DEF ChunkReading
<1>11. rtsp'.chunk.offset # 0
  BY <1>1, <1>2
<1> QED
  BY <1>2, <1>4, <1>6, <1>7, <1>10, <1>11 DEF BodyReading

\* What such a step changes.
LEMMA ScannedTo ==
  ASSUME Typed(rtsp), NEW s, NEW len, NEW pos, Scanned(s, Next1(len, pos))
  PROVE  rtsp'.stateM = s /\ rtsp'.chunk.offset = rtsp.chunk.offset + 1 /\ rtsp'.chunk.len = len
BY DEF Scanned, Next1

\* A chunk that lies in the text has a size that does not wrap.
LEMMA ChunkFits ==
  ASSUME NEW m, ChunksFormed(m), Sized(m), NEW j \in 1..Len(m.layout.chunks),
         NEW c, c = m.layout.chunks[j], ChunkPlaces(m, c)
  PROVE  /\ c.len < SizeMod
         /\ c.len > 0 => c.data + c.len + 2 < SizeMod
<1>1. c.data \in Nat /\ c.len \in Nat
  BY DEF ChunkPlaces
<1>2. Len(m.text) \in Nat /\ SizeMod \in Nat \ {0} /\ Len(m.text) + 2 < SizeMod
  BY DEF Sized
<1>3. ChunkFormed(m, j)
  BY DEF ChunksFormed
<1>4. c.len > 0 => c.data + c.len + 2 < Len(m.text)
  <2>1. PICK d : d = m.layout.chunks[j + 1]
    OBVIOUS
  <2>2. c.len > 0 => c.data + c.len + 2 = d.size /\ d.size < Len(m.text)
    BY ONLY <1>3, <2>1, c = m.layout.chunks[j] DEF ChunkFormed
  <2> QED
    BY <2>2
<1> QED
  BY ONLY <1>1, <1>2, <1>4

\* A number that size_t counts.
LEMMA Unwrapped ==
  ASSUME NEW x \in Nat, NEW n \in Nat, x < n
  PROVE  x % n = x
OBVIOUS

\* CHUNK_START: the size.
LEMMA ChunkStartReads ==
  ASSUME Typed(rtsp), Bounds(rtsp), NEW m, WellFormed(m), Sized(m), BodyReading(rtsp, m), ChunkTurn,
         rtsp.stateM = "CHUNK_START"
  PROVE  BodyReading(rtsp', m) /\ ret' = "running"
<1>1. PICK o, w : o = rtsp.chunk.offset /\ w = Char(rtsp, o)
  OBVIOUS
<1>2. /\ ChunkedBody(m) /\ ChunksFormed(m) /\ ChunkReading(rtsp, m)
      /\ o \in Nat /\ o # 0 /\ w = At(m, o)
  BY <1>1, InChunks DEF ChunkTurn
<1>3. PICK j \in 1..Len(m.layout.chunks) : ChunkAt(rtsp, m, j) /\ Taken(rtsp, m, j)
  BY <1>2 DEF ChunkReading, BeforeTrailer
<1>4. PICK c : c = m.layout.chunks[j]
  OBVIOUS
<1>5. ChunkPlaces(m, c)
  BY <1>2, <1>4, ChunkLinePlaces
<1>6. o = c.size
  BY <1>1, <1>3, <1>4 DEF ChunkAt
<1>7. w \in DOMAIN Hex /\ HexSize(w) = c.len
  <2>1. w \in DOMAIN Hex /\ Hex[w] = c.len /\ c.len \in Nat
    BY <1>2, <1>5, <1>6 DEF ChunkPlaces
  <2>2. c.len < SizeMod /\ SizeMod \in Nat
    BY <1>2, <1>4, <1>5, ChunkFits DEF Sized
  <2>3. c.len % SizeMod = c.len
    BY ONLY <2>1, <2>2, Unwrapped
  <2> QED
    BY <2>1, <2>3 DEF HexSize
<1>8. rtsp' = [Scan("CHUNK_SIZE") EXCEPT !.chunk.len = HexSize(w)] /\ ret' = "running"
  BY ONLY <1>1, <1>7, ChunkTurn, rtsp.stateM = "CHUNK_START" DEF ChunkTurn, Checked
<1>9. PICK s, n : s = "CHUNK_SIZE" /\ n = HexSize(w)
  OBVIOUS
<1>10. Scanned(s, Next1(n, rtsp.chunk.pos))
  BY ONLY <1>8, <1>9, Typed(rtsp), StartScans
<1>11. rtsp'.stateM = s /\ rtsp'.chunk.offset = o + 1 /\ rtsp'.chunk.len = n
  BY ONLY <1>1, <1>10, Typed(rtsp), ScannedTo
<1>12. ChunkAt(rtsp', m, j)
  BY ONLY <1>4, <1>6, <1>7, <1>9, <1>11 DEF ChunkAt
<1>13. s \in BeforeTrailer /\ s \in ChunkState \cup {"DONE"}
  BY <1>9 DEF BeforeTrailer, ChunkState
<1>14. \E i \in 1..Len(m.layout.chunks) : ChunkAt(rtsp', m, i) /\ Taken(rtsp, m, i)
  BY <1>3, <1>12
<1> QED
  BY ONLY <1>1, <1>2, <1>8, <1>10, <1>13, <1>14, ScanGoes, Typed(rtsp), Bounds(rtsp), WellFormed(m),
          BodyReading(rtsp, m)

\* The end of the size's line: the data follows, or the trailer.
LEMMA AfterSizeReads ==
  ASSUME Typed(rtsp), Bounds(rtsp), NEW m, WellFormed(m), BodyReading(rtsp, m), ChunkedBody(m),
         ChunksFormed(m), NEW j \in 1..Len(m.layout.chunks), NEW c, c = m.layout.chunks[j],
         Taken(rtsp, m, j), rtsp.chunk.offset # 0, rtsp.chunk.len = c.len,
         rtsp.chunk.offset = c.data - 1, rtsp' = AfterSize
  PROVE  BodyReading(rtsp', m)
<1>1. PICK s, n, p : /\ s = IF rtsp.chunk.len = 0 THEN "CHUNK_TRAILER_START" ELSE "CHUNK_DATA"
                     /\ n = rtsp.chunk.len /\ p = rtsp.chunk.offset + 1
  OBVIOUS
<1>2. Scanned(s, Next1(n, p))
  BY ONLY <1>1, Typed(rtsp), SizeScans, rtsp' = AfterSize
<1>3. ChunkPlaces(m, c)
  BY ChunkLinePlaces
<1>4. rtsp'.stateM = s /\ rtsp'.chunk.offset = c.data /\ rtsp'.chunk.len = c.len
  <2>1. rtsp'.stateM = s /\ rtsp'.chunk.offset = rtsp.chunk.offset + 1 /\ rtsp'.chunk.len = n
    BY ONLY <1>2, Typed(rtsp), ScannedTo
  <2>2. c.data \in Nat
    BY <1>3 DEF ChunkPlaces
  <2> QED
    BY <1>1, <2>1, <2>2
<1>5. CASE c.len = 0
  <2>1. s = "CHUNK_TRAILER_START"
    BY <1>1, <1>5
  <2>2. PICK n1, t : n1 = Len(m.layout.chunks) /\ t = Len(m.layout.trailers)
    OBVIOUS
  <2>3. n1 \in Nat /\ t \in Nat
    BY <2>2, ChunkCounts
  <2>4. ChunkFormed(m, j)
    BY DEF ChunksFormed
  <2>5. ~(j < n1)
    BY <1>5, <2>2, <2>4 DEF ChunkFormed
  <2>6. j = n1
    BY <2>2, <2>3, <2>5
  <2>7. c.data = TrailerStart(m, 1)
    BY <2>2, <2>4, <2>5 DEF ChunkFormed
  <2>8. TrailerAt(rtsp', m, 1)
    BY ONLY <1>4, <2>1, <2>7 DEF TrailerAt
  <2>9. 1 \in 1..(t + 1)
    BY <2>3
  <2>10. s \notin BeforeTrailer /\ s \in ChunkState \cup {"DONE"} /\ s # "DONE"
    BY ONLY <2>1 DEF BeforeTrailer, ChunkState
  <2>11. \E k \in 1..(Len(m.layout.trailers) + 1) : TrailerAt(rtsp', m, k)
    BY <2>2, <2>8, <2>9
  <2>12. Taken(rtsp, m, Len(m.layout.chunks))
    BY <2>2, <2>6
  <2> QED
    BY ONLY <1>2, <2>10, <2>11, <2>12, ScanGoes, Typed(rtsp), Bounds(rtsp), WellFormed(m),
            BodyReading(rtsp, m), ChunkedBody(m), rtsp.chunk.offset # 0
<1>6. CASE c.len # 0
  <2>1. s = "CHUNK_DATA"
    BY <1>1, <1>6
  <2>2. c.len > 0
    BY <1>3, <1>6 DEF ChunkPlaces
  <2>3. ChunkAt(rtsp', m, j)
    BY ONLY <1>4, <2>1, <2>2, c = m.layout.chunks[j] DEF ChunkAt
  <2>4. s \in BeforeTrailer /\ s \in ChunkState \cup {"DONE"}
    BY ONLY <2>1 DEF BeforeTrailer, ChunkState
  <2>5. \E i \in 1..Len(m.layout.chunks) : ChunkAt(rtsp', m, i) /\ Taken(rtsp, m, i)
    BY <2>3
  <2> QED
    BY ONLY <1>2, <2>4, <2>5, ScanGoes, Typed(rtsp), Bounds(rtsp), WellFormed(m),
            BodyReading(rtsp, m), ChunkedBody(m), rtsp.chunk.offset # 0
<1> QED
  BY <1>5, <1>6

\* A step within the size's line.
LEMMA ExtensionGoes ==
  ASSUME Typed(rtsp), Bounds(rtsp), NEW m, WellFormed(m), BodyReading(rtsp, m), ChunkedBody(m),
         NEW j \in 1..Len(m.layout.chunks), Taken(rtsp, m, j), rtsp.chunk.offset # 0,
         NEW s \in {"CHUNK_EXTENSION", "CHUNK_EXTENSION_CR"}, rtsp' = Scan(s),
         NEW c, c = m.layout.chunks[j], rtsp.chunk.len = c.len,
         s = "CHUNK_EXTENSION" => c.size < rtsp.chunk.offset + 1 /\ rtsp.chunk.offset + 1 <= c.end,
         s = "CHUNK_EXTENSION_CR" => rtsp.chunk.offset + 1 = c.data - 1
  PROVE  BodyReading(rtsp', m)
<1>1. Scanned(s, Next1(rtsp.chunk.len, rtsp.chunk.pos))
  BY ScanScans
<1>2. rtsp'.stateM = s /\ rtsp'.chunk.offset = rtsp.chunk.offset + 1 /\ rtsp'.chunk.len = c.len
  BY <1>1, ScannedTo
<1>3. s # "CHUNK_START" /\ s # "CHUNK_SIZE" /\ s # "CHUNK_DATA"
  OBVIOUS
<1>4. ChunkAt(rtsp', m, j)
  BY ONLY <1>2, <1>3, c = m.layout.chunks[j],
         s = "CHUNK_EXTENSION" => c.size < rtsp.chunk.offset + 1 /\ rtsp.chunk.offset + 1 <= c.end,
         s = "CHUNK_EXTENSION_CR" => rtsp.chunk.offset + 1 = c.data - 1 DEF ChunkAt
<1>5. s \in BeforeTrailer /\ s \in ChunkState \cup {"DONE"}
  BY DEF BeforeTrailer, ChunkState
<1>6. \E i \in 1..Len(m.layout.chunks) : ChunkAt(rtsp', m, i) /\ Taken(rtsp, m, i)
  BY <1>4
<1> QED
  BY ONLY <1>1, <1>5, <1>6, ScanGoes, Typed(rtsp), Bounds(rtsp), WellFormed(m),
          BodyReading(rtsp, m), ChunkedBody(m), rtsp.chunk.offset # 0

\* CHUNK_SIZE, CHUNK_EXTENSION and CHUNK_EXTENSION_CR: up to the end of the size's line.
LEMMA ChunkLineReads ==
  ASSUME Typed(rtsp), Bounds(rtsp), NEW m, WellFormed(m), BodyReading(rtsp, m), ChunkTurn,
         rtsp.stateM \in {"CHUNK_SIZE", "CHUNK_EXTENSION", "CHUNK_EXTENSION_CR"}
  PROVE  BodyReading(rtsp', m) /\ ret' = "running"
<1>1. PICK o, w : o = rtsp.chunk.offset /\ w = Char(rtsp, o)
  OBVIOUS
<1>2. /\ ChunkedBody(m) /\ ChunksFormed(m) /\ ChunkReading(rtsp, m)
      /\ o \in Nat /\ o # 0 /\ w = At(m, o) /\ ret = "running"
  BY <1>1, InChunks DEF ChunkTurn
<1>3. PICK j \in 1..Len(m.layout.chunks) : ChunkAt(rtsp, m, j) /\ Taken(rtsp, m, j)
  BY <1>2 DEF ChunkReading, BeforeTrailer
<1>4. PICK c : c = m.layout.chunks[j]
  OBVIOUS
<1>5. ChunkPlaces(m, c)
  BY <1>2, <1>4, ChunkLinePlaces
<1>6. rtsp.chunk.len = c.len
  BY <1>3, <1>4 DEF ChunkAt
<1>7. ASSUME rtsp' = AfterSize, o = c.data - 1
      PROVE  BodyReading(rtsp', m)
  BY <1>1, <1>2, <1>3, <1>4, <1>6, <1>7, AfterSizeReads
<1>8. ASSUME NEW s \in {"CHUNK_EXTENSION", "CHUNK_EXTENSION_CR"}, rtsp' = Scan(s),
             s = "CHUNK_EXTENSION" => c.size < o + 1 /\ o + 1 <= c.end,
             s = "CHUNK_EXTENSION_CR" => o + 1 = c.data - 1
      PROVE  BodyReading(rtsp', m)
  BY ONLY <1>1, <1>2, <1>3, <1>4, <1>6, <1>8, ExtensionGoes, Typed(rtsp), Bounds(rtsp),
          WellFormed(m), BodyReading(rtsp, m)
<1>9. SP # CR /\ SP # LF /\ CR # LF
  BY DEF SP, CR, LF
<1>10. CASE rtsp.stateM = "CHUNK_SIZE"
  <2>1. o = c.size + 1
    BY ONLY <1>1, <1>3, <1>4, <1>10 DEF ChunkAt
  <2>2. /\ w \in {SP, CR, LF}
        /\ w = LF => o = c.data - 1
        /\ w = CR => o + 1 = c.data - 1
        /\ w = SP => c.size < o + 1 /\ o + 1 <= c.end
    BY ONLY <1>2, <1>5, <1>9, <2>1 DEF ChunkPlaces
  <2>3. /\ ret' = "running"
        /\ rtsp' = IF w = LF THEN AfterSize
                   ELSE Scan(IF w = SP THEN "CHUNK_EXTENSION" ELSE "CHUNK_EXTENSION_CR")
    BY ONLY <1>1, <1>10, <2>2, ChunkTurn DEF ChunkTurn, Checked
  <2>4. CASE w = LF
    BY <1>7, <2>2, <2>3, <2>4
  <2>5. CASE w = SP
    BY ONLY <1>8, <1>9, <2>2, <2>3, <2>5
  <2>6. CASE w = CR
    BY ONLY <1>8, <1>9, <2>2, <2>3, <2>6
  <2> QED
    BY <2>2, <2>3, <2>4, <2>5, <2>6
<1>11. CASE rtsp.stateM = "CHUNK_EXTENSION"
  <2>1. c.size < o /\ o <= c.end
    BY ONLY <1>1, <1>3, <1>4, <1>11 DEF ChunkAt
  <2>2. /\ w = LF => o = c.data - 1
        /\ w = CR => o + 1 = c.data - 1
        /\ w \notin {CR, LF} => c.size < o + 1 /\ o + 1 <= c.end
    <3>1. o < c.end => w \notin {CR, LF}
      <4>1. o < c.end => o \in (c.size + 1)..(c.end - 1)
        BY ONLY <1>2, <1>5, <2>1 DEF ChunkPlaces
      <4> QED
        BY ONLY <1>2, <1>5, <4>1 DEF ChunkPlaces
    <3> QED
      BY ONLY <1>2, <1>5, <1>9, <2>1, <3>1 DEF ChunkPlaces
  <2>3. /\ ret' = "running"
        /\ rtsp' = IF w = LF THEN AfterSize
                   ELSE Scan(IF w = CR THEN "CHUNK_EXTENSION_CR" ELSE "CHUNK_EXTENSION")
    BY ONLY <1>1, <1>2, <1>11, ChunkTurn DEF ChunkTurn
  <2>4. CASE w = LF
    BY <1>7, <2>2, <2>3, <2>4
  <2>5. CASE w = CR
    BY ONLY <1>8, <1>9, <2>2, <2>3, <2>5
  <2>6. CASE w \notin {CR, LF}
    BY ONLY <1>8, <1>9, <2>2, <2>3, <2>6
  <2> QED
    BY <2>3, <2>4, <2>5, <2>6
<1>12. CASE rtsp.stateM = "CHUNK_EXTENSION_CR"
  <2>1. o = c.data - 1
    BY ONLY <1>1, <1>3, <1>4, <1>12 DEF ChunkAt
  <2>2. w = LF
    BY ONLY <1>2, <1>5, <2>1 DEF ChunkPlaces
  <2>3. rtsp' = AfterSize /\ ret' = "running"
    BY ONLY <1>1, <1>12, <2>2, ChunkTurn DEF ChunkTurn, Checked
  <2> QED
    BY <1>7, <2>1, <2>3
<1> QED
  BY <1>10, <1>11, <1>12

-----------------------------------------------------------------------------
(* The turns behind the last chunk.                                          *)

\* The places of a line of the trailer that ends before position e.
TrailerPlaces(m, t, e) ==
  /\ t.start \in Nat /\ t.end \in Nat /\ e \in Nat /\ t.start < t.end /\ t.end < e
  /\ \A i \in t.start..(t.end - 1) : At(m, i) \notin {CR, LF}
  /\ At(m, t.end) \in {CR, LF} /\ At(m, e - 1) = LF
  /\ At(m, t.end) = CR => e = t.end + 2
  /\ At(m, t.end) = LF => e = t.end + 1

\* A line of the trailer.
LEMMA TrailerLinePlaces ==
  ASSUME NEW m, ChunksFormed(m), NEW k \in 1..Len(m.layout.trailers),
         NEW t, t = m.layout.trailers[k]
  PROVE  TrailerPlaces(m, t, TrailerStart(m, k + 1)) /\ TrailerStart(m, k) = t.start
<1>1. t.start \in Nat /\ t.end \in Nat
  <2>1. PICK s, T : s = m.layout.trailers /\ T = [start : Nat, end : Nat]
    OBVIOUS
  <2>2. s \in Seq(T) /\ k \in 1..Len(s)
    BY <2>1 DEF ChunksFormed
  <2>3. s[k] \in T
    BY ONLY <2>2
  <2> QED
    BY <2>1, <2>3
<1>2. /\ t.start < t.end /\ Over(m, t.start, t.end) \cap {CR, LF} = {}
      /\ LineEnd(m, t.end, TrailerStart(m, k + 1))
  BY DEF ChunksFormed, TrailerFormed
<1>3. PICK e : e = TrailerStart(m, k + 1)
  OBVIOUS
<1>4. /\ e \in Nat /\ t.end < e /\ At(m, e - 1) = LF /\ At(m, t.end) \in {CR, LF}
      /\ At(m, t.end) = CR => e = t.end + 2
      /\ At(m, t.end) = LF => e = t.end + 1
  BY ONLY <1>1, <1>2, <1>3, LineEndAt
<1>5. \A i \in t.start..(t.end - 1) : At(m, i) \notin {CR, LF}
  BY ONLY <1>2 DEF Over
<1>6. TrailerStart(m, k) = t.start
  BY ChunkCounts DEF TrailerStart
<1> QED
  BY ONLY <1>1, <1>2, <1>3, <1>4, <1>5, <1>6 DEF TrailerPlaces

\* The message's last line end.
LEMMA LastPlaces ==
  ASSUME NEW m, ChunksFormed(m)
  PROVE  LET e == Len(m.text)
             last == m.layout.last
         IN  /\ last \in Nat /\ e \in Nat /\ last < e /\ At(m, e - 1) = LF
             /\ At(m, last) \in {CR, LF}
             /\ At(m, last) = CR => last + 1 = e - 1
             /\ At(m, last) = LF => last + 1 = e
             /\ TrailerStart(m, Len(m.layout.trailers) + 1) = last
<1>1. PICK e, l : e = Len(m.text) /\ l = m.layout.last
  OBVIOUS
<1>2. l \in Nat /\ LineEnd(m, l, e)
  BY <1>1 DEF ChunksFormed
<1>3. /\ e \in Nat /\ l < e /\ At(m, e - 1) = LF /\ At(m, l) \in {CR, LF}
      /\ At(m, l) = CR => e = l + 2
      /\ At(m, l) = LF => e = l + 1
  BY ONLY <1>2, LineEndAt
<1>4. /\ At(m, l) = CR => l + 1 = e - 1
      /\ At(m, l) = LF => l + 1 = e
  BY ONLY <1>2, <1>3
<1>5. TrailerStart(m, Len(m.layout.trailers) + 1) = l
  BY <1>1, ChunkCounts DEF TrailerStart
<1> QED
  BY ONLY <1>1, <1>2, <1>3, <1>4, <1>5

\* A step behind the last chunk.
LEMMA TrailerGoes ==
  ASSUME Typed(rtsp), Bounds(rtsp), NEW m, WellFormed(m), BodyReading(rtsp, m), ChunkedBody(m),
         Taken(rtsp, m, Len(m.layout.chunks)), rtsp.chunk.offset # 0,
         NEW s \in {"CHUNK_TRAILER_START", "CHUNK_TRAILER", "CHUNK_TRAILER_CR", "CHUNK_END_CR",
                    "DONE"},
         rtsp' = Scan(s), NEW k \in 1..(Len(m.layout.trailers) + 1), NEW t,
         t = m.layout.trailers[k], NEW o, o = rtsp.chunk.offset + 1,
         s = "CHUNK_TRAILER_START" => o = TrailerStart(m, k),
         s = "CHUNK_TRAILER" => k <= Len(m.layout.trailers) /\ t.start < o /\ o <= t.end,
         s = "CHUNK_TRAILER_CR" => k <= Len(m.layout.trailers) /\ o = TrailerStart(m, k + 1) - 1,
         s = "CHUNK_END_CR" => o = Len(m.text) - 1,
         s = "DONE" => o = Len(m.text)
  PROVE  BodyReading(rtsp', m)
<1>1. Scanned(s, Next1(rtsp.chunk.len, rtsp.chunk.pos))
  BY ScanScans
<1>2. rtsp'.stateM = s /\ rtsp'.chunk.offset = o
  BY <1>1, ScannedTo
<1>3. TrailerAt(rtsp', m, k)
  BY ONLY <1>2, t = m.layout.trailers[k],
         s = "CHUNK_TRAILER_START" => o = TrailerStart(m, k),
         s = "CHUNK_TRAILER" => k <= Len(m.layout.trailers) /\ t.start < o /\ o <= t.end,
         s = "CHUNK_TRAILER_CR" => k <= Len(m.layout.trailers) /\ o = TrailerStart(m, k + 1) - 1,
         s = "CHUNK_END_CR" => o = Len(m.text) - 1 DEF TrailerAt
<1>4. s \notin BeforeTrailer /\ s \in ChunkState \cup {"DONE"}
  BY DEF BeforeTrailer, ChunkState
<1>5. \E i \in 1..(Len(m.layout.trailers) + 1) : TrailerAt(rtsp', m, i)
  BY <1>3
<1>6. s = "DONE" => rtsp.chunk.offset + 1 = Len(m.text)
  OBVIOUS
<1> QED
  BY ONLY <1>1, <1>4, <1>5, <1>6, ScanGoes, Typed(rtsp), Bounds(rtsp), WellFormed(m),
          BodyReading(rtsp, m), ChunkedBody(m), rtsp.chunk.offset # 0,
          Taken(rtsp, m, Len(m.layout.chunks))

\* CHUNK_TRAILER_START to CHUNK_END_CR: the trailer, up to the end of the message.
LEMMA TrailerReads ==
  ASSUME Typed(rtsp), Bounds(rtsp), NEW m, WellFormed(m), BodyReading(rtsp, m), ChunkTurn,
         rtsp.stateM \in {"CHUNK_TRAILER_START", "CHUNK_TRAILER", "CHUNK_TRAILER_CR",
                          "CHUNK_END_CR"}
  PROVE  BodyReading(rtsp', m) /\ ret' = "running"
<1>1. PICK o, w, n, e : /\ o = rtsp.chunk.offset /\ w = Char(rtsp, o)
                        /\ n = Len(m.layout.trailers) /\ e = Len(m.text)
  OBVIOUS
<1>2. /\ ChunkedBody(m) /\ ChunksFormed(m) /\ ChunkReading(rtsp, m)
      /\ o \in Nat /\ o # 0 /\ w = At(m, o) /\ ret = "running" /\ n \in Nat
  BY <1>1, InChunks, ChunkCounts DEF ChunkTurn
<1>3. PICK k \in 1..(n + 1) : TrailerAt(rtsp, m, k) /\ Taken(rtsp, m, Len(m.layout.chunks))
  BY <1>1, <1>2 DEF ChunkReading, BeforeTrailer
<1>4. PICK t, a, b : t = m.layout.trailers[k] /\ a = TrailerStart(m, k) /\ b = TrailerStart(m, k + 1)
  OBVIOUS
<1>5. k <= n => TrailerPlaces(m, t, b) /\ a = t.start
  <2>1. k <= n => k \in 1..n
    BY <1>2
  <2> QED
    BY <1>1, <1>2, <1>4, <2>1, TrailerLinePlaces
<1>6. /\ e \in Nat /\ At(m, e - 1) = LF
      /\ k = n + 1 => /\ a \in Nat /\ At(m, a) \in {CR, LF}
                      /\ At(m, a) = CR => a + 1 = e - 1
                      /\ At(m, a) = LF => a + 1 = e
  BY <1>1, <1>2, <1>4, LastPlaces
<1>7. k \in 1..(n + 1) /\ (k <= n => k + 1 \in 1..(n + 1)) /\ (k <= n \/ k = n + 1)
  BY <1>2
<1>8. ASSUME NEW s \in {"CHUNK_TRAILER", "CHUNK_TRAILER_CR", "CHUNK_END_CR", "DONE"}, rtsp' = Scan(s),
             s = "CHUNK_TRAILER" => k <= n /\ t.start < o + 1 /\ o + 1 <= t.end,
             s = "CHUNK_TRAILER_CR" => k <= n /\ o + 1 = b - 1,
             s = "CHUNK_END_CR" => o + 1 = e - 1,
             s = "DONE" => o + 1 = e
      PROVE  BodyReading(rtsp', m)
  <2>1. PICK p : p = o + 1
    OBVIOUS
  <2>2. /\ s = "CHUNK_TRAILER_START" => p = TrailerStart(m, k)
        /\ s \in {"CHUNK_TRAILER_START", "CHUNK_TRAILER", "CHUNK_TRAILER_CR", "CHUNK_END_CR", "DONE"}
    BY <1>8
  <2> QED
    BY ONLY <1>1, <1>2, <1>3, <1>4, <1>7, <1>8, <2>1, <2>2, TrailerGoes, Typed(rtsp), Bounds(rtsp),
            WellFormed(m), BodyReading(rtsp, m)
<1>9. ASSUME k <= n, o + 1 = b, rtsp' = Scan("CHUNK_TRAILER_START")
      PROVE  BodyReading(rtsp', m)
  <2>1. PICK p, s, i, u : /\ p = o + 1 /\ s = "CHUNK_TRAILER_START" /\ i = k + 1
                          /\ u = m.layout.trailers[i]
    OBVIOUS
  <2>2. /\ s \in {"CHUNK_TRAILER_START", "CHUNK_TRAILER", "CHUNK_TRAILER_CR", "CHUNK_END_CR", "DONE"}
        /\ s # "CHUNK_TRAILER" /\ s # "CHUNK_TRAILER_CR" /\ s # "CHUNK_END_CR" /\ s # "DONE"
        /\ rtsp' = Scan(s)
    BY <1>9, <2>1
  <2>3. i \in 1..(n + 1) /\ p = TrailerStart(m, i)
    BY <1>4, <1>7, <1>9, <2>1
  <2> QED
    BY ONLY <1>1, <1>2, <1>3, <2>1, <2>2, <2>3, TrailerGoes, Typed(rtsp), Bounds(rtsp),
            WellFormed(m), BodyReading(rtsp, m)
<1>10. CR # LF
  BY DEF CR, LF
<1>11. CASE rtsp.stateM = "CHUNK_TRAILER_START"
  <2>1. o = a
    BY ONLY <1>1, <1>3, <1>4, <1>11 DEF TrailerAt
  <2>2. /\ w = CR => o + 1 = e - 1
        /\ w = LF => o + 1 = e
        /\ w \notin {CR, LF} => k <= n /\ t.start < o + 1 /\ o + 1 <= t.end
    <3>1. CASE k <= n
      <4>1. w \notin {CR, LF} /\ t.start < o + 1 /\ o + 1 <= t.end
        <5>1. o \in t.start..(t.end - 1)
          BY ONLY <1>2, <1>5, <2>1, <3>1 DEF TrailerPlaces
        <5> QED
          BY ONLY <1>2, <1>5, <2>1, <3>1, <5>1 DEF TrailerPlaces
      <4> QED
        BY ONLY <3>1, <4>1
    <3>2. CASE k = n + 1
      BY ONLY <1>2, <1>6, <2>1, <3>2
    <3> QED
      BY ONLY <1>7, <3>1, <3>2
  <2>3. /\ ret' = "running"
        /\ rtsp' = Scan(CASE w = CR -> "CHUNK_END_CR" [] w = LF -> "DONE"
                          [] OTHER -> "CHUNK_TRAILER")
    BY ONLY <1>1, <1>2, <1>11, ChunkTurn DEF ChunkTurn
  <2>4. CASE w = CR
    BY ONLY <1>8, <1>10, <2>2, <2>3, <2>4
  <2>5. CASE w = LF
    BY ONLY <1>8, <1>10, <2>2, <2>3, <2>5
  <2>6. CASE w \notin {CR, LF}
    BY ONLY <1>8, <1>10, <2>2, <2>3, <2>6
  <2> QED
    BY <2>3, <2>4, <2>5, <2>6
<1>12. CASE rtsp.stateM = "CHUNK_TRAILER"
  <2>1. k <= n /\ t.start < o /\ o <= t.end
    BY ONLY <1>1, <1>3, <1>4, <1>12 DEF TrailerAt
  <2>2. /\ w = CR => o + 1 = b - 1
        /\ w = LF => o + 1 = b
        /\ w \notin {CR, LF} => t.start < o + 1 /\ o + 1 <= t.end
    <3>1. o < t.end => w \notin {CR, LF}
      <4>1. o < t.end => o \in t.start..(t.end - 1)
        BY ONLY <1>2, <1>5, <2>1 DEF TrailerPlaces
      <4> QED
        BY ONLY <1>2, <1>5, <2>1, <4>1 DEF TrailerPlaces
    <3> QED
      BY ONLY <1>2, <1>5, <1>10, <2>1, <3>1 DEF TrailerPlaces
  <2>3. /\ ret' = "running"
        /\ rtsp' = Scan(CASE w = CR -> "CHUNK_TRAILER_CR" [] w = LF -> "CHUNK_TRAILER_START"
                          [] OTHER -> "CHUNK_TRAILER")
    BY ONLY <1>1, <1>2, <1>12, ChunkTurn DEF ChunkTurn
  <2>4. CASE w = CR
    BY ONLY <1>8, <1>10, <2>1, <2>2, <2>3, <2>4
  <2>5. CASE w = LF
    BY ONLY <1>9, <1>10, <2>1, <2>2, <2>3, <2>5
  <2>6. CASE w \notin {CR, LF}
    BY ONLY <1>8, <1>10, <2>1, <2>2, <2>3, <2>6
  <2> QED
    BY <2>3, <2>4, <2>5, <2>6
<1>13. CASE rtsp.stateM = "CHUNK_TRAILER_CR"
  <2>1. k <= n /\ o = b - 1
    BY ONLY <1>1, <1>3, <1>4, <1>13 DEF TrailerAt
  <2>2. w = LF /\ o + 1 = b
    BY ONLY <1>2, <1>5, <2>1 DEF TrailerPlaces
  <2>3. rtsp' = Scan("CHUNK_TRAILER_START") /\ ret' = "running"
    BY ONLY <1>1, <1>13, <2>2, ChunkTurn DEF ChunkTurn, Checked
  <2> QED
    BY <1>9, <2>1, <2>2, <2>3
<1>14. CASE rtsp.stateM = "CHUNK_END_CR"
  <2>1. o = e - 1
    BY ONLY <1>1, <1>3, <1>14 DEF TrailerAt
  <2>2. w = LF /\ o + 1 = e
    BY ONLY <1>2, <1>6, <2>1
  <2>3. rtsp' = Scan("DONE") /\ ret' = "running"
    BY ONLY <1>1, <1>14, <2>2, ChunkTurn DEF ChunkTurn, Checked
  <2> QED
    BY ONLY <1>8, <2>2, <2>3
<1> QED
  BY <1>11, <1>12, <1>13, <1>14

-----------------------------------------------------------------------------
(* A chunk's data.                                                           *)

\* The data of a chunk has moved to the end of the body: from position o, l tokens, to b.
DataMoved(o, l, b, n) ==
  /\ o \in Nat /\ l \in Nat /\ b \in Nat /\ n \in Nat /\ b <= o /\ o + l + 2 <= n
  /\ rtsp.content_length \in Nat /\ rtsp.offset \in Nat
  /\ Len(rtsp'.raw) = n
  /\ \A i \in 1..n : rtsp'.raw[i] = IF i = b + l + 1 THEN NUL
                                    ELSE IF i - 1 \in b..(b + l - 1)
                                    THEN rtsp.raw[o + (i - b)] ELSE rtsp.raw[i]
  /\ rtsp'.stateM = "CHUNK_START" /\ rtsp'.offset = rtsp.offset
  /\ rtsp'.content_length = rtsp.content_length + l /\ rtsp'.chunk.offset = o + l + 2
  /\ rtsp'.method = rtsp.method /\ rtsp'.uri = rtsp.uri /\ rtsp'.reason = rtsp.reason
  /\ rtsp'.code = rtsp.code /\ rtsp'.headers = rtsp.headers
  /\ rtsp'.connection_close = rtsp.connection_close
  /\ rtsp'.content_encoding = rtsp.content_encoding
  /\ rtsp'.transfer_encoding = rtsp.transfer_encoding
  /\ rtsp'.cookie = rtsp.cookie /\ rtsp'.location = rtsp.location

\* The text once the data of a chunk has moved to the end of the body.
LEMMA DataMoves ==
  ASSUME Typed(rtsp), Bounds(rtsp), rtsp.stateM = "CHUNK_DATA", rtsp.chunk.offset # 0,
         rtsp' = TakeChunk,
         NEW o, NEW l, NEW b, NEW n, o = rtsp.chunk.offset, l = rtsp.chunk.len,
         b = rtsp.offset + rtsp.content_length, n = Len(rtsp.raw), o + l + 2 <= n
  PROVE  DataMoved(o, l, b, n)
<1>1. /\ Shape(rtsp) /\ rtsp.raw \in Seq(Token) /\ rtsp.offset \in Nat
      /\ o \in Nat /\ l \in Nat /\ n \in Nat /\ rtsp.chunk.pos \in Nat
  BY DEF Typed, ChunkType
<1>2. /\ rtsp.content_length \in Nat /\ b <= o
      /\ rtsp.chunk.pos = o
  BY DEF Bounds, BodyBehind
<1>3. b \in Nat /\ o + l + 2 <= n /\ b = BodyEnd
  <2>1. b \in Nat
    BY <1>1, <1>2
  <2> QED
    BY <2>1 DEF BodyEnd
<1>4. PICK moved : moved = [i \in 1..n |-> IF i - 1 \in b..(b + l - 1)
                                           THEN rtsp.raw[o + (i - b)] ELSE rtsp.raw[i]]
  OBVIOUS
<1>5. PICK raw, e : raw = Put(moved, e, NUL) /\ e = b + l
  OBVIOUS
<1>6. rtsp' = [rtsp EXCEPT !.stateM = "CHUNK_START", !.raw = raw,
                           !.content_length = @ + l,
                           !.chunk = [offset |-> @.offset + @.len + 2, len |-> 0, pos |-> 0]]
  BY ONLY <1>2, <1>3, <1>4, <1>5, rtsp' = TakeChunk, l = rtsp.chunk.len, n = Len(rtsp.raw)
  DEF TakeChunk, raw_size
<1>7. /\ moved \in Seq(Token) /\ Len(moved) = n
      /\ \A i \in 1..n : moved[i] = IF i - 1 \in b..(b + l - 1)
                                    THEN rtsp.raw[o + (i - b)] ELSE rtsp.raw[i]
  <2>1. \A i \in 1..n : rtsp.raw[i] \in Token
    BY ONLY <1>1, n = Len(rtsp.raw)
  <2>2. \A i \in 1..n : i - 1 \in b..(b + l - 1) => o + (i - b) \in 1..n
    BY ONLY <1>1, <1>3
  <2>3. moved \in [1..n -> Token]
    BY ONLY <1>4, <2>1, <2>2
  <2> QED
    BY ONLY <1>1, <1>4, <2>3, FunctionIsSequence
<1>8. /\ Len(raw) = n
      /\ \A i \in 1..n : raw[i] = IF i = e + 1 THEN NUL ELSE moved[i]
  <2>1. NUL \in Token
    BY DEF Token
  <2> QED
    BY ONLY <1>5, <1>7, <2>1, PutText
<1>9. /\ rtsp'.stateM = "CHUNK_START" /\ rtsp'.raw = raw /\ rtsp'.offset = rtsp.offset
      /\ rtsp'.content_length = rtsp.content_length + l
      /\ rtsp'.chunk = [offset |-> rtsp.chunk.offset + rtsp.chunk.len + 2, len |-> 0, pos |-> 0]
      /\ rtsp'.method = rtsp.method /\ rtsp'.uri = rtsp.uri /\ rtsp'.reason = rtsp.reason
      /\ rtsp'.code = rtsp.code /\ rtsp'.headers = rtsp.headers
      /\ rtsp'.connection_close = rtsp.connection_close
      /\ rtsp'.content_encoding = rtsp.content_encoding
      /\ rtsp'.transfer_encoding = rtsp.transfer_encoding
      /\ rtsp'.cookie = rtsp.cookie /\ rtsp'.location = rtsp.location
  BY ONLY <1>1, <1>6 DEF Shape, LineField
<1>10. rtsp'.chunk.offset = o + l + 2
  BY ONLY <1>9, o = rtsp.chunk.offset, l = rtsp.chunk.len
<1>11. e + 1 = b + l + 1
  BY ONLY <1>5
<1>12. \A i \in 1..n : rtsp'.raw[i] = IF i = b + l + 1 THEN NUL
                                      ELSE IF i - 1 \in b..(b + l - 1)
                                      THEN rtsp.raw[o + (i - b)] ELSE rtsp.raw[i]
  BY ONLY <1>7, <1>8, <1>9, <1>11
<1> QED
  BY ONLY <1>1, <1>2, <1>3, <1>8, <1>9, <1>10, <1>12 DEF DataMoved

\* CHUNK_DATA: the data is part of the body, and the next chunk follows.
LEMMA ChunkDataReads ==
  ASSUME Typed(rtsp), Bounds(rtsp), NEW m, WellFormed(m), Sized(m), BodyReading(rtsp, m), ChunkTurn,
         rtsp.stateM = "CHUNK_DATA"
  PROVE  BodyReading(rtsp', m) /\ ret' = "running"
<1>1. PICK o, l, b, n : /\ o = rtsp.chunk.offset /\ l = rtsp.chunk.len
                        /\ b = rtsp.offset + rtsp.content_length /\ n = Len(rtsp.raw)
  OBVIOUS
<1>2. /\ ChunkedBody(m) /\ ChunksFormed(m) /\ ChunkReading(rtsp, m) /\ ~ChunkMissing
      /\ rtsp.chunk.offset # 0 /\ is_transfer_encoding_chunked(rtsp)
  BY <1>1, InChunks DEF ChunkTurn
<1>3. PICK j \in 1..Len(m.layout.chunks) : ChunkAt(rtsp, m, j) /\ Taken(rtsp, m, j)
  BY <1>2 DEF ChunkReading, BeforeTrailer
<1>4. PICK c, d, N : /\ c = m.layout.chunks[j] /\ d = m.layout.chunks[j + 1]
                     /\ N = Len(m.layout.chunks)
  OBVIOUS
<1>5. ChunkPlaces(m, c) /\ N \in Nat
  BY <1>2, <1>4, ChunkLinePlaces, ChunkCounts
<1>6. o = c.data /\ l = c.len /\ l > 0
  BY ONLY <1>1, <1>3, <1>4, rtsp.stateM = "CHUNK_DATA" DEF ChunkAt
<1>7. /\ rtsp.content_length = c.at
      /\ \A i \in 1..c.at : rtsp.raw[m.layout.body + i] = m.body[i]
  BY <1>3, <1>4 DEF Taken
<1>8. /\ j < N /\ o + l + 2 = d.size /\ c.at + l = d.at
      /\ At(m, o + l) = CR /\ At(m, o + l + 1) = LF
      /\ \A i \in 1..l : m.body[c.at + i] = m.text[o + i]
  <2>1. ChunkFormed(m, j)
    BY <1>2 DEF ChunksFormed
  <2>2. j < N
    BY ONLY <1>4, <1>5, <1>6, <2>1 DEF ChunkFormed
  <2> QED
    BY ONLY <1>4, <1>6, <2>1, <2>2 DEF ChunkFormed
<1>9. /\ o \in Nat /\ l \in Nat /\ n \in Nat /\ rtsp.chunk.pos = o /\ o + l + 2 <= n
      /\ SizeMod \in Nat /\ o + l + 2 < SizeMod /\ Unread(rtsp, m, o)
  <2>1. o \in Nat /\ l \in Nat /\ n \in Nat /\ rtsp.chunk.pos = o
    BY <1>1 DEF Typed, ChunkType, Bounds, BodyBehind
  <2>2. SizeMod \in Nat /\ o + l + 2 < SizeMod
    BY <1>2, <1>4, <1>5, <1>6, ChunkFits DEF Sized
  <2>3. PICK x : x = o + l + 2
    OBVIOUS
  <2>4. x % SizeMod = x
    <3>1. x \in Nat /\ x < SizeMod
      BY ONLY <2>1, <2>2, <2>3
    <3> QED
      BY ONLY <2>2, <3>1, Unwrapped
  <2>5. ~(x > n)
    BY ONLY <1>1, <1>2, <2>1, <2>3, <2>4, rtsp.stateM = "CHUNK_DATA" DEF ChunkMissing, raw_size
  <2>6. o + l + 2 <= n
    BY ONLY <2>1, <2>3, <2>5
  <2> QED
    BY <1>1, <1>2, <2>1, <2>2, <2>6 DEF ChunkReading
<1>10. LineEnds /\ ~ChunkWraps
  <2>1. PICK u, v : u = o + l /\ v = o + l + 1
    OBVIOUS
  <2>2. /\ u \in Nat /\ v \in Nat /\ o <= u /\ o <= v /\ u < n /\ v < n
        /\ u < SizeMod /\ v < SizeMod /\ v = u + 1
    BY ONLY <1>9, <2>1
  <2>3. Char(rtsp, u) = CR /\ Char(rtsp, v) = LF
    BY ONLY <1>1, <1>8, <1>9, <2>1, <2>2, UnreadChar
  <2>4. u % SizeMod = u /\ v % SizeMod = v
    BY ONLY <1>9, <2>2, Unwrapped
  <2>5. ChunkEnd = u
    BY ONLY <1>1, <1>9, <2>1, <2>4 DEF ChunkEnd
  <2>6. LineEnds
    BY ONLY <2>2, <2>3, <2>4, <2>5 DEF LineEnds
  <2>7. ~ChunkWraps
    BY ONLY <1>1, <1>9 DEF ChunkWraps
  <2> QED
    BY ONLY <2>6, <2>7
<1>11. rtsp' = TakeChunk /\ ret' = "running"
  BY ONLY <1>10, ChunkTurn, rtsp.stateM = "CHUNK_DATA" DEF ChunkTurn, Checked
<1>12. /\ b \in Nat /\ b <= o /\ rtsp.content_length \in Nat /\ rtsp.offset \in Nat
       /\ Len(rtsp'.raw) = n
       /\ \A i \in 1..n : rtsp'.raw[i] = IF i = b + l + 1 THEN NUL
                                         ELSE IF i - 1 \in b..(b + l - 1)
                                         THEN rtsp.raw[o + (i - b)] ELSE rtsp.raw[i]
       /\ rtsp'.stateM = "CHUNK_START" /\ rtsp'.offset = rtsp.offset
       /\ rtsp'.content_length = rtsp.content_length + l /\ rtsp'.chunk.offset = o + l + 2
       /\ rtsp'.method = rtsp.method /\ rtsp'.uri = rtsp.uri /\ rtsp'.reason = rtsp.reason
       /\ rtsp'.code = rtsp.code /\ rtsp'.headers = rtsp.headers
       /\ rtsp'.connection_close = rtsp.connection_close
       /\ rtsp'.content_encoding = rtsp.content_encoding
       /\ rtsp'.transfer_encoding = rtsp.transfer_encoding
       /\ rtsp'.cookie = rtsp.cookie /\ rtsp'.location = rtsp.location
  <2>1. DataMoved(o, l, b, n)
    BY ONLY <1>1, <1>2, <1>9, <1>11, DataMoves, Typed(rtsp), Bounds(rtsp),
            rtsp.stateM = "CHUNK_DATA"
  <2> QED
    BY ONLY <2>1 DEF DataMoved
<1>13. PICK k, p, a : k = HeaderCount(m) + 1 /\ p = m.layout.body /\ a = c.at
  OBVIOUS
<1>14. /\ k \in Nat \ {0} /\ Start(m, k) \in Nat /\ Start(m, k) < p /\ p \in Nat
  BY <1>13, BodyPlace DEF WellFormed
<1>15. /\ rtsp.offset = p /\ LinesKept(rtsp, m, k)
  BY <1>13 DEF BodyReading
<1>16. LinesSame(rtsp, rtsp')
  <2>1. \A i \in 1..rtsp.offset : rtsp'.raw[i] = rtsp.raw[i]
    <3>1. rtsp.offset <= b
      BY ONLY <1>1, <1>12
    <3>2. \A i \in 1..rtsp.offset :
            i \in 1..n /\ i # b + l + 1 /\ ~(i - 1 \in b..(b + l - 1))
      BY ONLY <1>9, <1>12, <3>1
    <3> QED
      BY ONLY <1>12, <3>2
  <2>2. Len(rtsp'.raw) \in Nat /\ rtsp.offset <= Len(rtsp'.raw)
    <3>1. rtsp.offset <= n
      BY <1>1 DEF Bounds
    <3> QED
      BY ONLY <1>9, <1>12, <3>1
  <2> QED
    BY ONLY <1>12, <2>1, <2>2 DEF LinesSame
<1>17. LinesKept(rtsp', m, k) /\ is_transfer_encoding_chunked(rtsp')
  <2>1. Start(m, k) <= rtsp.offset
    BY <1>14, <1>15
  <2> QED
    BY ONLY <1>2, <1>14, <1>15, <1>16, <2>1, LinesStay, Typed(rtsp), Bounds(rtsp)
<1>18. Unread(rtsp', m, rtsp'.chunk.offset)
  <2>1. ASSUME NEW i \in 1..n, i > o + l + 2
        PROVE  rtsp'.raw[i] = m.text[i]
    <3>1. i > o /\ i # b + l + 1 /\ ~(i - 1 \in b..(b + l - 1))
      BY ONLY <1>9, <1>12, <2>1
    <3>2. rtsp.raw[i] = m.text[i]
      BY ONLY <1>1, <1>9, <2>1, <3>1 DEF Unread
    <3> QED
      BY ONLY <1>12, <2>1, <3>1, <3>2
  <2> QED
    BY ONLY <1>12, <2>1 DEF Unread
<1>19. \A i \in 1..(a + l) : rtsp'.raw[p + i] = m.body[i]
  <2>1. a \in Nat /\ b = p + a
    BY ONLY <1>1, <1>5, <1>7, <1>12, <1>13, <1>15 DEF ChunkPlaces
  <2>2. ASSUME NEW i \in 1..a
        PROVE  rtsp'.raw[p + i] = m.body[i]
    <3>1. PICK q : q = p + i
      OBVIOUS
    <3>2. q \in 1..n /\ q # b + l + 1 /\ ~(q - 1 \in b..(b + l - 1))
      BY ONLY <1>9, <1>12, <1>14, <2>1, <2>2, <3>1
    <3>3. rtsp'.raw[q] = rtsp.raw[q]
      BY ONLY <1>12, <3>2
    <3> QED
      BY ONLY <1>7, <1>13, <2>2, <3>1, <3>3
  <2>3. ASSUME NEW i \in 1..l
        PROVE  rtsp'.raw[p + (a + i)] = m.body[a + i]
    <3>1. PICK q, s : q = p + (a + i) /\ s = o + i
      OBVIOUS
    <3>2. q \in 1..n /\ q # b + l + 1 /\ q - 1 \in b..(b + l - 1) /\ o + (q - b) = s
      BY ONLY <1>9, <1>12, <1>14, <2>1, <2>3, <3>1
    <3>3. rtsp'.raw[q] = rtsp.raw[s]
      BY ONLY <1>12, <3>2
    <3>4. s \in 1..n /\ s > o
      BY ONLY <1>9, <2>3, <3>1
    <3>5. rtsp.raw[s] = m.text[s]
      BY ONLY <1>1, <1>9, <3>4 DEF Unread
    <3> QED
      BY ONLY <1>8, <1>13, <2>3, <3>1, <3>3, <3>5
  <2>4. ASSUME NEW i \in 1..(a + l)
        PROVE  rtsp'.raw[p + i] = m.body[i]
    <3>1. CASE i <= a
      <4>1. i \in 1..a
        BY ONLY <2>1, <1>9, <2>4, <3>1
      <4> QED
        BY ONLY <2>2, <4>1
    <3>2. CASE ~(i <= a)
      <4>1. PICK q : q = i - a
        OBVIOUS
      <4>2. q \in 1..l /\ a + q = i
        BY ONLY <1>9, <2>1, <2>4, <3>2, <4>1
      <4> QED
        BY ONLY <2>3, <4>2
    <3> QED
      BY <3>1, <3>2
  <2> QED
    BY <2>4
<1>20. Taken(rtsp', m, j + 1)
  <2>1. rtsp'.content_length = a + l /\ a + l = d.at
    BY ONLY <1>7, <1>8, <1>12, <1>13
  <2> QED
    BY ONLY <1>4, <1>13, <1>19, <2>1 DEF Taken
<1>21. j + 1 \in 1..Len(m.layout.chunks)
  BY ONLY <1>4, <1>5, <1>8
<1>22. ChunkAt(rtsp', m, j + 1)
  BY ONLY <1>4, <1>8, <1>12 DEF ChunkAt
<1>23. rtsp'.stateM \in BeforeTrailer /\ rtsp'.stateM \in ChunkState
  BY <1>12 DEF BeforeTrailer, ChunkState
<1>24. ChunkReading(rtsp', m)
  BY ONLY <1>18, <1>20, <1>21, <1>22, <1>23 DEF ChunkReading
<1>25. rtsp'.chunk.offset # 0
  BY ONLY <1>9, <1>12
<1> QED
  BY <1>2, <1>11, <1>12, <1>13, <1>15, <1>17, <1>23, <1>24, <1>25 DEF BodyReading

\* A turn of rtsp_parse_chunked.
LEMMA ChunkTurnReads ==
  ASSUME Typed(rtsp), Bounds(rtsp), NEW m, WellFormed(m), Sized(m), BodyReading(rtsp, m), ChunkTurn
  PROVE  BodyReading(rtsp', m) /\ ret' = "running"
<1>1. rtsp.stateM \in ChunkState \cup {"DONE"} /\ rtsp.stateM # "DONE"
  BY InChunks DEF BodyReading
<1> QED
  BY <1>1, ChunkStartReads, ChunkLineReads, ChunkDataReads, TrailerReads DEF ChunkState

\* A body that is not chunked: it is there whole, and nothing more.
LEMMA BodyReads ==
  ASSUME Typed(rtsp), Bounds(rtsp), NEW m, WellFormed(m), Sized(m), BodyReading(rtsp, m), Body,
         Len(m.text) \in Nat, Len(rtsp.raw) <= Len(m.text)
  PROVE  BodyReading(rtsp', m) /\ ret' = "running"
<1>1. HeadersFormed(m) /\ BodyFormed(m)
  BY DEF WellFormed
<1>2. PICK k, p, n, e, v : /\ k = HeaderCount(m) + 1 /\ p = m.layout.body /\ n = Len(rtsp.raw)
                           /\ e = Len(m.text) /\ v = rtsp.content_length
  OBVIOUS
<1>3. /\ k \in Nat \ {0} /\ Start(m, k) \in Nat /\ Start(m, k) < p /\ p \in Nat
  BY <1>1, <1>2, BodyPlace
<1>4. /\ rtsp.stateM = "CHUNK_START" /\ ~is_transfer_encoding_chunked(rtsp) /\ ret = "running"
      /\ ~BodyMissing
  BY DEF Body, PlainBody
<1>5. /\ ~ChunkedBody(m) /\ rtsp.offset = p /\ LinesKept(rtsp, m, k)
      /\ Unread(rtsp, m, p) /\ rtsp.chunk.offset = 0
      /\ NotedAs(m, k, v, "Content-Length", Lengths(m), -1)
  BY <1>2, <1>4 DEF BodyReading
<1>6. n \in Nat /\ p <= n /\ e \in Nat /\ n <= e
  BY <1>2, <1>5, RawLen DEF Bounds
<1>7. \/ v = -1 /\ e = p
      \/ v \in Nat /\ e = p + v
  BY <1>1, <1>2, <1>5, PlainLength
<1>8. n = e
  <2>1. v # -1 => ~(n < p + v)
    BY <1>2, <1>4, <1>5 DEF BodyMissing, raw_size, BodyEnd
  <2> QED
    BY ONLY <1>3, <1>6, <1>7, <2>1
<1>9. /\ ret' = "running"
      /\ \/ v = -1 /\ rtsp' = [rtsp EXCEPT !.content_length = 0, !.stateM = "DONE"]
         \/ v # -1 /\ rtsp' = [rtsp EXCEPT !.stateM = "DONE"]
  <2>1. v # -1 => Len(rtsp.raw) <= BodyEnd
    <3>1. v # -1 => n <= p + v
      BY ONLY <1>3, <1>6, <1>7
    <3> QED
      BY <1>2, <1>5, <3>1 DEF BodyEnd
  <2> QED
    BY ONLY <1>2, <1>4, <2>1, Body DEF Body, Checked, raw_size
<1>10. /\ rtsp'.stateM = "DONE" /\ rtsp'.offset = rtsp.offset /\ rtsp'.raw = rtsp.raw
       /\ rtsp'.content_length = IF v = -1 THEN 0 ELSE v
       /\ rtsp'.chunk.offset = rtsp.chunk.offset
       /\ rtsp'.method = rtsp.method /\ rtsp'.uri = rtsp.uri /\ rtsp'.reason = rtsp.reason
       /\ rtsp'.code = rtsp.code /\ rtsp'.headers = rtsp.headers
       /\ rtsp'.connection_close = rtsp.connection_close
       /\ rtsp'.content_encoding = rtsp.content_encoding
       /\ rtsp'.transfer_encoding = rtsp.transfer_encoding
       /\ rtsp'.cookie = rtsp.cookie /\ rtsp'.location = rtsp.location
  <2>1. CASE v = -1
    <3>1. rtsp' = [rtsp EXCEPT !.content_length = 0, !.stateM = "DONE"]
      BY ONLY <1>9, <2>1
    <3> QED
      BY ONLY <2>1, <3>1, Typed(rtsp) DEF Typed, Shape, LineField
  <2>2. CASE v # -1
    <3>1. rtsp' = [rtsp EXCEPT !.stateM = "DONE"]
      BY ONLY <1>9, <2>2
    <3> QED
      BY ONLY <1>2, <2>2, <3>1, Typed(rtsp) DEF Typed, Shape, LineField
  <2> QED
    BY ONLY <2>1, <2>2
<1>11. LinesSame(rtsp, rtsp')
  BY ONLY <1>2, <1>5, <1>6, <1>10 DEF LinesSame
<1>12. LinesKept(rtsp', m, k) /\ ~is_transfer_encoding_chunked(rtsp')
  <2>1. Start(m, k) <= rtsp.offset
    BY <1>3, <1>5
  <2> QED
    BY ONLY <1>3, <1>4, <1>5, <1>11, <2>1, LinesStay, Typed(rtsp), Bounds(rtsp)
<1>13. rtsp'.content_length = e - p
  <2>1. v = -1 => e - p = 0
    BY ONLY <1>3, <1>6, <1>7
  <2>2. v # -1 => e - p = v
    BY ONLY <1>3, <1>6, <1>7
  <2> QED
    BY ONLY <1>10, <2>1, <2>2
<1>14. Unread(rtsp', m, p)
  BY ONLY <1>5, <1>10 DEF Unread
<1>15. rtsp'.stateM \in ChunkState \cup {"DONE"} /\ rtsp'.chunk.offset = 0 /\ rtsp'.offset = p
       /\ Len(rtsp'.raw) = e
  BY <1>2, <1>5, <1>8, <1>10
<1> QED
  BY ONLY <1>2, <1>5, <1>9, <1>10, <1>12, <1>13, <1>14, <1>15 DEF BodyReading

-----------------------------------------------------------------------------
(* The turns of the three loops, and the returns.                            *)

\* Each part of a message has its own states.
LEMMA ReadingBy ==
  ASSUME NEW r, NEW m, Reading(r, m)
  PROVE  /\ r.stateM \in LineState => FirstReading(r, m)
         /\ r.stateM \in HeaderState => HeaderReading(r, m)
         /\ r.stateM \in ChunkState \cup {"DONE"} => BodyReading(r, m)
<1>1. /\ \A s \in LineState : s \notin HeaderState /\ s \notin ChunkState \cup {"DONE"}
      /\ \A s \in HeaderState : s \notin ChunkState \cup {"DONE"}
  BY DEF LineState, StatusState, RequestState, HeaderState, ChunkState
<1>2. CASE FirstReading(r, m)
  BY <1>1, <1>2 DEF FirstReading
<1>3. CASE HeaderReading(r, m)
  BY <1>1, <1>3 DEF HeaderReading
<1>4. CASE BodyReading(r, m)
  BY <1>1, <1>4 DEF BodyReading
<1> QED
  BY <1>2, <1>3, <1>4 DEF Reading

\* A turn of rtsp_parse_status_line,
LEMMA StatusReads ==
  ASSUME Typed(rtsp), Bounds(rtsp), NEW m, WellFormed(m), Reading(rtsp, m), StatusTurn,
         rtsp.server_mode = m.server_mode
  PROVE  Reading(rtsp', m) /\ ret' = "running"
<1>1. PICK c : c = Char(rtsp, rtsp.offset)
  OBVIOUS
<1>2. /\ ret = "running" /\ rtsp.stateM \in StatusState /\ rtsp.offset < Len(rtsp.raw)
      /\ \/ LineTurn(rtsp.stateM, c) /\ ret' = ret
         \/ LineCr(rtsp.stateM, c)
         \/ EndStatusLine(rtsp.stateM)
  BY <1>1 DEF StatusTurn, raw_size
<1>3. FirstReading(rtsp, m) /\ FirstLineFormed(m) /\ HeaderCount(m) \in Nat
  BY <1>2, ReadingBy DEF LineState, WellFormed, HeadersFormed, HeaderCount
<1>4. ~m.server_mode
  BY <1>2 DEF Bounds, FirstLine
<1>5. CASE LineTurn(rtsp.stateM, c) /\ ret' = ret
  <2>1. SameRest
    BY <1>5, LineTurnFields DEF TurnKeeps, Bounds
  <2> QED
    BY <1>1, <1>2, <1>3, <1>5, <2>1, FirstTurnReads DEF Reading
<1>6. CASE LineCr(rtsp.stateM, c)
  BY <1>1, <1>2, <1>3, <1>6, FirstCrReads DEF Reading
<1>7. CASE EndStatusLine(rtsp.stateM)
  BY <1>2, <1>3, <1>4, <1>7, StatusLineDone DEF Reading
<1> QED
  BY <1>2, <1>5, <1>6, <1>7

\* of rtsp_parse_request_line,
LEMMA RequestReads ==
  ASSUME Typed(rtsp), Bounds(rtsp), NEW m, WellFormed(m), Reading(rtsp, m), RequestTurn,
         rtsp.server_mode = m.server_mode
  PROVE  Reading(rtsp', m) /\ ret' = "running"
<1>1. PICK c : c = Char(rtsp, rtsp.offset)
  OBVIOUS
<1>2. /\ ret = "running" /\ rtsp.stateM \in RequestState /\ rtsp.offset < Len(rtsp.raw)
      /\ \/ LineTurn(rtsp.stateM, c) /\ ret' = ret
         \/ LineCr(rtsp.stateM, c)
         \/ EndRequestLine(rtsp.stateM)
  BY <1>1 DEF RequestTurn, raw_size
<1>3. FirstReading(rtsp, m) /\ FirstLineFormed(m) /\ HeaderCount(m) \in Nat
  BY <1>2, ReadingBy DEF LineState, WellFormed, HeadersFormed, HeaderCount
<1>4. m.server_mode
  BY <1>2 DEF Bounds, FirstLine
<1>5. CASE LineTurn(rtsp.stateM, c) /\ ret' = ret
  <2>1. SameRest
    BY <1>5, LineTurnFields DEF TurnKeeps, Bounds
  <2> QED
    BY <1>1, <1>2, <1>3, <1>5, <2>1, FirstTurnReads DEF Reading
<1>6. CASE LineCr(rtsp.stateM, c)
  BY <1>1, <1>2, <1>3, <1>6, FirstCrReads DEF Reading
<1>7. CASE EndRequestLine(rtsp.stateM)
  BY <1>2, <1>3, <1>4, <1>7, RequestLineDone DEF Reading
<1> QED
  BY <1>2, <1>5, <1>6, <1>7

\* and of rtsp_parse_header_line.
LEMMA HeaderReads ==
  ASSUME Typed(rtsp), Bounds(rtsp), NEW m, m = message, WellFormed(m), Sized(m),
         Reading(rtsp, m), HeaderTurn, Len(rtsp.raw) <= Len(message.text)
  PROVE  Reading(rtsp', m) /\ ret' = "running"
<1>1. PICK c : c = Char(rtsp, rtsp.offset)
  OBVIOUS
<1>2. /\ ret = "running" /\ rtsp.stateM \in HeaderState /\ rtsp.offset < Len(rtsp.raw)
      /\ \/ \/ rtsp.stateM = "HEADER_START" /\ rtsp' = HeaderStart(c) /\ UNCHANGED ret
            \/ LineTurn(rtsp.stateM, c) /\ UNCHANGED ret
            \/ rtsp.stateM = "HEADER_SEPARATOR" /\ Checked(c = COLON, Move("HEADER_SP2", 1))
            \/ LineCr(rtsp.stateM, c)
         \/ rtsp.stateM = "HEADER_LF" /\ (EndHeaders \/ AddHeader \/ FoldHeader)
  BY <1>1 DEF HeaderTurn, raw_size
<1>3. HeaderReading(rtsp, m) /\ HeadersFormed(m)
  BY <1>2, ReadingBy DEF WellFormed
<1>4. CASE \/ rtsp.stateM = "HEADER_START" /\ rtsp' = HeaderStart(c) /\ UNCHANGED ret
           \/ LineTurn(rtsp.stateM, c) /\ UNCHANGED ret
           \/ rtsp.stateM = "HEADER_SEPARATOR" /\ Checked(c = COLON, Move("HEADER_SP2", 1))
           \/ LineCr(rtsp.stateM, c)
  <2>1. HeaderReading(rtsp', m) /\ ret' = "running"
    BY ONLY <1>1, <1>2, <1>3, <1>4, HeaderTurnReads, Typed(rtsp), Bounds(rtsp)
  <2> QED
    BY <2>1 DEF Reading
<1>5. CASE rtsp.stateM = "HEADER_LF" /\ (EndHeaders \/ AddHeader \/ FoldHeader)
  <2>1. (HeaderReading(rtsp', m) \/ BodyReading(rtsp', m)) /\ ret' = "running"
    BY ONLY <1>2, <1>3, <1>5, HeaderEndReads, Typed(rtsp), Bounds(rtsp), m = message, WellFormed(m),
            Sized(m), Len(rtsp.raw) <= Len(message.text)
  <2> QED
    BY <2>1 DEF Reading
<1> QED
  BY <1>2, <1>4, <1>5

-----------------------------------------------------------------------------
(* While the message is read there is more of it to come.                    *)

\* A header line's states are before the body,
LEMMA HeaderBefore ==
  ASSUME Typed(rtsp), NEW m, HeadersFormed(m), HeaderReading(rtsp, m)
  PROVE  rtsp.offset < m.layout.body
<1>1. PICK k \in 1..(HeaderCount(m) + 1) : HeaderAt(rtsp, m, k)
  BY DEF HeaderReading
<1>2. PICK h, o, s, e, b, p : /\ h = m.layout.headers[k] /\ o = rtsp.offset
                              /\ s = Start(m, k) /\ e = Start(m, k + 1)
                              /\ b = m.layout.blank /\ p = m.layout.body
  OBVIOUS
<1>3. o \in Nat /\ HeaderCount(m) \in Nat /\ rtsp.stateM \in HeaderState
  BY <1>2 DEF Typed, HeadersFormed, HeaderCount, HeaderReading
<1>4. b \in Nat /\ p \in Nat /\ b < p
  BY <1>2, BodyPlace
<1>5. CASE k = HeaderCount(m) + 1
  <2>1. s = b /\ e = p
    BY <1>2, <1>5, BlankLinePlaces
  <2>2. o = s \/ o = e - 1
    BY <1>2, <1>3, <1>5, <1>1 DEF HeaderAt, HeaderState
  <2> QED
    BY <1>2, <1>3, <1>4, <2>1, <2>2
<1>6. CASE k # HeaderCount(m) + 1
  <2>1. k \in 1..HeaderCount(m) /\ k <= HeaderCount(m)
    BY <1>3, <1>6
  <2>2. HeaderFormed(m, k)
    BY <2>1 DEF HeadersFormed
  <2>3. HeaderPlaces(h, s, e) /\ LineEnd(m, h.end, e) /\ h.fold \in BOOLEAN
    BY <1>2, <1>3, <2>1, <2>2, HeaderLinePlaces
  <2>4. h.end < b
    BY <1>2, <2>2 DEF HeaderFormed
  <2>5. h.end \in Nat /\ e <= h.end + 2
    <3>1. h.end \in Nat
      BY <2>3 DEF HeaderPlaces
    <3>2. PICK z : z = h.end
      OBVIOUS
    <3>3. e \in Nat /\ (At(m, z) = CR => e = z + 2) /\ (At(m, z) = LF => e = z + 1)
          /\ At(m, z) \in {CR, LF} /\ z \in Nat
      BY ONLY <2>3, <3>1, <3>2, LineEndAt
    <3> QED
      BY ONLY <3>2, <3>3
  <2>6. o <= h.end + 1
    <3>1. CASE rtsp.stateM = "HEADER_START"
      BY ONLY <1>1, <1>2, <2>3, <3>1 DEF HeaderAt, HeaderPlaces
    <3>2. CASE rtsp.stateM = "HEADER_NAME"
      BY ONLY <1>1, <1>2, <2>3, <3>2 DEF HeaderAt, HeaderPlaces
    <3>3. CASE rtsp.stateM = "HEADER_SP1"
      BY ONLY <1>1, <1>2, <1>3, <2>3, <3>3 DEF HeaderAt, HeaderPlaces
    <3>4. CASE rtsp.stateM = "HEADER_SEPARATOR"
      BY ONLY <1>1, <1>2, <2>3, <3>4 DEF HeaderAt, HeaderPlaces
    <3>5. CASE rtsp.stateM = "HEADER_SP2"
      BY ONLY <1>1, <1>2, <1>3, <2>3, <3>5 DEF HeaderAt, HeaderPlaces
    <3>6. CASE rtsp.stateM = "HEADER_VALUE"
      BY ONLY <1>1, <1>2, <1>3, <2>3, <3>6 DEF HeaderAt, HeaderPlaces
    <3>7. CASE rtsp.stateM = "HEADER_SP3"
      BY ONLY <1>1, <1>2, <1>3, <2>5, <3>7 DEF HeaderAt, Trailing
    <3>8. CASE rtsp.stateM \in {"HEADER_CR", "HEADER_LF"}
      <4>1. o = e - 1 /\ e \in Nat
        BY ONLY <1>1, <1>2, <2>3, <3>8 DEF HeaderAt, HeaderPlaces
      <4> QED
        BY ONLY <2>5, <4>1
    <3> QED
      BY ONLY <1>3, <3>1, <3>2, <3>3, <3>4, <3>5, <3>6, <3>7, <3>8 DEF HeaderState
  <2> QED
    BY ONLY <1>2, <1>3, <1>4, <2>4, <2>5, <2>6
<1> QED
  BY <1>5, <1>6

\* and so are the first line's.
LEMMA FirstBefore ==
  ASSUME Typed(rtsp), NEW m, FirstLineFormed(m), HeadersFormed(m), FirstReading(rtsp, m)
  PROVE  rtsp.offset < m.layout.body
<1>1. PICK l, o, s, b, p : /\ l = m.layout /\ o = rtsp.offset /\ s = Start(m, 1)
                           /\ b = m.layout.blank /\ p = m.layout.body
  OBVIOUS
<1>2. FirstPlaces(m, l) /\ o \in Nat
  BY <1>1, FirstLinePlaces, RawLen
<1>3. b \in Nat /\ p \in Nat /\ b < p
  BY <1>1, BodyPlace
<1>4. s \in Nat /\ s <= b
  <2>1. HeaderCount(m) \in Nat
    BY DEF HeadersFormed, HeaderCount
  <2>2. CASE HeaderCount(m) = 0
    <3>1. s = b
      BY <1>1, <2>2 DEF Start
    <3> QED
      BY <1>3, <3>1
  <2>3. CASE HeaderCount(m) # 0
    <3>1. 1 \in 1..HeaderCount(m)
      BY <2>1, <2>3
    <3>2. HeaderFormed(m, 1)
      BY <3>1 DEF HeadersFormed
    <3>3. PICK h, e : h = m.layout.headers[1] /\ e = Start(m, 1 + 1)
      OBVIOUS
    <3>4. HeaderPlaces(h, s, e)
      BY <1>1, <2>1, <3>1, <3>2, <3>3, HeaderLinePlaces
    <3>5. h.end < b
      BY <1>1, <3>2, <3>3 DEF HeaderFormed
    <3> QED
      BY ONLY <1>3, <3>4, <3>5 DEF HeaderPlaces
  <2> QED
    BY <2>2, <2>3
<1>5. /\ l.second.pos \in Nat /\ l.third.pos \in Nat /\ End(l.first) \in Nat
      /\ End(l.second) \in Nat /\ End(l.third) \in Nat /\ l.end \in Nat
      /\ End(l.first) < s /\ l.second.pos < s /\ End(l.second) < s /\ l.third.pos < s
      /\ End(l.third) < s /\ l.end < s /\ 0 < s
  <2>1. l.second.pos \in Nat /\ l.third.pos \in Nat /\ l.first.pos \in Nat
    BY <1>2 DEF FirstPlaces, FieldType
  <2>2. PICK a, c, x, y, z : /\ a = l.second.pos /\ c = l.third.pos /\ x = End(l.first)
                             /\ y = End(l.second) /\ z = End(l.third)
    OBVIOUS
  <2>3. /\ a \in Nat /\ c \in Nat /\ x \in Nat /\ y \in Nat /\ z \in Nat /\ l.end \in Nat
        /\ x < a /\ a <= y /\ y < c /\ c <= z /\ z <= l.end /\ l.end < s
    BY ONLY <1>1, <1>2, <2>1, <2>2 DEF FirstPlaces
  <2> QED
    BY ONLY <1>4, <2>2, <2>3
<1>6. rtsp.stateM \in LineState /\ StatusAt(rtsp, m) /\ RequestAt(rtsp, m)
  BY DEF FirstReading
<1>7. o <= s - 1
  <2>1. CASE rtsp.stateM \in StatusState
    <3>1. \/ o = 0 \/ o <= End(l.first) \/ o <= l.second.pos \/ o <= End(l.second)
          \/ o <= l.third.pos \/ o <= End(l.third) \/ o <= l.end \/ o = s - 1
      <4>1. o = 0 \/ rtsp.stateM # "STATUS_START"
        BY ONLY <1>1, <1>6 DEF StatusAt
      <4>2. o <= End(l.first) \/ rtsp.stateM # "STATUS_VERSION"
        BY ONLY <1>1, <1>6 DEF StatusAt
      <4>3. o <= l.second.pos \/ rtsp.stateM # "STATUS_SP1"
        BY ONLY <1>1, <1>6 DEF StatusAt
      <4>4. o <= End(l.second) \/ rtsp.stateM # "STATUS_CODE"
        BY ONLY <1>1, <1>6 DEF StatusAt
      <4>5. o <= l.third.pos \/ rtsp.stateM # "STATUS_SP2"
        BY ONLY <1>1, <1>6 DEF StatusAt
      <4>6. o <= End(l.third) \/ rtsp.stateM # "STATUS_REASON"
        BY ONLY <1>1, <1>6 DEF StatusAt
      <4>7. o <= l.end \/ rtsp.stateM # "STATUS_SP3"
        BY ONLY <1>1, <1>6 DEF StatusAt, Trailing
      <4>8. o = s - 1 \/ rtsp.stateM \notin {"STATUS_CR", "STATUS_LF"}
        BY ONLY <1>1, <1>6 DEF StatusAt
      <4> QED
        BY ONLY <2>1, <4>1, <4>2, <4>3, <4>4, <4>5, <4>6, <4>7, <4>8 DEF StatusState
    <3> QED
      BY ONLY <1>2, <1>4, <1>5, <3>1
  <2>2. CASE rtsp.stateM \in RequestState
    <3>1. \/ o = 0 \/ o <= End(l.first) \/ o <= l.second.pos \/ o <= End(l.second)
          \/ o <= l.third.pos \/ o <= End(l.third) \/ o <= l.end \/ o = s - 1
      <4>1. o = 0 \/ rtsp.stateM # "REQUEST_START"
        BY ONLY <1>1, <1>6 DEF RequestAt
      <4>2. o <= End(l.first) \/ rtsp.stateM # "REQUEST_METHOD"
        BY ONLY <1>1, <1>6 DEF RequestAt
      <4>3. o <= l.second.pos \/ rtsp.stateM # "REQUEST_SP1"
        BY ONLY <1>1, <1>6 DEF RequestAt
      <4>4. o <= End(l.second) \/ rtsp.stateM # "REQUEST_URI"
        BY ONLY <1>1, <1>6 DEF RequestAt
      <4>5. o <= l.third.pos \/ rtsp.stateM # "REQUEST_SP2"
        BY ONLY <1>1, <1>6 DEF RequestAt
      <4>6. o <= End(l.third) \/ rtsp.stateM # "REQUEST_VERSION"
        BY ONLY <1>1, <1>6 DEF RequestAt
      <4>7. o <= l.end \/ rtsp.stateM # "REQUEST_SP3"
        BY ONLY <1>1, <1>6 DEF RequestAt, Trailing
      <4>8. o = s - 1 \/ rtsp.stateM \notin {"REQUEST_CR", "REQUEST_LF"}
        BY ONLY <1>1, <1>6 DEF RequestAt
      <4> QED
        BY ONLY <2>2, <4>1, <4>2, <4>3, <4>4, <4>5, <4>6, <4>7, <4>8 DEF RequestState
    <3> QED
      BY ONLY <1>2, <1>4, <1>5, <3>1
  <2> QED
    BY <1>6, <2>1, <2>2 DEF LineState
<1> QED
  BY ONLY <1>1, <1>2, <1>3, <1>4, <1>7

\* A chunk's states, and the trailer's, are before the end of the message, with the line end
\* behind the chunk's data.
LEMMA ChunkBefore ==
  ASSUME Typed(rtsp), Bounds(rtsp), NEW m, ChunksFormed(m), ChunkReading(rtsp, m),
         rtsp.stateM \in ChunkState
  PROVE  /\ rtsp.chunk.offset < Len(m.text)
         /\ rtsp.stateM = "CHUNK_DATA" => rtsp.chunk.pos + rtsp.chunk.len + 2 < Len(m.text)
<1>1. PICK o, e, N, n, last : /\ o = rtsp.chunk.offset /\ e = Len(m.text)
                              /\ N = Len(m.layout.chunks) /\ n = Len(m.layout.trailers)
                              /\ last = m.layout.last
  OBVIOUS
<1>2. /\ o \in Nat /\ e \in Nat /\ N \in Nat /\ n \in Nat /\ last \in Nat /\ last < e
      /\ TrailerStart(m, n + 1) = last
  BY <1>1, ChunkCounts, LastPlaces, RawLen
<1>3. CASE rtsp.stateM \in BeforeTrailer
  <2>1. PICK j \in 1..N : ChunkAt(rtsp, m, j)
    BY <1>1, <1>3 DEF ChunkReading
  <2>2. PICK c, d : c = m.layout.chunks[j] /\ d = m.layout.chunks[j + 1]
    OBVIOUS
  <2>3. ChunkPlaces(m, c) /\ c.end < last /\ ChunkFormed(m, j)
    BY <1>1, <2>1, <2>2, ChunkLinePlaces DEF ChunksFormed
  <2>4. CASE rtsp.stateM = "CHUNK_DATA"
    <3>1. o = c.data /\ rtsp.chunk.len = c.len /\ c.len > 0 /\ rtsp.chunk.pos = o
      BY <1>1, <2>1, <2>2, <2>4 DEF ChunkAt, Bounds, BodyBehind
    <3>2. c.data \in Nat /\ c.len \in Nat
      BY <2>3 DEF ChunkPlaces
    <3>3. c.data + c.len + 2 < e
      BY ONLY <1>1, <2>2, <2>3, <3>1, <3>2 DEF ChunkFormed
    <3> QED
      BY ONLY <1>1, <1>2, <3>1, <3>2, <3>3
  <2>5. CASE rtsp.stateM # "CHUNK_DATA"
    <3>1. o <= c.end \/ o = c.data - 1
      <4>1. CASE rtsp.stateM = "CHUNK_START"
        BY ONLY <1>1, <2>1, <2>2, <2>3, <4>1 DEF ChunkAt, ChunkPlaces
      <4>2. CASE rtsp.stateM = "CHUNK_SIZE"
        BY ONLY <1>1, <2>1, <2>2, <2>3, <4>2 DEF ChunkAt, ChunkPlaces
      <4>3. CASE rtsp.stateM = "CHUNK_EXTENSION"
        BY ONLY <1>1, <2>1, <2>2, <4>3 DEF ChunkAt
      <4>4. CASE rtsp.stateM = "CHUNK_EXTENSION_CR"
        BY ONLY <1>1, <2>1, <2>2, <4>4 DEF ChunkAt
      <4> QED
        BY ONLY <1>3, <2>5, <4>1, <4>2, <4>3, <4>4 DEF BeforeTrailer
    <3>2. c.end \in Nat /\ c.data \in Nat /\ c.data <= c.end + 2
      BY ONLY <2>3 DEF ChunkPlaces
    <3>3. o < e
      BY ONLY <1>2, <2>3, <3>1, <3>2
    <3> QED
      BY <1>1, <2>5, <3>3
  <2> QED
    BY <2>4, <2>5
<1>4. CASE rtsp.stateM \notin BeforeTrailer
  <2>1. PICK k \in 1..(n + 1) : TrailerAt(rtsp, m, k)
    BY <1>1, <1>4 DEF ChunkReading
  <2>2. PICK t, a, b : t = m.layout.trailers[k] /\ a = TrailerStart(m, k) /\ b = TrailerStart(m, k + 1)
    OBVIOUS
  <2>3. k <= n => TrailerPlaces(m, t, b) /\ a = t.start /\ t.end < last
    <3>1. k <= n => k \in 1..n
      BY <1>2
    <3> QED
      BY <1>1, <2>2, <3>1, TrailerLinePlaces DEF ChunksFormed, TrailerFormed
  <2>4. k = n + 1 => a = last
    BY <1>2, <2>2
  <2>5. o <= last \/ o = e - 1
    <3>1. CASE rtsp.stateM = "CHUNK_TRAILER_START"
      <4>1. o = a
        BY ONLY <1>1, <2>1, <2>2, <3>1 DEF TrailerAt
      <4>2. k <= n => a <= last
        BY ONLY <1>2, <2>3 DEF TrailerPlaces
      <4> QED
        BY ONLY <1>2, <2>1, <2>4, <4>1, <4>2
    <3>2. CASE rtsp.stateM = "CHUNK_TRAILER"
      <4>1. k <= n /\ o <= t.end
        BY ONLY <1>1, <2>1, <2>2, <3>2 DEF TrailerAt
      <4> QED
        BY ONLY <1>2, <2>3, <4>1 DEF TrailerPlaces
    <3>3. CASE rtsp.stateM = "CHUNK_TRAILER_CR"
      <4>1. k <= n /\ o = b - 1
        BY ONLY <1>1, <2>1, <2>2, <3>3 DEF TrailerAt
      <4> QED
        BY ONLY <1>2, <2>3, <4>1 DEF TrailerPlaces
    <3>4. CASE rtsp.stateM = "CHUNK_END_CR"
      BY ONLY <1>1, <2>1, <3>4 DEF TrailerAt
    <3> QED
      BY ONLY <1>4, <3>1, <3>2, <3>3, <3>4, rtsp.stateM \in ChunkState DEF ChunkState, BeforeTrailer
  <2>6. o < e
    BY ONLY <1>2, <2>5
  <2> QED
    BY <1>1, <1>4, <2>6 DEF BeforeTrailer
<1> QED
  BY <1>3, <1>4

\* rtsp_parser_input asks for more only while there is more.
LEMMA ReturnReads ==
  ASSUME Typed(rtsp), Bounds(rtsp), NEW m, WellFormed(m), Sized(m), Reading(rtsp, m), Return,
         Len(m.text) \in Nat, Len(rtsp.raw) <= Len(m.text)
  PROVE  /\ Reading(rtsp', m)
         /\ \/ ret' = "done" /\ rtsp'.stateM = "DONE"
            \/ ret' = "needmore" /\ Len(rtsp.raw) < Len(m.text)
<1>1. rtsp' = rtsp
  BY DEF Return
<1>2. Reading(rtsp', m)
  BY ONLY <1>1, Reading(rtsp, m)
<1>3. FirstLineFormed(m) /\ HeadersFormed(m) /\ BodyFormed(m)
  BY DEF WellFormed
<1>4. PICK n, e, p : n = Len(rtsp.raw) /\ e = Len(m.text) /\ p = m.layout.body
  OBVIOUS
<1>5. n \in Nat /\ e \in Nat /\ p \in Nat /\ p <= e /\ n <= e /\ rtsp.offset \in Nat
      /\ rtsp.chunk.offset \in Nat /\ rtsp.chunk.pos \in Nat /\ rtsp.chunk.len \in Nat
  BY <1>3, <1>4, RawLen DEF HeadersFormed, Typed, ChunkType
<1>6. CASE rtsp.stateM = "DONE" /\ ret' = "done"
  BY <1>1, <1>2, <1>6
<1>7. CASE rtsp.stateM \in LineState \cup HeaderState /\ rtsp.offset = n /\ ret' = "needmore"
  <2>1. rtsp.offset < p
    BY <1>3, <1>4, <1>7, ReadingBy, FirstBefore, HeaderBefore
  <2>2. n < e
    BY ONLY <1>5, <1>7, <2>1
  <2> QED
    BY <1>2, <1>4, <1>7, <2>2
<1>8. CASE /\ rtsp.stateM \in ChunkState /\ is_transfer_encoding_chunked(rtsp)
           /\ rtsp.chunk.offset # 0
           /\ rtsp.chunk.offset >= n \/ ChunkMissing
           /\ ret' = "needmore"
  <2>1. ChunkedBody(m) /\ ChunkReading(rtsp, m)
    BY <1>8, ReadingBy DEF BodyReading
  <2>2. ChunksFormed(m)
    BY <1>3, <2>1 DEF BodyFormed, ChunkedBody
  <2>3. /\ rtsp.chunk.offset < e
        /\ rtsp.stateM = "CHUNK_DATA" => rtsp.chunk.pos + rtsp.chunk.len + 2 < e
    BY <1>4, <1>8, <2>1, <2>2, ChunkBefore
  <2>4. ChunkMissing => rtsp.stateM = "CHUNK_DATA" /\ rtsp.chunk.pos + rtsp.chunk.len + 2 > n
    <3>1. PICK x : x = rtsp.chunk.pos + rtsp.chunk.len + 2
      OBVIOUS
    <3>2. ChunkMissing => rtsp.stateM = "CHUNK_DATA" /\ x % SizeMod > n
      BY <1>4, <3>1 DEF ChunkMissing, raw_size
    <3>3. SizeMod \in Nat /\ e < SizeMod /\ x \in Nat
      BY <1>4, <1>5, <3>1 DEF Sized
    <3>4. rtsp.stateM = "CHUNK_DATA" => x % SizeMod = x
      <4>1. rtsp.stateM = "CHUNK_DATA" => x < SizeMod
        BY ONLY <1>5, <2>3, <3>1, <3>3
      <4> QED
        BY ONLY <3>3, <4>1, Unwrapped
    <3> QED
      BY ONLY <3>1, <3>2, <3>4
  <2>5. n < e
    BY ONLY <1>5, <1>8, <2>3, <2>4
  <2> QED
    BY <1>2, <1>4, <1>8, <2>5
<1>9. CASE PlainBody /\ BodyMissing /\ ret' = "needmore"
  <2>1. rtsp.stateM = "CHUNK_START" /\ ~is_transfer_encoding_chunked(rtsp)
    BY <1>9 DEF PlainBody
  <2>2. BodyReading(rtsp, m)
    BY <2>1, ReadingBy DEF ChunkState
  <2>3. PICK v : v = rtsp.content_length
    OBVIOUS
  <2>4. /\ ~ChunkedBody(m) /\ rtsp.offset = p
        /\ NotedAs(m, HeaderCount(m) + 1, v, "Content-Length", Lengths(m), -1)
    BY <1>4, <2>1, <2>2, <2>3 DEF BodyReading
  <2>5. \/ v = -1 /\ e = p
        \/ v \in Nat /\ e = p + v
    BY <1>3, <1>4, <2>4, PlainLength
  <2>6. v # -1 /\ n < p + v
    BY <1>4, <1>9, <2>3, <2>4 DEF BodyMissing, BodyEnd, raw_size
  <2> QED
    BY <1>2, <1>4, <1>9, <2>5, <2>6
<1> QED
  BY ONLY <1>4, <1>6, <1>7, <1>8, <1>9, Return DEF Return, raw_size

-----------------------------------------------------------------------------
(* More of the text, and a new message.                                      *)

\* The text raw is old with n tokens of the text behind its f.
AppendedTo(raw, old, text, f, n) ==
  /\ raw \in Seq(Token) /\ Len(raw) = f + n
  /\ \A k \in 1..f : raw[k] = old[k]
  /\ \A k \in (f + 1)..(f + n) : raw[k] = text[k]

\* The next n tokens of a text, behind the f that there are.
LEMMA Appended ==
  ASSUME NEW old \in Seq(Token), NEW text \in Seq(Token), NEW f \in Nat, NEW n \in Nat,
         Len(old) = f, f + n <= Len(text), NEW raw, raw = old \o SubSeq(text, f + 1, f + n)
  PROVE  AppendedTo(raw, old, text, f, n)
<1>1. PICK part : part = SubSeq(text, f + 1, f + n)
  OBVIOUS
<1>2. Len(text) \in Nat
  BY LenProperties
<1>3. part \in Seq(Token) /\ Len(part) = n /\ \A k \in 1..n : part[k] = text[f + k]
  BY <1>1, <1>2
<1>4. /\ raw \in Seq(Token) /\ Len(raw) = Len(old) + Len(part)
      /\ \A k \in 1..(Len(old) + Len(part)) :
           raw[k] = IF k <= Len(old) THEN old[k] ELSE part[k - Len(old)]
  BY ONLY <1>1, <1>3, old \in Seq(Token), raw = old \o SubSeq(text, f + 1, f + n), ConcatProperties
<1>5. ASSUME NEW k \in 1..f
      PROVE  raw[k] = old[k]
  BY ONLY <1>3, <1>4, <1>5, f \in Nat, n \in Nat, Len(old) = f
<1>6. ASSUME NEW k \in (f + 1)..(f + n)
      PROVE  raw[k] = text[k]
  <2>1. k \in 1..(f + n) /\ ~(k <= f) /\ k - f \in 1..n /\ f + (k - f) = k
    BY ONLY <1>6, f \in Nat, n \in Nat
  <2> QED
    BY ONLY <1>3, <1>4, <2>1, Len(old) = f
<1> QED
  BY ONLY <1>3, <1>4, <1>5, <1>6, Len(old) = f DEF AppendedTo

\* What is stored of a well formed message is where it is in it.
LEMMA InputReads ==
  ASSUME MessageAssumption, Stored, Typed(rtsp), Bounds(rtsp), NEW m, m = message, WellFormed(m),
         Reading(rtsp, m), NEW n, n \in Nat, n # 0, Input(n)
  PROVE  Reading(rtsp', m) /\ ret' \in {"running", "store assert"}
<1>1. CASE ~Storable(n)
  <2>1. rtsp' = rtsp /\ ret' = "store assert"
    BY ONLY <1>1, Input(n) DEF Input
  <2> QED
    BY ONLY <2>1, Reading(rtsp, m)
<1>2. CASE Storable(n)
  <2>1. PICK raw, cap : /\ raw = rtsp.raw \o SubSeq(message.text, fed + 1, fed + n)
                        /\ cap = Capacity(n)
    OBVIOUS
  <2>2. /\ rtsp' = [rtsp EXCEPT !.raw = raw, !.raw_capacity = cap]
        /\ ret' = "running" /\ fed + n <= Len(message.text)
    BY <1>2, <2>1 DEF Input
  <2>3. /\ rtsp.raw \in Seq(Token) /\ fed \in Nat /\ Len(rtsp.raw) = fed
        /\ message \in Message /\ rtsp.offset \in Nat /\ rtsp.offset <= fed
        /\ rtsp.chunk.offset \in Nat
    BY RawLen DEF Typed, Stored, raw_size, Bounds
  <2>4. /\ raw \in Seq(Token) /\ Len(raw) = fed + n
        /\ \A k \in 1..fed : raw[k] = rtsp.raw[k]
        /\ \A k \in (fed + 1)..(fed + n) : raw[k] = message.text[k]
    <3>1. PICK old, text, f : old = rtsp.raw /\ text = message.text /\ f = fed
      OBVIOUS
    <3>2. message.text \in Seq(Token)
      BY ONLY <2>3, MessageAssumption DEF MessageAssumption, Token
    <3>3. old \in Seq(Token) /\ text \in Seq(Token) /\ f \in Nat /\ Len(old) = f
          /\ f + n <= Len(text) /\ raw = old \o SubSeq(text, f + 1, f + n)
      BY ONLY <2>1, <2>2, <2>3, <3>1, <3>2
    <3>4. AppendedTo(raw, old, text, f, n)
      BY ONLY <3>3, n \in Nat, Appended
    <3> QED
      BY ONLY <3>1, <3>4 DEF AppendedTo
  <2>5. /\ rtsp'.raw = raw /\ rtsp'.stateM = rtsp.stateM
        /\ rtsp'.offset = rtsp.offset /\ rtsp'.content_length = rtsp.content_length
        /\ rtsp'.name = rtsp.name /\ rtsp'.value = rtsp.value /\ rtsp'.method = rtsp.method
        /\ rtsp'.uri = rtsp.uri /\ rtsp'.reason = rtsp.reason /\ rtsp'.code = rtsp.code
        /\ rtsp'.headers = rtsp.headers /\ rtsp'.connection_close = rtsp.connection_close
        /\ rtsp'.content_encoding = rtsp.content_encoding
        /\ rtsp'.transfer_encoding = rtsp.transfer_encoding /\ rtsp'.chunk = rtsp.chunk
        /\ rtsp'.cookie = rtsp.cookie /\ rtsp'.location = rtsp.location
    BY ONLY <2>2, Typed(rtsp) DEF Typed, Shape, LineField
  <2>6. LinesSame(rtsp, rtsp')
    <3>1. Len(rtsp'.raw) \in Nat /\ rtsp.offset <= Len(rtsp'.raw)
      BY ONLY <2>3, <2>4, <2>5, n \in Nat
    <3>2. \A i \in 1..rtsp.offset : i \in 1..fed
      BY ONLY <2>3
    <3> QED
      BY ONLY <2>4, <2>5, <3>1, <3>2 DEF LinesSame
  <2>7. ASSUME NEW i, Unread(rtsp, m, i)
        PROVE  Unread(rtsp', m, i)
    <3>1. ASSUME NEW k \in 1..(fed + n), k > i
          PROVE  raw[k] = m.text[k]
      <4>1. k \in 1..fed \/ k \in (fed + 1)..(fed + n)
        BY ONLY <2>3, n \in Nat, k \in 1..(fed + n)
      <4> QED
        BY ONLY <2>3, <2>4, <2>7, <3>1, <4>1, m = message DEF Unread
    <3> QED
      BY ONLY <2>4, <2>5, <3>1 DEF Unread
  <2>8. CASE FirstReading(rtsp, m)
    <3>1. rtsp.stateM \in LineState /\ StatusAt(rtsp, m) /\ RequestAt(rtsp, m)
          /\ Unread(rtsp, m, 0)
      BY <2>8 DEF FirstReading
    <3>2. StatusAt(rtsp', m)
      BY ONLY <2>5, <3>1 DEF StatusAt
    <3>3. RequestAt(rtsp', m)
      BY ONLY <2>5, <3>1 DEF RequestAt
    <3>4. FirstReading(rtsp', m)
      BY <2>5, <2>7, <2>8, <3>2, <3>3 DEF FirstReading
    <3> QED
      BY <2>2, <3>4 DEF Reading
  <2>9. CASE HeaderReading(rtsp, m)
    <3>1. PICK k \in 1..(HeaderCount(m) + 1) :
            /\ HeaderAt(rtsp, m, k) /\ Unread(rtsp, m, Start(m, k)) /\ LinesKept(rtsp, m, k)
            /\ NotedAs(m, k, rtsp.content_length, "Content-Length", Lengths(m), -1)
      BY <2>9 DEF HeaderReading
    <3>2. HeadersFormed(m) /\ rtsp.stateM \in HeaderState
      BY <2>9 DEF WellFormed, HeaderReading
    <3>3. Start(m, k) \in Nat /\ Start(m, k) <= rtsp.offset
      BY <3>1, <3>2, HeaderBehind
    <3>4. k \in Nat \ {0}
      BY <3>2 DEF HeadersFormed, HeaderCount
    <3>5. LinesKept(rtsp', m, k)
      BY ONLY <2>6, <3>1, <3>3, <3>4, LinesStay, Typed(rtsp), Bounds(rtsp)
    <3>6. HeaderAt(rtsp', m, k)
      BY ONLY <2>5, <3>1 DEF HeaderAt, NameRead
    <3>7. HeaderReading(rtsp', m)
      BY <2>5, <2>7, <3>1, <3>2, <3>5, <3>6 DEF HeaderReading
    <3> QED
      BY <2>2, <3>7 DEF Reading
  <2>10. CASE BodyReading(rtsp, m)
    <3>1. PICK k, p : k = HeaderCount(m) + 1 /\ p = m.layout.body
      OBVIOUS
    <3>2. HeadersFormed(m)
      BY DEF WellFormed
    <3>3. /\ k \in Nat \ {0} /\ Start(m, k) \in Nat /\ Start(m, k) < p /\ p \in Nat
      BY <3>1, <3>2, BodyPlace
    <3>4. rtsp.offset = p /\ LinesKept(rtsp, m, k) /\ rtsp.stateM \in ChunkState \cup {"DONE"}
          /\ (is_transfer_encoding_chunked(rtsp) <=> ChunkedBody(m))
      BY <2>10, <3>1 DEF BodyReading
    <3>5. /\ LinesKept(rtsp', m, k)
          /\ is_transfer_encoding_chunked(rtsp') <=> is_transfer_encoding_chunked(rtsp)
      <4>1. Start(m, k) <= rtsp.offset
        BY <3>3, <3>4
      <4> QED
        BY ONLY <2>6, <3>3, <3>4, <4>1, LinesStay, Typed(rtsp), Bounds(rtsp)
    <3>6. CASE ChunkedBody(m) /\ rtsp.chunk.offset # 0
      <4>1. ChunkReading(rtsp, m)
        BY <2>10, <3>6 DEF BodyReading
      <4>2. /\ rtsp.content_length \in Nat
            /\ p + rtsp.content_length <= fed
        <5>1. /\ rtsp.content_length \in Nat
              /\ p + rtsp.content_length <= rtsp.chunk.offset /\ rtsp.chunk.offset <= fed
          BY <2>3, <3>4, <3>6 DEF Bounds, BodyBehind
        <5> QED
          BY ONLY <2>3, <3>3, <5>1
      <4>3. ASSUME NEW j, Taken(rtsp, m, j)
            PROVE  Taken(rtsp', m, j)
        <5>1. ASSUME NEW i \in 1..rtsp.content_length
              PROVE  rtsp'.raw[p + i] = rtsp.raw[p + i]
          <6>1. p + i \in 1..fed
            BY ONLY <2>3, <3>3, <4>2, <5>1
          <6> QED
            BY ONLY <2>4, <2>5, <6>1
        <5> QED
          BY ONLY <2>5, <3>1, <4>3, <5>1 DEF Taken
      <4>4. /\ \A j : ChunkAt(rtsp, m, j) => ChunkAt(rtsp', m, j)
            /\ \A j : TrailerAt(rtsp, m, j) => TrailerAt(rtsp', m, j)
        BY ONLY <2>5 DEF ChunkAt, TrailerAt
      <4>5. ChunkReading(rtsp', m)
        BY ONLY <2>5, <2>7, <4>1, <4>3, <4>4 DEF ChunkReading
      <4>6. BodyReading(rtsp', m)
        BY ONLY <2>5, <3>1, <3>4, <3>5, <3>6, <4>5 DEF BodyReading
      <4> QED
        BY <2>2, <4>6 DEF Reading
    <3>7. CASE ~(ChunkedBody(m) /\ rtsp.chunk.offset # 0)
      <4>1. /\ Unread(rtsp, m, p) /\ rtsp.chunk.offset = 0
            /\ \/ /\ rtsp.stateM = "CHUNK_START"
                  /\ NotedAs(m, k, rtsp.content_length, "Content-Length", Lengths(m), -1)
               \/ Len(rtsp.raw) = Len(m.text)
        BY ONLY <2>10, <3>1, <3>7 DEF BodyReading
      <4>2. Len(rtsp.raw) # Len(m.text)
        <5>1. Len(m.text) \in Nat
          BY <2>3, TextLen
        <5> QED
          BY ONLY <2>2, <2>3, <5>1, n \in Nat, n # 0, m = message
      <4>3. BodyReading(rtsp', m)
        BY ONLY <2>5, <2>7, <3>1, <3>4, <3>5, <3>7, <4>1, <4>2 DEF BodyReading
      <4> QED
        BY <2>2, <4>3 DEF Reading
    <3> QED
      BY <3>6, <3>7
  <2> QED
    BY <2>8, <2>9, <2>10 DEF Reading
<1> QED
  BY <1>1, <1>2

\* A parser that has been created or cleared is before the message.
LEMMA ClearedReads ==
  ASSUME NEW r, Shape(r), NEW q, q = Cleared(r), NEW m
  PROVE  FirstReading(q, m)
<1>1. PICK s : s = FirstState(r)
  OBVIOUS
<1>2. q = [r EXCEPT !.raw = <<>>, !.stateM = s, !.offset = 0,
                    !.method = Nowhere, !.uri = Nowhere, !.reason = Nowhere, !.code = 0,
                    !.headers = <<>>, !.connection_close = -1, !.content_encoding = 0,
                    !.content_length = -1, !.transfer_encoding = 0, !.cookie = 0, !.location = 0,
                    !.chunk = [offset |-> 0, len |-> 0, pos |-> 0]]
  BY <1>1 DEF Cleared
<1>3. /\ q.raw = <<>> /\ q.stateM = s /\ q.offset = 0 /\ q.headers = <<>>
      /\ q.connection_close = -1 /\ q.content_encoding = 0 /\ q.content_length = -1
      /\ q.transfer_encoding = 0 /\ q.cookie = 0 /\ q.location = 0
  BY ONLY <1>2, Shape(r) DEF Shape, LineField
<1>4. s \in {"STATUS_START", "REQUEST_START"}
  BY <1>1 DEF FirstState
<1>5. StatusAt(q, m)
  BY ONLY <1>3, <1>4 DEF StatusAt
<1>6. RequestAt(q, m)
  BY ONLY <1>3, <1>4 DEF RequestAt
<1>7. q.stateM \in LineState
  BY ONLY <1>3, <1>4 DEF LineState, StatusState, RequestState
<1>8. Unread(q, m, 0)
  <2>1. Len(q.raw) = 0
    BY ONLY <1>3, EmptySeq
  <2>2. 1..0 = {}
    OBVIOUS
  <2> QED
    BY ONLY <2>1, <2>2 DEF Unread
<1> QED
  BY ONLY <1>3, <1>5, <1>6, <1>7, <1>8 DEF FirstReading

\* The same of rtsp_parser_create.
LEMMA CreatedReads ==
  ASSUME NEW mode, NEW m
  PROVE  FirstReading(Created(mode), m)
<1>1. PICK r :
        r = [server_mode |-> mode, raw |-> <<>>, raw_capacity |-> 0, stateM |-> "", offset |-> 0,
             name |-> Nowhere, value |-> Nowhere, method |-> Nowhere, uri |-> Nowhere,
             reason |-> Nowhere, code |-> 0, headers |-> <<>>, connection_close |-> 0,
             content_encoding |-> 0, content_length |-> 0, transfer_encoding |-> 0,
             cookie |-> 0, location |-> 0, chunk |-> [offset |-> 0, len |-> 0, pos |-> 0]]
  OBVIOUS
<1>2. Created(mode) = Cleared(r)
  BY <1>1 DEF Created
<1>3. Shape(r)
  BY ONLY <1>1 DEF Shape, LineField
<1>4. PICK q : q = Cleared(r)
  OBVIOUS
<1> QED
  BY ONLY <1>2, <1>3, <1>4, ClearedReads

-----------------------------------------------------------------------------
(* The invariant.                                                            *)

\* A stretch of rtsp_parser_input.
LEMMA ParseReads ==
  ASSUME MessageAssumption, SizeAssumption, PInv, message.good => WellFormed(message), GInv, Parse
  PROVE  GInv'
<1>1. /\ Typed(rtsp) /\ Bounds(rtsp) /\ message \in Message /\ fed = Len(rtsp.raw)
      /\ fed <= Len(message.text) /\ rtsp.server_mode = message.server_mode
  BY DEF PInv, Stored, raw_size
<1>2. Len(message.text) \in Nat
  BY <1>1, TextLen
<1>3. message' = message /\ fed' = fed
  BY DEF Parse, StatusTurn, RequestTurn, HeaderTurn, ChunkEnter, ChunkTurn, Body, Return
<1>4. SUFFICES ASSUME message.good
               PROVE  /\ Reading(rtsp', message) /\ ret' \notin {"parse assert", "overrun"}
                      /\ ret' = "done" => rtsp'.stateM = "DONE"
                      /\ ret' = "needmore" => fed < Len(message.text)
  BY <1>3 DEF GInv
<1>5. PICK m : m = message
  OBVIOUS
<1>6. WellFormed(m) /\ Reading(rtsp, m) /\ Sized(m)
  BY <1>1, <1>2, <1>4, <1>5, SizeAssumption DEF GInv, Sized, SizeAssumption
<1>7. CASE Return
  <2>1. /\ Reading(rtsp', m)
        /\ \/ ret' = "done" /\ rtsp'.stateM = "DONE"
           \/ ret' = "needmore" /\ Len(rtsp.raw) < Len(m.text)
    BY ONLY <1>1, <1>2, <1>5, <1>6, <1>7, ReturnReads
  <2> QED
    BY ONLY <1>1, <1>5, <2>1
<1>8. CASE StatusTurn \/ RequestTurn \/ HeaderTurn \/ ChunkEnter \/ ChunkTurn \/ Body
  <2>1. Reading(rtsp', m) /\ ret' = "running"
    <3>1. CASE StatusTurn
      BY ONLY <1>1, <1>5, <1>6, <3>1, StatusReads
    <3>2. CASE RequestTurn
      BY ONLY <1>1, <1>5, <1>6, <3>2, RequestReads
    <3>3. CASE HeaderTurn
      BY ONLY <1>1, <1>5, <1>6, <3>3, HeaderReads
    <3>4. CASE ChunkEnter
      <4>1. rtsp.stateM \in ChunkState \cup {"DONE"}
        BY <3>4 DEF ChunkEnter
      <4>2. BodyReading(rtsp, m)
        BY ONLY <1>6, <4>1, ReadingBy
      <4> QED
        BY ONLY <1>1, <1>6, <3>4, <4>2, ChunkEnterReads DEF Reading
    <3>5. CASE ChunkTurn
      <4>1. rtsp.stateM \in ChunkState \cup {"DONE"}
        BY <3>5 DEF ChunkTurn, ChunkState
      <4>2. BodyReading(rtsp, m)
        BY ONLY <1>6, <4>1, ReadingBy
      <4> QED
        BY ONLY <1>1, <1>6, <3>5, <4>2, ChunkTurnReads DEF Reading
    <3>6. CASE Body
      <4>1. rtsp.stateM \in ChunkState \cup {"DONE"}
        BY <3>6 DEF Body, PlainBody, ChunkState
      <4>2. BodyReading(rtsp, m)
        BY ONLY <1>6, <4>1, ReadingBy
      <4>3. BodyReading(rtsp', m) /\ ret' = "running"
        BY ONLY <1>1, <1>2, <1>5, <1>6, <3>6, <4>2, BodyReads
      <4> QED
        BY ONLY <4>3 DEF Reading
    <3> QED
      BY ONLY <1>8, <3>1, <3>2, <3>3, <3>4, <3>5, <3>6
  <2> QED
    BY ONLY <1>5, <2>1
<1> QED
  BY <1>7, <1>8 DEF Parse

\* A message is read as it is formed, and however it is cut.
LEMMA GInvNext ==
  ASSUME MessageAssumption, GrammarAssumption, SizeAssumption, PInv, GInv, [Next]_vars
  PROVE  GInv'
<1>1. message \in Message /\ Typed(rtsp) /\ Bounds(rtsp) /\ Stored
  BY DEF PInv, Stored
<1>2. message.good => WellFormed(message)
  BY <1>1 DEF GrammarAssumption
<1>3. CASE UNCHANGED vars
  <2>1. rtsp' = rtsp /\ message' = message /\ fed' = fed /\ ret' = ret
    BY ONLY <1>3 DEF vars
  <2> QED
    BY ONLY <2>1, GInv DEF GInv
<1>4. CASE Parse
  BY <1>2, <1>4, ParseReads
<1>5. CASE Clear
  <2>1. rtsp' = Cleared(rtsp) /\ ret' = "none"
    BY <1>5 DEF Clear
  <2>2. Shape(rtsp)
    BY <1>1 DEF Typed
  <2>3. PICK q, m : q = rtsp' /\ m = message'
    OBVIOUS
  <2>4. FirstReading(q, m)
    BY ONLY <2>1, <2>2, <2>3, ClearedReads
  <2> QED
    BY ONLY <2>1, <2>3, <2>4 DEF GInv, Reading
<1>6. ASSUME NEW n \in 1..Len(message.text), Input(n)
      PROVE  GInv'
  <2>1. n \in Nat /\ n # 0
    <3>1. Len(message.text) \in Nat
      BY <1>1, TextLen
    <3> QED
      BY ONLY <3>1, <1>6
  <2>2. message' = message
    BY <1>6 DEF Input
  <2>3. PICK m : m = message
    OBVIOUS
  <2>4. m.good => Reading(rtsp', m) /\ ret' \in {"running", "store assert"}
    <3>1. ASSUME m.good
          PROVE  Reading(rtsp', m) /\ ret' \in {"running", "store assert"}
      <4>1. WellFormed(m) /\ Reading(rtsp, m)
        BY <1>2, <2>3, <3>1 DEF GInv
      <4> QED
        BY ONLY <1>1, <1>6, <2>1, <2>3, <4>1, InputReads, MessageAssumption
    <3> QED
      BY <3>1
  <2> QED
    BY ONLY <2>2, <2>3, <2>4 DEF GInv
<1> QED
  BY <1>3, <1>4, <1>5, <1>6 DEF Next

\* Whatever well formed message is sent, and however it is cut, it is read as it is formed.
THEOREM GInvHolds == Spec => []GInv
<1>1. Init => GInv
  <2>1. SUFFICES ASSUME Init PROVE GInv
    OBVIOUS
  <2>2. rtsp = Created(message.server_mode) /\ ret = "none"
    BY <2>1 DEF Init
  <2>3. FirstReading(rtsp, message)
    BY <2>2, CreatedReads
  <2> QED
    BY <2>2, <2>3 DEF GInv, Reading
<1>2. PInv /\ GInv /\ [Next]_vars => GInv'
  BY GInvNext, MessageAssumption, GrammarAssumption, SizeAssumption
<1> QED
  BY <1>1, <1>2, PInvHolds, PTL DEF Spec

-----------------------------------------------------------------------------
(* What the reading comes to: "done" at the last byte, and what was sent.    *)

\* The parser is done when it has read all of the text.
LEMMA DoneAtEnd ==
  ASSUME NEW r, Typed(r), Bounds(r), NEW m, BodyReading(r, m), r.stateM = "DONE",
         Len(m.text) \in Nat, Len(r.raw) <= Len(m.text)
  PROVE  Len(r.raw) = Len(m.text)
<1>1. CASE ChunkedBody(m) /\ r.chunk.offset # 0
  <2>1. ChunkReading(r, m)
    BY ONLY <1>1, BodyReading(r, m) DEF BodyReading
  <2>2. r.chunk.offset = Len(m.text)
    BY ONLY <2>1, r.stateM = "DONE" DEF ChunkReading, BeforeTrailer
  <2>3. r.chunk.offset <= Len(r.raw)
    BY ONLY <1>1, Bounds(r) DEF Bounds, BodyBehind
  <2>4. PICK a, b : a = Len(r.raw) /\ b = Len(m.text)
    OBVIOUS
  <2>5. a \in Nat
    BY ONLY <2>4, Typed(r), LenProperties DEF Typed
  <2>6. b \in Nat /\ a <= b /\ b <= a
    BY <2>2, <2>3, <2>4
  <2> QED
    BY ONLY <2>4, <2>5, <2>6
<1>2. CASE ~(ChunkedBody(m) /\ r.chunk.offset # 0)
  BY ONLY <1>2, BodyReading(r, m), r.stateM = "DONE" DEF BodyReading
<1> QED
  BY ONLY <1>1, <1>2

\* What is read when a well formed message that is not folded is done.
AllRead(r, m) ==
  /\ Typed(r) /\ Bounds(r) /\ BodyReading(r, m) /\ r.stateM = "DONE" /\ r.server_mode = m.server_mode
  /\ WellFormed(m) /\ ~m.folded /\ m.text \in Seq(Token)
  /\ Len(r.raw) = Len(m.text)

\* Every line is kept, and ends before the blank line, which lies in the text.
LEMMA WholeLines ==
  ASSUME NEW r, NEW m, AllRead(r, m)
  PROVE  /\ HeadersFormed(m) /\ NoneFold(m) /\ r.raw \in Seq(Token) /\ HeaderCount(m) \in Nat
         /\ FirstKept(r, m, m.layout.blank) /\ Listed(r, m, HeaderCount(m) + 1, m.layout.blank)
         /\ m.layout.blank \in Nat /\ m.layout.blank < Len(r.raw) /\ r.raw # <<>>
<1>1. HeadersFormed(m) /\ ~m.folded /\ r.raw \in Seq(Token)
  BY ONLY AllRead(r, m) DEF AllRead, WellFormed, Typed
<1>2. NoneFold(m)
  BY ONLY <1>1, NotFolded
<1>3. HeaderCount(m) \in Nat
  BY ONLY <1>1, LenProperties DEF HeadersFormed, HeaderCount
<1>4. LinesKept(r, m, HeaderCount(m) + 1) /\ r.offset = m.layout.body
  BY ONLY AllRead(r, m) DEF AllRead, BodyReading
<1>5. /\ Start(m, HeaderCount(m) + 1) \in Nat
      /\ Start(m, HeaderCount(m) + 1) < m.layout.body /\ m.layout.body \in Nat
      /\ Start(m, HeaderCount(m) + 1) = m.layout.blank
  BY ONLY <1>1, BodyPlace
<1>6. FirstKept(r, m, m.layout.blank) /\ Listed(r, m, HeaderCount(m) + 1, m.layout.blank)
  BY ONLY <1>1, <1>4, <1>5 DEF LinesKept
<1>7. r.offset <= Len(r.raw)
  BY ONLY AllRead(r, m) DEF AllRead, Bounds
<1>8. Len(r.raw) \in Nat
  BY ONLY <1>1, LenProperties
<1>9. m.layout.blank \in Nat /\ m.layout.blank < Len(r.raw)
  <2>1. PICK a, b, c : a = m.layout.blank /\ b = m.layout.body /\ c = Len(r.raw)
    OBVIOUS
  <2>2. a \in Nat /\ b \in Nat /\ a < b /\ b <= c /\ c \in Nat
    BY ONLY <1>4, <1>5, <1>7, <1>8, <2>1
  <2> QED
    BY ONLY <2>1, <2>2
<1>10. r.raw # <<>>
  BY ONLY <1>9
<1> QED
  BY ONLY <1>1, <1>2, <1>3, <1>6, <1>9, <1>10

\* A kept field of a line reads as it was sent.
LEMMA LineTextKept ==
  ASSUME NEW r, r.raw \in Seq(Token), NEW m, NEW f \in FieldType, Intact(r, m, f),
         NEW i \in Nat, End(f) < i, i < Len(r.raw), Over(m, f.pos, End(f)) \cap {NUL} = {}
  PROVE  Text(r, f.pos) = Said(m, f)
<1>1. Len(r.raw) \in Nat
  BY LenProperties
<1>2. End(f) \in Nat
  BY FieldIs
<1>3. End(f) <= Len(r.raw)
  <2>1. PICK a, b : a = End(f) /\ b = Len(r.raw)
    OBVIOUS
  <2> QED
    BY <1>1, <1>2, <2>1
<1>4. NUL \notin Over(m, f.pos, End(f))
  OBVIOUS
<1> QED
  BY ONLY <1>3, <1>4, r.raw \in Seq(Token), f \in FieldType, Intact(r, m, f), TextKept

\* The first line is what was sent.
LEMMA FirstLineSaid ==
  ASSUME NEW r, NEW m, AllRead(r, m)
  PROVE  IF r.server_mode
         THEN Text(r, r.method.pos) = m.method /\ Text(r, r.uri.pos) = m.uri
         ELSE r.code = m.code /\ Text(r, r.reason.pos) = m.reason
<1>1. /\ r.raw \in Seq(Token) /\ FirstKept(r, m, m.layout.blank)
      /\ m.layout.blank \in Nat /\ m.layout.blank < Len(r.raw)
  BY ONLY AllRead(r, m), WholeLines
<1>2. FirstLineFormed(m) /\ r.server_mode = m.server_mode
  BY ONLY AllRead(r, m) DEF AllRead, WellFormed
<1>3. PICK f, g, h, i : /\ f = m.layout.first /\ g = m.layout.second /\ h = m.layout.third
                        /\ i = m.layout.blank
  OBVIOUS
<1>4. f \in FieldType /\ Over(m, f.pos, End(f)) \cap {NUL} = {}
  BY ONLY <1>2, <1>3 DEF FirstLineFormed, Word
<1>5. g \in FieldType /\ Over(m, g.pos, End(g)) \cap {NUL} = {}
  BY ONLY <1>2, <1>3 DEF FirstLineFormed, Word
<1>6. h \in FieldType /\ Over(m, h.pos, End(h)) \cap {NUL} = {}
  BY ONLY <1>2, <1>3 DEF FirstLineFormed, Phrase
<1>7. r.raw \in Seq(Token) /\ i \in Nat /\ i < Len(r.raw)
  BY ONLY <1>1, <1>3
<1>8. CASE m.server_mode
  <2>1. r.method = f /\ Intact(r, m, f) /\ End(f) < i /\ r.uri = g /\ Intact(r, m, g) /\ End(g) < i
    BY ONLY <1>1, <1>3, <1>8 DEF FirstKept
  <2>2. m.method = Said(m, f) /\ m.uri = Said(m, g)
    BY ONLY <1>2, <1>3, <1>8 DEF FirstLineFormed
  <2>3. Text(r, f.pos) = Said(m, f)
    BY ONLY <1>4, <1>7, <2>1, LineTextKept
  <2>4. Text(r, g.pos) = Said(m, g)
    BY ONLY <1>5, <1>7, <2>1, LineTextKept
  <2> QED
    BY ONLY <1>2, <1>8, <2>1, <2>2, <2>3, <2>4
<1>9. CASE ~m.server_mode
  <2>1. r.code = m.code /\ r.reason = h /\ Intact(r, m, h) /\ End(h) < i
    BY ONLY <1>1, <1>3, <1>9 DEF FirstKept
  <2>2. m.reason = Said(m, h)
    BY ONLY <1>2, <1>3, <1>9 DEF FirstLineFormed
  <2>3. Text(r, h.pos) = Said(m, h)
    BY ONLY <1>6, <1>7, <2>1, LineTextKept
  <2> QED
    BY ONLY <1>2, <1>9, <2>1, <2>2, <2>3
<1> QED
  BY ONLY <1>8, <1>9

\* The content is the body, however it was sent.
LEMMA ContentRead ==
  ASSUME NEW r, NEW m, AllRead(r, m)
  PROVE  /\ r.content_length = Len(m.body)
         /\ SubSeq(r.raw, r.offset + 1, r.offset + r.content_length) = m.body
<1>1. /\ BodyReading(r, m) /\ r.stateM = "DONE" /\ BodyFormed(m) /\ m.text \in Seq(Token)
      /\ Len(r.raw) = Len(m.text) /\ r.raw \in Seq(Token) /\ r.offset <= Len(r.raw)
      /\ HeadersFormed(m)
  BY ONLY AllRead(r, m) DEF AllRead, WellFormed, Typed, Bounds
<1>2. PICK raw, text, body, b, n :
        /\ raw = r.raw /\ text = m.text /\ body = m.body /\ b = m.layout.body /\ n = Len(r.raw)
  OBVIOUS
<1>3. raw \in Seq(Token) /\ Len(raw) = n /\ n \in Nat /\ Len(text) = n /\ body \in Seq(STRING)
  BY ONLY <1>1, <1>2, LenProperties DEF BodyFormed
<1>4. r.offset = b /\ b \in Nat /\ b <= n
  BY ONLY <1>1, <1>2, BodyPlace DEF BodyReading
<1>5. \A k \in 1..n : raw[k] \in Token
  BY ONLY <1>3
<1>6. CASE ChunkedBody(m)
  <2>1. r.chunk.offset # 0
    BY ONLY <1>1, <1>6 DEF BodyReading
  <2>2. ChunkReading(r, m)
    BY ONLY <1>1, <1>6, <2>1 DEF BodyReading
  <2>3. Taken(r, m, Len(m.layout.chunks))
    BY ONLY <1>1, <2>2 DEF ChunkReading, BeforeTrailer
  <2>4. ChunksFormed(m)
    BY ONLY <1>1, <1>6 DEF BodyFormed, ChunkedBody
  <2>5. m.layout.chunks[Len(m.layout.chunks)].at = Len(body)
    <3>1. PICK chunks : chunks = m.layout.chunks
      OBVIOUS
    <3>2. Len(chunks) \in Nat /\ Len(chunks) # 0
      BY ONLY <2>4, <3>1, LenProperties, EmptySeq DEF ChunksFormed
    <3>3. Len(chunks) \in 1..Len(chunks)
      BY ONLY <3>2
    <3>4. ChunkFormed(m, Len(m.layout.chunks))
      BY ONLY <2>4, <3>1, <3>3 DEF ChunksFormed
    <3>5. ~(Len(m.layout.chunks) < Len(m.layout.chunks))
      BY ONLY <3>1, <3>2
    <3> QED
      BY ONLY <1>2, <3>4, <3>5 DEF ChunkFormed
  <2>6. PICK c : c = r.content_length
    OBVIOUS
  <2>7. c = Len(body) /\ c \in Nat /\ \A i \in 1..c : raw[b + i] = body[i]
    BY ONLY <1>2, <1>3, <2>3, <2>5, <2>6, LenProperties DEF Taken
  <2>8. b + c <= n
    <3>1. r.offset + r.content_length <= Len(r.raw)
      BY ONLY <1>1, AllRead(r, m) DEF AllRead, Bounds, BodyBehind
    <3> QED
      BY ONLY <1>2, <1>4, <2>6, <3>1
  <2>9. PICK part : part = SubSeq(raw, b + 1, b + c)
    OBVIOUS
  <2>10. /\ part \in Seq(Token) /\ Len(part) = c
         /\ \A i \in 1..c : part[i] = raw[b + i]
    <3>1. PICK x, y : x = b + 1 /\ y = b + c
      OBVIOUS
    <3>2. x \in Int /\ y \in Int /\ \A k \in x..y : raw[k] \in Token
      BY ONLY <1>3, <1>4, <1>5, <2>7, <2>8, <3>1
    <3>3. /\ SubSeq(raw, x, y) \in Seq(Token)
          /\ Len(SubSeq(raw, x, y)) = IF x <= y THEN y - x + 1 ELSE 0
          /\ \A i \in 1..(y - x + 1) : SubSeq(raw, x, y)[i] = raw[x + i - 1]
      BY ONLY <3>2, SubSeqProperties
    <3>4. part = SubSeq(raw, x, y)
      BY ONLY <2>9, <3>1
    <3>5. ASSUME NEW i \in 1..c
          PROVE  part[i] = raw[b + i]
      <4>1. i \in 1..(y - x + 1) /\ x + i - 1 = b + i
        BY ONLY <1>4, <2>7, <3>1, <3>5
      <4> QED
        BY ONLY <3>3, <3>4, <4>1
    <3>6. Len(part) = c
      BY ONLY <1>4, <2>7, <3>1, <3>3, <3>4
    <3> QED
      BY ONLY <3>3, <3>4, <3>5, <3>6
  <2>11. body \in Seq(Token)
    BY ONLY <1>3 DEF Token
  <2>12. part = body
    BY ONLY <2>7, <2>10, <2>11, SeqEqual
  <2> QED
    BY ONLY <1>2, <1>4, <2>6, <2>7, <2>9, <2>12
<1>7. CASE ~ChunkedBody(m)
  <2>1. /\ Unread(r, m, m.layout.body)
        /\ r.content_length = Len(m.text) - m.layout.body
    BY ONLY <1>1, <1>7 DEF BodyReading
  <2>2. m.body = SubSeq(m.text, m.layout.body + 1, Len(m.text))
    BY ONLY <1>1, <1>7 DEF BodyFormed, ChunkedBody
  <2>3. PICK c : c = r.content_length
    OBVIOUS
  <2>4. c = n - b /\ b + c = n /\ c \in Nat /\ b + 1 \in Int /\ n \in Int
    BY ONLY <1>2, <1>3, <1>4, <2>1, <2>3
  <2>5. \A k \in (b + 1)..n : raw[k] \in Token /\ raw[k] = text[k]
    <3>1. \A k \in (b + 1)..n : k \in 1..n /\ k > b
      BY ONLY <1>3, <1>4
    <3> QED
      BY ONLY <1>2, <1>5, <2>1, <3>1 DEF Unread
  <2>6. SubSeq(raw, b + 1, n) = SubSeq(text, b + 1, n)
    BY ONLY <2>4, <2>5, SameText
  <2>7. body = SubSeq(raw, b + 1, n)
    BY ONLY <1>2, <1>3, <2>2, <2>6
  <2>8. Len(body) = c
    <3>1. Len(SubSeq(raw, b + 1, n)) = IF b + 1 <= n THEN n - (b + 1) + 1 ELSE 0
      <4>1. \A k \in (b + 1)..n : raw[k] \in Token
        BY ONLY <2>5
      <4> QED
        BY ONLY <2>4, <4>1, SubSeqProperties
    <3> QED
      BY ONLY <1>3, <1>4, <2>4, <2>7, <3>1
  <2> QED
    BY ONLY <1>2, <1>4, <2>3, <2>4, <2>7, <2>8
<1> QED
  BY ONLY <1>6, <1>7

\* The header of line k, in the list and in the text.
LEMMA HeaderSaid ==
  ASSUME NEW r, NEW m, AllRead(r, m), NEW k \in 1..HeaderCount(m), NEW h, h = m.layout.headers[k]
  PROVE  /\ r.headers[k].name = h.name /\ r.headers[k].value = h.value
         /\ Text(r, h.name.pos) = <<Name(m, k)>> /\ Text(r, h.value.pos) = Said(m, h.value)
         /\ Said(m, h.value) # NULL /\ h.value.pos # 0
         /\ m.headers[Name(m, k)] = Said(m, h.value)
<1>1. /\ HeadersFormed(m) /\ NoneFold(m) /\ r.raw \in Seq(Token) /\ HeaderCount(m) \in Nat
      /\ Listed(r, m, HeaderCount(m) + 1, m.layout.blank)
      /\ m.layout.blank \in Nat /\ m.layout.blank < Len(r.raw)
  BY ONLY AllRead(r, m), WholeLines
<1>2. ~m.folded
  BY ONLY AllRead(r, m) DEF AllRead
<1>3. PICK f, g, i, w : f = h.name /\ g = h.value /\ i = m.layout.blank /\ w = Name(m, k)
  OBVIOUS
<1>4. HeaderFormed(m, k) /\ ~h.fold
  BY ONLY <1>1, k \in 1..HeaderCount(m), h = m.layout.headers[k] DEF HeadersFormed, NoneFold
<1>5. /\ f \in FieldType /\ f.len = 1 /\ w # NUL /\ w = At(m, f.pos)
      /\ h.colon \in Nat /\ f.pos < h.colon /\ h.colon < g.pos
  BY ONLY <1>3, <1>4, h = m.layout.headers[k] DEF HeaderFormed, Name
<1>6. g \in FieldType /\ Over(m, g.pos, End(g)) \cap {NUL} = {}
  BY ONLY <1>3, <1>4, h = m.layout.headers[k] DEF HeaderFormed, Phrase
<1>7. /\ r.headers[k].name = f /\ r.headers[k].value = g
      /\ Intact(r, m, f) /\ End(f) < i /\ Intact(r, m, g) /\ End(g) < i
  <2>1. k \in 1..(HeaderCount(m) + 1 - 1)
    BY ONLY <1>1, k \in 1..HeaderCount(m)
  <2> QED
    BY ONLY <1>1, <1>3, <2>1, h = m.layout.headers[k] DEF Listed
<1>8. r.raw \in Seq(Token) /\ i \in Nat /\ i < Len(r.raw)
  BY ONLY <1>1, <1>3
<1>9. f.pos \in Nat /\ g.pos \in Nat /\ g.len \in Nat /\ End(f) = f.pos + 1
  BY ONLY <1>5, <1>6 DEF FieldType, End
<1>10. Over(m, f.pos, End(f)) \cap {NUL} = {}
  <2>1. PICK p : p = f.pos
    OBVIOUS
  <2>2. \A o \in p..(p + 1 - 1) : o = p
    BY ONLY <1>9, <2>1
  <2>3. \A o \in p..(p + 1 - 1) : At(m, o) # NUL
    BY ONLY <1>5, <2>1, <2>2
  <2> QED
    BY ONLY <1>9, <2>1, <2>3 DEF Over
<1>11. Text(r, f.pos) = Said(m, f)
  BY ONLY <1>5, <1>7, <1>8, <1>10, LineTextKept
<1>12. Text(r, g.pos) = Said(m, g)
  BY ONLY <1>6, <1>7, <1>8, LineTextKept
<1>13. Said(m, f) = <<w>>
  <2>1. PICK p, text : p = f.pos + 1 /\ text = m.text
    OBVIOUS
  <2>2. Said(m, f) = SubSeq(text, p, p) /\ text[p] = w /\ p \in Int
    BY ONLY <1>5, <1>9, <2>1 DEF Said, At
  <2>3. PICK S, q : S = {w} /\ q = p
    OBVIOUS
  <2>4. p \in Int /\ q \in Int /\ \A j \in p..q : text[j] \in S
    BY ONLY <2>2, <2>3
  <2>5. /\ SubSeq(text, p, q) \in Seq(S)
        /\ Len(SubSeq(text, p, q)) = IF p <= q THEN q - p + 1 ELSE 0
    BY ONLY <2>4, SubSeqProperties
  <2>6. PICK s : s = SubSeq(text, p, p)
    OBVIOUS
  <2>7. s \in Seq({w}) /\ Len(s) = 1
    BY ONLY <2>2, <2>3, <2>5, <2>6
  <2>8. s = <<w>>
    BY ONLY <2>7
  <2> QED
    BY ONLY <2>2, <2>6, <2>8
<1>14. Said(m, g) # NULL
  <2>1. SUFFICES ASSUME Said(m, g) = <<NUL>> PROVE FALSE
    BY DEF NULL
  <2>2. PICK s : s = Said(m, g)
    OBVIOUS
  <2>3. Len(s) = 1 /\ s[1] = NUL
    BY ONLY <2>1, <2>2
  <2>4. PICK p, e, text : p = g.pos + 1 /\ e = End(g) /\ text = m.text
    OBVIOUS
  <2>5. s = SubSeq(text, p, e) /\ p \in Int /\ e \in Int /\ p - 1 = g.pos
    BY ONLY <1>6, <1>9, <2>2, <2>4, FieldIs DEF Said
  <2>6. PICK S : S = {text[j] : j \in p..e}
    OBVIOUS
  <2>7. /\ Len(s) = (IF p <= e THEN e - p + 1 ELSE 0)
        /\ \A j \in 1..(e - p + 1) : s[j] = text[p + j - 1]
    <3>1. \A j \in p..e : text[j] \in S
      BY ONLY <2>6
    <3> QED
      BY ONLY <2>5, <3>1, SubSeqProperties
  <2>8. e = p /\ 1 \in 1..(e - p + 1) /\ p + 1 - 1 = p /\ p - 1 \in (p - 1)..(e - 1)
    BY ONLY <2>3, <2>5, <2>7
  <2>9. text[p] = NUL
    BY ONLY <2>3, <2>7, <2>8
  <2>10. At(m, p - 1) = NUL
    BY ONLY <2>4, <2>5, <2>9 DEF At
  <2>11. NUL \in Over(m, g.pos, End(g))
    BY ONLY <2>4, <2>5, <2>8, <2>10 DEF Over
  <2> QED
    BY ONLY <1>6, <2>11
<1>15. g.pos # 0
  BY ONLY <1>5, <1>9
<1>16. m.headers[w] = Said(m, g)
  BY ONLY <1>1, <1>2, <1>3, <1>4, k \in 1..HeaderCount(m), h = m.layout.headers[k] DEF HeadersFormed
<1> QED
  BY ONLY <1>3, <1>7, <1>11, <1>12, <1>13, <1>14, <1>15, <1>16

\* The names of the headers: each is that of one line.
LEMMA NamesSaid ==
  ASSUME NEW r, NEW m, AllRead(r, m)
  PROVE  /\ DOMAIN m.headers = {Name(m, k) : k \in 1..HeaderCount(m)}
         /\ \A i, k \in 1..HeaderCount(m) : Name(m, i) = Name(m, k) => i = k
<1>1. HeadersFormed(m) /\ NoneFold(m) /\ ~m.folded
  BY ONLY AllRead(r, m), WholeLines DEF AllRead
<1>2. {i \in 1..HeaderCount(m) : ~m.layout.headers[i].fold} = 1..HeaderCount(m)
  BY ONLY <1>1 DEF NoneFold
<1> QED
  BY ONLY <1>1, <1>2 DEF HeadersFormed

\* rtsp_get_header_by_name gives what a header of that name said.
LEMMA ByNameRead ==
  ASSUME AllRead(rtsp, message), NEW name \in DOMAIN message.headers
  PROVE  rtsp_get_header_by_name(name) = message.headers[name]
<1>1. PICK m : m = message
  OBVIOUS
<1>2. AllRead(rtsp, m) /\ name \in DOMAIN m.headers
  BY ONLY <1>1, AllRead(rtsp, message), name \in DOMAIN message.headers
<1>3. /\ DOMAIN m.headers = {Name(m, k) : k \in 1..HeaderCount(m)}
      /\ \A i, k \in 1..HeaderCount(m) : Name(m, i) = Name(m, k) => i = k
  BY ONLY <1>2, NamesSaid
<1>4. PICK k \in 1..HeaderCount(m) : Name(m, k) = name
  BY ONLY <1>2, <1>3
<1>5. PICK n, headers : n = HeaderCount(m) /\ headers = rtsp.headers
  OBVIOUS
<1>6. n \in Nat /\ DOMAIN headers = 1..n
  <2>1. HeaderCount(m) \in Nat /\ Listed(rtsp, m, HeaderCount(m) + 1, m.layout.blank)
    BY ONLY <1>2, WholeLines
  <2>2. Len(headers) = n + 1 - 1
    BY ONLY <1>5, <2>1 DEF Listed
  <2>3. headers \in Seq(HeaderType)
    BY ONLY <1>2, <1>5 DEF AllRead, Typed
  <2>4. DOMAIN headers = 1..Len(headers)
    BY ONLY <2>3, LenProperties
  <2> QED
    BY ONLY <1>5, <2>1, <2>2, <2>4
<1>7. ASSUME NEW i \in 1..n
      PROVE  /\ Text(rtsp, headers[i].name.pos) = <<Name(m, i)>>
             /\ Text(rtsp, headers[i].value.pos) = m.headers[Name(m, i)]
  <2>1. i \in 1..HeaderCount(m)
    BY ONLY <1>5, <1>7
  <2>2. PICK h : h = m.layout.headers[i]
    OBVIOUS
  <2>3. /\ rtsp.headers[i].name = h.name /\ rtsp.headers[i].value = h.value
        /\ Text(rtsp, h.name.pos) = <<Name(m, i)>> /\ Text(rtsp, h.value.pos) = Said(m, h.value)
        /\ m.headers[Name(m, i)] = Said(m, h.value)
    BY ONLY <1>2, <2>1, <2>2, HeaderSaid
  <2> QED
    BY ONLY <1>5, <2>3
<1>8. PICK named : named = {i \in DOMAIN headers : Text(rtsp, headers[i].name.pos) = <<name>>}
  OBVIOUS
<1>9. k \in 1..n /\ k \in Nat
  BY ONLY <1>4, <1>5, <1>6
<1>10. named = {k}
  <2>1. k \in named
    BY ONLY <1>4, <1>6, <1>7, <1>8, <1>9
  <2>2. ASSUME NEW i \in named
        PROVE  i = k
    <3>1. i \in 1..n /\ Text(rtsp, headers[i].name.pos) = <<name>>
      BY ONLY <1>6, <1>8, <2>2
    <3>2. <<Name(m, i)>> = <<name>>
      BY ONLY <1>7, <3>1
    <3>3. Name(m, i) = Name(m, k)
      BY ONLY <1>4, <3>2
    <3> QED
      BY ONLY <1>3, <1>4, <1>5, <3>1, <3>3
  <2> QED
    BY ONLY <2>1, <2>2
<1>11. (CHOOSE i \in named : \A j \in named : i <= j) = k
  BY ONLY <1>9, <1>10
<1>12. rtsp_get_header_by_name(name) = Text(rtsp, headers[k].value.pos)
  <2>1. named # {}
    BY ONLY <1>10
  <2>2. rtsp_get_header_by_name(name) =
          IF named = {} THEN NULL
          ELSE Text(rtsp, headers[CHOOSE i \in named : \A j \in named : i <= j].value.pos)
    BY ONLY <1>5, <1>8 DEF rtsp_get_header_by_name
  <2> QED
    BY ONLY <1>11, <2>1, <2>2
<1> QED
  BY ONLY <1>1, <1>4, <1>7, <1>9, <1>12

\* What a header of that name, or none of it, gave: v.
NotedAll(m, n, v, name, given, none) ==
  /\ \A i \in 1..n : Name(m, i) = name => v = given[i]
  /\ (\A i \in 1..n : Name(m, i) # name) => v = none

\* What was noted before the blank line.
LEMMA NotedIs ==
  ASSUME NEW m, NEW n \in Nat, NEW k, k = n + 1, NEW v, NEW name, NEW given, NEW none,
         NotedAs(m, k, v, name, given, none)
  PROVE  NotedAll(m, n, v, name, given, none)
<1>1. k - 1 = n
  OBVIOUS
<1> QED
  BY <1>1 DEF NotedAs, NotedAll

\* The getter of a noted place gives what the header of that name said, or nothing.
LEMMA NotedRead ==
  ASSUME AllRead(rtsp, message), NEW name, NEW place,
         NotedAs(message, HeaderCount(message) + 1, place, name, Places(message), 0)
  PROVE  Noted(place) = Sent(name)
<1>1. PICK m : m = message
  OBVIOUS
<1>2. AllRead(rtsp, m) /\ NotedAs(m, HeaderCount(m) + 1, place, name, Places(m), 0)
  BY ONLY <1>1, AllRead(rtsp, message),
          NotedAs(message, HeaderCount(message) + 1, place, name, Places(message), 0)
<1>3. DOMAIN m.headers = {Name(m, k) : k \in 1..HeaderCount(m)}
  BY ONLY <1>2, NamesSaid
<1>4. /\ \A i \in 1..HeaderCount(m) : Name(m, i) = name => place = Places(m)[i]
      /\ (\A i \in 1..HeaderCount(m) : Name(m, i) # name) => place = 0
  <2>1. PICK n, k, given : n = HeaderCount(m) /\ k = HeaderCount(m) + 1 /\ given = Places(m)
    OBVIOUS
  <2>2. n \in Nat /\ k = n + 1
    BY ONLY <1>2, <2>1, WholeLines
  <2>3. NotedAs(m, k, place, name, given, 0)
    BY ONLY <1>2, <2>1
  <2>4. NotedAll(m, n, place, name, given, 0)
    BY ONLY <2>2, <2>3, NotedIs
  <2> QED
    BY ONLY <2>1, <2>4 DEF NotedAll
<1>5. CASE name \in DOMAIN m.headers
  <2>1. PICK k \in 1..HeaderCount(m) : Name(m, k) = name
    BY ONLY <1>3, <1>5
  <2>2. PICK h : h = m.layout.headers[k]
    OBVIOUS
  <2>3. place = h.value.pos
    BY ONLY <1>4, <2>1, <2>2 DEF Places
  <2>4. /\ Text(rtsp, h.value.pos) = Said(m, h.value) /\ h.value.pos # 0
        /\ m.headers[Name(m, k)] = Said(m, h.value)
    BY ONLY <1>2, <2>1, <2>2, HeaderSaid
  <2>5. Noted(place) = m.headers[name]
    BY ONLY <2>1, <2>3, <2>4 DEF Noted
  <2> QED
    BY ONLY <1>1, <1>5, <2>5 DEF Sent
<1>6. CASE name \notin DOMAIN m.headers
  <2>1. \A k \in 1..HeaderCount(m) : Name(m, k) # name
    BY ONLY <1>3, <1>6
  <2>2. place = 0
    BY ONLY <1>4, <2>1
  <2> QED
    BY ONLY <1>1, <1>6, <2>2 DEF Sent, Noted
<1> QED
  BY ONLY <1>5, <1>6

\* rtsp_get_connection tells whether a Connection header said "close".
LEMMA ConnectionRead ==
  ASSUME AllRead(rtsp, message)
  PROVE  rtsp_get_connection = CASE Sent("Connection") = NULL -> -1
                                 [] Sent("Connection") = <<"close">> -> 1
                                 [] OTHER -> 0
<1>1. PICK m, name, v : m = message /\ name = "Connection" /\ v = rtsp.connection_close
  OBVIOUS
<1>2. AllRead(rtsp, m)
  BY ONLY <1>1, AllRead(rtsp, message)
<1>3. DOMAIN m.headers = {Name(m, k) : k \in 1..HeaderCount(m)}
  BY ONLY <1>2, NamesSaid
<1>4. /\ \A i \in 1..HeaderCount(m) : Name(m, i) = name => v = Closes(m)[i]
      /\ (\A i \in 1..HeaderCount(m) : Name(m, i) # name) => v = -1
  <2>1. HeaderCount(m) \in Nat /\ Listed(rtsp, m, HeaderCount(m) + 1, m.layout.blank)
    BY ONLY <1>2, WholeLines
  <2>2. PICK n, k, given, none :
          n = HeaderCount(m) /\ k = HeaderCount(m) + 1 /\ given = Closes(m) /\ none = -1
    OBVIOUS
  <2>3. NotedAs(m, k, v, name, given, none)
    BY ONLY <1>1, <2>1, <2>2 DEF Listed
  <2>4. n \in Nat /\ k = n + 1
    BY ONLY <2>1, <2>2
  <2>5. NotedAll(m, n, v, name, given, none)
    BY ONLY <2>3, <2>4, NotedIs
  <2> QED
    BY ONLY <2>2, <2>5 DEF NotedAll
<1>5. PICK s : s = Sent("Connection")
  OBVIOUS
<1>6. NULL # <<"close">>
  BY DEF NULL, NUL
<1>7. v = IF s = NULL THEN -1 ELSE IF s = <<"close">> THEN 1 ELSE 0
  <2>1. CASE name \in DOMAIN m.headers
    <3>1. PICK k \in 1..HeaderCount(m) : Name(m, k) = name
      BY ONLY <1>3, <2>1
    <3>2. PICK h : h = m.layout.headers[k]
      OBVIOUS
    <3>3. v = IF Said(m, h.value) = <<"close">> THEN 1 ELSE 0
      BY ONLY <1>4, <3>1, <3>2 DEF Closes
    <3>4. m.headers[Name(m, k)] = Said(m, h.value) /\ Said(m, h.value) # NULL
      BY ONLY <1>2, <3>1, <3>2, HeaderSaid
    <3>5. s = Said(m, h.value)
      BY ONLY <1>1, <1>5, <2>1, <3>1, <3>4 DEF Sent
    <3> QED
      BY ONLY <3>3, <3>4, <3>5
  <2>2. CASE name \notin DOMAIN m.headers
    <3>1. \A k \in 1..HeaderCount(m) : Name(m, k) # name
      BY ONLY <1>3, <2>2
    <3>2. v = -1
      BY ONLY <1>4, <3>1
    <3>3. s = NULL
      BY ONLY <1>1, <1>5, <2>2 DEF Sent
    <3> QED
      BY ONLY <3>2, <3>3
  <2> QED
    BY ONLY <2>1, <2>2
<1>8. rtsp_get_connection = v
  BY ONLY <1>1 DEF rtsp_get_connection
<1>9. CASE s = NULL
  BY ONLY <1>5, <1>6, <1>7, <1>8, <1>9
<1>10. CASE s = <<"close">>
  BY ONLY <1>5, <1>6, <1>7, <1>8, <1>10
<1>11. CASE s # NULL /\ s # <<"close">>
  BY ONLY <1>5, <1>7, <1>8, <1>11
<1> QED
  BY ONLY <1>9, <1>10, <1>11

\* A reading that is done, of a well formed message that is not folded, is whole.
LEMMA DoneRead ==
  ASSUME MessageAssumption, GrammarAssumption, PInv, GInv, message.good, ~message.folded,
         ret = "done"
  PROVE  AllRead(rtsp, message)
<1>1. /\ message \in Message /\ Len(rtsp.raw) = fed /\ fed <= Len(message.text)
      /\ rtsp.server_mode = message.server_mode /\ Typed(rtsp) /\ Bounds(rtsp)
  BY ONLY PInv DEF PInv, Stored, raw_size
<1>2. WellFormed(message)
  BY ONLY <1>1, GrammarAssumption, message.good DEF GrammarAssumption
<1>3. Reading(rtsp, message) /\ rtsp.stateM = "DONE"
  BY ONLY GInv, message.good, ret = "done" DEF GInv
<1>4. BodyReading(rtsp, message)
  BY ONLY <1>3, ReadingBy
<1>5. message.text \in Seq(STRING)
  BY ONLY <1>1, MessageAssumption DEF MessageAssumption
<1>6. message.text \in Seq(Token)
  BY ONLY <1>5 DEF Token
<1>7. Len(message.text) \in Nat
  BY ONLY <1>5, LenProperties
<1>8. Len(rtsp.raw) = Len(message.text)
  BY ONLY <1>1, <1>3, <1>4, <1>7, DoneAtEnd
<1> QED
  BY ONLY <1>1, <1>2, <1>3, <1>4, <1>6, <1>8, ~message.folded DEF AllRead

\* GInv has what the run checks: the getters,
LEMMA MessageReadStep ==
  ASSUME MessageAssumption, GrammarAssumption, PInv, GInv
  PROVE  MessageRead
<1>1. SUFFICES ASSUME message.good, ~message.folded, ret = "done"
               PROVE  /\ IF rtsp.server_mode
                         THEN rtsp_get_request_method = message.method
                              /\ rtsp_get_request_uri = message.uri
                         ELSE rtsp_get_status_code = message.code
                              /\ rtsp_get_status_reason = message.reason
                      /\ rtsp_get_content = message.body
                      /\ HasLength(message) => rtsp_get_content_length = Len(message.body)
                      /\ \A n \in DOMAIN message.headers :
                           rtsp_get_header_by_name(n) = message.headers[n]
                      /\ rtsp_get_connection = CASE Sent("Connection") = NULL -> -1
                                                 [] Sent("Connection") = <<"close">> -> 1
                                                 [] OTHER -> 0
                      /\ rtsp_get_content_encoding  = Sent("Content-Encoding")
                      /\ rtsp_get_transfer_encoding = Sent("Transfer-Encoding")
                      /\ rtsp_get_cookie   = Sent("Set-Cookie")
                      /\ rtsp_get_location = Sent("Location")
  BY DEF MessageRead
<1>2. AllRead(rtsp, message)
  BY ONLY <1>1, MessageAssumption, GrammarAssumption, PInv, GInv, DoneRead
<1>3. IF rtsp.server_mode
      THEN rtsp_get_request_method = message.method /\ rtsp_get_request_uri = message.uri
      ELSE rtsp_get_status_code = message.code /\ rtsp_get_status_reason = message.reason
  BY ONLY <1>2, FirstLineSaid DEF rtsp_get_request_method, rtsp_get_request_uri,
          rtsp_get_status_code, rtsp_get_status_reason
<1>4. rtsp_get_content = message.body /\ rtsp_get_content_length = Len(message.body)
  BY ONLY <1>2, ContentRead DEF rtsp_get_content, rtsp_get_content_length, BodyEnd
<1>5. \A n \in DOMAIN message.headers : rtsp_get_header_by_name(n) = message.headers[n]
  BY ONLY <1>2, ByNameRead
<1>6. /\ NotedAs(message, HeaderCount(message) + 1, rtsp.content_encoding, "Content-Encoding",
                 Places(message), 0)
      /\ NotedAs(message, HeaderCount(message) + 1, rtsp.transfer_encoding, "Transfer-Encoding",
                 Places(message), 0)
      /\ NotedAs(message, HeaderCount(message) + 1, rtsp.cookie, "Set-Cookie", Places(message), 0)
      /\ NotedAs(message, HeaderCount(message) + 1, rtsp.location, "Location", Places(message), 0)
  <2>1. Listed(rtsp, message, HeaderCount(message) + 1, message.layout.blank)
    BY ONLY <1>2, WholeLines
  <2> QED
    BY ONLY <2>1 DEF Listed
<1>7. rtsp_get_content_encoding = Sent("Content-Encoding")
  BY ONLY <1>2, <1>6, NotedRead DEF rtsp_get_content_encoding
<1>8. rtsp_get_transfer_encoding = Sent("Transfer-Encoding")
  BY ONLY <1>2, <1>6, NotedRead DEF rtsp_get_transfer_encoding
<1>9. rtsp_get_cookie = Sent("Set-Cookie")
  BY ONLY <1>2, <1>6, NotedRead DEF rtsp_get_cookie
<1>10. rtsp_get_location = Sent("Location")
  BY ONLY <1>2, <1>6, NotedRead DEF rtsp_get_location
<1> QED
  BY ONLY <1>2, <1>3, <1>4, <1>5, <1>7, <1>8, <1>9, <1>10, ConnectionRead

\* and where "done" and "needmore" are said.
LEMMA DoneExactlyAtEndStep ==
  ASSUME MessageAssumption, PInv, GInv
  PROVE  DoneExactlyAtEnd
<1>1. SUFFICES ASSUME message.good, ret = "done" PROVE fed = Len(message.text)
  BY DEF GInv, DoneExactlyAtEnd
<1>2. /\ message \in Message /\ Len(rtsp.raw) = fed /\ fed <= Len(message.text)
      /\ Typed(rtsp) /\ Bounds(rtsp)
  BY ONLY PInv DEF PInv, Stored, raw_size
<1>3. Reading(rtsp, message) /\ rtsp.stateM = "DONE"
  BY ONLY <1>1, GInv DEF GInv
<1>4. BodyReading(rtsp, message)
  BY ONLY <1>3, ReadingBy
<1>5. message.text \in Seq(STRING)
  BY ONLY <1>2, MessageAssumption DEF MessageAssumption
<1>6. Len(message.text) \in Nat
  BY ONLY <1>5, LenProperties
<1> QED
  BY ONLY <1>2, <1>3, <1>4, <1>6, DoneAtEnd

\* rtsp_parser_input says "done" at the last byte of a well formed message, not before and
\* not later, whatever the message and wherever it is cut.
THEOREM DoneHolds == Spec => []DoneExactlyAtEnd
<1>1. PInv /\ GInv => DoneExactlyAtEnd
  BY DoneExactlyAtEndStep, MessageAssumption
<1> QED
  BY <1>1, PInvHolds, GInvHolds, PTL

\* The getters give what was sent, whatever the message and wherever it is cut.
THEOREM ReadHolds == Spec => []MessageRead
<1>1. PInv /\ GInv => MessageRead
  BY MessageReadStep, MessageAssumption, GrammarAssumption
<1> QED
  BY <1>1, PInvHolds, GInvHolds, PTL

\* No assert of the parsing fails on a well formed message.
THEOREM GoodHolds == Spec => []GoodIsParsed
<1>1. GInv => GoodIsParsed
  BY DEF GInv, GoodIsParsed
<1> QED
  BY <1>1, GInvHolds, PTL
=============================================================================
