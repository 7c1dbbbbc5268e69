-------------------------- MODULE RtspParserProofs --------------------------
(***************************************************************************)
(* The parser of RtspParser, for every message, well formed or not, and    *)
(* every cut of it: it stays within the text it has stored.                *)
(***************************************************************************)
EXTENDS RtspParser, SequenceTheorems, TLAPS

-----------------------------------------------------------------------------
(* The parser as a record, and what a turn of a line's loop makes of it.     *)

LineField == {"name", "value", "method", "uri", "reason"}

Shape(r) ==
  DOMAIN r = LineField \cup
    {"server_mode", "raw", "raw_capacity", "stateM", "offset", "code", "headers",
     "connection_close", "content_encoding", "content_length", "transfer_encoding",
     "cookie", "location", "chunk"}

\* What a stored text consists of: what was sent, and the blanks and NULs the parser puts.
Token == STRING \cup {SP, NUL}

HeaderType == [name : FieldType, value : FieldType]
ChunkType  == [offset : Nat, len : Nat, pos : Nat]

Typed(r) ==
  /\ Shape(r)
  /\ r.server_mode \in BOOLEAN
  /\ r.raw \in Seq(Token) /\ r.raw_capacity \in Nat
  /\ r.stateM \in LineState \cup HeaderState \cup ChunkState \cup {"DONE"}
  /\ r.offset \in Nat
  /\ r.name \in FieldType /\ r.value \in FieldType
  /\ r.method \in FieldType /\ r.uri \in FieldType /\ r.reason \in FieldType
  /\ r.headers \in Seq(HeaderType)
  /\ r.content_length \in Nat \cup {-1}
  /\ r.transfer_encoding \in Nat
  /\ r.chunk \in ChunkType

\* What a turn of a line's loop leaves alone.
SameRest ==
  /\ DOMAIN rtsp' = DOMAIN rtsp
  /\ rtsp'.server_mode = rtsp.server_mode
  /\ rtsp'.raw = rtsp.raw /\ rtsp'.raw_capacity = rtsp.raw_capacity
  /\ rtsp'.code = rtsp.code /\ rtsp'.headers = rtsp.headers
  /\ rtsp'.connection_close = rtsp.connection_close
  /\ rtsp'.content_encoding = rtsp.content_encoding
  /\ rtsp'.content_length = rtsp.content_length
  /\ rtsp'.transfer_encoding = rtsp.transfer_encoding
  /\ rtsp'.cookie = rtsp.cookie /\ rtsp'.location = rtsp.location
  /\ rtsp'.chunk = rtsp.chunk

\* The turn leads to state s, over d tokens, and changes no field but those of F.
Turned(s, d, F) ==
  /\ SameRest
  /\ rtsp'.stateM = s /\ rtsp'.offset = rtsp.offset + d
  /\ "name" \notin F => rtsp'.name = rtsp.name
  /\ "value" \notin F => rtsp'.value = rtsp.value
  /\ "method" \notin F => rtsp'.method = rtsp.method
  /\ "uri" \notin F => rtsp'.uri = rtsp.uri
  /\ "reason" \notin F => rtsp'.reason = rtsp.reason

\* A turn that begins field f, or ends it.
Begun(s, f) ==
  Turned(s, 0, {f}) /\ rtsp'[f] = [pos |-> rtsp.offset, len |-> rtsp[f].len]
Ended(s, f) ==
  Turned(s, 0, {f}) /\ rtsp'[f] = [pos |-> rtsp[f].pos, len |-> rtsp.offset - rtsp[f].pos]

\* Move changes the state and the offset.
LEMMA Moved ==
  ASSUME Typed(rtsp), NEW s, NEW d, NEW q, q = Move(s, d)
  PROVE  /\ DOMAIN q = DOMAIN rtsp /\ q.stateM = s /\ q.offset = rtsp.offset + d
         /\ \A g \in DOMAIN rtsp : g \notin {"stateM", "offset"} => q[g] = rtsp[g]
BY DEF Typed, Shape, Move

\* A turn that only moves.
LEMMA MoveTurns ==
  ASSUME Typed(rtsp), NEW s, NEW d, rtsp' = Move(s, d)
  PROVE  Turned(s, d, {})
BY DEF Typed, Shape, LineField, Move, Turned, SameRest

\* One component of one field is set.
LEMMA SetField ==
  ASSUME NEW q, NEW f \in DOMAIN q, NEW n, NEW w
  PROVE  LET p == [q EXCEPT ![f][w] = n] IN
         /\ DOMAIN p = DOMAIN q
         /\ p[f] = [q[f] EXCEPT ![w] = n]
         /\ \A g \in DOMAIN q : g # f => p[g] = q[g]
OBVIOUS

\* A field with its place, or its length, set.
LEMMA FieldPos ==
  ASSUME NEW f \in FieldType, NEW n
  PROVE  [f EXCEPT !.pos = n] = [pos |-> n, len |-> f.len]
BY DEF FieldType

\* The same for the length.
LEMMA FieldLen ==
  ASSUME NEW f \in FieldType, NEW n
  PROVE  [f EXCEPT !.len = n] = [pos |-> f.pos, len |-> n]
BY DEF FieldType

\* A turn that sets one component of one field changes nothing else.
LEMMA SetTurns ==
  ASSUME Typed(rtsp), NEW s, NEW d, NEW q, q = Move(s, d), NEW f \in LineField, NEW w, NEW n,
         rtsp' = [q EXCEPT ![f][w] = n]
  PROVE  Turned(s, d, {f})
<1>2. /\ DOMAIN q = DOMAIN rtsp /\ q.stateM = s /\ q.offset = rtsp.offset + d
      /\ \A g \in DOMAIN rtsp : g \notin {"stateM", "offset"} => q[g] = rtsp[g]
  BY Moved
<1>3. f \in DOMAIN q
  BY <1>2, Typed(rtsp) DEF Typed, Shape, LineField
<1>4. /\ DOMAIN rtsp' = DOMAIN q
      /\ \A g \in DOMAIN q : g # f => rtsp'[g] = q[g]
  BY ONLY <1>3, SetField, rtsp' = [q EXCEPT ![f][w] = n]
<1>5. \A g \in DOMAIN rtsp : g \notin {"stateM", "offset", f} => rtsp'[g] = rtsp[g]
  BY ONLY <1>2, <1>4
<1>6. rtsp'.stateM = s /\ rtsp'.offset = rtsp.offset + d
  BY ONLY <1>2, <1>4, Typed(rtsp), f \in LineField DEF Typed, Shape, LineField
<1>7. DOMAIN rtsp' = DOMAIN rtsp
  BY ONLY <1>2, <1>4
<1> QED
  BY ONLY <1>5, <1>6, <1>7, Typed(rtsp), f \in LineField
  DEF Typed, Shape, LineField, Turned, SameRest

\* It sets a place,
LEMMA SetsPos ==
  ASSUME Typed(rtsp), NEW s, NEW d, NEW q, q = Move(s, d), NEW f \in LineField, NEW n,
         rtsp' = [q EXCEPT ![f].pos = n]
  PROVE  rtsp'[f] = [pos |-> n, len |-> rtsp[f].len]
<1>1. /\ DOMAIN q = DOMAIN rtsp
      /\ \A g \in DOMAIN rtsp : g \notin {"stateM", "offset"} => q[g] = rtsp[g]
  BY Moved
<1>2. f \in DOMAIN q /\ q[f] = rtsp[f] /\ rtsp[f] \in FieldType
  BY <1>1, Typed(rtsp) DEF Typed, Shape, LineField
<1>3. rtsp'[f] = [rtsp[f] EXCEPT !.pos = n]
  BY ONLY <1>2, rtsp' = [q EXCEPT ![f].pos = n]
<1> QED
  BY ONLY <1>2, <1>3, FieldPos

\* or a length.
LEMMA SetsLen ==
  ASSUME Typed(rtsp), NEW s, NEW d, NEW q, q = Move(s, d), NEW f \in LineField, NEW n,
         rtsp' = [q EXCEPT ![f].len = n]
  PROVE  rtsp'[f] = [pos |-> rtsp[f].pos, len |-> n]
<1>1. /\ DOMAIN q = DOMAIN rtsp
      /\ \A g \in DOMAIN rtsp : g \notin {"stateM", "offset"} => q[g] = rtsp[g]
  BY Moved
<1>2. f \in DOMAIN q /\ q[f] = rtsp[f] /\ rtsp[f] \in FieldType
  BY <1>1, Typed(rtsp) DEF Typed, Shape, LineField
<1>3. rtsp'[f] = [rtsp[f] EXCEPT !.len = n]
  BY ONLY <1>2, rtsp' = [q EXCEPT ![f].len = n]
<1> QED
  BY ONLY <1>2, <1>3, FieldLen

\* A field begins where the parser is.
LEMMA FieldBegins ==
  ASSUME Typed(rtsp), NEW s, NEW f \in LineField,
         rtsp' = [Move(s, 0) EXCEPT ![f].pos = rtsp.offset]
  PROVE  Begun(s, f)
<1>1. rtsp[f] \in FieldType
  BY DEF Typed, LineField
<1>2. PICK n, q, d : n = rtsp.offset /\ d = 0 /\ q = Move(s, d)
  OBVIOUS
<1>3. rtsp' = [q EXCEPT ![f]["pos"] = n]
  BY <1>2
<1>4. Turned(s, d, {f})
  BY ONLY <1>2, <1>3, Typed(rtsp), f \in LineField, SetTurns
<1>5. rtsp'[f] = [pos |-> n, len |-> rtsp[f].len]
  BY ONLY <1>2, <1>3, Typed(rtsp), f \in LineField, SetsPos
<1> QED
  BY <1>1, <1>2, <1>4, <1>5 DEF Begun

\* A field ends where the parser is.
LEMMA FieldEnds ==
  ASSUME Typed(rtsp), NEW s, NEW f \in LineField,
         rtsp' = [Move(s, 0) EXCEPT ![f].len = rtsp.offset - rtsp[f].pos]
  PROVE  Ended(s, f)
<1>1. rtsp[f] \in FieldType
  BY DEF Typed, LineField
<1>2. PICK n, q, d : n = rtsp.offset - rtsp[f].pos /\ d = 0 /\ q = Move(s, d)
  OBVIOUS
<1>3. rtsp' = [q EXCEPT ![f]["len"] = n]
  BY <1>2
<1>4. Turned(s, d, {f})
  BY ONLY <1>2, <1>3, Typed(rtsp), f \in LineField, SetTurns
<1>5. rtsp'[f] = [pos |-> rtsp[f].pos, len |-> n]
  BY ONLY <1>2, <1>3, Typed(rtsp), f \in LineField, SetsLen
<1> QED
  BY <1>1, <1>2, <1>4, <1>5 DEF Ended

-----------------------------------------------------------------------------
(* A turn of a line's loop in each of its states.                            *)

\* STATUS_START: blanks before the line.
LEMMA StatusStartTurn ==
  ASSUME Typed(rtsp), NEW st, st = "STATUS_START", NEW c, LineTurn(st, c)
  PROVE  \/ c = SP /\ Turned("STATUS_START", 1, {})
         \/ c # SP /\ Begun("STATUS_VERSION", "name")
<1>1. \/ c = SP /\ rtsp' = Move("STATUS_START", 1)
      \/ c # SP /\ rtsp' = [Move("STATUS_VERSION", 0) EXCEPT !["name"].pos = rtsp.offset]
  BY DEF LineTurn, NextState, Field, LastField, SkipStates, RestStates
<1> QED
  BY ONLY <1>1, Typed(rtsp), MoveTurns, FieldBegins DEF LineField

\* STATUS_VERSION: the version.
LEMMA StatusVersionTurn ==
  ASSUME Typed(rtsp), NEW st, st = "STATUS_VERSION", NEW c, LineTurn(st, c)
  PROVE  \/ c \in {SP, CR, LF} /\ Ended("STATUS_SP1", "name")
         \/ c \notin {SP, CR, LF} /\ Turned("STATUS_VERSION", 1, {})
<1>1. \/ c \in {SP, CR, LF}
         /\ rtsp' = [Move("STATUS_SP1", 0) EXCEPT !["name"].len = rtsp.offset - rtsp["name"].pos]
      \/ c \notin {SP, CR, LF} /\ rtsp' = Move("STATUS_VERSION", 1)
  BY DEF LineTurn, NextState, Field, LastField, SkipStates, RestStates
<1> QED
  BY ONLY <1>1, Typed(rtsp), MoveTurns, FieldEnds DEF LineField

\* STATUS_SP1: blanks before the second word.
LEMMA StatusSp1Turn ==
  ASSUME Typed(rtsp), NEW st, st = "STATUS_SP1", NEW c, LineTurn(st, c)
  PROVE  \/ c = SP /\ Turned("STATUS_SP1", 1, {})
         \/ c # SP /\ Begun("STATUS_CODE", "value")
<1>1. \/ c = SP /\ rtsp' = Move("STATUS_SP1", 1)
      \/ c # SP /\ rtsp' = [Move("STATUS_CODE", 0) EXCEPT !["value"].pos = rtsp.offset]
  BY DEF LineTurn, NextState, Field, LastField, SkipStates, RestStates
<1> QED
  BY ONLY <1>1, Typed(rtsp), MoveTurns, FieldBegins DEF LineField

\* STATUS_CODE: the status code.
LEMMA StatusCodeTurn ==
  ASSUME Typed(rtsp), NEW st, st = "STATUS_CODE", NEW c, LineTurn(st, c)
  PROVE  \/ c \in {SP, CR, LF} /\ Ended("STATUS_SP2", "value")
         \/ c \notin {SP, CR, LF} /\ Turned("STATUS_CODE", 1, {})
<1>1. \/ c \in {SP, CR, LF}
         /\ rtsp' = [Move("STATUS_SP2", 0) EXCEPT !["value"].len = rtsp.offset - rtsp["value"].pos]
      \/ c \notin {SP, CR, LF} /\ rtsp' = Move("STATUS_CODE", 1)
  BY DEF LineTurn, NextState, Field, LastField, SkipStates, RestStates
<1> QED
  BY ONLY <1>1, Typed(rtsp), MoveTurns, FieldEnds DEF LineField

\* STATUS_SP2: blanks before the third word.
LEMMA StatusSp2Turn ==
  ASSUME Typed(rtsp), NEW st, st = "STATUS_SP2", NEW c, LineTurn(st, c)
  PROVE  \/ c = SP /\ Turned("STATUS_SP2", 1, {})
         \/ c # SP /\ Begun("STATUS_REASON", "reason")
<1>1. \/ c = SP /\ rtsp' = Move("STATUS_SP2", 1)
      \/ c # SP /\ rtsp' = [Move("STATUS_REASON", 0) EXCEPT !["reason"].pos = rtsp.offset]
  BY DEF LineTurn, NextState, Field, LastField, SkipStates, RestStates
<1> QED
  BY ONLY <1>1, Typed(rtsp), MoveTurns, FieldBegins DEF LineField

\* STATUS_REASON: the reason.
LEMMA StatusReasonTurn ==
  ASSUME Typed(rtsp), NEW st, st = "STATUS_REASON", NEW c, LineTurn(st, c)
  PROVE  \/ c \in {SP, CR, LF} /\ Ended("STATUS_SP3", "reason")
         \/ c \notin {SP, CR, LF} /\ Turned("STATUS_REASON", 1, {})
<1>1. \/ c \in {SP, CR, LF}
         /\ rtsp' = [Move("STATUS_SP3", 0) EXCEPT !["reason"].len = rtsp.offset - rtsp["reason"].pos]
      \/ c \notin {SP, CR, LF} /\ rtsp' = Move("STATUS_REASON", 1)
  BY DEF LineTurn, NextState, Field, LastField, SkipStates, RestStates
<1> QED
  BY ONLY <1>1, Typed(rtsp), MoveTurns, FieldEnds DEF LineField

\* STATUS_SP3: behind a word of the last field.
LEMMA StatusSp3Turn ==
  ASSUME Typed(rtsp), NEW st, st = "STATUS_SP3", NEW c, LineTurn(st, c)
  PROVE  \/ c = SP /\ Turned("STATUS_SP3", 1, {})
         \/ c = CR /\ Turned("STATUS_CR", 1, {})
         \/ c = LF /\ Turned("STATUS_LF", 0, {})
         \/ c \notin {SP, CR, LF} /\ Turned("STATUS_REASON", 1, {})
<1>1. \/ c = SP /\ rtsp' = Move("STATUS_SP3", 1)
      \/ c = CR /\ rtsp' = Move("STATUS_CR", 1)
      \/ c = LF /\ rtsp' = Move("STATUS_LF", 0)
      \/ c \notin {SP, CR, LF} /\ rtsp' = Move("STATUS_REASON", 1)
  BY DEF LineTurn, NextState, Field, LastField, SkipStates, RestStates
<1> QED
  BY ONLY <1>1, Typed(rtsp), MoveTurns DEF LineField

\* REQUEST_START: blanks before the line.
LEMMA RequestStartTurn ==
  ASSUME Typed(rtsp), NEW st, st = "REQUEST_START", NEW c, LineTurn(st, c)
  PROVE  \/ c = SP /\ Turned("REQUEST_START", 1, {})
         \/ c # SP /\ Begun("REQUEST_METHOD", "method")
<1>1. \/ c = SP /\ rtsp' = Move("REQUEST_START", 1)
      \/ c # SP /\ rtsp' = [Move("REQUEST_METHOD", 0) EXCEPT !["method"].pos = rtsp.offset]
  BY DEF LineTurn, NextState, Field, LastField, SkipStates, RestStates
<1> QED
  BY ONLY <1>1, Typed(rtsp), MoveTurns, FieldBegins DEF LineField

\* REQUEST_METHOD: the method.
LEMMA RequestMethodTurn ==
  ASSUME Typed(rtsp), NEW st, st = "REQUEST_METHOD", NEW c, LineTurn(st, c)
  PROVE  \/ c \in {SP, CR, LF} /\ Ended("REQUEST_SP1", "method")
         \/ c \notin {SP, CR, LF} /\ Turned("REQUEST_METHOD", 1, {})
<1>1. \/ c \in {SP, CR, LF}
         /\ rtsp' = [Move("REQUEST_SP1", 0) EXCEPT !["method"].len = rtsp.offset - rtsp["method"].pos]
      \/ c \notin {SP, CR, LF} /\ rtsp' = Move("REQUEST_METHOD", 1)
  BY DEF LineTurn, NextState, Field, LastField, SkipStates, RestStates
<1> QED
  BY ONLY <1>1, Typed(rtsp), MoveTurns, FieldEnds DEF LineField

\* REQUEST_SP1: blanks before the second word.
LEMMA RequestSp1Turn ==
  ASSUME Typed(rtsp), NEW st, st = "REQUEST_SP1", NEW c, LineTurn(st, c)
  PROVE  \/ c = SP /\ Turned("REQUEST_SP1", 1, {})
         \/ c # SP /\ Begun("REQUEST_URI", "uri")
<1>1. \/ c = SP /\ rtsp' = Move("REQUEST_SP1", 1)
      \/ c # SP /\ rtsp' = [Move("REQUEST_URI", 0) EXCEPT !["uri"].pos = rtsp.offset]
  BY DEF LineTurn, NextState, Field, LastField, SkipStates, RestStates
<1> QED
  BY ONLY <1>1, Typed(rtsp), MoveTurns, FieldBegins DEF LineField

\* REQUEST_URI: the URI.
LEMMA RequestUriTurn ==
  ASSUME Typed(rtsp), NEW st, st = "REQUEST_URI", NEW c, LineTurn(st, c)
  PROVE  \/ c \in {SP, CR, LF} /\ Ended("REQUEST_SP2", "uri")
         \/ c \notin {SP, CR, LF} /\ Turned("REQUEST_URI", 1, {})
<1>1. \/ c \in {SP, CR, LF}
         /\ rtsp' = [Move("REQUEST_SP2", 0) EXCEPT !["uri"].len = rtsp.offset - rtsp["uri"].pos]
      \/ c \notin {SP, CR, LF} /\ rtsp' = Move("REQUEST_URI", 1)
  BY DEF LineTurn, NextState, Field, LastField, SkipStates, RestStates
<1> QED
  BY ONLY <1>1, Typed(rtsp), MoveTurns, FieldEnds DEF LineField

\* REQUEST_SP2: blanks before the third word.
LEMMA RequestSp2Turn ==
  ASSUME Typed(rtsp), NEW st, st = "REQUEST_SP2", NEW c, LineTurn(st, c)
  PROVE  \/ c = SP /\ Turned("REQUEST_SP2", 1, {})
         \/ c # SP /\ Begun("REQUEST_VERSION", "name")
<1>1. \/ c = SP /\ rtsp' = Move("REQUEST_SP2", 1)
      \/ c # SP /\ rtsp' = [Move("REQUEST_VERSION", 0) EXCEPT !["name"].pos = rtsp.offset]
  BY DEF LineTurn, NextState, Field, LastField, SkipStates, RestStates
<1> QED
  BY ONLY <1>1, Typed(rtsp), MoveTurns, FieldBegins DEF LineField

\* REQUEST_VERSION: the version.
LEMMA RequestVersionTurn ==
  ASSUME Typed(rtsp), NEW st, st = "REQUEST_VERSION", NEW c, LineTurn(st, c)
  PROVE  \/ c \in {SP, CR, LF} /\ Ended("REQUEST_SP3", "name")
         \/ c \notin {SP, CR, LF} /\ Turned("REQUEST_VERSION", 1, {})
<1>1. \/ c \in {SP, CR, LF}
         /\ rtsp' = [Move("REQUEST_SP3", 0) EXCEPT !["name"].len = rtsp.offset - rtsp["name"].pos]
      \/ c \notin {SP, CR, LF} /\ rtsp' = Move("REQUEST_VERSION", 1)
  BY DEF LineTurn, NextState, Field, LastField, SkipStates, RestStates
<1> QED
  BY ONLY <1>1, Typed(rtsp), MoveTurns, FieldEnds DEF LineField

\* REQUEST_SP3: behind a word of the last field.
LEMMA RequestSp3Turn ==
  ASSUME Typed(rtsp), NEW st, st = "REQUEST_SP3", NEW c, LineTurn(st, c)
  PROVE  \/ c = SP /\ Turned("REQUEST_SP3", 1, {})
         \/ c = CR /\ Turned("REQUEST_CR", 1, {})
         \/ c = LF /\ Turned("REQUEST_LF", 0, {})
         \/ c \notin {SP, CR, LF} /\ Turned("REQUEST_VERSION", 1, {})
<1>1. \/ c = SP /\ rtsp' = Move("REQUEST_SP3", 1)
      \/ c = CR /\ rtsp' = Move("REQUEST_CR", 1)
      \/ c = LF /\ rtsp' = Move("REQUEST_LF", 0)
      \/ c \notin {SP, CR, LF} /\ rtsp' = Move("REQUEST_VERSION", 1)
  BY DEF LineTurn, NextState, Field, LastField, SkipStates, RestStates
<1> QED
  BY ONLY <1>1, Typed(rtsp), MoveTurns DEF LineField

\* HEADER_NAME: a header's name.
LEMMA HeaderNameTurn ==
  ASSUME Typed(rtsp), NEW st, st = "HEADER_NAME", NEW c, LineTurn(st, c)
  PROVE  \/ c \in {SP, CR, LF, COLON} /\ Ended("HEADER_SP1", "name")
         \/ c \notin {SP, CR, LF, COLON} /\ Turned("HEADER_NAME", 1, {})
<1>1. \/ c \in {SP, CR, LF, COLON}
         /\ rtsp' = [Move("HEADER_SP1", 0) EXCEPT !["name"].len = rtsp.offset - rtsp["name"].pos]
      \/ c \notin {SP, CR, LF, COLON} /\ rtsp' = Move("HEADER_NAME", 1)
  BY DEF LineTurn, NextState, Field, LastField, SkipStates, RestStates
<1> QED
  BY ONLY <1>1, Typed(rtsp), MoveTurns, FieldEnds DEF LineField

\* HEADER_SP1: blanks before the colon.
LEMMA HeaderSp1Turn ==
  ASSUME Typed(rtsp), NEW st, st = "HEADER_SP1", NEW c, LineTurn(st, c)
  PROVE  \/ c = SP /\ Turned("HEADER_SP1", 1, {})
         \/ c # SP /\ Turned("HEADER_SEPARATOR", 0, {})
<1>1. \/ c = SP /\ rtsp' = Move("HEADER_SP1", 1)
      \/ c # SP /\ rtsp' = Move("HEADER_SEPARATOR", 0)
  BY DEF LineTurn, NextState, Field, LastField, SkipStates, RestStates
<1> QED
  BY ONLY <1>1, Typed(rtsp), MoveTurns DEF LineField

\* HEADER_SP2: blanks before the value.
LEMMA HeaderSp2Turn ==
  ASSUME Typed(rtsp), NEW st, st = "HEADER_SP2", NEW c, LineTurn(st, c)
  PROVE  \/ c = SP /\ Turned("HEADER_SP2", 1, {})
         \/ c # SP /\ Begun("HEADER_VALUE", "value")
<1>1. \/ c = SP /\ rtsp' = Move("HEADER_SP2", 1)
      \/ c # SP /\ rtsp' = [Move("HEADER_VALUE", 0) EXCEPT !["value"].pos = rtsp.offset]
  BY DEF LineTurn, NextState, Field, LastField, SkipStates, RestStates
<1> QED
  BY ONLY <1>1, Typed(rtsp), MoveTurns, FieldBegins DEF LineField

\* HEADER_VALUE: a header's value.
LEMMA HeaderValueTurn ==
  ASSUME Typed(rtsp), NEW st, st = "HEADER_VALUE", NEW c, LineTurn(st, c)
  PROVE  \/ c \in {SP, CR, LF} /\ Ended("HEADER_SP3", "value")
         \/ c \notin {SP, CR, LF} /\ Turned("HEADER_VALUE", 1, {})
<1>1. \/ c \in {SP, CR, LF}
         /\ rtsp' = [Move("HEADER_SP3", 0) EXCEPT !["value"].len = rtsp.offset - rtsp["value"].pos]
      \/ c \notin {SP, CR, LF} /\ rtsp' = Move("HEADER_VALUE", 1)
  BY DEF LineTurn, NextState, Field, LastField, SkipStates, RestStates
<1> QED
  BY ONLY <1>1, Typed(rtsp), MoveTurns, FieldEnds DEF LineField

\* HEADER_SP3: behind a word of the last field.
LEMMA HeaderSp3Turn ==
  ASSUME Typed(rtsp), NEW st, st = "HEADER_SP3", NEW c, LineTurn(st, c)
  PROVE  \/ c = SP /\ Turned("HEADER_SP3", 1, {})
         \/ c = CR /\ Turned("HEADER_CR", 1, {})
         \/ c = LF /\ Turned("HEADER_LF", 0, {})
         \/ c \notin {SP, CR, LF} /\ Turned("HEADER_VALUE", 1, {})
<1>1. \/ c = SP /\ rtsp' = Move("HEADER_SP3", 1)
      \/ c = CR /\ rtsp' = Move("HEADER_CR", 1)
      \/ c = LF /\ rtsp' = Move("HEADER_LF", 0)
      \/ c \notin {SP, CR, LF} /\ rtsp' = Move("HEADER_VALUE", 1)
  BY DEF LineTurn, NextState, Field, LastField, SkipStates, RestStates
<1> QED
  BY ONLY <1>1, Typed(rtsp), MoveTurns DEF LineField
-----------------------------------------------------------------------------
(* The inductive invariant: for each state, which fields lie behind the      *)
(* parser, and which only begin there.                                       *)

\* The states in which a field is behind the parser, once it has been measured.
NameBehind   == {"STATUS_SP1", "STATUS_CODE", "STATUS_SP2", "STATUS_REASON", "STATUS_SP3",
                 "STATUS_CR", "STATUS_LF", "REQUEST_SP3", "REQUEST_CR", "REQUEST_LF"}
                  \cup (HeaderState \ {"HEADER_NAME"})
ValueBehind  == {"STATUS_SP2", "STATUS_REASON", "STATUS_SP3", "STATUS_CR", "STATUS_LF"}
ReasonBehind == {"STATUS_SP3", "STATUS_CR", "STATUS_LF"}
MethodBehind == {"REQUEST_SP1", "REQUEST_URI", "REQUEST_SP2", "REQUEST_VERSION",
                 "REQUEST_SP3", "REQUEST_CR", "REQUEST_LF"}
UriBehind    == {"REQUEST_SP2", "REQUEST_VERSION", "REQUEST_SP3", "REQUEST_CR", "REQUEST_LF"}
ValueKnown   == {"HEADER_VALUE", "HEADER_SP3", "HEADER_CR", "HEADER_LF"}

\* The field the state measures began at or before the parser.
OpenField(r) ==
  /\ r.stateM \in {"STATUS_VERSION", "REQUEST_VERSION", "HEADER_NAME"} => r.name.pos <= r.offset
  /\ r.stateM \in {"STATUS_CODE", "HEADER_VALUE"} => r.value.pos <= r.offset
  /\ r.stateM = "STATUS_REASON"  => r.reason.pos <= r.offset
  /\ r.stateM = "REQUEST_METHOD" => r.method.pos <= r.offset
  /\ r.stateM = "REQUEST_URI"    => r.uri.pos <= r.offset

\* A measured field ends at or before it.
ClosedFields(r) ==
  /\ r.stateM \in NameBehind   => End(r.name) <= r.offset
  /\ r.stateM \in ValueBehind  => End(r.value) <= r.offset
  /\ r.stateM \in ValueKnown \ {"HEADER_VALUE"} => r.value.pos = 0 \/ End(r.value) <= r.offset
  /\ r.stateM \in ReasonBehind => End(r.reason) <= r.offset
  /\ r.stateM \in MethodBehind => End(r.method) <= r.offset
  /\ r.stateM \in UriBehind    => End(r.uri) <= r.offset

\* Each mode has its own first line, and what that line said ends before the headers.
FirstLine(r) ==
  /\ r.stateM \in StatusState  => ~r.server_mode
  /\ r.stateM \in RequestState => r.server_mode
  /\ r.stateM \notin LineState =>
       IF r.server_mode THEN End(r.method) < r.offset /\ End(r.uri) < r.offset
       ELSE End(r.reason) < r.offset
  /\ r.stateM \in LineState => r.headers = <<>> /\ r.transfer_encoding = 0

\* The headers that have been read end before the line being read, and before its value.
HeadersBehind(r) ==
  /\ \A i \in DOMAIN r.headers :
       /\ End(r.headers[i].name) < r.offset /\ End(r.headers[i].value) < r.offset
       /\ r.stateM \in ValueKnown => r.value.pos = 0 \/ r.headers[i].value.pos <= r.value.pos
  /\ r.transfer_encoding = 0 \/ r.transfer_encoding < r.offset

\* The body is measured once: by its length, or chunk by chunk, and the chunks taken end
\* before the chunk that is read.
BodyBehind(r) ==
  /\ r.stateM \in LineState \cup HeaderState => r.chunk.offset = 0
  /\ r.stateM \in ChunkState \ {"CHUNK_START"} => r.chunk.offset # 0
  /\ r.chunk.offset = 0 /\ r.stateM # "DONE" /\ is_transfer_encoding_chunked(r)
       => r.content_length = -1
  /\ r.chunk.offset # 0 =>
       /\ r.content_length \in Nat
       /\ r.offset + r.content_length <= r.chunk.offset /\ r.chunk.offset <= Len(r.raw)
  /\ r.stateM = "CHUNK_DATA" => r.chunk.pos = r.chunk.offset
  /\ r.stateM = "DONE" => r.offset + r.content_length <= Len(r.raw)
  /\ r.chunk.pos <= Len(r.raw)

Bounds(r) ==
  /\ r.offset <= Len(r.raw)
  /\ OpenField(r) /\ ClosedFields(r) /\ FirstLine(r) /\ HeadersBehind(r) /\ BodyBehind(r)

\* What the calls of rtsp_parser_input keep of the text they were given.
Stored ==
  /\ message \in Message /\ fed \in Nat /\ fed <= Len(message.text)
  /\ ret \in {"none", "running", "needmore", "done", "store assert", "parse assert", "overrun"}
  /\ raw_size = fed
  /\ raw_size = 0 \/ raw_size < rtsp.raw_capacity
  /\ rtsp.server_mode = message.server_mode

PInv == Stored /\ Typed(rtsp) /\ Bounds(rtsp)
-----------------------------------------------------------------------------
(* The line's loops keep the fields behind the parser.                       *)

\* The numbers of a line.
Nums(r) ==
  /\ r.offset \in Nat
  /\ r.name.pos \in Nat /\ r.name.len \in Nat
  /\ r.value.pos \in Nat /\ r.value.len \in Nat
  /\ r.method.pos \in Nat /\ r.method.len \in Nat
  /\ r.uri.pos \in Nat /\ r.uri.len \in Nat
  /\ r.reason.pos \in Nat /\ r.reason.len \in Nat

\* A typed parser's numbers are naturals.
LEMMA TypedNums ==
  ASSUME NEW r, Typed(r)
  PROVE  Nums(r) /\ r.name \in FieldType /\ r.value \in FieldType /\ r.method \in FieldType
         /\ r.uri \in FieldType /\ r.reason \in FieldType
BY DEF Typed, Nums, FieldType

\* Where a turn of a line's loop may lead, and what it may set.
TurnKeeps ==
  /\ SameRest
  /\ rtsp'.offset \in {rtsp.offset, rtsp.offset + 1}
  /\ rtsp.stateM \in StatusState  => rtsp'.stateM \in StatusState
  /\ rtsp.stateM \in RequestState => rtsp'.stateM \in RequestState
  /\ rtsp.stateM \in HeaderState =>
       /\ rtsp'.stateM \in HeaderState
       /\ rtsp'.method = rtsp.method /\ rtsp'.uri = rtsp.uri /\ rtsp'.reason = rtsp.reason
       /\ rtsp'.stateM \in ValueKnown =>
            rtsp'.value.pos = rtsp.offset
            \/ rtsp'.value.pos = 0
            \/ (rtsp.stateM \in ValueKnown /\ rtsp'.value.pos = rtsp.value.pos)
  /\ rtsp'.name \in FieldType /\ rtsp'.value \in FieldType /\ rtsp'.method \in FieldType
  /\ rtsp'.uri \in FieldType /\ rtsp'.reason \in FieldType

\* A turn of a line's loop, in any of its states.
LEMMA LineTurnFields ==
  ASSUME Typed(rtsp), OpenField(rtsp), ClosedFields(rtsp), NEW st, st = rtsp.stateM, NEW c,
         LineTurn(st, c)
  PROVE  TurnKeeps /\ OpenField(rtsp') /\ ClosedFields(rtsp')
<1>0. /\ st \in SkipStates \cup RestStates \cup DOMAIN Field
      /\ Nums(rtsp) /\ rtsp.name \in FieldType /\ rtsp.value \in FieldType
      /\ rtsp.method \in FieldType /\ rtsp.uri \in FieldType /\ rtsp.reason \in FieldType
  BY TypedNums DEF LineTurn
<1>1. CASE st = "STATUS_START"
  <2>1. \/ c = SP /\ Turned("STATUS_START", 1, {})
        \/ c # SP /\ Begun("STATUS_VERSION", "name")
    BY ONLY Typed(rtsp), LineTurn(st, c), <1>1, StatusStartTurn
  <2>2. OpenField(rtsp') /\ ClosedFields(rtsp')
    BY ONLY <1>0, <1>1, <2>1, OpenField(rtsp), ClosedFields(rtsp), st = rtsp.stateM
    DEF Turned, Begun, Ended, OpenField, ClosedFields, Nums, End, NameBehind, ValueBehind,
        ReasonBehind, MethodBehind, UriBehind, ValueKnown, HeaderState
  <2>3. TurnKeeps
    BY ONLY <1>0, <1>1, <2>1, OpenField(rtsp), st = rtsp.stateM
    DEF Turned, Begun, Ended, OpenField, TurnKeeps, Nums, FieldType, ValueKnown,
        StatusState, RequestState, HeaderState
  <2> QED
    BY ONLY <2>2, <2>3
<1>2. CASE st = "STATUS_VERSION"
  <2>1. \/ c \in {SP, CR, LF} /\ Ended("STATUS_SP1", "name")
        \/ c \notin {SP, CR, LF} /\ Turned("STATUS_VERSION", 1, {})
    BY ONLY Typed(rtsp), LineTurn(st, c), <1>2, StatusVersionTurn
  <2>2. OpenField(rtsp') /\ ClosedFields(rtsp')
    BY ONLY <1>0, <1>2, <2>1, OpenField(rtsp), ClosedFields(rtsp), st = rtsp.stateM
    DEF Turned, Begun, Ended, OpenField, ClosedFields, Nums, End, NameBehind, ValueBehind,
        ReasonBehind, MethodBehind, UriBehind, ValueKnown, HeaderState
  <2>3. TurnKeeps
    BY ONLY <1>0, <1>2, <2>1, OpenField(rtsp), st = rtsp.stateM
    DEF Turned, Begun, Ended, OpenField, TurnKeeps, Nums, FieldType, ValueKnown,
        StatusState, RequestState, HeaderState
  <2> QED
    BY ONLY <2>2, <2>3
<1>3. CASE st = "STATUS_SP1"
  <2>1. \/ c = SP /\ Turned("STATUS_SP1", 1, {})
        \/ c # SP /\ Begun("STATUS_CODE", "value")
    BY ONLY Typed(rtsp), LineTurn(st, c), <1>3, StatusSp1Turn
  <2>2. OpenField(rtsp') /\ ClosedFields(rtsp')
    BY ONLY <1>0, <1>3, <2>1, OpenField(rtsp), ClosedFields(rtsp), st = rtsp.stateM
    DEF Turned, Begun, Ended, OpenField, ClosedFields, Nums, End, NameBehind, ValueBehind,
        ReasonBehind, MethodBehind, UriBehind, ValueKnown, HeaderState
  <2>3. TurnKeeps
    BY ONLY <1>0, <1>3, <2>1, OpenField(rtsp), st = rtsp.stateM
    DEF Turned, Begun, Ended, OpenField, TurnKeeps, Nums, FieldType, ValueKnown,
        StatusState, RequestState, HeaderState
  <2> QED
    BY ONLY <2>2, <2>3
<1>4. CASE st = "STATUS_CODE"
  <2>1. \/ c \in {SP, CR, LF} /\ Ended("STATUS_SP2", "value")
        \/ c \notin {SP, CR, LF} /\ Turned("STATUS_CODE", 1, {})
    BY ONLY Typed(rtsp), LineTurn(st, c), <1>4, StatusCodeTurn
  <2>2. OpenField(rtsp') /\ ClosedFields(rtsp')
    BY ONLY <1>0, <1>4, <2>1, OpenField(rtsp), ClosedFields(rtsp), st = rtsp.stateM
    DEF Turned, Begun, Ended, OpenField, ClosedFields, Nums, End, NameBehind, ValueBehind,
        ReasonBehind, MethodBehind, UriBehind, ValueKnown, HeaderState
  <2>3. TurnKeeps
    BY ONLY <1>0, <1>4, <2>1, OpenField(rtsp), st = rtsp.stateM
    DEF Turned, Begun, Ended, OpenField, TurnKeeps, Nums, FieldType, ValueKnown,
        StatusState, RequestState, HeaderState
  <2> QED
    BY ONLY <2>2, <2>3
<1>5. CASE st = "STATUS_SP2"
  <2>1. \/ c = SP /\ Turned("STATUS_SP2", 1, {})
        \/ c # SP /\ Begun("STATUS_REASON", "reason")
    BY ONLY Typed(rtsp), LineTurn(st, c), <1>5, StatusSp2Turn
  <2>2. OpenField(rtsp') /\ ClosedFields(rtsp')
    BY ONLY <1>0, <1>5, <2>1, OpenField(rtsp), ClosedFields(rtsp), st = rtsp.stateM
    DEF Turned, Begun, Ended, OpenField, ClosedFields, Nums, End, NameBehind, ValueBehind,
        ReasonBehind, MethodBehind, UriBehind, ValueKnown, HeaderState
  <2>3. TurnKeeps
    BY ONLY <1>0, <1>5, <2>1, OpenField(rtsp), st = rtsp.stateM
    DEF Turned, Begun, Ended, OpenField, TurnKeeps, Nums, FieldType, ValueKnown,
        StatusState, RequestState, HeaderState
  <2> QED
    BY ONLY <2>2, <2>3
<1>6. CASE st = "STATUS_REASON"
  <2>1. \/ c \in {SP, CR, LF} /\ Ended("STATUS_SP3", "reason")
        \/ c \notin {SP, CR, LF} /\ Turned("STATUS_REASON", 1, {})
    BY ONLY Typed(rtsp), LineTurn(st, c), <1>6, StatusReasonTurn
  <2>2. OpenField(rtsp') /\ ClosedFields(rtsp')
    BY ONLY <1>0, <1>6, <2>1, OpenField(rtsp), ClosedFields(rtsp), st = rtsp.stateM
    DEF Turned, Begun, Ended, OpenField, ClosedFields, Nums, End, NameBehind, ValueBehind,
        ReasonBehind, MethodBehind, UriBehind, ValueKnown, HeaderState
  <2>3. TurnKeeps
    BY ONLY <1>0, <1>6, <2>1, OpenField(rtsp), st = rtsp.stateM
    DEF Turned, Begun, Ended, OpenField, TurnKeeps, Nums, FieldType, ValueKnown,
        StatusState, RequestState, HeaderState
  <2> QED
    BY ONLY <2>2, <2>3
<1>7. CASE st = "STATUS_SP3"
  <2>1. \/ c = SP /\ Turned("STATUS_SP3", 1, {})
        \/ c = CR /\ Turned("STATUS_CR", 1, {})
        \/ c = LF /\ Turned("STATUS_LF", 0, {})
        \/ c \notin {SP, CR, LF} /\ Turned("STATUS_REASON", 1, {})
    BY ONLY Typed(rtsp), LineTurn(st, c), <1>7, StatusSp3Turn
  <2>2. OpenField(rtsp') /\ ClosedFields(rtsp')
    BY ONLY <1>0, <1>7, <2>1, OpenField(rtsp), ClosedFields(rtsp), st = rtsp.stateM
    DEF Turned, Begun, Ended, OpenField, ClosedFields, Nums, End, NameBehind, ValueBehind,
        ReasonBehind, MethodBehind, UriBehind, ValueKnown, HeaderState
  <2>3. TurnKeeps
    BY ONLY <1>0, <1>7, <2>1, OpenField(rtsp), st = rtsp.stateM
    DEF Turned, Begun, Ended, OpenField, TurnKeeps, Nums, FieldType, ValueKnown,
        StatusState, RequestState, HeaderState
  <2> QED
    BY ONLY <2>2, <2>3
<1>8. CASE st = "REQUEST_START"
  <2>1. \/ c = SP /\ Turned("REQUEST_START", 1, {})
        \/ c # SP /\ Begun("REQUEST_METHOD", "method")
    BY ONLY Typed(rtsp), LineTurn(st, c), <1>8, RequestStartTurn
  <2>2. OpenField(rtsp') /\ ClosedFields(rtsp')
    BY ONLY <1>0, <1>8, <2>1, OpenField(rtsp), ClosedFields(rtsp), st = rtsp.stateM
    DEF Turned, Begun, Ended, OpenField, ClosedFields, Nums, End, NameBehind, ValueBehind,
        ReasonBehind, MethodBehind, UriBehind, ValueKnown, HeaderState
  <2>3. TurnKeeps
    BY ONLY <1>0, <1>8, <2>1, OpenField(rtsp), st = rtsp.stateM
    DEF Turned, Begun, Ended, OpenField, TurnKeeps, Nums, FieldType, ValueKnown,
        StatusState, RequestState, HeaderState
  <2> QED
    BY ONLY <2>2, <2>3
<1>9. CASE st = "REQUEST_METHOD"
  <2>1. \/ c \in {SP, CR, LF} /\ Ended("REQUEST_SP1", "method")
        \/ c \notin {SP, CR, LF} /\ Turned("REQUEST_METHOD", 1, {})
    BY ONLY Typed(rtsp), LineTurn(st, c), <1>9, RequestMethodTurn
  <2>2. OpenField(rtsp') /\ ClosedFields(rtsp')
    BY ONLY <1>0, <1>9, <2>1, OpenField(rtsp), ClosedFields(rtsp), st = rtsp.stateM
    DEF Turned, Begun, Ended, OpenField, ClosedFields, Nums, End, NameBehind, ValueBehind,
        ReasonBehind, MethodBehind, UriBehind, ValueKnown, HeaderState
  <2>3. TurnKeeps
    BY ONLY <1>0, <1>9, <2>1, OpenField(rtsp), st = rtsp.stateM
    DEF Turned, Begun, Ended, OpenField, TurnKeeps, Nums, FieldType, ValueKnown,
        StatusState, RequestState, HeaderState
  <2> QED
    BY ONLY <2>2, <2>3
<1>10. CASE st = "REQUEST_SP1"
  <2>1. \/ c = SP /\ Turned("REQUEST_SP1", 1, {})
        \/ c # SP /\ Begun("REQUEST_URI", "uri")
    BY ONLY Typed(rtsp), LineTurn(st, c), <1>10, RequestSp1Turn
  <2>2. OpenField(rtsp') /\ ClosedFields(rtsp')
    BY ONLY <1>0, <1>10, <2>1, OpenField(rtsp), ClosedFields(rtsp), st = rtsp.stateM
    DEF Turned, Begun, Ended, OpenField, ClosedFields, Nums, End, NameBehind, ValueBehind,
        ReasonBehind, MethodBehind, UriBehind, ValueKnown, HeaderState
  <2>3. TurnKeeps
    BY ONLY <1>0, <1>10, <2>1, OpenField(rtsp), st = rtsp.stateM
    DEF Turned, Begun, Ended, OpenField, TurnKeeps, Nums, FieldType, ValueKnown,
        StatusState, RequestState, HeaderState
  <2> QED
    BY ONLY <2>2, <2>3
<1>11. CASE st = "REQUEST_URI"
  <2>1. \/ c \in {SP, CR, LF} /\ Ended("REQUEST_SP2", "uri")
        \/ c \notin {SP, CR, LF} /\ Turned("REQUEST_URI", 1, {})
    BY ONLY Typed(rtsp), LineTurn(st, c), <1>11, RequestUriTurn
  <2>2. OpenField(rtsp') /\ ClosedFields(rtsp')
    BY ONLY <1>0, <1>11, <2>1, OpenField(rtsp), ClosedFields(rtsp), st = rtsp.stateM
    DEF Turned, Begun, Ended, OpenField, ClosedFields, Nums, End, NameBehind, ValueBehind,
        ReasonBehind, MethodBehind, UriBehind, ValueKnown, HeaderState
  <2>3. TurnKeeps
    BY ONLY <1>0, <1>11, <2>1, OpenField(rtsp), st = rtsp.stateM
    DEF Turned, Begun, Ended, OpenField, TurnKeeps, Nums, FieldType, ValueKnown,
        StatusState, RequestState, HeaderState
  <2> QED
    BY ONLY <2>2, <2>3
<1>12. CASE st = "REQUEST_SP2"
  <2>1. \/ c = SP /\ Turned("REQUEST_SP2", 1, {})
        \/ c # SP /\ Begun("REQUEST_VERSION", "name")
    BY ONLY Typed(rtsp), LineTurn(st, c), <1>12, RequestSp2Turn
  <2>2. OpenField(rtsp') /\ ClosedFields(rtsp')
    BY ONLY <1>0, <1>12, <2>1, OpenField(rtsp), ClosedFields(rtsp), st = rtsp.stateM
    DEF Turned, Begun, Ended, OpenField, ClosedFields, Nums, End, NameBehind, ValueBehind,
        ReasonBehind, MethodBehind, UriBehind, ValueKnown, HeaderState
  <2>3. TurnKeeps
    BY ONLY <1>0, <1>12, <2>1, OpenField(rtsp), st = rtsp.stateM
    DEF Turned, Begun, Ended, OpenField, TurnKeeps, Nums, FieldType, ValueKnown,
        StatusState, RequestState, HeaderState
  <2> QED
    BY ONLY <2>2, <2>3
<1>13. CASE st = "REQUEST_VERSION"
  <2>1. \/ c \in {SP, CR, LF} /\ Ended("REQUEST_SP3", "name")
        \/ c \notin {SP, CR, LF} /\ Turned("REQUEST_VERSION", 1, {})
    BY ONLY Typed(rtsp), LineTurn(st, c), <1>13, RequestVersionTurn
  <2>2. OpenField(rtsp') /\ ClosedFields(rtsp')
    BY ONLY <1>0, <1>13, <2>1, OpenField(rtsp), ClosedFields(rtsp), st = rtsp.stateM
    DEF Turned, Begun, Ended, OpenField, ClosedFields, Nums, End, NameBehind, ValueBehind,
        ReasonBehind, MethodBehind, UriBehind, ValueKnown, HeaderState
  <2>3. TurnKeeps
    BY ONLY <1>0, <1>13, <2>1, OpenField(rtsp), st = rtsp.stateM
    DEF Turned, Begun, Ended, OpenField, TurnKeeps, Nums, FieldType, ValueKnown,
        StatusState, RequestState, HeaderState
  <2> QED
    BY ONLY <2>2, <2>3
<1>14. CASE st = "REQUEST_SP3"
  <2>1. \/ c = SP /\ Turned("REQUEST_SP3", 1, {})
        \/ c = CR /\ Turned("REQUEST_CR", 1, {})
        \/ c = LF /\ Turned("REQUEST_LF", 0, {})
        \/ c \notin {SP, CR, LF} /\ Turned("REQUEST_VERSION", 1, {})
    BY ONLY Typed(rtsp), LineTurn(st, c), <1>14, RequestSp3Turn
  <2>2. OpenField(rtsp') /\ ClosedFields(rtsp')
    BY ONLY <1>0, <1>14, <2>1, OpenField(rtsp), ClosedFields(rtsp), st = rtsp.stateM
    DEF Turned, Begun, Ended, OpenField, ClosedFields, Nums, End, NameBehind, ValueBehind,
        ReasonBehind, MethodBehind, UriBehind, ValueKnown, HeaderState
  <2>3. TurnKeeps
    BY ONLY <1>0, <1>14, <2>1, OpenField(rtsp), st = rtsp.stateM
    DEF Turned, Begun, Ended, OpenField, TurnKeeps, Nums, FieldType, ValueKnown,
        StatusState, RequestState, HeaderState
  <2> QED
    BY ONLY <2>2, <2>3
<1>15. CASE st = "HEADER_NAME"
  <2>1. \/ c \in {SP, CR, LF, COLON} /\ Ended("HEADER_SP1", "name")
        \/ c \notin {SP, CR, LF, COLON} /\ Turned("HEADER_NAME", 1, {})
    BY ONLY Typed(rtsp), LineTurn(st, c), <1>15, HeaderNameTurn
  <2>2. OpenField(rtsp') /\ ClosedFields(rtsp')
    BY ONLY <1>0, <1>15, <2>1, OpenField(rtsp), ClosedFields(rtsp), st = rtsp.stateM
    DEF Turned, Begun, Ended, OpenField, ClosedFields, Nums, End, NameBehind, ValueBehind,
        ReasonBehind, MethodBehind, UriBehind, ValueKnown, HeaderState
  <2>3. TurnKeeps
    BY ONLY <1>0, <1>15, <2>1, OpenField(rtsp), st = rtsp.stateM
    DEF Turned, Begun, Ended, OpenField, TurnKeeps, Nums, FieldType, ValueKnown,
        StatusState, RequestState, HeaderState
  <2> QED
    BY ONLY <2>2, <2>3
<1>16. CASE st = "HEADER_SP1"
  <2>1. \/ c = SP /\ Turned("HEADER_SP1", 1, {})
        \/ c # SP /\ Turned("HEADER_SEPARATOR", 0, {})
    BY ONLY Typed(rtsp), LineTurn(st, c), <1>16, HeaderSp1Turn
  <2>2. OpenField(rtsp') /\ ClosedFields(rtsp')
    BY ONLY <1>0, <1>16, <2>1, OpenField(rtsp), ClosedFields(rtsp), st = rtsp.stateM
    DEF Turned, Begun, Ended, OpenField, ClosedFields, Nums, End, NameBehind, ValueBehind,
        ReasonBehind, MethodBehind, UriBehind, ValueKnown, HeaderState
  <2>3. TurnKeeps
    BY ONLY <1>0, <1>16, <2>1, OpenField(rtsp), st = rtsp.stateM
    DEF Turned, Begun, Ended, OpenField, TurnKeeps, Nums, FieldType, ValueKnown,
        StatusState, RequestState, HeaderState
  <2> QED
    BY ONLY <2>2, <2>3
<1>17. CASE st = "HEADER_SP2"
  <2>1. \/ c = SP /\ Turned("HEADER_SP2", 1, {})
        \/ c # SP /\ Begun("HEADER_VALUE", "value")
    BY ONLY Typed(rtsp), LineTurn(st, c), <1>17, HeaderSp2Turn
  <2>2. OpenField(rtsp') /\ ClosedFields(rtsp')
    BY ONLY <1>0, <1>17, <2>1, OpenField(rtsp), ClosedFields(rtsp), st = rtsp.stateM
    DEF Turned, Begun, Ended, OpenField, ClosedFields, Nums, End, NameBehind, ValueBehind,
        ReasonBehind, MethodBehind, UriBehind, ValueKnown, HeaderState
  <2>3. TurnKeeps
    BY ONLY <1>0, <1>17, <2>1, OpenField(rtsp), st = rtsp.stateM
    DEF Turned, Begun, Ended, OpenField, TurnKeeps, Nums, FieldType, ValueKnown,
        StatusState, RequestState, HeaderState
  <2> QED
    BY ONLY <2>2, <2>3
<1>18. CASE st = "HEADER_VALUE"
  <2>1. \/ c \in {SP, CR, LF} /\ Ended("HEADER_SP3", "value")
        \/ c \notin {SP, CR, LF} /\ Turned("HEADER_VALUE", 1, {})
    BY ONLY Typed(rtsp), LineTurn(st, c), <1>18, HeaderValueTurn
  <2>2. OpenField(rtsp') /\ ClosedFields(rtsp')
    BY ONLY <1>0, <1>18, <2>1, OpenField(rtsp), ClosedFields(rtsp), st = rtsp.stateM
    DEF Turned, Begun, Ended, OpenField, ClosedFields, Nums, End, NameBehind, ValueBehind,
        ReasonBehind, MethodBehind, UriBehind, ValueKnown, HeaderState
  <2>3. TurnKeeps
    BY ONLY <1>0, <1>18, <2>1, OpenField(rtsp), st = rtsp.stateM
    DEF Turned, Begun, Ended, OpenField, TurnKeeps, Nums, FieldType, ValueKnown,
        StatusState, RequestState, HeaderState
  <2> QED
    BY ONLY <2>2, <2>3
<1>19. CASE st = "HEADER_SP3"
  <2>1. \/ c = SP /\ Turned("HEADER_SP3", 1, {})
        \/ c = CR /\ Turned("HEADER_CR", 1, {})
        \/ c = LF /\ Turned("HEADER_LF", 0, {})
        \/ c \notin {SP, CR, LF} /\ Turned("HEADER_VALUE", 1, {})
    BY ONLY Typed(rtsp), LineTurn(st, c), <1>19, HeaderSp3Turn
  <2>2. OpenField(rtsp') /\ ClosedFields(rtsp')
    BY ONLY <1>0, <1>19, <2>1, OpenField(rtsp), ClosedFields(rtsp), st = rtsp.stateM
    DEF Turned, Begun, Ended, OpenField, ClosedFields, Nums, End, NameBehind, ValueBehind,
        ReasonBehind, MethodBehind, UriBehind, ValueKnown, HeaderState
  <2>3. TurnKeeps
    BY ONLY <1>0, <1>19, <2>1, OpenField(rtsp), st = rtsp.stateM
    DEF Turned, Begun, Ended, OpenField, TurnKeeps, Nums, FieldType, ValueKnown,
        StatusState, RequestState, HeaderState
  <2> QED
    BY ONLY <2>2, <2>3
<1> QED
  BY ONLY <1>0, <1>1, <1>2, <1>3, <1>4, <1>5, <1>6, <1>7, <1>8, <1>9, <1>10, <1>11, <1>12, <1>13,
          <1>14, <1>15, <1>16, <1>17, <1>18, <1>19 DEF SkipStates, RestStates, Field
\* A turn that keeps all that keeps the bounds.
LEMMA KeepsBounds ==
  ASSUME Typed(rtsp), Bounds(rtsp), rtsp.offset < Len(rtsp.raw),
         rtsp.stateM \in LineState \cup HeaderState,
         TurnKeeps, OpenField(rtsp'), ClosedFields(rtsp')
  PROVE  Typed(rtsp') /\ Bounds(rtsp')
<1> DEFINE o == rtsp.offset
<1>1. o \in Nat /\ Len(rtsp.raw) \in Nat /\ rtsp'.offset \in Nat /\ rtsp'.offset >= o
      /\ rtsp'.offset <= Len(rtsp.raw)
  BY DEF Typed, TurnKeeps
<1>2. rtsp'.stateM \in LineState \cup HeaderState
  BY DEF TurnKeeps, LineState
<1>3. Typed(rtsp')
  BY ONLY Typed(rtsp), <1>1, <1>2, TurnKeeps DEF Typed, Shape, TurnKeeps, SameRest
<1>4. FirstLine(rtsp')
  <2>1. rtsp.stateM \in HeaderState => rtsp.stateM \notin LineState /\ rtsp'.stateM \notin LineState
    BY ONLY TurnKeeps DEF TurnKeeps, LineState, HeaderState, StatusState, RequestState
  <2>2. rtsp.stateM \in LineState => rtsp'.stateM \in LineState
    BY ONLY TurnKeeps DEF TurnKeeps, LineState
  <2>3. \A s \in HeaderState : s \notin StatusState /\ s \notin RequestState
    BY DEF HeaderState, StatusState, RequestState
  <2>4. \A s \in LineState : (s \in StatusState <=> s \notin RequestState)
    BY DEF LineState, StatusState, RequestState
  <2>5. Nums(rtsp)
    BY TypedNums
  <2>6. FirstLine(rtsp)
    BY DEF Bounds
  <2>7. CASE rtsp.stateM \in LineState
    BY ONLY <2>2, <2>4, <2>6, <2>7, TurnKeeps
    DEF FirstLine, TurnKeeps, SameRest, LineState
  <2>8. CASE rtsp.stateM \in HeaderState
    <3>1. /\ rtsp'.method = rtsp.method /\ rtsp'.uri = rtsp.uri /\ rtsp'.reason = rtsp.reason
          /\ rtsp'.server_mode = rtsp.server_mode /\ rtsp'.stateM \in HeaderState
      BY ONLY <2>8, TurnKeeps DEF TurnKeeps, SameRest
    <3>2. End(rtsp.method) \in Nat /\ End(rtsp.uri) \in Nat /\ End(rtsp.reason) \in Nat
      BY ONLY <2>5 DEF End, Nums
    <3>3. IF rtsp.server_mode THEN End(rtsp.method) < o /\ End(rtsp.uri) < o
          ELSE End(rtsp.reason) < o
      BY ONLY <2>1, <2>6, <2>8 DEF FirstLine
    <3>4. IF rtsp.server_mode
          THEN End(rtsp.method) < rtsp'.offset /\ End(rtsp.uri) < rtsp'.offset
          ELSE End(rtsp.reason) < rtsp'.offset
      BY ONLY <3>2, <3>3, <1>1
    <3> QED
      BY ONLY <2>1, <2>3, <2>8, <3>1, <3>4 DEF FirstLine
  <2> QED
    BY ONLY <2>7, <2>8, rtsp.stateM \in LineState \cup HeaderState
<1>5. HeadersBehind(rtsp')
  <2>1. HeadersBehind(rtsp) /\ FirstLine(rtsp)
    BY DEF Bounds
  <2>2. \A i \in DOMAIN rtsp.headers : End(rtsp.headers[i].name) \in Nat
          /\ End(rtsp.headers[i].value) \in Nat /\ rtsp.headers[i].value.pos \in Nat
          /\ rtsp.headers[i].value.pos <= End(rtsp.headers[i].value)
    <3>1. \A i \in DOMAIN rtsp.headers : rtsp.headers[i] \in HeaderType
      BY DEF Typed
    <3> QED
      BY ONLY <3>1 DEF HeaderType, FieldType, End
  <2>3. rtsp.transfer_encoding \in Nat /\ Nums(rtsp)
    BY TypedNums DEF Typed
  <2>4. rtsp'.headers = rtsp.headers /\ rtsp'.transfer_encoding = rtsp.transfer_encoding
    BY ONLY TurnKeeps DEF TurnKeeps, SameRest
  <2>5. rtsp.stateM \in LineState => DOMAIN rtsp.headers = {}
    BY ONLY <2>1 DEF FirstLine
  <2>6. /\ \A i \in DOMAIN rtsp.headers :
             End(rtsp.headers[i].name) < o /\ End(rtsp.headers[i].value) < o
        /\ rtsp.transfer_encoding = 0 \/ rtsp.transfer_encoding < o
    BY ONLY <2>1 DEF HeadersBehind
  <2>7. /\ \A i \in DOMAIN rtsp.headers :
             End(rtsp.headers[i].name) < rtsp'.offset /\ End(rtsp.headers[i].value) < rtsp'.offset
        /\ rtsp.transfer_encoding = 0 \/ rtsp.transfer_encoding < rtsp'.offset
    BY ONLY <1>1, <2>2, <2>3, <2>6 DEF Nums
  <2>8. ASSUME NEW i \in DOMAIN rtsp.headers, rtsp'.stateM \in ValueKnown
        PROVE  rtsp'.value.pos = 0 \/ rtsp.headers[i].value.pos <= rtsp'.value.pos
    <3>1. rtsp.stateM \in HeaderState
      BY ONLY <2>5, <2>8, rtsp.stateM \in LineState \cup HeaderState
    <3>2. \/ rtsp'.value.pos = o
          \/ rtsp'.value.pos = 0
          \/ rtsp.stateM \in ValueKnown /\ rtsp'.value.pos = rtsp.value.pos
      BY ONLY <2>8, <3>1, TurnKeeps DEF TurnKeeps
    <3>3. CASE rtsp'.value.pos = o
      BY ONLY <1>1, <2>2, <2>6, <2>8, <3>3
    <3>4. CASE rtsp.stateM \in ValueKnown /\ rtsp'.value.pos = rtsp.value.pos
      BY ONLY <2>1, <2>8, <3>4 DEF HeadersBehind
    <3> QED
      BY ONLY <3>2, <3>3, <3>4
  <2> QED
    BY ONLY <2>4, <2>7, <2>8 DEF HeadersBehind
<1>6. BodyBehind(rtsp')
  <2>1. BodyBehind(rtsp)
    BY DEF Bounds
  <2>2. \A s \in LineState \cup HeaderState : s \notin ChunkState /\ s # "DONE"
    BY DEF LineState, StatusState, RequestState, HeaderState, ChunkState
  <2>3. /\ rtsp.stateM \in LineState \cup HeaderState /\ rtsp.stateM # "DONE"
        /\ rtsp'.stateM \notin ChunkState /\ rtsp'.stateM # "DONE"
    BY ONLY <2>2, <1>2, rtsp.stateM \in LineState \cup HeaderState
  <2>4. /\ rtsp'.raw = rtsp.raw /\ rtsp'.chunk = rtsp.chunk
        /\ rtsp'.content_length = rtsp.content_length
        /\ rtsp'.transfer_encoding = rtsp.transfer_encoding
    BY ONLY TurnKeeps DEF TurnKeeps, SameRest
  <2>5. is_transfer_encoding_chunked(rtsp') <=> is_transfer_encoding_chunked(rtsp)
    BY ONLY <2>4 DEF is_transfer_encoding_chunked, Char
  <2>6. "CHUNK_DATA" \in ChunkState
    BY DEF ChunkState
  <2> QED
    BY ONLY <2>1, <2>3, <2>4, <2>5, <2>6 DEF BodyBehind
<1> QED
  BY ONLY <1>1, <1>3, <1>4, <1>5, <1>6, TurnKeeps, OpenField(rtsp'), ClosedFields(rtsp')
  DEF Bounds, TurnKeeps, SameRest

\* Such a turn keeps the bounds.
LEMMA LineTurnBounds ==
  ASSUME Typed(rtsp), Bounds(rtsp), rtsp.offset < Len(rtsp.raw), NEW c,
         rtsp.stateM \in LineState \cup HeaderState, LineTurn(rtsp.stateM, c)
  PROVE  Typed(rtsp') /\ Bounds(rtsp') /\ SameRest
<1>1. PICK st : st = rtsp.stateM
  OBVIOUS
<1>2. TurnKeeps /\ OpenField(rtsp') /\ ClosedFields(rtsp')
  BY <1>1, LineTurnFields DEF Bounds
<1> QED
  BY <1>2, KeepsBounds DEF TurnKeeps

\* A line end's CR is followed by a LF, or the program ends.
LEMMA LineCrBounds ==
  ASSUME Typed(rtsp), Bounds(rtsp), rtsp.offset < Len(rtsp.raw), NEW c,
         rtsp.stateM \in LineState \cup HeaderState, LineCr(rtsp.stateM, c)
  PROVE  Typed(rtsp') /\ Bounds(rtsp') /\ SameRest
<1>1. PICK st : st = rtsp.stateM
  OBVIOUS
<1>2. CASE rtsp' = rtsp
  BY ONLY <1>2, Typed(rtsp), Bounds(rtsp) DEF SameRest
<1>3. CASE rtsp' = Move(NextState[st], 0)
  <2>1. st \in CrStates /\ NextState[st] = CASE st = "STATUS_CR" -> "STATUS_LF"
          [] st = "REQUEST_CR" -> "REQUEST_LF" [] st = "HEADER_CR" -> "HEADER_LF"
    BY ONLY <1>1, LineCr(rtsp.stateM, c) DEF LineCr, CrStates, NextState
  <2>2. Turned(NextState[st], 0, {})
    BY ONLY <1>3, Typed(rtsp), MoveTurns
  <2>3. /\ Nums(rtsp) /\ rtsp.name \in FieldType /\ rtsp.value \in FieldType
        /\ rtsp.method \in FieldType /\ rtsp.uri \in FieldType /\ rtsp.reason \in FieldType
        /\ OpenField(rtsp) /\ ClosedFields(rtsp)
    BY TypedNums DEF Bounds
  <2>4. OpenField(rtsp') /\ ClosedFields(rtsp')
    BY ONLY <2>1, <2>2, <2>3, <1>1
    DEF Turned, OpenField, ClosedFields, Nums, End, NameBehind, ValueBehind, CrStates,
        ReasonBehind, MethodBehind, UriBehind, ValueKnown, HeaderState
  <2>5. TurnKeeps
    BY ONLY <2>1, <2>2, <2>3, <1>1
    DEF Turned, TurnKeeps, Nums, ValueKnown, StatusState, RequestState, HeaderState, CrStates
  <2> QED
    BY <2>4, <2>5, KeepsBounds DEF TurnKeeps
<1> QED
  BY <1>1, <1>2, <1>3 DEF LineCr, Checked

\* A function of 1..n is a sequence of n elements.
LEMMA FunctionIsSequence ==
  ASSUME NEW S, NEW n \in Nat, NEW f \in [1..n -> S]
  PROVE  f \in Seq(S) /\ Len(f) = n
<1>1. f \in Seq(S) /\ DOMAIN f = 1..n
  BY SeqDef
<1>2. Len(f) \in Nat /\ DOMAIN f = 1..Len(f)
  BY ONLY <1>1, LenProperties
<1>3. (n \in 1..n \/ n = 0) /\ (Len(f) \in 1..Len(f) \/ Len(f) = 0)
  BY ONLY <1>2, n \in Nat
<1> QED
  BY ONLY <1>1, <1>2, <1>3, n \in Nat

\* A token of the text is replaced.
LEMMA PutText ==
  ASSUME NEW s \in Seq(Token), NEW i, NEW t \in Token
  PROVE  /\ Put(s, i, t) \in Seq(Token) /\ Len(Put(s, i, t)) = Len(s)
         /\ \A k \in 1..Len(s) : Put(s, i, t)[k] = IF k = i + 1 THEN t ELSE s[k]
<1>1. Len(s) \in Nat /\ DOMAIN s = 1..Len(s) /\ s \in [1..Len(s) -> Token]
  BY LenProperties
<1>2. Put(s, i, t) \in [1..Len(s) -> Token]
  BY ONLY <1>1, t \in Token DEF Put
<1>3. Put(s, i, t) \in Seq(Token) /\ Len(Put(s, i, t)) = Len(s)
  BY ONLY <1>1, <1>2, FunctionIsSequence
<1> QED
  BY ONLY <1>1, <1>3 DEF Put

-----------------------------------------------------------------------------
(* The end of the first line.                                                *)

\* The first line is read: the parser is at the headers, and only the text and the code
\* have changed.
FirstLineRead ==
  /\ DOMAIN rtsp' = DOMAIN rtsp
  /\ rtsp'.stateM = "HEADER_START" /\ rtsp'.offset = rtsp.offset + 1
  /\ rtsp'.raw \in Seq(Token) /\ Len(rtsp'.raw) = Len(rtsp.raw)
  /\ rtsp'.server_mode = rtsp.server_mode /\ rtsp'.raw_capacity = rtsp.raw_capacity
  /\ rtsp'.name = rtsp.name /\ rtsp'.value = rtsp.value /\ rtsp'.method = rtsp.method
  /\ rtsp'.uri = rtsp.uri /\ rtsp'.reason = rtsp.reason
  /\ rtsp'.headers = rtsp.headers /\ rtsp'.content_length = rtsp.content_length
  /\ rtsp'.connection_close = rtsp.connection_close
  /\ rtsp'.content_encoding = rtsp.content_encoding
  /\ rtsp'.transfer_encoding = rtsp.transfer_encoding
  /\ rtsp'.cookie = rtsp.cookie /\ rtsp'.location = rtsp.location
  /\ rtsp'.chunk = rtsp.chunk

\* The strings of a first line end in NULs.
LEMMA TwoNuls ==
  ASSUME Typed(rtsp), NEW i, NEW j, NEW raw, raw = Put(Put(rtsp.raw, i, NUL), j, NUL)
  PROVE  /\ raw \in Seq(Token) /\ Len(raw) = Len(rtsp.raw)
         /\ \A k \in 1..Len(raw) : raw[k] = IF k \in {i + 1, j + 1} THEN NUL ELSE rtsp.raw[k]
<1>1. PICK p : p = Put(rtsp.raw, i, NUL)
  OBVIOUS
<1>2. rtsp.raw \in Seq(Token) /\ NUL \in Token /\ raw = Put(p, j, NUL)
  <2>1. NUL \in Token
    BY DEF Token
  <2> QED
    BY <1>1, <2>1 DEF Typed
<1>3. /\ p \in Seq(Token) /\ Len(p) = Len(rtsp.raw)
      /\ \A k \in 1..Len(rtsp.raw) : p[k] = IF k = i + 1 THEN NUL ELSE rtsp.raw[k]
  BY ONLY <1>1, <1>2, PutText
<1>4. /\ raw \in Seq(Token) /\ Len(raw) = Len(p)
      /\ \A k \in 1..Len(p) : raw[k] = IF k = j + 1 THEN NUL ELSE p[k]
  BY ONLY <1>2, <1>3, PutText
<1> QED
  BY ONLY <1>3, <1>4

\* rtsp_parse_status_line ends with the reason and the code behind the parser.
LEMMA StatusLineRead ==
  ASSUME Typed(rtsp), EndStatusLine(rtsp.stateM), rtsp' # rtsp
  PROVE  /\ FirstLineRead /\ rtsp.stateM = "STATUS_LF" /\ rtsp.reason.len >= 1
         /\ rtsp'.raw = Put(Put(rtsp.raw, End(rtsp.reason), NUL), End(rtsp.value), NUL)
         /\ rtsp'.code = atoi(Char(rtsp, rtsp.value.pos))
<1>1. PICK q : q = Move("HEADER_START", 1)
  OBVIOUS
<1>2. PICK raw : raw = Put(Put(rtsp.raw, End(rtsp.reason), NUL), End(rtsp.value), NUL)
  OBVIOUS
<1>3. PICK code : code = atoi(Char(rtsp, rtsp.value.pos))
  OBVIOUS
<1>4. /\ DOMAIN q = DOMAIN rtsp /\ q.stateM = "HEADER_START" /\ q.offset = rtsp.offset + 1
      /\ \A g \in DOMAIN rtsp : g \notin {"stateM", "offset"} => q[g] = rtsp[g]
  BY <1>1, Moved
<1>5. q.raw = rtsp.raw
  BY ONLY <1>4, Typed(rtsp) DEF Typed, Shape
<1>6. /\ rtsp' = [q EXCEPT !.raw = raw, !.code = code] /\ rtsp.stateM = "STATUS_LF"
      /\ rtsp.reason.len >= 1
  <2>1. /\ rtsp.stateM = "STATUS_LF" /\ rtsp.reason.len >= 1
        /\ rtsp' = [q EXCEPT !.raw = Put(Put(@, rtsp.reason.pos + rtsp.reason.len, NUL),
                                         rtsp.value.pos + rtsp.value.len, NUL),
                             !.code = atoi(Char(rtsp, rtsp.value.pos))]
    BY ONLY <1>1, EndStatusLine(rtsp.stateM), rtsp' # rtsp DEF EndStatusLine, Checked
  <2> QED
    BY ONLY <2>1, <1>2, <1>3, <1>5 DEF End
<1>7. raw \in Seq(Token) /\ Len(raw) = Len(rtsp.raw)
  BY ONLY <1>2, Typed(rtsp), TwoNuls
<1> QED
  BY ONLY <1>2, <1>3, <1>4, <1>6, <1>7, Typed(rtsp) DEF FirstLineRead, Typed, Shape, LineField

\* rtsp_parse_request_line ends with the method and the URI behind the parser.
LEMMA RequestLineRead ==
  ASSUME Typed(rtsp), EndRequestLine(rtsp.stateM), rtsp' # rtsp
  PROVE  /\ FirstLineRead /\ rtsp.stateM = "REQUEST_LF"
         /\ rtsp'.raw = Put(Put(rtsp.raw, End(rtsp.method), NUL), End(rtsp.uri), NUL)
<1>1. PICK q : q = Move("HEADER_START", 1)
  OBVIOUS
<1>2. PICK raw : raw = Put(Put(rtsp.raw, End(rtsp.method), NUL), End(rtsp.uri), NUL)
  OBVIOUS
<1>4. /\ DOMAIN q = DOMAIN rtsp /\ q.stateM = "HEADER_START" /\ q.offset = rtsp.offset + 1
      /\ \A g \in DOMAIN rtsp : g \notin {"stateM", "offset"} => q[g] = rtsp[g]
  BY <1>1, Moved
<1>5. q.raw = rtsp.raw
  BY ONLY <1>4, Typed(rtsp) DEF Typed, Shape
<1>6. rtsp' = [q EXCEPT !.raw = raw] /\ rtsp.stateM = "REQUEST_LF"
  BY <1>1, <1>2, <1>5 DEF EndRequestLine, Checked, End
<1>7. raw \in Seq(Token) /\ Len(raw) = Len(rtsp.raw)
  BY ONLY <1>2, Typed(rtsp), TwoNuls
<1> QED
  BY ONLY <1>2, <1>4, <1>6, <1>7, Typed(rtsp) DEF FirstLineRead, Typed, Shape, LineField

\* An empty sequence has no element.
LEMMA NoElements ==
  ASSUME NEW s, s = << >>
  PROVE  DOMAIN s = {}
<1>1. s \in Seq(Token) /\ Len(s) = 0
  BY EmptySeq
<1>2. DOMAIN s = 1..0
  BY ONLY <1>1, LenProperties
<1> QED
  BY ONLY <1>2

\* The parser at the first header.
LEMMA FirstLineBounds ==
  ASSUME Typed(rtsp), Bounds(rtsp), rtsp.offset < Len(rtsp.raw),
         rtsp.stateM \in {"STATUS_LF", "REQUEST_LF"}, FirstLineRead
  PROVE  Typed(rtsp') /\ Bounds(rtsp')
<1>0. Nums(rtsp)
  BY TypedNums
<1>1. Nums(rtsp) /\ Len(rtsp.raw) \in Nat
  BY <1>0 DEF Typed
<1>2. Typed(rtsp')
  <2>1. rtsp'.offset \in Nat /\ rtsp'.stateM \in HeaderState
    BY ONLY <1>1, FirstLineRead DEF FirstLineRead, Nums, HeaderState
  <2> QED
    BY ONLY <2>1, Typed(rtsp), FirstLineRead DEF FirstLineRead, Typed, Shape
<1>3. /\ rtsp.stateM \in LineState /\ rtsp.stateM \in NameBehind
      /\ rtsp.stateM \in StatusState => rtsp.stateM = "STATUS_LF"
      /\ rtsp.stateM \in RequestState => rtsp.stateM = "REQUEST_LF"
      /\ rtsp.stateM \in StatusState \cup RequestState /\ rtsp.stateM # "DONE"
      /\ "STATUS_LF" \in ReasonBehind /\ "REQUEST_LF" \in MethodBehind
      /\ "REQUEST_LF" \in UriBehind
  BY DEF LineState, StatusState, RequestState, NameBehind, ReasonBehind, MethodBehind, UriBehind
<1>4. End(rtsp.name) <= rtsp.offset
      /\ IF rtsp.server_mode THEN End(rtsp.method) <= rtsp.offset /\ End(rtsp.uri) <= rtsp.offset
         ELSE End(rtsp.reason) <= rtsp.offset
  BY ONLY <1>3, Bounds(rtsp) DEF Bounds, ClosedFields, FirstLine
<1>5. rtsp'.offset <= Len(rtsp'.raw)
  BY ONLY <1>1, FirstLineRead, rtsp.offset < Len(rtsp.raw) DEF FirstLineRead, Nums
<1>6. OpenField(rtsp')
  BY ONLY FirstLineRead DEF FirstLineRead, OpenField
<1>7. ClosedFields(rtsp')
  BY ONLY <1>1, <1>4, FirstLineRead
  DEF FirstLineRead, ClosedFields, End, Nums, ValueBehind, ReasonBehind, MethodBehind, UriBehind,
      ValueKnown
<1>8. FirstLine(rtsp')
  <2>1. rtsp'.stateM \notin StatusState /\ rtsp'.stateM \notin RequestState
        /\ rtsp'.stateM \notin LineState
    BY ONLY FirstLineRead DEF FirstLineRead, LineState, StatusState, RequestState
  <2>2. IF rtsp'.server_mode THEN End(rtsp'.method) < rtsp'.offset /\ End(rtsp'.uri) < rtsp'.offset
        ELSE End(rtsp'.reason) < rtsp'.offset
    <3>1. /\ rtsp'.method = rtsp.method /\ rtsp'.uri = rtsp.uri /\ rtsp'.reason = rtsp.reason
          /\ rtsp'.server_mode = rtsp.server_mode /\ rtsp'.offset = rtsp.offset + 1
      BY ONLY FirstLineRead DEF FirstLineRead
    <3>2. /\ End(rtsp.method) \in Nat /\ End(rtsp.uri) \in Nat /\ End(rtsp.reason) \in Nat
          /\ rtsp.offset \in Nat
      BY ONLY <1>0 DEF End, Nums
    <3>3. IF rtsp.server_mode
          THEN End(rtsp.method) < rtsp.offset + 1 /\ End(rtsp.uri) < rtsp.offset + 1
          ELSE End(rtsp.reason) < rtsp.offset + 1
      BY ONLY <3>2, <1>4
    <3> QED
      BY ONLY <3>1, <3>3
  <2> QED
    BY ONLY <2>1, <2>2 DEF FirstLine
<1>9. rtsp.headers = <<>> /\ rtsp.transfer_encoding = 0 /\ rtsp.chunk.offset = 0
      /\ rtsp.chunk.pos <= Len(rtsp.raw)
  BY ONLY <1>3, Bounds(rtsp) DEF Bounds, FirstLine, BodyBehind
<1>10. HeadersBehind(rtsp')
  <2>1. rtsp'.headers = <<>> /\ rtsp'.transfer_encoding = 0
    BY ONLY <1>9, FirstLineRead DEF FirstLineRead
  <2>2. DOMAIN rtsp'.headers = {}
    BY ONLY <2>1, NoElements
  <2> QED
    BY ONLY <2>1, <2>2 DEF HeadersBehind
<1>11. BodyBehind(rtsp')
  BY ONLY <1>9, FirstLineRead DEF FirstLineRead, BodyBehind, is_transfer_encoding_chunked, ChunkState
<1> QED
  BY ONLY <1>2, <1>5, <1>6, <1>7, <1>8, <1>10, <1>11 DEF Bounds

-----------------------------------------------------------------------------
(* The header lines.                                                         *)

\* The first character of a header line.
LEMMA HeaderStartTurn ==
  ASSUME Typed(rtsp), NEW c, rtsp' = HeaderStart(c)
  PROVE  \/ /\ c = SP /\ Turned("HEADER_SP2", 1, {"name"})
            /\ rtsp'.name = [pos |-> 0, len |-> rtsp.name.len]
         \/ /\ c = CR /\ Turned("HEADER_CR", 1, {"value"})
            /\ rtsp'.value = [pos |-> 0, len |-> rtsp.value.len]
         \/ /\ c = LF /\ Turned("HEADER_LF", 0, {"value"})
            /\ rtsp'.value = [pos |-> 0, len |-> rtsp.value.len]
         \/ c \notin {SP, CR, LF} /\ Begun("HEADER_NAME", "name")
<1>1. \/ c = SP /\ rtsp' = [Move("HEADER_SP2", 1) EXCEPT !["name"]["pos"] = 0]
      \/ c = CR /\ rtsp' = [Move("HEADER_CR", 1) EXCEPT !["value"]["pos"] = 0]
      \/ c = LF /\ rtsp' = [Move("HEADER_LF", 0) EXCEPT !["value"]["pos"] = 0]
      \/ c \notin {SP, CR, LF} /\ rtsp' = [Move("HEADER_NAME", 0) EXCEPT !["name"]["pos"] = rtsp.offset]
  BY DEF HeaderStart, SP, CR, LF
<1>2. "name" \in LineField /\ "value" \in LineField
  BY DEF LineField
<1>3. rtsp.name \in FieldType /\ rtsp.value \in FieldType
  BY TypedNums
<1>4. CASE c = SP /\ rtsp' = [Move("HEADER_SP2", 1) EXCEPT !["name"]["pos"] = 0]
  <2>1. PICK q, d, n : d = 1 /\ n = 0 /\ q = Move("HEADER_SP2", d)
    OBVIOUS
  <2>2. rtsp' = [q EXCEPT !["name"]["pos"] = n]
    BY ONLY <2>1, <1>4
  <2>3. Turned("HEADER_SP2", d, {"name"})
    BY ONLY Typed(rtsp), <1>2, <2>1, <2>2, SetTurns
  <2>4. rtsp'["name"] = [pos |-> n, len |-> rtsp["name"].len]
    BY ONLY Typed(rtsp), <1>2, <2>1, <2>2, SetsPos
  <2> QED
    BY <2>1, <2>3, <2>4, <1>3, <1>4
<1>5. CASE c = CR /\ rtsp' = [Move("HEADER_CR", 1) EXCEPT !["value"]["pos"] = 0]
  <2>1. PICK q, d, n : d = 1 /\ n = 0 /\ q = Move("HEADER_CR", d)
    OBVIOUS
  <2>2. rtsp' = [q EXCEPT !["value"]["pos"] = n]
    BY ONLY <2>1, <1>5
  <2>3. Turned("HEADER_CR", d, {"value"})
    BY ONLY Typed(rtsp), <1>2, <2>1, <2>2, SetTurns
  <2>4. rtsp'["value"] = [pos |-> n, len |-> rtsp["value"].len]
    BY ONLY Typed(rtsp), <1>2, <2>1, <2>2, SetsPos
  <2> QED
    BY <2>1, <2>3, <2>4, <1>3, <1>5
<1>6. CASE c = LF /\ rtsp' = [Move("HEADER_LF", 0) EXCEPT !["value"]["pos"] = 0]
  <2>1. PICK q, d, n : d = 0 /\ n = 0 /\ q = Move("HEADER_LF", d)
    OBVIOUS
  <2>2. rtsp' = [q EXCEPT !["value"]["pos"] = n]
    BY ONLY <2>1, <1>6
  <2>3. Turned("HEADER_LF", d, {"value"})
    BY ONLY Typed(rtsp), <1>2, <2>1, <2>2, SetTurns
  <2>4. rtsp'["value"] = [pos |-> n, len |-> rtsp["value"].len]
    BY ONLY Typed(rtsp), <1>2, <2>1, <2>2, SetsPos
  <2> QED
    BY <2>1, <2>3, <2>4, <1>3, <1>6
<1>7. CASE c \notin {SP, CR, LF} /\ rtsp' = [Move("HEADER_NAME", 0) EXCEPT !["name"]["pos"] = rtsp.offset]
  BY ONLY Typed(rtsp), <1>2, <1>7, FieldBegins
<1> QED
  BY ONLY <1>1, <1>4, <1>5, <1>6, <1>7

\* It leaves the fields behind the parser.
LEMMA HeaderStartBounds ==
  ASSUME Typed(rtsp), Bounds(rtsp), rtsp.offset < Len(rtsp.raw), NEW c,
         rtsp.stateM = "HEADER_START", rtsp' = HeaderStart(c)
  PROVE  Typed(rtsp') /\ Bounds(rtsp') /\ SameRest
<1>1. PICK st : st = rtsp.stateM
  OBVIOUS
<1>2. \/ /\ Turned("HEADER_SP2", 1, {"name"})
         /\ rtsp'.name = [pos |-> 0, len |-> rtsp.name.len]
      \/ /\ Turned("HEADER_CR", 1, {"value"})
         /\ rtsp'.value = [pos |-> 0, len |-> rtsp.value.len]
      \/ /\ Turned("HEADER_LF", 0, {"value"})
         /\ rtsp'.value = [pos |-> 0, len |-> rtsp.value.len]
      \/ Begun("HEADER_NAME", "name")
  BY ONLY Typed(rtsp), rtsp' = HeaderStart(c), HeaderStartTurn
<1>3. /\ Nums(rtsp) /\ rtsp.name \in FieldType /\ rtsp.value \in FieldType
      /\ rtsp.method \in FieldType /\ rtsp.uri \in FieldType /\ rtsp.reason \in FieldType
      /\ OpenField(rtsp) /\ ClosedFields(rtsp)
  BY TypedNums DEF Bounds
<1>4. OpenField(rtsp') /\ ClosedFields(rtsp')
  BY ONLY <1>2, <1>3, rtsp.stateM = "HEADER_START"
  DEF Turned, Begun, OpenField, ClosedFields, Nums, End, NameBehind, ValueBehind,
      ReasonBehind, MethodBehind, UriBehind, ValueKnown, HeaderState
<1>5. TurnKeeps
  BY ONLY <1>2, <1>3, rtsp.stateM = "HEADER_START"
  DEF Turned, Begun, TurnKeeps, Nums, FieldType, ValueKnown, StatusState, RequestState, HeaderState
<1>6. rtsp.stateM \in LineState \cup HeaderState
  BY DEF HeaderState
<1> QED
  BY <1>4, <1>5, <1>6, KeepsBounds DEF TurnKeeps

\* The colon after a header's name.
LEMMA SeparatorBounds ==
  ASSUME Typed(rtsp), Bounds(rtsp), rtsp.offset < Len(rtsp.raw),
         rtsp.stateM = "HEADER_SEPARATOR", rtsp' = Move("HEADER_SP2", 1)
  PROVE  Typed(rtsp') /\ Bounds(rtsp') /\ SameRest
<1>1. Turned("HEADER_SP2", 1, {})
  BY MoveTurns
<1>2. /\ Nums(rtsp) /\ rtsp.name \in FieldType /\ rtsp.value \in FieldType
      /\ rtsp.method \in FieldType /\ rtsp.uri \in FieldType /\ rtsp.reason \in FieldType
      /\ OpenField(rtsp) /\ ClosedFields(rtsp)
  BY TypedNums DEF Bounds
<1>3. OpenField(rtsp') /\ ClosedFields(rtsp')
  BY ONLY <1>1, <1>2, rtsp.stateM = "HEADER_SEPARATOR"
  DEF Turned, OpenField, ClosedFields, Nums, End, NameBehind, ValueBehind,
      ReasonBehind, MethodBehind, UriBehind, ValueKnown, HeaderState
<1>4. TurnKeeps
  BY ONLY <1>1, <1>2, rtsp.stateM = "HEADER_SEPARATOR"
  DEF Turned, TurnKeeps, Nums, FieldType, ValueKnown, StatusState, RequestState, HeaderState
<1>5. rtsp.stateM \in LineState \cup HeaderState
  BY DEF HeaderState
<1> QED
  BY <1>3, <1>4, <1>5, KeepsBounds DEF TurnKeeps

\* The line that ends the headers.
LEMMA EndHeadersBounds ==
  ASSUME Typed(rtsp), Bounds(rtsp), rtsp.offset < Len(rtsp.raw),
         rtsp.stateM = "HEADER_LF", EndHeaders
  PROVE  Typed(rtsp') /\ Bounds(rtsp') /\ Turned("CHUNK_START", 1, {})
<1>1. Turned("CHUNK_START", 1, {})
  BY MoveTurns DEF EndHeaders
<1>2. /\ rtsp'.stateM = "CHUNK_START" /\ rtsp'.offset = rtsp.offset + 1
      /\ rtsp'.stateM \in ChunkState /\ rtsp'.stateM \notin LineState
      /\ rtsp'.stateM \notin HeaderState /\ rtsp.stateM \notin LineState
      /\ rtsp'.stateM \notin StatusState /\ rtsp'.stateM \notin RequestState
      /\ rtsp.stateM \in HeaderState
  BY ONLY <1>1, rtsp.stateM = "HEADER_LF"
  DEF Turned, ChunkState, LineState, StatusState, RequestState, HeaderState
<1>3. /\ rtsp'.raw = rtsp.raw /\ rtsp'.chunk = rtsp.chunk /\ rtsp'.headers = rtsp.headers
      /\ rtsp'.content_length = rtsp.content_length /\ rtsp'.server_mode = rtsp.server_mode
      /\ rtsp'.transfer_encoding = rtsp.transfer_encoding
      /\ rtsp'.method = rtsp.method /\ rtsp'.uri = rtsp.uri /\ rtsp'.reason = rtsp.reason
  BY ONLY <1>1 DEF Turned, SameRest
<1>4. Typed(rtsp')
  <2>1. rtsp'.offset \in Nat /\ Typed(rtsp)
    BY <1>2 DEF Typed
  <2> QED
    BY ONLY <1>1, <1>2, <2>1 DEF Turned, SameRest, Typed, Shape
<1>5. Nums(rtsp)
  BY TypedNums
<1>6. FirstLine(rtsp')
  <2>1. End(rtsp.method) \in Nat /\ End(rtsp.uri) \in Nat /\ End(rtsp.reason) \in Nat
        /\ rtsp.offset \in Nat
    BY ONLY <1>5 DEF Nums, End
  <2>2. FirstLine(rtsp)
    BY DEF Bounds
  <2>3. IF rtsp.server_mode THEN End(rtsp.method) < rtsp.offset /\ End(rtsp.uri) < rtsp.offset
        ELSE End(rtsp.reason) < rtsp.offset
    BY ONLY <2>2, <1>2 DEF FirstLine
  <2>4. IF rtsp.server_mode
        THEN End(rtsp.method) < rtsp.offset + 1 /\ End(rtsp.uri) < rtsp.offset + 1
        ELSE End(rtsp.reason) < rtsp.offset + 1
    BY ONLY <2>1, <2>3
  <2> QED
    BY ONLY <1>2, <1>3, <2>4 DEF FirstLine
<1>7. HeadersBehind(rtsp')
  <2>1. HeadersBehind(rtsp)
    BY DEF Bounds
  <2>2. \A i \in DOMAIN rtsp.headers :
          End(rtsp.headers[i].name) \in Nat /\ End(rtsp.headers[i].value) \in Nat
    <3>1. \A i \in DOMAIN rtsp.headers : rtsp.headers[i] \in HeaderType
      BY DEF Typed
    <3> QED
      BY ONLY <3>1 DEF HeaderType, FieldType, End
  <2>3. rtsp.offset \in Nat /\ rtsp.transfer_encoding \in Nat
    BY DEF Typed
  <2> QED
    BY ONLY <2>1, <2>2, <2>3, <1>2, <1>3 DEF HeadersBehind, ValueKnown
<1>8. BodyBehind(rtsp')
  <2>1. BodyBehind(rtsp)
    BY DEF Bounds
  <2>2. is_transfer_encoding_chunked(rtsp') <=> is_transfer_encoding_chunked(rtsp)
    BY ONLY <1>3 DEF is_transfer_encoding_chunked, Char
  <2> QED
    BY ONLY <2>1, <2>2, <1>2, <1>3, rtsp.stateM = "HEADER_LF" DEF BodyBehind
<1>9. OpenField(rtsp') /\ ClosedFields(rtsp')
  BY ONLY <1>2 DEF OpenField, ClosedFields, NameBehind, ValueBehind, ReasonBehind,
                   MethodBehind, UriBehind, ValueKnown, HeaderState
<1> QED
  <2>1. Len(rtsp.raw) \in Nat /\ rtsp.offset \in Nat
    BY DEF Typed
  <2>2. rtsp'.offset <= Len(rtsp'.raw)
    BY ONLY <1>2, <1>3, <2>1, rtsp.offset < Len(rtsp.raw)
  <2> QED
    BY ONLY <1>1, <1>4, <1>6, <1>7, <1>8, <1>9, <2>2 DEF Bounds

-----------------------------------------------------------------------------
(* The end of a header line.                                                 *)

\* What rtsp_header_handler leaves alone.
HandlerKeeps(r, q) ==
  /\ DOMAIN q = DOMAIN r
  /\ q.stateM = r.stateM /\ q.offset = r.offset
  /\ q.server_mode = r.server_mode /\ q.raw_capacity = r.raw_capacity
  /\ q.name = r.name /\ q.value = r.value /\ q.method = r.method /\ q.uri = r.uri
  /\ q.reason = r.reason /\ q.code = r.code
  /\ q.headers = r.headers /\ q.chunk = r.chunk

\* What it does for each name it knows.
LEMMA HandlerSteps ==
  ASSUME NEW r, Shape(r), NEW h, NEW q, q = rtsp_header_handler(r, h),
         NEW name, name = Text(r, h.name.pos)
  PROVE  /\ HandlerKeeps(r, q)
         /\ name = <<"Content-Length">> =>
              q.content_length = atoi(Char(r, h.value.pos))
         /\ name # <<"Content-Length">> => q.content_length = r.content_length
         /\ name = <<"Transfer-Encoding">> =>
              /\ q.transfer_encoding = h.value.pos
              /\ q.raw = IF Char(r, h.value.pos) = "chunked" THEN Put(r.raw, h.value.pos + 1, NUL)
                         ELSE r.raw
         /\ name # <<"Transfer-Encoding">> =>
              q.transfer_encoding = r.transfer_encoding /\ q.raw = r.raw
         /\ name = <<"Connection">> =>
              q.connection_close = IF Text(r, h.value.pos) = <<"close">> THEN 1 ELSE 0
         /\ name # <<"Connection">> => q.connection_close = r.connection_close
         /\ name = <<"Content-Encoding">> => q.content_encoding = h.value.pos
         /\ name # <<"Content-Encoding">> => q.content_encoding = r.content_encoding
         /\ name = <<"Set-Cookie">> => q.cookie = h.value.pos
         /\ name # <<"Set-Cookie">> => q.cookie = r.cookie
         /\ name = <<"Location">> => q.location = h.value.pos
         /\ name # <<"Location">> => q.location = r.location
<1>0. /\ <<"Content-Length">> # <<"Transfer-Encoding">> /\ <<"Content-Length">> # <<"Connection">>
      /\ <<"Content-Length">> # <<"Content-Encoding">> /\ <<"Content-Length">> # <<"Set-Cookie">>
      /\ <<"Content-Length">> # <<"Location">>
      /\ <<"Transfer-Encoding">> # <<"Connection">> /\ <<"Transfer-Encoding">> # <<"Content-Encoding">>
      /\ <<"Transfer-Encoding">> # <<"Set-Cookie">> /\ <<"Transfer-Encoding">> # <<"Location">>
      /\ <<"Connection">> # <<"Content-Encoding">> /\ <<"Connection">> # <<"Set-Cookie">>
      /\ <<"Connection">> # <<"Location">> /\ <<"Content-Encoding">> # <<"Set-Cookie">>
      /\ <<"Content-Encoding">> # <<"Location">> /\ <<"Set-Cookie">> # <<"Location">>
  OBVIOUS
<1>1. CASE name = <<"Content-Length">>
  <2>1. q = [r EXCEPT !.content_length = atoi(Char(r, h.value.pos))]
    BY <1>1 DEF rtsp_header_handler
  <2> QED
    BY ONLY <1>0, <1>1, <2>1, Shape(r) DEF Shape, LineField, HandlerKeeps
<1>2. CASE name = <<"Transfer-Encoding">>
  <2>1. PICK raw : raw = IF Char(r, h.value.pos) = "chunked" THEN Put(r.raw, h.value.pos + 1, NUL)
                         ELSE r.raw
    OBVIOUS
  <2>2. q = [r EXCEPT !.transfer_encoding = h.value.pos, !.raw = raw]
    BY <1>0, <1>2, <2>1 DEF rtsp_header_handler
  <2> QED
    BY ONLY <1>0, <1>2, <2>1, <2>2, Shape(r) DEF Shape, LineField, HandlerKeeps
<1>3. CASE name = <<"Connection">>
  <2>1. q = [r EXCEPT !.connection_close = IF Text(r, h.value.pos) = <<"close">> THEN 1 ELSE 0]
    BY <1>0, <1>3 DEF rtsp_header_handler
  <2> QED
    BY ONLY <1>0, <1>3, <2>1, Shape(r) DEF Shape, LineField, HandlerKeeps
<1>4. CASE name = <<"Content-Encoding">>
  <2>1. q = [r EXCEPT !.content_encoding = h.value.pos]
    BY <1>0, <1>4 DEF rtsp_header_handler
  <2> QED
    BY ONLY <1>0, <1>4, <2>1, Shape(r) DEF Shape, LineField, HandlerKeeps
<1>5. CASE name = <<"Set-Cookie">>
  <2>1. q = [r EXCEPT !.cookie = h.value.pos]
    BY <1>0, <1>5 DEF rtsp_header_handler
  <2> QED
    BY ONLY <1>0, <1>5, <2>1, Shape(r) DEF Shape, LineField, HandlerKeeps
<1>6. CASE name = <<"Location">>
  <2>1. q = [r EXCEPT !.location = h.value.pos]
    BY <1>0, <1>6 DEF rtsp_header_handler
  <2> QED
    BY ONLY <1>0, <1>6, <2>1, Shape(r) DEF Shape, LineField, HandlerKeeps
<1>7. CASE name \notin {<<"Content-Length">>, <<"Transfer-Encoding">>, <<"Connection">>,
                        <<"Content-Encoding">>, <<"Set-Cookie">>, <<"Location">>}
  <2>1. q = r
    BY <1>7 DEF rtsp_header_handler
  <2> QED
    BY ONLY <1>7, <2>1 DEF HandlerKeeps
<1> QED
  BY <1>1, <1>2, <1>3, <1>4, <1>5, <1>6, <1>7

\* A word's value is a number, and the size of a chunk one that size_t holds.
LEMMA AtoiInt ==
  ASSUME NEW w
  PROVE  atoi(w) \in Int
BY NumberAssumption DEF atoi

LEMMA HexFits ==
  ASSUME NEW w \in DOMAIN Hex
  PROVE  HexSize(w) \in 0..(SizeMod - 1) /\ (Hex[w] < SizeMod => HexSize(w) = Hex[w])
<1>1. PICK m, n : m = SizeMod /\ n = Hex[w]
  OBVIOUS
<1>2. m \in Nat \ {0} /\ n \in Nat
  BY <1>1, SizeAssumption, HexAssumption
<1>3. n % m \in 0..(m - 1) /\ (n < m => n % m = n)
  BY ONLY <1>2
<1> QED
  BY ONLY <1>1, <1>3 DEF HexSize

\* A header that conflicts with none before it keeps the body measured in one way only.
LEMMA HandlerBounds ==
  ASSUME NEW r, Typed(r), NEW h \in HeaderType, NEW q, q = rtsp_header_handler(r, h),
         ~BadLength(r, h), is_transfer_encoding_chunked(r) => r.content_length = -1
  PROVE  /\ HandlerKeeps(r, q)
         /\ q.raw \in Seq(Token) /\ Len(q.raw) = Len(r.raw)
         /\ \A k \in 1..Len(r.raw) : q.raw[k] \in {r.raw[k], NUL}
         /\ q.content_length \in Nat \cup {-1}
         /\ q.transfer_encoding \in {r.transfer_encoding, h.value.pos}
         /\ is_transfer_encoding_chunked(q) => q.content_length = -1
<1>1. PICK name : name = Text(r, h.name.pos)
  OBVIOUS
<1>2. Shape(r) /\ r.raw \in Seq(Token) /\ r.content_length \in Nat \cup {-1} /\ NUL \in Token
  BY DEF Typed, Token
<1>3. PICK v : v = Char(r, h.value.pos)
  OBVIOUS
<1>4. /\ HandlerKeeps(r, q)
      /\ name = <<"Content-Length">> => q.content_length = atoi(v)
      /\ name # <<"Content-Length">> => q.content_length = r.content_length
      /\ name = <<"Transfer-Encoding">> =>
           /\ q.transfer_encoding = h.value.pos
           /\ q.raw = IF v = "chunked" THEN Put(r.raw, h.value.pos + 1, NUL) ELSE r.raw
      /\ name # <<"Transfer-Encoding">> =>
           q.transfer_encoding = r.transfer_encoding /\ q.raw = r.raw
  BY ONLY <1>1, <1>2, <1>3, HandlerSteps, q = rtsp_header_handler(r, h)
<1>5. /\ q.raw \in Seq(Token) /\ Len(q.raw) = Len(r.raw)
      /\ \A k \in 1..Len(r.raw) : q.raw[k] \in {r.raw[k], NUL}
  <2>1. PICK i : i = h.value.pos + 1
    OBVIOUS
  <2>2. /\ Put(r.raw, i, NUL) \in Seq(Token) /\ Len(Put(r.raw, i, NUL)) = Len(r.raw)
        /\ \A k \in 1..Len(r.raw) : Put(r.raw, i, NUL)[k] \in {r.raw[k], NUL}
    BY ONLY <1>2, PutText
  <2> QED
    BY ONLY <1>2, <1>4, <2>1, <2>2
<1>6. q.content_length \in Nat \cup {-1}
  <2>1. name = <<"Content-Length">> => ~(atoi(v) < 0)
    BY <1>1, <1>3 DEF BadLength
  <2>2. atoi(v) \in Int
    BY ONLY AtoiInt
  <2> QED
    BY ONLY <1>2, <1>4, <2>1, <2>2
<1>7. ASSUME is_transfer_encoding_chunked(q)
      PROVE  q.content_length = -1
  <2>1. CASE name = <<"Content-Length">>
    <3>1. ~is_transfer_encoding_chunked(r)
      BY <1>1, <2>1 DEF BadLength
    <3>2. q.transfer_encoding = r.transfer_encoding /\ q.raw = r.raw
      BY ONLY <1>4, <2>1
    <3> QED
      BY ONLY <1>7, <3>1, <3>2 DEF is_transfer_encoding_chunked, Char
  <2>2. CASE name = <<"Transfer-Encoding">>
    <3>1. q.transfer_encoding = h.value.pos /\ q.content_length = r.content_length
      BY ONLY <1>4, <2>2
    <3>2. Char(q, h.value.pos) = "chunked"
      BY ONLY <1>7, <3>1 DEF is_transfer_encoding_chunked
    <3>3. v = "chunked"
      <4>1. CASE q.raw = r.raw
        BY ONLY <1>3, <3>2, <4>1 DEF Char
      <4>2. CASE v = "chunked"
        BY ONLY <4>2
      <4> QED
        BY ONLY <1>4, <2>2, <4>1, <4>2
    <3> QED
      BY <1>1, <1>3, <2>2, <3>1, <3>3 DEF BadLength
  <2>3. CASE name # <<"Content-Length">> /\ name # <<"Transfer-Encoding">>
    <3>1. /\ q.transfer_encoding = r.transfer_encoding /\ q.raw = r.raw
          /\ q.content_length = r.content_length
      BY ONLY <1>4, <2>3
    <3>2. is_transfer_encoding_chunked(r)
      BY ONLY <1>7, <3>1 DEF is_transfer_encoding_chunked, Char
    <3> QED
      BY <3>1, <3>2
  <2> QED
    BY ONLY <2>1, <2>2, <2>3
<1> QED
  BY ONLY <1>4, <1>5, <1>6, <1>7

\* A header is read: the parser is at the next one, the headers end before it, and the
\* body is still measured in one way only.  Blanks and NULs are put into the text.
HeaderRead ==
  /\ DOMAIN rtsp' = DOMAIN rtsp
  /\ rtsp'.stateM = "HEADER_START" /\ rtsp'.offset = rtsp.offset + 1
  /\ rtsp'.raw \in Seq(Token) /\ Len(rtsp'.raw) = Len(rtsp.raw)
  /\ \A k \in 1..Len(rtsp.raw) : rtsp'.raw[k] \in {rtsp.raw[k], NUL, SP}
  /\ rtsp'.server_mode = rtsp.server_mode /\ rtsp'.raw_capacity = rtsp.raw_capacity
  /\ rtsp'.name = rtsp.name /\ rtsp'.value = rtsp.value /\ rtsp'.method = rtsp.method
  /\ rtsp'.uri = rtsp.uri /\ rtsp'.reason = rtsp.reason /\ rtsp'.chunk = rtsp.chunk
  /\ rtsp'.headers \in Seq(HeaderType)
  /\ \A i \in DOMAIN rtsp'.headers :
       End(rtsp'.headers[i].name) <= rtsp.offset /\ End(rtsp'.headers[i].value) <= rtsp.offset
  /\ rtsp'.content_length \in Nat \cup {-1}
  /\ rtsp'.transfer_encoding \in Nat /\ rtsp'.transfer_encoding <= rtsp.offset
  /\ is_transfer_encoding_chunked(rtsp') => rtsp'.content_length = -1

\* What every turn leaves of the storage.
Kept ==
  /\ Len(rtsp'.raw) = Len(rtsp.raw) /\ rtsp'.raw_capacity = rtsp.raw_capacity
  /\ rtsp'.server_mode = rtsp.server_mode

\* The parser at the next header.
LEMMA HeaderReadBounds ==
  ASSUME Typed(rtsp), Bounds(rtsp), rtsp.offset < Len(rtsp.raw),
         rtsp.stateM = "HEADER_LF", HeaderRead
  PROVE  Typed(rtsp') /\ Bounds(rtsp')
<1>0. Nums(rtsp)
  BY TypedNums
<1>1. Nums(rtsp) /\ Len(rtsp.raw) \in Nat
  BY <1>0 DEF Typed
<1>2. Typed(rtsp')
  <2>1. rtsp'.offset \in Nat /\ rtsp'.stateM \in HeaderState
    BY ONLY <1>1, HeaderRead DEF HeaderRead, Nums, HeaderState
  <2> QED
    BY ONLY <2>1, Typed(rtsp), HeaderRead DEF HeaderRead, Typed, Shape
<1>3. rtsp'.offset <= Len(rtsp'.raw)
  BY ONLY <1>1, HeaderRead, rtsp.offset < Len(rtsp.raw) DEF HeaderRead, Nums
<1>4. OpenField(rtsp')
  BY ONLY HeaderRead DEF HeaderRead, OpenField
<1>5. ClosedFields(rtsp')
  <2>1. End(rtsp.name) <= rtsp.offset
    BY ONLY Bounds(rtsp), rtsp.stateM = "HEADER_LF"
    DEF Bounds, ClosedFields, NameBehind, HeaderState
  <2> QED
    BY ONLY <1>1, <2>1, HeaderRead
    DEF HeaderRead, ClosedFields, End, Nums, ValueBehind, ReasonBehind, MethodBehind, UriBehind,
        ValueKnown
<1>6. FirstLine(rtsp')
  <2>1. /\ rtsp'.stateM \notin StatusState /\ rtsp'.stateM \notin RequestState
        /\ rtsp'.stateM \notin LineState
    BY ONLY HeaderRead DEF HeaderRead, LineState, StatusState, RequestState
  <2>2. rtsp.stateM \notin LineState
    BY ONLY rtsp.stateM = "HEADER_LF" DEF LineState, StatusState, RequestState
  <2>3. /\ rtsp'.method = rtsp.method /\ rtsp'.uri = rtsp.uri /\ rtsp'.reason = rtsp.reason
        /\ rtsp'.server_mode = rtsp.server_mode /\ rtsp'.offset = rtsp.offset + 1
    BY ONLY HeaderRead DEF HeaderRead
  <2>4. /\ End(rtsp.method) \in Nat /\ End(rtsp.uri) \in Nat /\ End(rtsp.reason) \in Nat
        /\ rtsp.offset \in Nat
    BY ONLY <1>0 DEF End, Nums
  <2>5. IF rtsp.server_mode THEN End(rtsp.method) < rtsp.offset /\ End(rtsp.uri) < rtsp.offset
        ELSE End(rtsp.reason) < rtsp.offset
    BY ONLY <2>2, Bounds(rtsp) DEF Bounds, FirstLine
  <2>6. IF rtsp.server_mode
        THEN End(rtsp.method) < rtsp.offset + 1 /\ End(rtsp.uri) < rtsp.offset + 1
        ELSE End(rtsp.reason) < rtsp.offset + 1
    BY ONLY <2>4, <2>5
  <2> QED
    BY ONLY <2>1, <2>3, <2>6 DEF FirstLine
<1>7. HeadersBehind(rtsp')
  <2>1. /\ \A i \in DOMAIN rtsp'.headers : rtsp'.headers[i] \in HeaderType
        /\ rtsp'.offset = rtsp.offset + 1 /\ rtsp'.stateM \notin ValueKnown
        /\ rtsp'.transfer_encoding \in Nat
    BY ONLY HeaderRead DEF HeaderRead, ValueKnown
  <2>2. \A i \in DOMAIN rtsp'.headers :
          End(rtsp'.headers[i].name) \in Nat /\ End(rtsp'.headers[i].value) \in Nat
    BY ONLY <2>1 DEF HeaderType, FieldType, End
  <2>3. /\ \A i \in DOMAIN rtsp'.headers :
             End(rtsp'.headers[i].name) <= rtsp.offset /\ End(rtsp'.headers[i].value) <= rtsp.offset
        /\ rtsp'.transfer_encoding <= rtsp.offset /\ rtsp.offset \in Nat
    BY ONLY HeaderRead, <1>1 DEF HeaderRead, Nums
  <2>4. /\ \A i \in DOMAIN rtsp'.headers :
             End(rtsp'.headers[i].name) < rtsp'.offset /\ End(rtsp'.headers[i].value) < rtsp'.offset
        /\ rtsp'.transfer_encoding < rtsp'.offset
    BY ONLY <2>1, <2>2, <2>3
  <2> QED
    BY ONLY <2>1, <2>4 DEF HeadersBehind
<1>8. BodyBehind(rtsp')
  <2>1. rtsp.chunk.offset = 0 /\ rtsp.chunk.pos <= Len(rtsp.raw)
    BY ONLY Bounds(rtsp), rtsp.stateM = "HEADER_LF" DEF Bounds, BodyBehind, HeaderState
  <2> QED
    BY ONLY <2>1, HeaderRead DEF HeaderRead, BodyBehind, ChunkState
<1> QED
  BY ONLY <1>2, <1>3, <1>4, <1>5, <1>6, <1>7, <1>8 DEF Bounds

\* A header that the handler accepts is read: r is the parser with the header listed.
LEMMA HandlerReads ==
  ASSUME Typed(rtsp), Bounds(rtsp), rtsp.stateM = "HEADER_LF",
         NEW r, NEW h \in HeaderType, End(h.value) <= rtsp.offset,
         ~BadLength(r, h), rtsp' = rtsp_header_handler(r, h),
         DOMAIN r = DOMAIN rtsp, r.stateM = "HEADER_START", r.offset = rtsp.offset + 1,
         r.raw \in Seq(Token), Len(r.raw) = Len(rtsp.raw),
         \A k \in 1..Len(r.raw) : r.raw[k] \in {rtsp.raw[k], NUL, SP},
         \A g \in DOMAIN rtsp : g \notin {"stateM", "offset", "raw", "headers"} => r[g] = rtsp[g],
         r.headers \in Seq(HeaderType),
         \A i \in DOMAIN r.headers :
           End(r.headers[i].name) <= rtsp.offset /\ End(r.headers[i].value) <= rtsp.offset
  PROVE  HeaderRead
<1>1. Shape(rtsp) /\ rtsp.offset \in Nat /\ rtsp.transfer_encoding \in Nat
      /\ rtsp.raw \in Seq(Token) /\ h.value.pos \in Nat /\ h.value.len \in Nat
  BY DEF Typed, HeaderType, FieldType
<1>2. /\ r.server_mode = rtsp.server_mode /\ r.raw_capacity = rtsp.raw_capacity
      /\ r.name = rtsp.name /\ r.value = rtsp.value /\ r.method = rtsp.method
      /\ r.uri = rtsp.uri /\ r.reason = rtsp.reason /\ r.chunk = rtsp.chunk
      /\ r.content_length = rtsp.content_length
      /\ r.transfer_encoding = rtsp.transfer_encoding
  BY <1>1 DEF Shape, LineField
<1>3. Typed(r)
  <2>1. r.stateM \in HeaderState /\ r.offset \in Nat
    BY <1>1 DEF HeaderState
  <2>2. Shape(r)
    BY <1>1 DEF Shape
  <2> QED
    BY ONLY <1>2, <2>1, <2>2, Typed(rtsp), r.raw \in Seq(Token), r.headers \in Seq(HeaderType)
    DEF Typed
<1>4. rtsp.transfer_encoding = 0 \/ rtsp.transfer_encoding < rtsp.offset
  BY DEF Bounds, HeadersBehind
<1>5. is_transfer_encoding_chunked(rtsp) => rtsp.content_length = -1
  BY DEF Bounds, BodyBehind, HeaderState
<1>6. is_transfer_encoding_chunked(r) => is_transfer_encoding_chunked(rtsp)
  <2>1. Len(rtsp.raw) \in Nat /\ "chunked" \notin {NUL, SP}
    BY <1>1 DEF NUL, SP
  <2> QED
    BY <1>1, <1>2, <2>1 DEF is_transfer_encoding_chunked, Char
<1>7. /\ HandlerKeeps(r, rtsp')
      /\ rtsp'.raw \in Seq(Token) /\ Len(rtsp'.raw) = Len(r.raw)
      /\ \A k \in 1..Len(r.raw) : rtsp'.raw[k] \in {r.raw[k], NUL}
      /\ rtsp'.content_length \in Nat \cup {-1}
      /\ rtsp'.transfer_encoding \in {r.transfer_encoding, h.value.pos}
      /\ is_transfer_encoding_chunked(rtsp') => rtsp'.content_length = -1
  <2>1. is_transfer_encoding_chunked(r) => r.content_length = -1
    BY ONLY <1>2, <1>5, <1>6
  <2> QED
    BY ONLY <1>3, <2>1, HandlerBounds, ~BadLength(r, h), rtsp' = rtsp_header_handler(r, h),
            h \in HeaderType
<1>8. rtsp'.transfer_encoding \in Nat /\ rtsp'.transfer_encoding <= rtsp.offset
  BY ONLY <1>1, <1>2, <1>4, <1>7, End(h.value) <= rtsp.offset DEF End
<1>9. \A k \in 1..Len(rtsp.raw) : rtsp'.raw[k] \in {rtsp.raw[k], NUL, SP}
  BY ONLY <1>7, Len(r.raw) = Len(rtsp.raw),
          \A k \in 1..Len(r.raw) : r.raw[k] \in {rtsp.raw[k], NUL, SP}
<1> QED
  BY <1>2, <1>7, <1>8, <1>9 DEF HeaderRead, HandlerKeeps

\* rtsp_header_add lists the header.
LEMMA AddHeaderBounds ==
  ASSUME Typed(rtsp), Bounds(rtsp), rtsp.offset < Len(rtsp.raw),
         rtsp.stateM = "HEADER_LF", AddHeader, rtsp' # rtsp
  PROVE  Typed(rtsp') /\ Bounds(rtsp') /\ Kept /\ HeaderRead
<1>1. PICK h : h = [name |-> rtsp.name, value |-> rtsp.value]
  OBVIOUS
<1>2. PICK q : q = Move("HEADER_START", 1)
  OBVIOUS
<1>3. PICK raw : raw = Put(Put(rtsp.raw, End(rtsp.name), NUL), End(rtsp.value), NUL)
  OBVIOUS
<1>4. PICK r : r = rtsp_header_add(q, h)
  OBVIOUS
<1>5. /\ DOMAIN q = DOMAIN rtsp /\ q.stateM = "HEADER_START" /\ q.offset = rtsp.offset + 1
      /\ \A g \in DOMAIN rtsp : g \notin {"stateM", "offset"} => q[g] = rtsp[g]
  BY <1>2, Moved
<1>6. q.raw = rtsp.raw /\ q.headers = rtsp.headers
  BY ONLY <1>5, Typed(rtsp) DEF Typed, Shape
<1>7. r = [q EXCEPT !.raw = raw, !.headers = Append(rtsp.headers, h)]
  BY ONLY <1>1, <1>3, <1>4, <1>6 DEF rtsp_header_add, End
<1>8. /\ rtsp.value.pos # 0 /\ rtsp.name.pos # 0 /\ ~BadLength(r, h)
      /\ rtsp' = rtsp_header_handler(r, h)
  BY <1>1, <1>2, <1>4 DEF AddHeader, Checked
<1>9. h \in HeaderType /\ h.name = rtsp.name /\ h.value = rtsp.value
  BY <1>1 DEF Typed, HeaderType
<1>10. End(rtsp.name) <= rtsp.offset /\ End(rtsp.value) <= rtsp.offset
  BY <1>8 DEF Bounds, ClosedFields, NameBehind, ValueKnown, HeaderState
<1>11. /\ raw \in Seq(Token) /\ Len(raw) = Len(rtsp.raw)
       /\ \A k \in 1..Len(raw) : raw[k] = IF k \in {End(rtsp.name) + 1, End(rtsp.value) + 1}
                                         THEN NUL ELSE rtsp.raw[k]
  BY <1>3, TwoNuls
<1>12. /\ DOMAIN r = DOMAIN rtsp /\ r.stateM = "HEADER_START" /\ r.offset = rtsp.offset + 1
       /\ r.raw = raw /\ r.headers = Append(rtsp.headers, h)
       /\ \A g \in DOMAIN rtsp : g \notin {"stateM", "offset", "raw", "headers"} => r[g] = rtsp[g]
  BY ONLY <1>5, <1>7, Typed(rtsp) DEF Typed, Shape
<1>13. PICK hs : hs = Append(rtsp.headers, h)
  OBVIOUS
<1>14. /\ hs \in Seq(HeaderType) /\ Len(hs) = Len(rtsp.headers) + 1
       /\ \A i \in 1..Len(rtsp.headers) : hs[i] = rtsp.headers[i]
       /\ hs[Len(rtsp.headers) + 1] = h
  <2>1. rtsp.headers \in Seq(HeaderType)
    BY DEF Typed
  <2> QED
    BY ONLY <2>1, <1>9, <1>13, AppendProperties
<1>15. \A i \in DOMAIN hs : End(hs[i].name) <= rtsp.offset /\ End(hs[i].value) <= rtsp.offset
  <2>1. /\ Len(rtsp.headers) \in Nat /\ DOMAIN rtsp.headers = 1..Len(rtsp.headers)
        /\ \A i \in DOMAIN rtsp.headers : rtsp.headers[i] \in HeaderType
    BY DEF Typed
  <2>2. \A i \in DOMAIN rtsp.headers :
          End(rtsp.headers[i].name) <= rtsp.offset /\ End(rtsp.headers[i].value) <= rtsp.offset
    <3>1. \A i \in DOMAIN rtsp.headers :
            End(rtsp.headers[i].name) \in Nat /\ End(rtsp.headers[i].value) \in Nat
      BY ONLY <2>1 DEF HeaderType, FieldType, End
    <3>2. rtsp.offset \in Nat
      BY DEF Typed
    <3> QED
      BY ONLY <3>1, <3>2, Bounds(rtsp) DEF Bounds, HeadersBehind
  <2>3. DOMAIN hs = 1..(Len(rtsp.headers) + 1)
    BY ONLY <1>14, LenProperties
  <2>4. \A i \in DOMAIN hs : i \in DOMAIN rtsp.headers \/ i = Len(rtsp.headers) + 1
    BY ONLY <2>1, <2>3
  <2> QED
    BY ONLY <1>9, <1>10, <1>14, <2>1, <2>2, <2>4
<1>16. \A k \in 1..Len(r.raw) : r.raw[k] \in {rtsp.raw[k], NUL, SP}
  BY ONLY <1>11, <1>12
<1>17. HeaderRead
  <2>1. r.headers = hs
    BY <1>12, <1>13
  <2>2. r.headers \in Seq(HeaderType)
        /\ \A i \in DOMAIN r.headers :
             End(r.headers[i].name) <= rtsp.offset /\ End(r.headers[i].value) <= rtsp.offset
    BY ONLY <2>1, <1>14, <1>15
  <2>3. End(h.value) <= rtsp.offset
    BY <1>9, <1>10
  <2>4. r.raw \in Seq(Token) /\ Len(r.raw) = Len(rtsp.raw)
    BY ONLY <1>11, <1>12
  <2> QED
    BY ONLY <1>8, <1>9, <1>12, <1>16, <2>2, <2>3, <2>4, HandlerReads, Typed(rtsp), Bounds(rtsp),
            rtsp.stateM = "HEADER_LF"
<1> QED
  BY <1>17, HeaderReadBounds DEF HeaderRead, Kept

\* A fold leaves the joined header within the text.
LEMMA FoldHeaderBounds ==
  ASSUME Typed(rtsp), Bounds(rtsp), rtsp.offset < Len(rtsp.raw),
         rtsp.stateM = "HEADER_LF", FoldHeader, rtsp' # rtsp
  PROVE  Typed(rtsp') /\ Bounds(rtsp') /\ Kept /\ HeaderRead
<1>1. PICK n : n = Len(rtsp.headers)
  OBVIOUS
<1>2. PICK h : h = rtsp.headers[n]
  OBVIOUS
<1>3. PICK len : len = rtsp.value.pos - h.value.pos + rtsp.value.len
  OBVIOUS
<1>4. PICK joined : joined = [h EXCEPT !.value.len = len]
  OBVIOUS
<1>5. PICK blanked : blanked = [i \in 1..Len(rtsp.raw) |->
                                  IF i - 1 \in h.value.len..(rtsp.value.pos - 1)
                                  THEN SP ELSE rtsp.raw[i]]
  OBVIOUS
<1>6. PICK raw : raw = Put(blanked, joined.value.pos + joined.value.len, NUL)
  OBVIOUS
<1>7. PICK q : q = Move("HEADER_START", 1)
  OBVIOUS
<1>8. PICK r : r = [q EXCEPT !.headers[n] = joined, !.raw = raw]
  OBVIOUS
<1>9. /\ rtsp.value.pos # 0 /\ rtsp.name.pos = 0 /\ n # 0
      /\ ~BadLength(r, joined) /\ rtsp' = rtsp_header_handler(r, joined)
  BY <1>1, <1>2, <1>3, <1>4, <1>5, <1>6, <1>7, <1>8 DEF FoldHeader, Checked, raw_size
<1>10. /\ rtsp.headers \in Seq(HeaderType) /\ n \in Nat /\ DOMAIN rtsp.headers = 1..n
       /\ n \in 1..n /\ h \in HeaderType
  <2>1. /\ rtsp.headers \in Seq(HeaderType) /\ n \in Nat /\ DOMAIN rtsp.headers = 1..n
    BY <1>1 DEF Typed
  <2>2. n \in 1..n
    BY ONLY <1>9, <2>1
  <2> QED
    BY <2>1, <2>2, <1>2
<1>11. /\ h.value.pos \in Nat /\ h.value.len \in Nat /\ rtsp.value.pos \in Nat
       /\ rtsp.value.len \in Nat /\ rtsp.offset \in Nat
  <2>1. h.value.pos \in Nat /\ h.value.len \in Nat
    BY ONLY <1>10 DEF HeaderType, FieldType
  <2> QED
    BY ONLY <2>1, Typed(rtsp) DEF Typed, FieldType
<1>12. h.value.pos <= rtsp.value.pos /\ End(rtsp.value) <= rtsp.offset
  BY ONLY <1>2, <1>9, <1>10, Bounds(rtsp), rtsp.stateM = "HEADER_LF"
  DEF Bounds, HeadersBehind, ClosedFields, ValueKnown
<1>13. len \in Nat /\ h.value.pos + len = End(rtsp.value)
  BY ONLY <1>3, <1>11, <1>12 DEF End
<1>14. /\ joined = [name |-> h.name, value |-> [pos |-> h.value.pos, len |-> len]]
       /\ joined \in HeaderType
  BY ONLY <1>4, <1>10, <1>13 DEF HeaderType, FieldType
<1>15. joined.name = h.name /\ End(joined.value) = End(rtsp.value)
  BY ONLY <1>13, <1>14 DEF End
<1>16. /\ DOMAIN q = DOMAIN rtsp /\ q.stateM = "HEADER_START" /\ q.offset = rtsp.offset + 1
       /\ \A g \in DOMAIN rtsp : g \notin {"stateM", "offset"} => q[g] = rtsp[g]
  BY <1>7, Moved
<1>17. /\ DOMAIN r = DOMAIN rtsp /\ r.stateM = "HEADER_START" /\ r.offset = rtsp.offset + 1
       /\ r.raw = raw /\ r.headers = [rtsp.headers EXCEPT ![n] = joined]
       /\ \A g \in DOMAIN rtsp : g \notin {"stateM", "offset", "raw", "headers"} => r[g] = rtsp[g]
  BY ONLY <1>8, <1>16, Typed(rtsp) DEF Typed, Shape
<1>18. /\ blanked \in Seq(Token) /\ Len(blanked) = Len(rtsp.raw)
       /\ \A k \in 1..Len(rtsp.raw) : blanked[k] \in {rtsp.raw[k], SP}
  <2>1. Len(rtsp.raw) \in Nat /\ \A k \in 1..Len(rtsp.raw) : rtsp.raw[k] \in Token
    BY DEF Typed
  <2>2. SP \in Token
    BY DEF Token
  <2>3. blanked \in [1..Len(rtsp.raw) -> Token]
    BY ONLY <1>5, <2>1, <2>2
  <2>4. \A k \in 1..Len(rtsp.raw) : blanked[k] \in {rtsp.raw[k], SP}
    BY ONLY <1>5
  <2> QED
    BY ONLY <2>1, <2>3, <2>4, FunctionIsSequence
<1>19. /\ raw \in Seq(Token) /\ Len(raw) = Len(rtsp.raw)
       /\ \A k \in 1..Len(raw) : raw[k] \in {rtsp.raw[k], NUL, SP}
  <2>1. PICK i : i = joined.value.pos + joined.value.len
    OBVIOUS
  <2>2. NUL \in Token
    BY DEF Token
  <2>3. /\ raw \in Seq(Token) /\ Len(raw) = Len(blanked)
        /\ \A k \in 1..Len(blanked) : raw[k] = IF k = i + 1 THEN NUL ELSE blanked[k]
    BY ONLY <1>6, <1>18, <2>1, <2>2, PutText
  <2> QED
    BY ONLY <1>18, <2>3
<1>20. PICK hs : hs = [rtsp.headers EXCEPT ![n] = joined]
  OBVIOUS
<1>21. /\ hs \in Seq(HeaderType) /\ DOMAIN hs = 1..n
       /\ \A i \in 1..n : hs[i] = IF i = n THEN joined ELSE rtsp.headers[i]
  <2>1. DOMAIN hs = 1..n /\ \A i \in 1..n : hs[i] = IF i = n THEN joined ELSE rtsp.headers[i]
    BY ONLY <1>10, <1>20
  <2>2. hs \in [1..n -> HeaderType]
    <3>1. \A i \in 1..n : rtsp.headers[i] \in HeaderType
      BY ONLY <1>10
    <3> QED
      BY ONLY <1>10, <1>14, <1>20, <3>1
  <2> QED
    BY ONLY <1>10, <2>1, <2>2, FunctionIsSequence
<1>22. \A i \in 1..n : End(hs[i].name) <= rtsp.offset /\ End(hs[i].value) <= rtsp.offset
  <2>1. \A i \in 1..n : rtsp.headers[i] \in HeaderType
    BY ONLY <1>10
  <2>2. \A i \in 1..n :
          End(rtsp.headers[i].name) \in Nat /\ End(rtsp.headers[i].value) \in Nat
    BY ONLY <2>1 DEF HeaderType, FieldType, End
  <2>3. \A i \in 1..n :
          End(rtsp.headers[i].name) < rtsp.offset /\ End(rtsp.headers[i].value) < rtsp.offset
    BY ONLY <1>10, Bounds(rtsp) DEF Bounds, HeadersBehind
  <2>4. \A i \in 1..n :
          End(rtsp.headers[i].name) <= rtsp.offset /\ End(rtsp.headers[i].value) <= rtsp.offset
    BY ONLY <1>11, <2>2, <2>3
  <2> QED
    BY ONLY <1>2, <1>10, <1>12, <1>15, <1>21, <2>4
<1>23. HeaderRead
  <2>1. r.headers = hs
    BY <1>17, <1>20
  <2>2. r.headers \in Seq(HeaderType)
        /\ \A i \in DOMAIN r.headers :
             End(r.headers[i].name) <= rtsp.offset /\ End(r.headers[i].value) <= rtsp.offset
    BY ONLY <2>1, <1>21, <1>22
  <2>3. End(joined.value) <= rtsp.offset
    BY <1>12, <1>15
  <2>4. /\ r.raw \in Seq(Token) /\ Len(r.raw) = Len(rtsp.raw)
        /\ \A k \in 1..Len(r.raw) : r.raw[k] \in {rtsp.raw[k], NUL, SP}
    BY ONLY <1>17, <1>19
  <2> QED
    BY ONLY <1>9, <1>14, <1>17, <2>2, <2>3, <2>4, HandlerReads, Typed(rtsp), Bounds(rtsp),
            rtsp.stateM = "HEADER_LF"
<1> QED
  BY <1>23, HeaderReadBounds DEF HeaderRead, Kept

-----------------------------------------------------------------------------
(* Each turn of the three loops, and the steps between them.                 *)

\* What the text and the results keep in a stretch of rtsp_parser_input.
Goes == message' = message /\ fed' = fed /\ ret' \in {"running", "parse assert", "overrun"}

\* rtsp_parse_status_line stays within the text.
LEMMA StatusTurnBounds ==
  ASSUME Typed(rtsp), Bounds(rtsp), StatusTurn
  PROVE  Typed(rtsp') /\ Bounds(rtsp') /\ Kept /\ Goes
<1>1. PICK c : c = Char(rtsp, rtsp.offset)
  OBVIOUS
<1>2. /\ ret = "running" /\ rtsp.stateM \in StatusState /\ rtsp.offset < Len(rtsp.raw)
      /\ \/ LineTurn(rtsp.stateM, c) /\ ret' = ret
         \/ LineCr(rtsp.stateM, c)
         \/ EndStatusLine(rtsp.stateM)
      /\ message' = message /\ fed' = fed
  BY <1>1 DEF StatusTurn, raw_size
<1>3. rtsp.stateM \in LineState \cup HeaderState
  BY ONLY <1>2 DEF LineState
<1>4. Goes
  BY ONLY <1>2 DEF Goes, LineCr, EndStatusLine, Checked
<1>5. CASE LineTurn(rtsp.stateM, c)
  BY ONLY <1>2, <1>3, <1>4, <1>5, Typed(rtsp), Bounds(rtsp), LineTurnBounds DEF SameRest, Kept
<1>6. CASE LineCr(rtsp.stateM, c)
  BY ONLY <1>2, <1>3, <1>4, <1>6, Typed(rtsp), Bounds(rtsp), LineCrBounds DEF SameRest, Kept
<1>7. CASE rtsp' = rtsp
  BY ONLY <1>4, <1>7, Typed(rtsp), Bounds(rtsp) DEF Kept
<1>8. CASE EndStatusLine(rtsp.stateM) /\ rtsp' # rtsp
  <2>1. FirstLineRead /\ rtsp.stateM = "STATUS_LF"
    BY ONLY <1>8, Typed(rtsp), StatusLineRead
  <2> QED
    BY ONLY <1>2, <1>4, <2>1, Typed(rtsp), Bounds(rtsp), FirstLineBounds DEF FirstLineRead, Kept
<1> QED
  BY ONLY <1>2, <1>5, <1>6, <1>7, <1>8

\* So does rtsp_parse_request_line,
LEMMA RequestTurnBounds ==
  ASSUME Typed(rtsp), Bounds(rtsp), RequestTurn
  PROVE  Typed(rtsp') /\ Bounds(rtsp') /\ Kept /\ Goes
<1>1. PICK c : c = Char(rtsp, rtsp.offset)
  OBVIOUS
<1>2. /\ ret = "running" /\ rtsp.stateM \in RequestState /\ rtsp.offset < Len(rtsp.raw)
      /\ \/ LineTurn(rtsp.stateM, c) /\ ret' = ret
         \/ LineCr(rtsp.stateM, c)
         \/ EndRequestLine(rtsp.stateM)
      /\ message' = message /\ fed' = fed
  BY <1>1 DEF RequestTurn, raw_size
<1>3. rtsp.stateM \in LineState \cup HeaderState
  BY ONLY <1>2 DEF LineState
<1>4. Goes
  BY ONLY <1>2 DEF Goes, LineCr, EndRequestLine, Checked
<1>5. CASE LineTurn(rtsp.stateM, c)
  BY ONLY <1>2, <1>3, <1>4, <1>5, Typed(rtsp), Bounds(rtsp), LineTurnBounds DEF SameRest, Kept
<1>6. CASE LineCr(rtsp.stateM, c)
  BY ONLY <1>2, <1>3, <1>4, <1>6, Typed(rtsp), Bounds(rtsp), LineCrBounds DEF SameRest, Kept
<1>7. CASE rtsp' = rtsp
  BY ONLY <1>4, <1>7, Typed(rtsp), Bounds(rtsp) DEF Kept
<1>8. CASE EndRequestLine(rtsp.stateM) /\ rtsp' # rtsp
  <2>1. FirstLineRead /\ rtsp.stateM = "REQUEST_LF"
    BY ONLY <1>8, Typed(rtsp), RequestLineRead
  <2> QED
    BY ONLY <1>2, <1>4, <2>1, Typed(rtsp), Bounds(rtsp), FirstLineBounds DEF FirstLineRead, Kept
<1> QED
  BY ONLY <1>2, <1>5, <1>6, <1>7, <1>8

\* and rtsp_parse_header_line.
LEMMA HeaderTurnBounds ==
  ASSUME Typed(rtsp), Bounds(rtsp), HeaderTurn
  PROVE  Typed(rtsp') /\ Bounds(rtsp') /\ Kept /\ Goes
<1>1. PICK c : c = Char(rtsp, rtsp.offset)
  OBVIOUS
<1>2. /\ ret = "running" /\ rtsp.stateM \in HeaderState /\ rtsp.offset < Len(rtsp.raw)
      /\ \/ rtsp.stateM = "HEADER_START" /\ rtsp' = HeaderStart(c) /\ ret' = ret
         \/ LineTurn(rtsp.stateM, c) /\ ret' = ret
         \/ rtsp.stateM = "HEADER_SEPARATOR" /\ Checked(c = COLON, Move("HEADER_SP2", 1))
         \/ LineCr(rtsp.stateM, c)
         \/ rtsp.stateM = "HEADER_LF" /\ (EndHeaders \/ AddHeader \/ FoldHeader)
      /\ message' = message /\ fed' = fed
  BY <1>1 DEF HeaderTurn, raw_size
<1>3. rtsp.stateM \in LineState \cup HeaderState
  BY ONLY <1>2
<1>4. Goes
  BY ONLY <1>2 DEF Goes, LineCr, EndHeaders, AddHeader, FoldHeader, Checked
<1>5. CASE rtsp.stateM = "HEADER_START" /\ rtsp' = HeaderStart(c)
  BY ONLY <1>2, <1>4, <1>5, Typed(rtsp), Bounds(rtsp), HeaderStartBounds DEF SameRest, Kept
<1>6. CASE LineTurn(rtsp.stateM, c)
  BY ONLY <1>2, <1>3, <1>4, <1>6, Typed(rtsp), Bounds(rtsp), LineTurnBounds DEF SameRest, Kept
<1>7. CASE rtsp' = rtsp
  BY ONLY <1>4, <1>7, Typed(rtsp), Bounds(rtsp) DEF Kept
<1>8. CASE rtsp.stateM = "HEADER_SEPARATOR" /\ rtsp' = Move("HEADER_SP2", 1)
  BY ONLY <1>2, <1>4, <1>8, Typed(rtsp), Bounds(rtsp), SeparatorBounds DEF SameRest, Kept
<1>9. CASE LineCr(rtsp.stateM, c)
  BY ONLY <1>2, <1>3, <1>4, <1>9, Typed(rtsp), Bounds(rtsp), LineCrBounds DEF SameRest, Kept
<1>10. CASE rtsp.stateM = "HEADER_LF" /\ EndHeaders
  BY ONLY <1>2, <1>4, <1>10, Typed(rtsp), Bounds(rtsp), EndHeadersBounds DEF Turned, SameRest, Kept
<1>11. CASE rtsp.stateM = "HEADER_LF" /\ AddHeader /\ rtsp' # rtsp
  BY ONLY <1>2, <1>4, <1>11, Typed(rtsp), Bounds(rtsp), AddHeaderBounds
<1>12. CASE rtsp.stateM = "HEADER_LF" /\ FoldHeader /\ rtsp' # rtsp
  BY ONLY <1>2, <1>4, <1>12, Typed(rtsp), Bounds(rtsp), FoldHeaderBounds
<1>13. Checked(c = COLON, Move("HEADER_SP2", 1)) => rtsp' \in {rtsp, Move("HEADER_SP2", 1)}
  BY DEF Checked
<1> QED
  BY ONLY <1>2, <1>5, <1>6, <1>7, <1>8, <1>9, <1>10, <1>11, <1>12, <1>13

\* What a turn in the body leaves alone: all but the state, the text's tokens from the body
\* on, the length and the chunk.
BodyTurned ==
  /\ DOMAIN rtsp' = DOMAIN rtsp
  /\ rtsp'.offset = rtsp.offset /\ Kept
  /\ rtsp'.name = rtsp.name /\ rtsp'.value = rtsp.value /\ rtsp'.method = rtsp.method
  /\ rtsp'.uri = rtsp.uri /\ rtsp'.reason = rtsp.reason /\ rtsp'.code = rtsp.code
  /\ rtsp'.headers = rtsp.headers /\ rtsp'.connection_close = rtsp.connection_close
  /\ rtsp'.content_encoding = rtsp.content_encoding
  /\ rtsp'.transfer_encoding = rtsp.transfer_encoding
  /\ rtsp'.cookie = rtsp.cookie /\ rtsp'.location = rtsp.location
  /\ rtsp'.raw \in Seq(Token)
  /\ rtsp'.stateM \in ChunkState \cup {"DONE"}

\* Only the body's own bounds have to be shown again.
LEMMA BodyTurnBounds ==
  ASSUME Typed(rtsp), Bounds(rtsp), rtsp.stateM \in ChunkState, BodyTurned,
         rtsp'.content_length \in Nat \cup {-1}, rtsp'.chunk \in ChunkType, BodyBehind(rtsp')
  PROVE  Typed(rtsp') /\ Bounds(rtsp') /\ Kept
<1>1. \A s \in ChunkState \cup {"DONE"} :
        /\ s \notin StatusState /\ s \notin RequestState /\ s \notin LineState
        /\ s \notin HeaderState /\ s \notin NameBehind /\ s \notin ValueBehind
        /\ s \notin ReasonBehind /\ s \notin MethodBehind /\ s \notin UriBehind
        /\ s \notin ValueKnown
  BY DEF ChunkState, StatusState, RequestState, LineState, HeaderState, NameBehind, ValueBehind,
         ReasonBehind, MethodBehind, UriBehind, ValueKnown
<1>2. /\ rtsp'.stateM \notin StatusState /\ rtsp'.stateM \notin RequestState
      /\ rtsp'.stateM \notin LineState /\ rtsp.stateM \notin LineState
      /\ rtsp'.stateM \notin HeaderState /\ rtsp'.stateM \notin NameBehind
      /\ rtsp'.stateM \notin ValueBehind /\ rtsp'.stateM \notin ReasonBehind
      /\ rtsp'.stateM \notin MethodBehind /\ rtsp'.stateM \notin UriBehind
      /\ rtsp'.stateM \notin ValueKnown
  BY ONLY <1>1, rtsp.stateM \in ChunkState, BodyTurned DEF BodyTurned
<1>3. Typed(rtsp')
  BY ONLY Typed(rtsp), BodyTurned, rtsp'.content_length \in Nat \cup {-1},
          rtsp'.chunk \in ChunkType DEF BodyTurned, Kept, Typed, Shape
<1>4. OpenField(rtsp')
  <2>1. rtsp'.stateM \in ChunkState \cup {"DONE"}
    BY DEF BodyTurned
  <2> QED
    BY ONLY <2>1 DEF OpenField, ChunkState
<1>5. ClosedFields(rtsp')
  BY ONLY <1>2 DEF ClosedFields
<1>6. FirstLine(rtsp') /\ HeadersBehind(rtsp')
  BY ONLY <1>2, Bounds(rtsp), BodyTurned DEF BodyTurned, Kept, Bounds, FirstLine, HeadersBehind
<1> QED
  BY ONLY <1>3, <1>4, <1>5, <1>6, Bounds(rtsp), BodyTurned, BodyBehind(rtsp')
  DEF Bounds, BodyTurned, Kept

\* rtsp_parse_chunked begins behind the headers.
LEMMA ChunkEnterBounds ==
  ASSUME Typed(rtsp), Bounds(rtsp), ChunkEnter
  PROVE  Typed(rtsp') /\ Bounds(rtsp') /\ Kept /\ Goes
<1>1. Goes
  BY DEF ChunkEnter, Goes, Checked
<1>2. CASE rtsp' = rtsp
  BY ONLY <1>1, <1>2, Typed(rtsp), Bounds(rtsp) DEF Kept
<1>3. CASE rtsp' = [rtsp EXCEPT !.chunk.offset = rtsp.offset, !.content_length = 0]
  <2>1. /\ rtsp.stateM \in ChunkState /\ rtsp.chunk.offset = 0
    BY DEF ChunkEnter
  <2>2. rtsp.chunk \in ChunkType /\ rtsp.offset \in Nat /\ Shape(rtsp) /\ Len(rtsp.raw) \in Nat
    BY DEF Typed
  <2>3. rtsp'.chunk = [offset |-> rtsp.offset, len |-> rtsp.chunk.len, pos |-> rtsp.chunk.pos]
    BY ONLY <1>3, <2>2 DEF Shape, ChunkType
  <2>4. /\ DOMAIN rtsp' = DOMAIN rtsp /\ rtsp'.content_length = 0
        /\ \A g \in DOMAIN rtsp : g \notin {"chunk", "content_length"} => rtsp'[g] = rtsp[g]
    BY ONLY <1>3, <2>2 DEF Shape
  <2>5. rtsp'.stateM = rtsp.stateM /\ rtsp'.offset = rtsp.offset /\ rtsp'.raw = rtsp.raw
    BY ONLY <2>2, <2>4 DEF Shape
  <2>6. BodyTurned
    BY ONLY <2>1, <2>2, <2>4, Typed(rtsp) DEF BodyTurned, Kept, Typed, Shape, LineField
  <2>7. rtsp'.chunk \in ChunkType /\ rtsp'.chunk.offset = rtsp.offset
        /\ rtsp'.chunk.pos = rtsp.chunk.pos
    BY ONLY <2>2, <2>3 DEF ChunkType
  <2>8. rtsp.stateM = "CHUNK_START" /\ rtsp.chunk.pos <= Len(rtsp.raw)
        /\ rtsp.offset <= Len(rtsp.raw)
    BY ONLY <2>1, Bounds(rtsp) DEF Bounds, BodyBehind
  <2>9. BodyBehind(rtsp')
    <3>1. rtsp'.stateM \notin LineState \cup HeaderState
      BY ONLY <2>5, <2>8 DEF LineState, StatusState, RequestState, HeaderState
    <3>2. rtsp'.content_length \in Nat /\ rtsp'.offset + rtsp'.content_length = rtsp.offset
      BY ONLY <2>2, <2>4, <2>5
    <3>3. rtsp.offset # 0
      <4>1. Nums(rtsp) /\ rtsp.stateM \notin LineState
        BY <2>8, TypedNums DEF LineState, StatusState, RequestState
      <4>2. FirstLine(rtsp)
        BY DEF Bounds
      <4>3. End(rtsp.uri) \in Nat /\ End(rtsp.reason) \in Nat /\ rtsp.offset \in Nat
        BY ONLY <4>1 DEF Nums, End
      <4> QED
        BY ONLY <4>1, <4>2, <4>3 DEF FirstLine
    <3> QED
      BY ONLY <2>2, <2>5, <2>7, <2>8, <3>1, <3>2, <3>3 DEF BodyBehind
  <2>10. rtsp'.content_length \in Nat \cup {-1}
    BY ONLY <2>4
  <2> QED
    BY ONLY <1>1, <2>1, <2>6, <2>7, <2>9, <2>10, BodyTurnBounds, Typed(rtsp), Bounds(rtsp)
<1> QED
  BY ONLY <1>2, <1>3, ChunkEnter DEF ChunkEnter, Checked

\* A turn of rtsp_parse_chunked that reads one token: it leads to state s and chunk.
Scanned(s, chunk) ==
  /\ DOMAIN rtsp' = DOMAIN rtsp
  /\ rtsp'.stateM = s /\ rtsp'.chunk = chunk
  /\ \A g \in DOMAIN rtsp : g \notin {"stateM", "chunk"} => rtsp'[g] = rtsp[g]

Next1(len, pos) == [offset |-> rtsp.chunk.offset + 1, len |-> len, pos |-> pos]

\* A plain step to the next token,
LEMMA ScanScans ==
  ASSUME Typed(rtsp), NEW s, rtsp' = Scan(s)
  PROVE  Scanned(s, Next1(rtsp.chunk.len, rtsp.chunk.pos))
BY DEF Typed, Shape, ChunkType, Scan, Scanned, Next1

\* one that notes the chunk's size,
LEMMA StartScans ==
  ASSUME Typed(rtsp), NEW s, NEW n, rtsp' = [Scan(s) EXCEPT !.chunk.len = n]
  PROVE  Scanned(s, Next1(n, rtsp.chunk.pos))
<1>1. PICK q : q = Scan(s)
  OBVIOUS
<1>2. /\ DOMAIN q = DOMAIN rtsp /\ q.stateM = s
      /\ q.chunk = [offset |-> rtsp.chunk.offset + 1, len |-> rtsp.chunk.len,
                    pos |-> rtsp.chunk.pos]
      /\ \A g \in DOMAIN rtsp : g \notin {"stateM", "chunk"} => q[g] = rtsp[g]
  BY <1>1 DEF Typed, Shape, ChunkType, Scan
<1>3. rtsp' = [q EXCEPT !.chunk.len = n]
  BY <1>1
<1> QED
  BY ONLY <1>2, <1>3, Typed(rtsp) DEF Typed, Shape, Scanned, Next1

\* and one to the chunk's data, or behind the last chunk.
LEMMA SizeScans ==
  ASSUME Typed(rtsp), rtsp' = AfterSize
  PROVE  Scanned(IF rtsp.chunk.len = 0 THEN "CHUNK_TRAILER_START" ELSE "CHUNK_DATA",
                 Next1(rtsp.chunk.len, rtsp.chunk.offset + 1))
<1>1. PICK s : s = IF rtsp.chunk.len = 0 THEN "CHUNK_TRAILER_START" ELSE "CHUNK_DATA"
  OBVIOUS
<1>2. PICK q : q = Scan(s)
  OBVIOUS
<1>3. /\ DOMAIN q = DOMAIN rtsp /\ q.stateM = s
      /\ q.chunk = [offset |-> rtsp.chunk.offset + 1, len |-> rtsp.chunk.len,
                    pos |-> rtsp.chunk.pos]
      /\ \A g \in DOMAIN rtsp : g \notin {"stateM", "chunk"} => q[g] = rtsp[g]
  BY <1>2 DEF Typed, Shape, ChunkType, Scan
<1>4. rtsp' = [q EXCEPT !.chunk.pos = rtsp.chunk.offset + 1]
  BY <1>1, <1>2 DEF AfterSize
<1> QED
  BY ONLY <1>1, <1>3, <1>4, Typed(rtsp) DEF Typed, Shape, Scanned, Next1

\* Such a turn stays within the text.
LEMMA ScannedBounds ==
  ASSUME Typed(rtsp), Bounds(rtsp), rtsp.stateM \in ChunkState,
         rtsp.chunk.offset # 0, rtsp.chunk.offset < Len(rtsp.raw),
         NEW s \in (ChunkState \cup {"DONE"}) \ {"CHUNK_START"}, NEW len \in Nat, NEW pos \in Nat,
         pos <= Len(rtsp.raw), s = "CHUNK_DATA" => pos = rtsp.chunk.offset + 1,
         Scanned(s, Next1(len, pos))
  PROVE  Typed(rtsp') /\ Bounds(rtsp') /\ Kept
<1>1. /\ Shape(rtsp) /\ rtsp.chunk.offset \in Nat /\ Len(rtsp.raw) \in Nat
      /\ rtsp.offset \in Nat /\ rtsp.content_length \in Nat \cup {-1}
  BY DEF Typed, ChunkType
<1>2. /\ rtsp'.raw = rtsp.raw /\ rtsp'.offset = rtsp.offset
      /\ rtsp'.content_length = rtsp.content_length
      /\ rtsp'.stateM = s /\ rtsp'.chunk.offset = rtsp.chunk.offset + 1
      /\ rtsp'.chunk.len = len /\ rtsp'.chunk.pos = pos
  BY ONLY <1>1, Scanned(s, Next1(len, pos)) DEF Scanned, Next1, Shape
<1>3. BodyTurned
  <2>1. s \in ChunkState \cup {"DONE"}
    OBVIOUS
  <2> QED
    BY ONLY <1>1, <2>1, Typed(rtsp), Scanned(s, Next1(len, pos))
    DEF Scanned, BodyTurned, Kept, Typed, Shape, LineField
<1>4. rtsp'.chunk \in ChunkType
  BY ONLY <1>1, Scanned(s, Next1(len, pos)), len \in Nat, pos \in Nat
  DEF Scanned, Next1, ChunkType
<1>5. /\ rtsp.content_length \in Nat
      /\ rtsp.offset + rtsp.content_length <= rtsp.chunk.offset
  BY ONLY Bounds(rtsp), rtsp.chunk.offset # 0 DEF Bounds, BodyBehind
<1>6. BodyBehind(rtsp')
  <2>1. rtsp'.stateM \notin LineState \cup HeaderState
    BY ONLY <1>2, s \in (ChunkState \cup {"DONE"}) \ {"CHUNK_START"}
    DEF LineState, StatusState, RequestState, HeaderState, ChunkState
  <2>2. rtsp'.chunk.offset # 0
    BY ONLY <1>1, <1>2
  <2>3. /\ rtsp'.offset + rtsp'.content_length <= rtsp'.chunk.offset
        /\ rtsp'.chunk.offset <= Len(rtsp'.raw)
        /\ rtsp'.offset + rtsp'.content_length <= Len(rtsp'.raw)
    BY ONLY <1>1, <1>2, <1>5, rtsp.chunk.offset < Len(rtsp.raw)
  <2> QED
    BY ONLY <1>2, <1>5, <2>1, <2>2, <2>3, pos <= Len(rtsp.raw),
            s = "CHUNK_DATA" => pos = rtsp.chunk.offset + 1 DEF BodyBehind
<1>7. rtsp'.content_length \in Nat \cup {-1}
  BY ONLY <1>1, <1>2
<1> QED
  BY <1>3, <1>4, <1>6, <1>7, BodyTurnBounds

\* Where the sum does not wrap, the test for a chunk that is missing is right.
LEMMA NoWrap ==
  ASSUME NEW M \in Nat, NEW n \in Nat, n < M
  PROVE  n % M = n
OBVIOUS

LEMMA ChunkThere ==
  ASSUME Typed(rtsp), rtsp.stateM = "CHUNK_DATA", ~ChunkWraps
  PROVE  /\ ChunkMissing <=> rtsp.chunk.pos + rtsp.chunk.len + 2 > Len(rtsp.raw)
         /\ ChunkEnd = rtsp.chunk.pos + rtsp.chunk.len
         /\ (ChunkEnd + 1) % SizeMod = ChunkEnd + 1
<1>1. PICK n : n = rtsp.chunk.pos + rtsp.chunk.len
  OBVIOUS
<1>2. n \in Nat /\ SizeMod \in Nat /\ n + 2 < SizeMod
  BY <1>1, SizeAssumption DEF Typed, ChunkType, ChunkWraps
<1>3. n % SizeMod = n /\ (n + 1) % SizeMod = n + 1 /\ (n + 2) % SizeMod = n + 2
  BY ONLY <1>2, NoWrap
<1> QED
  BY ONLY <1>1, <1>3, rtsp.stateM = "CHUNK_DATA" DEF ChunkMissing, ChunkEnd, raw_size

\* The data of a chunk, which is there whole, moves to the end of the body.
LEMMA TakeChunkBounds ==
  ASSUME Typed(rtsp), Bounds(rtsp), rtsp.stateM = "CHUNK_DATA",
         rtsp.chunk.offset # 0, ~ChunkMissing, ~ChunkWraps, rtsp' = TakeChunk
  PROVE  Typed(rtsp') /\ Bounds(rtsp') /\ Kept
<1> DEFINE len == rtsp.chunk.len
           from == rtsp.chunk.pos
           total == Len(rtsp.raw)
<1>1. /\ Shape(rtsp) /\ rtsp.raw \in Seq(Token) /\ rtsp.offset \in Nat
      /\ rtsp.chunk.offset \in Nat /\ len \in Nat /\ from \in Nat /\ total \in Nat
  BY DEF Typed, ChunkType
<1>2. /\ rtsp.content_length \in Nat /\ BodyEnd <= rtsp.chunk.offset
      /\ from = rtsp.chunk.offset /\ from + len + 2 <= total
  BY <1>1, ChunkThere DEF Bounds, BodyBehind, BodyEnd
<1>3. BodyEnd \in Nat /\ BodyEnd = rtsp.offset + rtsp.content_length
  BY ONLY <1>1, <1>2 DEF BodyEnd
<1>4. PICK moved : moved = [i \in 1..total |->
                              IF i - 1 \in BodyEnd..(BodyEnd + len - 1)
                              THEN rtsp.raw[from + (i - BodyEnd)] ELSE rtsp.raw[i]]
  OBVIOUS
<1>5. PICK raw : raw = Put(moved, BodyEnd + len, NUL)
  OBVIOUS
<1>6. rtsp' = [rtsp EXCEPT !.stateM = "CHUNK_START", !.raw = raw,
                           !.content_length = @ + len,
                           !.chunk = [offset |-> @.offset + @.len + 2, len |-> 0, pos |-> 0]]
  BY <1>4, <1>5 DEF TakeChunk, raw_size
<1>7. moved \in Seq(Token) /\ Len(moved) = total
  <2>1. \A i \in 1..total : rtsp.raw[i] \in Token
    BY ONLY <1>1
  <2>2. \A i \in 1..total : i - 1 \in BodyEnd..(BodyEnd + len - 1) => from + (i - BodyEnd) \in 1..total
    <3>1. PICK b, l, f, t : b = BodyEnd /\ l = len /\ f = from /\ t = total
      OBVIOUS
    <3>2. b \in Nat /\ l \in Nat /\ f \in Nat /\ t \in Nat /\ f + l + 2 <= t
      BY ONLY <1>1, <1>2, <1>3, <3>1
    <3>3. \A i \in 1..t : i - 1 \in b..(b + l - 1) => f + (i - b) \in 1..t
      BY ONLY <3>2
    <3> QED
      BY ONLY <3>1, <3>3
  <2>3. moved \in [1..total -> Token]
    BY ONLY <1>4, <2>1, <2>2
  <2> QED
    BY ONLY <1>1, <2>3, FunctionIsSequence
<1>8. raw \in Seq(Token) /\ Len(raw) = total
  <2>1. NUL \in Token
    BY DEF Token
  <2>2. PICK e : e = BodyEnd + len
    OBVIOUS
  <2> QED
    BY ONLY <1>5, <1>7, <2>1, <2>2, PutText
<1>9. /\ DOMAIN rtsp' = DOMAIN rtsp /\ rtsp'.stateM = "CHUNK_START" /\ rtsp'.raw = raw
      /\ rtsp'.content_length = rtsp.content_length + len
      /\ rtsp'.chunk = [offset |-> rtsp.chunk.offset + len + 2, len |-> 0, pos |-> 0]
      /\ \A g \in DOMAIN rtsp :
           g \notin {"stateM", "raw", "content_length", "chunk"} => rtsp'[g] = rtsp[g]
  BY ONLY <1>1, <1>6 DEF Shape
<1>10. BodyTurned
  BY ONLY <1>1, <1>8, <1>9 DEF BodyTurned, Kept, Shape, LineField, ChunkState
<1>11. /\ rtsp'.chunk.offset = rtsp.chunk.offset + len + 2 /\ rtsp'.chunk.pos = 0
       /\ rtsp'.chunk \in ChunkType /\ rtsp'.offset = rtsp.offset
  BY ONLY <1>1, <1>9 DEF ChunkType, Shape
<1>12. BodyBehind(rtsp')
  <2>1. rtsp'.stateM \notin LineState \cup HeaderState
    BY ONLY <1>9 DEF LineState, StatusState, RequestState, HeaderState
  <2>2. rtsp'.chunk.offset # 0 /\ rtsp'.content_length \in Nat
    BY ONLY <1>1, <1>2, <1>9, <1>11
  <2>3. /\ rtsp'.offset + rtsp'.content_length <= rtsp'.chunk.offset
        /\ rtsp'.chunk.offset <= Len(rtsp'.raw) /\ rtsp'.chunk.pos <= Len(rtsp'.raw)
    BY ONLY <1>1, <1>2, <1>3, <1>8, <1>9, <1>11
  <2> QED
    BY ONLY <1>9, <2>1, <2>2, <2>3 DEF BodyBehind
<1>13. rtsp'.content_length \in Nat \cup {-1} /\ rtsp.stateM \in ChunkState
  BY ONLY <1>1, <1>2, <1>9, rtsp.stateM = "CHUNK_DATA" DEF ChunkState
<1> QED
  BY <1>10, <1>11, <1>12, <1>13, BodyTurnBounds

\* rtsp_parse_chunked stays within the text.
LEMMA ChunkTurnBounds ==
  ASSUME Typed(rtsp), Bounds(rtsp), ChunkTurn
  PROVE  Typed(rtsp') /\ Bounds(rtsp') /\ Kept /\ Goes
<1>1. PICK c : c = Char(rtsp, rtsp.chunk.offset)
  OBVIOUS
<1>2. PICK st : st = rtsp.stateM
  OBVIOUS
<1>3. /\ ret = "running" /\ message' = message /\ fed' = fed
      /\ rtsp.chunk.offset # 0 /\ rtsp.chunk.offset < Len(rtsp.raw) /\ ~ChunkMissing
  BY DEF ChunkTurn, raw_size
<1>4. ret' \in {"running", "parse assert", "overrun"} /\ st \in ChunkState
  BY <1>2, <1>3 DEF ChunkTurn, Checked, ChunkState
<1>5. Goes
  BY <1>3, <1>4 DEF Goes
<1>6. /\ rtsp.chunk.offset \in Nat /\ rtsp.chunk.len \in Nat /\ rtsp.chunk.pos \in Nat
      /\ Len(rtsp.raw) \in Nat
  BY DEF Typed, ChunkType
<1>7. rtsp.chunk.pos <= Len(rtsp.raw)
  BY DEF Bounds, BodyBehind
<1>8. CASE rtsp' = rtsp
  BY ONLY <1>5, <1>8, Typed(rtsp), Bounds(rtsp) DEF Kept
<1>9. ASSUME NEW s \in (ChunkState \cup {"DONE"}) \ {"CHUNK_START", "CHUNK_DATA"}, rtsp' = Scan(s)
      PROVE  Typed(rtsp') /\ Bounds(rtsp') /\ Kept
  <2>1. Scanned(s, Next1(rtsp.chunk.len, rtsp.chunk.pos))
    BY ONLY <1>9, Typed(rtsp), ScanScans
  <2>2. s # "CHUNK_DATA" /\ s \in (ChunkState \cup {"DONE"}) \ {"CHUNK_START"}
    BY <1>9
  <2> QED
    BY ONLY <1>2, <1>3, <1>4, <1>6, <1>7, <2>1, <2>2, ScannedBounds, Typed(rtsp), Bounds(rtsp)
<1>10. CASE c \in DOMAIN Hex /\ rtsp' = [Scan("CHUNK_SIZE") EXCEPT !.chunk.len = HexSize(c)]
  <2>1. PICK n, s : n = HexSize(c) /\ s = "CHUNK_SIZE"
    OBVIOUS
  <2>2. n \in Nat
    BY <1>10, <2>1, HexFits, SizeAssumption
  <2>3. Scanned(s, Next1(n, rtsp.chunk.pos))
    BY ONLY <1>10, <2>1, Typed(rtsp), StartScans
  <2>4. s # "CHUNK_DATA" /\ s \in (ChunkState \cup {"DONE"}) \ {"CHUNK_START"}
    BY ONLY <2>1 DEF ChunkState
  <2> QED
    BY ONLY <1>2, <1>3, <1>4, <1>5, <1>6, <1>7, <2>2, <2>3, <2>4, ScannedBounds, Typed(rtsp),
            Bounds(rtsp)
<1>11. CASE rtsp' = AfterSize
  <2>1. PICK s, pos : /\ s = IF rtsp.chunk.len = 0 THEN "CHUNK_TRAILER_START" ELSE "CHUNK_DATA"
                      /\ pos = rtsp.chunk.offset + 1
    OBVIOUS
  <2>2. Scanned(s, Next1(rtsp.chunk.len, pos))
    BY ONLY <1>11, <2>1, Typed(rtsp), SizeScans
  <2>3. pos \in Nat /\ pos <= Len(rtsp.raw)
    BY ONLY <1>3, <1>6, <2>1
  <2>4. s \in (ChunkState \cup {"DONE"}) \ {"CHUNK_START"}
    BY ONLY <2>1 DEF ChunkState
  <2> QED
    BY ONLY <1>2, <1>3, <1>4, <1>5, <1>6, <2>1, <2>2, <2>3, <2>4, ScannedBounds, Typed(rtsp),
            Bounds(rtsp)
<1>12. CASE st = "CHUNK_DATA" /\ ~ChunkWraps /\ rtsp' = TakeChunk
  BY ONLY <1>2, <1>3, <1>5, <1>12, TakeChunkBounds, Typed(rtsp), Bounds(rtsp)
<1>13. \/ rtsp' \in {rtsp, AfterSize}
       \/ c \in DOMAIN Hex /\ rtsp' = [Scan("CHUNK_SIZE") EXCEPT !.chunk.len = HexSize(c)]
       \/ st = "CHUNK_DATA" /\ ~ChunkWraps /\ rtsp' = TakeChunk
       \/ \E s \in (ChunkState \cup {"DONE"}) \ {"CHUNK_START", "CHUNK_DATA"} : rtsp' = Scan(s)
  <2>1. \A s \in {"CHUNK_EXTENSION", "CHUNK_EXTENSION_CR", "CHUNK_END_CR", "DONE", "CHUNK_TRAILER",
                  "CHUNK_TRAILER_CR", "CHUNK_TRAILER_START"} :
          s \in (ChunkState \cup {"DONE"}) \ {"CHUNK_START", "CHUNK_DATA"}
    BY DEF ChunkState
  <2>2. \/ rtsp' \in {rtsp, AfterSize}
        \/ c \in DOMAIN Hex /\ rtsp' = [Scan("CHUNK_SIZE") EXCEPT !.chunk.len = HexSize(c)]
        \/ st = "CHUNK_DATA" /\ ~ChunkWraps /\ rtsp' = TakeChunk
        \/ \E s \in {"CHUNK_EXTENSION", "CHUNK_EXTENSION_CR", "CHUNK_END_CR", "DONE",
                     "CHUNK_TRAILER", "CHUNK_TRAILER_CR", "CHUNK_TRAILER_START"} : rtsp' = Scan(s)
    BY ONLY <1>1, <1>2, ChunkTurn DEF ChunkTurn, Checked
  <2> QED
    BY ONLY <2>1, <2>2
<1> QED
  BY ONLY <1>5, <1>8, <1>9, <1>10, <1>11, <1>12, <1>13

\* A body that is not chunked ends within the text.
LEMMA BodyBounds ==
  ASSUME Typed(rtsp), Bounds(rtsp), Body
  PROVE  Typed(rtsp') /\ Bounds(rtsp') /\ Kept /\ Goes
<1>1. Goes
  BY DEF Body, Goes, Checked
<1>2. CASE rtsp' = rtsp
  BY ONLY <1>1, <1>2, Typed(rtsp), Bounds(rtsp) DEF Kept
<1>3. CASE rtsp' # rtsp
  <2>1. /\ rtsp.stateM = "CHUNK_START" /\ Shape(rtsp) /\ rtsp.offset \in Nat
        /\ Len(rtsp.raw) \in Nat /\ rtsp.content_length \in Nat \cup {-1}
        /\ rtsp.chunk \in ChunkType
    BY DEF Body, PlainBody, Typed
  <2>2. /\ rtsp.offset <= Len(rtsp.raw) /\ rtsp.chunk.pos <= Len(rtsp.raw)
        /\ rtsp.chunk.offset # 0 =>
             /\ rtsp.content_length \in Nat
             /\ rtsp.offset + rtsp.content_length <= rtsp.chunk.offset
             /\ rtsp.chunk.offset <= Len(rtsp.raw)
    BY DEF Bounds, BodyBehind
  <2>3. \/ rtsp.content_length = -1
           /\ rtsp' = [rtsp EXCEPT !.content_length = 0, !.stateM = "DONE"]
        \/ rtsp.content_length # -1 /\ rtsp' = [rtsp EXCEPT !.stateM = "DONE"]
           /\ BodyEnd = Len(rtsp.raw)
    <3>1. rtsp.content_length # -1 => BodyEnd \in Nat /\ ~(Len(rtsp.raw) < BodyEnd)
      BY <2>1 DEF Body, BodyMissing, BodyEnd, raw_size
    <3>2. \/ rtsp.content_length = -1
             /\ rtsp' = [rtsp EXCEPT !.content_length = 0, !.stateM = "DONE"]
          \/ rtsp.content_length # -1 /\ rtsp' = [rtsp EXCEPT !.stateM = "DONE"]
             /\ Len(rtsp.raw) <= BodyEnd
      BY <1>3 DEF Body, Checked, raw_size
    <3> QED
      BY ONLY <2>1, <3>1, <3>2
  <2>4. /\ DOMAIN rtsp' = DOMAIN rtsp /\ rtsp'.stateM = "DONE"
        /\ \A g \in DOMAIN rtsp : g \notin {"stateM", "content_length"} => rtsp'[g] = rtsp[g]
        /\ \/ rtsp.content_length = -1 /\ rtsp'.content_length = 0
           \/ /\ rtsp.content_length # -1 /\ rtsp'.content_length = rtsp.content_length
              /\ rtsp.offset + rtsp.content_length = Len(rtsp.raw)
    BY ONLY <2>1, <2>3 DEF Shape, BodyEnd
  <2>5. BodyTurned
    BY ONLY <2>1, <2>4, Typed(rtsp) DEF BodyTurned, Kept, Typed, Shape, LineField
  <2>6. rtsp'.raw = rtsp.raw /\ rtsp'.offset = rtsp.offset /\ rtsp'.chunk = rtsp.chunk
    BY ONLY <2>1, <2>4 DEF Shape
  <2>7. rtsp'.content_length \in Nat
    BY ONLY <2>1, <2>4
  <2>8. BodyBehind(rtsp')
    <3>1. rtsp'.stateM \notin LineState \cup HeaderState /\ rtsp'.stateM \notin ChunkState
      BY ONLY <2>4 DEF LineState, StatusState, RequestState, HeaderState, ChunkState
    <3>2. rtsp.chunk.offset # 0 =>
            /\ rtsp'.content_length \in Nat
            /\ rtsp'.offset + rtsp'.content_length <= rtsp'.chunk.offset
            /\ rtsp'.chunk.offset <= Len(rtsp'.raw)
      BY ONLY <2>2, <2>4, <2>6
    <3>3. rtsp'.offset + rtsp'.content_length <= Len(rtsp'.raw)
      BY ONLY <2>1, <2>2, <2>4, <2>6
    <3> QED
      BY ONLY <2>2, <2>4, <2>6, <3>1, <3>2, <3>3 DEF BodyBehind
  <2>9. rtsp.stateM \in ChunkState /\ rtsp'.content_length \in Nat \cup {-1}
        /\ rtsp'.chunk \in ChunkType
    BY ONLY <2>1, <2>6, <2>7 DEF ChunkState
  <2> QED
    BY ONLY <1>1, <2>5, <2>8, <2>9, BodyTurnBounds, Typed(rtsp), Bounds(rtsp)
<1> QED
  BY ONLY <1>2, <1>3

\* An input is stored behind the text there is.
LEMMA Stores ==
  ASSUME NEW n, n \in Nat, MessageAssumption, message \in Message, fed \in Nat,
         fed + n <= Len(message.text), NEW raw, rtsp.raw \in Seq(Token), Len(rtsp.raw) = fed,
         raw = rtsp.raw \o SubSeq(message.text, fed + 1, fed + n)
  PROVE  /\ raw \in Seq(Token) /\ Len(raw) = fed + n
         /\ \A k \in 1..fed : raw[k] = rtsp.raw[k]
         /\ \A k \in (fed + 1)..(fed + n) : raw[k] = message.text[k]
<1>1. PICK text : text = message.text
  OBVIOUS
<1>2. text \in Seq(STRING) /\ Len(text) \in Nat
  BY <1>1 DEF MessageAssumption
<1>3. PICK part : part = SubSeq(text, fed + 1, fed + n)
  OBVIOUS
<1>4. part \in Seq(STRING) /\ Len(part) = n /\ \A k \in 1..n : part[k] = text[fed + k]
  BY <1>1, <1>2, <1>3
<1>5. part \in Seq(Token)
  BY <1>4 DEF Token
<1>6. raw = rtsp.raw \o part
  BY <1>1, <1>3
<1>7. /\ raw \in Seq(Token) /\ Len(raw) = Len(rtsp.raw) + Len(part)
      /\ \A k \in 1..Len(rtsp.raw) : raw[k] = rtsp.raw[k]
      /\ \A k \in (Len(rtsp.raw) + 1)..(Len(rtsp.raw) + Len(part)) : raw[k] = part[k - Len(rtsp.raw)]
  <2>1. PICK s, t : s = rtsp.raw /\ t = part
    OBVIOUS
  <2>2. s \in Seq(Token) /\ t \in Seq(Token)
    BY <1>5, <2>1
  <2>3. /\ s \o t \in Seq(Token) /\ Len(s \o t) = Len(s) + Len(t)
        /\ \A k \in 1..(Len(s) + Len(t)) :
             (s \o t)[k] = IF k <= Len(s) THEN s[k] ELSE t[k - Len(s)]
    BY ONLY <2>2, ConcatProperties
  <2>4. Len(s) \in Nat /\ Len(t) \in Nat
    BY ONLY <2>2, LenProperties
  <2>5. \A k \in 1..Len(s) : k \in 1..(Len(s) + Len(t)) /\ k <= Len(s)
    BY ONLY <2>4
  <2>6. \A k \in (Len(s) + 1)..(Len(s) + Len(t)) : k \in 1..(Len(s) + Len(t)) /\ ~(k <= Len(s))
    BY ONLY <2>4
  <2> QED
    BY ONLY <1>6, <2>1, <2>3, <2>5, <2>6
<1>8. \A k \in (fed + 1)..(fed + n) : raw[k] = text[k]
  <2>1. SUFFICES ASSUME NEW k \in (fed + 1)..(fed + n) PROVE raw[k] = text[k]
    OBVIOUS
  <2>2. k - fed \in 1..n /\ fed + (k - fed) = k
    BY ONLY <2>1, fed \in Nat, n \in Nat
  <2> QED
    BY <1>4, <1>7, <2>2
<1> QED
  BY <1>1, <1>4, <1>7, <1>8

\* More of the text leaves what has been read where it is.
LEMMA InputBounds ==
  ASSUME MessageAssumption, UnitAssumption, Stored, Typed(rtsp), Bounds(rtsp),
         NEW n \in Nat, n # 0, Input(n)
  PROVE  Stored' /\ Typed(rtsp') /\ Bounds(rtsp')
<1>1. CASE ~Storable(n)
  <2>1. rtsp' = rtsp /\ fed' = fed /\ message' = message /\ ret' = "store assert"
    BY ONLY <1>1, Input(n) DEF Input
  <2> QED
    BY ONLY <2>1, Stored, Typed(rtsp), Bounds(rtsp) DEF Stored, raw_size
<1>2. CASE Storable(n)
  <2>1. PICK raw, cap : /\ raw = rtsp.raw \o SubSeq(message.text, fed + 1, fed + n)
                        /\ cap = Capacity(n)
    OBVIOUS
  <2>2. /\ rtsp' = [rtsp EXCEPT !.raw = raw, !.raw_capacity = cap]
        /\ fed' = fed + n /\ message' = message /\ ret' = "running"
        /\ fed + n <= Len(message.text)
    BY <1>2, <2>1 DEF Input
  <2>3. /\ Shape(rtsp) /\ rtsp.raw \in Seq(Token) /\ fed \in Nat /\ Len(rtsp.raw) = fed
        /\ message \in Message /\ rtsp.offset \in Nat /\ rtsp.transfer_encoding \in Nat
        /\ rtsp.raw_capacity \in Nat
    BY DEF Typed, Stored, raw_size
  <2>4. /\ raw \in Seq(Token) /\ Len(raw) = fed + n
        /\ \A k \in 1..fed : raw[k] = rtsp.raw[k]
    BY ONLY <2>1, <2>2, <2>3, n \in Nat, MessageAssumption, Stores
  <2>5. cap \in Nat
    BY ONLY <2>1, <2>3, n \in Nat, UnitAssumption DEF Capacity, UnitAssumption, raw_size
  <2>6. cap > fed + n + 1
    <3>1. cap - fed > n + 1
      BY <1>2, <2>1, <2>3 DEF Storable, raw_size
    <3> QED
      BY ONLY <3>1, <2>3, <2>5, n \in Nat
  <2>7. /\ DOMAIN rtsp' = DOMAIN rtsp /\ rtsp'.raw = raw /\ rtsp'.raw_capacity = cap
        /\ \A g \in DOMAIN rtsp : g \notin {"raw", "raw_capacity"} => rtsp'[g] = rtsp[g]
    BY ONLY <2>2, <2>3 DEF Shape
  <2>8. /\ rtsp'.server_mode = rtsp.server_mode /\ rtsp'.stateM = rtsp.stateM
        /\ rtsp'.offset = rtsp.offset
        /\ rtsp'.name = rtsp.name /\ rtsp'.value = rtsp.value /\ rtsp'.method = rtsp.method
        /\ rtsp'.uri = rtsp.uri /\ rtsp'.reason = rtsp.reason
        /\ rtsp'.headers = rtsp.headers /\ rtsp'.content_length = rtsp.content_length
        /\ rtsp'.transfer_encoding = rtsp.transfer_encoding /\ rtsp'.chunk = rtsp.chunk
    BY ONLY <2>3, <2>7 DEF Shape, LineField
  <2>9. Typed(rtsp')
    BY ONLY <2>4, <2>5, <2>7, <2>8, Typed(rtsp) DEF Typed, Shape
  <2>10. Stored'
    <3>1. /\ fed' \in Nat /\ fed' <= Len(message'.text) /\ Len(rtsp'.raw) = fed'
          /\ Len(rtsp'.raw) < rtsp'.raw_capacity
      BY ONLY <2>2, <2>3, <2>4, <2>5, <2>6, <2>7, n \in Nat
    <3> QED
      BY ONLY <3>1, <2>2, <2>3, <2>8, Stored DEF Stored, raw_size
  <2>11. OpenField(rtsp') /\ ClosedFields(rtsp') /\ FirstLine(rtsp') /\ HeadersBehind(rtsp')
    BY ONLY <2>8, Bounds(rtsp) DEF Bounds, OpenField, ClosedFields, FirstLine, HeadersBehind
  <2>12. rtsp.offset <= fed /\ BodyBehind(rtsp)
    BY ONLY <2>3, Bounds(rtsp) DEF Bounds
  <2>13. is_transfer_encoding_chunked(rtsp') => is_transfer_encoding_chunked(rtsp)
    <3>1. rtsp.transfer_encoding > 0 => rtsp.transfer_encoding < fed
      BY ONLY <2>3, <2>12, Bounds(rtsp) DEF Bounds, HeadersBehind
    <3>2. rtsp.transfer_encoding > 0 =>
            Char(rtsp', rtsp.transfer_encoding) = Char(rtsp, rtsp.transfer_encoding)
      <4>1. PICK p : p = rtsp.transfer_encoding
        OBVIOUS
      <4>2. p > 0 => p \in Nat /\ p + 1 \in 1..fed /\ p < fed /\ p < fed + n
        BY ONLY <2>3, <3>1, <4>1, n \in Nat
      <4> QED
        BY ONLY <2>3, <2>4, <2>7, <4>1, <4>2 DEF Char
    <3> QED
      BY ONLY <2>8, <3>2 DEF is_transfer_encoding_chunked
  <2>14. BodyBehind(rtsp')
    <3>1. /\ rtsp.chunk.offset \in Nat /\ rtsp.chunk.pos \in Nat
          /\ rtsp.content_length \in Nat \cup {-1}
      BY DEF Typed, ChunkType
    <3>2. /\ rtsp.chunk.offset <= fed => rtsp.chunk.offset <= fed + n
          /\ rtsp.chunk.pos <= fed => rtsp.chunk.pos <= fed + n
          /\ rtsp.offset + rtsp.content_length <= fed => rtsp.offset + rtsp.content_length <= fed + n
      BY ONLY <2>3, <3>1, n \in Nat
    <3> QED
      BY ONLY <2>3, <2>4, <2>7, <2>8, <2>12, <2>13, <3>2 DEF BodyBehind
  <2>15. rtsp'.offset <= Len(rtsp'.raw)
    BY ONLY <2>3, <2>4, <2>7, <2>8, <2>12, n \in Nat
  <2> QED
    BY ONLY <2>9, <2>10, <2>11, <2>14, <2>15 DEF Bounds
<1> QED
  BY <1>1, <1>2

\* A parser whose every field has its type, as rtsp_parser_clear leaves it.
LEMMA ClearedBounds ==
  ASSUME NEW r, NEW q, q = Cleared(r), Shape(r), r.server_mode \in BOOLEAN,
         r.raw_capacity \in Nat, r.name \in FieldType, r.value \in FieldType
  PROVE  /\ Typed(q) /\ Bounds(q) /\ q.raw = <<>> /\ q.server_mode = r.server_mode
         /\ q.raw_capacity = r.raw_capacity /\ q.offset = 0 /\ q.stateM = FirstState(r)
         /\ q.headers = <<>>
<1>1. PICK s : s = FirstState(r)
  OBVIOUS
<1>2. q = [r EXCEPT !.raw = <<>>, !.stateM = s, !.offset = 0,
                    !.method = Nowhere, !.uri = Nowhere, !.reason = Nowhere, !.code = 0,
                    !.headers = <<>>, !.connection_close = -1, !.content_encoding = 0,
                    !.content_length = -1, !.transfer_encoding = 0, !.cookie = 0, !.location = 0,
                    !.chunk = [offset |-> 0, len |-> 0, pos |-> 0]]
  BY <1>1 DEF Cleared
<1>3. /\ DOMAIN q = DOMAIN r /\ q.raw = <<>> /\ q.stateM = s /\ q.offset = 0
      /\ q.method = Nowhere /\ q.uri = Nowhere /\ q.reason = Nowhere
      /\ q.headers = <<>> /\ q.content_length = -1 /\ q.transfer_encoding = 0
      /\ q.chunk = [offset |-> 0, len |-> 0, pos |-> 0]
      /\ q.server_mode = r.server_mode /\ q.raw_capacity = r.raw_capacity
      /\ q.name = r.name /\ q.value = r.value
  BY ONLY <1>2, Shape(r) DEF Shape, LineField
<1>4. s = IF r.server_mode THEN "REQUEST_START" ELSE "STATUS_START"
  BY <1>1 DEF FirstState
<1>5. /\ s \in LineState
      /\ (s \in StatusState) <=> ~r.server_mode
      /\ (s \in RequestState) <=> r.server_mode
      /\ s \notin HeaderState /\ s \notin ChunkState /\ s # "DONE"
      /\ s \notin NameBehind /\ s \notin ValueBehind /\ s \notin ReasonBehind
      /\ s \notin MethodBehind /\ s \notin UriBehind /\ s \notin ValueKnown
      /\ s \notin {"STATUS_VERSION", "REQUEST_VERSION", "HEADER_NAME", "STATUS_CODE",
                   "HEADER_VALUE", "STATUS_REASON", "REQUEST_METHOD", "REQUEST_URI"}
  BY ONLY <1>4, r.server_mode \in BOOLEAN
  DEF LineState, StatusState, RequestState, HeaderState, ChunkState, NameBehind, ValueBehind,
      ReasonBehind, MethodBehind, UriBehind, ValueKnown
<1>6. Nowhere \in FieldType /\ [offset |-> 0, len |-> 0, pos |-> 0] \in ChunkType
  BY DEF Nowhere, FieldType, ChunkType
<1>7. q.raw \in Seq(Token) /\ Len(q.raw) = 0 /\ q.headers \in Seq(HeaderType)
      /\ DOMAIN q.headers = {}
  <2>1. q.raw \in Seq(Token) /\ Len(q.raw) = 0 /\ q.headers \in Seq(HeaderType)
    BY ONLY <1>3, EmptySeq
  <2> QED
    BY ONLY <1>3, <2>1, NoElements
<1>8. Typed(q)
  BY ONLY <1>3, <1>5, <1>6, <1>7, Shape(r), r.server_mode \in BOOLEAN, r.raw_capacity \in Nat,
          r.name \in FieldType, r.value \in FieldType DEF Typed, Shape
<1>9. OpenField(q) /\ ClosedFields(q)
  BY ONLY <1>3, <1>5 DEF OpenField, ClosedFields
<1>10. FirstLine(q) /\ HeadersBehind(q)
  BY ONLY <1>3, <1>5, <1>7 DEF FirstLine, HeadersBehind
<1>11. BodyBehind(q)
  BY ONLY <1>3, <1>5, <1>7 DEF BodyBehind, ChunkState, is_transfer_encoding_chunked
<1>12. q.offset <= Len(q.raw)
  BY ONLY <1>3, <1>7
<1> QED
  BY <1>1, <1>3, <1>8, <1>9, <1>10, <1>11, <1>12 DEF Bounds

\* rtsp_parser_create.
LEMMA CreatedBounds ==
  ASSUME NEW mode \in BOOLEAN, NEW q, q = Created(mode)
  PROVE  /\ Typed(q) /\ Bounds(q) /\ q.raw = <<>> /\ q.server_mode = mode
         /\ q.offset = 0 /\ q.headers = <<>>
<1>1. PICK r :
        r = [server_mode |-> mode, raw |-> <<>>, raw_capacity |-> 0, stateM |-> "", offset |-> 0,
             name |-> Nowhere, value |-> Nowhere, method |-> Nowhere, uri |-> Nowhere,
             reason |-> Nowhere, code |-> 0, headers |-> <<>>, connection_close |-> 0,
             content_encoding |-> 0, content_length |-> 0, transfer_encoding |-> 0,
             cookie |-> 0, location |-> 0, chunk |-> [offset |-> 0, len |-> 0, pos |-> 0]]
  OBVIOUS
<1>2. q = Cleared(r)
  BY <1>1 DEF Created
<1>3. /\ Shape(r) /\ r.server_mode = mode /\ r.raw_capacity = 0 /\ r.name = Nowhere
      /\ r.value = Nowhere
  BY ONLY <1>1 DEF Shape, LineField
<1>4. Nowhere \in FieldType
  BY DEF Nowhere, FieldType
<1> QED
  BY ONLY <1>2, <1>3, <1>4, ClearedBounds, mode \in BOOLEAN

\* A message's text has a length.
LEMMA TextLen ==
  ASSUME MessageAssumption, NEW m, m \in Message
  PROVE  m.text \in Seq(STRING) /\ Len(m.text) \in Nat
<1>1. PICK text : text = m.text
  OBVIOUS
<1>2. text \in Seq(STRING)
  BY <1>1 DEF MessageAssumption
<1> QED
  BY <1>1, <1>2, LenProperties

\* The bounds hold before the first call,
LEMMA PInvInit ==
  ASSUME MessageAssumption, Init
  PROVE  PInv
<1>1. /\ message \in Message /\ message.server_mode \in BOOLEAN /\ message.text \in Seq(STRING)
      /\ rtsp = Created(message.server_mode) /\ fed = 0 /\ ret = "none"
  BY DEF Init, MessageAssumption
<1>2. /\ Typed(rtsp) /\ Bounds(rtsp) /\ rtsp.raw = <<>>
      /\ rtsp.server_mode = message.server_mode
  BY ONLY <1>1, CreatedBounds
<1>3. Len(rtsp.raw) = 0 /\ Len(message.text) \in Nat
  BY ONLY <1>1, <1>2, EmptySeq
<1> QED
  BY ONLY <1>1, <1>2, <1>3 DEF PInv, Stored, raw_size

\* after rtsp_parser_clear,
LEMMA PInvClear ==
  ASSUME MessageAssumption, PInv, Clear
  PROVE  PInv'
<1>1. /\ rtsp' = Cleared(rtsp) /\ message' \in Message
      /\ message'.server_mode = rtsp.server_mode /\ fed' = 0 /\ ret' = "none"
  BY DEF Clear
<1>2. Typed(rtsp)
  BY DEF PInv
<1>3. /\ Typed(rtsp') /\ Bounds(rtsp') /\ rtsp'.raw = <<>>
      /\ rtsp'.server_mode = rtsp.server_mode
  <2>1. /\ Shape(rtsp) /\ rtsp.server_mode \in BOOLEAN /\ rtsp.raw_capacity \in Nat
        /\ rtsp.name \in FieldType /\ rtsp.value \in FieldType
    BY ONLY <1>2 DEF Typed
  <2> QED
    BY ONLY <1>1, <2>1, ClearedBounds
<1>4. Len(rtsp'.raw) = 0
  BY ONLY <1>3, EmptySeq
<1>5. Len(message'.text) \in Nat
  BY ONLY <1>1, MessageAssumption DEF MessageAssumption
<1> QED
  BY ONLY <1>1, <1>3, <1>4, <1>5 DEF PInv, Stored, raw_size

\* and after each stretch of rtsp_parser_input.
LEMMA PInvParse ==
  ASSUME PInv, Parse
  PROVE  PInv'
<1>1. Typed(rtsp) /\ Bounds(rtsp) /\ Stored
  BY DEF PInv
<1>2. CASE Return
  BY ONLY <1>1, <1>2 DEF Return, PInv, Stored, raw_size
<1>3. CASE StatusTurn \/ RequestTurn \/ HeaderTurn \/ ChunkEnter \/ ChunkTurn \/ Body
  <2>1. Typed(rtsp') /\ Bounds(rtsp') /\ Kept /\ Goes
    BY ONLY <1>1, <1>3, StatusTurnBounds, RequestTurnBounds, HeaderTurnBounds, ChunkEnterBounds,
            ChunkTurnBounds, BodyBounds
  <2> QED
    BY ONLY <1>1, <2>1 DEF Kept, Goes, PInv, Stored, raw_size
<1> QED
  BY ONLY <1>2, <1>3, Parse DEF Parse

\* Every step keeps the bounds.
LEMMA PInvNext ==
  ASSUME PInv, [Next]_vars
  PROVE  PInv'
<1>1. CASE UNCHANGED vars
  <2>1. rtsp' = rtsp /\ message' = message /\ fed' = fed /\ ret' = ret
    BY ONLY <1>1 DEF vars
  <2>2. Typed(rtsp') /\ Bounds(rtsp')
    BY ONLY <2>1, PInv DEF PInv
  <2> QED
    BY ONLY <2>1, <2>2, PInv DEF PInv, Stored, raw_size
<1>2. CASE Parse
  BY ONLY <1>2, PInv, PInvParse
<1>3. CASE Clear
  BY <1>3, PInvClear, MessageAssumption
<1>4. ASSUME NEW n \in 1..Len(message.text), Input(n)
      PROVE  PInv'
  <2>1. n \in Nat /\ n # 0
    <3>1. Len(message.text) \in Nat
      <4>1. message \in Message
        BY DEF PInv, Stored
      <4> QED
        BY ONLY <4>1, TextLen, MessageAssumption
    <3> QED
      BY ONLY <3>1, n \in 1..Len(message.text)
  <2>2. Stored' /\ Typed(rtsp') /\ Bounds(rtsp')
    BY <1>4, <2>1, InputBounds, MessageAssumption, UnitAssumption DEF PInv
  <2> QED
    BY <2>2 DEF PInv
<1> QED
  BY <1>1, <1>2, <1>3, <1>4 DEF Next

\* The bounds hold throughout, whatever is sent and however it is cut, up to the step, if
\* there is one, in which the sum of rtsp_parse_chunked has wrapped and memory outside the
\* text is used: ret is then "overrun", and the behaviour ends.
THEOREM PInvHolds == Spec => []PInv
<1>1. Init => PInv
  BY PInvInit, MessageAssumption
<1>2. PInv /\ [Next]_vars => PInv'
  BY PInvNext
<1> QED
  BY <1>1, <1>2, PTL DEF Spec

\* A measured field that ends before the text does is inside it.
LEMMA BehindInside ==
  ASSUME NEW f \in FieldType, NEW o, NEW n, o \in Nat, n \in Nat, End(f) < o, o <= n,
         n = raw_size, n = fed, fed \in Nat, fed <= Len(message.text), Len(message.text) \in Nat
  PROVE  Inside(f)
<1>1. f.pos \in Nat /\ f.len \in Nat /\ f = [pos |-> f.pos, len |-> f.len]
  BY DEF FieldType
<1>2. f.pos \in Place /\ f.len \in Place /\ f.pos + f.len < raw_size
  BY <1>1 DEF Place, End
<1> QED
  BY <1>1, <1>2 DEF Inside, Span

-----------------------------------------------------------------------------
(* The sizes of chunks: none that wraps unless one was sent that does.       *)

\* A word that is no size, or one whose chunk's end can be counted.
Counted(m, w) == w \in DOMAIN Hex => Hex[w] + Len(m.text) + 2 < SizeMod

\* What is stored consists of the message's words, blanks and NULs, and the size that was
\* read last is one of them.
WInv ==
  /\ rtsp.chunk.len < SizeMod
  /\ Countable(message) =>
       /\ \A i \in DOMAIN rtsp.raw : Counted(message, rtsp.raw[i])
       /\ rtsp.chunk.len + Len(message.text) + 2 < SizeMod
       /\ ret # "overrun"

\* The text q has no words that the text raw has not.
Rewritten(raw, q) ==
  \A i \in DOMAIN q : q[i] \in {SP, NUL} \/ \E j \in DOMAIN raw : q[i] = raw[j]

\* A NUL put somewhere is no new word.
LEMMA PutRewrites ==
  ASSUME NEW raw, NEW q, Rewritten(raw, q), NEW i
  PROVE  Rewritten(raw, Put(q, i, NUL))
BY DEF Rewritten, Put

LEMMA SameRewrites ==
  ASSUME NEW raw
  PROVE  Rewritten(raw, raw)
BY DEF Rewritten

\* A turn that takes its words from the text, and no new size, keeps WInv.
Keeping == rtsp'.chunk.len = rtsp.chunk.len /\ Rewritten(rtsp.raw, rtsp'.raw)
Quiet   == message' = message /\ ret' # "overrun"

LEMMA WordsKept ==
  ASSUME WInv, Quiet, rtsp'.chunk.len \in {0, rtsp.chunk.len}, rtsp.chunk.len \in Nat,
         SizeMod \in Nat, Len(message.text) \in Nat, Len(message.text) + 2 < SizeMod,
         Rewritten(rtsp.raw, rtsp'.raw)
  PROVE  WInv'
<1>1. ASSUME Countable(message), NEW i \in DOMAIN rtsp'.raw
      PROVE  Counted(message, rtsp'.raw[i])
  BY ONLY <1>1, WInv, Rewritten(rtsp.raw, rtsp'.raw), HexAssumption
  DEF WInv, Rewritten, Counted, HexAssumption
<1>2. /\ rtsp'.chunk.len < SizeMod
      /\ Countable(message) => rtsp'.chunk.len + Len(message.text) + 2 < SizeMod
  <2>1. CASE rtsp'.chunk.len = rtsp.chunk.len
    BY ONLY <2>1, WInv DEF WInv
  <2>2. CASE rtsp'.chunk.len = 0
    BY ONLY <2>2, SizeMod \in Nat, Len(message.text) \in Nat, Len(message.text) + 2 < SizeMod
  <2> QED
    BY ONLY <2>1, <2>2, rtsp'.chunk.len \in {0, rtsp.chunk.len}
<1> QED
  BY ONLY <1>1, <1>2, Quiet DEF WInv, Quiet

\* The turns of the first line's loops,
LEMMA LineKeeping ==
  ASSUME Typed(rtsp), Bounds(rtsp), StatusTurn \/ RequestTurn
  PROVE  Keeping
<1>1. PICK c : c = Char(rtsp, rtsp.offset)
  OBVIOUS
<1>2. /\ rtsp.stateM \in LineState \cup HeaderState /\ rtsp.offset < Len(rtsp.raw)
      /\ \/ LineTurn(rtsp.stateM, c) \/ LineCr(rtsp.stateM, c)
         \/ EndStatusLine(rtsp.stateM) \/ EndRequestLine(rtsp.stateM)
  BY <1>1 DEF StatusTurn, RequestTurn, raw_size, LineState
<1>3. CASE rtsp' = rtsp
  BY ONLY <1>3, SameRewrites DEF Keeping
<1>4. CASE LineTurn(rtsp.stateM, c) \/ LineCr(rtsp.stateM, c)
  <2>1. SameRest
    BY ONLY <1>2, <1>4, Typed(rtsp), Bounds(rtsp), LineTurnBounds, LineCrBounds
  <2> QED
    BY ONLY <2>1, SameRewrites DEF SameRest, Keeping
<1>5. ASSUME NEW i, NEW j, rtsp'.raw = Put(Put(rtsp.raw, i, NUL), j, NUL)
      PROVE  Rewritten(rtsp.raw, rtsp'.raw)
  BY ONLY <1>5, PutRewrites, SameRewrites
<1>6. CASE EndStatusLine(rtsp.stateM) /\ rtsp' # rtsp
  <2>1. /\ FirstLineRead
        /\ rtsp'.raw = Put(Put(rtsp.raw, End(rtsp.reason), NUL), End(rtsp.value), NUL)
    BY ONLY <1>6, Typed(rtsp), StatusLineRead
  <2>2. Rewritten(rtsp.raw, rtsp'.raw)
    BY ONLY <2>1, <1>5
  <2> QED
    BY ONLY <2>1, <2>2 DEF FirstLineRead, Keeping
<1>7. CASE EndRequestLine(rtsp.stateM) /\ rtsp' # rtsp
  <2>1. /\ FirstLineRead
        /\ rtsp'.raw = Put(Put(rtsp.raw, End(rtsp.method), NUL), End(rtsp.uri), NUL)
    BY ONLY <1>7, Typed(rtsp), RequestLineRead
  <2>2. Rewritten(rtsp.raw, rtsp'.raw)
    BY ONLY <2>1, <1>5
  <2> QED
    BY ONLY <2>1, <2>2 DEF FirstLineRead, Keeping
<1> QED
  BY ONLY <1>2, <1>3, <1>4, <1>6, <1>7

\* and of the headers' loop.
LEMMA HeaderKeeping ==
  ASSUME Typed(rtsp), Bounds(rtsp), HeaderTurn
  PROVE  Keeping
<1>1. PICK c : c = Char(rtsp, rtsp.offset)
  OBVIOUS
<1>2. /\ rtsp.stateM \in LineState \cup HeaderState /\ rtsp.offset < Len(rtsp.raw)
      /\ \/ rtsp' = rtsp
         \/ rtsp.stateM = "HEADER_START" /\ rtsp' = HeaderStart(c)
         \/ LineTurn(rtsp.stateM, c) \/ LineCr(rtsp.stateM, c)
         \/ rtsp.stateM = "HEADER_SEPARATOR" /\ rtsp' = Move("HEADER_SP2", 1)
         \/ rtsp.stateM = "HEADER_LF" /\ EndHeaders
         \/ rtsp.stateM = "HEADER_LF" /\ (AddHeader \/ FoldHeader) /\ rtsp' # rtsp
  BY <1>1 DEF HeaderTurn, raw_size, Checked
<1>3. CASE rtsp' = rtsp
  BY ONLY <1>3, SameRewrites DEF Keeping
<1>4. SameRest => Keeping
  BY ONLY SameRewrites DEF SameRest, Keeping
<1>5. CASE \/ rtsp.stateM = "HEADER_START" /\ rtsp' = HeaderStart(c)
           \/ LineTurn(rtsp.stateM, c) \/ LineCr(rtsp.stateM, c)
           \/ rtsp.stateM = "HEADER_SEPARATOR" /\ rtsp' = Move("HEADER_SP2", 1)
           \/ rtsp.stateM = "HEADER_LF" /\ EndHeaders
  <2>1. SameRest
    BY ONLY <1>2, <1>5, Typed(rtsp), Bounds(rtsp), LineTurnBounds, LineCrBounds,
            HeaderStartBounds, SeparatorBounds, EndHeadersBounds DEF Turned
  <2> QED
    BY ONLY <1>4, <2>1
<1>6. CASE rtsp.stateM = "HEADER_LF" /\ (AddHeader \/ FoldHeader) /\ rtsp' # rtsp
  <2>1. HeaderRead
    BY ONLY <1>2, <1>6, Typed(rtsp), Bounds(rtsp), AddHeaderBounds, FoldHeaderBounds
  <2>2. /\ rtsp'.chunk = rtsp.chunk /\ DOMAIN rtsp.raw = 1..Len(rtsp.raw)
        /\ DOMAIN rtsp'.raw = 1..Len(rtsp.raw)
        /\ \A k \in 1..Len(rtsp.raw) : rtsp'.raw[k] \in {rtsp.raw[k], NUL, SP}
    BY ONLY <2>1, Typed(rtsp), LenProperties DEF HeaderRead, Typed
  <2> QED
    BY ONLY <2>2 DEF Keeping, Rewritten
<1> QED
  BY ONLY <1>2, <1>3, <1>5, <1>6

\* The chunk's data are words of the text, where it is all there.
LEMMA TakeKeeping ==
  ASSUME Typed(rtsp), Bounds(rtsp), rtsp.stateM = "CHUNK_DATA",
         rtsp.chunk.offset # 0, ~ChunkMissing, ~ChunkWraps, rtsp' = TakeChunk
  PROVE  rtsp'.chunk.len = 0 /\ Rewritten(rtsp.raw, rtsp'.raw)
<1> DEFINE len == rtsp.chunk.len
           from == rtsp.chunk.pos
           total == Len(rtsp.raw)
<1>1. /\ Shape(rtsp) /\ DOMAIN rtsp.raw = 1..total /\ rtsp.offset \in Nat
      /\ rtsp.chunk.offset \in Nat /\ len \in Nat /\ from \in Nat /\ total \in Nat
  BY LenProperties DEF Typed, ChunkType
<1>2. /\ rtsp.content_length \in Nat /\ BodyEnd <= rtsp.chunk.offset
      /\ from = rtsp.chunk.offset /\ from + len + 2 <= total
  BY <1>1, ChunkThere DEF Bounds, BodyBehind, BodyEnd
<1>3. BodyEnd \in Nat
  BY ONLY <1>1, <1>2 DEF BodyEnd
<1>4. PICK moved : moved = [i \in 1..total |->
                              IF i - 1 \in BodyEnd..(BodyEnd + len - 1)
                              THEN rtsp.raw[from + (i - BodyEnd)] ELSE rtsp.raw[i]]
  OBVIOUS
<1>5. rtsp' = [rtsp EXCEPT !.stateM = "CHUNK_START", !.raw = Put(moved, BodyEnd + len, NUL),
                           !.content_length = @ + len,
                           !.chunk = [offset |-> @.offset + @.len + 2, len |-> 0, pos |-> 0]]
  BY <1>4 DEF TakeChunk, raw_size
<1>6. rtsp'.raw = Put(moved, BodyEnd + len, NUL) /\ rtsp'.chunk.len = 0
  BY ONLY <1>1, <1>5 DEF Shape
<1>7. \A i \in 1..total : i - 1 \in BodyEnd..(BodyEnd + len - 1) => from + (i - BodyEnd) \in 1..total
  <2>1. PICK b, l, f, t : b = BodyEnd /\ l = len /\ f = from /\ t = total
    OBVIOUS
  <2>2. b \in Nat /\ l \in Nat /\ f \in Nat /\ t \in Nat /\ f + l + 2 <= t
    BY ONLY <1>1, <1>2, <1>3, <2>1
  <2>3. \A i \in 1..t : i - 1 \in b..(b + l - 1) => f + (i - b) \in 1..t
    BY ONLY <2>2
  <2> QED
    BY ONLY <2>1, <2>3
<1>8. Rewritten(rtsp.raw, moved)
  BY ONLY <1>1, <1>4, <1>7 DEF Rewritten
<1> QED
  BY ONLY <1>6, <1>8, PutRewrites

\* A size is read from the text.
LEMMA SizeKept ==
  ASSUME WInv, Quiet, Typed(rtsp), rtsp.chunk.offset < Len(rtsp.raw), NEW c,
         c = Char(rtsp, rtsp.chunk.offset), c \in DOMAIN Hex,
         rtsp' = [Scan("CHUNK_SIZE") EXCEPT !.chunk.len = HexSize(c)],
         Len(message.text) \in Nat
  PROVE  WInv'
<1>1. PICK n, s : n = HexSize(c) /\ s = "CHUNK_SIZE"
  OBVIOUS
<1>2. Scanned(s, Next1(n, rtsp.chunk.pos))
  BY <1>1, StartScans
<1>3. rtsp'.chunk.len = n /\ rtsp'.raw = rtsp.raw
  BY ONLY <1>2, Typed(rtsp) DEF Scanned, Next1, Typed, Shape
<1>4. n \in 0..(SizeMod - 1) /\ (Hex[c] < SizeMod => n = Hex[c])
  BY ONLY <1>1, HexFits, c \in DOMAIN Hex
<1>5. n < SizeMod
  BY <1>4, SizeAssumption DEF SizeAssumption
<1>6. ASSUME Countable(message)
      PROVE  n + Len(message.text) + 2 < SizeMod
  <2>1. rtsp.chunk.offset + 1 \in DOMAIN rtsp.raw /\ c = rtsp.raw[rtsp.chunk.offset + 1]
    BY LenProperties DEF Typed, ChunkType, Char
  <2>2. Counted(message, c)
    BY ONLY <1>6, <2>1, WInv DEF WInv
  <2>3. Hex[c] + Len(message.text) + 2 < SizeMod /\ Hex[c] \in Nat
    BY <2>2, HexAssumption DEF Counted, HexAssumption
  <2>4. SizeMod \in Nat
    BY SizeAssumption DEF SizeAssumption
  <2>5. Hex[c] < SizeMod
    BY ONLY <2>3, <2>4, Len(message.text) \in Nat
  <2> QED
    BY ONLY <1>4, <2>3, <2>5
<1> QED
  BY ONLY <1>3, <1>5, <1>6, WInv, Quiet DEF WInv, Quiet

\* rtsp_parse_chunked keeps the words, and a chunk whose end can be counted does not wrap.
LEMMA ChunkKept ==
  ASSUME PInv, WInv, ChunkTurn, Len(message.text) \in Nat, SizeMod \in Nat,
         Len(message.text) + 2 < SizeMod
  PROVE  WInv'
<1>1. PICK c : c = Char(rtsp, rtsp.chunk.offset)
  OBVIOUS
<1>2. /\ Typed(rtsp) /\ Bounds(rtsp) /\ Len(rtsp.raw) = fed /\ fed <= Len(message.text)
      /\ rtsp.chunk \in ChunkType /\ rtsp.chunk.len \in Nat /\ rtsp.chunk.pos \in Nat
      /\ fed \in Nat
  BY DEF PInv, Stored, raw_size, Typed, ChunkType
<1>3. /\ rtsp.chunk.offset # 0 /\ rtsp.chunk.offset < Len(rtsp.raw) /\ ~ChunkMissing
      /\ message' = message
  BY DEF ChunkTurn, raw_size
<1>4. \/ Quiet /\ rtsp' \in {rtsp, AfterSize}
      \/ Quiet /\ c \in DOMAIN Hex
         /\ rtsp' = [Scan("CHUNK_SIZE") EXCEPT !.chunk.len = HexSize(c)]
      \/ Quiet /\ rtsp.stateM = "CHUNK_DATA" /\ ~ChunkWraps /\ rtsp' = TakeChunk
      \/ Quiet /\ \E s : rtsp' = Scan(s)
      \/ ChunkWraps /\ rtsp' = rtsp
  <2>1. ret' # "overrun" \/ (ChunkWraps /\ rtsp' = rtsp)
    BY <1>3 DEF ChunkTurn, Checked
  <2>2. \/ rtsp' \in {rtsp, AfterSize}
        \/ c \in DOMAIN Hex /\ rtsp' = [Scan("CHUNK_SIZE") EXCEPT !.chunk.len = HexSize(c)]
        \/ rtsp.stateM = "CHUNK_DATA" /\ ~ChunkWraps /\ rtsp' = TakeChunk
        \/ \E s : rtsp' = Scan(s)
    BY ONLY <1>1, ChunkTurn DEF ChunkTurn, Checked
  <2> QED
    BY ONLY <1>3, <2>1, <2>2 DEF Quiet
<1>5. CASE Quiet /\ rtsp' \in {rtsp, AfterSize}
  <2>1. rtsp'.chunk.len = rtsp.chunk.len /\ rtsp'.raw = rtsp.raw
    <3>1. CASE rtsp' = AfterSize
      BY ONLY <1>2, <3>1, SizeScans DEF Scanned, Next1, Typed, Shape
    <3> QED
      BY ONLY <1>5, <3>1
  <2> QED
    BY ONLY <1>2, <1>5, <2>1, WInv, WordsKept, SameRewrites, Len(message.text) \in Nat,
            SizeMod \in Nat, Len(message.text) + 2 < SizeMod
<1>6. CASE Quiet /\ c \in DOMAIN Hex
           /\ rtsp' = [Scan("CHUNK_SIZE") EXCEPT !.chunk.len = HexSize(c)]
  BY ONLY <1>1, <1>2, <1>3, <1>6, WInv, SizeKept, Len(message.text) \in Nat
<1>7. CASE Quiet /\ rtsp.stateM = "CHUNK_DATA" /\ ~ChunkWraps /\ rtsp' = TakeChunk
  <2>1. rtsp'.chunk.len = 0 /\ Rewritten(rtsp.raw, rtsp'.raw)
    BY ONLY <1>2, <1>3, <1>7, TakeKeeping
  <2> QED
    BY ONLY <1>2, <1>7, <2>1, WInv, WordsKept, Len(message.text) \in Nat,
            SizeMod \in Nat, Len(message.text) + 2 < SizeMod
<1>8. CASE Quiet /\ \E s : rtsp' = Scan(s)
  <2>1. rtsp'.chunk.len = rtsp.chunk.len /\ rtsp'.raw = rtsp.raw
    BY ONLY <1>2, <1>8, ScanScans DEF Scanned, Next1, Typed, Shape
  <2> QED
    BY ONLY <1>2, <1>8, <2>1, WInv, WordsKept, SameRewrites, Len(message.text) \in Nat,
            SizeMod \in Nat, Len(message.text) + 2 < SizeMod
<1>9. CASE ChunkWraps /\ rtsp' = rtsp
  <2>1. rtsp.chunk.pos <= Len(message.text)
    <3>1. rtsp.chunk.pos <= Len(rtsp.raw)
      BY ONLY <1>2 DEF Bounds, BodyBehind
    <3> QED
      BY ONLY <1>2, <3>1, Len(message.text) \in Nat
  <2>2. ~Countable(message)
    BY ONLY <1>2, <1>9, <2>1, WInv, SizeMod \in Nat, Len(message.text) \in Nat
    DEF WInv, ChunkWraps
  <2> QED
    BY ONLY <1>3, <1>9, <2>2, WInv DEF WInv
<1> QED
  BY ONLY <1>4, <1>5, <1>6, <1>7, <1>8, <1>9

\* Every step of the parser keeps them,
LEMMA WInvParse ==
  ASSUME PInv, WInv, Parse, Len(message.text) \in Nat, SizeMod \in Nat,
         Len(message.text) + 2 < SizeMod
  PROVE  WInv'
<1>1. /\ Typed(rtsp) /\ Bounds(rtsp) /\ Shape(rtsp) /\ rtsp.chunk \in ChunkType
      /\ rtsp.chunk.len \in Nat
  BY DEF PInv, Typed, ChunkType
<1>2. ASSUME Keeping, Quiet
      PROVE  WInv'
  BY ONLY <1>1, <1>2, WInv, WordsKept, Len(message.text) \in Nat, SizeMod \in Nat,
          Len(message.text) + 2 < SizeMod DEF Keeping
<1>3. CASE StatusTurn \/ RequestTurn
  <2>1. Quiet
    BY <1>3 DEF StatusTurn, RequestTurn, LineCr, EndStatusLine, EndRequestLine, Checked, Quiet
  <2> QED
    BY ONLY <1>1, <1>2, <1>3, <2>1, LineKeeping
<1>4. CASE HeaderTurn
  <2>1. Quiet
    BY <1>4 DEF HeaderTurn, LineCr, EndHeaders, AddHeader, FoldHeader, Checked, Quiet
  <2> QED
    BY ONLY <1>1, <1>2, <1>4, <2>1, HeaderKeeping
<1>5. CASE ChunkEnter \/ Body \/ Return
  <2>1. Quiet
    BY <1>5 DEF ChunkEnter, Body, Return, Checked, Quiet
  <2>2. \/ rtsp' = rtsp
        \/ rtsp' = [rtsp EXCEPT !.chunk.offset = rtsp.offset, !.content_length = 0]
        \/ rtsp' = [rtsp EXCEPT !.content_length = 0, !.stateM = "DONE"]
        \/ rtsp' = [rtsp EXCEPT !.stateM = "DONE"]
    BY ONLY <1>5 DEF ChunkEnter, Body, Return, Checked
  <2>3. rtsp'.raw = rtsp.raw /\ rtsp'.chunk.len = rtsp.chunk.len
    <3>1. CASE rtsp' = [rtsp EXCEPT !.chunk.offset = rtsp.offset, !.content_length = 0]
      BY ONLY <1>1, <3>1 DEF Shape, ChunkType
    <3>2. CASE \/ rtsp' = [rtsp EXCEPT !.content_length = 0, !.stateM = "DONE"]
               \/ rtsp' = [rtsp EXCEPT !.stateM = "DONE"]
      BY ONLY <1>1, <3>2 DEF Shape
    <3> QED
      BY ONLY <2>2, <3>1, <3>2
  <2> QED
    BY ONLY <1>2, <2>1, <2>3, SameRewrites DEF Keeping
<1>6. CASE ChunkTurn
  BY ONLY <1>6, PInv, WInv, ChunkKept, Len(message.text) \in Nat, SizeMod \in Nat,
          Len(message.text) + 2 < SizeMod
<1> QED
  BY ONLY <1>3, <1>4, <1>5, <1>6, Parse DEF Parse

\* a new text has no others,
LEMMA WInvInput ==
  ASSUME PInv, WInv, NEW n, n \in Nat, Input(n)
  PROVE  WInv'
<1>1. message' = message /\ ret' # "overrun"
  BY DEF Input
<1>2. CASE rtsp' = rtsp
  BY ONLY <1>1, <1>2, WInv DEF WInv
<1>3. CASE Storable(n)
  <2>1. PICK raw : raw = rtsp.raw \o SubSeq(message.text, fed + 1, fed + n)
    OBVIOUS
  <2>2. /\ rtsp' = [rtsp EXCEPT !.raw = raw, !.raw_capacity = Capacity(n)]
        /\ fed + n <= Len(message.text)
    BY <1>3, <2>1 DEF Input
  <2>3. /\ Shape(rtsp) /\ rtsp.raw \in Seq(Token) /\ fed \in Nat /\ Len(rtsp.raw) = fed
        /\ message \in Message
    BY DEF PInv, Typed, Stored, raw_size
  <2>4. rtsp'.raw = raw /\ rtsp'.chunk = rtsp.chunk
    BY ONLY <2>2, <2>3 DEF Shape
  <2>5. /\ raw \in Seq(Token) /\ Len(raw) = fed + n
        /\ \A k \in 1..fed : raw[k] = rtsp.raw[k]
        /\ \A k \in (fed + 1)..(fed + n) : raw[k] = message.text[k]
    <3>1. fed + n <= Len(message.text)
      BY ONLY <2>2
    <3>2. /\ n \in Nat /\ MessageAssumption /\ message \in Message /\ fed \in Nat
          /\ rtsp.raw \in Seq(Token) /\ Len(rtsp.raw) = fed
      BY <2>3, MessageAssumption
    <3>3. raw \in Seq(Token) /\ Len(raw) = fed + n
      BY ONLY <2>1, <3>1, <3>2, Stores
    <3>4. \A k \in 1..fed : raw[k] = rtsp.raw[k]
      BY ONLY <2>1, <3>1, <3>2, Stores
    <3>5. ASSUME NEW k \in (fed + 1)..(fed + n) PROVE raw[k] = message.text[k]
      BY ONLY <2>1, <3>1, <3>2, <3>5, Stores
    <3> QED
      BY ONLY <3>3, <3>4, <3>5
  <2>6. Len(message.text) \in Nat /\ message.text \in Seq(STRING)
    BY ONLY <2>3, TextLen, MessageAssumption
  <2>7. ASSUME Countable(message), NEW k \in DOMAIN raw
        PROVE  Counted(message, raw[k])
    <3>1. k \in 1..(fed + n)
      BY ONLY <2>5, <2>7, LenProperties
    <3>2. CASE k \in 1..fed
      <4>1. k \in DOMAIN rtsp.raw
        BY ONLY <2>3, <3>2, LenProperties
      <4> QED
        BY ONLY <2>5, <2>7, <3>2, <4>1, WInv DEF WInv
    <3>3. CASE k \in (fed + 1)..(fed + n)
      <4>1. k \in 1..Len(message.text)
        BY ONLY <2>2, <2>3, <2>6, <3>3, n \in Nat
      <4>2. k \in DOMAIN message.text
        BY ONLY <2>6, <4>1, LenProperties
      <4> QED
        BY ONLY <2>5, <2>7, <3>3, <4>2 DEF Countable, Counted
    <3> QED
      BY ONLY <2>3, <3>1, <3>2, <3>3, n \in Nat
  <2> QED
    BY ONLY <1>1, <2>4, <2>7, WInv DEF WInv
<1> QED
  BY <1>2, <1>3 DEF Input

\* and a parser that is cleared has none.
LEMMA WInvCleared ==
  ASSUME NEW m, Len(m.text) \in Nat, SizeMod \in Nat, Len(m.text) + 2 < SizeMod,
         rtsp'.raw = <<>>, rtsp'.chunk.len = 0, message' = m, ret' = "none"
  PROVE  WInv'
<1>1. DOMAIN rtsp'.raw = {}
  BY ONLY rtsp'.raw = <<>>, NoElements
<1> QED
  BY <1>1 DEF WInv

\* No size wraps that was not sent so large.
LEMMA WInvHolds == Spec => []WInv
<1>1. \A m \in Message : Len(m.text) \in Nat /\ SizeMod \in Nat /\ Len(m.text) + 2 < SizeMod
  BY TextLen, MessageAssumption, SizeAssumption DEF SizeAssumption
<1>2. Init => WInv
  <2>1. SUFFICES ASSUME Init PROVE WInv
    OBVIOUS
  <2>2. /\ message \in Message /\ message.server_mode \in BOOLEAN
        /\ rtsp = Created(message.server_mode) /\ ret = "none"
    BY <2>1, MessageAssumption DEF Init, MessageAssumption
  <2>3. rtsp.raw = <<>> /\ rtsp.chunk.len = 0
    <3>1. rtsp.raw = <<>>
      BY ONLY <2>2, CreatedBounds
    <3>2. rtsp.chunk = [offset |-> 0, len |-> 0, pos |-> 0]
      BY ONLY <2>2 DEF Created, Cleared
    <3> QED
      BY <3>1, <3>2
  <2>4. DOMAIN rtsp.raw = {}
    BY ONLY <2>3, NoElements
  <2>5. 0 < SizeMod /\ 0 + Len(message.text) + 2 < SizeMod
    BY ONLY <1>1, <2>2
  <2> QED
    BY ONLY <2>2, <2>3, <2>4, <2>5 DEF WInv
<1>3. PInv /\ WInv /\ [Next]_vars => WInv'
  <2>1. SUFFICES ASSUME PInv, WInv, [Next]_vars PROVE WInv'
    OBVIOUS
  <2>2. message \in Message
    BY ONLY <2>1 DEF PInv, Stored
  <2>3. CASE UNCHANGED vars
    BY ONLY <2>1, <2>3 DEF vars, WInv
  <2>4. CASE Parse
    BY ONLY <1>1, <2>1, <2>2, <2>4, WInvParse
  <2>5. CASE Clear
    <3>1. /\ rtsp' = Cleared(rtsp) /\ message' \in Message /\ ret' = "none"
          /\ Shape(rtsp)
      BY <2>1, <2>5 DEF Clear, PInv, Typed
    <3>2. rtsp'.raw = <<>> /\ rtsp'.chunk = [offset |-> 0, len |-> 0, pos |-> 0]
      BY ONLY <3>1 DEF Cleared, Shape
    <3>3. PICK m \in Message : message' = m
      BY ONLY <3>1
    <3> QED
      BY ONLY <1>1, <3>1, <3>2, <3>3, WInvCleared
  <2>6. ASSUME NEW n \in 1..Len(message.text), Input(n)
        PROVE  WInv'
    <3>1. n \in Nat
      BY ONLY <1>1, <2>2, <2>6
    <3> QED
      BY ONLY <2>1, <2>6, <3>1, WInvInput
  <2> QED
    BY <2>1, <2>3, <2>4, <2>5, <2>6 DEF Next
<1> QED
  BY <1>2, <1>3, PInvHolds, PTL DEF Spec

\* The parser stays within what it has stored, until a size wraps.
LEMMA PInvType ==
  ASSUME PInv, WInv
  PROVE  TypeOK
<1>1. /\ message \in Message /\ fed \in Nat /\ fed <= Len(message.text)
      /\ ret \in {"none", "running", "needmore", "done", "store assert", "parse assert", "overrun"}
      /\ raw_size = fed /\ (raw_size = 0 \/ raw_size < rtsp.raw_capacity)
  BY DEF PInv, Stored
<1>2. Len(message.text) \in Nat
  BY ONLY <1>1, TextLen, MessageAssumption
<1>3. /\ rtsp.stateM \in LineState \cup HeaderState \cup ChunkState \cup {"DONE"}
      /\ rtsp.offset \in Nat /\ rtsp.chunk \in ChunkType
      /\ rtsp.content_length \in Nat \cup {-1}
      /\ rtsp.headers \in Seq(HeaderType) /\ rtsp.method \in FieldType
      /\ rtsp.uri \in FieldType /\ rtsp.reason \in FieldType
  BY DEF PInv, Typed
<1>4. rtsp.offset <= raw_size /\ BodyBehind(rtsp) /\ FirstLine(rtsp) /\ HeadersBehind(rtsp)
  BY DEF PInv, Bounds, raw_size
<1>5. /\ rtsp.chunk.offset \in Nat /\ rtsp.chunk.len \in Nat /\ rtsp.chunk.pos \in Nat
  BY ONLY <1>3 DEF ChunkType
<1>6. fed \in Place
  <2>1. PICK n : n = Len(message.text)
    OBVIOUS
  <2>2. fed \in 0..n
    <3>1. fed \in Nat /\ n \in Nat /\ fed <= n
      BY ONLY <1>1, <1>2, <2>1
    <3> QED
      BY ONLY <3>1
  <2> QED
    BY ONLY <2>1, <2>2 DEF Place
<1>7. PICK o, n, b, k, p : /\ o = rtsp.offset /\ n = raw_size /\ b = rtsp.content_length
                           /\ k = rtsp.chunk.offset /\ p = rtsp.chunk.pos
  OBVIOUS
<1>8. /\ o \in Nat /\ n \in Nat /\ b \in Nat \cup {-1} /\ k \in Nat /\ p \in Nat
      /\ o <= n /\ p <= n
      /\ k # 0 => b \in Nat /\ o + b <= k /\ k <= n
      /\ rtsp.stateM = "DONE" => o + b <= n
      /\ k = 0 /\ rtsp.stateM # "DONE" /\ is_transfer_encoding_chunked(rtsp) => b = -1
  BY ONLY <1>1, <1>3, <1>4, <1>5, <1>7 DEF BodyBehind, raw_size
<1>9. /\ o \in 0..n /\ k \in 0..n /\ p \in 0..n
      /\ is_transfer_encoding_chunked(rtsp) \/ rtsp.stateM = "DONE" => BodyEnd <= n
  <2>1. o \in 0..n /\ k \in 0..n /\ p \in 0..n
    BY ONLY <1>8
  <2>2. BodyEnd = o + b
    BY ONLY <1>7 DEF BodyEnd
  <2>3. (k # 0 \/ b = -1) => o + b <= n
    BY ONLY <1>8
  <2> QED
    BY ONLY <1>8, <2>1, <2>2, <2>3
<1>10. ASSUME NEW f \in FieldType, End(f) < rtsp.offset PROVE Inside(f)
  BY ONLY <1>1, <1>2, <1>3, <1>4, <1>10, BehindInside
<1>11. rtsp.stateM \in LineState \/
       IF rtsp.server_mode THEN Inside(rtsp.method) /\ Inside(rtsp.uri) ELSE Inside(rtsp.reason)
  <2>1. rtsp.stateM \notin LineState =>
          IF rtsp.server_mode THEN End(rtsp.method) < rtsp.offset /\ End(rtsp.uri) < rtsp.offset
          ELSE End(rtsp.reason) < rtsp.offset
    BY ONLY <1>4 DEF FirstLine
  <2> QED
    BY ONLY <1>3, <1>10, <2>1
<1>12. \A i \in DOMAIN rtsp.headers : Inside(rtsp.headers[i].name) /\ Inside(rtsp.headers[i].value)
  <2>1. \A i \in DOMAIN rtsp.headers :
          rtsp.headers[i].name \in FieldType /\ rtsp.headers[i].value \in FieldType
    <3>1. \A i \in DOMAIN rtsp.headers : rtsp.headers[i] \in HeaderType
      BY ONLY <1>3
    <3> QED
      BY ONLY <3>1 DEF HeaderType
  <2>2. \A i \in DOMAIN rtsp.headers :
          End(rtsp.headers[i].name) < rtsp.offset /\ End(rtsp.headers[i].value) < rtsp.offset
    BY ONLY <1>4 DEF HeadersBehind
  <2> QED
    BY ONLY <1>10, <2>1, <2>2
<1>13. rtsp.chunk.len \in 0..(SizeMod - 1) /\ (Countable(message) => ret # "overrun")
  <2>1. SizeMod \in Nat /\ rtsp.chunk.len < SizeMod /\ (Countable(message) => ret # "overrun")
    BY SizeAssumption DEF SizeAssumption, WInv
  <2> QED
    BY ONLY <1>5, <2>1
<1> QED
  BY ONLY <1>1, <1>3, <1>5, <1>6, <1>7, <1>9, <1>11, <1>12, <1>13 DEF TypeOK

\* What rtsp_parser_input reads and writes, and every field it leaves behind, lies within the
\* text it has stored, for every input, well formed or not, and every cut of it, unless a
\* chunk's size in it is so large that the place of its end exceeds what size_t counts.
THEOREM TypeHolds == Spec => []TypeOK
<1>1. PInv /\ WInv => TypeOK
  BY PInvType
<1> QED
  BY <1>1, PInvHolds, WInvHolds, PTL
=====
