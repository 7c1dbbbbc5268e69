----------------------------- MODULE RtspParser ----------------------------
(***************************************************************************)
(* rtsp-parser.c: a response, or in server mode a request, is stored as it *)
(* arrives, cut anywhere, and read by three state machines, for the first  *)
(* line, the headers and a chunked body.  One action is one turn of such a *)
(* loop, or one other stretch of rtsp_parser_input; "go back" in the code  *)
(* is a turn that leaves offset alone.                                     *)
(*                                                                         *)
(* The text is of tokens, as in RtspMessage; the code also uses position 0 *)
(* for "none".  Every assert ends the program: the build does not define   *)
(* NDEBUG for this file.  Sizes of chunks are of type size_t, and wrap; a  *)
(* step that then leaves the text ends the behaviour.                      *)
(***************************************************************************)
EXTENDS RtspMessage

CONSTANTS KB, MB    \* the units of the capacity

ASSUME UnitAssumption == KB \in Nat \ {0} /\ MB \in Nat /\ 4 * MB > 16 * KB

VARIABLES
  rtsp,      \* the parser
  message,   \* the message being received
  fed,       \* the tokens of it that have been given to rtsp_parser_input
  ret        \* its last result, or "none", "running" inside it, the failed assert,
             \* "overrun" when it has used memory outside the text

vars == <<rtsp, message, fed, ret>>

Nowhere == [pos |-> 0, len |-> 0]

\* SM_START_LINE, which each mode reads as its own.
FirstState(r) == IF r.server_mode THEN "REQUEST_START" ELSE "STATUS_START"

\* A fault: the length of the body before stays.
LengthStays(r) ==
  [r EXCEPT !.raw = <<>>, !.stateM = FirstState(r), !.offset = 0,
            !.method = Nowhere, !.uri = Nowhere, !.reason = Nowhere, !.code = 0,
            !.headers = <<>>, !.connection_close = -1, !.content_encoding = 0,
            !.transfer_encoding = 0, !.cookie = 0, !.location = 0,
            !.chunk = [offset |-> 0, len |-> 0, pos |-> 0]]

\* What rtsp_parser_clear leaves; header (name, value) and the capacity survive it.
Cleared(r) ==
  [r EXCEPT !.raw = <<>>, !.stateM = FirstState(r), !.offset = 0,
            !.method = Nowhere, !.uri = Nowhere, !.reason = Nowhere, !.code = 0,
            !.headers = <<>>, !.connection_close = -1, !.content_encoding = 0,
            !.content_length = -1, !.transfer_encoding = 0, !.cookie = 0, !.location = 0,
            !.chunk = [offset |-> 0, len |-> 0, pos |-> 0]]

Created(mode) ==
  Cleared([server_mode |-> mode, raw |-> <<>>, raw_capacity |-> 0, stateM |-> "", offset |-> 0,
           name |-> Nowhere, value |-> Nowhere, method |-> Nowhere, uri |-> Nowhere,
           reason |-> Nowhere, code |-> 0, headers |-> <<>>, connection_close |-> 0,
           content_encoding |-> 0, content_length |-> 0, transfer_encoding |-> 0,
           cookie |-> 0, location |-> 0, chunk |-> [offset |-> 0, len |-> 0, pos |-> 0]])

Init ==
  /\ message \in Message
  /\ rtsp = Created(message.server_mode)
  /\ fed = 0 /\ ret = "none"

-----------------------------------------------------------------------------
\* The token at position i; the stored text is followed by a NUL.
Char(r, i) == IF i < Len(r.raw) THEN r.raw[i + 1] ELSE NUL

\* The text with token t at position i.
Put(raw, i, t) == [raw EXCEPT ![i + 1] = t]

\* The string that starts at position i.
Text(r, i) ==
  LET end == CHOOSE e \in i..Len(r.raw) :
               Char(r, e) = NUL /\ \A k \in i..(e - 1) : Char(r, k) # NUL
  IN  SubSeq(r.raw, i + 1, end)

atoi(word) == IF word \in DOMAIN Number THEN Number[word] ELSE 0

is_transfer_encoding_chunked(r) ==
  r.transfer_encoding > 0 /\ Char(r, r.transfer_encoding) = "chunked"

raw_size == Len(rtsp.raw)

\* The capacity after room has been made for n more tokens.
Capacity(n) ==
  LET block == IF rtsp.raw_capacity > 4 * MB THEN 50 * MB
               ELSE IF rtsp.raw_capacity > 16 * KB THEN 2 * MB ELSE 8 * KB
  IN  IF rtsp.raw_capacity - raw_size < n + 1
      THEN rtsp.raw_capacity + (IF n + 1 > block THEN n + 1 ELSE block)
      ELSE rtsp.raw_capacity

\* The text was not refused as too big, and the assert that follows holds.
Storable(n) ==
  /\ rtsp.raw_capacity - raw_size < n + 1 => rtsp.raw_capacity + n <= 64 * MB
  /\ Capacity(n) - raw_size > n + 1

\* rtsp_parser_input is called with the next n tokens.
Input(n) ==
  /\ ret \in {"none", "needmore"}
  /\ fed + n <= Len(message.text)
  /\ \/ /\ Storable(n)
        /\ rtsp' = [rtsp EXCEPT !.raw = @ \o SubSeq(message.text, fed + 1, fed + n),
                                !.raw_capacity = Capacity(n)]
        /\ fed' = fed + n
        /\ ret' = "running"
     \/ /\ ~Storable(n)
        /\ ret' = "store assert"
        /\ UNCHANGED <<rtsp, fed>>
  /\ UNCHANGED message

\* The parser is used again, for another message.
Clear ==
  /\ ret = "done"
  /\ rtsp' = Cleared(rtsp)
  /\ message' \in {m \in Message : m.server_mode = rtsp.server_mode}
  /\ fed' = 0
  /\ ret' = "none"

-----------------------------------------------------------------------------
\* The order of the states of a line.
NextState ==
  [STATUS_START   |-> "STATUS_VERSION", STATUS_VERSION |-> "STATUS_SP1",
   STATUS_SP1     |-> "STATUS_CODE",    STATUS_CODE    |-> "STATUS_SP2",
   STATUS_SP2     |-> "STATUS_REASON",  STATUS_REASON  |-> "STATUS_SP3",
   STATUS_SP3     |-> "STATUS_CR",      STATUS_CR      |-> "STATUS_LF",
   REQUEST_START  |-> "REQUEST_METHOD", REQUEST_METHOD |-> "REQUEST_SP1",
   REQUEST_SP1    |-> "REQUEST_URI",    REQUEST_URI    |-> "REQUEST_SP2",
   REQUEST_SP2    |-> "REQUEST_VERSION", REQUEST_VERSION |-> "REQUEST_SP3",
   REQUEST_SP3    |-> "REQUEST_CR",     REQUEST_CR     |-> "REQUEST_LF",
   HEADER_START   |-> "HEADER_NAME",    HEADER_NAME    |-> "HEADER_SP1",
   HEADER_SP1     |-> "HEADER_SEPARATOR", HEADER_SEPARATOR |-> "HEADER_SP2",
   HEADER_SP2     |-> "HEADER_VALUE",   HEADER_VALUE   |-> "HEADER_SP3",
   HEADER_SP3     |-> "HEADER_CR",      HEADER_CR      |-> "HEADER_LF"]

\* The field each word state measures.
Field ==
  [STATUS_VERSION |-> "name", STATUS_CODE |-> "value", STATUS_REASON |-> "reason",
   REQUEST_METHOD |-> "method", REQUEST_URI |-> "uri", REQUEST_VERSION |-> "name",
   HEADER_NAME    |-> "name", HEADER_VALUE |-> "value"]

StatusState == {"STATUS_START", "STATUS_VERSION", "STATUS_SP1", "STATUS_CODE", "STATUS_SP2",
                "STATUS_REASON", "STATUS_SP3", "STATUS_CR", "STATUS_LF"}
RequestState == {"REQUEST_START", "REQUEST_METHOD", "REQUEST_SP1", "REQUEST_URI",
                 "REQUEST_SP2", "REQUEST_VERSION", "REQUEST_SP3", "REQUEST_CR", "REQUEST_LF"}
LineState   == StatusState \cup RequestState
HeaderState == {"HEADER_START", "HEADER_NAME", "HEADER_SP1", "HEADER_SEPARATOR", "HEADER_SP2",
                "HEADER_VALUE", "HEADER_SP3", "HEADER_CR", "HEADER_LF"}
ChunkState  == {"CHUNK_START", "CHUNK_SIZE", "CHUNK_EXTENSION", "CHUNK_EXTENSION_CR",
                "CHUNK_DATA", "CHUNK_TRAILER_START", "CHUNK_TRAILER", "CHUNK_TRAILER_CR",
                "CHUNK_END_CR"}

SkipStates == {"STATUS_START", "STATUS_SP1", "STATUS_SP2", "REQUEST_START", "REQUEST_SP1",
               "REQUEST_SP2", "HEADER_SP1", "HEADER_SP2"}
\* The states behind a line's last field, and the state of that field.
RestStates == {"STATUS_SP3", "REQUEST_SP3", "HEADER_SP3"}
LastField  == [STATUS_SP3 |-> "STATUS_REASON", REQUEST_SP3 |-> "REQUEST_VERSION",
               HEADER_SP3 |-> "HEADER_VALUE"]
CrStates   == {"STATUS_CR", "REQUEST_CR", "HEADER_CR"}

Move(s, d) == [rtsp EXCEPT !.stateM = s, !.offset = @ + d]

\* The step succeeds with the parser r, or an assert fails.
Checked(ok, r) ==
  /\ rtsp' = IF ok THEN r ELSE rtsp
  /\ ret'  = IF ok THEN "running" ELSE "parse assert"

\* A turn of a line's loop that needs nothing of the line but its fields.
LineTurn(st, c) ==
  \/ /\ st \in SkipStates \cup RestStates /\ c = SP
     /\ rtsp' = Move(st, 1)
  \/ /\ st \in SkipStates /\ c # SP
     /\ rtsp' = IF NextState[st] \in DOMAIN Field
                THEN [Move(NextState[st], 0) EXCEPT ![Field[NextState[st]]].pos = rtsp.offset]
                ELSE Move(NextState[st], 0)
  \/ /\ st \in DOMAIN Field
     /\ rtsp' = IF c \in {SP, CR, LF} \/ (c = COLON /\ st = "HEADER_NAME")
                THEN [Move(NextState[st], 0) EXCEPT ![Field[st]].len =
                        rtsp.offset - rtsp[Field[st]].pos]
                ELSE Move(st, 1)
  \/ /\ st \in RestStates /\ c = CR
     /\ rtsp' = Move(NextState[st], 1)
  \/ /\ st \in RestStates /\ c = LF
     /\ rtsp' = Move(NextState[NextState[st]], 0)
  \/ /\ st \in RestStates /\ c \notin {SP, CR, LF}    \* the field has a further word
     /\ rtsp' = Move(LastField[st], 1)

LineCr(st, c) == st \in CrStates /\ Checked(c = LF, Move(NextState[st], 0))

\* rtsp_parse_status_line at the end of the line.
EndStatusLine(st) ==
  /\ st = "STATUS_LF"
  /\ Checked(/\ Char(rtsp, rtsp.name.pos) \in Version /\ rtsp.name.len = 1
             /\ Char(rtsp, rtsp.value.pos) \in StatusCode /\ rtsp.value.len = 1
             /\ rtsp.reason.len >= 1,
             [Move("HEADER_START", 1) EXCEPT
                !.raw = Put(Put(@, rtsp.reason.pos + rtsp.reason.len, NUL),
                            rtsp.value.pos + rtsp.value.len, NUL),
                !.code = atoi(Char(rtsp, rtsp.value.pos))])

\* One turn of rtsp_parse_status_line.
StatusTurn ==
  LET st == rtsp.stateM
      c  == Char(rtsp, rtsp.offset)
  IN  /\ ret = "running" /\ st \in StatusState /\ rtsp.offset < raw_size
      /\ \/ LineTurn(st, c) /\ UNCHANGED ret
         \/ LineCr(st, c)
         \/ EndStatusLine(st)
      /\ UNCHANGED <<message, fed>>

\* A fault: any third field passes for a version.
EndAnyLine(st) ==
  /\ st = "REQUEST_LF"
  /\ Checked(/\ rtsp.method.len >= 1 /\ rtsp.uri.len >= 1 /\ rtsp.name.len >= 1,
             [Move("HEADER_START", 1) EXCEPT
                !.raw = Put(Put(@, rtsp.method.pos + rtsp.method.len, NUL),
                            rtsp.uri.pos + rtsp.uri.len, NUL)])

\* rtsp_parse_request_line at the end of the line.
EndRequestLine(st) ==
  /\ st = "REQUEST_LF"
  /\ Checked(/\ rtsp.method.len >= 1 /\ rtsp.uri.len >= 1
             /\ rtsp.name.len >= 1 /\ Char(rtsp, rtsp.name.pos) \in Version,
             [Move("HEADER_START", 1) EXCEPT
                !.raw = Put(Put(@, rtsp.method.pos + rtsp.method.len, NUL),
                            rtsp.uri.pos + rtsp.uri.len, NUL)])

\* One turn of rtsp_parse_request_line.
RequestTurn ==
  LET st == rtsp.stateM
      c  == Char(rtsp, rtsp.offset)
  IN  /\ ret = "running" /\ st \in RequestState /\ rtsp.offset < raw_size
      /\ \/ LineTurn(st, c) /\ UNCHANGED ret
         \/ LineCr(st, c)
         \/ EndRequestLine(st)
      /\ UNCHANGED <<message, fed>>

-----------------------------------------------------------------------------
\* A fault: the line end that ends the headers does not change the state.
HeaderStartAgain(c) ==
  CASE c = SP -> [Move("HEADER_SP2", 1) EXCEPT !.name.pos = 0]
    [] c = CR -> [Move("HEADER_CR", 1) EXCEPT !.value.pos = 0]
    [] c = LF -> [rtsp EXCEPT !.value.pos = 0]
    [] OTHER  -> [Move("HEADER_NAME", 0) EXCEPT !.name.pos = rtsp.offset]

\* The first character of a header line: a fold, the end of the headers, or a name.
HeaderStart(c) ==
  CASE c = SP -> [Move("HEADER_SP2", 1) EXCEPT !.name.pos = 0]
    [] c = CR -> [Move("HEADER_CR", 1) EXCEPT !.value.pos = 0]
    [] c = LF -> [Move("HEADER_LF", 0) EXCEPT !.value.pos = 0]
    [] OTHER  -> [Move("HEADER_NAME", 0) EXCEPT !.name.pos = rtsp.offset]

\* The asserts of rtsp_header_handler: a length that is negative, or -1 because the body
\* is chunked; and chunks when there has been a length.
BadLength(r, h) ==
  \/ /\ Text(r, h.name.pos) = <<"Content-Length">>
     /\ is_transfer_encoding_chunked(r) \/ atoi(Char(r, h.value.pos)) < 0
  \/ /\ Text(r, h.name.pos) = <<"Transfer-Encoding">> /\ Char(r, h.value.pos) = "chunked"
     /\ r.content_length # -1

\* What rtsp_header_handler notes of a header: a value, or where it is.
rtsp_header_handler(r, h) ==
  LET name == Text(r, h.name.pos)
  IN  IF name = <<"Content-Length">>
      THEN [r EXCEPT !.content_length = atoi(Char(r, h.value.pos))]
      ELSE IF name = <<"Transfer-Encoding">>
      THEN [r EXCEPT !.transfer_encoding = h.value.pos,
                     !.raw = IF Char(r, h.value.pos) = "chunked"
                             THEN Put(@, h.value.pos + 1, NUL) ELSE @]
      ELSE IF name = <<"Connection">>
      THEN [r EXCEPT !.connection_close = IF Text(r, h.value.pos) = <<"close">> THEN 1 ELSE 0]
      ELSE IF name = <<"Content-Encoding">> THEN [r EXCEPT !.content_encoding = h.value.pos]
      ELSE IF name = <<"Set-Cookie">>       THEN [r EXCEPT !.cookie = h.value.pos]
      ELSE IF name = <<"Location">>         THEN [r EXCEPT !.location = h.value.pos]
      ELSE r

\* A fault: the value runs on to the end of the text.
HeaderOpen(r, h) ==
  [r EXCEPT !.raw = Put(@, h.name.pos + h.name.len, NUL), !.headers = Append(@, h)]

\* rtsp_header_add: the name and the value become strings of their own.
rtsp_header_add(r, h) ==
  [r EXCEPT !.raw = Put(Put(@, h.name.pos + h.name.len, NUL), h.value.pos + h.value.len, NUL),
            !.headers = Append(@, h)]

AddHeader ==
  LET h == [name |-> rtsp.name, value |-> rtsp.value]
      r == rtsp_header_add(Move("HEADER_START", 1), h)
  IN  /\ rtsp.value.pos # 0 /\ rtsp.name.pos # 0
      /\ Checked(/\ h.name.len >= 1 /\ Char(rtsp, h.name.pos) \notin Version
                 /\ ~BadLength(r, h),
                 rtsp_header_handler(r, h))

\* A folded line joins the header before it: all that precedes it, from index h.value.len
\* of the whole text, becomes blank.
FoldHeader ==
  LET n == Len(rtsp.headers)
      h == rtsp.headers[n]
      joined == [h EXCEPT !.value.len = rtsp.value.pos - h.value.pos + rtsp.value.len]
      blanked == [i \in 1..raw_size |-> IF i - 1 \in h.value.len..(rtsp.value.pos - 1)
                                        THEN SP ELSE rtsp.raw[i]]
      r == [Move("HEADER_START", 1) EXCEPT
              !.headers[n] = joined,
              !.raw = Put(blanked, joined.value.pos + joined.value.len, NUL)]
  IN  /\ rtsp.value.pos # 0 /\ rtsp.name.pos = 0
      /\ IF n = 0 THEN Checked(FALSE, rtsp)
         ELSE Checked(~BadLength(r, joined), rtsp_header_handler(r, joined))

EndHeaders ==
  /\ rtsp.value.pos = 0
  /\ rtsp' = Move("CHUNK_START", 1)     \* SM_BODY
  /\ UNCHANGED ret

\* One turn of rtsp_parse_header_line.
HeaderTurn ==
  LET st == rtsp.stateM
      c  == Char(rtsp, rtsp.offset)
  IN  /\ ret = "running" /\ st \in HeaderState /\ rtsp.offset < raw_size
      /\ \/ st = "HEADER_START" /\ rtsp' = HeaderStart(c) /\ UNCHANGED ret
         \/ LineTurn(st, c) /\ UNCHANGED ret
         \/ st = "HEADER_SEPARATOR" /\ Checked(c = COLON, Move("HEADER_SP2", 1))
         \/ LineCr(st, c)
         \/ st = "HEADER_LF" /\ (EndHeaders \/ AddHeader \/ FoldHeader)
      /\ UNCHANGED <<message, fed>>

-----------------------------------------------------------------------------
\* rtsp_parse_chunked is entered for the first time.
ChunkEnter ==
  /\ ret = "running" /\ rtsp.stateM \in ChunkState
  /\ is_transfer_encoding_chunked(rtsp) /\ rtsp.chunk.offset = 0
  /\ Checked(rtsp.content_length = -1,
             [rtsp EXCEPT !.chunk.offset = rtsp.offset, !.content_length = 0])
  /\ UNCHANGED <<message, fed>>

\* A chunk's size, digit by digit.
HexSize(word) == Hex[word] % SizeMod

\* A fault: only half of the line end is waited for.
ChunkHalfMissing ==
  rtsp.stateM = "CHUNK_DATA" /\ (rtsp.chunk.pos + rtsp.chunk.len + 1) % SizeMod > raw_size

\* The chunk and the line end after it have not arrived, as far as the sum can tell.
ChunkMissing ==
  rtsp.stateM = "CHUNK_DATA" /\ (rtsp.chunk.pos + rtsp.chunk.len + 2) % SizeMod > raw_size

\* The sum has wrapped: the chunk is larger than the text.
ChunkWraps == rtsp.chunk.pos + rtsp.chunk.len + 2 >= SizeMod

\* Where the line end behind the chunk is looked for, and that it is there.
ChunkEnd == (rtsp.chunk.pos + rtsp.chunk.len) % SizeMod
LineEnds == Char(rtsp, ChunkEnd) = CR /\ Char(rtsp, (ChunkEnd + 1) % SizeMod) = LF

Scan(s) == [rtsp EXCEPT !.stateM = s, !.chunk.offset = @ + 1]

\* The end of the line with the chunk's size.
AfterSize ==
  [Scan(IF rtsp.chunk.len = 0 THEN "CHUNK_TRAILER_START" ELSE "CHUNK_DATA")
   EXCEPT !.chunk.pos = rtsp.chunk.offset + 1]

\* Where the data of the next chunk goes: behind the data before it.
BodyEnd == rtsp.offset + rtsp.content_length

\* A fault: the turn's own increment is forgotten, and one byte too many is skipped.
TakeChunkAndOne ==
  LET moved == [i \in 1..raw_size |->
                  IF i - 1 \in BodyEnd..(BodyEnd + rtsp.chunk.len - 1)
                  THEN rtsp.raw[rtsp.chunk.pos + (i - BodyEnd)] ELSE rtsp.raw[i]]
  IN  [rtsp EXCEPT !.stateM = "CHUNK_START",
                   !.raw = Put(moved, BodyEnd + rtsp.chunk.len, NUL),
                   !.content_length = @ + rtsp.chunk.len,
                   !.chunk = [offset |-> @.offset + @.len + 3, len |-> 0, pos |-> 0]]

\* The chunk's data moves to the end of the body, which it then is.
TakeChunk ==
  LET moved == [i \in 1..raw_size |->
                  IF i - 1 \in BodyEnd..(BodyEnd + rtsp.chunk.len - 1)
                  THEN rtsp.raw[rtsp.chunk.pos + (i - BodyEnd)] ELSE rtsp.raw[i]]
  IN  [rtsp EXCEPT !.stateM = "CHUNK_START",
                   !.raw = Put(moved, BodyEnd + rtsp.chunk.len, NUL),
                   !.content_length = @ + rtsp.chunk.len,
                   !.chunk = [offset |-> @.offset + @.len + 2, len |-> 0, pos |-> 0]]

\* One turn of rtsp_parse_chunked.
ChunkTurn ==
  LET st == rtsp.stateM
      c  == Char(rtsp, rtsp.chunk.offset)
      stay(s) == rtsp' = s /\ UNCHANGED ret
  IN  /\ ret = "running" /\ is_transfer_encoding_chunked(rtsp) /\ rtsp.chunk.offset # 0
      /\ rtsp.chunk.offset < raw_size /\ ~ChunkMissing
      /\ \/ /\ st = "CHUNK_START"
            /\ Checked(c \in DOMAIN Hex, [Scan("CHUNK_SIZE") EXCEPT !.chunk.len = HexSize(c)])
         \/ /\ st = "CHUNK_SIZE"
            /\ Checked(c \in {SP, CR, LF},
                       IF c = LF THEN AfterSize
                       ELSE Scan(IF c = SP THEN "CHUNK_EXTENSION" ELSE "CHUNK_EXTENSION_CR"))
         \/ /\ st = "CHUNK_EXTENSION"
            /\ stay(IF c = LF THEN AfterSize
                    ELSE Scan(IF c = CR THEN "CHUNK_EXTENSION_CR" ELSE st))
         \/ /\ st = "CHUNK_EXTENSION_CR"
            /\ Checked(c = LF, AfterSize)
         \/ /\ st = "CHUNK_DATA" /\ ~ChunkWraps
            /\ Checked(LineEnds, TakeChunk)
         \/ /\ st = "CHUNK_DATA" /\ ChunkWraps     \* looked for before the chunk, or the text
            /\ ret' = IF LineEnds \/ ChunkEnd >= SizeMod - 2 THEN "overrun" ELSE "parse assert"
            /\ UNCHANGED rtsp
         \/ /\ st = "CHUNK_TRAILER_START"
            /\ stay(Scan(CASE c = CR -> "CHUNK_END_CR" [] c = LF -> "DONE"
                           [] OTHER -> "CHUNK_TRAILER"))
         \/ /\ st = "CHUNK_TRAILER"
            /\ stay(Scan(CASE c = CR -> "CHUNK_TRAILER_CR" [] c = LF -> "CHUNK_TRAILER_START"
                           [] OTHER -> st))
         \/ /\ st = "CHUNK_TRAILER_CR"
            /\ Checked(c = LF, Scan("CHUNK_TRAILER_START"))
         \/ /\ st = "CHUNK_END_CR"
            /\ Checked(c = LF, Scan("DONE"))
      /\ UNCHANGED <<message, fed>>

-----------------------------------------------------------------------------
\* A body that is not chunked is in SM_BODY until all of it is there.
PlainBody == rtsp.stateM = "CHUNK_START" /\ ~is_transfer_encoding_chunked(rtsp)

BodyMissing == rtsp.content_length # -1 /\ raw_size < BodyEnd

Body ==
  /\ ret = "running" /\ PlainBody /\ ~BodyMissing
  /\ \/ /\ rtsp.content_length = -1
        /\ rtsp' = [rtsp EXCEPT !.content_length = 0, !.stateM = "DONE"]
        /\ UNCHANGED ret
     \/ /\ rtsp.content_length # -1
        /\ Checked(raw_size <= BodyEnd, [rtsp EXCEPT !.stateM = "DONE"])
  /\ UNCHANGED <<message, fed>>

\* rtsp_parser_input returns: the message is whole, or more of it is needed.
Return ==
  /\ ret = "running"
  /\ \/ rtsp.stateM = "DONE" /\ ret' = "done"
     \/ /\ \/ rtsp.stateM \in LineState \cup HeaderState /\ rtsp.offset = raw_size
           \/ /\ rtsp.stateM \in ChunkState /\ is_transfer_encoding_chunked(rtsp)
              /\ rtsp.chunk.offset # 0
              /\ rtsp.chunk.offset >= raw_size \/ ChunkMissing
           \/ PlainBody /\ BodyMissing
        /\ ret' = "needmore"
  /\ UNCHANGED <<rtsp, message, fed>>

\* The stretches of a call of rtsp_parser_input after it has stored its input.
Parse == StatusTurn \/ RequestTurn \/ HeaderTurn \/ ChunkEnter \/ ChunkTurn \/ Body \/ Return

Next == Parse \/ Clear \/ \E n \in 1..Len(message.text) : Input(n)

\* A call that has begun goes on; nothing makes the camera send more.
Spec == Init /\ [][Next]_vars /\ WF_vars(Parse)

-----------------------------------------------------------------------------
\* The getters of rtsp-parser.h, on the parser once the message is done.
rtsp_get_status_code    == rtsp.code
rtsp_get_status_reason  == Text(rtsp, rtsp.reason.pos)
rtsp_get_request_method == Text(rtsp, rtsp.method.pos)
rtsp_get_request_uri    == Text(rtsp, rtsp.uri.pos)

rtsp_get_content_length == rtsp.content_length
rtsp_get_connection     == rtsp.connection_close

\* The getters of the headers whose place is noted.
Noted(place) == IF place = 0 THEN NULL ELSE Text(rtsp, place)
rtsp_get_content_encoding  == Noted(rtsp.content_encoding)
rtsp_get_transfer_encoding == Noted(rtsp.transfer_encoding)
rtsp_get_cookie            == Noted(rtsp.cookie)
rtsp_get_location          == Noted(rtsp.location)

rtsp_get_content == SubSeq(rtsp.raw, rtsp.offset + 1, BodyEnd)

\* The value of the first header of that name.
rtsp_get_header_by_name(name) ==
  LET named == {i \in DOMAIN rtsp.headers : Text(rtsp, rtsp.headers[i].name.pos) = <<name>>}
      first == CHOOSE i \in named : \A j \in named : i <= j
  IN  IF named = {} THEN NULL ELSE Text(rtsp, rtsp.headers[first].value.pos)

-----------------------------------------------------------------------------
Place == 0..Len(message.text)
Span  == [pos : Place, len : Place]

\* A field of the first line or of a header, and the NUL behind it, lie in the text.
Inside(field) == field \in Span /\ field.pos + field.len < raw_size

\* The parser stays within what it has stored: no field, header, chunk or body reaches beyond
\* the text, which with the NUL behind it fits the capacity.  So it is whatever is sent, until
\* a chunk's size wraps, and for ever if no size that is sent is that large.
TypeOK ==
  /\ message \in Message
  /\ fed \in Place
  /\ ret \in {"none", "running", "needmore", "done", "store assert", "parse assert", "overrun"}
  /\ Countable(message) => ret # "overrun"
  /\ rtsp.stateM \in LineState \cup HeaderState \cup ChunkState \cup {"DONE"}
  /\ raw_size = fed
  /\ raw_size = 0 \/ raw_size < rtsp.raw_capacity
  /\ rtsp.offset \in 0..raw_size
  /\ rtsp.chunk.offset \in 0..raw_size
  /\ rtsp.chunk.len \in 0..(SizeMod - 1) /\ rtsp.chunk.pos \in 0..raw_size
  /\ rtsp.content_length \in Nat \cup {-1}
  /\ is_transfer_encoding_chunked(rtsp) \/ rtsp.stateM = "DONE" => BodyEnd <= raw_size
  /\ rtsp.stateM \in LineState \/
     IF rtsp.server_mode THEN Inside(rtsp.method) /\ Inside(rtsp.uri) ELSE Inside(rtsp.reason)
  /\ \A i \in DOMAIN rtsp.headers : Inside(rtsp.headers[i].name) /\ Inside(rtsp.headers[i].value)

\* Wherever a well formed message is cut: rtsp_parser_input says "done" at its last byte, not
\* before and not later.
DoneExactlyAtEnd ==
  message.good => /\ ret = "done"     => fed = Len(message.text)
                  /\ ret = "needmore" => fed < Len(message.text)

\* A message that is not well formed is never "done", nor does the parser wait for more once
\* all of it is there: wherever it is cut, an assert refuses it, unless a size in it wraps.
BadIsRefused ==
  ~message.good /\ Countable(message) =>
    ret # "done" /\ (ret = "needmore" => fed < Len(message.text))

\* What the getters give once a well formed message is done is what was sent: the first line,
\* each header, by name and by what it means, and the body, chunked or not, whatever the
\* parser was used for before.  (Folded messages are not: see FoldHeader.  Nor is it told that
\* there was no Content-Length: its getter then gives 0, and not what rtsp-parser.h says.)
Sent(name) == IF name \in DOMAIN message.headers THEN message.headers[name] ELSE NULL
HasLength(m) == \E k \in 1..HeaderCount(m) : MeasuredBy(m, k) \/ ChunkedBy(m, k)
MessageRead ==
  message.good /\ ~message.folded /\ ret = "done" =>
    /\ IF rtsp.server_mode
       THEN rtsp_get_request_method = message.method /\ rtsp_get_request_uri = message.uri
       ELSE rtsp_get_status_code = message.code /\ rtsp_get_status_reason = message.reason
    /\ rtsp_get_content = message.body
    /\ HasLength(message) => rtsp_get_content_length = Len(message.body)
    /\ \A n \in DOMAIN message.headers : rtsp_get_header_by_name(n) = message.headers[n]
    /\ rtsp_get_connection = CASE Sent("Connection") = NULL -> -1
                               [] Sent("Connection") = <<"close">> -> 1
                               [] OTHER -> 0
    /\ rtsp_get_content_encoding  = Sent("Content-Encoding")
    /\ rtsp_get_transfer_encoding = Sent("Transfer-Encoding")
    /\ rtsp_get_cookie   = Sent("Set-Cookie")
    /\ rtsp_get_location = Sent("Location")

\* No assert of the parsing ends the program on a well formed message; the one assert a
\* peer can trip with it is that of rtsp_rawdata, by the size of what it sends at once.  Nor
\* does the text of such a message, which is shorter than size_t counts, make a sum wrap.
GoodIsParsed == message.good => ret \notin {"parse assert", "overrun"}

\* Every call of rtsp_parser_input returns or aborts: no "go back" goes round in a circle.
Returns == ret = "running" ~> ret # "running"

-----------------------------------------------------------------------------
(* What a comment says, and the code does not.                               *)

\* A Content-Length is ignored if the body is in chunks.
LengthIgnored == MeasuredTwice(message) => ret # "parse assert"
=============================================================================
