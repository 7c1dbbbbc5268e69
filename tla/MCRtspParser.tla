---------------------------- MODULE MCRtspParser ---------------------------
(* RtspParser for TLC: what a camera may answer to DESCRIBE, and requests, *)
(* in the forms RFC 2326 allows them, with the places of their parts, and  *)
(* some that it does not allow.                                            *)
EXTENDS RtspParser, TLC

Eols   == {<<CR, LF>>, <<LF>>}
Styles == {"tight", "loose"}     \* blanks around the colon and behind the value, or none

Numbers == "0" :> 0 @@ "1" :> 1 @@ "2" :> 2 @@ "3" :> 3 @@ "200" :> 200 @@ "401" :> 401
           @@ "-1" :> -1

\* The sizes of chunks, two of which size_t does not hold, or nearly.
Sizes == "0" :> 0 @@ "1" :> 1 @@ "2" :> 2 @@ "most" :> SizeMod - 2 @@ "over" :> SizeMod + 1

\* A stretch of a text.
F(pos, len) == [pos |-> pos, len |-> len]

\* A header's tokens, and its parts in a text where it begins at position at.
HeadOf(name, value, style) == [name |-> name, value |-> value, style |-> style]
Fold(value) == HeadOf(NUL, value, "fold")
HeadText(h, eol) ==
  CASE h.style = "tight" -> <<h.name, COLON>> \o h.value \o eol
    [] h.style = "loose" -> <<h.name, SP, COLON, SP>> \o h.value \o <<SP>> \o eol
    [] h.style = "fold"  -> <<SP>> \o h.value \o eol
HeadMark(h, at) ==
  LET from == at + (CASE h.style = "tight" -> 2 [] h.style = "loose" -> 4 [] h.style = "fold" -> 1)
      end  == from + Len(h.value) + (IF h.style = "loose" THEN 1 ELSE 0)
  IN  [name |-> F(at, 1), colon |-> IF h.style = "tight" THEN at + 1 ELSE at + 2, end |-> end,
       value |-> F(IF h.value = <<>> THEN end ELSE from, Len(h.value)), fold |-> h.style = "fold"]

\* The values of the headers with names.
Said2(heads) ==
  [n \in {heads[i].name : i \in DOMAIN heads} |->
     heads[CHOOSE i \in DOMAIN heads : heads[i].name = n].value]

\* A message of a first line with fields at the given places, heads and a tail.
Whole(mode, line, fields, heads, eol, tail) ==
  LET at[k \in 0..Len(heads)] ==
        IF k = 0 THEN Len(line \o eol) ELSE at[k - 1] + Len(HeadText(heads[k], eol))
      text[k \in 0..Len(heads)] ==
        IF k = 0 THEN line \o eol ELSE text[k - 1] \o HeadText(heads[k], eol)
      said(f) == SubSeq(line, f.pos + 1, f.pos + f.len)
      body == at[Len(heads)] + Len(eol)
      folded == \E i \in DOMAIN heads : heads[i].style = "fold"
  IN  [text |-> text[Len(heads)] \o eol \o tail, good |-> TRUE, folded |-> folded,
       server_mode |-> mode,
       method |-> IF mode THEN said(fields[1]) ELSE NULL,
       uri |-> IF mode THEN said(fields[2]) ELSE NULL,
       code |-> IF mode THEN 0 ELSE Numbers[line[fields[2].pos + 1]],
       reason |-> IF mode THEN <<>> ELSE said(fields[3]),
       headers |-> IF folded THEN <<>> ELSE Said2(heads), body |-> tail,
       layout |-> [first |-> fields[1], second |-> fields[2], third |-> fields[3],
                   end |-> Len(line), blank |-> at[Len(heads)], body |-> body,
                   headers |-> [k \in 1..Len(heads) |-> HeadMark(heads[k], at[k - 1])],
                   chunks |-> <<>>, trailers |-> <<>>, last |-> body]]

Response(code, reason, heads, eol, tail) ==
  Whole(FALSE, <<"RTSP/1.0", SP, code, SP>> \o reason, <<F(0, 1), F(2, 1), F(4, Len(reason))>>,
        heads, eol, tail)

Challenge == <<"Digest", SP, "realm">>

\* 401 with a challenge, and a header with no value.
Unauthorized(style, eol) ==
  Response("401", <<"Not", SP, "Allowed">>,
           <<HeadOf("Public", <<>>, style), HeadOf("WWW-Authenticate", Challenge, style)>>, eol, <<>>)

\* The SDP: three bytes, the last two a line end.
Sdp == <<"v", CR, LF>>

Sized(style, eol) ==
  Response("200", <<"OK">>,
           <<HeadOf("Content-Length", <<"3">>, style), HeadOf("Location", <<"rtsp">>, style),
             HeadOf("Connection", <<"close">>, style)>>, eol, Sdp)

\* The SDP in two chunks, of which the second has an extension, and a trailer.
InChunks(heads, style, eol) ==
  LET trailer == IF style = "loose" THEN <<"Tr", COLON, "1">> \o eol ELSE <<>>
      m == Response("200", <<"OK">>, heads, eol,
                    <<"2">> \o eol \o <<"v", CR>> \o <<CR, LF>>
                      \o <<"1", SP, "ext">> \o eol \o <<LF>> \o <<CR, LF>>
                      \o <<"0">> \o eol \o trailer \o eol)
      e == Len(eol)
      b == m.layout.body
      c == b + 5 + e       \* the second chunk
      d == c + 6 + e       \* the last
  IN  [m EXCEPT
         !.body = Sdp,
         !.layout.chunks =
           <<[size |-> b, end |-> b + 1, data |-> b + 1 + e, len |-> 2, at |-> 0],
             [size |-> c, end |-> c + 3, data |-> c + 3 + e, len |-> 1, at |-> 2],
             [size |-> d, end |-> d + 1, data |-> d + 1 + e, len |-> 0, at |-> 3]>>,
         !.layout.trailers =
           IF style = "loose" THEN <<[start |-> d + 1 + e, end |-> d + 4 + e]>> ELSE <<>>,
         !.layout.last = d + 1 + e + Len(trailer)]

Chunks(style) == HeadOf("Transfer-Encoding", <<"chunked">>, style)
Chunked(style, eol) == InChunks(<<Chunks(style)>>, style, eol)

\* Two headers whose place is noted.
Noticed(eol) ==
  Response("200", <<"OK">>,
           <<HeadOf("Content-Encoding", <<"gzip">>, "loose"), HeadOf("Set-Cookie", <<"c">>, "tight"),
             HeadOf("Connection", <<"keep">>, "tight")>>, eol, <<>>)

\* A header value on two lines.
Folded ==
  Response("401", <<"OK">>,
           <<HeadOf("CSeq", <<"1">>, "tight"), HeadOf("WWW-Authenticate", <<"Digest">>, "tight"),
             Fold(<<"realm">>)>>, <<LF>>, <<>>)

\* In server mode: a request without a body, with one, and with a long last field.
Request(style, version, heads, eol, tail) ==
  LET gap == IF style = "loose" THEN <<SP>> ELSE <<>>
      n == Len(gap)
  IN  Whole(TRUE, <<"DESCRIBE", SP>> \o gap \o <<"url", SP>> \o version,
            <<F(0, 1), F(2 + n, 1), F(4 + n, IF Len(version) > 1 THEN Len(version) - 1 ELSE 1)>>,
            heads, eol, tail)
Requests(style, eol) ==
  { Request(style, <<"RTSP/1.0">>, <<HeadOf("CSeq", <<"1">>, style)>>, eol, <<>>),
    Request(style, <<"RTSP/1.0", SP, "x", SP>>, <<HeadOf("Content-Length", <<"3">>, style)>>, eol,
            Sdp) }

StatusLine(code, reason, eol) == <<"RTSP/1.0", SP, code, SP>> \o reason \o eol

Malformed ==
  { StatusLine("200", <<"OK">>, <<CR>>) \o <<"CSeq">>,                    \* CR alone
    StatusLine("200", <<"OK">>, <<LF>>) \o <<"CSeq", SP, "1", LF, LF>>,   \* no colon
    StatusLine("200", <<"OK">>, <<LF>>) \o <<SP, "1", LF, LF>>,           \* folds nothing
    StatusLine("200", <<"OK">>, <<LF>>)                                   \* no length
      \o <<"Content-Length", COLON, "-1", LF, LF>>,
    StatusLine("200", <<"OK">>, <<LF>>)                                   \* chunk too long
      \o <<"Transfer-Encoding", COLON, "chunked", LF, LF, "1", LF, "v", "x", CR, LF>> }

BadRequests ==
  { <<LF, "DESCRIBE", SP, "url", SP, "RTSP/1.0", LF>>,       \* an empty line before it
    <<"DESCRIBE", SP, "url", LF, LF>>,                       \* no version
    <<"DESCRIBE", SP, "url", SP, "HTTP", LF, LF>> }

\* Sizes that wrap: the one as it is read, the other when the end of its chunk is sought.
Oversized ==
  { StatusLine("200", <<"OK">>, <<LF>>)
      \o <<"Transfer-Encoding", COLON, "chunked", LF, LF>> \o size
      \o <<"v", CR, LF, "0", LF, LF>> : size \in {<<"over", LF>>, <<"most", CR, LF>>} }

Bad(text, mode) ==
  [Response("200", <<"OK">>, <<>>, <<LF>>, <<>>) EXCEPT
     !.text = text, !.good = FALSE, !.server_mode = mode]

Messages ==
  {Unauthorized(s, e) : s \in Styles, e \in Eols} \cup {Sized(s, e) : s \in Styles, e \in Eols}
  \cup {Chunked(s, e) : s \in Styles, e \in Eols} \cup {Noticed(e) : e \in Eols} \cup {Folded}
  \cup UNION {Requests(s, e) : s \in Styles, e \in Eols}
  \cup {Bad(t, FALSE) : t \in Malformed \cup Oversized} \cup {Bad(t, TRUE) : t \in BadRequests}

\* In chunks, and with a length behind.
TwiceMeasured ==
  {[InChunks(<<Chunks(s), HeadOf("Content-Length", <<"3">>, s)>>, s, e) EXCEPT !.good = FALSE] :
     s \in Styles, e \in Eols}
=============================================================================
