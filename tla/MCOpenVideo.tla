---------------------------- MODULE MCOpenVideo ----------------------------
(***************************************************************************)
(* OpenVideo for TLC: ids with and without escapes, two database rows,     *)
(* challenges and descriptions of several makes of cameras.                *)
(***************************************************************************)
EXTENDS OpenVideo

\* "ab"; "a%62", which decodes to it; "ab%z", which breaks off after it; an id of
\* bytes that encoding must escape, one of them not ASCII; and one whose row has
\* a NULL.
ab      == <<97, 98>>
escaped == <<97, 37, 54, 50>>
broken  == <<97, 98, 37, 122>>
odd     == <<32, 74, 126, 37, 250>>
null    == <<48>>

OpenAb == [cmd |-> "open_video", id |-> ab, stream |-> 0]
IdRequests ==
  [cmd : {"open_video"}, id : {ab, escaped}, stream : {0, 1}]
    \cup [cmd : {"play"}, id : {ab, escaped}, stream : {0}]
    \cup {[OpenAb EXCEPT !.id = id] : id \in {broken, odd, null}}

\* A row with both streams; one without a sub stream, and with a URL that does
\* not fit; one whose password is NULL; and one whose user's name is too long.
host == <<200>>
RowAb  == [host |-> host, user |-> <<117>>, passwd |-> <<112, 119>>,
           main |-> <<47, 109>>, sub |-> <<47, 115>>]
RowEsc == [RowAb EXCEPT !.main = [k \in 1..23 |-> 47], !.sub = <<>>]
RowNull == [RowAb EXCEPT !.passwd = None]
RowLong == [RowAb EXCEPT !.user = [k \in 1..8 |-> 117]]
IdRows == (ab :> RowAb) @@ (escaped :> RowEsc) @@ (odd :> RowAb) @@ (null :> RowNull)
            @@ (broken :> RowLong)

\* Values of one to seven characters, so that the texts that are hashed end
\* before, at and behind the place of the count.
Param(word, value) == <<word, Quote>> \o value \o <<Quote>>
Challenge(realm, nonce) ==
  <<WordDigest>> \o Param(WordRealm, realm) \o <<Comma>> \o Param(WordNonce, nonce)
Chars(n) == [k \in 1..n |-> 109 + k]

Line(kind, text, rate) == [kind |-> kind, text |-> text, rate |-> rate, size |-> Len(text)]
SizeOf == [kind \in {"m=video", "a=rtpmap", "a=rtpmap_audio", "a=fmtp", "m=audio"} |->
             IF kind \in {"m=video", "m=audio"} THEN 22 ELSE 40]
VideoLine  == Line("m=video", "m=video 0 RTP/AVP 96", 0)
VideoMap   == Line("a=rtpmap", "a=rtpmap:96 H264/90000", 90000)
VideoFmtp  == Line("a=fmtp", "a=fmtp:96", None)
LongFmtp   == [VideoFmtp EXCEPT !.size = 40]
AudioLine  == Line("m=audio", "m=audio 0 RTP/AVP 8", 0)
AudioMap   == Line("a=rtpmap", "a=rtpmap:8 PCMA/8000", 8000)
AudioFmtp  == Line("a=fmtp", "a=fmtp:8", None)
ControlLine == Line("a=control", "a=control:0", None)

Ends(lines) == [lines |-> lines, ended |-> TRUE]
Video == <<VideoLine, ControlLine, VideoMap, VideoFmtp>>
Audio == <<AudioLine, AudioMap, AudioFmtp>>
Descriptions ==
  { Ends(Video), Ends(Video \o Audio), Ends(Audio \o Video),
    Ends(<<VideoLine, VideoMap>> \o Audio),        \* no parameters of its own
    Ends(Audio), Ends(<<ControlLine>>),
    Ends(<<VideoLine, ControlLine>>),              \* no format
    Ends(<<VideoLine, VideoMap, LongFmtp>>),       \* too long for its field
    [lines |-> Video, ended |-> FALSE] }           \* cut short

Refusal(realm, nonce) ==
  [NoAnswer EXCEPT !.code = 401, !.auth = Challenge(realm, nonce),
                   !.realm = realm, !.nonce = nonce]
CameraAnswers ==
  {[NoAnswer EXCEPT !.code = 200, !.sdp = d] : d \in Descriptions}
    \cup {Refusal(Chars(n), Chars(9 - n)) : n \in {0, 1, 2, 5, 8}}
    \cup {Refusal(Chars(10), Chars(2)), Refusal(Chars(2), Chars(14)),   \* too long: realm,
           Refusal(Chars(2), Chars(15))}                                 \* nonce, and nonce
    \cup {[NoAnswer EXCEPT !.code = 401, !.auth = auth] :
            auth \in {None, <<WordDigest>>, <<WordDigest, WordRealm>>, Param(WordRealm, Chars(2))}}
    \cup {NoAnswer}
=============================================================================
