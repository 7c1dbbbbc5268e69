------------------------------ MODULE UrlCode ------------------------------
(***************************************************************************)
(* url_code.c: percent encoding of device ids.  A text is a sequence of    *)
(* bytes without its terminating NUL; reading one past the end finds it.   *)
(* Both functions say in r whether they gave up and in target what they    *)
(* wrote, a NUL not counted: it is there only if target is shorter than    *)
(* tgtBytes.                                                               *)
(***************************************************************************)
EXTENDS Integers, Sequences, SequencesExt

NUL == 0
Space == 32  Percent == 37  Plus == 43

Digits == 48..57
Upper  == 65..90
Lower  == 97..122

char_isalnum(c) == c \in Digits \cup Upper \cup Lower
char_ishex(c)   == c \in Digits \cup 65..70 \cup 97..102
Unreserved(c)   == char_isalnum(c) \/ c \in {45, 95, 46, 126}  \* - _ . ~

\* Mutant: upper case digits are taken for lower case ones.
ToHexLower(c) == IF c \in Digits THEN c - 48 ELSE c - 87
ToHex(c) == IF c \in Digits THEN c - 48 ELSE IF c \in Upper THEN c - 55 ELSE c - 87

\* s_encode[n].
Hex(n) == IF n < 10 THEN 48 + n ELSE 55 + n

\* The bytes one byte becomes.
Escaped(c) ==
  CASE Unreserved(c) -> <<c>>
    [] c = Space     -> <<Plus>>
    [] OTHER         -> <<Percent, Hex(c \div 16), Hex(c % 16)>>

\* The byte at p, and the text as C sees it: up to the first NUL.
At(text, p) == IF p <= Len(text) THEN text[p] ELSE NUL
CString(text) == SelectInSeq(text, LAMBDA c : c = NUL)  \* its position, or 0
AsString(text) == IF CString(text) = 0 THEN text ELSE SubSeq(text, 1, CString(text) - 1)

\* srcBytes = -1: up to the NUL.
Within(p, srcBytes) == srcBytes = -1 \/ p <= srcBytes

\* The loops: p is where the source is read next; a turn that leaves p alone was
\* the last one.
Start == [p |-> 1, r |-> 0, target |-> <<>>]

\* The source or the target is used up, or the loop has been left with -1.
LoopEnds(source, srcBytes, tgtBytes, s) ==
  s.r = -1 \/ At(source, s.p) = NUL \/ ~ Within(s.p, srcBytes) \/ Len(s.target) >= tgtBytes

EncodeTurn(source, srcBytes, tgtBytes, s) ==
  LET e == Escaped(source[s.p]) IN
  IF LoopEnds(source, srcBytes, tgtBytes, s) THEN s
  ELSE IF Len(s.target) + Len(e) > tgtBytes THEN [s EXCEPT !.r = -1]
  ELSE [s EXCEPT !.p = @ + 1, !.target = @ \o e]

url_encode(source, srcBytes, tgtBytes) ==
  LET turn[n \in 0..Len(source)] ==
        IF n = 0 THEN Start ELSE EncodeTurn(source, srcBytes, tgtBytes, turn[n - 1])
  IN turn[Len(source)]

\* An escape needs two hexadecimal digits inside the source.
Malformed(source, p, srcBytes) ==
  \/ ~ char_ishex(At(source, p + 1))
  \/ ~ char_ishex(At(source, p + 2))
  \/ ~ Within(p + 2, srcBytes)

\* The byte at p, decoded.
Byte(source, p) ==
  CASE source[p] = Plus    -> Space
    [] source[p] = Percent -> 16 * ToHex(source[p + 1]) + ToHex(source[p + 2])
    [] OTHER               -> source[p]

DecodeTurn(source, srcBytes, tgtBytes, s) ==
  IF LoopEnds(source, srcBytes, tgtBytes, s) THEN s
  ELSE IF source[s.p] = Percent /\ Malformed(source, s.p, srcBytes) THEN [s EXCEPT !.r = -1]
  ELSE [s EXCEPT !.p = @ + (IF source[s.p] = Percent THEN 3 ELSE 1),
                 !.target = Append(@, Byte(source, s.p))]

url_decode(source, srcBytes, tgtBytes) ==
  LET turn[n \in 0..Len(source)] ==
        IF n = 0 THEN Start ELSE DecodeTurn(source, srcBytes, tgtBytes, turn[n - 1])
  IN turn[Len(source)]
=============================================================================
