------------------------------- MODULE Digest -------------------------------
(***************************************************************************)
(* The digest authentication of the SDP phase: get_realm_and_nonce and     *)
(* get_response of dev_opt.c.  A text is a sequence of characters; the     *)
(* words the code searches for count as one character each, and the URL    *)
(* scheme, address and port as another.                                    *)
(***************************************************************************)
EXTENDS Md5, SequencesExt

CONSTANTS
  MsgBufLen,   \* sizeof(msg_buf), and of the URL fields: 512 in the code
  RealmLen,    \* sizeof(realm): 64
  NonceLen,    \* sizeof(nonce), the node's last field: 128
  HexLen       \* how long the text of a digest is: 32

ASSUME DigestAssumption ==
  /\ MsgBufLen \in Nat /\ HexLen \in Nat /\ MsgBufLen > 2 * HexLen + 2
  /\ RealmLen \in Nat /\ NonceLen \in Nat

Quote == 34  Comma == 44  Colon == 58
WordDigest == 1000  WordRealm == 1001  WordNonce == 1002  WordDescribe == 1003

\* strchr and strstr(text + from - 1, c): a position, or 0 for NULL.
Strchr(text, from, c) ==
  LET hits == {k \in from..Len(text) : text[k] = c}
  IN IF hits = {} THEN 0 ELSE CHOOSE k \in hits : \A j \in hits : k <= j

\* Where the quoted value of a word begins and ends.  The closing quote is
\* searched two characters behind the opening one.
Opening(text, word) ==
  LET at == Strchr(text, 1, word) IN IF at = 0 THEN 0 ELSE Strchr(text, at, Quote)
Closing(text, word) == Strchr(text, Opening(text, word) + 2, Quote)
Value(text, word) == SubSeq(text, Opening(text, word) + 1, Closing(text, word) - 1)

\* The word is there, and its value is between two quotes.
Quoted(text, word) == Opening(text, word) # 0 /\ Closing(text, word) # 0

\* get_realm_and_nonce: -1 without a realm; ret 0 and the strings that the fields of the node,
\* which were zeroed, then hold.  The values are copied whatever the size of the field: behind
\* realm comes nonce, into which a realm that leaves no NUL runs on, and behind that the end of
\* the node.
Held(realm, nonce) ==
  LET second == nonce \o SubSeq(realm, RealmLen + Len(nonce) + 1, Len(realm)) IN
  [realm |-> IF Len(realm) < RealmLen THEN realm ELSE SubSeq(realm, 1, RealmLen) \o second,
   nonce |-> second]
get_realm_and_nonce(text) ==
  LET has(word) == Strchr(text, 1, word) # 0
      held == Held(Value(text, WordRealm),
                   IF has(WordNonce) THEN Value(text, WordNonce) ELSE <<>>)
  IN
  CASE ~ has(WordRealm) -> [ret |-> -1, realm |-> <<>>, nonce |-> <<>>, broke |-> FALSE]
    [] has(WordRealm) ->
         [ret   |-> 0, realm |-> held.realm, nonce |-> held.nonce,
          broke |-> \/ ~ Quoted(text, WordRealm)
                    \/ has(WordNonce) /\ ~ Quoted(text, WordNonce)
                    \/ Len(held.nonce) >= NonceLen]

\* snprintf into msg_buf, or into a field of that size.
Printed(text) == IF Len(text) < MsgBufLen THEN text ELSE SubSeq(text, 1, MsgBufLen - 1)

\* The same of two digests with the nonce between them, which may leave too little room.
PrintedDigests(part1, nonce, part3) ==
  LET text == part1 \o <<Colon>> \o nonce \o <<Colon>> \o part3
      size == HexLen + 1 + Len(nonce) + 1 + HexLen
  IN IF size < MsgBufLen THEN text
     ELSE SubSeq(text, 1, Len(text) - (size - (MsgBufLen - 1)))

get_response(user, passwd, realm, nonce, method, url) ==
  LET part1 == md5_packages_string(Printed(user \o <<Colon>> \o realm \o <<Colon>> \o passwd))
      part3 == md5_packages_string(Printed(<<method, Colon>> \o url))
  IN md5_packages_string(PrintedDigests(part1, nonce, part3))

-----------------------------------------------------------------------------
\* What RFC 2069 lets the camera expect from who knows the password.
H(text) == CvtHex(Padded(text))
Expected(user, passwd, realm, nonce, method, url) ==
  H( H(user \o <<Colon>> \o realm \o <<Colon>> \o passwd)
       \o <<Colon>> \o nonce \o <<Colon>>
       \o H(<<method, Colon>> \o url) )
=============================================================================
