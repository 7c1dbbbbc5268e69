-------------------------------- MODULE Md5 --------------------------------
(***************************************************************************)
(* md5.c and md5gen.c: how a text is cut into blocks, padded and counted.  *)
(* What MD5Transform makes of a block is left out: the state is the text   *)
(* transformed so far, so that two digests are equal exactly if the same   *)
(* blocks went into them in the same order.                                *)
(*                                                                         *)
(* The size of a block and of the two words of the bit count are           *)
(* parameters; a word takes one byte of a block here.                      *)
(***************************************************************************)
EXTENDS Integers, Sequences

CONSTANTS
  BlockLen,   \* 64 in the code
  WordMod     \* 2^32 in the code: the bit count's words are modulo this

ASSUME Md5Assumption ==
  /\ BlockLen \in Nat /\ BlockLen > 2
  /\ WordMod \in Nat /\ WordMod > 0 /\ WordMod % (8 * BlockLen) = 0

\* Texts and digests are sequences of characters, which are numbers.
Text == Seq(Int)

\* Where the bit count starts in the last block: 56 in the code.
CountAt == BlockLen - 2

PADDING == [k \in 1..BlockLen |-> IF k = 1 THEN 128 ELSE 0]

\* The buffer is not initialised: no byte has this value.
Junk == -1

MD5Init ==
  [count |-> <<0, 0>>, state |-> <<>>, buffer |-> [k \in 1..BlockLen |-> Junk]]

Index(context) == (context.count[1] \div 8) % BlockLen

\* memcpy(buffer + index, input, ...)
Copy(buffer, index, input) ==
  [k \in 1..BlockLen |->
     IF k \in (index + 1)..(index + Len(input)) THEN input[k - index] ELSE buffer[k]]

\* The bit count, in two words, after len more bytes.  Mutant: no carry.
CountLost(count, len) ==
  LET bits == (len * 8) % WordMod IN
  << (count[1] + bits) % WordMod, (count[2] + (len * 8) \div WordMod) % WordMod >>
Counted(count, len) ==
  LET bits == (len * 8) % WordMod
      low  == (count[1] + bits) % WordMod
      carry == IF low < bits THEN 1 ELSE 0
  IN << low, (count[2] + carry + (len * 8) \div WordMod) % WordMod >>

\* If the input fills the buffer, the buffer and every whole block of the rest
\* are transformed; what remains is buffered.
MD5Update(context, input) ==
  LET index   == Index(context)
      partLen == BlockLen - index
      len     == Len(input)
      i       == partLen + BlockLen * ((len - partLen) \div BlockLen)
      full    == Copy(context.buffer, index, SubSeq(input, 1, partLen))
  IN
  IF len < partLen
  THEN [context EXCEPT
          !.count  = Counted(@, len),
          !.buffer = Copy(@, index, input)]
  ELSE [count  |-> Counted(context.count, len),
        state  |-> context.state \o full \o SubSeq(input, partLen + 1, i),
        buffer |-> Copy(full, 0, SubSeq(input, i + 1, len))]

\* Mutant: a text that ends where the count starts gets no padding.
PadLenTight(index) ==
  IF index <= CountAt THEN CountAt - index ELSE CountAt + BlockLen - index
PadLen(index) ==
  IF index < CountAt THEN CountAt - index ELSE CountAt + BlockLen - index

\* Pad up to the count, then append it, as it was before the padding.
MD5Final(context) ==
  LET padded == MD5Update(context, SubSeq(PADDING, 1, PadLen(Index(context))))
  IN MD5Update(padded, context.count).state

\* The hexadecimal digits of a digest: a text of its own, without a NUL.
CvtHex(digest) == [k \in DOMAIN digest |-> 256 + digest[k]]

md5_packages_string(text) == CvtHex(MD5Final(MD5Update(MD5Init, text)))

\* chap_auth: the same over a text that comes in three pieces.
chap_auth(id, pwd, chal) ==
  MD5Final(MD5Update(MD5Update(MD5Update(MD5Init, <<id>>), pwd), chal))

-----------------------------------------------------------------------------
\* What RFC 1321 asks for: the text, one bit, zeros up to the place of the
\* count, and the length in bits.
Padded(text) ==
  LET zeros == (CountAt - 1 - Len(text)) % BlockLen
      bits  == 8 * Len(text)
  IN text \o <<128>> \o [k \in 1..zeros |-> 0]
          \o <<bits % WordMod, (bits \div WordMod) % WordMod>>
=============================================================================
