----------------------------- MODULE Md5Proofs -----------------------------
(***************************************************************************)
(* The digest of md5.c is that of the text padded and counted as RFC 1321  *)
(* asks for, for texts of every length, blocks and words of every size and *)
(* however the text is cut into pieces.                                    *)
(*                                                                         *)
(* The argument is a representation invariant, Holds(context, t): what the *)
(* context remembers of the text t it was fed.  MD5Update takes Holds of t *)
(* to Holds of t with the input behind it; MD5Final makes the padding of   *)
(* it.  There is no induction: MD5Update has no loop left in the model.    *)
(***************************************************************************)
EXTENDS Md5, TLAPS

-----------------------------------------------------------------------------
(* Quotients and remainders by any number.                                   *)

\* A number is its quotient times the divisor, and its remainder.
LEMMA Parts ==
  ASSUME NEW n \in Int, NEW b \in Nat \ {0}
  PROVE  n \div b \in Int /\ n % b \in 0..(b - 1) /\ n = b * (n \div b) + (n % b)
  OBVIOUS

\* And no other quotient and remainder make it.
LEMMA PartsAre ==
  ASSUME NEW b \in Nat \ {0}, NEW q \in Int, NEW r \in 0..(b - 1), NEW n \in Int, n = b * q + r
  PROVE  n \div b = q /\ n % b = r
  OBVIOUS

\* What the solver needs to be told of products of unknowns.
LEMMA Times ==
  ASSUME NEW b \in Int, NEW d \in Int, NEW e \in Int
  PROVE  b * (d - e) = b * d - b * e /\ b * (d + e) = b * d + b * e /\ b * d \in Int /\ b * d = d * b
  OBVIOUS

\* Quotients of natural numbers.
LEMMA NonNegative ==
  ASSUME NEW n \in Nat, NEW b \in Nat \ {0}
  PROVE  n \div b \in Nat
  OBVIOUS

\* Products of three.
LEMMA Associates ==
  ASSUME NEW a \in Int, NEW b \in Int, NEW c \in Int
  PROVE  (a * b) * c = a * (b * c)
  OBVIOUS

\* The remainder of a sum is that of the sum of the remainders.
LEMMA AddedParts ==
  ASSUME NEW b \in Nat \ {0}, NEW n \in Int, NEW m \in Int
  PROVE  /\ ((n % b) + m) % b = (n + m) % b
<1> DEFINE q == n \div b  r == n % b  s == r + m
<1>1. q \in Int /\ r \in Int /\ n = b * q + r /\ b * q \in Int
  BY Parts, Times
<1>2. s \in Int /\ s \div b \in Int /\ s % b \in 0..(b - 1) /\ s = b * (s \div b) + (s % b)
  BY <1>1, Parts
<1> HIDE DEF q, r
<1>3. n + m = b * q + s
  BY <1>1
<1> HIDE DEF s
<1>4. b * (q + (s \div b)) = b * q + b * (s \div b) /\ b * (s \div b) \in Int
  BY <1>1, <1>2, Times
<1> DEFINE d == s \div b  e == s % b x == b * q y == b * d z == b * (q + d)
<1> HIDE DEF d, e, x, y, z
<1>5. n + m = z + e
  <2>1. n + m = x + s /\ s = y + e /\ z = x + y /\ x \in Int /\ y \in Int /\ s \in Int /\ e \in Int
    BY <1>1, <1>2, <1>3, <1>4 DEF x, y, z, d, e
  <2> QED
    BY ONLY <2>1
<1>6. (n + m) % b = s % b
  <2>1. q + d \in Int /\ e \in 0..(b - 1) /\ n + m = b * (q + d) + e
    BY <1>1, <1>2, <1>5 DEF d, e, z
  <2>2. (n + m) % b = e
    BY ONLY <2>1, PartsAre, n \in Int, m \in Int, b \in Nat \ {0}, n + m \in Int
  <2> QED
    BY <2>2 DEF e
<1> QED
  BY <1>6 DEF s, r

\* Multiples of the divisor do not count.
LEMMA Shifted ==
  ASSUME NEW b \in Nat \ {0}, NEW n \in Int, NEW k \in Int
  PROVE  (n - b * k) % b = n % b
<1> DEFINE q == n \div b  r == n % b  x == b * q  y == b * k  z == b * (q - k)
<1>1. q \in Int /\ r \in 0..(b - 1) /\ n = x + r /\ x \in Int /\ y \in Int /\ z = x - y
  BY Parts, Times
<1>2. q - k \in Int
  BY <1>1
<1> HIDE DEF q, r, x, y, z
<1>3. n - y = z + r /\ n - y \in Int
  BY <1>1
<1> DEFINE d == q - k  N == n - y
<1>4. (n - y) % b = r
  <2>1. d \in Int /\ N \in Int /\ r \in 0..(b - 1) /\ N = b * d + r /\ b \in Nat \ {0}
    BY <1>1, <1>2, <1>3 DEF z
  <2> HIDE DEF d, N
  <2>2. N % b = r
    BY ONLY <2>1, PartsAre
  <2> QED
    BY <2>2 DEF N
<1> QED
  BY <1>4 DEF r, y

\* The sizes: a word counts a whole number of blocks.
LEMMA Sizes ==
  /\ BlockLen \in Nat /\ BlockLen > 2 /\ WordMod \in Nat \ {0}
  /\ \E v \in Int : WordMod = 8 * (BlockLen * v)
<1>1. BlockLen \in Nat /\ BlockLen > 2 /\ WordMod \in Nat \ {0} /\ WordMod % (8 * BlockLen) = 0
  BY Md5Assumption
<1> DEFINE b == 8 * BlockLen  v == WordMod \div b
<1>2. b \in Nat \ {0}
  BY <1>1
<1>3. v \in Int /\ WordMod = b * v + (WordMod % b)
  <2>1. WordMod \in Int
    BY <1>1
  <2> HIDE DEF b
  <2> QED
    BY ONLY <1>2, <2>1, Parts DEF v
<1>4. WordMod = b * v /\ v \in Int
  <2>1. WordMod % b = 0
    BY <1>1
  <2> HIDE DEF v, b
  <2>2. b * v \in Int
    BY <1>2, <1>3
  <2> QED
    BY <1>3, <2>1, <2>2
<1>5. b * v = 8 * (BlockLen * v)
  <2>1. BlockLen \in Int /\ v \in Int /\ 8 \in Int
    BY <1>1, <1>4
  <2> HIDE DEF v
  <2> QED
    BY ONLY <2>1, Associates DEF b
<1> QED
  BY <1>1, <1>4, <1>5

\* The low word of the bit count says how full the buffer is.
LEMMA IndexIs ==
  ASSUME NEW l \in Nat
  PROVE  (((8 * l) % WordMod) \div 8) % BlockLen = l % BlockLen
<1>1. PICK v \in Int : WordMod = 8 * (BlockLen * v)
  BY Sizes
<1> DEFINE W == WordMod  A == 8 * l  m == A \div W  r == A % W  k == v * m
<1>0. A \in Int /\ W \in Nat \ {0}
  BY Sizes
<1> HIDE DEF A
<1>2. m \in Int /\ r \in Int /\ A = W * m + r /\ W \in Int /\ BlockLen \in Nat \ {0}
  <2>1. BlockLen \in Nat \ {0}
    BY Sizes
  <2> HIDE DEF W
  <2> QED
    BY ONLY <1>0, <2>1, Parts DEF m, r
<1>3. k \in Int /\ BlockLen * v \in Int
  BY <1>2, Times
<1> DEFINE u == BlockLen * v
<1>4. W * m = 8 * (BlockLen * k)
  <2>1. W * m = (8 * (BlockLen * v)) * m
    BY <1>1
  <2>2. u \in Int /\ m \in Int /\ 8 \in Int /\ BlockLen \in Int /\ v \in Int
    BY <1>2, <1>3
  <2> HIDE DEF u, m
  <2>3. (8 * u) * m = 8 * (u * m)
    BY ONLY <2>2, Associates
  <2>4. (BlockLen * v) * m = BlockLen * (v * m)
    BY ONLY <2>2, Associates
  <2> QED
    BY <2>1, <2>3, <2>4 DEF u
<1> HIDE DEF m, r, k, W
<1> DEFINE y == BlockLen * k
<1>5. y \in Int
  BY <1>2, <1>3, Times
<1> HIDE DEF y
<1>6. r = 8 * (l - y)
  BY <1>2, <1>4, <1>5 DEF y, A
<1>7. r \div 8 = l - y
  BY <1>2, <1>5, <1>6
<1>8. (l - y) % BlockLen = l % BlockLen
  <2>1. l \in Int
    OBVIOUS
  <2> QED
    BY ONLY <1>2, <1>3, <2>1, Shifted DEF y
<1> QED
  BY <1>7, <1>8 DEF r, W, A

\* The two words of the bit count of l bytes.
CountOf(l) == << (8 * l) % WordMod, ((8 * l) \div WordMod) % WordMod >>

\* The bit count of a text with n more bytes: the carry is right.
LEMMA CountedIs ==
  ASSUME NEW l \in Nat, NEW n \in Nat
  PROVE  Counted(CountOf(l), n) = CountOf(l + n)
<1> DEFINE W == WordMod  A == 8 * l  N == n * 8
           qa == A \div W  ra == A % W
           qb == N \div W  rb == N % W
           x == W * qa  y == W * qb
<1>0. A \in Int /\ N \in Int /\ W \in Nat \ {0} /\ 8 * (l + n) = A + N /\ 8 * (l + n) \in Int
  BY Sizes
<1> HIDE DEF A, N, W
<1>1. /\ qa \in Int /\ qb \in Int /\ ra \in 0..(W - 1) /\ rb \in 0..(W - 1)
      /\ A = x + ra /\ N = y + rb /\ x \in Int /\ y \in Int /\ W \in Nat \ {0}
  BY ONLY <1>0, Parts, Times
<1>2. W * (qa + qb) = x + y /\ W * (qa + qb + 1) = x + y + W
  <2>1. W * (qa + qb) = x + y
    BY <1>1, Times
  <2> DEFINE q == qa + qb
  <2>2. q \in Int /\ 1 \in Int /\ W \in Int
    BY <1>1
  <2> HIDE DEF x, y, qa, qb, W, q
  <2>3. W * (q + 1) = W * q + W * 1
    BY ONLY <2>2, Times
  <2> QED
    BY <1>1, <2>1, <2>2, <2>3 DEF q
<1> HIDE DEF W, qa, ra, qb, rb, x, y
<1> DEFINE c == IF ra + rb < W THEN 0 ELSE 1
<1>3. (8 * (l + n)) % W = ra + rb - (IF c = 0 THEN 0 ELSE W) /\ (8 * (l + n)) \div W = qa + qb + c
  <2>1. CASE ra + rb < W
    <3>1. 8 * (l + n) = W * (qa + qb) + (ra + rb) /\ ra + rb \in 0..(W - 1) /\ qa + qb \in Int
      BY <1>0, <1>1, <1>2, <2>1
    <3>2. 8 * (l + n) \in Int
      BY <1>0
    <3>3. (8 * (l + n)) % W = ra + rb /\ (8 * (l + n)) \div W = qa + qb
      <4> DEFINE e == 8 * (l + n)  k == qa + qb  r == ra + rb
      <4>1. W \in Nat \ {0} /\ k \in Int /\ r \in 0..(W - 1) /\ e \in Int /\ e = W * k + r
        BY ONLY <3>1, <3>2, <1>1
      <4> HIDE DEF e, k, r
      <4>2. e \div W = k /\ e % W = r
        BY ONLY <4>1, PartsAre
      <4> QED
        BY ONLY <4>2 DEF e, k, r
    <3> QED
      BY <3>3, <2>1, <1>1
  <2>2. CASE ~ (ra + rb < W)
    <3>1. /\ 8 * (l + n) = W * (qa + qb + 1) + (ra + rb - W) /\ ra + rb - W \in 0..(W - 1)
          /\ qa + qb + 1 \in Int
      BY <1>0, <1>1, <1>2, <2>2
    <3>2. 8 * (l + n) \in Int
      BY <1>0
    <3>3. (8 * (l + n)) % W = ra + rb - W /\ (8 * (l + n)) \div W = qa + qb + 1
      <4> DEFINE e == 8 * (l + n)  k == qa + qb + 1  r == ra + rb - W
      <4>1. W \in Nat \ {0} /\ k \in Int /\ r \in 0..(W - 1) /\ e \in Int /\ e = W * k + r
        BY ONLY <3>1, <3>2, <1>1
      <4> HIDE DEF e, k, r
      <4>2. e \div W = k /\ e % W = r
        BY ONLY <4>1, PartsAre
      <4> QED
        BY ONLY <4>2 DEF e, k, r
    <3> QED
      BY <3>3, <2>2, <1>1
  <2> QED
    BY <2>1, <2>2
<1>4. (ra + rb) % W = (8 * (l + n)) % W
  <2>1. ((A % W) + rb) % W = (A + rb) % W
    <3>1. rb \in Int
      BY <1>1
    <3> QED
      BY ONLY <1>0, <3>1, AddedParts
  <2>2. ((N % W) + A) % W = (N + A) % W
    BY ONLY <1>0, AddedParts
  <2>3. ra + rb = (A % W) + rb /\ A + rb = (N % W) + A /\ N + A = 8 * (l + n)
    BY <1>0, <1>1 DEF ra, rb
  <2> QED
    BY <2>1, <2>2, <2>3
<1>5. (IF (ra + rb) % W < rb THEN 1 ELSE 0) = c
  BY <1>1, <1>3, <1>4
<1>6. ((qa % W) + c + qb) % W = (qa + qb + c) % W
  <2>1. c \in Int /\ c + qb \in Int /\ qa % W \in Int
    BY <1>1, Parts
  <2> HIDE DEF c
  <2>2. ((qa % W) + (c + qb)) % W = (qa + (c + qb)) % W
    BY ONLY <1>1, <2>1, AddedParts
  <2> QED
    BY <1>1, <2>1, <2>2
<1> HIDE DEF c
<1>7. Counted(<<ra, qa % W>>, n) = << (ra + rb) % W, ((qa % W) + c + qb) % W >>
  BY <1>5 DEF Counted, rb, qb, W, N
<1>8. CountOf(l) = <<ra, qa % W>>
  BY DEF CountOf, ra, qa, W, A
<1> QED
  BY <1>3, <1>4, <1>6, <1>7, <1>8 DEF CountOf, W

-----------------------------------------------------------------------------
(* A context.                                                                *)

\* A context that the text t has been fed to: whole blocks of t are transformed, and
\* the rest is in front in the buffer.
Holds(context, t) ==
  LET whole == BlockLen * (Len(t) \div BlockLen) IN
  /\ context = [count |-> CountOf(Len(t)), state |-> SubSeq(t, 1, whole), buffer |-> context.buffer]
  /\ context.buffer \in [1..BlockLen -> Int]
  /\ \A k \in 1..(Len(t) % BlockLen) : context.buffer[k] = t[whole + k]

\* At first nothing was fed.
LEMMA InitHolds == Holds(MD5Init, <<>>)
<1>1. BlockLen \in Nat \ {0} /\ WordMod \in Nat \ {0}
  BY Sizes
<1>2. 0 \div BlockLen = 0 /\ 0 % BlockLen = 0 /\ 0 \div WordMod = 0 /\ 0 % WordMod = 0
  BY <1>1
<1>3. CountOf(0) = <<0, 0>>
  BY <1>2 DEF CountOf
<1>4. SubSeq(<<>>, 1, 0) = <<>> /\ Len(<<>>) = 0
  OBVIOUS
<1>5. BlockLen * 0 = 0
  BY <1>1
<1> QED
  <2>1. MD5Init.buffer \in [1..BlockLen -> Int]
    BY <1>1 DEF MD5Init, Junk
  <2>2. \A k \in 1..(0 % BlockLen) : FALSE
    BY <1>2
  <2>3. MD5Init = [count |-> CountOf(0), state |-> SubSeq(<<>>, 1, BlockLen * (0 \div BlockLen)),
                   buffer |-> MD5Init.buffer]
    BY <1>2, <1>3, <1>4, <1>5 DEF MD5Init
  <2> QED
    BY <2>1, <2>2, <2>3, <1>4 DEF Holds

\* memcpy into the buffer: what was in front stays, the input follows.
LEMMA CopyIs ==
  ASSUME NEW buffer \in [1..BlockLen -> Int], NEW index \in Nat, NEW input \in Text,
         index + Len(input) <= BlockLen
  PROVE  /\ Copy(buffer, index, input) \in [1..BlockLen -> Int]
         /\ \A k \in 1..index : Copy(buffer, index, input)[k] = buffer[k]
         /\ \A k \in 1..Len(input) : Copy(buffer, index, input)[index + k] = input[k]
<1>1. BlockLen \in Nat /\ Len(input) \in Nat
  BY Sizes DEF Text
<1>2. \A k \in (index + 1)..(index + Len(input)) : k - index \in 1..Len(input) /\ input[k - index] \in Int
  BY <1>1 DEF Text
<1>3. Copy(buffer, index, input) \in [1..BlockLen -> Int]
  BY <1>1, <1>2 DEF Copy
<1>4. \A k \in 1..index : k \in 1..BlockLen /\ k \notin (index + 1)..(index + Len(input))
  BY <1>1
<1>5. \A k \in 1..Len(input) : index + k \in 1..BlockLen
         /\ index + k \in (index + 1)..(index + Len(input)) /\ (index + k) - index = k
  BY <1>1
<1> QED
  BY <1>3, <1>4, <1>5 DEF Copy

\* A text with another behind it.
LEMMA Fed ==
  ASSUME NEW t \in Text, NEW x \in Text
  PROVE  /\ t \o x \in Text /\ Len(t \o x) = Len(t) + Len(x)
         /\ \A k \in 1..Len(t) : (t \o x)[k] = t[k]
         /\ \A k \in 1..Len(x) : (t \o x)[Len(t) + k] = x[k]
  BY DEF Text

\* A text in three pieces.
InPieces(s, a, b, c) ==
  /\ s \in Text /\ Len(s) = Len(a) + Len(b) + Len(c)
  /\ \A k \in 1..Len(a) : s[k] = a[k]
  /\ \A k \in 1..Len(b) : s[Len(a) + k] = b[k]
  /\ \A k \in 1..Len(c) : s[Len(a) + Len(b) + k] = c[k]

\* Texts one behind the other.
LEMMA Joined ==
  ASSUME NEW a \in Text, NEW b \in Text, NEW c \in Text
  PROVE  InPieces(a \o b \o c, a, b, c)
<1>1. Len(a) \in Nat /\ Len(b) \in Nat /\ Len(c) \in Nat
  BY DEF Text
<1> DEFINE d == a \o b
<1>2. /\ d \in Text /\ Len(d) = Len(a) + Len(b)
      /\ \A k \in 1..Len(a) : d[k] = a[k]
      /\ \A k \in 1..Len(b) : d[Len(a) + k] = b[k]
  BY Fed
<1> HIDE DEF d
<1>3. /\ d \o c \in Text /\ Len(d \o c) = Len(d) + Len(c)
      /\ \A k \in 1..Len(d) : (d \o c)[k] = d[k]
      /\ \A k \in 1..Len(c) : (d \o c)[Len(d) + k] = c[k]
  BY <1>2, Fed
<1>4. \A k \in 1..Len(a) : k \in 1..Len(d)
  BY <1>1, <1>2
<1>5. \A k \in 1..Len(b) : Len(a) + k \in 1..Len(d)
  BY <1>1, <1>2
<1> QED
  BY <1>1, <1>2, <1>3, <1>4, <1>5 DEF InPieces, d

\* Where the text goes on after less than what fills the buffer, and after more.
LEMMA FedParts ==
  ASSUME NEW l \in Nat, NEW n \in Nat
  PROVE  LET q == l \div BlockLen  i == l % BlockLen  rest == n - (BlockLen - i)
             e == rest \div BlockLen IN
         /\ q \in Nat /\ i \in 0..(BlockLen - 1) /\ l = BlockLen * q + i /\ BlockLen * q \in Nat
         /\ n < BlockLen - i => (l + n) \div BlockLen = q /\ (l + n) % BlockLen = i + n
         /\ n >= BlockLen - i =>
              /\ BlockLen * e \in Nat /\ rest = BlockLen * e + (rest % BlockLen)
              /\ rest % BlockLen \in 0..(BlockLen - 1)
              /\ (l + n) % BlockLen = rest % BlockLen
              /\ BlockLen * ((l + n) \div BlockLen) = BlockLen * q + BlockLen + BlockLen * e
<1> DEFINE B == BlockLen  q == l \div B  i == l % B  rest == n - (B - i)
           e == rest \div B  z == rest % B  s == l + n  x == B * q  y == B * e
<1>0. B \in Nat \ {0} /\ s \in Int /\ l \in Int /\ n \in Int
  BY Sizes
<1> HIDE DEF B
<1>1. q \in Int /\ i \in 0..(B - 1) /\ l = x + i /\ x \in Int
  BY ONLY <1>0, Parts, Times
<1>2. q \in Nat
  BY <1>0, NonNegative
<1> HIDE DEF q, i
<1>3. rest \in Int
  BY <1>0, <1>1
<1> HIDE DEF rest
<1>4. e \in Int /\ z \in 0..(B - 1) /\ rest = y + z /\ y \in Int
  BY ONLY <1>0, <1>3, Parts, Times
<1>5. x \in Nat
  BY <1>0, <1>1, <1>2
<1> HIDE DEF e, z, s, y
<1>6. n < B - i => s \div B = q /\ s % B = i + n
  <2>1. n < B - i => i + n \in 0..(B - 1) /\ s = B * q + (i + n)
    BY <1>0, <1>1 DEF s
  <2> DEFINE j == i + n
  <2> HIDE DEF j
  <2>2. n < B - i => s \div B = q /\ s % B = j
    BY <2>1, <1>0, <1>1, PartsAre DEF j
  <2> QED
    BY <2>2 DEF j
<1>7. ASSUME n >= B - i
      PROVE  y \in Nat /\ s % B = z /\ B * (s \div B) = x + B + y
  <2>1. rest \in Nat
    BY <1>3, <1>7, <1>0, <1>1 DEF rest
  <2>2. e \in Nat
    BY <2>1, <1>0, NonNegative DEF e
  <2>3. y \in Nat
    BY <2>2, <1>0, <1>4 DEF y
  <2> DEFINE p == q + e  d == p + 1
  <2>4. p \in Int /\ d \in Int /\ 1 \in Int
    BY <1>1, <1>4
  <2>5. B * p = x + y
    BY ONLY <1>0, <1>1, <1>4, Times DEF y
  <2> HIDE DEF p
  <2>6. B * d = B * p + B * 1
    BY ONLY <1>0, <2>4, Times
  <2> HIDE DEF x
  <2>7. B * d = x + y + B
    BY <1>0, <1>1, <1>4, <2>5, <2>6
  <2> HIDE DEF d
  <2>8. s = B * d + z
    BY <1>0, <1>1, <1>4, <2>7, <1>3 DEF s, rest
  <2>9. s \div B = d /\ s % B = z
    BY ONLY <1>0, <2>4, <1>4, <2>8, PartsAre
  <2> QED
    <3>1. B * (s \div B) = B * d
      BY <2>9
    <3>2. x + y + B = x + B + y
      BY <1>0, <1>1, <1>4
    <3> QED
      BY <2>3, <2>7, <2>9, <3>1, <3>2
<1> QED
  BY <1>1, <1>2, <1>4, <1>5, <1>6, <1>7 DEF B, q, i, rest, e, z, s, x, y

\* MD5Update feeds its input, whether it fills the buffer or not.
LEMMA UpdateHolds ==
  ASSUME NEW t \in Text, NEW context, Holds(context, t), NEW input \in Text
  PROVE  Holds(MD5Update(context, input), t \o input)
<1> DEFINE B == BlockLen  l == Len(t)  n == Len(input)  u == t \o input
           q == l \div B  i == l % B  x == B * q  part == B - i  rest == n - part
           e == rest \div B  y == B * e  z == rest % B  w == (l + n) \div B
           new == MD5Update(context, input)
<1>0. l \in Nat /\ n \in Nat /\ B \in Nat \ {0} /\ input \in Seq(Int) /\ t \in Seq(Int)
  BY Sizes DEF Text
<1>1. /\ q \in Nat /\ i \in 0..(B - 1) /\ l = x + i /\ x \in Nat
      /\ n < part => w = q /\ (l + n) % B = i + n
      /\ n >= part => /\ y \in Nat /\ rest = y + z /\ z \in 0..(B - 1)
                      /\ (l + n) % B = z /\ B * w = x + B + y
  BY <1>0, FedParts
<1>2. u \in Text /\ Len(u) = l + n /\ (\A k \in 1..l : u[k] = t[k]) /\ (\A k \in 1..n : u[l + k] = input[k])
  BY Fed
<1>3. /\ context.count = CountOf(l) /\ context.state = SubSeq(t, 1, x)
      /\ context.buffer \in [1..B -> Int] /\ \A k \in 1..i : context.buffer[k] = t[x + k]
      /\ DOMAIN context = {"count", "state", "buffer"}
  <2>1. /\ context = [count |-> CountOf(l), state |-> SubSeq(t, 1, x), buffer |-> context.buffer]
        /\ context.buffer \in [1..B -> Int] /\ \A k \in 1..i : context.buffer[k] = t[x + k]
    BY DEF Holds
  <2> HIDE DEF x, l, B, i
  <2> QED
    BY <2>1
<1>4. Index(context) = i
  <2>1. context.count[1] = (8 * l) % WordMod
    BY <1>3 DEF CountOf
  <2> QED
    BY <1>0, <2>1, IndexIs DEF Index
<1>5. Counted(context.count, n) = CountOf(l + n)
  BY <1>0, <1>3, CountedIs
<1>6. CASE n < part
  <2>1. new = [context EXCEPT !.count = Counted(@, n), !.buffer = Copy(@, i, input)]
    BY <1>4, <1>6 DEF MD5Update
  <2>2. /\ new.buffer = Copy(context.buffer, i, input) /\ new.count = CountOf(l + n)
        /\ new.state = context.state /\ new = [count |-> new.count, state |-> new.state, buffer |-> new.buffer]
    BY <1>3, <1>5, <2>1
  <2> HIDE DEF new, l, n, B, q, i, x, u, w
  <2>3. /\ new.buffer \in [1..B -> Int]
        /\ \A k \in 1..i : new.buffer[k] = t[x + k]
        /\ \A k \in 1..n : new.buffer[i + k] = input[k]
    <3>1. i \in Nat /\ i + Len(input) <= BlockLen
      BY <1>0, <1>1, <1>6 DEF B, n
    <3> QED
      BY <3>1, <1>3, <2>2, CopyIs DEF B, n
  <2>4. \A k \in 1..(i + n) : new.buffer[k] = u[x + k]
    <3> SUFFICES ASSUME NEW k \in 1..(i + n) PROVE new.buffer[k] = u[x + k]
      OBVIOUS
    <3>1. CASE k <= i
      <4>1. k \in 1..i /\ x + k \in 1..l
        BY <1>0, <1>1, <3>1
      <4> QED
        BY <4>1, <2>3, <1>2
    <3>2. CASE ~ (k <= i)
      <4>1. k - i \in 1..n /\ i + (k - i) = k /\ l + (k - i) = x + k
        BY <1>0, <1>1, <3>2
      <4> QED
        BY <4>1, <2>3, <1>2
    <3> QED
      BY <3>1, <3>2
  <2>5. SubSeq(u, 1, x) = SubSeq(t, 1, x)
    <3>1. x <= l /\ x <= Len(u) /\ x \in Nat
      BY <1>0, <1>1, <1>2
    <3> QED
      BY <3>1, <1>2, <1>0 DEF Text, l
  <2>6. Len(u) \div B = q /\ Len(u) % B = i + n
    BY <1>1, <1>2, <1>6 DEF w
  <2> QED
    BY <2>2, <2>3, <2>4, <2>5, <2>6, <1>2, <1>3 DEF Holds, B, x, new, u, i
<1>7. CASE ~ (n < part)
  <2> DEFINE head == SubSeq(input, 1, part)
             full == Copy(context.buffer, i, head)
             mid  == SubSeq(input, part + 1, part + y)
             tail == SubSeq(input, part + y + 1, n)
  <2>1. new = [count |-> Counted(context.count, n), state |-> context.state \o full \o mid,
               buffer |-> Copy(full, 0, tail)]
    BY <1>4, <1>7 DEF MD5Update
  <2> HIDE DEF new
  <2>2. /\ new.buffer = Copy(full, 0, tail) /\ new.count = CountOf(l + n)
        /\ new.state = context.state \o full \o mid
        /\ new = [count |-> new.count, state |-> new.state, buffer |-> new.buffer]
    BY <1>5, <2>1
  <2>3. /\ part \in 1..B /\ part <= n /\ y \in Nat /\ z \in 0..(B - 1) /\ n = part + y + z
        /\ (l + n) % B = z /\ B * w = x + B + y /\ l + part = x + B
    <3> HIDE DEF y, z, e, w, x, i, l, n, q
    <3>1. n >= part /\ part \in 1..B
      BY <1>0, <1>1, <1>7
    <3>2. y \in Nat /\ rest = y + z /\ z \in 0..(B - 1) /\ (l + n) % B = z /\ B * w = x + B + y
      BY <1>1, <3>1
    <3>3. n = part + y + z
      <4>1. y \in Int /\ z \in Int /\ i \in Int /\ n - part = y + z
        BY <1>1, <3>2
      <4> QED
        BY <1>0, <4>1
    <3>4. l + part = x + B
      BY <1>0, <1>1
    <3> QED
      BY <3>1, <3>2, <3>3, <3>4
  <2> HIDE DEF l, n, B, q, i, x, u, w, y, z, part
  <2>4. /\ head \in Text /\ Len(head) = part /\ \A k \in 1..part : head[k] = input[k]
        /\ mid \in Text /\ Len(mid) = y /\ \A k \in 1..y : mid[k] = input[part + k]
        /\ tail \in Text /\ Len(tail) = z /\ \A k \in 1..z : tail[k] = input[part + y + k]
    <3>1. part \in Nat /\ y \in Nat /\ z \in Nat /\ part + y <= Len(input) /\ n = Len(input)
          /\ part <= Len(input) /\ part + y + z = Len(input) /\ B \in Nat
      BY <1>0, <2>3 DEF n
    <3> QED
      BY <3>1, <1>0 DEF Text
  <2> HIDE DEF head, mid, tail
  <2>5. /\ full \in [1..B -> Int] /\ \A k \in 1..i : full[k] = t[x + k]
        /\ \A k \in 1..part : full[i + k] = input[k]
    <3>1. i \in Nat /\ i + Len(head) <= BlockLen
      BY <1>0, <1>1, <2>3, <2>4 DEF B, part
    <3>2. context.buffer \in [1..BlockLen -> Int] /\ head \in Text /\ Len(head) = part
      BY <1>3, <2>4 DEF B
    <3>3. /\ full \in [1..BlockLen -> Int]
          /\ \A k \in 1..i : full[k] = context.buffer[k]
          /\ \A k \in 1..Len(head) : full[i + k] = head[k]
      BY ONLY <3>1, <3>2, CopyIs
    <3> HIDE DEF full
    <3>4. ASSUME NEW k \in 1..i PROVE full[k] = t[x + k]
      BY <1>3, <3>3
    <3>5. ASSUME NEW k \in 1..part PROVE full[i + k] = input[k]
      BY <2>4, <3>2, <3>3
    <3> QED
      BY <3>3, <3>4, <3>5 DEF B
  <2> HIDE DEF full
  <2>6. new.buffer \in [1..B -> Int] /\ \A k \in 1..z : new.buffer[k] = input[part + y + k]
    <3>1. 0 \in Nat /\ 0 + Len(tail) <= BlockLen /\ z \in Nat /\ \A k \in 1..z : 0 + k = k
      BY <1>0, <2>3, <2>4 DEF B
    <3>2. /\ new.buffer \in [1..B -> Int]
          /\ \A k \in 1..Len(tail) : new.buffer[0 + k] = tail[k]
      <4>1. full \in [1..BlockLen -> Int] /\ tail \in Text
        BY <2>4, <2>5 DEF B
      <4> DEFINE copied == Copy(full, 0, tail)
      <4>2. /\ copied \in [1..BlockLen -> Int]
            /\ \A k \in 1..Len(tail) : copied[0 + k] = tail[k]
        BY ONLY <4>1, <3>1, CopyIs
      <4>3. new.buffer = copied
        BY <2>2
      <4> HIDE DEF copied
      <4> QED
        BY <4>2, <4>3 DEF B
    <3> QED
      BY <3>1, <3>2, <2>4
  <2>7. \A k \in 1..z : new.buffer[k] = u[(B * w) + k]
    <3>1. \A k \in 1..z : part + y + k \in 1..n /\ l + (part + y + k) = (B * w) + k
      <4> DEFINE v == B * w
      <4>1. v = x + B + y
        BY <2>3
      <4> HIDE DEF v
      <4>2. \A k \in 1..z : part + y + k \in 1..n /\ l + (part + y + k) = v + k
        BY <1>0, <1>1, <2>3, <4>1
      <4> QED
        BY <4>2 DEF v
    <3> QED
      BY <3>1, <2>6, <1>2
  <2>8. full \in Seq(Int) /\ Len(full) = B
    BY <2>5, <1>0
  <2>9. context.state \in Seq(Int) /\ Len(context.state) = x /\ \A k \in 1..x : context.state[k] = t[k]
    <3>1. x \in Nat /\ x <= Len(t)
      BY <1>0, <1>1 DEF l
    <3> QED
      BY <3>1, <1>0, <1>3
  <2>10. new.state = SubSeq(u, 1, B * w)
    <3> DEFINE v == B * w  s == context.state \o full \o mid
    <3>1. v = x + B + y /\ v \in Nat /\ v <= l + n
      BY <1>0, <1>1, <2>3
    <3> HIDE DEF v
    <3>2. s \in Seq(Int) /\ Len(s) = v
      <4>1. full \in Text /\ context.state \in Text
        BY <2>8, <2>9 DEF Text
      <4>2. InPieces(s, context.state, full, mid)
        BY <4>1, <2>4, Joined
      <4>3. s \in Text /\ Len(s) = Len(context.state) + Len(full) + Len(mid)
        BY <4>2 DEF InPieces
      <4> QED
        BY <4>3, <3>1, <2>4, <2>8, <2>9, <1>0, <1>1 DEF Text
    <3>6. /\ \A k \in 1..x : s[k] = context.state[k]
          /\ \A k \in 1..B : s[x + k] = full[k]
          /\ \A k \in 1..y : s[x + B + k] = mid[k]
      <4>1. full \in Text /\ context.state \in Text
        BY <2>8, <2>9 DEF Text
      <4> QED
        <5>1. InPieces(s, context.state, full, mid)
          BY <4>1, <2>4, Joined
        <5>2. /\ \A k \in 1..Len(context.state) : s[k] = context.state[k]
              /\ \A k \in 1..Len(full) : s[Len(context.state) + k] = full[k]
              /\ \A k \in 1..Len(mid) : s[Len(context.state) + Len(full) + k] = mid[k]
          BY <5>1 DEF InPieces
        <5> HIDE DEF s
        <5> QED
          BY <5>2, <2>4, <2>8, <2>9
    <3> HIDE DEF s
    <3>3. SubSeq(u, 1, v) \in Seq(Int) /\ Len(SubSeq(u, 1, v)) = v
          /\ \A k \in 1..v : SubSeq(u, 1, v)[k] = u[k]
      BY <1>2, <3>1 DEF Text
    <3>4. ASSUME NEW k \in 1..v PROVE s[k] = u[k]
      <4>1. CASE k <= x
        <5>1. k \in 1..x /\ k \in 1..l
          BY <4>1, <1>0, <1>1
        <5>2. s[k] = context.state[k]
          BY <5>1, <3>6
        <5> QED
          BY <5>1, <5>2, <2>9, <1>2
      <4>2. CASE x < k /\ k <= x + B
        <5>1. k - x \in 1..B
          BY <4>2, <1>0, <1>1
        <5>2. s[k] = full[k - x]
          <6>1. x + (k - x) = k
            BY <1>1
          <6> QED
            BY <5>1, <6>1, <3>6
        <5>3. CASE k <= l
          <6>1. k - x \in 1..i /\ x + (k - x) = k /\ k \in 1..l
            BY <5>1, <5>3, <1>0, <1>1
          <6> QED
            BY <6>1, <5>2, <2>5, <1>2
        <5>4. CASE ~ (k <= l)
          <6>1. k - l \in 1..part /\ i + (k - l) = k - x /\ l + (k - l) = k /\ k - l \in 1..n
            BY <5>1, <5>4, <4>2, <1>0, <1>1, <2>3
          <6> QED
            BY <6>1, <5>2, <2>5, <1>2
        <5> QED
          BY <5>3, <5>4
      <4>3. CASE x + B < k
        <5>1. k - (x + B) \in 1..y
          BY <4>3, <1>0, <1>1, <3>1, <2>3
        <5>2. s[k] = mid[k - (x + B)]
          <6>1. x + B + (k - (x + B)) = k
            BY <1>0, <1>1
          <6> QED
            BY <5>1, <6>1, <3>6
        <5>3. part + (k - (x + B)) \in 1..n /\ l + (part + (k - (x + B))) = k
          BY <5>1, <4>3, <1>0, <1>1, <2>3
        <5> QED
          BY <5>1, <5>2, <5>3, <2>4, <1>2
      <4> QED
        <5>1. k <= x \/ (x < k /\ k <= x + B) \/ x + B < k
          BY <1>0, <1>1, <3>1
        <5> QED
          BY <4>1, <4>2, <4>3, <5>1
    <3>5. s = SubSeq(u, 1, v)
      BY <3>2, <3>3, <3>4
    <3> QED
      BY <3>5, <2>2 DEF s, v
  <2>11. Len(u) \div B = w /\ Len(u) % B = z
    BY <1>2, <2>3 DEF w
  <2> QED
    BY <2>2, <2>6, <2>7, <2>10, <2>11, <1>2 DEF Holds, B, new, u
<1> QED
  BY <1>6, <1>7

\* The padding: one bit, then zeros, up to the place of the count.
LEMMA PadIs ==
  ASSUME NEW i \in 0..(BlockLen - 1)
  PROVE  LET p == PadLen(i)  pad == SubSeq(PADDING, 1, p) IN
         /\ p \in 1..BlockLen /\ pad \in Text /\ Len(pad) = p
         /\ \A k \in 1..p : pad[k] = IF k = 1 THEN 128 ELSE 0
         /\ i + p = CountAt \/ i + p = CountAt + BlockLen
<1>1. BlockLen \in Nat /\ BlockLen > 2 /\ i \in Nat
  BY Sizes
<1> DEFINE p == PadLen(i)  pad == SubSeq(PADDING, 1, p)
<1>2. p \in 1..BlockLen /\ (i + p = CountAt \/ i + p = CountAt + BlockLen)
  BY <1>1 DEF PadLen, CountAt
<1>3. PADDING \in [1..BlockLen -> Int] /\ \A k \in 1..BlockLen : PADDING[k] = IF k = 1 THEN 128 ELSE 0
  BY DEF PADDING
<1>4. PADDING \in Seq(Int) /\ Len(PADDING) = BlockLen
  BY <1>1, <1>3
<1> HIDE DEF p
<1>5. pad \in Seq(Int) /\ Len(pad) = p /\ \A k \in 1..p : pad[k] = PADDING[k]
  BY <1>1, <1>2, <1>4
<1>6. \A k \in 1..p : k \in 1..BlockLen
  BY <1>1, <1>2
<1> QED
  BY <1>2, <1>3, <1>5, <1>6 DEF Text, p

\* What MD5Final makes of a context that t was fed to is what RFC 1321 asks for.
LEMMA FinalIs ==
  ASSUME NEW t \in Text, NEW context, Holds(context, t)
  PROVE  MD5Final(context) = Padded(t)
<1> DEFINE B == BlockLen  W == WordMod  l == Len(t)  q == l \div B  i == l % B  x == B * q
           p == PadLen(i)  pad == SubSeq(PADDING, 1, p)  count == CountOf(l)
           padded == MD5Update(context, pad)  u == t \o pad  v == u \o count
           zeros == (CountAt - 1 - l) % B
<1>0. l \in Nat /\ B \in Nat /\ B > 2 /\ W \in Nat \ {0} /\ t \in Seq(Int)
  BY Sizes DEF Text
<1>1. q \in Int /\ i \in 0..(B - 1) /\ l = x + i /\ x \in Int
  <2>1. l \in Int /\ B \in Nat \ {0}
    BY <1>0
  <2> HIDE DEF B, l
  <2> QED
    BY ONLY <2>1, Parts, Times
<1>2. /\ p \in 1..B /\ pad \in Text /\ Len(pad) = p
      /\ \A k \in 1..p : pad[k] = IF k = 1 THEN 128 ELSE 0
      /\ i + p = CountAt \/ i + p = CountAt + B
  BY <1>1, PadIs
<1>3. context.count = count /\ Index(context) = i
  <2>1. context.count = count
    <3>1. context = [count |-> CountOf(l), state |-> SubSeq(t, 1, x), buffer |-> context.buffer]
      BY DEF Holds
    <3> QED
      BY <3>1
  <2>2. context.count[1] = (8 * l) % WordMod
    BY <2>1 DEF CountOf
  <2> QED
    BY <1>0, <2>1, <2>2, IndexIs DEF Index
<1>4. count \in Text /\ Len(count) = 2
  <2>1. (8 * l) % W \in Int /\ ((8 * l) \div W) % W \in Int
    BY <1>0
  <2> QED
    BY <2>1 DEF CountOf, Text
<1> HIDE DEF B, l, i, x, q, p, pad, count, W
<1>5. Holds(padded, u) /\ u \in Text
  BY <1>2, UpdateHolds, Fed
<1>6. Holds(MD5Update(padded, count), v) /\ v \in Text
  <2> HIDE DEF u, padded
  <2> QED
    BY <1>4, <1>5, UpdateHolds, Fed
<1>7. v \in Text /\ Len(v) = l + p + 2
  <2>1. Len(u) = l + p /\ Len(v) = Len(u) + 2
    <3>1. Len(u) = Len(t) + Len(pad)
      BY <1>2, Fed
    <3> HIDE DEF u
    <3>2. Len(v) = Len(u) + Len(count)
      BY <1>4, <1>5, Fed
    <3> QED
      BY <3>1, <3>2, <1>2, <1>4 DEF l
  <2> HIDE DEF u, v
  <2> QED
    BY <2>1, <1>6
<1>8. zeros = p - 1 /\ \E c \in Int : Len(v) = B * c
  <2>1. l + p + 2 = x + B \/ l + p + 2 = x + B + B
    BY <1>0, <1>1, <1>2 DEF CountAt, B
  <2>2. /\ B * (q + 1) = x + B /\ B * ((q + 1) + 1) = x + B + B
    <3> DEFINE q1 == q + 1
    <3>1. q1 \in Int /\ q \in Int /\ 1 \in Int /\ B \in Int
      BY <1>0, <1>1
    <3>2. B * (q + 1) = B * q + B * 1
      BY ONLY <3>1, Times
    <3> HIDE DEF q1
    <3>3. B * (q1 + 1) = B * q1 + B * 1
      BY ONLY <3>1, Times
    <3> QED
      BY <1>0, <1>1, <3>1, <3>2, <3>3 DEF q1, x
  <2>3. PICK c \in Int : l + p + 2 = B * c
    BY <2>1, <2>2, <1>1
  <2> DEFINE n == CountAt - 1 - l  m == 1 - c  r == p - 1  bm == B * m
  <2>4. n \in Int /\ m \in Int /\ r \in 0..(B - 1) /\ B \in Nat \ {0}
    BY <1>0, <1>2, <1>1 DEF CountAt, B
  <2>5. n = B * m + r
    <3>1. B \in Int /\ 1 \in Int /\ c \in Int
      BY <1>0
    <3>2. B * (1 - c) = B * 1 - B * c
      BY ONLY <3>1, Times
    <3>3. B * m = B - (l + p + 2)
      BY <3>1, <3>2, <2>3
    <3> HIDE DEF m
    <3> QED
      BY <3>3, <1>0, <1>1, <1>2 DEF CountAt, B
  <2> HIDE DEF n, m, r
  <2>6. n % B = r
    BY ONLY <2>4, <2>5, PartsAre
  <2> QED
    BY <2>3, <2>6, <1>7 DEF n, r
<1>9. MD5Final(context) = v
  <2>1. MD5Final(context) = MD5Update(padded, count).state
    BY <1>3 DEF MD5Final, pad, p
  <2>2. PICK c \in Int : Len(v) = B * c
    BY <1>8
  <2> HIDE DEF v
  <2>3. Len(v) \div B = c
    <3>1. B \in Nat \ {0} /\ 0 \in 0..(B - 1) /\ Len(v) = B * c + 0 /\ Len(v) \in Int
      BY <1>0, <1>6, <2>2 DEF Text
    <3> QED
      BY ONLY <3>1, <2>2, PartsAre
  <2>4. MD5Update(padded, count).state = SubSeq(v, 1, B * (Len(v) \div B))
    <3> DEFINE d == MD5Update(padded, count)
    <3> HIDE DEF d
    <3>1. Holds(d, v)
      BY <1>6 DEF d
    <3>2. d = [count |-> CountOf(Len(v)), state |-> SubSeq(v, 1, B * (Len(v) \div B)), buffer |-> d.buffer]
      BY <3>1 DEF Holds, B
    <3> QED
      BY <3>2 DEF d
  <2>5. SubSeq(v, 1, Len(v)) = v
    BY <1>6 DEF Text
  <2> QED
    BY <2>1, <2>2, <2>3, <2>4, <2>5
<1>10. Padded(t) = v
  <2> DEFINE nul == [k \in 1..zeros |-> 0]  one == <<128>>
  <2>1. Padded(t) = t \o one \o nul \o count
    BY DEF Padded, CountOf, count, l, B
  <2>2. nul \in Text /\ Len(nul) = p - 1 /\ \A k \in 1..(p - 1) : nul[k] = 0
    <3>1. zeros \in Nat /\ zeros = p - 1
      BY <1>8, <1>2, <1>0
    <3> HIDE DEF zeros
    <3> QED
      BY <3>1 DEF Text
  <2>3. one \in Text /\ Len(one) = 1 /\ one[1] = 128
    BY DEF Text
  <2> HIDE DEF nul, one
  <2>4. one \o nul = pad
    <3>1. /\ one \o nul \in Text /\ Len(one \o nul) = 1 + (p - 1)
          /\ \A k \in 1..1 : (one \o nul)[k] = one[k]
          /\ \A k \in 1..(p - 1) : (one \o nul)[1 + k] = nul[k]
      <4> DEFINE j == one \o nul
      <4>1. one \in Text /\ nul \in Text
        BY <2>2, <2>3
      <4>2. /\ j \in Text /\ Len(j) = Len(one) + Len(nul)
            /\ \A k \in 1..Len(one) : j[k] = one[k]
            /\ \A k \in 1..Len(nul) : j[Len(one) + k] = nul[k]
        BY ONLY <4>1, Fed
      <4>3. Len(one) = 1 /\ Len(nul) = p - 1
        BY <2>2, <2>3
      <4> HIDE DEF j
      <4>4. /\ j \in Text /\ Len(j) = 1 + (p - 1)
            /\ \A k \in 1..1 : j[k] = one[k]
            /\ \A k \in 1..(p - 1) : j[1 + k] = nul[k]
        BY ONLY <4>2, <4>3
      <4> QED
        BY <4>4 DEF j
    <3>2. Len(one \o nul) = p
      BY <3>1, <1>2, <1>0
    <3>3. ASSUME NEW k \in 1..p PROVE (one \o nul)[k] = pad[k]
      <4>1. CASE k = 1
        BY <4>1, <3>1, <2>3, <1>2
      <4>2. CASE k # 1
        <5>1. k - 1 \in 1..(p - 1) /\ 1 + (k - 1) = k
          BY <4>2, <1>0, <1>2
        <5> QED
          BY <5>1, <4>2, <3>1, <2>2, <1>2
      <4> QED
        BY <4>1, <4>2
    <3> QED
      <4> DEFINE j == one \o nul
      <4>1. j \in Seq(Int) /\ Len(j) = p /\ pad \in Seq(Int) /\ Len(pad) = p
        BY <3>1, <3>2, <1>2 DEF Text
      <4>2. \A k \in 1..p : j[k] = pad[k]
        BY <3>3
      <4> HIDE DEF j
      <4>3. j = pad
        BY ONLY <4>1, <4>2
      <4> QED
        BY <4>3 DEF j
  <2>5. t \o one \o nul = t \o (one \o nul)
    BY <2>2, <2>3 DEF Text
  <2> QED
    BY <2>1, <2>4, <2>5
<1> QED
  BY <1>9, <1>10

\* Which is a text.
LEMMA PaddedText ==
  ASSUME NEW t \in Text
  PROVE  Padded(t) \in Text
<1> DEFINE l == Len(t)  zeros == (CountAt - 1 - l) % BlockLen
           nul == [k \in 1..zeros |-> 0]  count == CountOf(l)
<1>1. l \in Nat /\ BlockLen \in Nat \ {0} /\ WordMod \in Nat \ {0} /\ CountAt \in Int
  BY Sizes DEF Text, CountAt
<1>2. zeros \in Nat
  <2> DEFINE n == CountAt - 1 - l
  <2>1. n \in Int
    BY <1>1
  <2> HIDE DEF n
  <2>2. n % BlockLen \in 0..(BlockLen - 1)
    BY <2>1, <1>1, Parts
  <2> QED
    BY <2>2, <1>1 DEF n
<1> HIDE DEF zeros
<1>3. nul \in Text
  BY <1>2 DEF Text
<1>4. count \in Text
  <2>1. (8 * l) % WordMod \in Int /\ ((8 * l) \div WordMod) % WordMod \in Int
    BY <1>1
  <2> QED
    BY <2>1 DEF CountOf, Text
<1>5. Padded(t) = t \o <<128>> \o nul \o count
  BY DEF Padded, CountOf, zeros
<1>6. <<128>> \in Text
  BY DEF Text
<1> HIDE DEF nul, count
<1>7. t \o <<128>> \in Text
  BY <1>6, Fed
<1>8. t \o <<128>> \o nul \in Text
  BY <1>3, <1>7, Fed
<1>9. t \o <<128>> \o nul \o count \in Text
  BY <1>4, <1>8, Fed
<1> QED
  BY <1>5, <1>9

\* The digest of a text is that of the text padded and counted as it must be: a
\* text that ends at the place of the count gets a block of its own for it.
THEOREM DigestIs ==
  ASSUME NEW t \in Text
  PROVE  md5_packages_string(t) = CvtHex(Padded(t))
<1>1. <<>> \in Text /\ <<>> \o t = t
  BY DEF Text
<1>2. Holds(MD5Update(MD5Init, t), t)
  BY <1>1, InitHolds, UpdateHolds
<1> QED
  BY <1>2, FinalIs DEF md5_packages_string

\* And so it is when the text comes in the three pieces of chap_auth.
THEOREM PiecesAre ==
  ASSUME NEW id \in Int, NEW pwd \in Text, NEW chal \in Text
  PROVE  chap_auth(id, pwd, chal) = Padded(<<id>> \o pwd \o chal)
<1>1. <<>> \in Text /\ <<id>> \in Text /\ <<>> \o <<id>> = <<id>>
  BY DEF Text
<1>2. Holds(MD5Update(MD5Init, <<id>>), <<id>>)
  BY <1>1, InitHolds, UpdateHolds
<1>3. Holds(MD5Update(MD5Update(MD5Init, <<id>>), pwd), <<id>> \o pwd) /\ <<id>> \o pwd \in Text
  BY <1>1, <1>2, UpdateHolds, Fed
<1>4. /\ Holds(MD5Update(MD5Update(MD5Update(MD5Init, <<id>>), pwd), chal), <<id>> \o pwd \o chal)
      /\ <<id>> \o pwd \o chal \in Text
  BY <1>3, UpdateHolds, Fed
<1> QED
  BY <1>4, FinalIs DEF chap_auth
=============================================================================
