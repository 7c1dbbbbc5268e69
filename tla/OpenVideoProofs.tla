-------------------------- MODULE OpenVideoProofs --------------------------
(***************************************************************************)
(* What OpenVideo and its text modules promise, for every set of requests, *)
(* rows and answers, and for texts, blocks and words of any size.          *)
(***************************************************************************)
EXTENDS OpenVideo, Md5Proofs, SequenceTheorems, WellFoundedInduction

-----------------------------------------------------------------------------
(* Searches.                                                                 *)

\* Every set of natural numbers has a least one.
LEMMA Least ==
  ASSUME NEW S, S \subseteq Nat, S # {}
  PROVE  \E x \in S : \A y \in S : x <= y
<1> DEFINE R == {p \in Nat \X Nat : p[1] < p[2]}
<1>1. IsWellFoundedOn(R, Nat)
  BY NatLessThanWellFounded DEF OpToRel
<1> HIDE DEF R
<1>2. PICK x \in S : \A y \in S : ~ (<<y, x>> \in R)
  BY <1>1, WFMin, Zenon
<1>3. ASSUME NEW y \in S
      PROVE  x <= y
  <2>1. x \in Nat /\ y \in Nat
    OBVIOUS
  <2>2. ~ (y < x)
    BY <2>1, <1>2 DEF R
  <2> QED
    BY <2>1, <2>2
<1> QED
  BY <1>3

\* And it is the one that is chosen.
LEMMA LeastChosen ==
  ASSUME NEW S, S \subseteq Nat, S # {}
  PROVE  LET x == CHOOSE k \in S : \A j \in S : k <= j IN x \in S /\ \A j \in S : x <= j
  BY Least, Zenon

\* strchr finds the first hit, if there is one.
LEMMA StrchrIs ==
  ASSUME NEW text \in Text, NEW from \in Nat \ {0}, NEW c
  PROVE  LET k == Strchr(text, from, c) IN
         \/ k = 0 /\ \A j \in from..Len(text) : text[j] # c
         \/ k \in from..Len(text) /\ text[k] = c /\ \A j \in from..(k - 1) : text[j] # c
<1> DEFINE S == {k \in from..Len(text) : text[k] = c}  x == CHOOSE k \in S : \A j \in S : k <= j
<1>1. Len(text) \in Nat
  BY DEF Text
<1>2. CASE S = {}
  BY <1>2 DEF Strchr
<1>3. CASE S # {}
  <2>1. x \in S /\ \A j \in S : x <= j
    <3>1. S \subseteq Nat
      BY <1>1
    <3> HIDE DEF S
    <3> QED
      BY <1>3, <3>1, LeastChosen
  <2>2. Strchr(text, from, c) = x
    BY <1>3 DEF Strchr
  <2> HIDE DEF x
  <2>3. x \in from..Len(text) /\ text[x] = c
    BY <2>1
  <2>4. ASSUME NEW j \in from..(x - 1) PROVE text[j] # c
    <3>1. j \in from..Len(text) /\ ~ (x <= j)
      BY <1>1, <2>3
    <3> QED
      BY <3>1, <2>1
  <2> QED
    BY <2>2, <2>3, <2>4
<1> QED
  BY <1>2, <1>3

\* The first hit is found.
LEMMA StrchrFinds ==
  ASSUME NEW text \in Text, NEW from \in Nat \ {0}, NEW c, NEW k \in from..Len(text),
         text[k] = c, \A j \in from..(k - 1) : text[j] # c
  PROVE  Strchr(text, from, c) = k
<1>1. Len(text) \in Nat
  BY DEF Text
<1> DEFINE x == Strchr(text, from, c)
<1>2. \/ x = 0 /\ \A j \in from..Len(text) : text[j] # c
      \/ x \in from..Len(text) /\ text[x] = c /\ \A j \in from..(x - 1) : text[j] # c
  BY StrchrIs
<1> HIDE DEF x
<1>3. x \in from..Len(text) /\ text[x] = c /\ \A j \in from..(x - 1) : text[j] # c
  BY <1>2
<1>4. ~ (x < k) /\ ~ (k < x)
  <2>1. x < k => x \in from..(k - 1)
    BY <1>1, <1>3
  <2>2. k < x => k \in from..(x - 1)
    BY <1>1, <1>3
  <2> QED
    BY <2>1, <2>2, <1>3
<1> QED
  BY <1>1, <1>3, <1>4 DEF x

-----------------------------------------------------------------------------
(* The challenge.                                                            *)

\* The value of a parameter is cut out of the challenge that names it, unless it
\* is empty.
LEMMA ValueIs ==
  ASSUME NEW auth \in Text, NEW word \in Int, word # Quote, NEW value \in Text, value # <<>>,
         Names(auth, word, value)
  PROVE  Strchr(auth, 1, word) # 0 /\ Value(auth, word) = value
<1> DEFINE n == Len(value)  L == Len(auth)
<1>0. /\ auth \in Seq(Int) /\ value \in Seq(Int) /\ L \in Nat /\ n \in Nat
      /\ DOMAIN auth = 1..L /\ DOMAIN value = 1..n /\ n # 0
  BY DEF Text
<1>1. PICK k \in 1..L :
        /\ k + 2 + n \in 1..L
        /\ auth[k] = word /\ \A j \in 1..(k - 1) : auth[j] # word
        /\ auth[k + 1] = Quote /\ auth[k + 2 + n] = Quote
        /\ \A i \in 1..n : auth[k + 1 + i] = value[i] /\ value[i] # Quote
  BY <1>0 DEF Names
<1>2. auth \in Seq(Int) /\ value \in Seq(Int) /\ L \in Nat /\ n \in Nat \ {0} /\ k \in Nat \ {0} /\ k <= L
      /\ k + 2 + n <= L
  BY <1>0, <1>1
<1> HIDE DEF n
<1>3. Strchr(auth, 1, word) = k
  <2>1. 1 \in Nat \ {0} /\ k \in 1..Len(auth) /\ auth[k] = word /\ \A j \in 1..(k - 1) : auth[j] # word
    BY <1>1
  <2>2. auth \in Text
    OBVIOUS
  <2> QED
    BY ONLY <2>1, <2>2, StrchrFinds
<1>4. Opening(auth, word) = k + 1
  <2>1. k + 1 \in k..Len(auth) /\ k \in Nat \ {0} /\ \A j \in k..((k + 1) - 1) : j = k
    BY <1>2
  <2>2. \A j \in k..((k + 1) - 1) : auth[j] # Quote
    BY <2>1, <1>1
  <2>3. Strchr(auth, k, Quote) = k + 1
    BY <2>1, <2>2, <1>1, StrchrFinds
  <2> QED
    BY <2>3, <1>2, <1>3 DEF Opening
<1>5. Closing(auth, word) = k + 2 + n
  <2> DEFINE from == (k + 1) + 2  to == k + 2 + n
  <2>1. from \in Nat \ {0} /\ to \in from..Len(auth)
    BY <1>2
  <2>2. ASSUME NEW j \in from..(to - 1) PROVE auth[j] # Quote
    <3>1. j - (k + 1) \in 1..n /\ k + 1 + (j - (k + 1)) = j
      BY <1>2
    <3> QED
      BY <3>1, <1>1, <1>2
  <2>3. auth[to] = Quote
    BY <1>1
  <2> HIDE DEF to
  <2>4. Strchr(auth, from, Quote) = to
    BY <2>1, <2>2, <2>3, StrchrFinds
  <2> QED
    BY <2>4, <1>4 DEF Closing, to
<1>6. Value(auth, word) = value
  <2> DEFINE a == (k + 1) + 1  b == (k + 2 + n) - 1  s == SubSeq(auth, a, b)
  <2>1. Value(auth, word) = s
    BY <1>4, <1>5 DEF Value
  <2>2. a \in 1..Len(auth) /\ b \in 1..Len(auth) /\ (b - a) + 1 = n
    BY <1>2
  <2> HIDE DEF a, b
  <2>3. s \in Seq(Int) /\ Len(s) = n /\ \A i \in 1..n : s[i] = auth[a + i - 1]
    BY <1>2, <2>2
  <2>4. \A i \in 1..n : a + i - 1 = k + 1 + i
    BY <1>2 DEF a
  <2>5. \A i \in 1..n : s[i] = value[i]
    BY <2>3, <2>4, <1>1, <1>2
  <2> HIDE DEF s
  <2>6. Len(value) = n
    BY DEF n
  <2>7. s = value
    BY ONLY <2>3, <2>5, <2>6, <1>2
  <2> QED
    BY <2>1, <2>7
<1> QED
  BY <1>2, <1>3, <1>6

\* Between two quotes there is a text.
LEMMA QuotedText ==
  ASSUME NEW auth \in Text, NEW word, Quoted(auth, word)
  PROVE  Value(auth, word) \in Text
<1> DEFINE at == Strchr(auth, 1, word)  a == Opening(auth, word)  b == Closing(auth, word)
<1>1. Len(auth) \in Nat /\ auth \in Seq(Int)
  BY DEF Text
<1>2. at \in 1..Len(auth)
  <2>1. at = 0 \/ at \in 1..Len(auth)
    BY StrchrIs
  <2>2. at # 0
    BY DEF Quoted, Opening
  <2> QED
    BY <2>1, <2>2
<1>3. a \in 1..Len(auth)
  <2>1. a = Strchr(auth, at, Quote) /\ a # 0
    BY <1>2 DEF Quoted, Opening
  <2>2. at \in Nat \ {0}
    BY <1>1, <1>2
  <2> HIDE DEF at, a
  <2>3. a = 0 \/ a \in at..Len(auth)
    BY <2>1, <2>2, StrchrIs
  <2> QED
    BY <2>1, <2>2, <2>3, <1>1
<1>4. b \in (a + 2)..Len(auth)
  <2>1. b = Strchr(auth, a + 2, Quote) /\ b # 0
    BY DEF Quoted, Closing
  <2>2. a + 2 \in Nat \ {0}
    BY <1>1, <1>3
  <2> DEFINE f == a + 2
  <2> HIDE DEF a, b, f
  <2>3. b = 0 \/ b \in f..Len(auth)
    BY <2>1, <2>2, StrchrIs DEF f
  <2> QED
    BY <2>1, <2>3 DEF f
<1> HIDE DEF a, b
<1>5. SubSeq(auth, a + 1, b - 1) \in Seq(Int)
  <2>1. a + 1 \in 1..Len(auth) /\ b - 1 \in 1..Len(auth)
    BY <1>1, <1>3, <1>4
  <2> QED
    BY <2>1, <1>1
<1> QED
  BY <1>5 DEF Value, Text, a, b

-----------------------------------------------------------------------------
(* The answer to it.                                                         *)

\* What is hashed, padded and counted is a text again.
LEMMA DigestText ==
  ASSUME NEW t \in Text
  PROVE  md5_packages_string(t) \in Text /\ H(t) \in Text /\ md5_packages_string(t) = H(t)
<1>1. Padded(t) \in Text
  BY PaddedText
<1>2. CvtHex(Padded(t)) \in Text
  <2> DEFINE p == Padded(t)
  <2>1. p \in Seq(Int) /\ DOMAIN p = 1..Len(p) /\ Len(p) \in Nat
    BY <1>1 DEF Text
  <2> HIDE DEF p
  <2>2. CvtHex(p) \in [1..Len(p) -> Int]
    BY <2>1 DEF CvtHex
  <2>3. CvtHex(p) \in Seq(Int)
    BY <2>1, <2>2
  <2> QED
    BY <2>3 DEF Text, p
<1> QED
  BY <1>2, DigestIs DEF H

\* Texts one behind the other, and texts cut short, are texts.
LEMMA TextsJoin ==
  ASSUME NEW a \in Text, NEW b \in Text
  PROVE  a \o b \in Text /\ Len(a \o b) = Len(a) + Len(b) /\ Len(a) \in Nat
  BY DEF Text

\* And so is one character.
LEMMA CharText ==
  ASSUME NEW c \in Int
  PROVE  <<c>> \in Text /\ Len(<<c>>) = 1
  BY DEF Text

\* What is printed fits; what fits is printed as it is.
LEMMA PrintedText ==
  ASSUME NEW t \in Text
  PROVE  Printed(t) \in Text /\ (Len(t) < MsgBufLen => Printed(t) = t)
<1>1. MsgBufLen \in Nat /\ MsgBufLen > 1 /\ Len(t) \in Nat /\ t \in Seq(Int)
  BY DigestAssumption DEF Text
<1>2. ~ (Len(t) < MsgBufLen) => 1 \in 1..Len(t) /\ MsgBufLen - 1 \in 1..Len(t)
  BY <1>1
<1>3. ~ (Len(t) < MsgBufLen) => SubSeq(t, 1, MsgBufLen - 1) \in Seq(Int)
  BY <1>1, <1>2
<1> QED
  BY <1>3 DEF Printed, Text

\* Two digests and a nonce, printed as they are where there is room.
LEMMA PrintedDigestsText ==
  ASSUME NEW p1 \in Text, NEW nonce \in Text, NEW p3 \in Text
  PROVE  /\ PrintedDigests(p1, nonce, p3) \in Text
         /\ HexLen + Len(nonce) + HexLen + 2 < MsgBufLen
            => PrintedDigests(p1, nonce, p3) = p1 \o <<Colon>> \o nonce \o <<Colon>> \o p3
<1>1. PICK c : c = <<Colon>>
  OBVIOUS
<1>2. c \in Text /\ Len(c) = 1
  BY <1>1, CharText DEF Colon
<1>3. PICK u1, u2, u3, u4 : u1 = p1 \o c /\ u2 = u1 \o nonce /\ u3 = u2 \o c /\ u4 = u3 \o p3
  OBVIOUS
<1>4. u1 \in Text /\ Len(u1) = Len(p1) + Len(c) /\ Len(p1) \in Nat
  BY ONLY <1>2, <1>3, TextsJoin, p1 \in Text
<1>5. u2 \in Text /\ Len(u2) = Len(u1) + Len(nonce) /\ Len(nonce) \in Nat
  BY ONLY <1>3, <1>4, TextsJoin, nonce \in Text
<1>6. u3 \in Text /\ Len(u3) = Len(u2) + Len(c)
  BY ONLY <1>2, <1>3, <1>5, TextsJoin
<1>7. u4 \in Text /\ Len(u4) = Len(u3) + Len(p3) /\ Len(p3) \in Nat
  BY ONLY <1>3, <1>6, TextsJoin, p3 \in Text
<1>8. PICK size, n : /\ size = HexLen + 1 + Len(nonce) + 1 + HexLen
                     /\ n = Len(u4) - (size - (MsgBufLen - 1))
  OBVIOUS
<1>9. PrintedDigests(p1, nonce, p3) = IF size < MsgBufLen THEN u4 ELSE SubSeq(u4, 1, n)
  BY ONLY <1>1, <1>3, <1>8 DEF PrintedDigests
<1>10. MsgBufLen \in Nat /\ HexLen \in Nat /\ MsgBufLen > 2 * HexLen + 2
  BY DigestAssumption
<1>11. ~ (size < MsgBufLen) => n \in Nat /\ n <= Len(u4) /\ Len(u4) \in Nat
  BY ONLY <1>2, <1>4, <1>5, <1>6, <1>7, <1>8, <1>10
<1>12. ~ (size < MsgBufLen) => SubSeq(u4, 1, n) \in Seq(Int)
  BY ONLY <1>7, <1>11 DEF Text
<1>13. HexLen + Len(nonce) + HexLen + 2 < MsgBufLen => size < MsgBufLen
  BY ONLY <1>5, <1>8, <1>10
<1> QED
  BY ONLY <1>1, <1>3, <1>7, <1>9, <1>12, <1>13 DEF Text

\* The response is a text, and where none of the three texts printed into msg_buf is cut
\* short there, the second nonce and all, it is the expected one.
THEOREM ResponseIs ==
  ASSUME NEW user \in Text, NEW passwd \in Text, NEW realm \in Text, NEW nonce \in Text,
         NEW method \in Int, NEW url \in Text
  PROVE  /\ get_response(user, passwd, realm, nonce, method, url) \in Text
         /\ /\ Len(user) + Len(realm) + Len(passwd) + 2 < MsgBufLen
            /\ Len(url) + 2 < MsgBufLen
            /\ HexLen + Len(nonce) + HexLen + 2 < MsgBufLen
            => get_response(user, passwd, realm, nonce, method, url) =
                 Expected(user, passwd, realm, nonce, method, url)
<1> DEFINE c  == <<Colon>>
           t1 == user \o c \o realm \o c \o passwd
           t3 == <<method, Colon>> \o url
           p1 == md5_packages_string(Printed(t1))
           p3 == md5_packages_string(Printed(t3))
           t2 == PrintedDigests(p1, nonce, p3)
<1>1. c \in Text /\ Len(c) = 1
  BY CharText DEF Colon
<1> HIDE DEF c
<1>2. t1 \in Text /\ Len(t1) = Len(user) + Len(realm) + Len(passwd) + 2
  <2> DEFINE u1 == user \o c  u2 == u1 \o realm  u3 == u2 \o c  u4 == u3 \o passwd
  <2>1. u1 \in Text /\ Len(u1) = Len(user) + Len(c) /\ Len(user) \in Nat
    BY <1>1, TextsJoin
  <2> HIDE DEF u1
  <2>2. u2 \in Text /\ Len(u2) = Len(u1) + Len(realm) /\ Len(realm) \in Nat
    BY <2>1, TextsJoin
  <2> HIDE DEF u2
  <2>3. u3 \in Text /\ Len(u3) = Len(u2) + Len(c)
    BY <2>2, <1>1, TextsJoin
  <2> HIDE DEF u3
  <2>4. u4 \in Text /\ Len(u4) = Len(u3) + Len(passwd) /\ Len(passwd) \in Nat
    BY <2>3, TextsJoin
  <2> HIDE DEF u4
  <2>5. Len(u4) = Len(user) + Len(realm) + Len(passwd) + 2
    BY <2>1, <2>2, <2>3, <2>4, <1>1
  <2> QED
    BY <2>4, <2>5 DEF u1, u2, u3, u4
<1>3. t3 \in Text /\ Len(t3) = Len(url) + 2
  <2>1. <<method, Colon>> \in Text /\ Len(<<method, Colon>>) = 2
    BY DEF Text, Colon
  <2> DEFINE m == <<method, Colon>>
  <2> HIDE DEF m
  <2>2. m \o url \in Text /\ Len(m \o url) = Len(m) + Len(url) /\ Len(url) \in Nat
    BY <2>1, TextsJoin DEF m
  <2>3. Len(m \o url) = Len(url) + 2
    BY <2>1, <2>2 DEF m
  <2> QED
    BY <2>2, <2>3 DEF m
<1> HIDE DEF t1, t3
<1>4. /\ Printed(t1) \in Text /\ Printed(t3) \in Text
      /\ Len(t1) < MsgBufLen => Printed(t1) = t1
      /\ Len(t3) < MsgBufLen => Printed(t3) = t3
  BY <1>2, <1>3, PrintedText
<1>5. /\ p1 \in Text /\ p3 \in Text
      /\ Len(t1) < MsgBufLen => p1 = H(t1)
      /\ Len(t3) < MsgBufLen => p3 = H(t3)
  BY <1>2, <1>3, <1>4, DigestText
<1>6. get_response(user, passwd, realm, nonce, method, url) = md5_packages_string(t2)
  BY DEF get_response, t1, t3, c
<1>0. /\ p1 \in Text /\ p3 \in Text /\ nonce \in Text
  BY <1>5
<1>7. Expected(user, passwd, realm, nonce, method, url) = H(H(t1) \o c \o nonce \o c \o H(t3))
  BY DEF Expected, t1, t3, c
<1> HIDE DEF p1, p3
<1>8. /\ t2 \in Text
      /\ HexLen + Len(nonce) + HexLen + 2 < MsgBufLen => t2 = p1 \o c \o nonce \o c \o p3
  BY ONLY <1>0, PrintedDigestsText DEF c
<1> HIDE DEF t2
<1>9. md5_packages_string(t2) \in Text /\ md5_packages_string(t2) = H(t2)
  BY <1>8, DigestText
<1>10. Len(user) + Len(realm) + Len(passwd) + 2 < MsgBufLen /\ Len(url) + 2 < MsgBufLen
       => p1 = H(t1) /\ p3 = H(t3)
  BY <1>2, <1>3, <1>5
<1> QED
  BY <1>6, <1>7, <1>8, <1>9, <1>10

-----------------------------------------------------------------------------
(* The loops of url_code.c.                                                  *)

\* A loop that goes on from any state has a run of any length.
LEMMA LoopRuns ==
  ASSUME NEW V, NEW a \in V, NEW F \in [V -> V], NEW N \in Nat
  PROVE  \E f \in [0..N -> V] : f[0] = a /\ \A n \in 1..N : f[n] = F[f[n - 1]]
<1> DEFINE Run(f, n) == f[0] = a /\ \A k \in 1..n : f[k] = F[f[k - 1]]
           Has(n) == \E f \in [0..n -> V] : Run(f, n)
           S == {n \in Nat : ~ Has(n)}
<1>1. SUFFICES ASSUME S # {} PROVE FALSE
  <2>1. CASE S = {}
    <3>1. Has(N)
      BY <2>1
    <3> QED
      BY <3>1
  <2> QED
    BY <2>1
<1>2. PICK x \in S : \A y \in S : x <= y
  <2>1. S \subseteq Nat
    OBVIOUS
  <2> HIDE DEF S
  <2> QED
    BY <1>1, <2>1, Least
<1>3. x \in Nat /\ ~ Has(x)
  OBVIOUS
<1>4. Has(0)
  <2> DEFINE g == [n \in 0..0 |-> a]
  <2>1. g \in [0..0 -> V] /\ Run(g, 0)
    OBVIOUS
  <2> QED
    BY <2>1
<1>5. x - 1 \in Nat /\ x # 0 /\ ~ (x <= x - 1)
  <2> HIDE DEF Has
  <2>1. x # 0
    BY <1>3, <1>4
  <2> QED
    BY <1>3, <2>1
<1>6. Has(x - 1)
  <2> HIDE DEF Has
  <2>1. x - 1 \notin S
    <3> HIDE DEF S
    <3> QED
      BY <1>2, <1>5
  <2> QED
    BY <2>1, <1>5
<1>7. PICK f \in [0..(x - 1) -> V] : Run(f, x - 1)
  BY <1>6
<1> DEFINE g == [n \in 0..x |-> IF n = x THEN F[f[x - 1]] ELSE f[n]]
<1>8. /\ \A n \in 0..x : n # x => n \in 0..(x - 1)
      /\ x - 1 \in 0..(x - 1) /\ x - 1 # x /\ x - 1 \in 0..x
      /\ \A n \in 1..x : n - 1 \in 0..x /\ n - 1 # x /\ (n # x => n \in 1..(x - 1) /\ n \in 0..x)
  BY <1>5
<1>9. g \in [0..x -> V]
  BY <1>8
<1>10. Run(g, x)
  <2>1. g[0] = a
    BY <1>5, <1>7
  <2>2. ASSUME NEW k \in 1..x PROVE g[k] = F[g[k - 1]]
    <3>1. g[k - 1] = f[k - 1]
      BY <1>8
    <3>2. CASE k = x
      BY <3>1, <3>2, <1>8
    <3>3. CASE k # x
      <4>1. g[k] = f[k] /\ f[k] = F[f[k - 1]]
        BY <3>3, <1>7, <1>8
      <4> QED
        BY <4>1, <3>1
    <3> QED
      BY <3>2, <3>3
  <2> QED
    BY <2>1, <2>2
<1> QED
  BY <1>3, <1>9, <1>10

\* The states of the loops.
LoopState == [p : Nat \ {0}, r : {0, -1}, target : Text]

\* They start so.
LEMMA StartState == Start \in LoopState
  BY DEF Start, LoopState, Text

\* What one byte becomes is a text.
LEMMA EscapedText ==
  ASSUME NEW c \in Int
  PROVE  Escaped(c) \in Text /\ Len(Escaped(c)) \in {1, 3}
<1>1. Hex(c \div 16) \in Int /\ Hex(c % 16) \in Int /\ Percent \in Int /\ Plus \in Int
  BY DEF Hex, Percent, Plus
<1> QED
  BY <1>1 DEF Escaped, Text

\* Unless the loop ends there is a byte to read.
LEMMA AtByte ==
  ASSUME NEW source \in Text, NEW p \in Nat \ {0}, At(source, p) # NUL
  PROVE  p \in 1..Len(source) /\ source[p] \in Int /\ source[p] # NUL
  BY DEF At, Text

\* Every turn of url_encode ends in one.
LEMMA EncodeTurnState ==
  ASSUME NEW source \in Text, NEW srcBytes, NEW tgtBytes, NEW s \in LoopState
  PROVE  EncodeTurn(source, srcBytes, tgtBytes, s) \in LoopState
<1>1. CASE LoopEnds(source, srcBytes, tgtBytes, s)
  BY <1>1 DEF EncodeTurn
<1>2. CASE ~ LoopEnds(source, srcBytes, tgtBytes, s)
  <2>1. s.p \in Nat \ {0} /\ s.target \in Text /\ At(source, s.p) # NUL
    BY <1>2 DEF LoopEnds, LoopState
  <2>2. source[s.p] \in Int
    BY <2>1, AtByte
  <2> DEFINE e == Escaped(source[s.p])
  <2>3. s.target \o e \in Text
    BY <2>1, <2>2, EscapedText, TextsJoin
  <2> HIDE DEF e
  <2> DEFINE t == s.target \o e  q == s.p + 1
  <2>6. t \in Text /\ q \in Nat \ {0}
    BY <2>1, <2>3
  <2> HIDE DEF t, q
  <2>4. [s EXCEPT !.r = -1] \in LoopState
    BY DEF LoopState
  <2>5. [s EXCEPT !.p = q, !.target = t] \in LoopState
    BY <2>6 DEF LoopState
  <2> QED
    BY <1>2, <2>4, <2>5 DEF EncodeTurn, e, t, q
<1> QED
  BY <1>1, <1>2

\* And of url_decode.
LEMMA DecodeTurnState ==
  ASSUME NEW source \in Text, NEW srcBytes, NEW tgtBytes, NEW s \in LoopState
  PROVE  DecodeTurn(source, srcBytes, tgtBytes, s) \in LoopState
<1>1. CASE LoopEnds(source, srcBytes, tgtBytes, s)
  BY <1>1 DEF DecodeTurn
<1>2. [s EXCEPT !.r = -1] \in LoopState
  BY DEF LoopState
<1>3. CASE /\ ~ LoopEnds(source, srcBytes, tgtBytes, s)
           /\ ~ (source[s.p] = Percent /\ Malformed(source, s.p, srcBytes))
  <2>1. s.p \in Nat \ {0} /\ s.target \in Text /\ At(source, s.p) # NUL
    BY <1>3 DEF LoopEnds, LoopState
  <2>2. source[s.p] \in Int /\ source \in Seq(Int)
    BY <2>1, AtByte DEF Text
  <2> DEFINE b == Byte(source, s.p)  q == s.p + (IF source[s.p] = Percent THEN 3 ELSE 1)
  <2>3. b \in Int
    <3>1. CASE source[s.p] # Percent
      BY <2>2, <3>1 DEF Byte, Space
    <3>2. CASE source[s.p] = Percent
      <4>1. char_ishex(At(source, s.p + 1)) /\ char_ishex(At(source, s.p + 2))
        BY <1>3, <3>2 DEF Malformed
      <4>2. At(source, s.p + 1) # NUL /\ At(source, s.p + 2) # NUL
        BY <4>1 DEF char_ishex, NUL, Digits
      <4>3. source[s.p + 1] \in Int /\ source[s.p + 2] \in Int
        <5>1. s.p + 1 \in Nat \ {0} /\ s.p + 2 \in Nat \ {0}
          BY <2>1
        <5> QED
          BY <5>1, <4>2, AtByte
      <4>4. ToHex(source[s.p + 1]) \in Int /\ ToHex(source[s.p + 2]) \in Int
        BY <4>3 DEF ToHex
      <4> QED
        BY <4>4, <3>2 DEF Byte, Plus, Percent, Space
    <3> QED
      BY <3>1, <3>2
  <2>4. q \in Nat \ {0}
    BY <2>1
  <2> HIDE DEF b, q
  <2> DEFINE t == Append(s.target, b)
  <2>5. t \in Text
    BY <2>1, <2>3 DEF Text
  <2> HIDE DEF t
  <2>6. [s EXCEPT !.p = q, !.target = t] \in LoopState
    BY <2>4, <2>5 DEF LoopState
  <2>7. DecodeTurn(source, srcBytes, tgtBytes, s) = [s EXCEPT !.p = q, !.target = t]
    BY <1>3 DEF DecodeTurn, q, t, b
  <2> QED
    BY <2>6, <2>7
<1> QED
  BY <1>1, <1>2, <1>3 DEF DecodeTurn

\* f is what the turns of url_encode lead through, and likewise of url_decode.
Encodes(f, source, srcBytes, tgtBytes) ==
  /\ f \in [0..Len(source) -> LoopState] /\ f[0] = Start
  /\ \A n \in 1..Len(source) : f[n] = EncodeTurn(source, srcBytes, tgtBytes, f[n - 1])
  /\ url_encode(source, srcBytes, tgtBytes) = f[Len(source)]
Decodes(f, source, srcBytes, tgtBytes) ==
  /\ f \in [0..Len(source) -> LoopState] /\ f[0] = Start
  /\ \A n \in 1..Len(source) : f[n] = DecodeTurn(source, srcBytes, tgtBytes, f[n - 1])
  /\ url_decode(source, srcBytes, tgtBytes) = f[Len(source)]

\* url_encode is what its turns lead to.
LEMMA Encoding ==
  ASSUME NEW source \in Text, NEW srcBytes, NEW tgtBytes
  PROVE  \E f : Encodes(f, source, srcBytes, tgtBytes)
<1> DEFINE N == Len(source)
           Turn(s) == EncodeTurn(source, srcBytes, tgtBytes, s)
           Is(f) == f = [n \in 0..N |-> IF n = 0 THEN Start ELSE Turn(f[n - 1])]
           w == CHOOSE f : Is(f)
           F == [s \in LoopState |-> Turn(s)]
<1>1. N \in Nat
  BY DEF Text
<1>2. \A s \in LoopState : Turn(s) \in LoopState
  BY EncodeTurnState
<1>3. url_encode(source, srcBytes, tgtBytes) = w[N]
  BY DEF url_encode
<1> HIDE DEF N, Turn
<1>4. \E f : Is(f)
  <2>1. F \in [LoopState -> LoopState]
    BY <1>2
  <2> HIDE DEF F
  <2>2. PICK f \in [0..N -> LoopState] : f[0] = Start /\ \A n \in 1..N : f[n] = F[f[n - 1]]
    BY <1>1, <2>1, StartState, LoopRuns
  <2>3. ASSUME NEW n \in 0..N, n # 0 PROVE f[n] = Turn(f[n - 1])
    <3>1. n \in 1..N /\ n - 1 \in 0..N
      BY <1>1, <2>3
    <3> QED
      BY <3>1, <2>2 DEF F
  <2>4. Is(f)
    BY <2>2, <2>3
  <2> QED
    BY <2>4
<1>5. Is(w)
  <2> HIDE DEF Is
  <2> QED
    BY <1>4, Zenon
<1> HIDE DEF w
<1>6. w[0] = Start /\ \A n \in 1..N : n - 1 \in 0..N /\ w[n] = Turn(w[n - 1])
  BY <1>1, <1>5
<1>7. \A n \in 0..N : w[n] \in LoopState
  <2> DEFINE S == {n \in 0..N : w[n] \notin LoopState}
  <2>1. SUFFICES ASSUME S # {} PROVE FALSE
    OBVIOUS
  <2>2. PICK x \in S : \A y \in S : x <= y
    <3>1. S \subseteq Nat
      BY <1>1
    <3> HIDE DEF S
    <3> QED
      BY <2>1, <3>1, Least
  <2>3. x # 0 /\ x \in 1..N
    BY <1>1, <1>6, StartState
  <2>4. x - 1 \in 0..N /\ ~ (x <= x - 1)
    BY <1>1, <2>3
  <2>5. w[x - 1] \in LoopState
    BY <2>2, <2>4
  <2> QED
    BY <2>3, <2>5, <1>2, <1>6
<1>8. w \in [0..N -> LoopState]
  BY <1>5, <1>7
<1> QED
  BY <1>3, <1>6, <1>8, Zenon DEF Encodes, N, Turn

\* And url_decode.
LEMMA Decoding ==
  ASSUME NEW source \in Text, NEW srcBytes, NEW tgtBytes
  PROVE  \E f : Decodes(f, source, srcBytes, tgtBytes)
<1> DEFINE N == Len(source)
           Turn(s) == DecodeTurn(source, srcBytes, tgtBytes, s)
           Is(f) == f = [n \in 0..N |-> IF n = 0 THEN Start ELSE Turn(f[n - 1])]
           w == CHOOSE f : Is(f)
           F == [s \in LoopState |-> Turn(s)]
<1>1. N \in Nat
  BY DEF Text
<1>2. \A s \in LoopState : Turn(s) \in LoopState
  BY DecodeTurnState
<1>3. url_decode(source, srcBytes, tgtBytes) = w[N]
  BY DEF url_decode
<1> HIDE DEF N, Turn
<1>4. \E f : Is(f)
  <2>1. F \in [LoopState -> LoopState]
    BY <1>2
  <2> HIDE DEF F
  <2>2. PICK f \in [0..N -> LoopState] : f[0] = Start /\ \A n \in 1..N : f[n] = F[f[n - 1]]
    BY <1>1, <2>1, StartState, LoopRuns
  <2>3. ASSUME NEW n \in 0..N, n # 0 PROVE f[n] = Turn(f[n - 1])
    <3>1. n \in 1..N /\ n - 1 \in 0..N
      BY <1>1, <2>3
    <3> QED
      BY <3>1, <2>2 DEF F
  <2>4. Is(f)
    BY <2>2, <2>3
  <2> QED
    BY <2>4
<1>5. Is(w)
  <2> HIDE DEF Is
  <2> QED
    BY <1>4, Zenon
<1> HIDE DEF w
<1>6. w[0] = Start /\ \A n \in 1..N : n - 1 \in 0..N /\ w[n] = Turn(w[n - 1])
  BY <1>1, <1>5
<1>7. \A n \in 0..N : w[n] \in LoopState
  <2> DEFINE S == {n \in 0..N : w[n] \notin LoopState}
  <2>1. SUFFICES ASSUME S # {} PROVE FALSE
    OBVIOUS
  <2>2. PICK x \in S : \A y \in S : x <= y
    <3>1. S \subseteq Nat
      BY <1>1
    <3> HIDE DEF S
    <3> QED
      BY <2>1, <3>1, Least
  <2>3. x # 0 /\ x \in 1..N
    BY <1>1, <1>6, StartState
  <2>4. x - 1 \in 0..N /\ ~ (x <= x - 1)
    BY <1>1, <2>3
  <2>5. w[x - 1] \in LoopState
    BY <2>2, <2>4
  <2> QED
    BY <2>3, <2>5, <1>2, <1>6
<1>8. w \in [0..N -> LoopState]
  BY <1>5, <1>7
<1> QED
  BY <1>3, <1>6, <1>8, Zenon DEF Decodes, N, Turn

-----------------------------------------------------------------------------
(* Ids.                                                                      *)

\* A device id: bytes without a NUL.
Ids == Seq(1..255)

\* What the elements of a sequence are.
LEMMA SeqElements ==
  ASSUME NEW S, NEW s \in Seq(S)
  PROVE  /\ Len(s) \in Nat /\ DOMAIN s = 1..Len(s) /\ \A p \in 1..Len(s) : s[p] \in S
         /\ s = [p \in 1..Len(s) |-> s[p]]
  OBVIOUS

\* Which is a text, all of it before its NUL.
LEMMA IdText ==
  ASSUME NEW id \in Ids
  PROVE  /\ id \in Text /\ Len(id) \in Nat /\ DOMAIN id = 1..Len(id)
         /\ \A p \in 1..Len(id) : id[p] \in 1..255 /\ id[p] # NUL
         /\ AsString(id) = id
<1>1. id \in Seq(Int) /\ Len(id) \in Nat /\ \A p \in 1..Len(id) : id[p] \in 1..255 /\ id[p] # NUL
  <2> DEFINE S == 1..255  L == Len(id)
  <2>1. id \in Seq(S)
    BY DEF Ids
  <2> HIDE DEF S
  <2>2. L \in Nat /\ (\A p \in 1..L : id[p] \in S) /\ id = [p \in 1..L |-> id[p]]
    BY <2>1, SeqElements
  <2> HIDE DEF L
  <2>3. \A c \in S : c \in Int /\ c # NUL
    BY DEF S, NUL
  <2>4. \A p \in 1..L : id[p] \in Int /\ id[p] # NUL
    BY ONLY <2>2, <2>3
  <2>5. id \in Seq(Int)
    <3> DEFINE g == [p \in 1..L |-> id[p]]
    <3>1. g \in [1..L -> Int]
      BY <2>4
    <3>2. g \in Seq(Int)
      BY ONLY <2>2, <3>1
    <3> QED
      BY <2>2, <3>2
  <2> QED
    BY <2>2, <2>4, <2>5 DEF L, S
<1>2. CString(id) = 0
  BY <1>1 DEF CString, SelectInSeq
<1> QED
  BY <1>1, <1>2 DEF Text, AsString

\* One more character of a text.
LEMMA OneMore ==
  ASSUME NEW t \in Text, NEW n \in Nat, n < Len(t)
  PROVE  /\ SubSeq(t, 1, n) \in Text /\ Len(SubSeq(t, 1, n)) = n
         /\ Append(SubSeq(t, 1, n), t[n + 1]) = SubSeq(t, 1, n + 1)
         /\ SubSeq(t, 1, 0) = <<>> /\ SubSeq(t, 1, Len(t)) = t
<1>1. t \in Seq(Int) /\ Len(t) \in Nat
  BY DEF Text
<1>2. SubSeq(t, 1, n) \in Seq(Int) /\ Len(SubSeq(t, 1, n)) = n
  BY <1>1
<1>3. SubSeq(t, 1, n + 1) \in Seq(Int) /\ Len(SubSeq(t, 1, n + 1)) = n + 1
  BY <1>1
<1>4. Append(SubSeq(t, 1, n), t[n + 1]) = SubSeq(t, 1, n + 1)
  BY <1>1, <1>2, <1>3
<1>5. SubSeq(t, 1, 0) = <<>> /\ SubSeq(t, 1, Len(t)) = t
  BY <1>1
<1> QED
  BY <1>2, <1>4, <1>5 DEF Text

\* url_decode leaves an id without escapes as it is.
LEMMA PlainDecoded ==
  ASSUME NEW id \in Ids, Len(id) < MaxIdLen, Plain(id)
  PROVE  Decoded(id) = id
<1> DEFINE L == Len(id)
           Been(n) == [p |-> n + 1, r |-> 0, target |-> SubSeq(id, 1, n)]
<1>0. /\ id \in Text /\ L \in Nat /\ MaxIdLen \in Nat /\ L < MaxIdLen
      /\ \A p \in 1..L : id[p] \in 1..255 /\ id[p] # NUL /\ id[p] # Plus /\ id[p] # Percent
  BY IdText, OpenVideoAssumption DEF Plain
<1>1. PICK f : Decodes(f, id, L, MaxIdLen)
  BY <1>0, Decoding
<1>2. f[0] = Start /\ (\A n \in 1..L : f[n] = DecodeTurn(id, L, MaxIdLen, f[n - 1]))
      /\ url_decode(id, L, MaxIdLen) = f[L]
  BY <1>1 DEF Decodes
<1>3. SubSeq(id, 1, 0) = <<>> /\ SubSeq(id, 1, L) = id
  BY <1>0 DEF Text
<1> HIDE DEF L
<1>4. ASSUME NEW n \in 1..L, f[n - 1] = Been(n - 1)
      PROVE  f[n] = Been(n)
  <2> DEFINE s == Been(n - 1)
  <2>1. n - 1 \in Nat /\ n - 1 < L /\ (n - 1) + 1 = n
    BY <1>0
  <2>2. /\ s.p = n /\ s.r = 0 /\ s.target = SubSeq(id, 1, n - 1) /\ Len(s.target) = n - 1
        /\ Append(s.target, id[n]) = SubSeq(id, 1, n)
    BY <1>0, <2>1, OneMore DEF L
  <2>3. id[n] \in 1..255 /\ id[n] # NUL /\ id[n] # Plus /\ id[n] # Percent
    BY <1>0
  <2>4. ~ LoopEnds(id, L, MaxIdLen, s)
    <3>1. At(id, n) # NUL /\ Within(n, L) /\ s.r # -1 /\ ~ (Len(s.target) >= MaxIdLen)
      BY <1>0, <2>1, <2>2, <2>3 DEF At, Within, L
    <3> QED
      BY <3>1, <2>2 DEF LoopEnds
  <2>5. Byte(id, n) = id[n]
    BY <2>3 DEF Byte
  <2>6. DecodeTurn(id, L, MaxIdLen, s) = [s EXCEPT !.p = @ + 1, !.target = Append(@, id[n])]
    BY <2>2, <2>3, <2>4, <2>5 DEF DecodeTurn
  <2>7. DecodeTurn(id, L, MaxIdLen, s) = Been(n)
    BY <2>1, <2>2, <2>6
  <2> QED
    BY <1>2, <1>4, <2>7
<1>5. f[0] = Been(0)
  BY <1>2, <1>3 DEF Start
<1> HIDE DEF Been
<1>6. \A n \in 0..L : f[n] = Been(n)
  <2> DEFINE S == {n \in 0..L : f[n] # Been(n)}
  <2>1. SUFFICES ASSUME S # {} PROVE FALSE
    OBVIOUS
  <2>2. PICK x \in S : \A y \in S : x <= y
    <3>1. S \subseteq Nat
      BY <1>0
    <3> HIDE DEF S
    <3> QED
      BY <2>1, <3>1, Least
  <2>3. x # 0 /\ x \in 1..L
    BY <1>0, <1>5
  <2>4. x - 1 \in 0..L /\ ~ (x <= x - 1)
    BY <1>0, <2>3
  <2>5. f[x - 1] = Been(x - 1)
    BY <2>2, <2>4
  <2> QED
    BY <2>3, <2>5, <1>4
<1>7. f[L].target = id
  <2>1. f[L] = Been(L)
    BY <1>0, <1>6
  <2>2. Been(L).target = SubSeq(id, 1, L)
    BY DEF Been
  <2> QED
    BY <1>3, <2>1, <2>2
<1> QED
  BY <1>2, <1>7, IdText DEF Decoded, L

-----------------------------------------------------------------------------
(* There and back again.                                                     *)

\* A property of one number that goes over to the next holds of all of them.
LEMMA Onwards ==
  ASSUME NEW N \in Nat, NEW G, 0 \in G, \A n \in 1..N : n - 1 \in G => n \in G
  PROVE  \A n \in 0..N : n \in G
<1> DEFINE S == {n \in 0..N : n \notin G}
<1>1. SUFFICES ASSUME S # {} PROVE FALSE
  OBVIOUS
<1>2. PICK x \in S : \A y \in S : x <= y
  <2>1. S \subseteq Nat
    OBVIOUS
  <2> HIDE DEF S
  <2> QED
    BY <1>1, <2>1, Least
<1>3. x # 0 /\ x \in 1..N
  OBVIOUS
<1>4. x - 1 \in 0..N /\ ~ (x <= x - 1)
  BY <1>3
<1>5. x - 1 \in G
  BY <1>2, <1>4
<1> QED
  BY <1>3, <1>5

\* And one that goes back to the one before.
LEMMA Backwards ==
  ASSUME NEW N \in Nat, NEW G, N \in G, \A n \in 1..N : n \in G => n - 1 \in G
  PROVE  \A n \in 0..N : n \in G
<1> DEFINE B == {m \in 0..N : N - m \in G}
<1>1. 0 \in B
  OBVIOUS
<1>2. ASSUME NEW m \in 1..N, m - 1 \in B PROVE m \in B
  <2>1. N - (m - 1) \in 1..N /\ (N - (m - 1)) - 1 = N - m /\ m \in 0..N /\ N - (m - 1) \in G
    BY <1>2
  <2> QED
    BY <2>1
<1> HIDE DEF B
<1>3. \A m \in 0..N : m \in B
  BY <1>1, <1>2, Onwards
<1>4. ASSUME NEW n \in 0..N PROVE n \in G
  <2>1. N - n \in 0..N /\ N - (N - n) = n
    OBVIOUS
  <2>2. N - n \in B
    BY <1>3, <2>1
  <2> QED
    BY <2>1, <2>2 DEF B
<1> QED
  BY <1>4

\* Two hexadecimal digits stand for a byte.
LEMMA HexBack ==
  ASSUME NEW c \in 1..255
  PROVE  /\ char_ishex(Hex(c \div 16)) /\ char_ishex(Hex(c % 16))
         /\ 16 * ToHex(Hex(c \div 16)) + ToHex(Hex(c % 16)) = c
<1> DEFINE h == c \div 16  l == c % 16
<1>1. h \in 0..15 /\ l \in 0..15 /\ 16 * h + l = c
  OBVIOUS
<1> HIDE DEF h, l
<1>2. ASSUME NEW n \in 0..15 PROVE char_ishex(Hex(n)) /\ ToHex(Hex(n)) = n
  BY DEF char_ishex, Hex, ToHex, Digits, Upper
<1>3. char_ishex(Hex(h)) /\ char_ishex(Hex(l)) /\ ToHex(Hex(h)) = h /\ ToHex(Hex(l)) = l
  BY <1>1, <1>2
<1> QED
  BY <1>1, <1>3 DEF h, l

\* What one byte becomes, character by character.
LEMMA EscapedIs ==
  ASSUME NEW c \in 1..255
  PROVE  LET e == Escaped(c) IN
         \/ Len(e) = 1 /\ e[1] = c /\ c # Plus /\ c # Percent
         \/ Len(e) = 1 /\ e[1] = Plus /\ c = Space
         \/ /\ Len(e) = 3 /\ e[1] = Percent
            /\ e[2] = Hex(c \div 16) /\ e[3] = Hex(c % 16)
<1>1. CASE Unreserved(c)
  <2>1. c # Plus /\ c # Percent /\ c # Space
    BY <1>1 DEF Unreserved, char_isalnum, Digits, Upper, Lower, Plus, Percent, Space
  <2>2. Escaped(c) = <<c>>
    BY <1>1, <2>1 DEF Escaped
  <2> QED
    BY <2>1, <2>2
<1>2. CASE ~ Unreserved(c) /\ c = Space
  <2>1. Escaped(c) = <<Plus>>
    BY <1>2 DEF Escaped
  <2> QED
    BY <1>2, <2>1
<1>3. CASE ~ Unreserved(c) /\ c # Space
  <2> DEFINE h == Hex(c \div 16)  l == Hex(c % 16)
  <2>1. Escaped(c) = <<Percent, h, l>>
    BY <1>3 DEF Escaped
  <2> HIDE DEF h, l
  <2>2. Len(Escaped(c)) = 3 /\ Escaped(c)[1] = Percent /\ Escaped(c)[2] = h /\ Escaped(c)[3] = l
    BY <2>1
  <2> QED
    BY <2>2 DEF h, l
<1> QED
  BY <1>1, <1>2, <1>3

\* A turn of url_encode stops, gives up, or writes one byte where it fits.
LEMMA EncodeTurnIs ==
  ASSUME NEW source \in Text, NEW srcBytes, NEW room \in Nat, NEW s \in LoopState,
         Len(s.target) <= room
  PROVE  LET t == EncodeTurn(source, srcBytes, room, s)
             e == Escaped(source[s.p])
         IN \/ t = s /\ LoopEnds(source, srcBytes, room, s)
            \/ t = [s EXCEPT !.r = -1]
            \/ /\ t.p = s.p + 1 /\ t.r = s.r /\ t.target = s.target \o e
               /\ e \in Text /\ Len(s.target) + Len(e) <= room
<1>1. CASE LoopEnds(source, srcBytes, room, s)
  BY <1>1 DEF EncodeTurn
<1>2. CASE ~ LoopEnds(source, srcBytes, room, s)
  <2> DEFINE e == Escaped(source[s.p])
  <2>1. s.p \in Nat \ {0} /\ s.target \in Text /\ At(source, s.p) # NUL
    BY <1>2 DEF LoopEnds, LoopState
  <2>2. e \in Text /\ Len(e) \in Nat /\ Len(s.target) \in Nat
    <3>1. source[s.p] \in Int
      BY <2>1, AtByte
    <3>2. e \in Text /\ Len(e) \in {1, 3}
      BY <3>1, EscapedText
    <3> QED
      BY <3>2, <2>1 DEF Text
  <2> HIDE DEF e
  <2>3. EncodeTurn(source, srcBytes, room, s) =
          IF Len(s.target) + Len(e) > room THEN [s EXCEPT !.r = -1]
          ELSE [s EXCEPT !.p = @ + 1, !.target = @ \o e]
    BY <1>2 DEF EncodeTurn, e
  <2>4. CASE Len(s.target) + Len(e) > room
    BY <2>3, <2>4
  <2>5. CASE ~ (Len(s.target) + Len(e) > room)
    <3> DEFINE t == s.target \o e  q == s.p + 1  u == [s EXCEPT !.p = q, !.target = t]
    <3>1. EncodeTurn(source, srcBytes, room, s) = u
      BY <2>3, <2>5
    <3> HIDE DEF t, q
    <3>2. u.p = q /\ u.r = s.r /\ u.target = t
      BY DEF LoopState
    <3>3. Len(s.target) + Len(e) <= room
      BY <2>2, <2>5
    <3> QED
      BY <2>2, <3>1, <3>2, <3>3 DEF t, q, e
  <2> QED
    BY <2>4, <2>5
<1> QED
  BY <1>1, <1>2

\* url_encode never writes more than there is room for.
LEMMA EncodeFits ==
  ASSUME NEW id \in Text, NEW srcBytes, NEW room \in Nat, NEW f, Encodes(f, id, srcBytes, room)
  PROVE  \A n \in 0..Len(id) : f[n] \in LoopState /\ Len(f[n].target) \in Nat
                               /\ Len(f[n].target) <= room
<1> DEFINE L == Len(id)  G == {n \in 0..L : Len(f[n].target) <= room}
<1>1. L \in Nat
  BY DEF Text
<1>2. /\ \A n \in 0..L : f[n] \in LoopState
      /\ f[0] = Start /\ \A n \in 1..L : f[n] = EncodeTurn(id, srcBytes, room, f[n - 1])
  BY DEF Encodes
<1>3. \A n \in 0..L : Len(f[n].target) \in Nat
  <2>1. \A s \in LoopState : Len(s.target) \in Nat
    BY DEF LoopState, Text
  <2> QED
    BY <1>2, <2>1
<1> HIDE DEF L
<1>4. 0 \in G
  BY <1>1, <1>2 DEF Start
<1>5. ASSUME NEW n \in 1..L, n - 1 \in G PROVE n \in G
  <2> DEFINE s == f[n - 1]  t == f[n]  e == Escaped(id[s.p])
  <2>1. n - 1 \in 0..L /\ n \in 0..L
    BY <1>1
  <2>2. s \in LoopState /\ Len(s.target) <= room
    BY <1>2, <1>5, <2>1
  <2>3. t = EncodeTurn(id, srcBytes, room, s)
    BY <1>2
  <2> HIDE DEF s, t, e
  <2>4. \/ t = s \/ t = [s EXCEPT !.r = -1]
        \/ t.target = s.target \o e /\ e \in Text /\ Len(s.target) + Len(e) <= room
    BY <2>2, <2>3, EncodeTurnIs DEF e
  <2>5. ASSUME e \in Text PROVE Len(s.target \o e) = Len(s.target) + Len(e)
    <3>1. s.target \in Text
      BY <2>2 DEF LoopState
    <3> QED
      BY <3>1, <2>5, TextsJoin
  <2>6. Len(t.target) <= room
    <3>1. CASE t = s
      BY <3>1, <2>2
    <3>2. CASE t = [s EXCEPT !.r = -1]
      BY <3>2, <2>2 DEF LoopState
    <3>3. CASE t.target = s.target \o e /\ e \in Text /\ Len(s.target) + Len(e) <= room
      BY <3>3, <2>5
    <3> QED
      BY <2>4, <3>1, <3>2, <3>3
  <2> QED
    BY <2>1, <2>6 DEF t
<1>6. \A n \in 0..L : n \in G
  <2> HIDE DEF G
  <2> QED
    BY <1>1, <1>4, <1>5, Onwards
<1> QED
  BY <1>2, <1>3, <1>6 DEF L

\* a starts b.
Starts(a, b) == Len(a) <= Len(b) /\ \A i \in 1..Len(a) : b[i] = a[i]

\* What starts with two texts starts with the first and goes on with the second.
LEMMA StartsJoined ==
  ASSUME NEW a \in Text, NEW e \in Text, NEW b \in Text, Starts(a \o e, b)
  PROVE  /\ Starts(a, b) /\ Len(a \o e) = Len(a) + Len(e)
         /\ \A i \in 1..Len(e) : b[Len(a) + i] = e[i]
<1> DEFINE ae == a \o e
<1>1. /\ a \in Seq(Int) /\ e \in Seq(Int) /\ b \in Seq(Int)
      /\ Len(a) \in Nat /\ Len(e) \in Nat /\ Len(b) \in Nat
  BY DEF Text
<1>2. /\ Len(ae) = Len(a) + Len(e)
      /\ \A i \in 1..Len(a) : ae[i] = a[i]
      /\ \A i \in 1..Len(e) : ae[Len(a) + i] = e[i]
  BY <1>1
<1>3. Len(ae) <= Len(b) /\ \A i \in 1..Len(ae) : b[i] = ae[i]
  BY DEF Starts
<1> HIDE DEF ae
<1>4. /\ \A i \in 1..Len(a) : i \in 1..Len(ae)
      /\ \A i \in 1..Len(e) : Len(a) + i \in 1..Len(ae)
  BY <1>1, <1>2
<1>5. \A i \in 1..Len(a) : b[i] = a[i]
  BY <1>2, <1>3, <1>4
<1>6. \A i \in 1..Len(e) : b[Len(a) + i] = e[i]
  BY <1>2, <1>3, <1>4
<1>7. Len(a) <= Len(b)
  BY <1>1, <1>2, <1>3
<1> QED
  BY <1>2, <1>5, <1>6, <1>7 DEF Starts, ae

\* All of the id is in code, its n-th byte from position at[n - 1] + 1 on.
CodedAs(code, id, at) ==
  /\ at \in [0..Len(id) -> Nat] /\ at[0] = 0 /\ at[Len(id)] = Len(code)
  /\ \A n \in 1..Len(id) : LET e == Escaped(id[n]) IN
       /\ at[n] = at[n - 1] + Len(e) /\ at[n] <= Len(code)
       /\ \A i \in 1..Len(e) : code[at[n - 1] + i] = e[i]

\* So it is when url_encode neither gives up nor fills its target.
LEMMA EncodesAll ==
  ASSUME NEW id \in Ids, NEW room \in Nat,
         url_encode(id, Len(id), room).r = 0,
         Len(url_encode(id, Len(id), room).target) < room
  PROVE  /\ url_encode(id, Len(id), room).target \in Text
         /\ \E at : CodedAs(url_encode(id, Len(id), room).target, id, at)
<1> DEFINE L == Len(id)  code == url_encode(id, L, room).target
<1>0. id \in Text /\ L \in Nat /\ \A p \in 1..L : id[p] \in 1..255 /\ id[p] # NUL
  BY IdText
<1>1. PICK f : Encodes(f, id, L, room)
  BY <1>0, Encoding
<1>2. /\ f[0] = Start /\ \A n \in 1..L : f[n] = EncodeTurn(id, L, room, f[n - 1])
      /\ url_encode(id, L, room) = f[L]
  BY <1>1 DEF Encodes
<1>3. \A n \in 0..L : /\ f[n] \in LoopState /\ Len(f[n].target) \in Nat
                      /\ Len(f[n].target) <= room /\ f[n].target \in Text /\ f[n].p \in Nat
  <2>1. \A s \in LoopState : s.target \in Text /\ s.p \in Nat
    BY DEF LoopState
  <2> QED
    BY <1>0, <1>1, <2>1, EncodeFits
<1>4. f[L].r = 0 /\ Len(f[L].target) < room /\ code = f[L].target /\ code \in Text
  BY <1>0, <1>2, <1>3
<1> DEFINE G == {n \in 0..L : /\ f[n].r = 0 /\ Len(f[n].target) < room
                              /\ Starts(f[n].target, code)}
<1> HIDE DEF L, code
\* One turn: what was so after it was so before it, and it wrote one byte.
<1> DEFINE Wrote(n) == LET e == Escaped(id[f[n - 1].p]) IN
             /\ Len(f[n].target) = Len(f[n - 1].target) + Len(e)
             /\ \A i \in 1..Len(e) : code[Len(f[n - 1].target) + i] = e[i]
             /\ f[n].p = f[n - 1].p + 1
<1>5. ASSUME NEW n \in 1..L, n \in G
      PROVE  n - 1 \in G /\ (f[n - 1].p = n => Wrote(n))
  <2> DEFINE s == f[n - 1]  t == f[n]  e == Escaped(id[s.p])
  <2>1. n - 1 \in 0..L /\ n \in 0..L
    BY <1>0
  <2>2. /\ s \in LoopState /\ Len(s.target) \in Nat /\ Len(s.target) <= room
        /\ s.target \in Text /\ s.p \in Nat /\ t = EncodeTurn(id, L, room, s)
        /\ t.r = 0 /\ Len(t.target) < room /\ Starts(t.target, code)
    BY <1>2, <1>3, <1>5, <2>1
  <2> HIDE DEF s, t, e, G
  <2>3. \/ t = s /\ LoopEnds(id, L, room, s)
        \/ t = [s EXCEPT !.r = -1]
        \/ /\ t.p = s.p + 1 /\ t.r = s.r /\ t.target = s.target \o e
           /\ e \in Text
    <3>1. id \in Text /\ room \in Nat /\ s \in LoopState /\ Len(s.target) <= room
      BY <1>0, <2>2
    <3> DEFINE u == EncodeTurn(id, L, room, s)
    <3>2. \/ u = s /\ LoopEnds(id, L, room, s)
          \/ u = [s EXCEPT !.r = -1]
          \/ /\ u.p = s.p + 1 /\ u.r = s.r /\ u.target = s.target \o e
             /\ e \in Text
      BY ONLY <3>1, EncodeTurnIs, ZenonT(60) DEF e
    <3> QED
      BY ONLY <3>2, <2>2
  <2>4. t # [s EXCEPT !.r = -1]
    BY <2>2 DEF LoopState
  <2>5. CASE t = s /\ LoopEnds(id, L, room, s)
    <3>1. s.p # n
      <4>1. s.p = n => At(id, s.p) # NUL /\ Within(s.p, L)
        BY <1>0 DEF At, Within, L
      <4>2. s.r # -1 /\ ~ (Len(s.target) >= room)
        BY <2>2, <2>5
      <4> QED
        BY <4>1, <4>2, <2>5 DEF LoopEnds
    <3> QED
      BY <2>1, <2>2, <2>5, <3>1 DEF G, s
  <2>6. CASE t.p = s.p + 1 /\ t.r = s.r /\ t.target = s.target \o e /\ e \in Text
    <3>1. /\ Starts(s.target, code) /\ Len(t.target) = Len(s.target) + Len(e) /\ Len(e) \in Nat
          /\ \A i \in 1..Len(e) : code[Len(s.target) + i] = e[i]
      <4>1. Len(e) \in Nat
        BY <2>6 DEF Text
      <4>2. s.target \in Text /\ e \in Text /\ code \in Text /\ Starts(s.target \o e, code)
        BY <1>4, <2>2, <2>6
      <4>3. /\ Starts(s.target, code) /\ Len(s.target \o e) = Len(s.target) + Len(e)
            /\ \A i \in 1..Len(e) : code[Len(s.target) + i] = e[i]
        BY ONLY <4>2, StartsJoined
      <4> QED
        BY <2>6, <4>1, <4>3
    <3>2. Len(s.target) < room
      BY <2>2, <3>1
    <3>3. n - 1 \in G
      BY <2>1, <2>2, <2>6, <3>1, <3>2 DEF G, s
    <3> QED
      BY <3>1, <3>3, <2>6 DEF s, t, e
  <2> QED
    BY <2>3, <2>4, <2>5, <2>6
<1>6. L \in G
  BY <1>0, <1>4 DEF Starts
<1>7. \A n \in 0..L : n \in G
  <2> HIDE DEF G, Wrote
  <2> QED
    BY <1>0, <1>5, <1>6, Backwards
<1> DEFINE A == {n \in 0..L : f[n].p = n + 1}
<1> HIDE DEF G
<1>8. \A n \in 0..L : n \in A
  <2>1. 0 \in A
    BY <1>0, <1>2 DEF Start
  <2>2. ASSUME NEW n \in 1..L, n - 1 \in A PROVE n \in A
    <3>1. n - 1 \in 0..L /\ n \in 0..L /\ (n - 1) + 1 = n
      BY <1>0
    <3>2. f[n - 1].p = n
      BY <2>2, <3>1
    <3>3. Wrote(n)
      BY <1>5, <1>7, <3>1, <3>2
    <3> QED
      BY <3>1, <3>2, <3>3
  <2> HIDE DEF A
  <2> QED
    BY <1>0, <2>1, <2>2, Onwards
<1> DEFINE at == [n \in 0..L |-> Len(f[n].target)]
<1>9. CodedAs(code, id, at)
  <2>1. at \in [0..L -> Nat]
    BY <1>3
  <2>2. at[0] = 0 /\ at[L] = Len(code)
    BY <1>0, <1>2, <1>4 DEF Start
  <2>3. ASSUME NEW n \in 1..L
        PROVE  LET e == Escaped(id[n]) IN
               /\ at[n] = at[n - 1] + Len(e) /\ at[n] <= Len(code)
               /\ \A i \in 1..Len(e) : code[at[n - 1] + i] = e[i]
    <3>1. n - 1 \in 0..L /\ n \in 0..L /\ (n - 1) + 1 = n
      BY <1>0
    <3>2. f[n - 1].p = n
      BY <1>8, <3>1
    <3>3. Wrote(n)
      <4> HIDE DEF Wrote
      <4> QED
        BY <1>5, <1>7, <3>1, <3>2
    <3>4. Len(f[n].target) <= Len(code)
      BY <1>7, <3>1 DEF G, Starts
    <3>5. at[n] = Len(f[n].target) /\ at[n - 1] = Len(f[n - 1].target)
      BY <3>1
    <3> HIDE DEF at
    <3> QED
      BY <3>2, <3>3, <3>4, <3>5
  <2> HIDE DEF at
  <2> QED
    BY <2>1, <2>2, <2>3 DEF CodedAs, L
<1> QED
  BY <1>4, <1>9 DEF code, L

\* e is in code behind position k; and a turn reads it as c.
Behind(code, k, e) == k + Len(e) <= Len(code) /\ \A i \in 1..Len(e) : code[k + i] = e[i]
Reads(code, s, k, c) ==
  DecodeTurn(code, -1, MaxIdLen, s) =
    [s EXCEPT !.p = k + Len(Escaped(c)) + 1, !.target = Append(@, c)]

\* One turn of url_decode reads one byte of the id.
LEMMA DecodeTurnReads ==
  ASSUME NEW code \in Text, NEW c \in 1..255, NEW k \in Nat, NEW s \in LoopState,
         s.p = k + 1, s.r = 0, Len(s.target) < MaxIdLen, Len(s.target) \in Nat,
         Behind(code, k, Escaped(c))
  PROVE  Reads(code, s, k, c)
<1> DEFINE e == Escaped(c)
<1>0. code \in Seq(Int) /\ Len(code) \in Nat /\ MaxIdLen \in Nat
  BY OpenVideoAssumption DEF Text
<1>1. \/ Len(e) = 1 /\ e[1] = c /\ c # Plus /\ c # Percent
      \/ Len(e) = 1 /\ e[1] = Plus /\ c = Space
      \/ Len(e) = 3 /\ e[1] = Percent /\ e[2] = Hex(c \div 16) /\ e[3] = Hex(c % 16)
  BY EscapedIs
<1>2. k + Len(e) <= Len(code) /\ \A i \in 1..Len(e) : code[k + i] = e[i]
  BY DEF Behind
<1> HIDE DEF e
<1>3. code[k + 1] = e[1] /\ e[1] # NUL /\ k + 1 <= Len(code)
  <2>1. e[1] # NUL
    BY <1>1 DEF Plus, Percent, NUL
  <2>2. Len(e) \in {1, 3}
    BY <1>1
  <2>3. 1 \in 1..Len(e) /\ k + 1 <= Len(code)
    <3> DEFINE l == Len(e)  n == Len(code)
    <3>1. l \in {1, 3} /\ n \in Nat /\ k + l <= n
      BY <1>0, <1>2, <2>2
    <3> HIDE DEF l, n
    <3>2. 1 \in 1..l /\ k + 1 <= n
      BY ONLY <3>1, k \in Nat
    <3> QED
      BY <3>2 DEF l, n
  <2>4. code[k + 1] = e[1]
    BY <1>2, <2>3
  <2> QED
    BY <2>1, <2>3, <2>4
<1>4. ~ LoopEnds(code, -1, MaxIdLen, s)
  <2>1. At(code, k + 1) # NUL /\ Within(k + 1, -1)
    BY <1>3 DEF At, Within
  <2> QED
    BY <1>0, <2>1 DEF LoopEnds
<1>5. CASE Len(e) = 1 /\ ((e[1] = c /\ c # Plus /\ c # Percent) \/ (e[1] = Plus /\ c = Space))
  <2>1. code[k + 1] # Percent /\ Byte(code, k + 1) = c
    BY <1>3, <1>5 DEF Byte, Plus, Percent
  <2>2. DecodeTurn(code, -1, MaxIdLen, s) =
          [s EXCEPT !.p = @ + 1, !.target = Append(@, Byte(code, k + 1))]
    BY <1>4, <2>1 DEF DecodeTurn
  <2>3. s.p + 1 = k + Len(e) + 1
    BY <1>5
  <2> QED
    BY <2>1, <2>2, <2>3 DEF e, Reads
<1>6. CASE /\ Len(e) = 3 /\ e[1] = Percent
           /\ e[2] = Hex(c \div 16) /\ e[3] = Hex(c % 16)
  <2>1. /\ code[k + 2] = Hex(c \div 16) /\ code[k + 3] = Hex(c % 16)
        /\ k + 2 <= Len(code) /\ k + 3 <= Len(code) /\ code[k + 1] = Percent
    <3>1. 2 \in 1..Len(e) /\ 3 \in 1..Len(e) /\ k + 2 <= Len(code) /\ k + 3 <= Len(code)
      BY <1>0, <1>2, <1>6
    <3>2. code[k + 2] = e[2] /\ code[k + 3] = e[3]
      BY <1>2, <3>1
    <3> QED
      BY <1>3, <1>6, <3>1, <3>2
  <2>2. /\ char_ishex(code[k + 2]) /\ char_ishex(code[k + 3])
        /\ 16 * ToHex(code[k + 2]) + ToHex(code[k + 3]) = c
    BY <2>1, HexBack
  <2>3. (k + 1) + 1 = k + 2 /\ (k + 1) + 2 = k + 3 /\ s.p + 3 = k + Len(e) + 1
    BY <1>6
  <2>4. ~ Malformed(code, k + 1, -1)
    <3>1. At(code, k + 2) = code[k + 2] /\ At(code, k + 3) = code[k + 3]
      BY <2>1 DEF At
    <3> QED
      BY <2>2, <2>3, <3>1 DEF Malformed, Within
  <2>5. Byte(code, k + 1) = c
    BY <2>1, <2>2, <2>3 DEF Byte, Plus, Percent
  <2>6. DecodeTurn(code, -1, MaxIdLen, s) =
          [s EXCEPT !.p = @ + 3, !.target = Append(@, Byte(code, k + 1))]
    BY <1>4, <2>1, <2>4 DEF DecodeTurn
  <2> QED
    BY <2>3, <2>5, <2>6 DEF e, Reads
<1>7. \/ Len(e) = 1 /\ ((e[1] = c /\ c # Plus /\ c # Percent) \/ (e[1] = Plus /\ c = Space))
      \/ Len(e) = 3 /\ e[1] = Percent /\ e[2] = Hex(c \div 16) /\ e[3] = Hex(c % 16)
  BY <1>1, Zenon
<1> QED
  BY ONLY <1>5, <1>6, <1>7, Zenon

\* Where the bytes of the id begin: each takes at least one of the code.
LEMMA CodeLength ==
  ASSUME NEW id \in Ids, NEW code \in Text, NEW at, CodedAs(code, id, at)
  PROVE  \A n \in 0..Len(id) : at[n] \in Nat /\ n <= at[n] /\ at[n] <= Len(code)
<1> DEFINE L == Len(id)  G == {n \in 0..L : n <= at[n]}
<1>1. L \in Nat /\ Len(code) \in Nat /\ \A n \in 1..L : id[n] \in 1..255
  BY IdText DEF Text
<1>2. at[0] = 0 /\ \A n \in 0..L : at[n] \in Nat
  BY DEF CodedAs
<1>3. \A n \in 1..L : /\ Len(Escaped(id[n])) \in {1, 3}
                      /\ at[n] = at[n - 1] + Len(Escaped(id[n])) /\ at[n] <= Len(code)
  <2>1. \A c \in 1..255 : Len(Escaped(c)) \in {1, 3}
    BY EscapedText
  <2> QED
    BY <1>1, <2>1 DEF CodedAs
<1> HIDE DEF L
<1>4. 0 \in G
  BY <1>1, <1>2
<1>5. ASSUME NEW n \in 1..L, n - 1 \in G PROVE n \in G
  <2>1. n \in 0..L /\ n - 1 \in 0..L /\ n - 1 <= at[n - 1] /\ at[n - 1] \in Nat
    BY <1>1, <1>2, <1>5
  <2> DEFINE l == Len(Escaped(id[n]))
  <2>2. l \in {1, 3} /\ at[n] = at[n - 1] + l
    BY <1>3
  <2> HIDE DEF l
  <2>3. n <= at[n]
    BY <2>1, <2>2
  <2> QED
    BY <2>1, <2>3
<1>6. \A n \in 0..L : n \in G
  <2> HIDE DEF G
  <2> QED
    BY <1>1, <1>4, <1>5, Onwards
<1>7. \A n \in 0..L : n = 0 \/ n \in 1..L
  BY <1>1
<1> QED
  BY <1>1, <1>2, <1>3, <1>6, <1>7 DEF L

\* And url_decode makes the id of the code.
LEMMA DecodesAll ==
  ASSUME NEW id \in Ids, Len(id) < MaxIdLen, NEW code \in Text, NEW at, CodedAs(code, id, at)
  PROVE  url_decode(code, -1, MaxIdLen).target = id
<1> DEFINE L == Len(id)  N == Len(code)
           Been(n) == [p |-> at[n] + 1, r |-> 0, target |-> SubSeq(id, 1, n)]
<1>0. /\ id \in Text /\ L \in Nat /\ MaxIdLen \in Nat /\ L < MaxIdLen
      /\ \A p \in 1..L : id[p] \in 1..255
  BY IdText, OpenVideoAssumption
<1>1. /\ N \in Nat
      /\ \A n \in 0..L : at[n] \in Nat /\ n <= at[n] /\ at[n] <= N
      /\ at[0] = 0 /\ at[L] = N
  <2>1. \A n \in 0..L : at[n] \in Nat /\ n <= at[n] /\ at[n] <= N
    BY CodeLength
  <2>2. at[0] = 0 /\ at[L] = N
    BY DEF CodedAs
  <2>3. N \in Nat
    BY DEF Text
  <2> QED
    BY <2>1, <2>2, <2>3
<1>2. PICK f : Decodes(f, code, -1, MaxIdLen)
  BY Decoding
<1>3. /\ f \in [0..N -> LoopState] /\ f[0] = Start
      /\ \A n \in 1..N : f[n] = DecodeTurn(code, -1, MaxIdLen, f[n - 1])
      /\ url_decode(code, -1, MaxIdLen) = f[N]
  BY <1>2 DEF Decodes
<1>4. SubSeq(id, 1, 0) = <<>> /\ SubSeq(id, 1, L) = id
  BY <1>0 DEF Text
<1>5. L <= N
  BY <1>0, <1>1
<1>6. \A n \in 1..L : LET e == Escaped(id[n]) IN
        /\ at[n] = at[n - 1] + Len(e) /\ at[n] <= N
        /\ \A i \in 1..Len(e) : code[at[n - 1] + i] = e[i]
  BY DEF CodedAs
<1> HIDE DEF L, N
<1> DEFINE G == {n \in 0..L : f[n] = Been(n)}
<1>7. 0 \in G
  <2>1. Been(0) = [p |-> 1, r |-> 0, target |-> <<>>]
    BY <1>1, <1>4
  <2>2. f[0] = Been(0)
    BY <1>3, <2>1 DEF Start
  <2> HIDE DEF Been
  <2> QED
    BY <1>0, <2>2
<1>8. ASSUME NEW n \in 1..L, n - 1 \in G PROVE n \in G
  <2> DEFINE s == f[n - 1]  c == id[n]  k == at[n - 1]  l == Len(Escaped(c))
             a == SubSeq(id, 1, n - 1)
  <2>1. n - 1 \in 0..N /\ n - 1 \in Nat /\ n \in 0..L /\ n \in 1..N /\ n - 1 \in 0..L
        /\ (n - 1) + 1 = n /\ n - 1 < L /\ n - 1 < MaxIdLen
    BY <1>0, <1>1, <1>5
  <2>2. s \in LoopState /\ s.p = k + 1 /\ s.r = 0 /\ s.target = a
    BY <1>3, <1>8, <2>1
  <2>3. Len(a) = n - 1 /\ Append(a, c) = SubSeq(id, 1, n)
    BY <1>0, <2>1, OneMore DEF L
  <2>4. /\ c \in 1..255 /\ k \in Nat /\ at[n] = k + l /\ k + l <= N
        /\ \A i \in 1..l : code[k + i] = Escaped(c)[i]
    <3>1. c \in 1..255 /\ k \in Nat
      BY <1>0, <1>1, <2>1
    <3>2. at[n] = k + l /\ at[n] <= N /\ \A i \in 1..l : code[k + i] = Escaped(c)[i]
      BY <1>6
    <3> QED
      BY <3>1, <3>2
  <2>5. f[n] = DecodeTurn(code, -1, MaxIdLen, s)
    BY <1>3, <2>1
  <2> HIDE DEF s, c, k, a, G
  <2>6. DecodeTurn(code, -1, MaxIdLen, s) = [s EXCEPT !.p = k + l + 1, !.target = Append(@, c)]
    <3>1. Len(s.target) < MaxIdLen /\ Len(s.target) \in Nat
      BY <2>1, <2>2, <2>3
    <3> QED
      <4>1. /\ code \in Text /\ c \in 1..255 /\ k \in Nat /\ s \in LoopState
            /\ s.p = k + 1 /\ s.r = 0 /\ Behind(code, k, Escaped(c))
        BY <2>2, <2>4 DEF N, l, Behind
      <4>2. Reads(code, s, k, c)
        BY ONLY <3>1, <4>1, DecodeTurnReads
      <4> QED
        BY ONLY <4>2 DEF l, Reads
  <2> DEFINE b == SubSeq(id, 1, n)  q == at[n] + 1
  <2>7. Append(s.target, c) = b /\ k + l + 1 = q
    BY <2>2, <2>3, <2>4
  <2> HIDE DEF b, q, l
  <2>8. f[n] = [s EXCEPT !.p = q, !.target = b]
    BY <2>5, <2>6, <2>7
  <2>9. f[n] = [p |-> q, r |-> 0, target |-> b]
    BY <2>2, <2>8 DEF LoopState
  <2> QED
    BY <2>1, <2>9 DEF G, b, q
<1> HIDE DEF Been
<1>9. \A n \in 0..L : n \in G
  <2> HIDE DEF G
  <2> QED
    BY <1>0, <1>7, <1>8, Onwards
\* The source is used up: nothing changes any more.
<1>10. LoopEnds(code, -1, MaxIdLen, Been(L))
  <2>1. Been(L).p = N + 1
    BY <1>1 DEF Been
  <2>2. ~ (N + 1 <= Len(code))
    BY <1>1 DEF N
  <2> QED
    BY <2>1, <2>2 DEF LoopEnds, At
<1> DEFINE E == {m \in 0..(N - L) : f[L + m] = Been(L)}
<1>11. 0 \in E
  <2>1. L \in 0..L /\ L + 0 = L /\ 0 \in 0..(N - L)
    BY <1>0, <1>1, <1>5
  <2> QED
    BY <1>9, <2>1
<1>12. ASSUME NEW m \in 1..(N - L), m - 1 \in E PROVE m \in E
  <2>1. L + m \in 1..N /\ (L + m) - 1 = L + (m - 1) /\ m \in 0..(N - L)
    BY <1>0, <1>1, <1>12
  <2>2. f[L + m] = DecodeTurn(code, -1, MaxIdLen, Been(L))
    BY <1>3, <1>12, <2>1
  <2>3. f[L + m] = Been(L)
    BY <1>10, <2>2 DEF DecodeTurn
  <2> QED
    BY <2>1, <2>3
<1>13. f[N] = Been(L)
  <2>1. N - L \in Nat /\ N - L \in 0..(N - L) /\ L + (N - L) = N
    BY <1>0, <1>1, <1>5
  <2>2. \A m \in 0..(N - L) : m \in E
    <3> HIDE DEF E
    <3> QED
      BY <1>11, <1>12, <2>1, Onwards
  <2> QED
    BY <2>1, <2>2
<1>14. Been(L).target = SubSeq(id, 1, L)
  BY DEF Been
<1> QED
  BY <1>3, <1>4, <1>13, <1>14

\* What url_encode makes of an id, url_decode turns back into it.
THEOREM ThereAndBack ==
  ASSUME NEW id \in Ids, Len(id) < MaxIdLen, NEW room \in Nat
  PROVE  LET coded == url_encode(id, Len(id), room) IN
         /\ Len(coded.target) <= room
         /\ coded.r = 0 /\ Len(coded.target) < room =>
              url_decode(coded.target, -1, MaxIdLen).target = id
<1> DEFINE coded == url_encode(id, Len(id), room)
<1>1. Len(coded.target) <= room
  <2>1. id \in Text /\ Len(id) \in 0..Len(id)
    <3>1. id \in Text /\ Len(id) \in Nat
      BY IdText
    <3> QED
      BY <3>1
  <2>2. PICK f : Encodes(f, id, Len(id), room)
    BY <2>1, Encoding
  <2>3. coded = f[Len(id)]
    BY <2>2 DEF Encodes
  <2> QED
    BY <2>1, <2>2, <2>3, EncodeFits
<1>2. ASSUME coded.r = 0, Len(coded.target) < room
      PROVE  url_decode(coded.target, -1, MaxIdLen).target = id
  <2>1. coded.target \in Text /\ \E at : CodedAs(coded.target, id, at)
    BY <1>2, EncodesAll
  <2> HIDE DEF coded
  <2>2. PICK at : CodedAs(coded.target, id, at)
    BY <2>1
  <2> QED
    BY <2>1, <2>2, DecodesAll
<1> QED
  BY <1>1, <1>2

-----------------------------------------------------------------------------
(* The description.                                                          *)

\* What a search returns of its hits: the least, or 0.
First(S) == IF S = {} THEN 0 ELSE CHOOSE k \in S : \A j \in S : k <= j

\* A hit that no hit precedes is the one.
LEMMA FirstIs ==
  ASSUME NEW S, S \subseteq Nat, NEW x \in S, \A y \in S : y <= x => y = x
  PROVE  First(S) = x
<1> DEFINE c == CHOOSE k \in S : \A j \in S : k <= j
<1>1. c \in S /\ \A j \in S : c <= j
  BY LeastChosen
<1>2. First(S) = c
  BY DEF First
<1> QED
  BY <1>1, <1>2

\* What is found is one of the hits, or nothing.
LEMMA FirstWithin ==
  ASSUME NEW n \in Nat, NEW S, S \subseteq 0..n
  PROVE  First(S) \in 0..n
<1>1. CASE S = {}
  BY <1>1 DEF First
<1>2. CASE S # {}
  <2> DEFINE c == CHOOSE k \in S : \A j \in S : k <= j
  <2>1. S \subseteq Nat
    OBVIOUS
  <2>2. c \in S
    BY <1>2, <2>1, LeastChosen
  <2>3. First(S) = c
    BY <1>2 DEF First
  <2> QED
    BY <2>2, <2>3
<1> QED
  BY <1>1, <1>2

\* The searches of analysis_sdp_info.
LEMMA SearchesAre ==
  ASSUME NEW sdp
  PROVE  LET Of(from, kinds) == {j \in from..Len(sdp.lines) : sdp.lines[j].kind \in kinds} IN
         /\ VideoAt(sdp) = First(Of(1, {"m=video"}))
         /\ RtpmapAt(sdp) = First(Of(VideoAt(sdp), {"a=rtpmap", "a=rtpmap_audio"}))
         /\ RateAt(sdp) =
              First({j \in RtpmapAt(sdp)..Len(sdp.lines) : sdp.lines[j].rate # None})
         /\ FmtpAt(sdp) = First(Of(RtpmapAt(sdp), {"a=fmtp"}))
<1> DEFINE Of(from, kinds) == {j \in from..Len(sdp.lines) : sdp.lines[j].kind \in kinds}
           One(from, kind) == {j \in from..Len(sdp.lines) : sdp.lines[j].kind = kind}
<1>1. \A from, kind : One(from, kind) = Of(from, {kind})
  OBVIOUS
<1>2. VideoAt(sdp) = First(One(1, "m=video"))
  BY DEF VideoAt, Find, Hits, First
<1>3. RtpmapAt(sdp) = First(Of(VideoAt(sdp), {"a=rtpmap", "a=rtpmap_audio"}))
  BY DEF RtpmapAt, Find, Hits, First
<1>4. RateAt(sdp) = First({j \in RtpmapAt(sdp)..Len(sdp.lines) : sdp.lines[j].rate # None})
  BY DEF RateAt, Find, Hits, First
<1>5. FmtpAt(sdp) = First(One(RtpmapAt(sdp), "a=fmtp"))
  BY DEF FmtpAt, Find, Hits, First
<1> HIDE DEF One, Of
<1>6. One(1, "m=video") = Of(1, {"m=video"})
      /\ One(RtpmapAt(sdp), "a=fmtp") = Of(RtpmapAt(sdp), {"a=fmtp"})
  BY <1>1
<1> QED
  BY <1>2, <1>3, <1>4, <1>5, <1>6 DEF Of

\* In a customary description they find the lines of the video section.
LEMMA CustomaryFinds ==
  ASSUME NEW sdp, sdp.lines \in Seq(SdpLine), Customary(sdp)
  PROVE  \E k, r, f \in 1..Len(sdp.lines) :
           /\ VideoAt(sdp) = k /\ RtpmapAt(sdp) = r /\ RateAt(sdp) = r /\ FmtpAt(sdp) = f
           /\ sdp.lines[k].kind = "m=video" /\ sdp.lines[r].kind = "a=rtpmap"
           /\ sdp.lines[f].kind = "a=fmtp"
           /\ r \in Section(sdp, k) /\ f \in Section(sdp, k)
           /\ \A j \in Section(sdp, k) :
                /\ sdp.lines[j].kind = "a=rtpmap" => j = r
                /\ sdp.lines[j].kind = "a=fmtp"   => j = f
<1> DEFINE lines == sdp.lines  N == Len(lines)
           rtpmap == {"a=rtpmap", "a=rtpmap_audio"}
<1>0. N \in Nat /\ DOMAIN lines = 1..N
  OBVIOUS
<1>1. PICK k \in 1..N :
        /\ lines[k].kind = "m=video"
        /\ \A j \in 1..N : lines[j].kind = "m=video" => j = k
        /\ \E r, f \in Section(sdp, k) :
            /\ r < f
            /\ lines[r].kind = "a=rtpmap" /\ lines[r].rate # None
            /\ lines[f].kind = "a=fmtp"
            /\ \A j \in Section(sdp, k) :
                 /\ lines[j].kind \in rtpmap => j = r
                 /\ lines[j].kind = "a=fmtp"   => j = f
  BY <1>0 DEF Customary
<1>2. PICK r \in Section(sdp, k), f \in Section(sdp, k) :
            /\ r < f
            /\ lines[r].kind = "a=rtpmap" /\ lines[r].rate # None
            /\ lines[f].kind = "a=fmtp"
            /\ \A j \in Section(sdp, k) :
                 /\ lines[j].kind \in rtpmap => j = r
                 /\ lines[j].kind = "a=fmtp"   => j = f
  BY <1>1
<1>3. Section(sdp, k) = {j \in k..N : \A i \in (k + 1)..j : ~ IsMedia(lines[i])}
  BY DEF Section
<1> HIDE DEF lines, N
<1>4. k \in Nat \ {0} /\ k <= N /\ r \in k..N /\ f \in k..N /\ r \in 1..N /\ f \in 1..N /\ r <= f
  BY <1>0, <1>1, <1>2, <1>3
\* A section has no gaps.
<1>5. ASSUME NEW g \in Section(sdp, k), NEW j \in k..N, j <= g PROVE j \in Section(sdp, k)
  <2>1. g \in k..N /\ \A i \in (k + 1)..g : ~ IsMedia(lines[i])
    BY <1>3
  <2>2. \A i \in (k + 1)..j : i \in (k + 1)..g
    BY <1>0, <1>4, <1>5, <2>1
  <2> QED
    BY <1>3, <2>1, <2>2
<1>6. VideoAt(sdp) = k
  <2> DEFINE S == {j \in 1..N : lines[j].kind \in {"m=video"}}
  <2>1. S \subseteq Nat /\ k \in S /\ \A y \in S : y = k
    BY <1>0, <1>1
  <2>2. VideoAt(sdp) = First(S)
    BY SearchesAre DEF lines, N
  <2> HIDE DEF S
  <2> QED
    BY <2>1, <2>2, FirstIs
<1>7. RtpmapAt(sdp) = r
  <2> DEFINE S == {j \in k..N : lines[j].kind \in rtpmap}
  <2>1. S \subseteq Nat /\ r \in S
    BY <1>0, <1>2, <1>4
  <2>2. ASSUME NEW y \in S, y <= r PROVE y = r
    <3>1. y \in Section(sdp, k)
      BY <1>5, <2>2
    <3> QED
      BY <1>2, <3>1
  <2>3. RtpmapAt(sdp) = First(S)
    BY <1>6, SearchesAre DEF lines, N
  <2> HIDE DEF S
  <2> QED
    BY <2>1, <2>2, <2>3, FirstIs
<1>8. RateAt(sdp) = r
  <2> DEFINE S == {j \in r..N : lines[j].rate # None}
  <2>1. S \subseteq Nat /\ r \in S /\ \A y \in S : y <= r => y = r
    BY <1>0, <1>2, <1>4
  <2>2. RateAt(sdp) = First(S)
    BY <1>7, SearchesAre DEF lines, N
  <2> HIDE DEF S
  <2> QED
    BY <2>1, <2>2, FirstIs
<1>9. FmtpAt(sdp) = f
  <2> DEFINE S == {j \in r..N : lines[j].kind \in {"a=fmtp"}}
  <2>1. S \subseteq Nat /\ f \in S
    BY <1>0, <1>2, <1>4
  <2>2. ASSUME NEW y \in S, y <= f PROVE y = f
    <3>1. y \in k..N
      BY <1>0, <1>4
    <3>2. y \in Section(sdp, k)
      BY <1>5, <2>2, <3>1
    <3> QED
      BY <1>2, <3>2
  <2>3. FmtpAt(sdp) = First(S)
    BY <1>7, SearchesAre DEF lines, N
  <2> HIDE DEF S
  <2> QED
    BY <2>1, <2>2, <2>3, FirstIs
<1>10. \A j \in Section(sdp, k) : (lines[j].kind = "a=rtpmap" => j = r)
                                  /\ (lines[j].kind = "a=fmtp" => j = f)
  BY <1>2
<1>11. k \in 1..N /\ r \in 1..N /\ f \in 1..N /\ r \in Section(sdp, k) /\ f \in Section(sdp, k)
       /\ lines[k].kind = "m=video" /\ lines[r].kind = "a=rtpmap" /\ lines[f].kind = "a=fmtp"
  BY <1>1, <1>2, <1>4
<1> QED
  BY ONLY <1>6, <1>7, <1>8, <1>9, <1>10, <1>11, Zenon DEF lines, N

\* The searches for the audio lines give a line, or none.
LEMMA AudioPlaces ==
  ASSUME NEW sdp, sdp.lines \in Seq(SdpLine)
  PROVE  AudioAt(sdp) \in 0..Len(sdp.lines) /\ RtpmapAudioAt(sdp) \in 0..Len(sdp.lines)
<1>1. PICK n : n = Len(sdp.lines)
  OBVIOUS
<1>2. n \in Nat
  BY <1>1
<1>3. AudioAt(sdp) \in 0..n
  <2>1. PICK S : S = {k \in 1..n : sdp.lines[k].kind = "m=audio"}
    OBVIOUS
  <2>2. S \subseteq 1..n /\ AudioAt(sdp) = First(S)
    BY <1>1, <2>1 DEF AudioAt, Find, Hits, First
  <2>3. S \subseteq 0..n
    BY <1>2, <2>2
  <2> QED
    BY ONLY <1>2, <2>2, <2>3, FirstWithin
<1>4. RtpmapAudioAt(sdp) \in 0..n
  <2>1. PICK a : a = AudioAt(sdp)
    OBVIOUS
  <2>2. a \in Nat
    BY <1>2, <1>3, <2>1
  <2>3. PICK S : S = {k \in a..n : sdp.lines[k].kind = "a=rtpmap_audio"}
    OBVIOUS
  <2>4. S \subseteq 0..n
    BY <1>2, <2>2, <2>3
  <2>5. RtpmapAudioAt(sdp) = First(S)
    BY <1>1, <2>1, <2>3 DEF RtpmapAudioAt, Find, Hits, First
  <2> QED
    BY <1>2, <2>4, <2>5, FirstWithin
<1> QED
  BY <1>1, <1>3, <1>4

\* So that where every line leaves its field room for the NUL, it breaks nothing and its
\* viewers are told the video section.
THEOREM CustomaryTold ==
  ASSUME NEW sdp, sdp.lines \in Seq(SdpLine), Customary(sdp)
  PROVE  ~ Breaks(sdp) /\ Described(sdp, analysis_sdp_info(sdp, NoFields))
<1> DEFINE lines == sdp.lines  N == Len(lines)
<1>0. N \in Nat /\ DOMAIN lines = 1..N
  OBVIOUS
<1>1. PICK k \in 1..N, r \in 1..N, f \in 1..N :
           /\ VideoAt(sdp) = k /\ RtpmapAt(sdp) = r /\ RateAt(sdp) = r /\ FmtpAt(sdp) = f
           /\ lines[k].kind = "m=video" /\ lines[r].kind = "a=rtpmap"
           /\ lines[f].kind = "a=fmtp"
           /\ r \in Section(sdp, k) /\ f \in Section(sdp, k)
           /\ \A j \in Section(sdp, k) :
                /\ lines[j].kind = "a=rtpmap" => j = r
                /\ lines[j].kind = "a=fmtp"   => j = f
  BY CustomaryFinds
<1>2. \A j \in 1..N : Taken(sdp, j)
  BY <1>0 DEF Customary, Ended, Taken
<1>3. k # 0 /\ r # 0 /\ f # 0
  BY <1>0
<1>9. AudioAt(sdp) \in 0..N /\ RtpmapAudioAt(sdp) \in 0..N
  BY AudioPlaces
<1>4. ~ Breaks(sdp)
  BY <1>1, <1>2, <1>3, <1>9 DEF Breaks
<1> DEFINE v == VideoFields(sdp, NoFields)  F == analysis_sdp_info(sdp, NoFields)
<1>5. /\ v.m_video = lines[k].text /\ v.a_rtpmap_video = lines[r].text
      /\ v.iVideoFrameRate = lines[r].rate /\ v.a_fmtp_video = lines[f].text
      /\ DOMAIN v = DOMAIN NoFields
  BY <1>1, <1>3 DEF VideoFields, NoFields, Copied
<1>6. F.m_video = v.m_video /\ F.a_rtpmap_video = v.a_rtpmap_video
      /\ F.iVideoFrameRate = v.iVideoFrameRate /\ F.a_fmtp_video = v.a_fmtp_video
  BY <1>5 DEF analysis_sdp_info, AudioFields, NoFields
<1> HIDE DEF F, v, lines
<1>7. Gives(sdp, k, "a=rtpmap", lines[r].text) /\ Gives(sdp, k, "a=fmtp", lines[f].text)
  BY <1>1 DEF Gives, lines
<1>8. Described(sdp, F)
  BY <1>0, <1>1, <1>5, <1>6, <1>7 DEF Described, lines
<1> QED
  BY <1>4, <1>8 DEF F

-----------------------------------------------------------------------------
(* The inductive invariant.                                                  *)

\* What a node is told of an answer's description.
Told(a) == analysis_sdp_info(a.sdp, NoFields)
Tellings == {NoFields} \cup {Told(a) : a \in {b \in Answers : ~ Breaks(b.sdp)}}

Node ==
  [id : DOMAIN Rows, stream : {r.stream : r \in Requests},
   status : Statuses, phase : Phases,
   main : Text, sub : Text, user : Text, passwd : Text, realm : Text, nonce : Text,
   sdp : Tellings,
   url : Text, response : Text, answer : Answers \cup {NoAnswer}, intact : BOOLEAN]

\* The id came with a request.
Asked(n) == n.id \in Ids /\ Len(n.id) < MaxIdLen

\* The challenge of this node is met, where it can be.
Met(n) ==
  /\ n.intact /\ FitsMsgBuf(n) /\ FitsFields(n)
  /\ n.answer.realm # <<>> /\ n.answer.nonce # <<>>
  => n.response = Expected(n.user, n.passwd, n.answer.realm, n.answer.nonce,
                           WordDescribe, n.url)

\* While the exchange lasts the node has no description, and only its answer
\* connects it.
NodeOk(n) ==
  /\ n \in Node
  /\ n.phase = "connecting" => Asked(n)
  /\ n.phase \in {"connecting", "basic", "digest"} => n.status = "CONNECTING" /\ n.sdp = NoFields
  /\ n.phase = "digest" => n.answer \in Answers /\ Met(n)
  /\ n.status = "CONNECTED" =>
       n.answer \in Answers /\ ~ Breaks(n.answer.sdp) /\ n.sdp = Told(n.answer)

\* Listed nodes with one plain id and one stream are one node.
Alone ==
  \A j, k \in listed :
    nodes[j].id = nodes[k].id /\ nodes[j].stream = nodes[k].stream /\ Plain(nodes[j].id) => j = k

Odd == \E k \in 1..Len(nodes) : ~ Customary(nodes[k].answer.sdp)

OInv ==
  /\ nodes \in Seq(Node) /\ Len(nodes) <= MaxNodes
  /\ \A k \in 1..Len(nodes) : NodeOk(nodes[k])
  /\ listed \subseteq 1..Len(nodes)
  /\ \A k \in listed : nodes[k].status # "DISCONNECT"
  /\ Alone
  /\ fault \in {"none", "load_device_ip_port_cb", "get_realm_and_nonce", "analysis_sdp_info"}
  /\ fault = "analysis_sdp_info" => Odd

\* One node of a sequence is replaced.
LEMMA OneChanged ==
  ASSUME NEW S, NEW s \in Seq(S), NEW k \in 1..Len(s), NEW m \in S, NEW t,
         t = [s EXCEPT ![k] = m]
  PROVE  /\ t \in Seq(S) /\ Len(t) = Len(s) /\ t[k] = m
         /\ \A j \in 1..Len(s) : j # k => t[j] = s[j]
  OBVIOUS

\* One node is added.
LEMMA OneAdded ==
  ASSUME NEW S, NEW s \in Seq(S), NEW m \in S, NEW t, t = Append(s, m)
  PROVE  /\ t \in Seq(S) /\ Len(s) \in Nat /\ Len(t) = Len(s) + 1 /\ t[Len(s) + 1] = m
         /\ \A j \in 1..Len(s) : t[j] = s[j]
  OBVIOUS

\* A step that changes one node, and unlists it or nothing.
LEMMA OneStep ==
  ASSUME OInv, NEW k \in 1..Len(nodes), NEW m, NodeOk(m), nodes' = [nodes EXCEPT ![k] = m],
         m.id = nodes[k].id, m.stream = nodes[k].stream,
         listed' \subseteq listed, k \in listed' => m.status # "DISCONNECT",
         fault' \in {"none", "get_realm_and_nonce", "analysis_sdp_info"},
         fault' = "analysis_sdp_info" => ~ Customary(m.answer.sdp)
  PROVE  OInv'
<1> DEFINE N == Len(nodes)  t == nodes'
<1>1. m \in Node /\ nodes \in Seq(Node) /\ N \in Nat /\ N <= MaxNodes
      /\ (\A j \in 1..N : NodeOk(nodes[j]))
      /\ listed \subseteq 1..N
      /\ (\A j \in listed : nodes[j].status # "DISCONNECT")
  BY DEF OInv, NodeOk
<1> HIDE DEF t
<1>2. /\ t \in Seq(Node) /\ Len(t) = N /\ t[k] = m
      /\ \A j \in 1..N : j # k => t[j] = nodes[j]
  BY <1>1, OneChanged DEF t
<1> HIDE DEF N
<1>3. k \in 1..N
  BY DEF N
<1>4. \A j \in 1..Len(t) : NodeOk(t[j])
  BY <1>1, <1>2
<1>5. \A j \in listed' : t[j].status # "DISCONNECT"
  BY <1>1, <1>2
<1>6. ASSUME NEW i \in listed', NEW j \in listed', t[i].id = t[j].id, t[i].stream = t[j].stream,
             Plain(t[i].id)
      PROVE  i = j
  <2>1. \A l \in 1..N : t[l].id = nodes[l].id /\ t[l].stream = nodes[l].stream
    BY <1>2
  <2>2. i \in 1..N /\ j \in 1..N /\ i \in listed /\ j \in listed
    BY <1>1
  <2> QED
    BY <1>6, <2>1, <2>2 DEF OInv, Alone
<1>7. fault' = "analysis_sdp_info" => ~ Customary(t[k].answer.sdp)
  BY <1>2
<1> QED
  <2>1. Alone'
    BY <1>6 DEF Alone, t
  <2>2. fault' = "analysis_sdp_info" => Odd'
    BY <1>2, <1>3, <1>7 DEF Odd, t
  <2>3. nodes' \in Seq(Node) /\ Len(nodes') <= MaxNodes /\ listed' \subseteq 1..Len(nodes')
        /\ (\A j \in 1..Len(nodes') : NodeOk(nodes'[j]))
        /\ (\A j \in listed' : nodes'[j].status # "DISCONNECT")
    BY <1>1, <1>2, <1>4, <1>5 DEF t
  <2> QED
    BY <2>1, <2>2, <2>3 DEF OInv

-----------------------------------------------------------------------------
(* One action after the other.                                               *)

\* The URL of the next DESCRIBE is one the node has.
LEMMA UrlText ==
  ASSUME NEW n \in Node
  PROVE  DescribeUrl(n) \in Text
<1>1. n.main \in Text /\ n.sub \in Text
  BY DEF Node
<1> QED
  BY <1>1 DEF DescribeUrl

\* The camera is there, and asked for its description.
LEMMA ConnectedKeeps ==
  ASSUME OInv, NEW k \in 1..Len(nodes), Connected(k)
  PROVE  OInv'
<1> DEFINE n == nodes[k]  u == DescribeUrl(n)  m == [n EXCEPT !.phase = "basic", !.url = u]
<1>1. NodeOk(n) /\ n \in Node /\ u \in Text /\ nodes \in Seq(Node)
  BY UrlText DEF OInv, NodeOk
<1>2. n.phase = "connecting" /\ fault' = "none" /\ listed' = listed
  BY DEF Connected, Runs
<1>3. nodes' = [nodes EXCEPT ![k] = m]
  <2>1. nodes' = [nodes EXCEPT ![k].phase = "basic", ![k].url = u]
    BY DEF Connected
  <2> QED
    BY <1>1, <2>1
<1>4. k \in listed' => m.status # "DISCONNECT"
  BY <1>1, <1>2 DEF OInv, Node
<1> HIDE DEF n, u
<1>5. m \in Node /\ m.id = n.id /\ m.stream = n.stream /\ m.status = n.status /\ m.sdp = n.sdp
      /\ m.phase = "basic"
  BY <1>1 DEF Node, Phases
<1> HIDE DEF m
<1>6. NodeOk(m)
  BY <1>1, <1>2, <1>5 DEF NodeOk
<1> QED
  BY <1>2, <1>3, <1>4, <1>5, <1>6, OneStep DEF n

\* The camera is lost, in whatever phase.
LEMMA LostKeeps ==
  ASSUME OInv, NEW k \in 1..Len(nodes), Lost(k)
  PROVE  OInv'
<1> DEFINE n == nodes[k]  m == [n EXCEPT !.phase = "closed", !.status = "DISCONNECT"]
<1>1. n \in Node /\ nodes \in Seq(Node)
  BY DEF OInv, NodeOk
<1>2. fault' = "none" /\ listed' = listed \ {k}
  BY DEF Lost, Runs, Unlisted
<1>3. nodes' = [nodes EXCEPT ![k] = m]
  <2>1. nodes' = [nodes EXCEPT ![k].phase = "closed", ![k].status = "DISCONNECT"]
    BY DEF Lost
  <2> QED
    BY <1>1, <2>1
<1> HIDE DEF n
<1>4. m \in Node /\ m.id = n.id /\ m.stream = n.stream /\ m.status = "DISCONNECT"
      /\ m.phase = "closed"
  BY <1>1 DEF Node, Phases, Statuses
<1> HIDE DEF m
<1>5. NodeOk(m)
  BY <1>4 DEF NodeOk
<1> QED
  BY <1>2, <1>3, <1>4, <1>5, OneStep DEF n

\* The exchange is given up.
LEMMA GiveUpKeeps ==
  ASSUME OInv, NEW k \in 1..Len(nodes), nodes[k].phase \in {"basic", "digest"}, fault = "none",
         GiveUp(k)
  PROVE  OInv'
<1> DEFINE n == nodes[k]  m == [n EXCEPT !.phase = "closed"]
<1>1. NodeOk(n) /\ n \in Node /\ nodes \in Seq(Node)
  BY DEF OInv, NodeOk
<1>2. fault' = "none" /\ listed' = listed
  BY DEF GiveUp
<1>3. nodes' = [nodes EXCEPT ![k] = m]
  BY DEF GiveUp
<1>4. n.phase \in {"basic", "digest"}
  OBVIOUS
<1> HIDE DEF n
<1>5. m \in Node /\ m.id = n.id /\ m.stream = n.stream /\ m.status = n.status
      /\ m.phase = "closed"
  BY <1>1 DEF Node, Phases
<1> HIDE DEF m
<1>6. NodeOk(m) /\ m.status # "DISCONNECT"
  BY <1>1, <1>4, <1>5 DEF NodeOk
<1> QED
  BY <1>2, <1>3, <1>5, <1>6, OneStep DEF n

\* The description is gone through, or breaks the callback: not a customary one.
LEMMA DescribeKeeps ==
  ASSUME OInv, NEW k \in 1..Len(nodes), nodes[k].phase \in {"basic", "digest"}, fault = "none",
         NEW a \in Answers, NEW intact \in BOOLEAN, Describe(k, a, intact)
  PROVE  OInv'
<1> DEFINE n == nodes[k]
           heard == [n EXCEPT !.phase = "closed", !.answer = a, !.intact = intact]
           f     == Told(a)
           told  == [heard EXCEPT !.sdp = f, !.status = "CONNECTED"]
<1>1. NodeOk(n) /\ n \in Node /\ nodes \in Seq(Node) /\ n.phase \in {"basic", "digest"}
  BY DEF OInv, NodeOk
<1>2. n.status = "CONNECTING" /\ n.sdp = NoFields
  BY <1>1 DEF NodeOk
<1> HIDE DEF n
<1>3. /\ heard \in Node /\ heard.id = n.id /\ heard.stream = n.stream
      /\ heard.status = "CONNECTING" /\ heard.sdp = NoFields /\ heard.answer = a
      /\ heard.phase = "closed"
  BY <1>1, <1>2 DEF Node, Phases
<1>4. CASE Breaks(a.sdp)
  <2>1. nodes' = [nodes EXCEPT ![k] = heard] /\ fault' = "analysis_sdp_info" /\ listed' = listed
    BY <1>4 DEF Describe, Fault, n
  <2>2. ~ Customary(a.sdp)
    BY <1>4, CustomaryTold, AnswersAssumption
  <2> HIDE DEF heard
  <2>3. NodeOk(heard) /\ heard.status # "DISCONNECT"
    BY <1>3 DEF NodeOk
  <2> QED
    BY <1>3, <2>1, <2>2, <2>3, OneStep DEF n
<1>5. CASE ~ Breaks(a.sdp)
  <2>1. nodes' = [nodes EXCEPT ![k] = told] /\ fault' = "none" /\ listed' = listed
    BY <1>3, <1>5 DEF Describe, Told, n
  <2>2. f \in Tellings /\ "CONNECTED" \in Statuses
    BY <1>5 DEF Tellings, Statuses
  <2> HIDE DEF heard, f
  <2>3. /\ told \in Node /\ told.id = n.id /\ told.stream = n.stream
        /\ told.status = "CONNECTED" /\ told.sdp = f /\ told.answer = a
        /\ told.phase = "closed"
    BY ONLY <1>3, <2>2 DEF Node
  <2> HIDE DEF told
  <2>4. NodeOk(told)
    BY <1>5, <2>3 DEF NodeOk, f
  <2> QED
    BY <2>1, <2>3, <2>4, OneStep DEF n
<1> QED
  BY <1>4, <1>5

\* The fields hold texts; a realm that fits, and the nonce, as they were.
LEMMA HeldText ==
  ASSUME NEW realm \in Text, NEW nonce \in Text
  PROVE  LET held == Held(realm, nonce) IN
         /\ held.realm \in Text /\ held.nonce \in Text
         /\ Len(realm) < RealmLen => held.realm = realm /\ held.nonce = nonce
<1>1. PICK from, n : from = RealmLen + Len(nonce) + 1 /\ n = Len(realm)
  OBVIOUS
<1>2. /\ RealmLen \in Nat /\ Len(nonce) \in Nat /\ n \in Nat /\ from \in Nat \ {0}
      /\ realm \in Seq(Int) /\ n = Len(realm)
  BY <1>1, DigestAssumption DEF Text
<1>3. PICK tail, first : tail = SubSeq(realm, from, n) /\ first = SubSeq(realm, 1, RealmLen)
  OBVIOUS
<1>4. tail \in Text
  BY ONLY <1>2, <1>3 DEF Text
<1>5. PICK second : second = nonce \o tail
  OBVIOUS
<1>6. second \in Text
  BY ONLY <1>4, <1>5, nonce \in Text, TextsJoin
<1>7. ~ (n < RealmLen) => first \in Text
  BY ONLY <1>2, <1>3 DEF Text
<1>8. ~ (n < RealmLen) => first \o second \in Text
  BY ONLY <1>6, <1>7, TextsJoin
<1>9. n < RealmLen => second = nonce
  <2>1. n < RealmLen => n < from
    BY ONLY <1>1, <1>2
  <2>2. n < RealmLen => tail = <<>>
    BY ONLY <1>2, <1>3, <2>1, SubSeqEmpty
  <2> QED
    BY <1>5, <2>2, ConcatEmptySeq DEF Text
<1>10. /\ Held(realm, nonce).realm = IF n < RealmLen THEN realm ELSE first \o second
       /\ Held(realm, nonce).nonce = second
  BY ONLY <1>1, <1>3, <1>5 DEF Held
<1> QED
  BY ONLY <1>1, <1>6, <1>8, <1>9, <1>10, realm \in Text

\* What is read of a challenge that does not break the callback: texts, those
\* between the quotes if the realm fits its field.
LEMMA ChallengeRead ==
  ASSUME NEW seen \in Text
  PROVE  LET found == get_realm_and_nonce(seen) IN
         /\ found.broke \in BOOLEAN /\ found.ret \in {0, -1} /\ (found.broke => found.ret = 0)
         /\ ~ found.broke => found.realm \in Text /\ found.nonce \in Text
         /\ /\ found.ret = 0 /\ ~ found.broke /\ Strchr(seen, 1, WordNonce) # 0
            /\ Len(Value(seen, WordRealm)) < RealmLen
            => found.realm = Value(seen, WordRealm) /\ found.nonce = Value(seen, WordNonce)
<1> DEFINE found == get_realm_and_nonce(seen)
           r == Value(seen, WordRealm)  v == Value(seen, WordNonce)
           hasr == Strchr(seen, 1, WordRealm) # 0  hasv == Strchr(seen, 1, WordNonce) # 0
           qr == Quoted(seen, WordRealm)  qv == Quoted(seen, WordNonce)
<1>1. (qr => r \in Text) /\ (qv => v \in Text)
  BY QuotedText
<1> HIDE DEF r, v, hasr, hasv, qr, qv
<1>2. CASE hasr
  <2> DEFINE given == IF hasv THEN v ELSE <<>>
             held == Held(r, given)
             long == Len(held.nonce) >= NonceLen
  <2>1. found = [ret |-> 0, realm |-> held.realm, nonce |-> held.nonce,
                 broke |-> ~ qr \/ (hasv /\ ~ qv) \/ long]
    BY <1>2 DEF get_realm_and_nonce, r, v, hasr, hasv, qr, qv
  <2>2. found.ret = 0 /\ found.realm = held.realm /\ found.nonce = held.nonce
    BY <2>1
  <2>3. found.broke = (~ qr \/ (hasv /\ ~ qv) \/ long)
    BY <2>1
  <2> HIDE DEF found, long
  <2>4. found.broke \in BOOLEAN /\ (~ found.broke => qr /\ (hasv => qv))
    BY ONLY <2>3, Zenon
  <2>5. qr /\ (hasv => qv) => r \in Text /\ given \in Text
    BY <1>1 DEF Text
  <2>6. qr /\ (hasv => qv) =>
          /\ held.realm \in Text /\ held.nonce \in Text
          /\ Len(r) < RealmLen => held.realm = r /\ held.nonce = given
    <3> HIDE DEF given
    <3> QED
      BY ONLY <2>5, HeldText
  <2>7. hasv => given = v
    OBVIOUS
  <2> HIDE DEF held, given
  <2> QED
    BY ONLY <2>2, <2>4, <2>6, <2>7, Zenon DEF found, r, v, hasv
<1>3. CASE ~ hasr
  <2>1. found = [ret |-> -1, realm |-> <<>>, nonce |-> <<>>, broke |-> FALSE]
    BY <1>3 DEF get_realm_and_nonce, hasr
  <2>2. found.ret = -1 /\ found.realm = <<>> /\ found.nonce = <<>> /\ found.broke = FALSE
    BY <2>1
  <2> HIDE DEF found
  <2>3. found.broke \in BOOLEAN /\ ~ found.broke
    BY ONLY <2>2, Zenon
  <2>4. found.ret \in {0, -1} /\ found.realm \in Text /\ found.nonce \in Text /\ found.ret # 0
    BY <2>2 DEF Text
  <2> QED
    BY <2>3, <2>4, Zenon DEF found
<1> QED
  BY <1>2, <1>3

\* And where the answer has a realm and a nonce they are the values its challenge
\* gives them.
LEMMA ChallengeNames ==
  ASSUME NEW a \in Answers, a.auth \in Text, a.realm # <<>>, a.nonce # <<>>
  PROVE  /\ a.realm \in Text /\ a.nonce \in Text
         /\ Value(a.auth, WordRealm) = a.realm /\ Value(a.auth, WordNonce) = a.nonce
         /\ Strchr(a.auth, 1, WordNonce) # 0
<1>1. a.realm \in Text /\ a.nonce \in Text
      /\ Names(a.auth, WordRealm, a.realm) /\ Names(a.auth, WordNonce, a.nonce)
  BY AnswersAssumption
<1>2. WordRealm \in Int /\ WordNonce \in Int /\ WordRealm # Quote /\ WordNonce # Quote
  BY DEF WordRealm, WordNonce, Quote
<1> DEFINE auth == a.auth  realm == a.realm  nonce == a.nonce
<1>3. auth \in Text /\ realm \in Text /\ nonce \in Text /\ realm # <<>> /\ nonce # <<>>
      /\ Names(auth, WordRealm, realm) /\ Names(auth, WordNonce, nonce)
  BY <1>1
<1> HIDE DEF auth, realm, nonce
<1>4. Value(auth, WordRealm) = realm
  BY <1>2, <1>3, ValueIs
<1>5. Value(auth, WordNonce) = nonce /\ Strchr(auth, 1, WordNonce) # 0
  BY <1>2, <1>3, ValueIs
<1> QED
  BY <1>3, <1>4, <1>5 DEF auth, realm, nonce

\* The challenge is answered as the camera expects it, given up, or breaks the callback.
LEMMA AnswerChallengeKeeps ==
  ASSUME OInv, NEW k \in 1..Len(nodes), nodes[k].phase \in {"basic", "digest"}, fault = "none",
         NEW a \in Answers, a.auth \in Text, NEW seen \in Text, AnswerChallenge(k, a, seen)
  PROVE  OInv'
<1> DEFINE n == nodes[k]
           found == get_realm_and_nonce(seen)
           realm == found.realm  nonce == found.nonce  url == DescribeUrl(n)
           intact == (seen = a.auth)  user == n.user  passwd == n.passwd
           response == get_response(user, passwd, realm, nonce, WordDescribe, url)
           m == [n EXCEPT !.phase = "digest", !.realm = realm, !.nonce = nonce, !.url = url,
                          !.answer = a, !.intact = intact, !.response = response]
<1>1. NodeOk(n) /\ n \in Node /\ nodes \in Seq(Node) /\ n.phase \in {"basic", "digest"}
  BY DEF OInv, NodeOk
<1>2. n.status = "CONNECTING" /\ n.sdp = NoFields
  BY <1>1 DEF NodeOk
<1>3. /\ n.realm \in Text /\ n.nonce \in Text /\ n.user \in Text /\ n.passwd \in Text
      /\ url \in Text
  <2>1. n.realm \in Text /\ n.nonce \in Text /\ n.user \in Text /\ n.passwd \in Text
    BY <1>1 DEF Node
  <2>2. url \in Text
    BY <1>1, UrlText
  <2> QED
    BY <2>1, <2>2
<1>4. /\ found.broke \in BOOLEAN /\ found.ret \in {0, -1} /\ (found.broke => found.ret = 0)
      /\ ~ found.broke => realm \in Text /\ nonce \in Text
      /\ /\ found.ret = 0 /\ ~ found.broke /\ Strchr(seen, 1, WordNonce) # 0
         /\ Len(Value(seen, WordRealm)) < RealmLen
         => realm = Value(seen, WordRealm) /\ nonce = Value(seen, WordNonce)
  BY <1>3, ChallengeRead
<1>5. \/ found.broke /\ nodes' = nodes /\ Fault("get_realm_and_nonce")
      \/ found.ret < 0 /\ GiveUp(k)
      \/ /\ ~ found.broke /\ found.ret = 0
         /\ nodes' = [nodes EXCEPT ![k] = m] /\ listed' = listed /\ fault' = fault
  <2> HIDE DEF found
  <2>1. AnswerChallenge(k, a, seen) <=>
          CASE found.broke   -> nodes' = nodes /\ Fault("get_realm_and_nonce")
            [] found.ret < 0 -> GiveUp(k)
            [] OTHER -> nodes' = [nodes EXCEPT ![k] = m] /\ UNCHANGED <<listed, fault>>
    BY DEF AnswerChallenge, found
  <2> HIDE DEF m
  <2>2. ~ (found.broke /\ found.ret < 0) /\ (~ (found.ret < 0) <=> found.ret = 0)
    BY <1>4
  <2> QED
    BY <2>1, <2>2, <1>4
<1>6. CASE found.broke /\ nodes' = nodes /\ Fault("get_realm_and_nonce")
  <2>1. fault' = "get_realm_and_nonce" /\ listed' = listed /\ nodes' = [nodes EXCEPT ![k] = n]
    BY <1>1, <1>6 DEF Fault
  <2>2. n.status # "DISCONNECT"
    BY <1>2
  <2> QED
    BY <1>1, <2>1, <2>2, OneStep
<1>7. CASE GiveUp(k)
  BY <1>7, GiveUpKeeps
<1>8. CASE /\ ~ found.broke /\ found.ret = 0
           /\ nodes' = [nodes EXCEPT ![k] = m] /\ listed' = listed /\ fault' = fault
  <2>1. realm \in Text /\ nonce \in Text /\ url \in Text
    BY <1>3, <1>4, <1>8
  <2>2. WordDescribe \in Int
    BY DEF WordDescribe
  <2>0. user \in Text /\ passwd \in Text
    BY <1>3
  <2> HIDE DEF n, found, realm, nonce, url, intact, user, passwd
  <2>3. /\ response \in Text
        /\ /\ Len(user) + Len(realm) + Len(passwd) + 2 < MsgBufLen
           /\ Len(url) + 2 < MsgBufLen
           /\ HexLen + Len(nonce) + HexLen + 2 < MsgBufLen
           => response = Expected(user, passwd, realm, nonce, WordDescribe, url)
    BY ONLY <2>0, <2>1, <2>2, ResponseIs
  <2>4. intact \in BOOLEAN
    BY DEF intact
  <2> HIDE DEF response
  <2>5. /\ m \in Node /\ m.id = n.id /\ m.stream = n.stream /\ m.status = "CONNECTING"
        /\ m.sdp = NoFields /\ m.answer = a /\ m.phase = "digest" /\ m.intact = intact
        /\ m.url = url /\ m.response = response /\ m.user = user /\ m.passwd = passwd
    BY <1>1, <1>2, <2>1, <2>3, <2>4 DEF Node, Phases, user, passwd
  <2> HIDE DEF m
  <2>6. Met(m)
    <3>1. SUFFICES ASSUME intact, FitsMsgBuf(m), FitsFields(m), a.realm # <<>>, a.nonce # <<>>
                   PROVE  response = Expected(user, passwd, a.realm, a.nonce, WordDescribe, url)
      BY <2>5 DEF Met
    <3>2. seen = a.auth
      BY <3>1 DEF intact
    <3>5. Len(a.realm) < RealmLen
      BY <2>5, <3>1 DEF FitsFields
    <3>3. realm = a.realm /\ nonce = a.nonce
      BY <1>4, <1>8, <3>1, <3>2, <3>5, ChallengeNames
    <3>4. /\ Len(user) + Len(realm) + Len(passwd) + 2 < MsgBufLen /\ Len(url) + 2 < MsgBufLen
          /\ HexLen + Len(nonce) + HexLen + 2 < MsgBufLen
      BY <2>5, <3>1, <3>3 DEF FitsMsgBuf
    <3> QED
      BY <2>3, <3>3, <3>4
  <2>7. NodeOk(m)
    BY <2>5, <2>6 DEF NodeOk
  <2> QED
    BY <1>8, <2>5, <2>7, OneStep DEF n
<1> QED
  BY <1>5, <1>6, <1>7, <1>8

\* An answer to the first DESCRIBE, accepted or not.
LEMMA BasicKeeps ==
  ASSUME OInv, NEW k \in 1..Len(nodes), NEW a \in Answers, read_dev_sdp_basic_cb(k, a)
  PROVE  OInv'
<1>1. fault = "none" /\ nodes[k].phase \in {"basic", "digest"}
  BY DEF read_dev_sdp_basic_cb, Runs
<1>2. CASE GiveUp(k)
  BY <1>1, <1>2, GiveUpKeeps
<1>3. CASE Describe(k, a, TRUE)
  BY <1>1, <1>3, DescribeKeeps
<1>4. CASE /\ a.auth # None
           /\ \E seen \in Freed(a.auth) :
                IF Strchr(seen, 1, WordDigest) # 0
                THEN AnswerChallenge(k, a, seen)
                ELSE Describe(k, a, seen = a.auth)
  <2>1. a.auth \in Text
    BY <1>4, AnswersAssumption
  <2>2. PICK seen \in Freed(a.auth) :
          AnswerChallenge(k, a, seen) \/ Describe(k, a, seen = a.auth)
    BY <1>4
  <2>3. seen \in Text
    <3>1. <<>> \in Text
      BY DEF Text
    <3> QED
      BY <2>1, <3>1 DEF Freed
  <2>4. CASE AnswerChallenge(k, a, seen)
    BY <1>1, <2>1, <2>3, <2>4, AnswerChallengeKeeps
  <2>5. CASE Describe(k, a, seen = a.auth)
    <3> DEFINE intact == (seen = a.auth)
    <3>1. intact \in BOOLEAN /\ Describe(k, a, intact)
      BY <2>5
    <3> HIDE DEF intact
    <3> QED
      BY <1>1, <3>1, DescribeKeeps
  <2> QED
    BY <2>2, <2>4, <2>5
<1> QED
  <2>1. CASE a.code \notin {200, 401}
    BY <1>2, <2>1 DEF read_dev_sdp_basic_cb
  <2>4. CASE a.code = 401 /\ a.auth = None
    BY <1>2, <2>4 DEF read_dev_sdp_basic_cb
  <2>2. CASE a.code = 401 /\ a.auth # None
    BY <1>4, <2>2 DEF read_dev_sdp_basic_cb
  <2>3. CASE a.code = 200
    BY <1>3, <2>3 DEF read_dev_sdp_basic_cb
  <2> QED
    BY <2>1, <2>2, <2>3, <2>4

\* An answer to the second.
LEMMA DigestKeeps ==
  ASSUME OInv, NEW k \in 1..Len(nodes), NEW a \in Answers, read_dev_sdp_digest_cb(k, a)
  PROVE  OInv'
<1>1. fault = "none" /\ nodes[k].phase \in {"basic", "digest"} /\ Describe(k, a, TRUE)
  BY DEF read_dev_sdp_digest_cb, Runs
<1> QED
  BY <1>1, DescribeKeeps

\* A new node is as the row and the request say.
LEMMA NewNodeIs ==
  ASSUME NEW r \in Requests, NEW id \in DOMAIN Rows, ~ Spoils(Rows[id]),
         NEW status \in Statuses, NEW phase \in Phases
  PROVE  LET m == NewNode(id, r.stream, Rows[id], status, phase) IN
         /\ m \in Node /\ m.id = id /\ m.stream = r.stream
         /\ m.status = status /\ m.phase = phase /\ m.sdp = NoFields
<1> DEFINE row == Rows[id]  main == UrlOf(row, row.main)  sub == UrlOf(row, row.sub)
           user == row.user  passwd == row.passwd  stream == r.stream
           streams == {q.stream : q \in Requests}
           m == NewNode(id, stream, row, status, phase)
<1>1. /\ row.host \in Text /\ row.user \in Text /\ row.main \in Text
      /\ row.passwd \in Text /\ row.sub \in Text
  BY RowsAssumption DEF Spoils
<1>2. main \in Text /\ sub \in Text /\ user \in Text /\ passwd \in Text
  BY <1>1, TextsJoin, PrintedText DEF UrlOf
<1>3. stream \in streams /\ <<>> \in Text /\ NoFields \in Tellings
  BY DEF Tellings, Text
<1>4. m = [id |-> id, stream |-> stream, status |-> status, phase |-> phase,
           main |-> main, sub |-> sub, user |-> user, passwd |-> passwd,
           realm |-> <<>>, nonce |-> <<>>, sdp |-> NoFields,
           url |-> <<>>, response |-> <<>>, answer |-> NoAnswer, intact |-> TRUE]
  BY DEF NewNode, load_device_ip_port_cb
<1>5. Node =
  [id : DOMAIN Rows, stream : streams, status : Statuses, phase : Phases,
   main : Text, sub : Text, user : Text, passwd : Text, realm : Text, nonce : Text,
   sdp : Tellings,
   url : Text, response : Text, answer : Answers \cup {NoAnswer}, intact : BOOLEAN]
  BY DEF Node
<1> HIDE DEF main, sub, user, passwd, stream, streams, row, m
<1>6. /\ m \in Node /\ m.id = id /\ m.stream = stream
      /\ m.status = status /\ m.phase = phase /\ m.sdp = NoFields
  BY <1>2, <1>3, <1>4, <1>5
<1> QED
  BY <1>6 DEF m, row, stream

\* A new node, unless its row has a NULL or a text too long.
LEMMA CreateKeeps ==
  ASSUME OInv, fault = "none", NEW r \in Requests, NEW id,
         NEW status \in {"CONNECTING", "zero"}, NEW phase \in {"connecting", "none"},
         phase = "connecting" =>
           status = "CONNECTING" /\ id \in Ids /\ Len(id) < MaxIdLen,
         \A j \in listed : ~ (nodes[j].id = id /\ nodes[j].stream = r.stream /\ Plain(id)),
         Create(r, id, status, phase)
  PROVE  OInv'
<1>1. id \in DOMAIN Rows /\ Len(nodes) < MaxNodes
  BY DEF Create
<1>2. CASE Spoils(Rows[id])
  <2>1. nodes' = nodes /\ listed' = listed /\ fault' = "load_device_ip_port_cb"
    BY <1>2 DEF Create, Fault
  <2> QED
    BY <2>1 DEF OInv, Alone, Odd
<1>3. CASE ~ Spoils(Rows[id])
  <2> DEFINE N == Len(nodes)  m == NewNode(id, r.stream, Rows[id], status, phase)  t == nodes'
  <2>1. t = Append(nodes, m) /\ listed' = listed \cup {N + 1} /\ fault' = "none"
    BY <1>3 DEF Create
  <2>2. status \in Statuses /\ phase \in Phases
    BY DEF Statuses, Phases
  <2>3. /\ m \in Node /\ m.id = id /\ m.stream = r.stream
        /\ m.status = status /\ m.phase = phase /\ m.sdp = NoFields
    BY <1>1, <1>3, <2>2, NewNodeIs
  <2> HIDE DEF m, t
  <2>4. NodeOk(m) /\ m.status # "DISCONNECT"
    BY <2>3 DEF NodeOk, Asked
  <2>5. /\ nodes \in Seq(Node) /\ (\A k \in 1..N : NodeOk(nodes[k])) /\ listed \subseteq 1..N
        /\ (\A k \in listed : nodes[k].status # "DISCONNECT")
    BY DEF OInv
  <2>6. /\ t \in Seq(Node) /\ N \in Nat /\ Len(t) = N + 1 /\ t[N + 1] = m
        /\ \A j \in 1..N : t[j] = nodes[j]
    BY <2>1, <2>3, <2>5, OneAdded
  <2> DEFINE M == N + 1
  <2>7. M \in 1..M /\ (\A j \in 1..M : j = M \/ j \in 1..N) /\ (\A j \in 1..N : j \in 1..M /\ j # M)
        /\ M <= MaxNodes /\ 1..N \subseteq 1..M
    BY <1>1, <2>6, OpenVideoAssumption
  <2>8. Len(t) = M /\ t[M] = m /\ listed' = listed \cup {M}
    BY <2>1, <2>6
  <2> HIDE DEF M, N
  <2>9. \A j \in 1..M : NodeOk(t[j])
    BY <2>4, <2>5, <2>6, <2>7, <2>8
  <2>10. listed' \subseteq 1..M /\ \A j \in listed' : t[j].status # "DISCONNECT"
    BY <2>4, <2>5, <2>6, <2>7, <2>8
  <2>11. ASSUME NEW i \in listed', NEW j \in listed', t[i].id = t[j].id,
                t[i].stream = t[j].stream, Plain(t[i].id)
         PROVE  i = j
    <3>1. \A l \in listed : t[l].id = nodes[l].id /\ t[l].stream = nodes[l].stream
      BY <2>5, <2>6
    <3>2. CASE i \in listed /\ j \in listed
      BY <2>11, <3>1, <3>2 DEF OInv, Alone
    <3>3. CASE i = M /\ j \in listed
      BY <2>3, <2>8, <2>11, <3>1, <3>3
    <3>4. CASE i \in listed /\ j = M
      BY <2>3, <2>8, <2>11, <3>1, <3>4
    <3> QED
      BY <2>8, <3>2, <3>3, <3>4
  <2>12. Alone'
    BY <2>11 DEF Alone, t
  <2>13. nodes' \in Seq(Node) /\ Len(nodes') <= MaxNodes /\ listed' \subseteq 1..Len(nodes')
         /\ (\A j \in 1..Len(nodes') : NodeOk(nodes'[j]))
         /\ (\A j \in listed' : nodes'[j].status # "DISCONNECT")
    BY <2>6, <2>7, <2>8, <2>9, <2>10 DEF t
  <2> QED
    BY <2>1, <2>12, <2>13 DEF OInv
<1> QED
  BY <1>2, <1>3

\* The ids of requests.
LEMMA RequestId ==
  ASSUME NEW r \in Requests
  PROVE  r.id \in Ids /\ Len(r.id) < MaxIdLen /\ (Plain(r.id) => Decoded(r.id) = r.id)
<1>1. r.id \in Ids /\ Len(r.id) < MaxIdLen
  BY OpenVideoAssumption DEF Ids
<1> QED
  BY <1>1, PlainDecoded

\* A request over HTTP: the id as it came.
LEMMA OpenVideoKeeps ==
  ASSUME OInv, NEW r \in Requests, deal_open_video_cmd(r)
  PROVE  OInv'
<1>1. fault = "none"
  BY DEF deal_open_video_cmd, Runs
<1>2. CASE UNCHANGED vars
  BY <1>2 DEF vars, OInv, Alone, Odd
<1>3. CASE Seek(Decoded(r.id), r.stream) = {} /\ Create(r, r.id, "CONNECTING", "connecting")
  <2>1. \A j \in listed : ~ (nodes[j].id = r.id /\ nodes[j].stream = r.stream /\ Plain(r.id))
    <3>1. \A j \in listed : ~ (nodes[j].id = Decoded(r.id) /\ nodes[j].stream = r.stream)
      BY <1>3 DEF Seek
    <3> QED
      BY <3>1, RequestId
  <2> DEFINE id == r.id  status == "CONNECTING"  phase == "connecting"
  <2>2. /\ status \in {"CONNECTING", "zero"} /\ phase \in {"connecting", "none"}
        /\ phase = "connecting" => status = "CONNECTING" /\ id \in Ids /\ Len(id) < MaxIdLen
        /\ Create(r, id, status, phase)
        /\ \A j \in listed : ~ (nodes[j].id = id /\ nodes[j].stream = r.stream /\ Plain(id))
    BY <1>3, <2>1, RequestId
  <2> HIDE DEF id, status, phase
  <2> QED
    BY <1>1, <2>2, CreateKeeps
<1> QED
  BY <1>2, <1>3 DEF deal_open_video_cmd, Join

\* A request of a player: the id decoded.
LEMMA PushStreamKeeps ==
  ASSUME OInv, NEW r \in Requests, push_stream(r)
  PROVE  OInv'
<1>1. fault = "none"
  BY DEF push_stream, Runs
<1>2. CASE UNCHANGED vars
  BY <1>2 DEF vars, OInv, Alone, Odd
<1>3. CASE Seek(Decoded(r.id), r.stream) = {} /\ Create(r, Decoded(r.id), "zero", "none")
  <2> DEFINE id == Decoded(r.id)  status == "zero"  phase == "none"
  <2>1. \A j \in listed : ~ (nodes[j].id = id /\ nodes[j].stream = r.stream /\ Plain(id))
    BY <1>3 DEF Seek
  <2>2. /\ status \in {"CONNECTING", "zero"} /\ phase \in {"connecting", "none"}
        /\ phase = "connecting" => status = "CONNECTING" /\ id \in Ids /\ Len(id) < MaxIdLen
        /\ Create(r, id, status, phase)
    BY <1>3
  <2> HIDE DEF id, status, phase
  <2> QED
    BY <1>1, <2>1, <2>2, CreateKeeps
<1> QED
  BY <1>2, <1>3 DEF push_stream, Join

-----------------------------------------------------------------------------
(* The theorems.                                                             *)

\* The invariant holds at the start.
LEMMA InitIs == Init => OInv
<1>1. <<>> \in Seq(Node) /\ Len(<<>>) = 0
  OBVIOUS
<1> QED
  BY <1>1, OpenVideoAssumption DEF Init, OInv, Alone

\* And every step keeps it.
LEMMA NextKeeps == OInv /\ [Next]_vars => OInv'
<1> SUFFICES ASSUME OInv, [Next]_vars PROVE OInv'
  OBVIOUS
<1>1. DOMAIN nodes = 1..Len(nodes)
  BY DEF OInv
<1>2. ASSUME NEW r \in Requests, deal_open_video_cmd(r) PROVE OInv'
  BY <1>2, OpenVideoKeeps
<1>3. ASSUME NEW r \in Requests, push_stream(r) PROVE OInv'
  BY <1>3, PushStreamKeeps
<1>4. ASSUME NEW k \in 1..Len(nodes), Connected(k) PROVE OInv'
  BY <1>4, ConnectedKeeps
<1>5. ASSUME NEW k \in 1..Len(nodes), Lost(k) PROVE OInv'
  BY <1>5, LostKeeps
<1>6. ASSUME NEW k \in 1..Len(nodes), NEW a \in Answers, read_dev_sdp_basic_cb(k, a) PROVE OInv'
  BY <1>6, BasicKeeps
<1>7. ASSUME NEW k \in 1..Len(nodes), NEW a \in Answers, read_dev_sdp_digest_cb(k, a) PROVE OInv'
  BY <1>7, DigestKeeps
<1>8. CASE UNCHANGED vars
  BY <1>8 DEF vars, OInv, Alone, Odd
<1> QED
  BY <1>1, <1>2, <1>3, <1>4, <1>5, <1>6, <1>7, <1>8 DEF Next

\* Every node is what the request, its row and its camera's answer make of it:
\* no description before the exchange is over, and then that of the last answer.
THEOREM OInvHolds == Spec => []OInv
<1>1. Init => OInv
  BY InitIs
<1>2. OInv /\ [Next]_vars => OInv'
  BY NextKeeps
<1> QED
  BY <1>1, <1>2, PTL DEF Spec

\* Every node has a status and a phase, no more nodes are made than allowed, and
\* only nodes whose camera is not lost are listed.
THEOREM TypeOKHolds == Spec => []TypeOK
<1>1. OInv => TypeOK
  <2> SUFFICES ASSUME OInv PROVE TypeOK
    OBVIOUS
  <2>1. DOMAIN nodes = 1..Len(nodes) /\ Len(nodes) <= MaxNodes
    BY DEF OInv
  <2>2. \A k \in 1..Len(nodes) : nodes[k].status \in Statuses /\ nodes[k].phase \in Phases
    <3>1. \A k \in 1..Len(nodes) : nodes[k] \in Node
      BY DEF OInv, NodeOk
    <3>2. \A n \in Node : n.status \in Statuses /\ n.phase \in Phases
      BY DEF Node
    <3> QED
      BY <3>1, <3>2
  <2>3. listed \subseteq {k \in DOMAIN nodes : nodes[k].status # "DISCONNECT"}
    BY <2>1 DEF OInv
  <2>4. fault \in {"none", "load_device_ip_port_cb", "get_realm_and_nonce", "analysis_sdp_info"}
    BY DEF OInv
  <2> QED
    BY <2>1, <2>2, <2>3, <2>4 DEF TypeOK
<1> QED
  BY <1>1, OInvHolds, PTL

\* url_decode turns back what url_encode makes of the id of a new device, into
\* whatever room; ids of every length and of every byte but NUL.
THEOREM RoundTripHolds == Spec => []RoundTrip
<1>1. OInv => RoundTrip
  <2> SUFFICES ASSUME OInv PROVE RoundTrip
    OBVIOUS
  <2>1. ASSUME NEW k \in DOMAIN nodes, nodes[k].phase = "connecting"
        PROVE  \A room \in 0..(3 * Len(nodes[k].id) + 1) :
                 LET id == nodes[k].id  coded == url_encode(id, Len(id), room) IN
                 /\ Len(coded.target) <= room
                 /\ coded.r = 0 /\ Len(coded.target) < room =>
                      url_decode(coded.target, -1, MaxIdLen).target = id
    <3> DEFINE id == nodes[k].id
    <3>1. k \in 1..Len(nodes)
      BY DEF OInv
    <3>2. id \in Ids /\ Len(id) < MaxIdLen
      BY <2>1, <3>1 DEF OInv, NodeOk, Asked
    <3> HIDE DEF id
    <3>3. \A room \in 0..(3 * Len(id) + 1) : room \in Nat
      OBVIOUS
    <3>4. \A room \in 0..(3 * Len(id) + 1) :
            LET coded == url_encode(id, Len(id), room) IN
            /\ Len(coded.target) <= room
            /\ coded.r = 0 /\ Len(coded.target) < room =>
                 url_decode(coded.target, -1, MaxIdLen).target = id
      BY <3>2, <3>3, ThereAndBack
    <3> QED
      BY <3>4 DEF id
  <2> QED
    BY <2>1 DEF RoundTrip
<1> QED
  BY <1>1, OInvHolds, PTL

\* An id without escapes is listed once per stream, and found by who asks for it.
THEOREM PlainIdsServedHolds == Spec => []PlainIdsServed
<1>1. OInv => PlainIdsServed
  <2> SUFFICES ASSUME OInv PROVE PlainIdsServed
    OBVIOUS
  <2>1. Alone
    BY DEF OInv
  <2>2. \A r \in Requests : Plain(r.id) => Decoded(r.id) = r.id
    BY RequestId
  <2> QED
    BY <2>1, <2>2 DEF PlainIdsServed, Alone, Seek
<1> QED
  BY <1>1, OInvHolds, PTL

\* The response to a challenge that is read intact is the one RFC 2069 lets the
\* camera expect, for values, user names and URLs of every length that fits.
THEOREM ChallengeMetHolds == Spec => []ChallengeMet
<1>1. OInv => ChallengeMet
  <2> SUFFICES ASSUME OInv, NEW k \in DOMAIN nodes, nodes[k].phase = "digest"
               PROVE  Met(nodes[k])
    BY DEF ChallengeMet, Met
  <2>1. k \in 1..Len(nodes)
    BY DEF OInv
  <2> QED
    BY <2>1 DEF OInv, NodeOk
<1> QED
  BY <1>1, OInvHolds, PTL

\* chap_auth makes of three pieces what the digest of the whole text is.
THEOREM PiecesAlikeHolds == Spec => []PiecesAlike
<1>1. OInv => PiecesAlike
  <2> SUFFICES ASSUME OInv, NEW k \in DOMAIN nodes, nodes[k].phase = "digest"
               PROVE  chap_auth(Quote, nodes[k].answer.realm, nodes[k].main) =
                        Padded(<<Quote>> \o nodes[k].answer.realm \o nodes[k].main)
    BY DEF PiecesAlike
  <2> DEFINE n == nodes[k]
  <2>1. n \in Node /\ n.answer \in Answers
    BY DEF OInv, NodeOk
  <2> HIDE DEF n
  <2>2. n.main \in Text /\ n.answer.realm \in Text /\ Quote \in Int
    BY <2>1, AnswersAssumption DEF Node, Quote
  <2> QED
    BY <2>2, PiecesAre DEF n
<1> QED
  BY <1>1, OInvHolds, PTL

\* Whoever describes itself in the customary form, with lines that fit their fields,
\* is described so to its viewers.
THEOREM VideoDescribedHolds == Spec => []VideoDescribed
<1>1. OInv => VideoDescribed
  <2> SUFFICES ASSUME OInv, NEW k \in DOMAIN nodes, nodes[k].status = "CONNECTED",
                      Customary(nodes[k].answer.sdp)
               PROVE  Described(nodes[k].answer.sdp, nodes[k].sdp)
    BY DEF VideoDescribed
  <2> DEFINE n == nodes[k]
  <2>1. n.answer \in Answers /\ n.sdp = Told(n.answer)
    BY DEF OInv, NodeOk
  <2>2. n.answer.sdp.lines \in Seq(SdpLine)
    BY <2>1, AnswersAssumption
  <2> QED
    BY <2>1, <2>2, CustomaryTold DEF Told
<1> QED
  BY <1>1, OInvHolds, PTL

\* And its description never breaks the callback that reads it.
THEOREM CustomaryReadHolds == Spec => []CustomaryRead
<1>1. OInv => CustomaryRead
  BY DEF OInv, Odd, CustomaryRead
<1> QED
  BY <1>1, OInvHolds, PTL
=============================================================================
