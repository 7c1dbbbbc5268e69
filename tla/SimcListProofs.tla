--------------------------- MODULE SimcListProofs --------------------------
(***************************************************************************)
(* The pointers of simclist, for lists of every length: the chain from the *)
(* head to the tail, the middle, the spare entries, and the iterator.      *)
(*                                                                         *)
(* What is followed link by link is a recursive function of the number of  *)
(* links.  The chain itself is what satisfies its recursion, and the least *)
(* number of links for which the two would differ does not exist.          *)
(***************************************************************************)
EXTENDS SimcList, TLAPS, WellFoundedInduction

-----------------------------------------------------------------------------
(* Numbers.                                                                  *)

\* Every set of natural numbers has a least one.
LEMMA Least ==
  ASSUME NEW S, S \subseteq Nat, S # {}
  PROVE  \E x \in S : \A y \in S : x <= y
<1> DEFINE R == {p \in Nat \X Nat : p[1] < p[2]}
<1>1. IsWellFoundedOn(R, Nat)
  BY NatLessThanWellFounded DEF OpToRel
<1> HIDE DEF R
<1>2. PICK x \in S : \A y \in S : ~ (<<y, x>> \in R)
  BY <1>1, WFMin, Zenon
<1>3. ASSUME NEW y \in S
      PROVE  x <= y
  <2>1. x \in Nat /\ y \in Nat
    OBVIOUS
  <2>2. ~ (y < x)
    BY <2>1, <1>2 DEF R
  <2> QED
    BY <2>1, <2>2
<1> QED
  BY <1>3

\* The smaller of two numbers.
LEMMA MinOfTwo ==
  ASSUME NEW a \in Int, NEW b \in Int
  PROVE  Min({a, b}) = IF a <= b THEN a ELSE b
<1> DEFINE m == IF a <= b THEN a ELSE b
<1>1. m \in {a, b} /\ \A y \in {a, b} : m <= y
  OBVIOUS
<1>2. \A x \in {a, b} : (\A y \in {a, b} : x <= y) => x = m
  OBVIOUS
<1> HIDE DEF m
<1>3. (CHOOSE x \in {a, b} : \A y \in {a, b} : x <= y) = m
  BY <1>1, <1>2
<1> QED
  BY <1>3 DEF Min, m

\* The remainder of what is between 0 and the divisor, and of what is a little below 0.
LEMMA Remainder ==
  ASSUME NEW a \in Int, NEW m \in Nat \ {0}
  PROVE  /\ a \in 0..(m - 1) => a % m = a
         /\ a \in (-m)..(-1) => a % m = a + m
  OBVIOUS

-----------------------------------------------------------------------------
(* Walks.                                                                    *)

\* A function that goes on as Walk does is where Walk leads.
LEMMA WalkIs ==
  ASSUME NEW ptr, NEW link, NEW n \in Nat, NEW f,
         f[0] = ptr,
         \A k \in 1..n : f[k] = IF f[k - 1] = Null THEN Null ELSE link[f[k - 1]]
  PROVE  Walk(ptr, link, n) = f[n]
<1> DEFINE Goes(g) == g = [k \in 0..n |-> IF k = 0 THEN ptr
                                        ELSE IF g[k - 1] = Null THEN Null ELSE link[g[k - 1]]]
           w == CHOOSE g : Goes(g)
           S == {k \in 0..n : w[k] # f[k]}
<1>1. Goes(w)
  <2> DEFINE h == [k \in 0..n |-> f[k]]
  <2>1. \A k \in 0..n : k # 0 => k - 1 \in 0..n /\ k \in 1..n
    OBVIOUS
  <2>2. Goes(h)
    BY <2>1
  <2> HIDE DEF h, Goes
  <2> QED
    BY <2>2, Zenon
<1>2. Walk(ptr, link, n) = w[n]
  BY DEF Walk
<1> HIDE DEF w
<1>3. S = {}
  <2>1. SUFFICES ASSUME S # {} PROVE FALSE
    OBVIOUS
  <2>2. PICK x \in S : \A y \in S : x <= y
    <3>1. S \subseteq Nat
      OBVIOUS
    <3> HIDE DEF S
    <3> QED
      BY <2>1, <3>1, Least
  <2>3. x \in 0..n /\ w[x] # f[x]
    OBVIOUS
  <2>4. x = 0 => w[x] = ptr /\ f[x] = ptr
    BY <1>1
  <2>5. CASE x # 0
    <3>1. x - 1 \in 0..n /\ x - 1 \notin S
      BY <2>2, <2>3, <2>5
    <3>2. w[x - 1] = f[x - 1]
      BY <3>1
    <3>3. w[x] = IF w[x - 1] = Null THEN Null ELSE link[w[x - 1]]
      BY <1>1, <2>3, <2>5
    <3>4. f[x] = IF f[x - 1] = Null THEN Null ELSE link[f[x - 1]]
      <4>1. x \in 1..n
        BY <2>3, <2>5
      <4> QED
        BY <4>1
    <3> QED
      BY <2>3, <3>2, <3>3, <3>4
  <2> QED
    BY <2>3, <2>4, <2>5
<1>4. n \in 0..n
  OBVIOUS
<1>5. w[n] = f[n]
  BY <1>3, <1>4
<1> QED
  BY <1>2, <1>5

-----------------------------------------------------------------------------
(* The chain of a list of n items: c[0] is the head, c[n + 1] the tail, and  *)
(* c[i] the entry of item i.                                                 *)

Chained(c, n, nx, pv) ==
  /\ c \in [0..(n + 1) -> Place]
  /\ c[0] = head_sentinel /\ c[n + 1] = tail_sentinel
  /\ \A i, j \in 0..(n + 1) : c[i] = c[j] => i = j
  /\ nx \in [Place -> Place \cup {Null}] /\ pv \in [Place -> Place \cup {Null}]
  /\ \A i \in 0..n : nx[c[i]] = c[i + 1] /\ pv[c[i + 1]] = c[i]
  /\ nx[tail_sentinel] = Null /\ pv[head_sentinel] = Null

\* The sentinels are two places that are neither entries nor null.
LEMMA Sentinels ==
  /\ Null \notin Place /\ head_sentinel \in Place /\ tail_sentinel \in Place
  /\ head_sentinel # tail_sentinel
  /\ head_sentinel \notin Entry /\ tail_sentinel \notin Entry /\ Entry \subseteq Place
  BY EntryAssumption DEF Place

\* Between the sentinels there are entries only.
LEMMA ChainEntries ==
  ASSUME NEW n \in Nat, NEW c, NEW nx, NEW pv, Chained(c, n, nx, pv), NEW i \in 1..n
  PROVE  c[i] \in Entry
<1>1. i \in 0..(n + 1) /\ 0 \in 0..(n + 1) /\ n + 1 \in 0..(n + 1) /\ i # 0 /\ i # n + 1
  OBVIOUS
<1>2. c[i] \in Place /\ c[i] # head_sentinel /\ c[i] # tail_sentinel
  BY <1>1 DEF Chained
<1> QED
  BY <1>2 DEF Place

\* From one place of the chain onward, and back.
LEMMA WalkNext ==
  ASSUME NEW n \in Nat, NEW c, NEW nx, NEW pv, Chained(c, n, nx, pv),
         NEW i \in Nat, NEW m \in Nat, i + m <= n + 1
  PROVE  Walk(c[i], nx, m) = c[i + m]
<1> DEFINE f == [k \in 0..m |-> c[i + k]]
<1>1. ASSUME NEW k \in 1..m
      PROVE  f[k] = IF f[k - 1] = Null THEN Null ELSE nx[f[k - 1]]
  <2>1. k - 1 \in 0..m /\ i + (k - 1) \in 0..n /\ (i + (k - 1)) + 1 = i + k
    OBVIOUS
  <2>2. f[k - 1] = c[i + (k - 1)] /\ f[k] = c[i + k]
    BY <2>1
  <2>3. nx[c[i + (k - 1)]] = c[(i + (k - 1)) + 1] /\ c[i + (k - 1)] \in Place
    BY <2>1 DEF Chained
  <2> QED
    BY <2>1, <2>2, <2>3, Sentinels
<1>2. f[0] = c[i]
  OBVIOUS
<1>3. f[m] = c[i + m]
  OBVIOUS
<1> HIDE DEF f
<1>4. Walk(c[i], nx, m) = f[m]
  BY <1>1, <1>2, WalkIs
<1> QED
  BY <1>3, <1>4

\* Walking back from the entry at i comes to the one m before it, or to nothing.
LEMMA WalkPrev ==
  ASSUME NEW n \in Nat, NEW c, NEW nx, NEW pv, Chained(c, n, nx, pv),
         NEW i \in 0..(n + 1), NEW m \in Nat
  PROVE  Walk(c[i], pv, m) = IF m <= i THEN c[i - m] ELSE Null
<1> DEFINE f == [k \in 0..m |-> IF k <= i THEN c[i - k] ELSE Null]
<1>1. ASSUME NEW k \in 1..m
      PROVE  f[k] = IF f[k - 1] = Null THEN Null ELSE pv[f[k - 1]]
  <2>1. CASE k <= i
    <3>1. k - 1 \in 0..m /\ k - 1 <= i /\ i - k \in 0..n /\ (i - k) + 1 = i - (k - 1)
          /\ i - (k - 1) \in 0..(n + 1)
      BY <2>1
    <3>2. f[k - 1] = c[i - (k - 1)] /\ f[k] = c[i - k]
      BY <2>1, <3>1
    <3>3. pv[c[(i - k) + 1]] = c[i - k] /\ c[i - (k - 1)] \in Place
      BY <3>1 DEF Chained
    <3> QED
      BY <2>1, <3>1, <3>2, <3>3, Sentinels
  <2>2. CASE k = i + 1
    <3>1. k - 1 \in 0..m /\ k - 1 = i /\ i - i = 0
      BY <2>2
    <3>2. f[k - 1] = head_sentinel /\ f[k] = Null
      BY <2>2, <3>1 DEF Chained
    <3> QED
      BY <2>2, <3>2 DEF Chained
  <2>3. CASE k > i + 1
    BY <2>3
  <2> QED
    BY <2>1, <2>2, <2>3
<1>2. f[0] = c[i]
  OBVIOUS
<1>3. f[m] = IF m <= i THEN c[i - m] ELSE Null
  OBVIOUS
<1> HIDE DEF f
<1>4. Walk(c[i], pv, m) = f[m]
  BY <1>1, <1>2, WalkIs
<1> QED
  BY <1>3, <1>4

-----------------------------------------------------------------------------
(* The invariant: a chain c links the list, through the middle, its entries  *)
(* and the spare ones are what malloc gave, and the iterator stands in it.   *)

Sizes ==
  /\ numels \in Nat /\ numels <= MaxLen
  /\ spareels \in Seq(Entry) /\ Len(spareels) <= MaxSpare /\ IsInjective(spareels)
  /\ heap \subseteq Entry
  /\ iter_active \in BOOLEAN /\ alive \in BOOLEAN

Linked(c) ==
  /\ Chained(c, numels, next, prev)
  /\ mid = IF numels = 0 THEN Null ELSE c[Middle(numels) + 1]
  /\ \A i \in 1..numels : c[i] \notin ToSet(spareels)
  /\ alive => heap = {c[i] : i \in 1..numels} \cup ToSet(spareels)
  /\ alive /\ iter_active => iter_pos \in 0..numels /\ iter_curentry = c[iter_pos + 1]

\* A destroyed list is empty; what it leaves malloc'ed was being iterated.
Destroyed == ~ alive => numels = 0 /\ spareels = <<>> /\ (heap = {} \/ iter_active)

LInv == Sizes /\ Destroyed /\ \E c : Linked(c)

\* From the head.
LEMMA WalkHead ==
  ASSUME Sizes, NEW c, Linked(c), NEW i \in 0..(numels + 1)
  PROVE  Walk(head_sentinel, next, i) = c[i]
<1>1. numels \in Nat /\ Chained(c, numels, next, prev) /\ c[0] = head_sentinel
  BY DEF Sizes, Linked, Chained
<1>2. Walk(c[0], next, i) = c[0 + i]
  BY <1>1, WalkNext
<1> QED
  BY <1>1, <1>2

\* The entries the links lead to are those of the chain.
LEMMA ChainIs ==
  ASSUME Sizes, NEW c, Linked(c)
  PROVE  Chain = [i \in 1..numels |-> c[i]]
<1>1. \A i \in 1..numels : Walk(head_sentinel, next, i) = c[i]
  BY WalkHead DEF Sizes
<1> QED
  BY <1>1 DEF Chain

\* The middle of a list of n items is one of them.
LEMMA MiddleIn ==
  ASSUME NEW n \in Nat \ {0}
  PROVE  Middle(n) \in 0..(n - 1) /\ 2 * Middle(n) \in {n - 1, n - 2}
  BY DEF Middle

\* Every shortcut leads to the position.
LEMMA FindPos ==
  ASSUME Sizes, NEW c, Linked(c), NEW pos \in (-1)..numels
  PROVE  list_findpos(pos) = c[pos + 1]
<1> DEFINE n == numels
<1>1. n \in Nat /\ Chained(c, n, next, prev) /\ c[0] = head_sentinel /\ c[n + 1] = tail_sentinel
  BY DEF Sizes, Linked, Chained
<1>2. pos + 1 \in 0..(n + 1) /\ n - pos \in Nat /\ (n + 1) - (n - pos) = pos + 1
      /\ n - pos <= n + 1 /\ n + 1 \in 0..(n + 1)
  BY <1>1
<1>3. Walk(head_sentinel, next, pos + 1) = c[pos + 1]
  BY <1>2, WalkHead
<1>4. Walk(tail_sentinel, prev, n - pos) = c[pos + 1]
  BY <1>1, <1>2, WalkPrev
<1>5. ASSUME n > 0
      PROVE  /\ mid = c[Middle(n) + 1] /\ Middle(n) + 1 \in 0..(n + 1)
             /\ 4 * (pos + 1) < 2 * n => Walk(mid, prev, Middle(n) - pos) = c[pos + 1]
             /\ 4 * (pos + 1) >= 2 * n => Walk(mid, next, pos - Middle(n)) = c[pos + 1]
  <2>1. Middle(n) \in 0..(n - 1) /\ 2 * Middle(n) \in {n - 1, n - 2}
    BY <1>1, <1>5, MiddleIn
  <2>2. mid = c[Middle(n) + 1] /\ Middle(n) + 1 \in 0..(n + 1) /\ Middle(n) + 1 \in Nat
    BY <1>1, <1>5, <2>1 DEF Linked
  <2>3. ASSUME 4 * (pos + 1) < 2 * n
        PROVE  Walk(mid, prev, Middle(n) - pos) = c[pos + 1]
    <3>1. Middle(n) - pos \in Nat /\ Middle(n) - pos <= Middle(n) + 1
          /\ (Middle(n) + 1) - (Middle(n) - pos) = pos + 1
      BY <1>1, <2>1, <2>3
    <3> QED
      BY <1>1, <2>2, <3>1, WalkPrev
  <2>4. ASSUME 4 * (pos + 1) >= 2 * n
        PROVE  Walk(mid, next, pos - Middle(n)) = c[pos + 1]
    <3>1. pos - Middle(n) \in Nat /\ (Middle(n) + 1) + (pos - Middle(n)) = pos + 1
          /\ (Middle(n) + 1) + (pos - Middle(n)) <= n + 1
      BY <1>1, <2>1, <2>4
    <3> QED
      BY <1>1, <2>2, <3>1, WalkNext
  <2> QED
    BY <2>2, <2>3, <2>4
<1>6. ~ (pos < -1 \/ pos > n)
  BY <1>1
<1> QED
  BY <1>1, <1>3, <1>4, <1>5, <1>6 DEF list_findpos

-----------------------------------------------------------------------------
(* What the invariant says of the runs' invariants.                          *)

\* What list_repOk asserts follows.
LEMMA RepFollows ==
  ASSUME LInv
  PROVE  RepOk
<1>1. PICK c : Linked(c)
  BY DEF LInv
<1>2. Sizes /\ numels \in Nat /\ Chained(c, numels, next, prev)
  BY <1>1 DEF LInv, Sizes, Linked
<1>3. prev[head_sentinel] = Null /\ next[tail_sentinel] = Null
  BY <1>2 DEF Chained
<1>4. Walk(head_sentinel, next, numels + 1) = tail_sentinel
  BY <1>1, <1>2, WalkHead DEF Chained
<1>5. ASSUME NEW i \in 0..numels
      PROVE  prev[Walk(head_sentinel, next, i + 1)] = Walk(head_sentinel, next, i)
  <2>1. i + 1 \in 0..(numels + 1) /\ i \in 0..(numels + 1)
    BY <1>2
  <2>2. Walk(head_sentinel, next, i + 1) = c[i + 1] /\ Walk(head_sentinel, next, i) = c[i]
    BY <1>1, <1>2, <2>1, WalkHead
  <2> QED
    BY <1>2, <2>2 DEF Chained
<1>6. mid = IF numels = 0 THEN Null ELSE Chain[Middle(numels) + 1]
  <2>1. numels # 0 => Middle(numels) + 1 \in 1..numels
    BY <1>2, MiddleIn
  <2> QED
    BY <1>1, <1>2, <2>1, ChainIs DEF Linked
<1> QED
  BY <1>2, <1>3, <1>4, <1>5, <1>6 DEF RepOk, Sizes

\* Entries are in the list or in the stock, never in both.
LEMMA AccountFollows ==
  ASSUME LInv
  PROVE  EntriesAccounted
<1>1. PICK c : Linked(c)
  BY DEF LInv
<1>2. Sizes /\ Destroyed /\ numels \in Nat /\ Chained(c, numels, next, prev)
  BY <1>1 DEF LInv, Sizes, Linked
<1>3. Chain = [i \in 1..numels |-> c[i]]
  BY <1>1, <1>2, ChainIs
<1>4. ToSet(Chain) = {c[i] : i \in 1..numels}
  BY <1>3 DEF ToSet
<1>5. IsInjective(Chain)
  BY <1>2, <1>3 DEF IsInjective, Chained
<1> QED
  BY <1>1, <1>2, <1>4, <1>5 DEF EntriesAccounted, Linked, Sizes, Destroyed

\* The iterator is at its position in the chain.
LEMMA IteratorFollows ==
  ASSUME LInv
  PROVE  IteratorInPlace
<1>1. PICK c : Linked(c)
  BY DEF LInv
<1>2. ASSUME alive, iter_active
      PROVE  iter_curentry = Walk(head_sentinel, next, iter_pos + 1)
  <2>1. iter_pos \in 0..numels /\ numels \in Nat /\ iter_curentry = c[iter_pos + 1]
    BY <1>1, <1>2 DEF LInv, Sizes, Linked
  <2>2. iter_pos + 1 \in 0..(numels + 1)
    BY <2>1
  <2> QED
    BY <1>1, <2>1, <2>2, WalkHead DEF LInv
<1> QED
  BY <1>2 DEF IteratorInPlace

-----------------------------------------------------------------------------
(* The stock of spare entries.                                               *)

\* The spare entry used first is no longer spare.
LEMMA FrontLast ==
  ASSUME NEW S, NEW s \in Seq(S), s # <<>>, IsInjective(s)
  PROVE  /\ Front(s) \in Seq(S) /\ Len(Front(s)) = Len(s) - 1 /\ IsInjective(Front(s))
         /\ Last(s) \in S /\ ToSet(Front(s)) = ToSet(s) \ {Last(s)} /\ Last(s) \in ToSet(s)
<1> DEFINE f == Front(s)
           m == Len(s) - 1
<1>1. m \in Nat /\ Len(s) = m + 1 /\ m <= Len(s) /\ \A i \in 1..Len(s) : s[i] \in S
  OBVIOUS
<1>2. f = SubSeq(s, 1, m) /\ Last(s) = s[m + 1]
  BY <1>1 DEF Front, Last
<1> HIDE DEF f, m
<1>3. f \in Seq(S) /\ Len(f) = m /\ \A i \in 1..m : f[i] = s[i]
  BY <1>1, <1>2
<1>4. DOMAIN f = 1..m /\ DOMAIN s = 1..(m + 1) /\ m + 1 \in DOMAIN s
  BY <1>1, <1>3
<1>5. \A i \in 1..m : i \in DOMAIN s /\ i # m + 1
  BY <1>1, <1>4
<1>6. IsInjective(f)
  BY <1>3, <1>4, <1>5 DEF IsInjective
<1>7. \A i \in DOMAIN s : i = m + 1 \/ i \in DOMAIN f
  BY <1>1, <1>4
<1>8. ToSet(f) \subseteq ToSet(s) \ {Last(s)}
  BY <1>2, <1>3, <1>4, <1>5 DEF IsInjective, ToSet
<1>9. ToSet(s) \ {Last(s)} \subseteq ToSet(f)
  BY <1>2, <1>3, <1>4, <1>7 DEF ToSet
<1> QED
  BY <1>1, <1>2, <1>3, <1>4, <1>6, <1>8, <1>9 DEF ToSet, f, m

\* Entries that were not spare are put behind.
LEMMA Stocked ==
  ASSUME NEW S, NEW s \in Seq(S), NEW t \in Seq(S), IsInjective(s), IsInjective(t),
         ToSet(s) \cap ToSet(t) = {}
  PROVE  /\ s \o t \in Seq(S) /\ Len(s \o t) = Len(s) + Len(t)
         /\ IsInjective(s \o t) /\ ToSet(s \o t) = ToSet(s) \cup ToSet(t)
<1> DEFINE u == s \o t
<1>1. /\ u \in Seq(S) /\ Len(u) = Len(s) + Len(t) /\ Len(s) \in Nat /\ Len(t) \in Nat
      /\ \A i \in 1..Len(s) : u[i] = s[i]
      /\ \A i \in (Len(s) + 1)..Len(u) : u[i] = t[i - Len(s)]
  OBVIOUS
<1>2. DOMAIN u = 1..Len(u) /\ DOMAIN s = 1..Len(s) /\ DOMAIN t = 1..Len(t)
  BY <1>1
<1> HIDE DEF u
<1>3. ASSUME NEW i \in DOMAIN u
      PROVE  \/ i \in DOMAIN s /\ u[i] = s[i]
             \/ i - Len(s) \in DOMAIN t /\ u[i] = t[i - Len(s)]
  BY <1>1, <1>2
<1>4. \A i \in DOMAIN t : i + Len(s) \in DOMAIN u /\ u[i + Len(s)] = t[i]
  BY <1>1, <1>2
<1>5. \A i \in DOMAIN s : i \in DOMAIN u /\ u[i] = s[i]
  BY <1>1, <1>2
<1>6. ToSet(u) = ToSet(s) \cup ToSet(t)
  <2>1. ToSet(u) \subseteq ToSet(s) \cup ToSet(t)
    BY <1>3 DEF ToSet
  <2>2. ToSet(s) \subseteq ToSet(u) /\ ToSet(t) \subseteq ToSet(u)
    BY <1>4, <1>5 DEF ToSet
  <2> QED
    BY <2>1, <2>2
<1>7. IsInjective(u)
  <2>1. ASSUME NEW i \in DOMAIN u, NEW j \in DOMAIN u, u[i] = u[j]
        PROVE  i = j
    <3>1. CASE i \in DOMAIN s /\ u[i] = s[i] /\ j \in DOMAIN s /\ u[j] = s[j]
      BY <2>1, <3>1 DEF IsInjective
    <3>2. CASE /\ i - Len(s) \in DOMAIN t /\ u[i] = t[i - Len(s)]
               /\ j - Len(s) \in DOMAIN t /\ u[j] = t[j - Len(s)]
      <4>1. i - Len(s) = j - Len(s)
        BY <2>1, <3>2 DEF IsInjective
      <4> QED
        BY <1>1, <1>2, <4>1
    <3>3. CASE i \in DOMAIN s /\ u[i] = s[i] /\ j - Len(s) \in DOMAIN t /\ u[j] = t[j - Len(s)]
      BY <2>1, <3>3 DEF ToSet
    <3>4. CASE j \in DOMAIN s /\ u[j] = s[j] /\ i - Len(s) \in DOMAIN t /\ u[i] = t[i - Len(s)]
      BY <2>1, <3>4 DEF ToSet
    <3> QED
      BY <1>3, <3>1, <3>2, <3>3, <3>4
  <2> QED
    BY <2>1 DEF IsInjective
<1> QED
  BY <1>1, <1>6, <1>7 DEF u

\* As many entries as there is room for.
LEMMA StockIs ==
  ASSUME NEW S, NEW s \in Seq(S), IsInjective(s), Sizes
  PROVE  /\ Stock(s) \in Seq(S) /\ IsInjective(Stock(s)) /\ ToSet(Stock(s)) \subseteq ToSet(s)
         /\ Len(Stock(s)) <= MaxSpare - Len(spareels)
<1> DEFINE m == Min({Len(s), MaxSpare - Len(spareels)})
<1>1. Len(s) \in Nat /\ MaxSpare - Len(spareels) \in Nat
  BY SizeAssumption DEF Sizes
<1>2. m \in Nat /\ m <= Len(s) /\ m <= MaxSpare - Len(spareels)
  BY <1>1, MinOfTwo
<1>3. Stock(s) = SubSeq(s, 1, m)
  BY DEF Stock
<1> HIDE DEF m
<1>4. /\ Stock(s) \in Seq(S) /\ Len(Stock(s)) = m
      /\ \A i \in 1..m : Stock(s)[i] = s[i]
  BY <1>1, <1>2, <1>3
<1>5. DOMAIN Stock(s) = 1..m /\ DOMAIN s = 1..Len(s) /\ \A i \in 1..m : i \in 1..Len(s)
  BY <1>1, <1>2, <1>4
<1> QED
  BY <1>2, <1>4, <1>5 DEF IsInjective, ToSet

-----------------------------------------------------------------------------
(* What the operations make of a chain.                                      *)

Inserted(c, n, p, e) ==
  [i \in 0..(n + 2) |-> IF i <= p THEN c[i] ELSE IF i = p + 1 THEN e ELSE c[i - 1]]

\* An entry that was not in the chain comes behind place p.
LEMMA ChainInserted ==
  ASSUME NEW n \in Nat, NEW c, NEW nx, NEW pv, Chained(c, n, nx, pv),
         NEW p \in 0..n, NEW e \in Entry, \A i \in 1..n : c[i] # e
  PROVE  Chained(Inserted(c, n, p, e), n + 1,
                 [nx EXCEPT ![c[p]] = e, ![e] = c[p + 1]],
                 [pv EXCEPT ![e] = c[p], ![c[p + 1]] = e])
<1> DEFINE d == Inserted(c, n, p, e)
           fwd == [nx EXCEPT ![c[p]] = e, ![e] = c[p + 1]]
           back == [pv EXCEPT ![e] = c[p], ![c[p + 1]] = e]
<1>1. /\ c \in [0..(n + 1) -> Place] /\ c[0] = head_sentinel /\ c[n + 1] = tail_sentinel
      /\ \A i, j \in 0..(n + 1) : c[i] = c[j] => i = j
      /\ nx \in [Place -> Place \cup {Null}] /\ pv \in [Place -> Place \cup {Null}]
      /\ \A i \in 0..n : nx[c[i]] = c[i + 1] /\ pv[c[i + 1]] = c[i]
      /\ nx[tail_sentinel] = Null /\ pv[head_sentinel] = Null
  BY DEF Chained
<1>2. \A i \in 0..(n + 1) : c[i] \in Place /\ c[i] # e
  <2>1. \A i \in 0..(n + 1) : i = 0 \/ i = n + 1 \/ i \in 1..n
    OBVIOUS
  <2> QED
    BY <1>1, <2>1, Sentinels
<1>3. e \in Place /\ e # head_sentinel /\ e # tail_sentinel
  BY Sentinels
<1>4. p \in 0..(n + 1) /\ p + 1 \in 0..(n + 1) /\ c[p] \in Place /\ c[p + 1] \in Place
  BY <1>2
<1>5. /\ \A i \in 0..p : d[i] = c[i] /\ i \in 0..(n + 1)
      /\ d[p + 1] = e
      /\ \A i \in (p + 2)..(n + 2) : d[i] = c[i - 1] /\ i - 1 \in 0..(n + 1)
      /\ \A i \in 0..(n + 2) : i \in 0..p \/ i = p + 1 \/ i \in (p + 2)..(n + 2)
      /\ DOMAIN d = 0..(n + 2)
  BY DEF Inserted
<1>6. d \in [0..(n + 2) -> Place]
  BY <1>2, <1>3 DEF Inserted
<1> HIDE DEF d
<1>7. d[0] = head_sentinel /\ d[n + 2] = tail_sentinel
  BY <1>1, <1>5
<1>8. ASSUME NEW i \in 0..(n + 2), NEW j \in 0..(n + 2), d[i] = d[j]
      PROVE  i = j
  <2>1. CASE i \in 0..p
    <3>1. d[i] = c[i] /\ i \in 0..(n + 1)
      BY <1>5, <2>1
    <3>2. CASE j \in 0..p
      <4>1. c[i] = c[j] /\ j \in 0..(n + 1)
        BY <1>5, <1>8, <3>1, <3>2
      <4> QED
        BY <1>1, <3>1, <4>1
    <3>3. CASE j = p + 1
      <4>1. c[i] = e
        BY <1>5, <1>8, <3>1, <3>3
      <4> QED
        BY <1>2, <3>1, <4>1
    <3>4. CASE j \in (p + 2)..(n + 2)
      <4>1. c[i] = c[j - 1] /\ j - 1 \in 0..(n + 1)
        BY <1>5, <1>8, <3>1, <3>4
      <4>2. i = j - 1
        BY <1>1, <3>1, <4>1
      <4> QED
        BY <2>1, <3>4, <4>2
    <3> QED
      BY <1>5, <3>2, <3>3, <3>4
  <2>2. CASE i = p + 1
    <3>1. d[j] = e
      BY <1>5, <1>8, <2>2
    <3>2. j \notin 0..p
      BY <1>2, <1>5, <3>1
    <3>3. j \notin (p + 2)..(n + 2)
      BY <1>2, <1>5, <3>1
    <3> QED
      BY <1>5, <2>2, <3>2, <3>3
  <2>3. CASE i \in (p + 2)..(n + 2)
    <3>1. CASE j \in 0..p
      BY <1>1, <1>5, <1>8, <2>3, <3>1
    <3>2. CASE j = p + 1
      BY <1>2, <1>5, <1>8, <2>3, <3>2
    <3>3. CASE j \in (p + 2)..(n + 2)
      <4>1. i - 1 = j - 1
        BY <1>1, <1>5, <1>8, <2>3, <3>3
      <4> QED
        BY <4>1
    <3> QED
      BY <1>5, <3>1, <3>2, <3>3
  <2> QED
    BY <1>5, <2>1, <2>2, <2>3
<1>9. fwd \in [Place -> Place \cup {Null}] /\ back \in [Place -> Place \cup {Null}]
  BY <1>1, <1>3, <1>4
<1>10. fwd[c[p]] = e /\ fwd[e] = c[p + 1] /\ back[e] = c[p] /\ back[c[p + 1]] = e
  BY <1>1, <1>2, <1>3, <1>4
<1>11. /\ \A i \in 0..(n + 1) : i # p => fwd[c[i]] = nx[c[i]]
       /\ \A i \in 0..(n + 1) : i # p + 1 => back[c[i]] = pv[c[i]]
  BY <1>1, <1>2, <1>4
<1> HIDE DEF fwd, back
<1>12. ASSUME NEW i \in 0..(n + 1)
       PROVE  fwd[d[i]] = d[i + 1] /\ back[d[i + 1]] = d[i]
  <2>1. CASE i < p
    <3>1. i \in 0..p /\ i + 1 \in 0..p /\ i \in 0..n /\ i # p /\ i + 1 # p + 1
          /\ i + 1 \in 0..(n + 1)
      BY <2>1
    <3> QED
      BY <1>1, <1>5, <1>11, <3>1
  <2>2. CASE i = p
    <3>1. d[i] = c[p] /\ d[i + 1] = e
      BY <1>5, <2>2
    <3> QED
      BY <1>10, <3>1
  <2>3. CASE i = p + 1
    <3>1. p + 2 \in (p + 2)..(n + 2) /\ i + 1 = p + 2 /\ (p + 2) - 1 = p + 1
      BY <2>3
    <3>2. d[i] = e /\ d[i + 1] = c[p + 1]
      BY <1>5, <2>3, <3>1
    <3> QED
      BY <1>10, <3>2
  <2>4. CASE i > p + 1
    <3>1. i \in (p + 2)..(n + 2) /\ i + 1 \in (p + 2)..(n + 2) /\ (i + 1) - 1 = i
          /\ i - 1 \in 0..n /\ i - 1 # p /\ i # p + 1 /\ (i - 1) + 1 = i
          /\ i - 1 \in 0..(n + 1)
      BY <2>4
    <3>2. d[i] = c[i - 1] /\ d[i + 1] = c[i]
      BY <1>5, <3>1
    <3>3. nx[c[i - 1]] = c[i] /\ pv[c[i]] = c[i - 1]
      BY <1>1, <3>1
    <3> QED
      BY <1>11, <3>1, <3>2, <3>3
  <2> QED
    BY <2>1, <2>2, <2>3, <2>4
<1>13. fwd[tail_sentinel] = Null /\ back[head_sentinel] = Null
  <2>1. n + 1 # p /\ 0 # p + 1 /\ 0 \in 0..(n + 1) /\ n + 1 \in 0..(n + 1)
    OBVIOUS
  <2> QED
    BY <1>1, <1>11, <2>1
<1>14. (n + 1) + 1 = n + 2
  OBVIOUS
<1>15. Chained(d, n + 1, fwd, back)
  BY <1>6, <1>7, <1>8, <1>9, <1>12, <1>13, <1>14 DEF Chained
<1> QED
  BY <1>15 DEF d, fwd, back

Without(c, n, a, k) == [i \in 0..(n + 1 - k) |-> IF i <= a THEN c[i] ELSE c[i + k]]

\* The links fwd and back pass over the k entries behind place a, and are those of
\* the chain elsewhere.
PassOver(fwd, back, c, n, a, k, nx, pv) ==
  /\ fwd \in [Place -> Place \cup {Null}] /\ back \in [Place -> Place \cup {Null}]
  /\ fwd[c[a]] = c[a + k + 1] /\ back[c[a + k + 1]] = c[a]
  /\ \A i \in 0..(n + 1) : i < a \/ i > a + k => fwd[c[i]] = nx[c[i]]
  /\ \A i \in 0..(n + 1) : i <= a \/ i > a + k + 1 => back[c[i]] = pv[c[i]]

\* The k entries behind place a leave the chain, when the links at the two ends join.
LEMMA ChainWithout ==
  ASSUME NEW n \in Nat, NEW c, NEW nx, NEW pv, Chained(c, n, nx, pv),
         NEW a \in 0..n, NEW k \in 1..(n - a),
         NEW fwd, NEW back, PassOver(fwd, back, c, n, a, k, nx, pv)
  PROVE  Chained(Without(c, n, a, k), n - k, fwd, back)
<1> DEFINE d == Without(c, n, a, k)
<1>0. /\ fwd \in [Place -> Place \cup {Null}] /\ back \in [Place -> Place \cup {Null}]
      /\ fwd[c[a]] = c[a + k + 1] /\ back[c[a + k + 1]] = c[a]
      /\ \A i \in 0..(n + 1) : i < a \/ i > a + k => fwd[c[i]] = nx[c[i]]
      /\ \A i \in 0..(n + 1) : i <= a \/ i > a + k + 1 => back[c[i]] = pv[c[i]]
  BY DEF PassOver
<1> USE <1>0
<1>1. /\ c \in [0..(n + 1) -> Place] /\ c[0] = head_sentinel /\ c[n + 1] = tail_sentinel
      /\ \A i, j \in 0..(n + 1) : c[i] = c[j] => i = j
      /\ \A i \in 0..n : nx[c[i]] = c[i + 1] /\ pv[c[i + 1]] = c[i]
      /\ nx[tail_sentinel] = Null /\ pv[head_sentinel] = Null
  BY DEF Chained
<1>2. /\ \A i \in 0..a : d[i] = c[i] /\ i \in 0..(n + 1)
      /\ \A i \in (a + 1)..(n + 1 - k) : d[i] = c[i + k] /\ i + k \in 0..(n + 1)
      /\ \A i \in 0..(n + 1 - k) : i \in 0..a \/ i \in (a + 1)..(n + 1 - k)
      /\ DOMAIN d = 0..(n + 1 - k)
  BY DEF Without
<1>3. d \in [0..(n + 1 - k) -> Place]
  <2>1. \A i \in 0..(n + 1 - k) : i <= a => i \in 0..(n + 1)
    OBVIOUS
  <2>2. \A i \in 0..(n + 1 - k) : ~ (i <= a) => i + k \in 0..(n + 1)
    OBVIOUS
  <2> QED
    BY <1>1, <2>1, <2>2 DEF Without
<1> HIDE DEF d
<1>4. d[0] = head_sentinel /\ d[n + 1 - k] = tail_sentinel
  <2>1. 0 \in 0..a /\ n + 1 - k \in (a + 1)..(n + 1 - k) /\ (n + 1 - k) + k = n + 1
    OBVIOUS
  <2> QED
    BY <1>1, <1>2, <2>1
<1>5. ASSUME NEW i \in 0..(n + 1 - k), NEW j \in 0..(n + 1 - k), d[i] = d[j]
      PROVE  i = j
  <2>1. CASE i \in 0..a /\ j \in 0..a
    BY <1>1, <1>2, <1>5, <2>1
  <2>2. CASE i \in 0..a /\ j \in (a + 1)..(n + 1 - k)
    <3>1. i = j + k
      BY <1>1, <1>2, <1>5, <2>2
    <3> QED
      BY <2>2, <3>1
  <2>3. CASE i \in (a + 1)..(n + 1 - k) /\ j \in 0..a
    <3>1. i + k = j
      BY <1>1, <1>2, <1>5, <2>3
    <3> QED
      BY <2>3, <3>1
  <2>4. CASE i \in (a + 1)..(n + 1 - k) /\ j \in (a + 1)..(n + 1 - k)
    <3>1. i + k = j + k
      BY <1>1, <1>2, <1>5, <2>4
    <3> QED
      BY <3>1
  <2> QED
    BY <1>2, <2>1, <2>2, <2>3, <2>4
<1>6. ASSUME NEW i \in 0..(n - k)
      PROVE  fwd[d[i]] = d[i + 1] /\ back[d[i + 1]] = d[i]
  <2>1. CASE i < a
    <3>1. i \in 0..a /\ i + 1 \in 0..a /\ i \in 0..n /\ i \in 0..(n + 1) /\ i + 1 \in 0..(n + 1)
          /\ i + 1 <= a
      BY <2>1
    <3>2. d[i] = c[i] /\ d[i + 1] = c[i + 1] /\ fwd[c[i]] = nx[c[i]]
          /\ back[c[i + 1]] = pv[c[i + 1]]
      BY <1>2, <2>1, <3>1
    <3> QED
      BY <1>1, <3>1, <3>2
  <2>2. CASE i = a
    <3>1. a \in 0..a /\ a + 1 \in (a + 1)..(n + 1 - k) /\ (a + 1) + k = a + k + 1
      OBVIOUS
    <3>2. d[i] = c[a] /\ d[i + 1] = c[a + k + 1]
      BY <1>2, <2>2, <3>1
    <3> QED
      BY <3>2
  <2>3. CASE i > a
    <3>1. i \in (a + 1)..(n + 1 - k) /\ i + 1 \in (a + 1)..(n + 1 - k)
          /\ i + k > a + k /\ (i + k) + 1 > a + k + 1 /\ i + k \in 0..(n + 1)
          /\ (i + 1) + k = (i + k) + 1 /\ (i + k) + 1 \in 0..(n + 1) /\ i + k \in 0..n
      BY <2>3
    <3>2. d[i] = c[i + k] /\ d[i + 1] = c[(i + k) + 1]
      BY <1>2, <3>1
    <3>3. fwd[c[i + k]] = nx[c[i + k]] /\ back[c[(i + k) + 1]] = pv[c[(i + k) + 1]]
      BY <3>1
    <3> QED
      BY <1>1, <3>1, <3>2, <3>3
  <2> QED
    BY <2>1, <2>2, <2>3
<1>7. fwd[tail_sentinel] = Null /\ back[head_sentinel] = Null
  <2>1. n + 1 > a + k /\ 0 <= a /\ 0 \in 0..(n + 1) /\ n + 1 \in 0..(n + 1)
    OBVIOUS
  <2> QED
    BY <1>1, <2>1
<1>8. (n - k) + 1 = n + 1 - k
  OBVIOUS
<1>9. Chained(d, n - k, fwd, back)
  BY <1>3, <1>4, <1>5, <1>6, <1>7, <1>8 DEF Chained
<1> QED
  BY <1>9 DEF d

-----------------------------------------------------------------------------
(* The steps.                                                                *)

\* A new list is empty, with its sentinels linked to each other.
LEMMA LInvInit ==
  ASSUME Init
  PROVE  LInv
<1> DEFINE c == [i \in 0..1 |-> IF i = 0 THEN head_sentinel ELSE tail_sentinel]
<1>1. Chained(c, 0, next, prev)
  BY Sentinels DEF Init, Chained, EmptyNext, EmptyPrev
<1>2. Linked(c)
  BY <1>1 DEF Init, Linked, ToSet
<1>3. <<>> \in Seq(Entry) /\ Len(<<>>) <= MaxSpare /\ IsInjective(<<>>)
  BY SizeAssumption DEF IsInjective
<1>4. Sizes /\ Destroyed
  <2>1. numels \in Nat /\ numels <= MaxLen /\ heap \subseteq Entry
    BY SizeAssumption DEF Init
  <2>2. spareels = <<>> /\ iter_active = FALSE /\ alive = TRUE
    BY DEF Init
  <2> QED
    BY <1>3, <2>1, <2>2, Zenon DEF Sizes, Destroyed
<1> QED
  BY <1>2, <1>4 DEF LInv

\* What does not touch the list keeps it.
LEMMA ListUntouched ==
  ASSUME LInv, UNCHANGED <<next, prev, numels, mid, spareels, heap>>,
         iter_active' \in BOOLEAN, alive' = alive, alive,
         iter_active' => iter_pos' \in 0..numels
                         /\ \A c : Linked(c) => iter_curentry' = c[iter_pos' + 1]
  PROVE  LInv'
<1>1. PICK c : Linked(c)
  BY DEF LInv
<1>2. Chained(c, numels, next, prev)'
  BY <1>1 DEF Linked, Chained
<1>3. ToSet(spareels') = ToSet(spareels)
  BY DEF ToSet
<1>4. Linked(c)'
  BY <1>1, <1>2, <1>3 DEF Linked
<1>5. Sizes' /\ Destroyed'
  BY DEF LInv, Sizes, Destroyed, IsInjective
<1> QED
  BY <1>4, <1>5 DEF LInv

\* An inserted entry was in no list, and the middle is found again.
LEMMA InsertStep ==
  ASSUME LInv, NEW c, Linked(c), NEW x, NEW pos \in Nat, list_insert_at(x, pos)
  PROVE  /\ LInv'
         /\ \E e, d : /\ e \in Entry /\ \A i \in 1..numels : c[i] # e
                      /\ d = Inserted(c, numels, pos, e) /\ Linked(d)'
                      /\ data' = [data EXCEPT ![e] = x]
<1> DEFINE n == numels
<1>1. Linked(c)
  OBVIOUS
<1>2. /\ Sizes /\ n \in Nat /\ n < MaxLen /\ pos \in 0..n /\ alive /\ ~ iter_active
      /\ n' = n + 1 /\ alive' = alive /\ iter_active' = iter_active
      /\ spareels' = IF spareels = <<>> THEN <<>> ELSE Front(spareels)
  BY DEF LInv, Sizes, list_insert_at, Changeable, Ready, iterator
<1>3. Chained(c, n, next, prev)
  BY <1>1 DEF Linked
<1>4. list_findpos(pos - 1) = c[pos] /\ next[c[pos]] = c[pos + 1]
  <2>1. pos - 1 \in (-1)..n /\ (pos - 1) + 1 = pos
    BY <1>2
  <2>2. list_findpos(pos - 1) = c[(pos - 1) + 1]
    BY <1>1, <1>2, <2>1, FindPos
  <2> QED
    BY <1>2, <1>3, <2>1, <2>2 DEF Chained
<1>5. PICK e \in IF spareels = <<>> THEN Entry \ heap ELSE {Last(spareels)} :
        /\ next' = [next EXCEPT ![c[pos]] = e, ![e] = c[pos + 1]]
        /\ prev' = [prev EXCEPT ![e] = c[pos], ![c[pos + 1]] = e]
        /\ data' = [data EXCEPT ![e] = x]
        /\ heap' = heap \cup {e}
        /\ mid' = MidAfterInsert(e, pos, n + 1,
                                 [next EXCEPT ![c[pos]] = e, ![e] = c[pos + 1]],
                                 [prev EXCEPT ![e] = c[pos], ![c[pos + 1]] = e])
  BY <1>4 DEF list_insert_at
<1>6. /\ e \in Entry /\ \A i \in 1..n : c[i] # e
      /\ spareels' \in Seq(Entry) /\ Len(spareels') <= MaxSpare /\ IsInjective(spareels')
      /\ ToSet(spareels') = ToSet(spareels) \ {e}
  <2>1. CASE spareels = <<>>
    <3>1. e \in Entry \ heap /\ ToSet(spareels) = {} /\ spareels' = spareels
      BY <1>2, <1>5, <2>1 DEF ToSet
    <3> QED
      BY <1>1, <1>2, <3>1 DEF Linked, Sizes
  <2>2. CASE spareels # <<>>
    <3>1. e = Last(spareels) /\ spareels' = Front(spareels)
      BY <1>2, <1>5, <2>2
    <3>2. /\ Front(spareels) \in Seq(Entry) /\ Len(Front(spareels)) = Len(spareels) - 1
          /\ IsInjective(Front(spareels)) /\ Last(spareels) \in Entry
          /\ ToSet(Front(spareels)) = ToSet(spareels) \ {Last(spareels)}
          /\ Last(spareels) \in ToSet(spareels)
      BY <1>2, <2>2, FrontLast DEF Sizes
    <3>3. Len(spareels) \in Nat /\ MaxSpare \in Nat /\ Len(spareels) <= MaxSpare
      BY <1>2, SizeAssumption DEF Sizes
    <3> QED
      BY <1>1, <3>1, <3>2, <3>3 DEF Linked
  <2> QED
    BY <2>1, <2>2
<1>67. PICK d : d = Inserted(c, n, pos, e)
  OBVIOUS
<1>7. Chained(d, n + 1, next', prev')
  BY <1>67, <1>2, <1>3, <1>5, <1>6, ChainInserted
<1>8. /\ \A i \in 0..pos : d[i] = c[i]
      /\ d[pos + 1] = e
      /\ \A i \in (pos + 2)..(n + 2) : d[i] = c[i - 1]
  BY <1>67, <1>2 DEF Inserted
<1>9. mid' = d[Middle(n + 1) + 1]
  <2>1. \A i \in 0..(n + 1) : next'[d[i]] = d[i + 1] /\ prev'[d[i + 1]] = d[i]
    BY <1>7 DEF Chained
  <2>2. CASE n = 0
    <3>1. Middle(n + 1) = 0 /\ pos = 0
      BY <1>2, <2>2 DEF Middle
    <3>2. mid' = e
      BY <1>5, <2>2 DEF MidAfterInsert
    <3> QED
      BY <1>8, <3>1, <3>2
  <2>3. CASE n # 0 /\ n % 2 = 0
    <3>1. /\ Middle(n + 1) = n \div 2 /\ Middle(n) + 1 = n \div 2 /\ (n + 1) % 2 = 1 /\ n + 1 # 1
          /\ n \div 2 \in 1..n
      BY <1>2, <2>3 DEF Middle
    <3>2. mid = c[n \div 2]
      BY <1>1, <2>3, <3>1 DEF Linked
    <3>3. mid' = IF pos >= n \div 2 THEN next'[mid] ELSE mid
      BY <1>5, <3>1 DEF MidAfterInsert
    <3>4. CASE pos >= n \div 2
      <4>1. n \div 2 \in 0..pos /\ n \div 2 \in 0..(n + 1)
        BY <1>2, <3>1, <3>4
      <4> QED
        BY <1>8, <2>1, <3>1, <3>2, <3>3, <3>4, <4>1
    <3>5. CASE pos < n \div 2
      <4>1. n \div 2 + 1 \in (pos + 2)..(n + 2) /\ (n \div 2 + 1) - 1 = n \div 2
        BY <1>2, <3>1, <3>5
      <4>2. d[n \div 2 + 1] = c[n \div 2]
        BY <1>8, <4>1
      <4> QED
        BY <1>2, <3>1, <3>2, <3>3, <3>5, <4>2
    <3> QED
      BY <1>2, <3>1, <3>4, <3>5
  <2>4. CASE n # 0 /\ n % 2 = 1
    <3>1. /\ Middle(n + 1) = Middle(n) /\ (n + 1) % 2 # 1 /\ n + 1 # 1
          /\ Middle(n) \in 0..(n - 1)
      BY <1>2, <2>4 DEF Middle
    <3>2. mid = c[Middle(n) + 1]
      BY <1>1, <2>4 DEF Linked
    <3>3. mid' = IF pos <= Middle(n) THEN prev'[mid] ELSE mid
      BY <1>5, <3>1 DEF MidAfterInsert
    <3>4. CASE pos <= Middle(n)
      <4>1. Middle(n) + 2 \in (pos + 2)..(n + 2) /\ (Middle(n) + 2) - 1 = Middle(n) + 1
            /\ Middle(n) + 1 \in 0..(n + 1) /\ (Middle(n) + 1) + 1 = Middle(n) + 2
        BY <1>2, <3>1, <3>4
      <4>2. d[Middle(n) + 2] = mid
        BY <1>8, <3>2, <4>1
      <4>3. prev'[d[Middle(n) + 2]] = d[Middle(n) + 1]
        BY <2>1, <4>1
      <4> QED
        BY <3>1, <3>3, <3>4, <4>2, <4>3
    <3>5. CASE pos > Middle(n)
      <4>1. Middle(n) + 1 \in 0..pos
        BY <1>2, <3>1, <3>5
      <4> QED
        BY <1>2, <1>8, <3>1, <3>2, <3>3, <3>5, <4>1
    <3> QED
      BY <1>2, <3>1, <3>4, <3>5
  <2> QED
    BY <1>2, <2>2, <2>3, <2>4
<1>10. {d[i] : i \in 1..(n + 1)} = {c[i] : i \in 1..n} \cup {e}
  <2>1. ASSUME NEW i \in 1..(n + 1)
        PROVE  d[i] = e \/ \E j \in 1..n : d[i] = c[j]
    <3>1. \/ i \in 0..pos /\ i \in 1..n
          \/ i = pos + 1
          \/ i \in (pos + 2)..(n + 2) /\ i - 1 \in 1..n
      BY <1>2
    <3> QED
      BY <1>8, <3>1
  <2>2. ASSUME NEW j \in 1..n
        PROVE  \E i \in 1..(n + 1) : d[i] = c[j]
    <3>1. CASE j <= pos
      <4>1. j \in 0..pos /\ j \in 1..(n + 1)
        BY <1>2, <3>1
      <4> QED
        BY <1>8, <4>1
    <3>2. CASE j > pos
      <4>1. j + 1 \in (pos + 2)..(n + 2) /\ j + 1 \in 1..(n + 1) /\ (j + 1) - 1 = j
        BY <1>2, <3>2
      <4>2. d[j + 1] = c[j]
        BY <1>8, <4>1
      <4> QED
        BY <4>1, <4>2
    <3> QED
      BY <1>2, <3>1, <3>2
  <2>3. pos + 1 \in 1..(n + 1)
    BY <1>2
  <2> QED
    BY <1>8, <2>1, <2>2, <2>3
<1>11. heap' = {d[i] : i \in 1..(n + 1)} \cup ToSet(spareels')
  BY <1>1, <1>2, <1>5, <1>6, <1>10 DEF Linked
<1>12. \A i \in 1..(n + 1) : d[i] \notin ToSet(spareels')
  <2>1. \A i \in 1..(n + 1) : d[i] \in {c[j] : j \in 1..n} \cup {e}
    BY <1>10
  <2> QED
    BY <1>1, <1>6, <2>1 DEF Linked
<1>13. Linked(d)'
  <2>1. n' # 0
    BY <1>2
  <2> QED
    BY <2>1, <1>2, <1>7, <1>9, <1>11, <1>12 DEF Linked
<1>14. Sizes' /\ Destroyed'
  BY <1>2, <1>5, <1>6, SizeAssumption DEF Sizes, Destroyed
<1>15. LInv'
  BY <1>13, <1>14 DEF LInv
<1> QED
  BY <1>5, <1>6, <1>67, <1>13, <1>15

\* d is the chain c but for the k entries behind place a.
Lacks(d, c, n, a, k) ==
  /\ \A i \in 0..a : d[i] = c[i]
  /\ \A i \in (a + 1)..(n + 1 - k) : d[i] = c[i + k]
  /\ \A i \in 1..(n - k) : \E j \in 1..n : d[i] = c[j] /\ j \notin (a + 1)..(a + k)
  /\ \A j \in 1..n : j \notin (a + 1)..(a + k) => \E i \in 1..(n - k) : d[i] = c[j]

\* The entries of a chain without k of them.
LEMMA WithoutEntries ==
  ASSUME NEW n \in Nat, NEW c, NEW a \in 0..n, NEW k \in 1..(n - a),
         NEW d, d = Without(c, n, a, k)
  PROVE  Lacks(d, c, n, a, k)
<1>1. /\ \A i \in 0..a : d[i] = c[i]
      /\ \A i \in (a + 1)..(n + 1 - k) : d[i] = c[i + k]
  BY DEF Without
<1>2. ASSUME NEW i \in 1..(n - k)
      PROVE  \E j \in 1..n : d[i] = c[j] /\ j \notin (a + 1)..(a + k)
  <2>1. CASE i <= a
    <3>1. i \in 0..a /\ i \in 1..n /\ i \notin (a + 1)..(a + k)
      BY <2>1
    <3> QED
      BY <1>1, <3>1
  <2>2. CASE i > a
    <3>1. i \in (a + 1)..(n + 1 - k) /\ i + k \in 1..n /\ i + k \notin (a + 1)..(a + k)
      BY <2>2
    <3> QED
      BY <1>1, <3>1
  <2> QED
    BY <2>1, <2>2
<1>3. ASSUME NEW j \in 1..n, j \notin (a + 1)..(a + k)
      PROVE  \E i \in 1..(n - k) : d[i] = c[j]
  <2>1. CASE j <= a
    <3>1. j \in 0..a /\ j \in 1..(n - k)
      BY <2>1
    <3> QED
      BY <1>1, <3>1
  <2>2. CASE j > a
    <3>1. j - k \in (a + 1)..(n + 1 - k) /\ j - k \in 1..(n - k) /\ (j - k) + k = j
      BY <1>3, <2>2
    <3>2. d[j - k] = c[j]
      BY <1>1, <3>1
    <3> QED
      BY <3>1, <3>2
  <2> QED
    BY <2>1, <2>2
<1> QED
  BY <1>1, <1>2, <1>3 DEF Lacks

\* An entry that is dropped is spare or free, and the middle is found again.
LEMMA DropStep ==
  ASSUME LInv, NEW c, Linked(c), NEW pos \in Nat, list_delete_at(pos)
  PROVE  /\ LInv'
         /\ \E d : d = Without(c, numels, pos, 1) /\ Linked(d)'
         /\ data' = [data EXCEPT ![c[pos + 1]] = Null]
<1> DEFINE n == numels
<1>1. Linked(c)
  OBVIOUS
<1>2. /\ Sizes /\ n \in Nat /\ n <= MaxLen /\ pos \in 0..(n - 1) /\ alive /\ ~ iter_active
      /\ n' = n - 1 /\ alive' = alive /\ iter_active' = iter_active
  BY DEF LInv, Sizes, list_delete_at, Changeable, Ready, iterator
<1>3. Chained(c, n, next, prev) /\ heap = {c[i] : i \in 1..n} \cup ToSet(spareels)
  BY <1>1, <1>2 DEF Linked
<1> DEFINE tmp == c[pos + 1]
<1>4. /\ pos \in (-1)..n /\ pos \in 0..n /\ pos + 1 \in 0..n /\ pos + 1 \in 1..n
      /\ (pos + 1) + 1 = pos + 2 /\ pos + 2 \in 0..(n + 1) /\ pos + 1 \in 0..(n + 1)
      /\ pos \in 0..(n + 1)
  BY <1>2
<1>5. /\ list_findpos(pos) = tmp /\ tmp \in Entry
      /\ prev[tmp] = c[pos] /\ next[tmp] = c[pos + 2]
      /\ c[pos] \in Place /\ c[pos + 2] \in Place /\ tmp \in Place
      /\ tmp # c[pos] /\ tmp # c[pos + 2]
  <2>1. list_findpos(pos) = tmp
    BY <1>1, <1>2, <1>4, FindPos
  <2>2. tmp \in Entry
    BY <1>2, <1>3, <1>4, ChainEntries
  <2>3. prev[tmp] = c[pos] /\ next[tmp] = c[(pos + 1) + 1]
    BY <1>3, <1>4 DEF Chained
  <2>4. pos # pos + 1 /\ pos + 2 # pos + 1
    BY <1>2
  <2> QED
    BY <1>3, <1>4, <2>1, <2>2, <2>3, <2>4 DEF Chained
<1>6. /\ mid' = MidBeforeDrop(pos, n)
      /\ next' = [next EXCEPT ![c[pos]] = c[pos + 2], ![tmp] = Null]
      /\ prev' = [prev EXCEPT ![c[pos + 2]] = c[pos], ![tmp] = Null]
      /\ data' = [data EXCEPT ![tmp] = Null]
      /\ Release(tmp)
  BY <1>5 DEF list_delete_at, list_drop_elem
<1>7. PICK d : d = Without(c, n, pos, 1)
  OBVIOUS
<1>8. Chained(d, n - 1, next', prev')
  <2>1. next' \in [Place -> Place \cup {Null}] /\ prev' \in [Place -> Place \cup {Null}]
    BY <1>3, <1>5, <1>6 DEF Chained
  <2>2. next'[c[pos]] = c[pos + 2] /\ prev'[c[pos + 2]] = c[pos]
    BY <1>3, <1>5, <1>6 DEF Chained
  <2>3. \A i, j \in 0..(n + 1) : c[i] = c[j] => i = j
    BY <1>3 DEF Chained
  <2>4. \A i \in 0..(n + 1) : c[i] \in Place
    BY <1>3 DEF Chained
  <2>5. next \in [Place -> Place \cup {Null}] /\ prev \in [Place -> Place \cup {Null}]
    BY <1>3 DEF Chained
  <2>6. ASSUME NEW i \in 0..(n + 1), i # pos, i # pos + 1
        PROVE  next'[c[i]] = next[c[i]]
    BY <1>4, <1>5, <1>6, <2>3, <2>4, <2>5, <2>6
  <2>7. ASSUME NEW i \in 0..(n + 1), i # pos + 2, i # pos + 1
        PROVE  prev'[c[i]] = prev[c[i]]
    BY <1>4, <1>5, <1>6, <2>3, <2>4, <2>5, <2>7
  <2>8. /\ 1 \in 1..(n - pos) /\ pos + 1 + 1 = pos + 2
        /\ \A i \in 0..(n + 1) : i < pos \/ i > pos + 1 => i # pos /\ i # pos + 1
        /\ \A i \in 0..(n + 1) : i <= pos \/ i > pos + 2 => i # pos + 2 /\ i # pos + 1
    BY <1>2
  <2>9. /\ \A i \in 0..(n + 1) : i < pos \/ i > pos + 1 => next'[c[i]] = next[c[i]]
        /\ \A i \in 0..(n + 1) : i <= pos \/ i > pos + 2 => prev'[c[i]] = prev[c[i]]
    BY <2>6, <2>7, <2>8
  <2> HIDE DEF tmp
  <2>10. n \in Nat /\ pos \in 0..n /\ 1 \in 1..(n - pos) /\ pos + 1 + 1 = pos + 2
    BY <1>2, <1>4, <2>8
  <2>11. PassOver(next', prev', c, n, pos, 1, next, prev)
    BY <2>1, <2>2, <2>9, <2>10 DEF PassOver
  <2>12. Chained(Without(c, n, pos, 1), n - 1, next', prev')
    BY ONLY <1>3, <2>10, <2>11, ChainWithout
  <2> QED
    BY <1>7, <2>12
<1>9. /\ \A i \in 0..pos : d[i] = c[i]
      /\ \A i \in (pos + 1)..n : d[i] = c[i + 1]
      /\ {d[i] : i \in 1..(n - 1)} = {c[i] : i \in 1..n} \ {tmp}
  <2>1. 1 \in 1..(n - pos) /\ {c[i] : i \in (pos + 1)..(pos + 1)} = {tmp} /\ n + 1 - 1 = n
    BY <1>2
  <2>2. \A i, j \in 0..(n + 1) : c[i] = c[j] => i = j
    BY <1>3 DEF Chained
  <2>3. /\ \A i \in 0..pos : d[i] = c[i]
        /\ \A i \in (pos + 1)..(n + 1 - 1) : d[i] = c[i + 1]
        /\ \A i \in 1..(n - 1) : \E j \in 1..n : d[i] = c[j] /\ j \notin (pos + 1)..(pos + 1)
        /\ \A j \in 1..n : j \notin (pos + 1)..(pos + 1) => \E i \in 1..(n - 1) : d[i] = c[j]
    <3>1. n \in Nat /\ pos \in 0..n /\ 1 \in 1..(n - pos)
      BY <1>2, <1>4, <2>1
    <3>2. Lacks(d, c, n, pos, 1)
      BY <1>7, <3>1, WithoutEntries
    <3> QED
      BY <3>2 DEF Lacks
  <2>4. \A j \in 1..n : j \in 0..(n + 1) /\ (j \notin (pos + 1)..(pos + 1) <=> j # pos + 1)
    BY <1>2
  <2>5. \A j \in 1..n : j # pos + 1 <=> c[j] # tmp
    BY <1>4, <2>2, <2>4
  <2> HIDE DEF tmp
  <2> QED
    BY <2>1, <2>3, <2>4, <2>5
<1>10. mid' = IF n' = 0 THEN Null ELSE d[Middle(n') + 1]
  <2>1. CASE n = 1
    BY <1>2, <1>6, <2>1 DEF MidBeforeDrop
  <2>2. CASE n # 1 /\ n % 2 = 1
    <3>1. /\ Middle(n) = n \div 2 /\ Middle(n - 1) + 1 = n \div 2 /\ n \div 2 \in 1..(n - 1)
          /\ n \div 2 + 1 \in 0..n /\ n \div 2 \in 0..n
      BY <1>2, <2>2 DEF Middle
    <3>2. mid = c[n \div 2 + 1] /\ prev[mid] = c[n \div 2]
      BY <1>1, <1>2, <1>3, <3>1 DEF Linked, Chained
    <3>3. mid' = IF pos >= n \div 2 THEN prev[mid] ELSE mid
      BY <1>6, <2>2 DEF MidBeforeDrop
    <3>4. pos >= n \div 2 => n \div 2 \in 0..pos
      BY <1>2, <3>1
    <3>5. ~ (pos >= n \div 2) => n \div 2 \in (pos + 1)..n
      BY <1>2, <3>1
    <3> QED
      BY <1>2, <1>9, <2>2, <3>1, <3>2, <3>3, <3>4, <3>5
  <2>3. CASE n % 2 # 1
    <3>1. /\ Middle(n) + 1 = n \div 2 /\ Middle(n - 1) + 1 = n \div 2 /\ n \div 2 \in 1..(n - 1)
          /\ n \div 2 + 1 \in 0..n /\ n \div 2 \in 0..n /\ n # 0 /\ n # 1
      BY <1>2, <2>3 DEF Middle
    <3>2. mid = c[n \div 2] /\ next[mid] = c[n \div 2 + 1]
      BY <1>1, <1>2, <1>3, <3>1 DEF Linked, Chained
    <3>3. mid' = IF pos < n \div 2 THEN next[mid] ELSE mid
      BY <1>6, <2>3 DEF MidBeforeDrop
    <3>4. ~ (pos < n \div 2) => n \div 2 \in 0..pos
      BY <1>2, <3>1
    <3>5. pos < n \div 2 => n \div 2 \in (pos + 1)..n
      BY <1>2, <3>1
    <3> QED
      BY <1>2, <1>9, <2>3, <3>1, <3>2, <3>3, <3>4, <3>5
  <2> QED
    BY <1>2, <2>1, <2>2, <2>3
<1>11. /\ spareels' \in Seq(Entry) /\ Len(spareels') <= MaxSpare /\ IsInjective(spareels')
       /\ heap' \subseteq Entry
       /\ heap' = (heap \ {tmp}) \cup ToSet(spareels')
       /\ ToSet(spareels') \subseteq ToSet(spareels) \cup {tmp}
       /\ ToSet(spareels) \subseteq ToSet(spareels')
  <2>1. tmp \in heap /\ tmp \notin ToSet(spareels) /\ heap \subseteq Entry
    BY <1>1, <1>2, <1>3, <1>4 DEF Linked, Sizes
  <2>2. /\ spareels \in Seq(Entry) /\ IsInjective(spareels) /\ Len(spareels) \in Nat
        /\ Len(spareels) <= MaxSpare /\ MaxSpare \in Nat
    BY <1>2, SizeAssumption DEF Sizes
  <2>3. CASE Len(spareels) < MaxSpare
    <3> HIDE DEF tmp
    <3>1. spareels' = spareels \o <<tmp>> /\ heap' = heap
      <4>1. spareels' = Append(spareels, tmp) /\ heap' = heap
        BY <1>6, <2>3 DEF Release
      <4>2. Append(spareels, tmp) = spareels \o <<tmp>>
        BY <1>5, <2>2
      <4> QED
        BY <4>1, <4>2
    <3>2. <<tmp>> \in Seq(Entry) /\ IsInjective(<<tmp>>) /\ ToSet(<<tmp>>) = {tmp} /\ Len(<<tmp>>) = 1
      BY <1>5 DEF IsInjective, ToSet
    <3>3. ToSet(spareels) \cap ToSet(<<tmp>>) = {}
      BY <2>1, <3>2
    <3>4. /\ spareels' \in Seq(Entry) /\ Len(spareels') = Len(spareels) + Len(<<tmp>>)
          /\ IsInjective(spareels') /\ ToSet(spareels') = ToSet(spareels) \cup ToSet(<<tmp>>)
      <4> DEFINE t == <<tmp>>
      <4>1. t \in Seq(Entry) /\ IsInjective(t) /\ ToSet(spareels) \cap ToSet(t) = {}
        BY <3>2, <3>3
      <4> HIDE DEF t
      <4>2. /\ spareels \o t \in Seq(Entry) /\ Len(spareels \o t) = Len(spareels) + Len(t)
            /\ IsInjective(spareels \o t) /\ ToSet(spareels \o t) = ToSet(spareels) \cup ToSet(t)
        BY <2>2, <4>1, Stocked
      <4> QED
        BY <3>1, <4>2 DEF t
    <3>5. ToSet(spareels) \subseteq heap
      BY <1>3
    <3> QED
      BY <2>1, <2>2, <2>3, <3>1, <3>2, <3>4, <3>5
  <2>4. CASE ~ (Len(spareels) < MaxSpare)
    <3>1. spareels' = spareels /\ heap' = heap \ {tmp}
      BY <1>6, <2>4 DEF Release
    <3>2. ToSet(spareels) \subseteq heap
      BY <1>3
    <3> QED
      BY <2>1, <2>2, <3>1, <3>2
  <2> QED
    BY <2>3, <2>4
<1>12. heap' = {d[i] : i \in 1..(n - 1)} \cup ToSet(spareels')
  BY <1>3, <1>9, <1>11
<1>13. \A i \in 1..(n - 1) : d[i] \notin ToSet(spareels')
  <2>1. \A i \in 1..(n - 1) : d[i] \in {c[j] : j \in 1..n} \ {tmp}
    BY <1>9
  <2> HIDE DEF tmp
  <2> QED
    BY <1>1, <1>11, <2>1 DEF Linked
<1>14. Linked(d)'
  BY <1>2, <1>8, <1>10, <1>12, <1>13 DEF Linked
<1>15. Sizes' /\ Destroyed'
  <2>1. n' \in Nat /\ n' <= MaxLen
    BY <1>2, SizeAssumption
  <2> QED
    BY <1>2, <1>11, <2>1 DEF Sizes, Destroyed
<1>16. LInv'
  BY <1>14, <1>15 DEF LInv
<1> QED
  BY <1>6, <1>7, <1>14, <1>16

\* How far the middle is moved: to where it belongs, or, when nothing is left of the
\* list, beyond the head.
LEMMA MidMoveIs ==
  ASSUME Sizes, NEW k \in 1..numels, NEW a \in 0..(numels - k)
  PROVE  /\ k < numels => MidMove(a, k) =
              (IF Middle(numels - k) < a THEN Middle(numels - k) ELSE Middle(numels - k) + k)
                - Middle(numels)
         /\ k = numels => MidMove(a, k) \in Int /\ MidMove(a, k) <= - (MaxLen + 2)
<1> DEFINE n == numels
           U == UintMod
           half == ((n - 1 - k) % U) \div 2
           after == IF half < a THEN half ELSE (half + k) % U
           moved == (after - Middle(n)) % U
<1>1. n \in Nat /\ n <= MaxLen /\ MaxLen \in Nat /\ U \in Nat /\ U >= 4 * (MaxLen + 1)
  BY SizeAssumption DEF Sizes
<1>2. n # 0 /\ Middle(n) \in 0..(n - 1) /\ 2 * Middle(n) \in {n - 1, n - 2}
  BY <1>1, MiddleIn
<1>3. MidMove(a, k) = IF moved < U \div 2 THEN moved ELSE moved - U
  BY DEF MidMove
<1> HIDE DEF U, n
<1>4. ASSUME k < n
      PROVE  MidMove(a, k) =
               (IF Middle(n - k) < a THEN Middle(n - k) ELSE Middle(n - k) + k) - Middle(n)
  <2>1. n - 1 - k \in 0..(U - 1) /\ U \in Nat \ {0}
    BY <1>1, <1>4 DEF n
  <2>2. (n - 1 - k) % U = n - 1 - k
    BY <2>1, Remainder
  <2>3. half = Middle(n - k) /\ half \in 0..(n - k - 1)
    BY <1>1, <1>4, <2>2 DEF Middle, n
  <2> HIDE DEF half
  <2>4. half + k \in 0..(n - 1) /\ half + k \in 0..(U - 1)
    BY <1>1, <2>3 DEF n
  <2>5. after = (IF half < a THEN half ELSE half + k) /\ after \in 0..(n - 1)
    BY <1>1, <1>4, <2>1, <2>3, <2>4, Remainder DEF n
  <2> HIDE DEF after
  <2>6. CASE after >= Middle(n)
    <3>1. after - Middle(n) \in 0..(U - 1) /\ after - Middle(n) < U \div 2
      BY <1>1, <1>2, <2>5, <2>6
    <3>2. moved = after - Middle(n)
      BY <2>1, <3>1, Remainder
    <3> QED
      BY <1>3, <2>3, <2>5, <3>1, <3>2
  <2>7. CASE after < Middle(n)
    <3>1. after - Middle(n) \in (-U)..(-1) /\ ~ (after - Middle(n) + U < U \div 2)
      BY <1>1, <1>2, <2>5, <2>7
    <3>2. moved = after - Middle(n) + U
      BY <2>1, <3>1, Remainder
    <3>3. moved - U = after - Middle(n)
      BY <1>1, <1>2, <2>5, <3>2
    <3> QED
      BY <1>3, <2>3, <2>5, <3>1, <3>2, <3>3
  <2> QED
    BY <1>2, <2>5, <2>6, <2>7
<1>5. ASSUME k = n
      PROVE  MidMove(a, k) \in Int /\ MidMove(a, k) <= - (MaxLen + 2)
  <2>1. a = 0 /\ n - 1 - k = -1 /\ -1 \in (-U)..(-1) /\ U \in Nat \ {0}
    BY <1>1, <1>5 DEF n
  <2>2. (n - 1 - k) % U = U - 1
    <3>1. n - 1 - k \in Int /\ n - 1 - k \in (-U)..(-1) /\ n - 1 - k + U = U - 1
      BY <1>1, <2>1
    <3> QED
      BY <2>1, <3>1, Remainder
  <2>3. half = (U - 1) \div 2
    BY <1>1, <2>1, <2>2
  <2> HIDE DEF half
  <2>4. half \in Nat /\ ~ (half < a) /\ half + k \in 0..(U - 1)
        /\ 2 * half \in {U - 1, U - 2}
    BY <1>1, <1>5, <2>1, <2>3
  <2>5. after = half + k
    <3>1. half + k \in 0..(U - 1) /\ half + k \in Int /\ U \in Nat \ {0}
      BY <2>1, <2>4
    <3>2. (half + k) % U = half + k
      BY ONLY <3>1, Remainder
    <3> QED
      BY <2>4, <3>2
  <2> HIDE DEF after
  <2>6. half + k - Middle(n) \in 0..(U - 1) /\ half + k - Middle(n) >= half + 1
    BY <1>1, <1>2, <1>5, <2>4
  <2>7. moved = half + k - Middle(n)
    <3>1. after - Middle(n) \in 0..(U - 1) /\ after - Middle(n) \in Int
      BY <1>1, <1>2, <2>4, <2>5, <2>6
    <3>2. moved = after - Middle(n)
      BY <2>1, <3>1, Remainder
    <3> QED
      BY <1>1, <1>2, <2>4, <2>5, <3>2
  <2> HIDE DEF moved
  <2>8. ~ (moved < U \div 2)
    BY <1>1, <2>4, <2>6, <2>7
  <2>9. moved - U <= - (MaxLen + 2)
    BY <1>1, <1>2, <1>5, <2>4, <2>7
  <2>10. moved \in Int
    BY <2>6, <2>7
  <2> QED
    BY <1>1, <1>3, <2>8, <2>9, <2>10
<1> QED
  BY <1>4, <1>5 DEF n

\* What becomes of the entries that leave the list: some are spare, the rest is freed.
LEMMA Restocked ==
  ASSUME Sizes, NEW s \in Seq(Entry), IsInjective(s), NEW C, C \subseteq Entry,
         heap = (C \cup ToSet(s)) \cup ToSet(spareels),
         C \cap ToSet(s) = {}, ToSet(spareels) \cap (C \cup ToSet(s)) = {},
         spareels' = spareels \o Stock(s),
         heap' = heap \ (ToSet(s) \ ToSet(Stock(s)))
  PROVE  /\ spareels' \in Seq(Entry) /\ Len(spareels') <= MaxSpare /\ IsInjective(spareels')
         /\ heap' \subseteq Entry
         /\ heap' = C \cup ToSet(spareels') /\ C \cap ToSet(spareels') = {}
<1> DEFINE t == Stock(s)
<1>1. /\ t \in Seq(Entry) /\ IsInjective(t) /\ ToSet(t) \subseteq ToSet(s)
      /\ Len(t) <= MaxSpare - Len(spareels)
  BY StockIs
<1>2. /\ spareels \in Seq(Entry) /\ IsInjective(spareels) /\ Len(spareels) \in Nat
      /\ MaxSpare \in Nat /\ heap \subseteq Entry
  BY SizeAssumption DEF Sizes
<1> HIDE DEF t
<1>3. ToSet(spareels) \cap ToSet(t) = {}
  BY <1>1
<1>4. /\ spareels \o t \in Seq(Entry) /\ Len(spareels \o t) = Len(spareels) + Len(t)
      /\ IsInjective(spareels \o t) /\ ToSet(spareels \o t) = ToSet(spareels) \cup ToSet(t)
  BY <1>1, <1>2, <1>3, Stocked
<1>5. Len(t) \in Nat
  BY <1>1
<1>6. spareels' = spareels \o t /\ heap' = heap \ (ToSet(s) \ ToSet(t))
  BY DEF t
<1> QED
  BY <1>1, <1>2, <1>4, <1>5, <1>6

\* A range leaves the list; or all of it is asked to, and a null pointer is followed.
LEMMA RangeStep ==
  ASSUME LInv, NEW c, Linked(c), NEW a \in Nat, NEW b \in Nat, list_delete_range(a, b)
  PROVE  /\ LInv'
         /\ \/ UNCHANGED <<links, numels, iterator, sorting, alive>> /\ fault' # "none"
            \/ /\ \E d : d = Without(c, numels, a, b - a + 1) /\ Linked(d)'
               /\ data' = [p \in Place |-> IF \E i \in (a + 1)..(b + 1) : p = c[i]
                                          THEN Null ELSE data[p]]
<1> DEFINE n == numels
           k == b - a + 1
           dropped == [i \in 1..k |-> Walk(list_findpos(a), next, i - 1)]
           move == MidMove(a, Len(dropped))
           middle == IF move > 0 THEN Walk(mid, next, Min({move, MaxLen + 2}))
                                 ELSE Walk(mid, prev, Min({-move, MaxLen + 2}))
           Unset(f) == [p \in Place |-> IF p \in ToSet(dropped) THEN Null ELSE f[p]]
           before == prev[list_findpos(a)]
           beyond == Walk(list_findpos(a), next, Len(dropped))
<1>1. Linked(c)
  OBVIOUS
<1>2. /\ Sizes /\ n \in Nat /\ n <= MaxLen /\ a <= b /\ b < n /\ alive /\ ~ iter_active
      /\ k \in 1..(n - a) /\ a \in 0..(n - k) /\ a \in 0..n /\ k \in 1..n
  BY DEF LInv, Sizes, list_delete_range, Changeable, Ready
<1>3. Chained(c, n, next, prev) /\ heap = {c[i] : i \in 1..n} \cup ToSet(spareels)
  BY <1>1, <1>2 DEF Linked
<1>4. /\ c \in [0..(n + 1) -> Place]
      /\ \A i, j \in 0..(n + 1) : c[i] = c[j] => i = j
      /\ next \in [Place -> Place \cup {Null}] /\ prev \in [Place -> Place \cup {Null}]
  BY <1>3 DEF Chained
<1>5. list_findpos(a) = c[a + 1]
  BY <1>1, <1>2, FindPos
<1>6. /\ dropped \in Seq(Entry) /\ Len(dropped) = k /\ IsInjective(dropped)
      /\ ToSet(dropped) = {c[i] : i \in (a + 1)..(a + k)}
      /\ before = c[a] /\ beyond = c[a + k + 1]
  <2>1. \A i \in 1..k : Walk(c[a + 1], next, i - 1) = c[a + i] /\ a + i \in 1..n
    <3>1. ASSUME NEW i \in 1..k
          PROVE  Walk(c[a + 1], next, i - 1) = c[a + i] /\ a + i \in 1..n
      <4>1. /\ a + 1 \in Nat /\ i - 1 \in Nat /\ (a + 1) + (i - 1) = a + i
            /\ (a + 1) + (i - 1) <= n + 1 /\ a + i \in 1..n
        BY <1>2
      <4>2. Walk(c[a + 1], next, i - 1) = c[(a + 1) + (i - 1)]
        BY <1>2, <1>3, <4>1, WalkNext
      <4> QED
        BY <4>1, <4>2
    <3> QED
      BY <3>1
  <2>2. dropped = [i \in 1..k |-> c[a + i]]
    BY <1>5, <2>1
  <2> HIDE DEF dropped
  <2>3. \A i \in 1..n : c[i] \in Entry
    BY <1>2, <1>3, ChainEntries
  <2>4. dropped \in [1..k -> Entry] /\ k \in Nat
    BY <1>2, <2>1, <2>2, <2>3
  <2>5. dropped \in Seq(Entry) /\ Len(dropped) = k /\ DOMAIN dropped = 1..k
    BY <2>4
  <2>6. ToSet(dropped) = {c[i] : i \in (a + 1)..(a + k)}
    <3>1. \A i \in 1..k : a + i \in (a + 1)..(a + k)
      BY <1>2
    <3>2. \A i \in (a + 1)..(a + k) : i - a \in 1..k /\ a + (i - a) = i
      BY <1>2
    <3>3. \A i \in 1..k : dropped[i] \in {c[j] : j \in (a + 1)..(a + k)}
      BY <2>2, <3>1
    <3>4. \A i \in (a + 1)..(a + k) : c[i] = dropped[i - a]
      BY <2>2, <3>2
    <3> QED
      BY <2>5, <3>2, <3>3, <3>4 DEF ToSet
  <2>7. IsInjective(dropped)
    <3>1. \A i \in 1..k : a + i \in 0..(n + 1)
      BY <1>2
    <3>2. ASSUME NEW i \in 1..k, NEW j \in 1..k, dropped[i] = dropped[j]
          PROVE  i = j
      <4>1. a + i = a + j
        BY <1>4, <2>2, <3>1, <3>2
      <4> QED
        BY <1>2, <4>1
    <3> QED
      BY <2>5, <3>2 DEF IsInjective
  <2>8. before = c[a]
    BY <1>2, <1>3, <1>5 DEF Chained
  <2>9. beyond = c[a + k + 1]
    <3>1. (a + 1) + k = a + k + 1 /\ (a + 1) + k <= n + 1 /\ a + 1 \in Nat /\ k \in Nat
      BY <1>2
    <3>2. Walk(c[a + 1], next, k) = c[(a + 1) + k]
      BY <1>2, <1>3, <3>1, WalkNext
    <3> QED
      BY <1>5, <2>5, <3>1, <3>2
  <2> QED
    BY <2>5, <2>6, <2>7, <2>8, <2>9
<1>7. IF middle = Null
      THEN UNCHANGED <<links, numels, mid, spareels, iterator, sorting, heap, alive>>
           /\ fault' = "list_delete_range"
      ELSE /\ mid'  = middle
           /\ next' = [Unset(next) EXCEPT ![before] = beyond]
           /\ prev' = [Unset(prev) EXCEPT ![beyond] = before]
           /\ data' = Unset(data)
           /\ spareels' = spareels \o Stock(dropped)
           /\ heap'   = heap \ (ToSet(dropped) \ ToSet(Stock(dropped)))
           /\ numels' = numels - Len(dropped)
           /\ UNCHANGED <<iterator, sorting, alive>>
  BY DEF list_delete_range
<1>8. CASE middle = Null
  <2>1. UNCHANGED <<next, prev, numels, mid, spareels, heap>> /\ alive' = alive
        /\ iter_active' = iter_active
    BY <1>7, <1>8 DEF links, iterator
  <2>2. iter_active' \in BOOLEAN /\ ~ iter_active'
    BY <1>2, <2>1 DEF Sizes
  <2>3. LInv'
    BY <1>2, <2>1, <2>2, ListUntouched
  <2> QED
    BY <1>7, <1>8, <2>3
<1>9. CASE middle # Null
  <2>1. PICK d : d = Without(c, n, a, k)
    OBVIOUS
  <2> HIDE DEF dropped, middle, before, beyond, n, k
  <2>2. /\ mid'  = middle
        /\ next' = [Unset(next) EXCEPT ![c[a]] = c[a + k + 1]]
        /\ prev' = [Unset(prev) EXCEPT ![c[a + k + 1]] = c[a]]
        /\ spareels' = spareels \o Stock(dropped)
        /\ heap'   = heap \ (ToSet(dropped) \ ToSet(Stock(dropped)))
        /\ n' = n - k
        /\ alive' = alive /\ iter_active' = iter_active
    BY <1>6, <1>7, <1>9 DEF n, iterator
  <2>3. /\ \A i \in 0..(n + 1) : c[i] \in Place /\ (c[i] \in ToSet(dropped) <=> i \in (a + 1)..(a + k))
        /\ a \in 0..(n + 1) /\ a + k + 1 \in 0..(n + 1)
        /\ a \notin (a + 1)..(a + k) /\ a + k + 1 \notin (a + 1)..(a + k)
    <3>1. \A i \in (a + 1)..(a + k) : i \in 0..(n + 1)
      BY <1>2
    <3>2. \A i \in 0..(n + 1) : c[i] \in ToSet(dropped) <=> i \in (a + 1)..(a + k)
      BY <1>4, <1>6, <3>1
    <3>3. /\ a \in 0..(n + 1) /\ a + k + 1 \in 0..(n + 1)
          /\ a \notin (a + 1)..(a + k) /\ a + k + 1 \notin (a + 1)..(a + k)
      BY <1>2
    <3> QED
      BY <1>4, <3>2, <3>3
  <2>4. /\ next' \in [Place -> Place \cup {Null}] /\ prev' \in [Place -> Place \cup {Null}]
        /\ next'[c[a]] = c[a + k + 1] /\ prev'[c[a + k + 1]] = c[a]
    BY <1>4, <2>2, <2>3
  <2>5. ASSUME NEW i \in 0..(n + 1), i < a \/ i > a + k
        PROVE  next'[c[i]] = next[c[i]]
    <3>1. i # a /\ i \notin (a + 1)..(a + k)
      BY <1>2, <2>5
    <3> QED
      BY <1>4, <2>2, <2>3, <3>1
  <2>6. ASSUME NEW i \in 0..(n + 1), i <= a \/ i > a + k + 1
        PROVE  prev'[c[i]] = prev[c[i]]
    <3>1. i # a + k + 1 /\ i \notin (a + 1)..(a + k)
      BY <1>2, <2>6
    <3> QED
      BY <1>4, <2>2, <2>3, <3>1
  <2>7. Chained(d, n - k, next', prev')
    <3>1. PassOver(next', prev', c, n, a, k, next, prev)
      BY <2>4, <2>5, <2>6 DEF PassOver
    <3>2. Chained(Without(c, n, a, k), n - k, next', prev')
      BY <1>2, <1>3, <3>1, ChainWithout
    <3> QED
      BY <2>1, <3>2
  <2>8. Lacks(d, c, n, a, k)
    BY <1>2, <2>1, WithoutEntries
  <2>9. mid' = IF n' = 0 THEN Null ELSE d[Middle(n') + 1]
    <3>1. n # 0 /\ mid = c[Middle(n) + 1] /\ Middle(n) \in 0..(n - 1)
      BY <1>1, <1>2, MiddleIn DEF Linked, n
    <3>2. /\ k < n => MidMove(a, k) =
                (IF Middle(n - k) < a THEN Middle(n - k) ELSE Middle(n - k) + k) - Middle(n)
          /\ k = n => MidMove(a, k) \in Int /\ MidMove(a, k) <= - (MaxLen + 2)
      BY <1>2, MidMoveIs DEF n
    <3>3. middle = IF MidMove(a, k) > 0 THEN Walk(mid, next, Min({MidMove(a, k), MaxLen + 2}))
                                        ELSE Walk(mid, prev, Min({-MidMove(a, k), MaxLen + 2}))
      BY <1>6 DEF middle
    <3>4. MaxLen \in Nat
      BY SizeAssumption
    <3>5. CASE k = n
      <4>1. /\ -MidMove(a, k) \in Int /\ MaxLen + 2 \in Int /\ ~ (MidMove(a, k) > 0)
            /\ MaxLen + 2 <= -MidMove(a, k)
        BY <3>2, <3>4, <3>5
      <4>2. Min({-MidMove(a, k), MaxLen + 2}) = MaxLen + 2
        BY <4>1, MinOfTwo
      <4>3. MaxLen + 2 \in Nat /\ ~ (MaxLen + 2 <= Middle(n) + 1) /\ Middle(n) + 1 \in 0..(n + 1)
        BY <1>2, <3>1, <3>4
      <4>4. Walk(mid, prev, MaxLen + 2) = Null
        BY <1>2, <1>3, <3>1, <4>3, WalkPrev
      <4> QED
        BY <1>9, <3>3, <4>1, <4>2, <4>4
    <3>6. CASE k < n
      <4> DEFINE half == Middle(n - k)
                 after == IF half < a THEN half ELSE half + k
                 m == MidMove(a, k)
      <4>1. half \in 0..(n - k - 1)
        BY <1>2, <3>6, MiddleIn
      <4>2. m = after - Middle(n)
        BY <3>2, <3>6
      <4> HIDE DEF half, m
      <4>3. after \in 0..(n - 1) /\ m \in Int /\ Middle(n) + 1 + m = after + 1
        BY <1>2, <3>1, <4>1, <4>2
      <4>4. d[half + 1] = c[after + 1]
        <5>1. CASE half < a
          <6>1. half + 1 \in 0..a
            BY <1>2, <4>1, <5>1
          <6> QED
            BY <2>8, <5>1, <6>1 DEF Lacks
        <5>2. CASE ~ (half < a)
          <6>1. half + 1 \in (a + 1)..(n + 1 - k) /\ (half + 1) + k = half + k + 1
            BY <1>2, <4>1, <5>2
          <6>2. d[half + 1] = c[(half + 1) + k]
            BY <2>8, <6>1 DEF Lacks
          <6> QED
            BY <5>2, <6>1, <6>2
        <5> QED
          BY <5>1, <5>2
      <4> HIDE DEF after
      <4>5. middle = c[after + 1]
        <5>1. CASE m > 0
          <6>1. m \in Int /\ MaxLen + 2 \in Int /\ m <= MaxLen + 2
            BY <1>2, <3>1, <3>4, <4>2, <4>3
          <6>2. Min({m, MaxLen + 2}) = m
            BY <6>1, MinOfTwo
          <6>3. Middle(n) + 1 \in Nat /\ m \in Nat /\ (Middle(n) + 1) + m = after + 1
                /\ (Middle(n) + 1) + m <= n + 1
            BY <1>2, <3>1, <4>3, <5>1
          <6>4. Walk(mid, next, m) = c[(Middle(n) + 1) + m]
            BY <1>2, <1>3, <3>1, <6>3, WalkNext
          <6> QED
            BY <3>3, <5>1, <6>2, <6>3, <6>4 DEF m
        <5>2. CASE ~ (m > 0)
          <6>1. -m \in Int /\ MaxLen + 2 \in Int /\ -m <= MaxLen + 2
            BY <1>2, <3>1, <3>4, <4>2, <4>3
          <6>2. Min({-m, MaxLen + 2}) = -m
            BY <6>1, MinOfTwo
          <6>3. Middle(n) + 1 \in 0..(n + 1) /\ -m \in Nat /\ (Middle(n) + 1) - (-m) = after + 1
                /\ -m <= Middle(n) + 1
            BY <1>2, <3>1, <4>3, <5>2
          <6>4. Walk(mid, prev, -m) = c[(Middle(n) + 1) - (-m)]
            BY <1>2, <1>3, <3>1, <6>3, WalkPrev
          <6> QED
            BY <3>3, <5>2, <6>2, <6>3, <6>4 DEF m
        <5> QED
          BY <5>1, <5>2
      <4>6. n' = n - k /\ n - k # 0
        BY <1>2, <2>2, <3>6
      <4> QED
        BY <2>2, <4>4, <4>5, <4>6 DEF half
    <3> QED
      BY <1>2, <3>5, <3>6
  <2> DEFINE C == {d[i] : i \in 1..(n - k)}
  <2>10. {c[i] : i \in 1..n} = C \cup ToSet(dropped) /\ C \cap ToSet(dropped) = {} /\ C \subseteq Entry
    <3>1. \A i \in 1..n : i \in 0..(n + 1)
      BY <1>2
    <3>2. \A i \in (a + 1)..(a + k) : i \in 1..n
      BY <1>2
    <3>3. \A i \in 1..n : c[i] \in Entry
      BY <1>2, <1>3, ChainEntries
    <3>4. C \subseteq {c[i] : i \in 1..n} \ ToSet(dropped)
      BY <2>3, <2>8, <3>1 DEF Lacks
    <3>5. {c[i] : i \in 1..n} \ ToSet(dropped) \subseteq C
      BY <2>3, <2>8, <3>1 DEF Lacks
    <3>6. ToSet(dropped) \subseteq {c[i] : i \in 1..n}
      BY <1>6, <3>2
    <3> QED
      BY <3>3, <3>4, <3>5, <3>6
  <2>11. ToSet(spareels) \cap {c[i] : i \in 1..n} = {}
    BY <1>1 DEF Linked, n
  <2>12. /\ spareels' \in Seq(Entry) /\ Len(spareels') <= MaxSpare /\ IsInjective(spareels')
         /\ heap' \subseteq Entry
         /\ heap' = C \cup ToSet(spareels') /\ C \cap ToSet(spareels') = {}
    <3>1. heap = (C \cup ToSet(dropped)) \cup ToSet(spareels)
          /\ ToSet(spareels) \cap (C \cup ToSet(dropped)) = {}
      BY <1>3, <2>10, <2>11
    <3> HIDE DEF C
    <3> QED
      BY <1>2, <1>6, <2>2, <2>10, <3>1, Restocked
  <2>13. Linked(d)'
    BY <1>2, <2>2, <2>7, <2>9, <2>12 DEF Linked, n
  <2>14. Sizes' /\ Destroyed'
    <3>1. n' \in Nat /\ n' <= MaxLen
      BY <1>2, <2>2, SizeAssumption
    <3> QED
      BY <1>2, <2>2, <2>12, <3>1 DEF Sizes, Destroyed, n
  <2>15. LInv'
    BY <2>13, <2>14 DEF LInv
  <2>16. data' = [p \in Place |-> IF \E i \in (a + 1)..(b + 1) : p = c[i] THEN Null ELSE data[p]]
    <3>1. a + k = b + 1
      BY <1>2 DEF k
    <3>2. \A p : p \in ToSet(dropped) <=> \E i \in (a + 1)..(b + 1) : p = c[i]
      BY <1>6, <3>1
    <3> QED
      BY <1>7, <1>9, <3>2
  <2> QED
    BY <2>1, <2>13, <2>15, <2>16 DEF n, k
<1> QED
  BY <1>8, <1>9

\* What list_clear leaves is the chain of no items.
LEMMA EmptyStep ==
  ASSUME Emptied, spareels' \in Seq(Entry), Len(spareels') <= MaxSpare, IsInjective(spareels'),
         heap' \subseteq Entry, iter_active' \in BOOLEAN, alive' \in BOOLEAN,
         alive' => heap' = ToSet(spareels') /\ ~ iter_active',
         ~ alive' => spareels' = <<>> /\ (heap' = {} \/ iter_active')
  PROVE  LInv'
<1>1. PICK c : c = [i \in 0..1 |-> IF i = 0 THEN head_sentinel ELSE tail_sentinel]
  OBVIOUS
<1>2. numels' = 0 /\ mid' = Null /\ next' = EmptyNext /\ prev' = EmptyPrev
  BY DEF Emptied
<1>3. Chained(c, 0, next', prev')
  BY <1>1, <1>2, Sentinels DEF Chained, EmptyNext, EmptyPrev
<1>4. {c[i] : i \in 1..0} = {}
  OBVIOUS
<1>5. Linked(c)'
  BY <1>2, <1>3, <1>4 DEF Linked
<1>6. Sizes'
  BY <1>2, SizeAssumption DEF Sizes
<1>7. Destroyed'
  BY <1>2 DEF Destroyed
<1> QED
  BY <1>5, <1>6, <1>7 DEF LInv

\* Clearing the list stocks its entries or frees them.
LEMMA ClearStep ==
  ASSUME LInv, list_clear
  PROVE  LInv'
<1> DEFINE s == [i \in 1..numels |-> Walk(head_sentinel, next, i)]
<1>1. PICK c : Linked(c)
  BY DEF LInv
<1>2. Sizes /\ numels \in Nat /\ Chained(c, numels, next, prev) /\ alive /\ ~ iter_active
      /\ iter_active' = iter_active /\ alive' = alive
  BY <1>1 DEF LInv, Sizes, Linked, list_clear, Changeable, Ready, iterator
<1>3. s = [i \in 1..numels |-> c[i]]
  BY <1>1, <1>2, ChainIs DEF Chain
<1>4. spareels' = spareels \o Stock(s) /\ heap' = heap \ (ToSet(s) \ ToSet(Stock(s))) /\ Emptied
  BY DEF list_clear
<1> HIDE DEF s
<1>5. /\ s \in Seq(Entry) /\ IsInjective(s) /\ ToSet(s) = {c[i] : i \in 1..numels}
  <2>1. \A i \in 1..numels : c[i] \in Entry /\ i \in 0..(numels + 1)
    BY <1>2, ChainEntries
  <2>2. s \in [1..numels -> Entry]
    BY <1>3, <2>1
  <2>3. s \in Seq(Entry) /\ DOMAIN s = 1..numels
    BY <1>2, <2>2
  <2> QED
    BY <1>2, <1>3, <2>1, <2>3 DEF IsInjective, ToSet, Chained
<1>6. PICK C : C = {}
  OBVIOUS
<1>7. /\ heap = (C \cup ToSet(s)) \cup ToSet(spareels) /\ C \subseteq Entry
      /\ C \cap ToSet(s) = {} /\ ToSet(spareels) \cap (C \cup ToSet(s)) = {}
  BY <1>1, <1>2, <1>5, <1>6 DEF Linked
<1>8. /\ spareels' \in Seq(Entry) /\ Len(spareels') <= MaxSpare /\ IsInjective(spareels')
      /\ heap' \subseteq Entry /\ heap' = C \cup ToSet(spareels')
  BY <1>2, <1>4, <1>5, <1>7, Restocked
<1> QED
  BY <1>2, <1>4, <1>6, <1>8, EmptyStep DEF Sizes

\* A list that is destroyed, or initialised again, is an empty one.
LEMMA DestroyStep ==
  ASSUME LInv, list_destroy \/ list_init
  PROVE  LInv'
<1>1. spareels' = <<>> /\ Emptied /\ alive' \in BOOLEAN /\ iter_active' \in BOOLEAN
      /\ heap' \subseteq Entry
  BY DEF LInv, Sizes, list_destroy, list_init, iterator
<1>2. <<>> \in Seq(Entry) /\ Len(<<>>) <= MaxSpare /\ IsInjective(<<>>) /\ ToSet(<<>>) = {}
  BY SizeAssumption DEF IsInjective, ToSet
<1>3. /\ alive' => heap' = {} /\ ~ iter_active'
      /\ ~ alive' => heap' = {} \/ iter_active'
  BY DEF list_destroy, list_init, iterator
<1> QED
  BY <1>1, <1>2, <1>3, EmptyStep

\* An iteration steps along the chain.
LEMMA IterateStep ==
  ASSUME LInv, list_iterator_start \/ list_iterator_next \/ list_iterator_stop
  PROVE  LInv'
<1>1. UNCHANGED <<next, prev, numels, mid, spareels, heap>> /\ alive' = alive /\ alive
      /\ Sizes /\ numels \in Nat
  BY DEF LInv, Sizes, links, Ready, list_iterator_start, list_iterator_next, list_iterator_stop
<1>2. iter_active' \in BOOLEAN
  BY <1>1 DEF Sizes, list_iterator_start, list_iterator_next, list_iterator_stop
<1>3. ASSUME iter_active'
      PROVE  iter_pos' \in 0..numels /\ \A c : Linked(c) => iter_curentry' = c[iter_pos' + 1]
  <2>1. ASSUME NEW c, Linked(c)
        PROVE  iter_pos' \in 0..numels /\ iter_curentry' = c[iter_pos' + 1]
    <3>1. Chained(c, numels, next, prev) /\ c[0] = head_sentinel
      BY <2>1 DEF Linked, Chained
    <3>2. CASE list_iterator_start
      <4>1. next[c[0]] = c[0 + 1] /\ 0 \in 0..numels
        BY <1>1, <3>1 DEF Chained
      <4> QED
        BY <1>1, <3>1, <3>2, <4>1 DEF list_iterator_start
    <3>3. CASE list_iterator_next
      <4>1. iter_pos \in 0..numels /\ iter_curentry = c[iter_pos + 1] /\ iter_pos < numels
            /\ iter_pos' = iter_pos + 1 /\ iter_curentry' = next[iter_curentry]
        BY <1>1, <2>1, <3>3 DEF Linked, list_iterator_next
      <4>2. iter_pos + 1 \in 0..numels
        BY <1>1, <4>1
      <4>3. next[c[iter_pos + 1]] = c[(iter_pos + 1) + 1]
        BY <3>1, <4>2 DEF Chained
      <4> QED
        BY <4>1, <4>2, <4>3
    <3>4. CASE list_iterator_stop
      BY <1>3, <3>4 DEF list_iterator_stop
    <3> QED
      BY <3>2, <3>3, <3>4
  <2>2. \E c : Linked(c)
    BY DEF LInv
  <2> QED
    BY <2>1, <2>2
<1> QED
  BY <1>1, <1>2, <1>3, ListUntouched

\* Sorting moves the data, not the entries.
LEMMA SortStep ==
  ASSUME LInv, (\E versus \in {-1, 1} : list_sort(versus)) \/ list_sort_quicksort \/ UNCHANGED vars
  PROVE  LInv'
<1>1. PICK c : Linked(c)
  BY DEF LInv
<1>2. UNCHANGED <<next, prev, numels, mid, spareels, heap, alive, iterator>>
  BY DEF list_sort, list_sort_quicksort, vars, links
<1>3. Chained(c, numels, next, prev)'
  BY <1>1, <1>2 DEF Linked, Chained
<1>4. ToSet(spareels') = ToSet(spareels)
  BY <1>2 DEF ToSet
<1>5. Linked(c)'
  BY <1>1, <1>2, <1>3, <1>4 DEF Linked, iterator
<1>6. Sizes' /\ Destroyed'
  BY <1>2 DEF LInv, Sizes, Destroyed, IsInjective, iterator
<1> QED
  BY <1>5, <1>6 DEF LInv

\* The invariant holds in every state.
THEOREM LInvHolds == Spec => []LInv
<1>1. Init => LInv
  BY LInvInit
<1>2. LInv /\ [Next]_vars => LInv'
  <2> SUFFICES ASSUME LInv, [Next]_vars PROVE LInv'
    OBVIOUS
  <2>1. numels \in Nat
    BY DEF LInv, Sizes
  <2> PICK c : Linked(c)
    BY DEF LInv
  <2>2. ASSUME NEW d \in Data, list_append(d) \/ list_prepend(d)
        PROVE  LInv'
    BY <2>1, <2>2, InsertStep DEF list_append, list_prepend
  <2>3. ASSUME NEW d \in Data, list_delete(d)
        PROVE  LInv'
    <3>1. PICK i \in Positions(d) : \A j \in Positions(d) : i <= j
      <4>1. Positions(d) \subseteq Nat /\ Positions(d) # {}
        BY <2>1, <2>3 DEF Positions, list_delete
      <4> QED
        BY <4>1, Least
    <3>2. list_locate(d) \in Positions(d)
      BY <3>1, Zenon DEF list_locate
    <3>3. list_locate(d) \in Nat
      BY <2>1, <3>2 DEF Positions
    <3> QED
      BY <2>3, <3>3, DropStep DEF list_delete
  <2>4. ASSUME NEW d \in Data, NEW pos \in 1..(numels - 1), list_insert_at(d, pos)
        PROVE  LInv'
    BY <2>1, <2>4, InsertStep
  <2>5. ASSUME NEW pos \in 0..(numels - 1), list_delete_at(pos)
        PROVE  LInv'
    BY <2>1, <2>5, DropStep
  <2>6. ASSUME NEW a \in 0..(numels - 1), NEW b \in a..(numels - 1), list_delete_range(a, b)
        PROVE  LInv'
    BY <2>1, <2>6, RangeStep
  <2> QED
    BY <2>2, <2>3, <2>4, <2>5, <2>6, ClearStep, DestroyStep, IterateStep, SortStep DEF Next
<1> QED
  BY <1>1, <1>2, PTL DEF Spec

\* The chain is doubly linked, as long as numels says, and mid is in the middle of it: what
\* list_repOk asserts, for lists of every length.
THEOREM RepOkHolds == Spec => []RepOk
  BY LInvHolds, RepFollows, PTL

\* No entry is leaked, and none is used after it is freed.
THEOREM EntriesAccountedHolds == Spec => []EntriesAccounted
  BY LInvHolds, AccountFollows, PTL

\* An iteration always stands at the entry it is about to hand out.
THEOREM IteratorInPlaceHolds == Spec => []IteratorInPlace
  BY LInvHolds, IteratorFollows, PTL

=============================================================================
