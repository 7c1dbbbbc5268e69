----------------------------- MODULE SortProofs ----------------------------
(***************************************************************************)
(* list_sort of simclist, for lists and parts of every length: every call  *)
(* of list_sort_quicksort rearranges the data of its part and of no other  *)
(* entry, and leaves it split at the pivot, or sorted.  From it, what the  *)
(* runs check of the items: that each operation acts on the one it is      *)
(* asked for, and that the pointers implement a sequence.                  *)
(*                                                                         *)
(* Pointers are read as places c[i] of the chain c that links the list.    *)
(* Loops are runs, the states after each of their turns.                   *)
(***************************************************************************)
EXTENDS SimcListProofs, FiniteSetTheorems, SequenceTheorems

-----------------------------------------------------------------------------
(* Loops.                                                                    *)

\* The states in V after each of N turns of F.
RunOf(f, V, a, F, N) ==
  f \in [0..N -> V] /\ f[0] = a /\ \A n \in 1..N : n - 1 \in 0..N /\ f[n] = F[f[n - 1]]

\* A loop that goes on from any state has a run of any length.
LEMMA LoopRuns ==
  ASSUME NEW V, NEW a \in V, NEW F \in [V -> V], NEW N \in Nat
  PROVE  \E f : RunOf(f, V, a, F, N)
<1> DEFINE Run(f, n) == f[0] = a /\ \A k \in 1..n : f[k] = F[f[k - 1]]
           Has(n) == \E f \in [0..n -> V] : Run(f, n)
           S == {n \in Nat : ~ Has(n)}
<1>1. SUFFICES ASSUME S # {} PROVE FALSE
  <2>1. CASE S = {}
    <3>1. PICK f \in [0..N -> V] : Run(f, N)
      BY <2>1
    <3>2. \A n \in 1..N : n - 1 \in 0..N
      OBVIOUS
    <3>3. RunOf(f, V, a, F, N)
      BY <3>1, <3>2 DEF RunOf
    <3> QED
      BY <3>3
  <2> QED
    BY <2>1
<1>2. PICK x \in S : \A y \in S : x <= y
  <2>1. S \subseteq Nat
    OBVIOUS
  <2> HIDE DEF S
  <2> QED
    BY <1>1, <2>1, Least
<1>3. x \in Nat /\ ~ Has(x)
  OBVIOUS
<1>4. Has(0)
  <2> DEFINE g == [n \in 0..0 |-> a]
  <2>1. g \in [0..0 -> V] /\ Run(g, 0)
    OBVIOUS
  <2> QED
    BY <2>1
<1>5. x - 1 \in Nat /\ x # 0 /\ ~ (x <= x - 1)
  <2> HIDE DEF Has
  <2>1. x # 0
    BY <1>3, <1>4
  <2> QED
    BY <1>3, <2>1
<1>6. Has(x - 1)
  <2> HIDE DEF Has
  <2>1. x - 1 \notin S
    <3> HIDE DEF S
    <3> QED
      BY <1>2, <1>5
  <2> QED
    BY <2>1, <1>5
<1>7. PICK f \in [0..(x - 1) -> V] : Run(f, x - 1)
  BY <1>6
<1> DEFINE g == [n \in 0..x |-> IF n = x THEN F[f[x - 1]] ELSE f[n]]
<1>8. /\ \A n \in 0..x : n # x => n \in 0..(x - 1)
      /\ x - 1 \in 0..(x - 1) /\ x - 1 # x /\ x - 1 \in 0..x
      /\ \A n \in 1..x : n - 1 \in 0..x /\ n - 1 # x /\ (n # x => n \in 1..(x - 1) /\ n \in 0..x)
  BY <1>5
<1>9. g \in [0..x -> V]
  BY <1>8
<1>10. Run(g, x)
  <2>1. g[0] = a
    BY <1>5, <1>7
  <2>2. ASSUME NEW k \in 1..x PROVE g[k] = F[g[k - 1]]
    <3>1. g[k - 1] = f[k - 1]
      BY <1>8
    <3>2. CASE k = x
      BY <3>1, <3>2, <1>8
    <3>3. CASE k # x
      <4>1. g[k] = f[k] /\ f[k] = F[f[k - 1]]
        BY <3>3, <1>7, <1>8
      <4> QED
        BY <4>1, <3>1
    <3> QED
      BY <3>2, <3>3
  <2> QED
    BY <2>1, <2>2
<1> QED
  BY <1>3, <1>9, <1>10

\* What holds of the first state of a run and is kept by every turn holds of the last.
LEMMA RunKeeps ==
  ASSUME NEW n \in Nat, NEW S, S \subseteq 0..n, 0 \in S,
         \A k \in 1..n : k - 1 \in S => k \in S
  PROVE  S = 0..n
<1> DEFINE T == {k \in 0..n : k \notin S}
<1>1. SUFFICES ASSUME T # {} PROVE FALSE
  OBVIOUS
<1>2. PICK x \in T : \A y \in T : x <= y
  <2>1. T \subseteq Nat
    OBVIOUS
  <2> HIDE DEF T
  <2> QED
    BY <1>1, <2>1, Least
<1>3. x \in 1..n /\ x \notin S
  OBVIOUS
<1>4. x - 1 \in 0..n /\ ~ (x <= x - 1)
  BY <1>3
<1>5. x - 1 \in S
  BY <1>2, <1>4
<1> QED
  BY <1>3, <1>5

\* Two runs that start alike and go on alike end alike.
LEMMA SameRun ==
  ASSUME NEW n \in Nat, NEW w, NEW f, w[0] = f[0],
         \A k \in 1..n : w[k - 1] = f[k - 1] => w[k] = f[k]
  PROVE  w[n] = f[n]
<1> DEFINE S == {k \in 0..n : w[k] = f[k]}
<1>1. S \subseteq 0..n /\ 0 \in S /\ \A k \in 1..n : k - 1 \in S => k \in S
  OBVIOUS
<1> HIDE DEF S
<1>2. S = 0..n
  BY <1>1, RunKeeps
<1>3. n \in S
  BY <1>2
<1> QED
  BY <1>3 DEF S

-----------------------------------------------------------------------------
(* Rearrangements of the data of the entries from a to b of a chain.         *)

Permutes(f, a, b) ==
  /\ f \in [a..b -> a..b]
  /\ \A i, j \in a..b : f[i] = f[j] => i = j
  /\ \A j \in a..b : \E i \in a..b : f[i] = j

Elsewhere(p, c, a, b) == \A i \in a..b : p # c[i]

Rearranged(d, e, c, a, b) ==
  /\ \E f : Permutes(f, a, b) /\ \A i \in a..b : e[c[i]] = d[c[f[i]]]
  /\ \A p \in Place : Elsewhere(p, c, a, b) => e[p] = d[p]

\* Leaving everything as it is.
LEMMA RearrangedNot ==
  ASSUME NEW d, NEW c, NEW a \in Int, NEW b \in Int
  PROVE  Rearranged(d, d, c, a, b)
<1> DEFINE f == [i \in a..b |-> i]
<1>1. Permutes(f, a, b) /\ \A i \in a..b : d[c[i]] = d[c[f[i]]]
  BY DEF Permutes
<1> QED
  BY <1>1, Zenon DEF Rearranged

\* One rearrangement after the other.
LEMMA RearrangedTwice ==
  ASSUME NEW d, NEW e, NEW g, NEW c, NEW a \in Int, NEW b \in Int,
         Rearranged(d, e, c, a, b), Rearranged(e, g, c, a, b)
  PROVE  Rearranged(d, g, c, a, b)
<1>1. PICK f1 : Permutes(f1, a, b) /\ \A i \in a..b : e[c[i]] = d[c[f1[i]]]
  BY DEF Rearranged
<1>2. PICK f2 : Permutes(f2, a, b) /\ \A i \in a..b : g[c[i]] = e[c[f2[i]]]
  BY DEF Rearranged
<1> DEFINE f == [i \in a..b |-> f1[f2[i]]]
           D == a..b
<1>3. /\ f1 \in [D -> D] /\ f2 \in [D -> D]
      /\ \A i, j \in D : f1[i] = f1[j] => i = j
      /\ \A i, j \in D : f2[i] = f2[j] => i = j
      /\ \A j \in D : \E i \in D : f1[i] = j
      /\ \A j \in D : \E i \in D : f2[i] = j
  BY <1>1, <1>2 DEF Permutes
<1>4. /\ \A i \in D : e[c[i]] = d[c[f1[i]]]
      /\ \A i \in D : g[c[i]] = e[c[f2[i]]]
      /\ f = [i \in D |-> f1[f2[i]]]
  BY <1>1, <1>2
<1>5. Permutes(f, a, b) <=> /\ f \in [D -> D]
                            /\ \A i, j \in D : f[i] = f[j] => i = j
                            /\ \A j \in D : \E i \in D : f[i] = j
  BY DEF Permutes
<1> HIDE DEF D, f
<1>6. f \in [D -> D] /\ \A i \in D : g[c[i]] = d[c[f[i]]]
  BY <1>3, <1>4
<1>7. \A i, j \in D : f[i] = f[j] => i = j
  BY <1>3, <1>4
<1>8. \A j \in D : \E i \in D : f[i] = j
  BY <1>3, <1>4
<1>9. Permutes(f, a, b) /\ \A i \in a..b : g[c[i]] = d[c[f[i]]]
  BY <1>5, <1>6, <1>7, <1>8 DEF D
<1>10. \A p \in Place : Elsewhere(p, c, a, b) => g[p] = d[p]
  BY DEF Rearranged
<1> QED
  BY <1>9, <1>10, Zenon DEF Rearranged

\* The data of x goes to z, that of z to y and that of y to x, where x and y may be one.
LEMMA Rotated ==
  ASSUME NEW a \in Int, NEW b \in Int, NEW c, NEW V, NEW d \in [Place -> V],
         \A i, j \in a..b : c[i] = c[j] => i = j,
         \A i \in a..b : c[i] \in Place,
         NEW x \in a..b, NEW y \in a..b, NEW z \in a..b, x # z, y # z
  PROVE  LET e == [d EXCEPT ![c[x]] = d[c[y]], ![c[y]] = d[c[z]], ![c[z]] = d[c[x]]]
         IN  e \in [Place -> V] /\ Rearranged(d, e, c, a, b)
<1> DEFINE e == [d EXCEPT ![c[x]] = d[c[y]], ![c[y]] = d[c[z]], ![c[z]] = d[c[x]]]
           D == a..b
           f == [k \in D |-> IF k = z THEN x ELSE IF k = y THEN z ELSE IF k = x THEN y ELSE k]
<1>1. x \in D /\ y \in D /\ z \in D /\ x # z /\ y # z
  OBVIOUS
<1>2. Permutes(f, a, b) <=> /\ f \in [D -> D]
                            /\ \A i, j \in D : f[i] = f[j] => i = j
                            /\ \A j \in D : \E i \in D : f[i] = j
  BY DEF Permutes
<1>3. \A i, j \in D : c[i] = c[j] => i = j
  OBVIOUS
<1>4. \A i \in D : c[i] \in Place
  OBVIOUS
<1>5. e \in [Place -> V]
  BY <1>1, <1>4
<1> HIDE DEF D
<1>6. f \in [D -> D] /\ \A i, j \in D : f[i] = f[j] => i = j
  BY <1>1
<1>7. ASSUME NEW j \in D PROVE \E i \in D : f[i] = j
  <2>1. j = x => f[z] = j
    BY <1>1
  <2>2. j = z => f[y] = j
    BY <1>1
  <2>3. j # x /\ j # z /\ j = y => f[x] = j
    BY <1>1
  <2>4. j # x /\ j # z /\ j # y => f[j] = j
    BY <1>1
  <2> QED
    BY <1>1, <2>1, <2>2, <2>3, <2>4
<1>8. ASSUME NEW i \in D PROVE e[c[i]] = d[c[f[i]]]
  BY <1>1, <1>3, <1>4
<1>9. \A p \in Place : Elsewhere(p, c, a, b) => e[p] = d[p]
  <2>1. ASSUME NEW p \in Place, Elsewhere(p, c, a, b) PROVE e[p] = d[p]
    <3>1. p # c[x] /\ p # c[y] /\ p # c[z]
      BY <1>1, <2>1 DEF Elsewhere, D
    <3> QED
      BY <3>1
  <2> QED
    BY <2>1
<1> HIDE DEF e, f
<1>10. Permutes(f, a, b) /\ \A i \in a..b : e[c[i]] = d[c[f[i]]]
  BY <1>2, <1>6, <1>7, <1>8 DEF D
<1>11. Rearranged(d, e, c, a, b)
  BY <1>9, <1>10, Zenon DEF Rearranged
<1> QED
  BY <1>5, <1>11 DEF e

-----------------------------------------------------------------------------
(* The order of the comparator, from small to big or from big to small.      *)

\* Whichever way, it is total, and only equal numbers are not told apart.
LEMMA LateOrder ==
  ASSUME NEW versus \in {-1, 1}, NEW u \in Int, NEW v \in Int, NEW w \in Int
  PROVE  /\ Late(u, v, versus) => ~ Late(v, u, versus)
         /\ ~ Late(u, v, versus) /\ ~ Late(v, w, versus) => ~ Late(u, w, versus)
         /\ Late(u, v, versus) \/ Late(v, u, versus) \/ u = v
         /\ ~ Late(u, u, versus)
<1>1. CASE versus = 1
  BY <1>1 DEF Late
<1>2. CASE versus = -1
  BY <1>2 DEF Late
<1> QED
  BY <1>1, <1>2

-----------------------------------------------------------------------------
(* The two ends of a part meet at the pivot.                                 *)

\* The loop that leads the left end on, and the one that leads the right end back.
AheadLoop(from, d, pivot, versus) ==
  LET after[k \in 0..numels] ==
        IF k = 0 THEN from
        ELSE IF after[k - 1] = pivot \/ Late(d[after[k - 1]], d[pivot], versus)
             THEN after[k - 1] ELSE next[after[k - 1]]
  IN  after[numels]
BehindLoop(from, d, pivot, versus) ==
  LET after[k \in 0..numels] ==
        IF k = 0 THEN from
        ELSE IF after[k - 1] = pivot \/ Late(d[pivot], d[after[k - 1]], versus)
             THEN after[k - 1] ELSE prev[after[k - 1]]
  IN  after[numels]

\* It ends at the pivot, or before it at the first entry that is to come after it.
LEMMA AheadIs ==
  ASSUME NEW c, numels \in Nat, Chained(c, numels, next, prev), NEW d, NEW versus,
         NEW l \in 1..numels, NEW p \in l..numels
  PROVE  \E m \in l..p :
           /\ AheadLoop(c[l], d, c[p], versus) = c[m]
           /\ m # p => Late(d[c[m]], d[c[p]], versus)
           /\ \A j \in l..(m - 1) : ~ Late(d[c[j]], d[c[p]], versus)
<1> DEFINE n == numels
           Stops(j) == j = p \/ Late(d[c[j]], d[c[p]], versus)
           S == {j \in l..p : Stops(j)}
           Is(g) == g = [k \in 0..n |->
                      IF k = 0 THEN c[l]
                      ELSE IF g[k - 1] = c[p] \/ Late(d[g[k - 1]], d[c[p]], versus)
                           THEN g[k - 1] ELSE next[g[k - 1]]]
           w == CHOOSE g : Is(g)
<1>1. PICK m \in S : \A j \in S : m <= j
  <2>1. S \subseteq Nat /\ p \in S
    OBVIOUS
  <2> HIDE DEF S
  <2> QED
    BY <2>1, Least
<1>2. m \in l..p /\ Stops(m) /\ \A j \in l..(m - 1) : ~ Stops(j) /\ j # p
  <2>1. \A j \in l..(m - 1) : j \in l..p /\ ~ (m <= j) /\ j # p
    BY <1>1
  <2> QED
    BY <1>1, <2>1
<1> DEFINE f == [k \in 0..n |-> IF l + k <= m THEN c[l + k] ELSE c[m]]
<1>3. AheadLoop(c[l], d, c[p], versus) = w[n]
  BY DEF AheadLoop
<1>4. \A i, j \in 1..n : c[i] = c[j] => i = j
  BY DEF Chained
<1>5. \A i \in 1..(n - 1) : next[c[i]] = c[i + 1]
  BY DEF Chained
<1>6. ASSUME NEW k \in 1..n
      PROVE  f[k] = IF f[k - 1] = c[p] \/ Late(d[f[k - 1]], d[c[p]], versus)
                    THEN f[k - 1] ELSE next[f[k - 1]]
  <2>1. k - 1 \in 0..n
    OBVIOUS
  <2>2. CASE l + k <= m
    <3>1. l + (k - 1) \in l..(m - 1) /\ l + (k - 1) \in 1..(n - 1) /\ (l + (k - 1)) + 1 = l + k
          /\ p \in 1..n /\ l + (k - 1) \in 1..n /\ l + (k - 1) <= m
      BY <1>2, <2>2
    <3>2. f[k] = c[l + k] /\ f[k - 1] = c[l + (k - 1)]
      BY <2>1, <2>2, <3>1
    <3> HIDE DEF f
    <3>3. ~ Stops(l + (k - 1)) /\ c[l + (k - 1)] # c[p]
      BY <1>2, <1>4, <3>1
    <3>4. next[c[l + (k - 1)]] = c[l + k]
      BY <1>5, <3>1
    <3> QED
      BY <3>2, <3>3, <3>4
  <2>3. CASE ~ (l + k <= m)
    <3>1. f[k] = c[m] /\ f[k - 1] = c[m]
      BY <1>2, <2>1, <2>3
    <3> HIDE DEF f
    <3> QED
      BY <1>2, <3>1
  <2> QED
    BY <2>2, <2>3
<1>7. f[0] = c[l] /\ f[n] = c[m]
  BY <1>2
<1>8. f = [k \in 0..n |-> f[k]]
  OBVIOUS
<1> HIDE DEF f
<1>9. Is(f)
  <2>1. \A k \in 0..n : f[k] = IF k = 0 THEN c[l]
                      ELSE IF f[k - 1] = c[p] \/ Late(d[f[k - 1]], d[c[p]], versus)
                           THEN f[k - 1] ELSE next[f[k - 1]]
    <3>1. \A k \in 0..n : k = 0 \/ k \in 1..n
      OBVIOUS
    <3> QED
      BY <1>6, <1>7, <3>1
  <2> QED
    BY <1>8, <2>1
<1>10. Is(w)
  <2> HIDE DEF Is
  <2> QED
    BY <1>9, Zenon
<1> HIDE DEF w
<1>11. w[n] = f[n]
  <2>1. w[0] = f[0]
    BY <1>7, <1>10
  <2>2. ASSUME NEW k \in 1..n, w[k - 1] = f[k - 1] PROVE w[k] = f[k]
    <3>1. w[k] = IF w[k - 1] = c[p] \/ Late(d[w[k - 1]], d[c[p]], versus)
                 THEN w[k - 1] ELSE next[w[k - 1]]
      BY <1>10
    <3> QED
      BY <1>6, <2>2, <3>1
  <2> QED
    BY <2>1, <2>2, SameRun
<1> QED
  BY <1>2, <1>3, <1>7, <1>11

\* The other end comes back to the last entry that is to come before the pivot.
LEMMA BehindIs ==
  ASSUME NEW c, numels \in Nat, Chained(c, numels, next, prev), NEW d, NEW versus,
         NEW r \in 1..numels, NEW p \in 1..r
  PROVE  \E m \in p..r :
           /\ BehindLoop(c[r], d, c[p], versus) = c[m]
           /\ m # p => Late(d[c[p]], d[c[m]], versus)
           /\ \A j \in (m + 1)..r : ~ Late(d[c[p]], d[c[j]], versus)
<1> DEFINE n == numels
           Stops(j) == j = p \/ Late(d[c[p]], d[c[j]], versus)
           S == {k \in 0..(r - p) : Stops(r - k)}
           Is(g) == g = [k \in 0..n |->
                      IF k = 0 THEN c[r]
                      ELSE IF g[k - 1] = c[p] \/ Late(d[c[p]], d[g[k - 1]], versus)
                           THEN g[k - 1] ELSE prev[g[k - 1]]]
           w == CHOOSE g : Is(g)
<1>1. PICK x \in S : \A k \in S : x <= k
  <2>1. S \subseteq Nat
    OBVIOUS
  <2>2. r - p \in S
    <3>1. r - p \in 0..(r - p) /\ r - (r - p) = p
      OBVIOUS
    <3> QED
      BY <3>1
  <2> HIDE DEF S
  <2> QED
    BY <2>1, <2>2, Least
<1> DEFINE m == r - x
<1>2. /\ m \in p..r /\ Stops(m)
      /\ \A j \in (m + 1)..r : ~ Stops(j) /\ j # p
  <2>1. x \in 0..(r - p) /\ Stops(r - x)
    OBVIOUS
  <2>2. ASSUME NEW j \in (m + 1)..r PROVE ~ Stops(j) /\ j # p
    <3>1. r - j \in 0..(r - p) /\ ~ (x <= r - j) /\ r - (r - j) = j /\ j # p
      BY <2>1
    <3> QED
      BY <1>1, <3>1
  <2> QED
    BY <2>1, <2>2
<1> HIDE DEF m
<1> DEFINE f == [k \in 0..n |-> IF r - k >= m THEN c[r - k] ELSE c[m]]
<1>3. BehindLoop(c[r], d, c[p], versus) = w[n]
  BY DEF BehindLoop
<1>4. \A i, j \in 1..n : c[i] = c[j] => i = j
  BY DEF Chained
<1>5. \A i \in 1..(n - 1) : prev[c[i + 1]] = c[i]
  BY DEF Chained
<1>6. ASSUME NEW k \in 1..n
      PROVE  f[k] = IF f[k - 1] = c[p] \/ Late(d[c[p]], d[f[k - 1]], versus)
                    THEN f[k - 1] ELSE prev[f[k - 1]]
  <2>1. k - 1 \in 0..n
    OBVIOUS
  <2>2. CASE r - k >= m
    <3>1. r - (k - 1) \in (m + 1)..r /\ r - k \in 1..(n - 1) /\ (r - k) + 1 = r - (k - 1)
          /\ p \in 1..n /\ r - (k - 1) \in 1..n /\ r - (k - 1) >= m
      BY <1>2, <2>2
    <3>2. f[k] = c[r - k] /\ f[k - 1] = c[r - (k - 1)]
      BY <2>1, <2>2, <3>1
    <3> HIDE DEF f
    <3>3. ~ Stops(r - (k - 1)) /\ c[r - (k - 1)] # c[p]
      BY <1>2, <1>4, <3>1
    <3>4. prev[c[r - (k - 1)]] = c[r - k]
      BY <1>5, <3>1
    <3> QED
      BY <3>2, <3>3, <3>4
  <2>3. CASE ~ (r - k >= m)
    <3>1. k \in 0..n /\ f[k] = c[m]
      BY <2>3
    <3>2. r - (k - 1) >= m => r - (k - 1) = m
      BY <1>2, <2>3
    <3>3. f[k - 1] = IF r - (k - 1) >= m THEN c[r - (k - 1)] ELSE c[m]
      BY ONLY <2>1
    <3>4. f[k - 1] = c[m]
      BY ONLY <3>2, <3>3
    <3> HIDE DEF f
    <3>5. c[m] = c[p] \/ Late(d[c[p]], d[c[m]], versus)
      BY <1>2
    <3> QED
      BY ONLY <3>1, <3>4, <3>5
  <2> QED
    BY <2>2, <2>3
<1>7. f[0] = c[r] /\ f[n] = c[m]
  BY <1>2
<1>8. f = [k \in 0..n |-> f[k]]
  OBVIOUS
<1> HIDE DEF f
<1>9. Is(f)
  <2>1. \A k \in 0..n : f[k] = IF k = 0 THEN c[r]
                      ELSE IF f[k - 1] = c[p] \/ Late(d[c[p]], d[f[k - 1]], versus)
                           THEN f[k - 1] ELSE prev[f[k - 1]]
    <3>1. \A k \in 0..n : k = 0 \/ k \in 1..n
      OBVIOUS
    <3> QED
      BY <1>6, <1>7, <3>1
  <2> QED
    BY <1>8, <2>1
<1>10. Is(w)
  <2> HIDE DEF Is
  <2> QED
    BY <1>9, Zenon
<1> HIDE DEF w
<1>11. w[n] = f[n]
  <2>1. w[0] = f[0]
    BY <1>7, <1>10
  <2>2. ASSUME NEW k \in 1..n, w[k - 1] = f[k - 1] PROVE w[k] = f[k]
    <3>1. w[k] = IF w[k - 1] = c[p] \/ Late(d[c[p]], d[w[k - 1]], versus)
                 THEN w[k - 1] ELSE prev[w[k - 1]]
      BY <1>10
    <3> QED
      BY <1>6, <2>2, <3>1
  <2> QED
    BY <2>1, <2>2, SameRun
<1> QED
  BY <1>2, <1>3, <1>7, <1>11

-----------------------------------------------------------------------------
(* Quicksort.                                                                *)

\* The entries from a to b of the chain, which is a part of the list.
Stretch(c, a, b) ==
  numels \in Nat /\ Chained(c, numels, next, prev) /\ a \in 1..numels /\ b \in a..numels

DataMap == [Place -> Data \cup {Null}]

\* What the entries from a to b refer to are numbers.
Numbers(d, c, a, b) == d \in DataMap /\ \A i \in a..b : d[c[i]] \in Data

SortState == [data : DataMap, left : Place, right : Place, pivot : Place, pivotid : Int]

\* What is before l is not late for the pivot at p, nor the pivot for what is behind r.
Around(s, c, a, b, l, p, r, versus) ==
  /\ \A j \in a..(l - 1) : ~ Late(s.data[c[j]], s.data[c[p]], versus)
  /\ \A j \in (r + 1)..b : ~ Late(s.data[c[p]], s.data[c[j]], versus)

\* A state that has split the data d of a part so far.
Splitting(s, d, c, a, b, l, p, r, versus) ==
  /\ s \in SortState /\ Rearranged(d, s.data, c, a, b)
  /\ p \in a..b /\ l \in a..p /\ r \in p..b
  /\ s.pivot = c[p] /\ s.pivotid = p - a
  /\ Around(s, c, a, b, l, p, r, versus)

\* The places of a part, and the links between them.
LEMMA StretchIs ==
  ASSUME NEW c, NEW a, NEW b, Stretch(c, a, b)
  PROVE  /\ numels \in Nat /\ a \in Int /\ b \in Int /\ a >= 1 /\ a <= b /\ b <= numels
         /\ \A i \in a..b : c[i] \in Place /\ i \in 1..numels
         /\ \A i, j \in a..b : c[i] = c[j] => i = j
         /\ \A i \in a..(b - 1) : next[c[i]] = c[i + 1] /\ prev[c[i + 1]] = c[i]
  BY DEF Stretch, Chained

\* Rearranged numbers are numbers.
LEMMA NumbersStay ==
  ASSUME NEW c, NEW a, NEW b, NEW d, NEW e \in DataMap, Numbers(d, c, a, b),
         Rearranged(d, e, c, a, b)
  PROVE  Numbers(e, c, a, b)
<1>1. PICK f : Permutes(f, a, b) /\ \A i \in a..b : e[c[i]] = d[c[f[i]]]
  BY DEF Rearranged
<1>2. \A i \in a..b : f[i] \in a..b
  BY <1>1 DEF Permutes
<1> QED
  BY <1>1, <1>2 DEF Numbers

\* Three entries of a part pass their data round.
LEMMA PassedRound ==
  ASSUME NEW c, NEW a, NEW b, Stretch(c, a, b), NEW d \in DataMap,
         NEW x \in a..b, NEW y \in a..b, NEW z \in a..b, x # z, y # z
  PROVE  LET e == [d EXCEPT ![c[x]] = d[c[y]], ![c[y]] = d[c[z]], ![c[z]] = d[c[x]]]
         IN  e \in DataMap /\ Rearranged(d, e, c, a, b)
<1>1. /\ a \in Int /\ b \in Int /\ \A i \in a..b : c[i] \in Place
      /\ \A i, j \in a..b : c[i] = c[j] => i = j
  BY StretchIs
<1> QED
  BY <1>1, Rotated DEF DataMap

\* Two entries of a part exchange it.
LEMMA Exchange ==
  ASSUME NEW c, NEW a, NEW b, Stretch(c, a, b), NEW d \in DataMap,
         NEW x \in a..b, NEW z \in a..b
  PROVE  /\ Exchanged(d, c[x], c[z]) \in DataMap
         /\ Rearranged(d, Exchanged(d, c[x], c[z]), c, a, b)
         /\ Exchanged(d, c[x], c[z])[c[x]] = d[c[z]] /\ Exchanged(d, c[x], c[z])[c[z]] = d[c[x]]
         /\ \A i \in a..b : i # x /\ i # z => Exchanged(d, c[x], c[z])[c[i]] = d[c[i]]
<1>1. /\ a \in Int /\ b \in Int /\ \A i \in a..b : c[i] \in Place
      /\ \A i, j \in a..b : c[i] = c[j] => i = j
  BY StretchIs
<1> DEFINE e == Exchanged(d, c[x], c[z])
<1>2. e = [d EXCEPT ![c[x]] = d[c[z]], ![c[z]] = d[c[x]]]
  BY DEF Exchanged
<1>3. e \in DataMap /\ e[c[x]] = d[c[z]] /\ e[c[z]] = d[c[x]]
  BY <1>1, <1>2 DEF DataMap
<1>4. \A i \in a..b : i # x /\ i # z => e[c[i]] = d[c[i]]
  BY <1>1, <1>2 DEF DataMap
<1>5. Rearranged(d, e, c, a, b)
  <2>1. CASE x = z
    <3>1. e = d
      BY <1>1, <1>2, <2>1 DEF DataMap
    <3> QED
      BY <1>1, <3>1, RearrangedNot
  <2>2. CASE x # z
    <3> DEFINE g == [d EXCEPT ![c[x]] = d[c[x]], ![c[x]] = d[c[z]], ![c[z]] = d[c[x]]]
    <3>1. Rearranged(d, g, c, a, b)
      BY <2>2, PassedRound
    <3>2. g = e
      BY <1>1, <1>2, <2>2 DEF DataMap
    <3> QED
      BY <3>1, <3>2
  <2> QED
    BY <2>1, <2>2
<1> QED
  BY <1>3, <1>4, <1>5

\* A turn of the outer loop brings the ends together, or one of them to the pivot.
LEMMA MeetTurn ==
  ASSUME NEW c, NEW a, NEW b, Stretch(c, a, b), NEW d, Numbers(d, c, a, b),
         NEW versus \in {-1, 1}, NEW s, NEW l, NEW p, NEW r,
         Splitting(s, d, c, a, b, l, p, r, versus), s.left = c[l], s.right = c[r]
  PROVE  \E i \in l..p, j \in p..r :
           /\ Splitting(Meet(s, versus), d, c, a, b, i, p, j, versus)
           /\ Meet(s, versus).left = c[i] /\ Meet(s, versus).right = c[j]
           /\ i = p \/ j = p \/ i > l
<1> DEFINE t == Meet(s, versus)
           x == AheadLoop(s.left, s.data, s.pivot, versus)
           y == BehindLoop(s.right, s.data, s.pivot, versus)
<1>1. /\ numels \in Nat /\ a \in Int /\ b \in Int /\ a >= 1 /\ a <= b /\ b <= numels
      /\ \A i \in a..b : c[i] \in Place /\ i \in 1..numels
      /\ \A i, j \in a..b : c[i] = c[j] => i = j
      /\ \A i \in a..(b - 1) : next[c[i]] = c[i + 1] /\ prev[c[i + 1]] = c[i]
  BY StretchIs
<1>2. /\ s \in SortState /\ Rearranged(d, s.data, c, a, b)
      /\ p \in a..b /\ l \in a..p /\ r \in p..b /\ l \in a..b /\ r \in a..b
      /\ s.pivot = c[p] /\ s.pivotid = p - a /\ s.data \in DataMap
      /\ Around(s, c, a, b, l, p, r, versus)
  BY <1>1 DEF Splitting, SortState
<1>3. Numbers(s.data, c, a, b)
  BY <1>2, NumbersStay
<1>4. t = IF s.left = s.pivot \/ s.right = s.pivot THEN s
          ELSE IF x = s.pivot \/ y = s.pivot THEN [s EXCEPT !.left = x, !.right = y]
          ELSE [s EXCEPT !.data = Exchanged(s.data, x, y), !.left = next[x], !.right = prev[y]]
  BY DEF Meet, Repeat, AheadLoop, BehindLoop
<1>5. PICK i \in l..p :
           /\ x = c[i]
           /\ i # p => Late(s.data[c[i]], s.data[c[p]], versus)
           /\ \A k \in l..(i - 1) : ~ Late(s.data[c[k]], s.data[c[p]], versus)
  <2>1. numels \in Nat /\ Chained(c, numels, next, prev) /\ l \in 1..numels /\ p \in l..numels
    BY <1>1, <1>2 DEF Stretch
  <2>2. PICK D : D = s.data
    OBVIOUS
  <2>3. \E i \in l..p :
           /\ AheadLoop(c[l], D, c[p], versus) = c[i]
           /\ i # p => Late(D[c[i]], D[c[p]], versus)
           /\ \A k \in l..(i - 1) : ~ Late(D[c[k]], D[c[p]], versus)
    BY ONLY <2>1, AheadIs
  <2>4. x = AheadLoop(c[l], D, c[p], versus)
    BY <1>2, <2>2
  <2> HIDE DEF x
  <2> QED
    BY <2>2, <2>3, <2>4
<1>6. PICK j \in p..r :
           /\ y = c[j]
           /\ j # p => Late(s.data[c[p]], s.data[c[j]], versus)
           /\ \A k \in (j + 1)..r : ~ Late(s.data[c[p]], s.data[c[k]], versus)
  <2>1. numels \in Nat /\ Chained(c, numels, next, prev) /\ r \in 1..numels /\ p \in 1..r
    BY <1>1, <1>2 DEF Stretch
  <2>2. PICK D : D = s.data
    OBVIOUS
  <2>3. \E j \in p..r :
           /\ BehindLoop(c[r], D, c[p], versus) = c[j]
           /\ j # p => Late(D[c[p]], D[c[j]], versus)
           /\ \A k \in (j + 1)..r : ~ Late(D[c[p]], D[c[k]], versus)
    BY ONLY <2>1, BehindIs
  <2>4. y = BehindLoop(c[r], D, c[p], versus)
    BY <1>2, <2>2
  <2> HIDE DEF y
  <2> QED
    BY <2>2, <2>3, <2>4
<1> HIDE DEF t, x, y
<1>7. i \in a..b /\ j \in a..b /\ i \in a..p /\ j \in p..b
  BY <1>1, <1>2
<1>8. CASE l = p \/ r = p
  <2>1. t = s
    BY <1>2, <1>4, <1>8
  <2>2. Splitting(t, d, c, a, b, l, p, r, versus) /\ t.left = c[l] /\ t.right = c[r]
    BY <2>1
  <2>3. l \in l..p /\ r \in p..r
    BY <1>1, <1>2
  <2> QED
    BY <1>8, <2>2, <2>3 DEF t
<1>9. CASE ~ (l = p \/ r = p) /\ (i = p \/ j = p)
  <2>1. t = [s EXCEPT !.left = x, !.right = y]
    BY <1>1, <1>2, <1>4, <1>5, <1>6, <1>7, <1>9
  <2>2. x \in Place /\ y \in Place
    BY <1>1, <1>5, <1>6, <1>7
  <2>3. /\ t \in SortState /\ t.data = s.data /\ t.left = c[i] /\ t.right = c[j]
        /\ t.pivot = s.pivot /\ t.pivotid = s.pivotid
    BY <1>2, <1>5, <1>6, <2>1, <2>2 DEF SortState
  <2>4. Around(t, c, a, b, i, p, j, versus)
    <3>1. \A k \in a..(i - 1) : k \in a..(l - 1) \/ k \in l..(i - 1)
      BY <1>1, <1>2, <1>7
    <3>2. \A k \in (j + 1)..b : k \in (r + 1)..b \/ k \in (j + 1)..r
      BY <1>1, <1>2, <1>7
    <3> QED
      BY <1>2, <1>5, <1>6, <2>3, <3>1, <3>2 DEF Around
  <2>5. Splitting(t, d, c, a, b, i, p, j, versus)
    BY <1>2, <1>7, <2>3, <2>4 DEF Splitting
  <2> QED
    BY <1>9, <2>3, <2>5 DEF t
<1>10. CASE ~ (l = p \/ r = p) /\ ~ (i = p \/ j = p)
  <2> DEFINE e == Exchanged(s.data, c[i], c[j])
  <2>1. t = [s EXCEPT !.data = e, !.left = next[c[i]], !.right = prev[c[j]]]
    BY <1>1, <1>2, <1>4, <1>5, <1>6, <1>7, <1>10
  <2>2. /\ e \in DataMap /\ Rearranged(s.data, e, c, a, b)
        /\ e[c[i]] = s.data[c[j]] /\ e[c[j]] = s.data[c[i]]
        /\ \A k \in a..b : k # i /\ k # j => e[c[k]] = s.data[c[k]]
    <3>1. PICK D : D = s.data
      OBVIOUS
    <3>2. Stretch(c, a, b) /\ D \in DataMap /\ i \in a..b /\ j \in a..b
      BY <1>2, <1>7, <3>1
    <3>3. /\ Exchanged(D, c[i], c[j]) \in DataMap
          /\ Rearranged(D, Exchanged(D, c[i], c[j]), c, a, b)
          /\ Exchanged(D, c[i], c[j])[c[i]] = D[c[j]] /\ Exchanged(D, c[i], c[j])[c[j]] = D[c[i]]
          /\ \A k \in a..b : k # i /\ k # j => Exchanged(D, c[i], c[j])[c[k]] = D[c[k]]
      BY ONLY <3>2, Exchange
    <3> QED
      BY <3>1, <3>3
  <2>3. next[c[i]] = c[i + 1] /\ prev[c[j]] = c[j - 1] /\ i + 1 \in l..p /\ j - 1 \in p..r
        /\ i + 1 \in a..p /\ j - 1 \in p..b
    <3>1. i \in a..(b - 1) /\ j - 1 \in a..(b - 1) /\ (j - 1) + 1 = j
          /\ i + 1 \in l..p /\ j - 1 \in p..r /\ i + 1 \in a..p /\ j - 1 \in p..b
      BY <1>1, <1>2, <1>7, <1>10
    <3>2. next[c[i]] = c[i + 1] /\ prev[c[(j - 1) + 1]] = c[j - 1]
      BY <1>1, <3>1
    <3> QED
      BY <3>1, <3>2
  <2> HIDE DEF e
  <2>4. c[i + 1] \in Place /\ c[j - 1] \in Place
    BY <1>1, <1>2, <2>3
  <2>5. /\ t \in SortState /\ t.data = e /\ t.left = c[i + 1] /\ t.right = c[j - 1]
        /\ t.pivot = s.pivot /\ t.pivotid = s.pivotid
    <3> DEFINE u == c[i + 1]
               v == c[j - 1]
    <3>1. t = [s EXCEPT !.data = e, !.left = u, !.right = v] /\ u \in Place /\ v \in Place
      BY <2>1, <2>3, <2>4
    <3> HIDE DEF u, v
    <3>2. /\ t \in SortState /\ t.data = e /\ t.left = u /\ t.right = v
          /\ t.pivot = s.pivot /\ t.pivotid = s.pivotid
      BY <1>2, <2>2, <3>1 DEF SortState
    <3> QED
      BY <3>2 DEF u, v
  <2>6. Rearranged(d, e, c, a, b)
    BY <1>1, <1>2, <2>2, RearrangedTwice
  <2>7. p # i /\ p # j /\ e[c[p]] = s.data[c[p]]
    BY <1>2, <1>10, <2>2
  <2>8. ASSUME NEW k \in a..((i + 1) - 1)
        PROVE  ~ Late(e[c[k]], e[c[p]], versus)
    <3>1. k \in a..b /\ k # j /\ (k \in a..(l - 1) \/ k \in l..(i - 1) \/ k = i)
      BY <1>1, <1>2, <1>7, <1>10
    <3>2. CASE k = i
      <4>1. /\ s.data[c[p]] \in Int /\ s.data[c[j]] \in Int
            /\ Late(s.data[c[p]], s.data[c[j]], versus)
        BY <1>2, <1>3, <1>6, <1>7, <1>10, SortAssumption DEF Numbers
      <4>2. ~ Late(s.data[c[j]], s.data[c[p]], versus)
        BY <4>1, LateOrder
      <4> QED
        BY <2>2, <2>7, <3>2, <4>2
    <3>3. CASE k # i
      <4>1. ~ Late(s.data[c[k]], s.data[c[p]], versus)
        BY <1>2, <1>5, <3>1, <3>3 DEF Around
      <4>2. e[c[k]] = s.data[c[k]]
        BY <2>2, <3>1, <3>3
      <4> QED
        BY <2>7, <4>1, <4>2
    <3> QED
      BY <3>2, <3>3
  <2>9. ASSUME NEW k \in ((j - 1) + 1)..b
        PROVE  ~ Late(e[c[p]], e[c[k]], versus)
    <3>1. k \in a..b /\ k # i /\ (k \in (r + 1)..b \/ k \in (j + 1)..r \/ k = j)
      BY <1>1, <1>2, <1>7, <1>10
    <3>2. CASE k = j
      <4>1. /\ s.data[c[p]] \in Int /\ s.data[c[i]] \in Int
            /\ Late(s.data[c[i]], s.data[c[p]], versus)
        BY <1>2, <1>3, <1>5, <1>7, <1>10, SortAssumption DEF Numbers
      <4>2. ~ Late(s.data[c[p]], s.data[c[i]], versus)
        BY <4>1, LateOrder
      <4> QED
        BY <2>2, <2>7, <3>2, <4>2
    <3>3. CASE k # j
      <4>1. ~ Late(s.data[c[p]], s.data[c[k]], versus)
        BY <1>2, <1>6, <3>1, <3>3 DEF Around
      <4>2. e[c[k]] = s.data[c[k]]
        BY <2>2, <3>1, <3>3
      <4> QED
        BY <2>7, <4>1, <4>2
    <3> QED
      BY <3>2, <3>3
  <2>10. Around(t, c, a, b, i + 1, p, j - 1, versus)
    BY <2>5, <2>8, <2>9 DEF Around
  <2>11. Splitting(t, d, c, a, b, i + 1, p, j - 1, versus)
    BY <1>2, <2>3, <2>5, <2>6, <2>10 DEF Splitting
  <2>12. i + 1 > l
    BY <1>1, <1>2, <1>7
  <2> QED
    BY <2>3, <2>5, <2>11, <2>12 DEF t
<1> QED
  BY <1>8, <1>9, <1>10

\* The outer loop, and the two that take the rest of the longer side across the pivot.
MetLoop(start, versus) ==
  LET after[k \in 0..numels] == IF k = 0 THEN start ELSE Meet(after[k - 1], versus)
  IN  after[numels]
LeftLoop(start, versus) ==
  LET after[k \in 0..numels] == IF k = 0 THEN start ELSE SweepLeft(after[k - 1], versus)
  IN  after[numels]
RightLoop(start, versus) ==
  LET after[k \in 0..numels] == IF k = 0 THEN start ELSE SweepRight(after[k - 1], versus)
  IN  after[numels]

\* One of the ends has met the pivot when the outer loop is over.
LEMMA MetIs ==
  ASSUME NEW c, NEW a, NEW b, Stretch(c, a, b), NEW d, Numbers(d, c, a, b),
         NEW versus \in {-1, 1}, NEW s, NEW p,
         Splitting(s, d, c, a, b, a, p, b, versus), s.left = c[a], s.right = c[b]
  PROVE  \E l \in a..p, r \in p..b :
           /\ Splitting(MetLoop(s, versus), d, c, a, b, l, p, r, versus)
           /\ MetLoop(s, versus).left = c[l] /\ MetLoop(s, versus).right = c[r]
           /\ l = p \/ r = p
<1> DEFINE n == numels
           Met(t, l, r) == /\ Splitting(t, d, c, a, b, l, p, r, versus)
                           /\ t.left = c[l] /\ t.right = c[r]
           V == {t \in SortState : \E l \in a..p, r \in p..b : Met(t, l, r)}
           Turn(t) == Meet(t, versus)
           F == [t \in V |-> Turn(t)]
           Is(g) == g = [k \in 0..n |-> IF k = 0 THEN s ELSE Turn(g[k - 1])]
           w == CHOOSE g : Is(g)
<1>1. n \in Nat /\ a \in Int /\ b \in Int /\ a >= 1 /\ a <= b /\ b <= n
  BY StretchIs
<1>2. p \in a..b /\ a \in a..p /\ b \in p..b /\ s \in SortState
  BY <1>1 DEF Splitting
<1>3. MetLoop(s, versus) = w[n]
  BY DEF MetLoop
<1> HIDE DEF n
<1>4. ASSUME NEW t, NEW l \in a..p, NEW r \in p..b, Met(t, l, r)
      PROVE  \E i \in a..p, j \in p..b : /\ Met(Turn(t), i, j)
                                         /\ i = p \/ j = p \/ i > l
  <2>1. \E i \in l..p, j \in p..r : /\ Met(Turn(t), i, j)
                                    /\ i = p \/ j = p \/ i > l
    BY <1>4, MeetTurn
  <2>2. (\A i \in l..p : i \in a..p) /\ (\A j \in p..r : j \in p..b)
    BY <1>1, <1>2
  <2> HIDE DEF Met, Turn
  <2> QED
    BY <2>1, <2>2
<1>5. \A t, l, r : Met(t, l, r) => t \in SortState
  BY DEF Splitting
<1>6. Met(s, a, b)
  OBVIOUS
<1> HIDE DEF Met, Turn
<1>7. s \in V /\ \A t \in V : Turn(t) \in V
  <2>1. s \in V
    BY <1>2, <1>6
  <2>2. ASSUME NEW t \in V PROVE Turn(t) \in V
    <3>1. PICK l \in a..p, r \in p..b : Met(t, l, r)
      OBVIOUS
    <3>2. \E i \in a..p, j \in p..b : Met(Turn(t), i, j)
      BY <1>4, <3>1
    <3> QED
      BY <1>5, <3>2
  <2> QED
    BY <2>1, <2>2
<1> HIDE DEF V
<1>8. PICK f : RunOf(f, V, s, F, n)
  <2>1. F \in [V -> V]
    BY <1>7
  <2> HIDE DEF F
  <2> QED
    BY <1>1, <1>7, <2>1, LoopRuns
<1>9. /\ f = [k \in 0..n |-> f[k]] /\ f[0] = s
      /\ \A k \in 1..n : f[k] = Turn(f[k - 1])
  BY <1>8 DEF RunOf
<1>10. Is(f)
  <2>1. \A k \in 0..n : f[k] = IF k = 0 THEN s ELSE Turn(f[k - 1])
    <3>1. \A k \in 0..n : k = 0 \/ k \in 1..n
      BY <1>1
    <3> QED
      BY <1>9, <3>1
  <2> QED
    BY <1>9, <2>1
<1>11. Is(w)
  <2> HIDE DEF Is
  <2> QED
    BY <1>10, Zenon
<1> HIDE DEF w
<1>12. w[n] = f[n]
  <2>1. w[0] = f[0]
    BY <1>1, <1>9, <1>11
  <2>2. ASSUME NEW k \in 1..n, w[k - 1] = f[k - 1] PROVE w[k] = f[k]
    <3>1. w[k] = Turn(w[k - 1])
      BY <1>1, <1>11
    <3> QED
      BY <1>9, <2>2, <3>1
  <2> QED
    BY <1>1, <2>1, <2>2, SameRun
<1> DEFINE S == {k \in 0..n : \E l \in a..p, r \in p..b : /\ Met(f[k], l, r)
                                                          /\ l = p \/ r = p \/ l >= a + k}
<1>13. S = 0..n
  <2>1. S \subseteq 0..n
    OBVIOUS
  <2>2. 0 \in S
    <3>1. Met(f[0], a, b) /\ a >= a + 0
      BY <1>1, <1>6, <1>9
    <3> QED
      BY <1>1, <1>2, <3>1
  <2>3. ASSUME NEW k \in 1..n, k - 1 \in S PROVE k \in S
    <3>1. PICK l \in a..p, r \in p..b : /\ Met(f[k - 1], l, r)
                                        /\ l = p \/ r = p \/ l >= a + (k - 1)
      BY <2>3
    <3>2. PICK i \in a..p, j \in p..b : Met(f[k], i, j) /\ (i = p \/ j = p \/ i > l)
      BY <1>4, <1>9, <3>1
    <3>3. CASE l = p \/ r = p
      <4>1. f[k] = f[k - 1]
        <5>1. f[k - 1].left = f[k - 1].pivot \/ f[k - 1].right = f[k - 1].pivot
          BY <3>1, <3>3 DEF Met, Splitting
        <5>2. Meet(f[k - 1], versus) = f[k - 1]
          BY <5>1 DEF Meet
        <5> QED
          BY <1>9, <5>2 DEF Turn
      <4> QED
        BY <3>1, <3>3, <4>1
    <3>4. CASE ~ (l = p \/ r = p)
      <4>1. i = p \/ j = p \/ i >= a + k
        BY <1>1, <1>2, <3>1, <3>2, <3>4
      <4> QED
        BY <3>2, <4>1
    <3> QED
      BY <3>3, <3>4
  <2> HIDE DEF S
  <2> QED
    BY <1>1, <2>1, <2>2, <2>3, RunKeeps
<1>14. PICK l \in a..p, r \in p..b : Met(f[n], l, r) /\ (l = p \/ r = p \/ l >= a + n)
  <2>1. n \in S
    BY <1>1, <1>13
  <2> QED
    BY <2>1
<1>15. l = p \/ r = p
  BY <1>1, <1>2, <1>14
<1>16. MetLoop(s, versus) = f[n]
  BY <1>3, <1>12
<1> QED
  BY <1>14, <1>15, <1>16 DEF Met

\* A turn of the left sweep takes an entry off those that are left of the pivot.
LEMMA SweepLeftTurn ==
  ASSUME NEW c, NEW a, NEW b, Stretch(c, a, b), NEW d, Numbers(d, c, a, b),
         NEW versus \in {-1, 1}, NEW s, NEW p, NEW l \in a..(p - 1),
         Splitting(s, d, c, a, b, l, p, p, versus), s.left = c[l]
  PROVE  \E i, q \in a..b :
           /\ Splitting(SweepLeft(s, versus), d, c, a, b, i, q, q, versus)
           /\ SweepLeft(s, versus).left = c[i]
           /\ q - i = p - l - 1
<1> DEFINE t == SweepLeft(s, versus)
           D == s.data
           e == [D EXCEPT ![c[l]] = D[c[p - 1]], ![c[p - 1]] = D[c[p]], ![c[p]] = D[c[l]]]
<1>1. /\ numels \in Nat /\ a \in Int /\ b \in Int /\ a >= 1 /\ a <= b /\ b <= numels
      /\ \A i \in a..b : c[i] \in Place /\ i \in 1..numels
      /\ \A i, j \in a..b : c[i] = c[j] => i = j
      /\ \A i \in a..(b - 1) : next[c[i]] = c[i + 1] /\ prev[c[i + 1]] = c[i]
  BY StretchIs
<1>2. /\ s \in SortState /\ Rearranged(d, D, c, a, b)
      /\ p \in a..b /\ s.pivot = c[p] /\ s.pivotid = p - a /\ D \in DataMap
      /\ Around(s, c, a, b, l, p, p, versus)
  BY DEF Splitting, SortState
<1>3. Numbers(D, c, a, b)
  BY <1>2, NumbersStay
<1>4. /\ l \in a..b /\ p - 1 \in a..b /\ l # p /\ p - 1 # p /\ l \in a..(p - 1)
      /\ p - 1 \in a..(b - 1) /\ (p - 1) + 1 = p
  BY <1>1, <1>2
<1>5. prev[c[p]] = c[p - 1] /\ c[l] # c[p]
  <2>1. prev[c[(p - 1) + 1]] = c[p - 1]
    BY <1>1, <1>4
  <2> QED
    BY <1>1, <1>2, <1>4, <2>1
<1>6. D[c[l]] \in Int /\ D[c[p]] \in Int
  BY <1>2, <1>3, <1>4, SortAssumption DEF Numbers
<1>7. t = IF Late(D[c[l]], D[c[p]], versus)
          THEN [s EXCEPT !.data = e, !.pivot = c[p - 1], !.pivotid = @ - 1]
          ELSE [s EXCEPT !.left = next[@]]
  BY <1>2, <1>5 DEF SweepLeft
<1>8. e \in DataMap /\ Rearranged(D, e, c, a, b)
  <2>1. PICK x : x = p - 1
    OBVIOUS
  <2>2. PICK D1 : D1 = D
    OBVIOUS
  <2>3. Stretch(c, a, b) /\ D1 \in DataMap /\ l \in a..b /\ x \in a..b /\ p \in a..b
        /\ l # p /\ x # p
    BY <1>2, <1>4, <2>1, <2>2
  <2> DEFINE g == [D1 EXCEPT ![c[l]] = D1[c[x]], ![c[x]] = D1[c[p]], ![c[p]] = D1[c[l]]]
  <2>4. g \in DataMap /\ Rearranged(D1, g, c, a, b)
    BY ONLY <2>3, PassedRound
  <2>5. g = e
    BY <2>1, <2>2
  <2> QED
    BY <2>2, <2>4, <2>5
<1>9. /\ e[c[p - 1]] = D[c[p]] /\ e[c[p]] = D[c[l]]
      /\ \A k \in a..b : k # l /\ k # p - 1 /\ k # p => e[c[k]] = D[c[k]]
  BY <1>1, <1>2, <1>4 DEF DataMap
<1> HIDE DEF t, D, e
<1>10. CASE Late(D[c[l]], D[c[p]], versus)
  <2> DEFINE z == c[p - 1]
             x == p - 1
  <2>1. t = [s EXCEPT !.data = e, !.pivot = z, !.pivotid = @ - 1] /\ z \in Place
    BY <1>1, <1>4, <1>7, <1>10
  <2>2. x \in Int /\ s.pivotid - 1 = x - a
    BY <1>1, <1>2
  <2> HIDE DEF z, x
  <2>3. /\ t \in SortState /\ t.data = e /\ t.left = s.left /\ t.pivot = z /\ t.pivotid = x - a
    <3>1. x - a \in Int
      BY <1>1, <2>2
    <3> QED
      BY <1>2, <1>8, <2>1, <2>2, <3>1 DEF SortState
  <2>4. Rearranged(d, e, c, a, b)
    BY <1>1, <1>2, <1>8, RearrangedTwice
  <2>5. ASSUME NEW k \in a..(l - 1) PROVE ~ Late(e[c[k]], e[c[p - 1]], versus)
    <3>1. k \in a..b /\ k # l /\ k # p - 1 /\ k # p
      BY <1>1, <1>2, <1>4
    <3>2. ~ Late(D[c[k]], D[c[p]], versus)
      BY <1>2 DEF Around, D
    <3> QED
      BY <1>9, <3>1, <3>2
  <2>6. ASSUME NEW k \in ((p - 1) + 1)..b PROVE ~ Late(e[c[p - 1]], e[c[k]], versus)
    <3>1. k = p \/ k \in (p + 1)..b
      BY <1>1, <1>2
    <3>2. CASE k = p
      BY <1>6, <1>9, <1>10, <3>2, LateOrder
    <3>3. CASE k \in (p + 1)..b
      <4>1. k \in a..b /\ k # l /\ k # p - 1 /\ k # p
        BY <1>1, <1>2, <1>4, <3>3
      <4>2. ~ Late(D[c[p]], D[c[k]], versus)
        BY <1>2, <3>3 DEF Around, D
      <4> QED
        BY <1>9, <4>1, <4>2
    <3> QED
      BY <3>1, <3>2, <3>3
  <2>7. Around(t, c, a, b, l, x, x, versus)
    BY <2>3, <2>5, <2>6 DEF Around, x
  <2>8. x \in a..b /\ l \in a..x /\ x \in x..b
    BY <1>1, <1>2, <1>4 DEF x
  <2>9. Splitting(t, d, c, a, b, l, x, x, versus)
    BY <2>3, <2>4, <2>7, <2>8 DEF Splitting, z, x
  <2>10. x - l = p - l - 1
    BY <1>1, <1>2 DEF x
  <2> QED
    BY <1>4, <2>3, <2>8, <2>9, <2>10 DEF t
<1>11. CASE ~ Late(D[c[l]], D[c[p]], versus)
  <2> DEFINE z == c[l + 1]
  <2>1. next[c[l]] = z /\ z \in Place
    <3>1. l \in a..(b - 1) /\ l + 1 \in a..b
      BY <1>1, <1>2, <1>4
    <3> QED
      BY <1>1, <3>1
  <2>2. t = [s EXCEPT !.left = z]
    BY <1>7, <1>11, <2>1
  <2> HIDE DEF z
  <2>3. /\ t \in SortState /\ t.data = D /\ t.left = z /\ t.pivot = s.pivot /\ t.pivotid = s.pivotid
    BY <1>2, <2>1, <2>2 DEF SortState, D
  <2>4. \A k \in a..((l + 1) - 1) : k \in a..(l - 1) \/ k = l
    BY <1>1, <1>4
  <2>5. Around(t, c, a, b, l + 1, p, p, versus)
    BY <1>2, <1>11, <2>3, <2>4 DEF Around, D
  <2>6. l + 1 \in a..p /\ p \in p..b /\ l + 1 \in a..b /\ p - (l + 1) = p - l - 1
    BY <1>1, <1>2, <1>4
  <2>7. Splitting(t, d, c, a, b, l + 1, p, p, versus)
    BY <1>2, <2>3, <2>5, <2>6 DEF Splitting
  <2> QED
    BY <1>2, <2>3, <2>6, <2>7 DEF t, z
<1> QED
  BY <1>10, <1>11

\* And one of the right sweep off those that are right of it.
LEMMA SweepRightTurn ==
  ASSUME NEW c, NEW a, NEW b, Stretch(c, a, b), NEW d, Numbers(d, c, a, b),
         NEW versus \in {-1, 1}, NEW s, NEW p \in a..b, NEW r \in (p + 1)..b,
         Splitting(s, d, c, a, b, p, p, r, versus), s.right = c[r]
  PROVE  \E j, q \in a..b :
           /\ Splitting(SweepRight(s, versus), d, c, a, b, q, q, j, versus)
           /\ SweepRight(s, versus).right = c[j]
           /\ j - q = r - p - 1
<1> DEFINE t == SweepRight(s, versus)
           D == s.data
           e == [D EXCEPT ![c[r]] = D[c[p + 1]], ![c[p + 1]] = D[c[p]], ![c[p]] = D[c[r]]]
<1>1. /\ numels \in Nat /\ a \in Int /\ b \in Int /\ a >= 1 /\ a <= b /\ b <= numels
      /\ \A i \in a..b : c[i] \in Place /\ i \in 1..numels
      /\ \A i, j \in a..b : c[i] = c[j] => i = j
      /\ \A i \in a..(b - 1) : next[c[i]] = c[i + 1] /\ prev[c[i + 1]] = c[i]
  BY StretchIs
<1>2. /\ s \in SortState /\ Rearranged(d, D, c, a, b)
      /\ p \in a..b /\ s.pivot = c[p] /\ s.pivotid = p - a /\ D \in DataMap
      /\ Around(s, c, a, b, p, p, r, versus)
  BY DEF Splitting, SortState
<1>3. Numbers(D, c, a, b)
  BY <1>2, NumbersStay
<1>4. /\ r \in a..b /\ p + 1 \in a..b /\ r # p /\ p + 1 # p /\ p \in a..(b - 1)
  BY <1>1, <1>2
<1>5. next[c[p]] = c[p + 1] /\ c[r] # c[p]
  BY <1>1, <1>2, <1>4
<1>6. D[c[r]] \in Int /\ D[c[p]] \in Int
  BY <1>2, <1>3, <1>4, SortAssumption DEF Numbers
<1>7. t = IF Late(D[c[p]], D[c[r]], versus)
          THEN [s EXCEPT !.data = e, !.pivot = c[p + 1], !.pivotid = @ + 1]
          ELSE [s EXCEPT !.right = prev[@]]
  BY <1>2, <1>5 DEF SweepRight
<1>8. e \in DataMap /\ Rearranged(D, e, c, a, b)
  <2>1. PICK x : x = p + 1
    OBVIOUS
  <2>2. PICK D1 : D1 = D
    OBVIOUS
  <2>3. Stretch(c, a, b) /\ D1 \in DataMap /\ r \in a..b /\ x \in a..b /\ p \in a..b
        /\ r # p /\ x # p
    BY <1>2, <1>4, <2>1, <2>2
  <2> DEFINE g == [D1 EXCEPT ![c[r]] = D1[c[x]], ![c[x]] = D1[c[p]], ![c[p]] = D1[c[r]]]
  <2>4. g \in DataMap /\ Rearranged(D1, g, c, a, b)
    BY ONLY <2>3, PassedRound
  <2>5. g = e
    BY <2>1, <2>2
  <2> QED
    BY <2>2, <2>4, <2>5
<1>9. /\ e[c[p + 1]] = D[c[p]] /\ e[c[p]] = D[c[r]]
      /\ \A k \in a..b : k # r /\ k # p + 1 /\ k # p => e[c[k]] = D[c[k]]
  BY <1>1, <1>2, <1>4 DEF DataMap
<1> HIDE DEF t, D, e
<1>10. CASE Late(D[c[p]], D[c[r]], versus)
  <2> DEFINE z == c[p + 1]
             x == p + 1
  <2>1. t = [s EXCEPT !.data = e, !.pivot = z, !.pivotid = @ + 1] /\ z \in Place
    BY <1>1, <1>4, <1>7, <1>10
  <2>2. x \in Int /\ s.pivotid + 1 = x - a
    BY <1>1, <1>2
  <2> HIDE DEF z, x
  <2>3. /\ t \in SortState /\ t.data = e /\ t.right = s.right /\ t.pivot = z /\ t.pivotid = x - a
    <3>1. x - a \in Int
      BY <1>1, <2>2
    <3> QED
      BY <1>2, <1>8, <2>1, <2>2, <3>1 DEF SortState
  <2>4. Rearranged(d, e, c, a, b)
    BY <1>1, <1>2, <1>8, RearrangedTwice
  <2>5. ASSUME NEW k \in (r + 1)..b PROVE ~ Late(e[c[p + 1]], e[c[k]], versus)
    <3>1. k \in a..b /\ k # r /\ k # p + 1 /\ k # p
      BY <1>1, <1>2, <1>4
    <3>2. ~ Late(D[c[p]], D[c[k]], versus)
      BY <1>2 DEF Around, D
    <3> QED
      BY <1>9, <3>1, <3>2
  <2>6. ASSUME NEW k \in a..((p + 1) - 1) PROVE ~ Late(e[c[k]], e[c[p + 1]], versus)
    <3>1. k = p \/ k \in a..(p - 1)
      BY <1>1, <1>2
    <3>2. CASE k = p
      BY <1>6, <1>9, <1>10, <3>2, LateOrder
    <3>3. CASE k \in a..(p - 1)
      <4>1. k \in a..b /\ k # r /\ k # p + 1 /\ k # p
        BY <1>1, <1>2, <1>4, <3>3
      <4>2. ~ Late(D[c[k]], D[c[p]], versus)
        BY <1>2, <3>3 DEF Around, D
      <4> QED
        BY <1>9, <4>1, <4>2
    <3> QED
      BY <3>1, <3>2, <3>3
  <2>7. Around(t, c, a, b, x, x, r, versus)
    BY <2>3, <2>5, <2>6 DEF Around, x
  <2>8. x \in a..b /\ x \in a..x /\ r \in x..b
    BY <1>1, <1>2, <1>4 DEF x
  <2>9. Splitting(t, d, c, a, b, x, x, r, versus)
    BY <2>3, <2>4, <2>7, <2>8 DEF Splitting, z, x
  <2>10. r - x = r - p - 1
    BY <1>1, <1>2 DEF x
  <2> QED
    BY <1>4, <2>3, <2>8, <2>9, <2>10 DEF t
<1>11. CASE ~ Late(D[c[p]], D[c[r]], versus)
  <2> DEFINE z == c[r - 1]
  <2>1. prev[c[r]] = z /\ z \in Place
    <3>1. r - 1 \in a..(b - 1) /\ r - 1 \in a..b /\ (r - 1) + 1 = r
      BY <1>1, <1>2, <1>4
    <3>2. prev[c[(r - 1) + 1]] = c[r - 1]
      BY <1>1, <3>1
    <3> QED
      BY <1>1, <3>1, <3>2
  <2>2. t = [s EXCEPT !.right = z]
    BY <1>7, <1>11, <2>1
  <2> HIDE DEF z
  <2>3. /\ t \in SortState /\ t.data = D /\ t.right = z /\ t.pivot = s.pivot /\ t.pivotid = s.pivotid
    BY <1>2, <2>1, <2>2 DEF SortState, D
  <2>4. \A k \in ((r - 1) + 1)..b : k \in (r + 1)..b \/ k = r
    BY <1>1, <1>4
  <2>5. Around(t, c, a, b, p, p, r - 1, versus)
    BY <1>2, <1>11, <2>3, <2>4 DEF Around, D
  <2>6. r - 1 \in p..b /\ p \in a..p /\ r - 1 \in a..b /\ (r - 1) - p = r - p - 1
    BY <1>1, <1>2, <1>4
  <2>7. Splitting(t, d, c, a, b, p, p, r - 1, versus)
    BY <1>2, <2>3, <2>5, <2>6 DEF Splitting
  <2> QED
    BY <1>2, <2>3, <2>6, <2>7 DEF t, z
<1> QED
  BY <1>10, <1>11

\* After the left sweep nothing is late for the pivot, nor the pivot for anything.
LEMMA LeftIs ==
  ASSUME NEW c, NEW a, NEW b, Stretch(c, a, b), NEW d, Numbers(d, c, a, b),
         NEW versus \in {-1, 1}, NEW s, NEW l0, NEW p0,
         Splitting(s, d, c, a, b, l0, p0, p0, versus), s.left = c[l0]
  PROVE  \E m \in a..b : Splitting(LeftLoop(s, versus), d, c, a, b, m, m, m, versus)
<1> DEFINE n == numels
           Met(t, l, p) == Splitting(t, d, c, a, b, l, p, p, versus) /\ t.left = c[l]
           V == {t \in SortState : \E l, p \in a..b : Met(t, l, p)}
           Turn(t) == SweepLeft(t, versus)
           F == [t \in V |-> Turn(t)]
           Is(g) == g = [k \in 0..n |-> IF k = 0 THEN s ELSE Turn(g[k - 1])]
           w == CHOOSE g : Is(g)
<1>1. n \in Nat /\ a \in Int /\ b \in Int /\ a >= 1 /\ a <= b /\ b <= n
  BY StretchIs
<1>2. ASSUME NEW t, NEW l, NEW p, Met(t, l, p)
      PROVE  t \in SortState /\ p \in a..b /\ l \in a..p /\ l \in a..b /\ (l = p => Turn(t) = t)
  <2>1. t \in SortState /\ p \in a..b /\ l \in a..p /\ t.pivot = c[p] /\ t.left = c[l]
    BY <1>2 DEF Splitting
  <2>2. l = p => Turn(t) = t
    BY <2>1 DEF SweepLeft
  <2>3. l \in a..b
    BY <1>1, <2>1
  <2> QED
    BY <2>1, <2>2, <2>3
<1>3. LeftLoop(s, versus) = w[n]
  BY DEF LeftLoop
<1> HIDE DEF n
<1>4. ASSUME NEW t, NEW l, NEW p, Met(t, l, p)
      PROVE  \E i, q \in a..b : Met(Turn(t), i, q) /\ (i = q \/ q - i = p - l - 1)
  <2>1. t \in SortState /\ p \in a..b /\ l \in a..p /\ l \in a..b /\ (l = p => Turn(t) = t)
    BY <1>2, <1>4
  <2>2. CASE l = p
    BY <1>4, <2>1, <2>2
  <2>3. CASE l # p
    <3>1. l \in a..(p - 1)
      BY <1>1, <2>1, <2>3
    <3>2. \E i, q \in a..b : Met(Turn(t), i, q) /\ q - i = p - l - 1
      BY <1>4, <3>1, SweepLeftTurn
    <3> QED
      BY <3>2
  <2> QED
    BY <2>2, <2>3
<1>5. Met(s, l0, p0) /\ s \in SortState /\ p0 \in a..b /\ l0 \in a..b
  BY <1>2
<1> HIDE DEF Met, Turn
<1>7. s \in V /\ \A t \in V : Turn(t) \in V
  <2>1. s \in V
    BY <1>5
  <2>2. ASSUME NEW t \in V PROVE Turn(t) \in V
    <3>1. PICK l, p \in a..b : Met(t, l, p)
      OBVIOUS
    <3>2. \E i, q \in a..b : Met(Turn(t), i, q)
      BY <1>4, <3>1
    <3> QED
      BY <1>2, <3>2
  <2> QED
    BY <2>1, <2>2
<1> HIDE DEF V
<1>8. PICK f : RunOf(f, V, s, F, n)
  <2>1. F \in [V -> V]
    BY <1>7
  <2> HIDE DEF F
  <2> QED
    BY <1>1, <1>7, <2>1, LoopRuns
<1>9. /\ f = [k \in 0..n |-> f[k]] /\ f[0] = s
      /\ \A k \in 1..n : f[k] = Turn(f[k - 1])
  BY <1>8 DEF RunOf
<1>10. Is(f)
  <2>1. \A k \in 0..n : f[k] = IF k = 0 THEN s ELSE Turn(f[k - 1])
    <3>1. \A k \in 0..n : k = 0 \/ k \in 1..n
      BY <1>1
    <3> QED
      BY <1>9, <3>1
  <2> QED
    BY <1>9, <2>1
<1>11. Is(w)
  <2> HIDE DEF Is
  <2> QED
    BY <1>10, Zenon
<1> HIDE DEF w
<1>12. w[n] = f[n]
  <2>1. w[0] = f[0]
    BY <1>1, <1>9, <1>11
  <2>2. ASSUME NEW k \in 1..n, w[k - 1] = f[k - 1] PROVE w[k] = f[k]
    <3>1. w[k] = Turn(w[k - 1])
      BY <1>1, <1>11
    <3> QED
      BY <1>9, <2>2, <3>1
  <2> QED
    BY <1>1, <2>1, <2>2, SameRun
<1> DEFINE S == {k \in 0..n : \E l, p \in a..b : Met(f[k], l, p) /\ (l = p \/ p - l <= b - a - k)}
<1>13. S = 0..n
  <2>1. S \subseteq 0..n
    OBVIOUS
  <2>2. 0 \in S
    <3>1. Met(f[0], l0, p0) /\ p0 - l0 <= b - a - 0
      BY <1>1, <1>5, <1>9
    <3> QED
      BY <1>1, <1>5, <3>1
  <2>3. ASSUME NEW k \in 1..n, k - 1 \in S PROVE k \in S
    <3>1. PICK l, p \in a..b : Met(f[k - 1], l, p) /\ (l = p \/ p - l <= b - a - (k - 1))
      BY <2>3
    <3>2. CASE l = p
      BY <1>2, <1>9, <3>1, <3>2
    <3>3. CASE l # p
      <4> PICK t : t = f[k - 1]
        OBVIOUS
      <4>3. Met(t, l, p) /\ f[k] = Turn(t)
        BY <1>9, <3>1
      <4>4. \E i, q \in a..b : Met(Turn(t), i, q) /\ (i = q \/ q - i = p - l - 1)
        BY ONLY <1>4, <4>3
      <4>1. PICK i, q \in a..b : Met(f[k], i, q) /\ (i = q \/ q - i = p - l - 1)
        BY ONLY <4>3, <4>4
      <4>2. i = q \/ q - i <= b - a - k
        BY <1>1, <3>1, <3>3, <4>1
      <4> QED
        BY <4>1, <4>2
    <3> QED
      BY <3>2, <3>3
  <2> HIDE DEF S
  <2> QED
    BY <1>1, <2>1, <2>2, <2>3, RunKeeps
<1>14. PICK l, p \in a..b : Met(f[n], l, p) /\ (l = p \/ p - l <= b - a - n)
  <2>1. n \in S
    BY <1>1, <1>13
  <2> QED
    BY <2>1
<1>15. l = p
  <2>1. l \in a..p
    BY <1>2, <1>14
  <2> QED
    BY <1>1, <1>14, <2>1
<1>16. LeftLoop(s, versus) = f[n]
  BY <1>3, <1>12
<1> QED
  BY <1>14, <1>15, <1>16 DEF Met

\* The same after the right sweep.
LEMMA RightIs ==
  ASSUME NEW c, NEW a, NEW b, Stretch(c, a, b), NEW d, Numbers(d, c, a, b),
         NEW versus \in {-1, 1}, NEW s, NEW p0, NEW r0,
         Splitting(s, d, c, a, b, p0, p0, r0, versus), s.right = c[r0]
  PROVE  \E m \in a..b : Splitting(RightLoop(s, versus), d, c, a, b, m, m, m, versus)
<1> DEFINE n == numels
           Met(t, p, r) == Splitting(t, d, c, a, b, p, p, r, versus) /\ t.right = c[r]
           V == {t \in SortState : \E p, r \in a..b : Met(t, p, r)}
           Turn(t) == SweepRight(t, versus)
           F == [t \in V |-> Turn(t)]
           Is(g) == g = [k \in 0..n |-> IF k = 0 THEN s ELSE Turn(g[k - 1])]
           w == CHOOSE g : Is(g)
<1>1. n \in Nat /\ a \in Int /\ b \in Int /\ a >= 1 /\ a <= b /\ b <= n
  BY StretchIs
<1>2. ASSUME NEW t, NEW p, NEW r, Met(t, p, r)
      PROVE  t \in SortState /\ p \in a..b /\ r \in p..b /\ r \in a..b /\ (r = p => Turn(t) = t)
  <2>1. t \in SortState /\ p \in a..b /\ r \in p..b /\ t.pivot = c[p] /\ t.right = c[r]
    BY <1>2 DEF Splitting
  <2>2. r = p => Turn(t) = t
    BY <2>1 DEF SweepRight
  <2>3. r \in a..b
    BY <1>1, <2>1
  <2> QED
    BY <2>1, <2>2, <2>3
<1>3. RightLoop(s, versus) = w[n]
  BY DEF RightLoop
<1> HIDE DEF n
<1>4. ASSUME NEW t, NEW p, NEW r, Met(t, p, r)
      PROVE  \E q, j \in a..b : Met(Turn(t), q, j) /\ (j = q \/ j - q = r - p - 1)
  <2>1. t \in SortState /\ p \in a..b /\ r \in p..b /\ r \in a..b /\ (r = p => Turn(t) = t)
    BY <1>2, <1>4
  <2>2. CASE r = p
    BY <1>4, <2>1, <2>2
  <2>3. CASE r # p
    <3>1. r \in (p + 1)..b
      BY <1>1, <2>1, <2>3
    <3>2. \E q, j \in a..b : Met(Turn(t), q, j) /\ j - q = r - p - 1
      <4>1. \E j, q \in a..b :
               /\ Splitting(SweepRight(t, versus), d, c, a, b, q, q, j, versus)
               /\ SweepRight(t, versus).right = c[j]
               /\ j - q = r - p - 1
        <5>1. /\ Splitting(t, d, c, a, b, p, p, r, versus) /\ t.right = c[r]
              /\ Stretch(c, a, b) /\ Numbers(d, c, a, b)
          BY <1>4
        <5> QED
          BY ONLY <2>1, <3>1, <5>1, versus \in {-1, 1}, SweepRightTurn
      <4> QED
        BY <4>1
    <3> QED
      BY <3>2
  <2> QED
    BY <2>2, <2>3
<1>5. Met(s, p0, r0) /\ s \in SortState /\ p0 \in a..b /\ r0 \in a..b
  BY <1>2
<1> HIDE DEF Met, Turn
<1>7. s \in V /\ \A t \in V : Turn(t) \in V
  <2>1. s \in V
    BY <1>5
  <2>2. ASSUME NEW t \in V PROVE Turn(t) \in V
    <3>1. PICK p, r \in a..b : Met(t, p, r)
      OBVIOUS
    <3>2. \E q, j \in a..b : Met(Turn(t), q, j)
      BY <1>4, <3>1
    <3> QED
      BY <1>2, <3>2
  <2> QED
    BY <2>1, <2>2
<1> HIDE DEF V
<1>8. PICK f : RunOf(f, V, s, F, n)
  <2>1. F \in [V -> V]
    BY <1>7
  <2> HIDE DEF F
  <2> QED
    BY <1>1, <1>7, <2>1, LoopRuns
<1>9. /\ f = [k \in 0..n |-> f[k]] /\ f[0] = s
      /\ \A k \in 1..n : f[k] = Turn(f[k - 1])
  BY <1>8 DEF RunOf
<1>10. Is(f)
  <2>1. \A k \in 0..n : f[k] = IF k = 0 THEN s ELSE Turn(f[k - 1])
    <3>1. \A k \in 0..n : k = 0 \/ k \in 1..n
      BY <1>1
    <3> QED
      BY <1>9, <3>1
  <2> QED
    BY <1>9, <2>1
<1>11. Is(w)
  <2> HIDE DEF Is
  <2> QED
    BY <1>10, Zenon
<1> HIDE DEF w
<1>12. w[n] = f[n]
  <2>1. w[0] = f[0]
    BY <1>1, <1>9, <1>11
  <2>2. ASSUME NEW k \in 1..n, w[k - 1] = f[k - 1] PROVE w[k] = f[k]
    <3>1. w[k] = Turn(w[k - 1])
      BY <1>1, <1>11
    <3> QED
      BY <1>9, <2>2, <3>1
  <2> QED
    BY <1>1, <2>1, <2>2, SameRun
<1> DEFINE S == {k \in 0..n : \E p, r \in a..b : Met(f[k], p, r) /\ (r = p \/ r - p <= b - a - k)}
<1>13. S = 0..n
  <2>1. S \subseteq 0..n
    OBVIOUS
  <2>2. 0 \in S
    <3>1. Met(f[0], p0, r0) /\ r0 - p0 <= b - a - 0
      BY <1>1, <1>5, <1>9
    <3> QED
      BY <1>1, <1>5, <3>1
  <2>3. ASSUME NEW k \in 1..n, k - 1 \in S PROVE k \in S
    <3>1. PICK p, r \in a..b : Met(f[k - 1], p, r) /\ (r = p \/ r - p <= b - a - (k - 1))
      BY <2>3
    <3>2. CASE r = p
      <4>1. f[k] = f[k - 1]
        <5>1. PICK t : t = f[k - 1]
          OBVIOUS
        <5>2. Met(t, p, r) /\ f[k] = Turn(t)
          BY <1>9, <3>1, <5>1
        <5> QED
          BY <1>2, <3>2, <5>1, <5>2
      <4> QED
        BY <3>1, <3>2, <4>1
    <3>3. CASE r # p
      <4> PICK t : t = f[k - 1]
        OBVIOUS
      <4>3. Met(t, p, r) /\ f[k] = Turn(t)
        BY <1>9, <3>1
      <4>4. \E q, j \in a..b : Met(Turn(t), q, j) /\ (j = q \/ j - q = r - p - 1)
        BY ONLY <1>4, <4>3
      <4>1. PICK q, j \in a..b : Met(f[k], q, j) /\ (j = q \/ j - q = r - p - 1)
        BY ONLY <4>3, <4>4
      <4>2. j = q \/ j - q <= b - a - k
        BY <1>1, <3>1, <3>3, <4>1
      <4> QED
        BY <4>1, <4>2
    <3> QED
      BY <3>2, <3>3
  <2> HIDE DEF S
  <2> QED
    BY <1>1, <2>1, <2>2, <2>3, RunKeeps
<1>14. PICK p, r \in a..b : Met(f[n], p, r) /\ (r = p \/ r - p <= b - a - n)
  <2>1. n \in S
    BY <1>1, <1>13
  <2> QED
    BY <2>1
<1>15. r = p
  <2>1. r \in p..b
    BY <1>2, <1>14
  <2> QED
    BY <1>1, <1>14, <2>1
<1>16. RightLoop(s, versus) = f[n]
  BY <1>3, <1>12
<1> QED
  BY <1>14, <1>15, <1>16 DEF Met

\* From either end the pivot is found in its place.
LEMMA FindPivotIs ==
  ASSUME NEW c, NEW a, NEW b, Stretch(c, a, b), NEW part,
         part.first = a - 1, part.last = b - 1, part.fel = c[a], part.lel = c[b],
         NEW pivotid \in 0..(b - a)
  PROVE  FindPivot(part, pivotid) = c[a + pivotid]
<1>1. /\ numels \in Nat /\ a \in Int /\ b \in Int /\ a >= 1 /\ a <= b /\ b <= numels
      /\ Chained(c, numels, next, prev)
  BY StretchIs DEF Stretch
<1>2. Walk(c[a], next, pivotid) = c[a + pivotid]
  <2>1. a \in Nat /\ pivotid \in Nat /\ a + pivotid <= numels + 1
    BY <1>1
  <2> QED
    BY <1>1, <2>1, WalkNext
<1>3. Walk(c[b], prev, (b - a) - pivotid) = c[a + pivotid]
  <2>1. /\ b \in 0..(numels + 1) /\ (b - a) - pivotid \in Nat /\ (b - a) - pivotid <= b
        /\ b - ((b - a) - pivotid) = a + pivotid
    BY <1>1
  <2> QED
    BY <1>1, <2>1, WalkPrev
<1>4. part.last - part.first - pivotid = (b - a) - pivotid
  BY <1>1
<1> QED
  BY <1>2, <1>3, <1>4 DEF FindPivot

\* A part is split at a place m: what is before it is not late for what is there, nor that
\* for what is behind it.
LEMMA SplitIs ==
  ASSUME NEW c, NEW a, NEW b, Stretch(c, a, b), Numbers(data, c, a, b), NEW part,
         part.first = a - 1, part.last = b - 1, part.fel = c[a], part.lel = c[b],
         part.versus \in {-1, 1}, NEW pivotid \in 0..(b - a)
  PROVE  \E m \in a..b :
           Splitting(Split(part, pivotid), data, c, a, b, m, m, m, part.versus)
<1> DEFINE s == [data |-> data, left |-> c[a], right |-> c[b],
                 pivot |-> FindPivot(part, pivotid), pivotid |-> pivotid]
           p == a + pivotid
           V == part.versus
           met == MetLoop(s, V)
           result == Split(part, pivotid)
<1>1. /\ numels \in Nat /\ a \in Int /\ b \in Int /\ a >= 1 /\ a <= b /\ b <= numels
      /\ \A i \in a..b : c[i] \in Place /\ i \in 1..numels
  BY StretchIs
<1>2. result = IF met.right = met.pivot THEN LeftLoop(met, V) ELSE RightLoop(met, V)
  BY DEF Split, Repeat, MetLoop, LeftLoop, RightLoop
<1>3. s.pivot = c[p]
  <2>1. FindPivot(part, pivotid) = c[a + pivotid]
    BY FindPivotIs
  <2> QED
    BY <2>1
<1>4. p \in a..b /\ p - a = pivotid /\ p \in Int
  BY <1>1
<1> HIDE DEF p, result
<1>5. Splitting(s, data, c, a, b, a, p, b, V) /\ s.left = c[a] /\ s.right = c[b]
  <2>1. data \in DataMap /\ c[a] \in Place /\ c[b] \in Place /\ c[p] \in Place
    BY <1>1, <1>4 DEF Numbers
  <2>2. s \in SortState /\ s.data = data
    BY <1>3, <2>1 DEF SortState
  <2>3. Rearranged(data, data, c, a, b)
    BY <1>1, RearrangedNot
  <2>4. Around(s, c, a, b, a, p, b, V)
    <3>1. a..(a - 1) = {} /\ (b + 1)..b = {}
      BY <1>1
    <3> QED
      BY <3>1 DEF Around
  <2>5. a \in a..p /\ b \in p..b
    BY <1>1, <1>4
  <2> QED
    BY <1>3, <1>4, <2>2, <2>3, <2>4, <2>5 DEF Splitting
<1> HIDE DEF s, V, met
<1>6. V \in {-1, 1}
  BY DEF V
<1>7. PICK l \in a..p, r \in p..b :
           /\ Splitting(met, data, c, a, b, l, p, r, V)
           /\ met.left = c[l] /\ met.right = c[r]
           /\ l = p \/ r = p
  BY <1>5, <1>6, MetIs DEF met
<1>8. met.pivot = c[p] /\ (r # p => met.right # met.pivot) /\ r \in a..b
  <2>1. met.pivot = c[p] /\ r \in a..b
    BY <1>1, <1>4, <1>7 DEF Splitting
  <2>2. \A i, j \in a..b : c[i] = c[j] => i = j
    BY StretchIs
  <2> QED
    BY <1>4, <1>7, <2>1, <2>2
<1>9. CASE r = p
  <2>1. result = LeftLoop(met, V)
    BY <1>2, <1>7, <1>8, <1>9
  <2>2. Splitting(met, data, c, a, b, l, p, p, V) /\ met.left = c[l]
    BY <1>7, <1>9
  <2>3. \E m \in a..b : Splitting(LeftLoop(met, V), data, c, a, b, m, m, m, V)
    BY <1>6, <2>2, LeftIs
  <2> QED
    BY <2>1, <2>3 DEF result, V
<1>10. CASE r # p
  <2>1. result = RightLoop(met, V)
    BY <1>2, <1>7, <1>8, <1>10
  <2>2. Splitting(met, data, c, a, b, p, p, r, V) /\ met.right = c[r]
    BY <1>7, <1>10
  <2>3. \E m \in a..b : Splitting(RightLoop(met, V), data, c, a, b, m, m, m, V)
    BY <1>6, <2>2, RightIs
  <2> QED
    BY <2>1, <2>3 DEF result, V
<1> QED
  BY <1>9, <1>10

-----------------------------------------------------------------------------
(* Selection sort.                                                           *)

\* Of the entries from i to k, the one at m has the data that is to come first.
First(d, c, i, m, k, versus) == \A j \in i..k : ~ Late(d[c[m]], d[c[j]], versus)

\* A turn of the search takes one entry more into account.
ForemostTurn(d, t, lel, versus) ==
  IF t.cursor = next[lel] THEN t
  ELSE [toswap |-> IF Late(d[t.toswap], d[t.cursor], versus) THEN t.cursor ELSE t.toswap,
        cursor |-> next[t.cursor]]

\* The search from an entry on finds one with the data that is to come first.
LEMMA ForemostIs ==
  ASSUME NEW c, NEW a, NEW b, Stretch(c, a, b), NEW d, Numbers(d, c, a, b), NEW part,
         part.lel = c[b], part.versus \in {-1, 1}, NEW i \in a..b
  PROVE  \E m \in i..b :
           Foremost(d, c[i], part) = c[m] /\ First(d, c, i, m, b, part.versus)
<1> DEFINE n == numels
           versus == part.versus
           s == [toswap |-> c[i], cursor |-> next[c[i]]]
           Turn(t) == ForemostTurn(d, t, c[b], versus)
           Met(t, m, k) == /\ m \in i..k /\ k \in i..b
                           /\ t = [toswap |-> c[m], cursor |-> c[k + 1]]
                           /\ First(d, c, i, m, k, versus)
           V == {t \in [toswap : Place, cursor : Place] : \E m, k \in a..b : Met(t, m, k)}
           F == [t \in V |-> Turn(t)]
           Is(g) == g = [k \in 0..n |-> IF k = 0 THEN s ELSE Turn(g[k - 1])]
           w == CHOOSE g : Is(g)
<1>1. /\ n \in Nat /\ a \in Int /\ b \in Int /\ a >= 1 /\ a <= b /\ b <= n
      /\ \A k \in a..(b + 1) : c[k] \in Place
      /\ \A j, k \in a..(b + 1) : c[j] = c[k] => j = k
      /\ \A k \in a..b : next[c[k]] = c[k + 1]
      /\ \A k \in a..b : d[c[k]] \in Int
  <2>1. /\ n \in Nat /\ a \in 1..n /\ b \in a..n
        /\ \A k \in 0..(n + 1) : c[k] \in Place
        /\ \A j, k \in 0..(n + 1) : c[j] = c[k] => j = k
        /\ \A k \in 0..n : next[c[k]] = c[k + 1]
    BY DEF Stretch, Chained
  <2>2. /\ a \in Int /\ b \in Int /\ a >= 1 /\ a <= b /\ b <= n
        /\ \A k \in a..(b + 1) : k \in 0..(n + 1)
        /\ \A k \in a..b : k \in 0..n
    BY <2>1
  <2>3. \A k \in a..b : d[c[k]] \in Int
    BY SortAssumption DEF Numbers
  <2> QED
    BY <2>1, <2>2, <2>3
<1>2. Foremost(d, c[i], part) = w[n].toswap
  BY DEF Foremost, Repeat, ForemostTurn
<1> HIDE DEF n, versus
<1>3. versus \in {-1, 1}
  BY DEF versus
<1>4. ASSUME NEW t, NEW m, NEW k, Met(t, m, k)
      PROVE  /\ m \in a..b /\ k \in a..b /\ t \in [toswap : Place, cursor : Place]
             /\ k = b => Turn(t) = t
             /\ k # b => \E q \in a..b : Met(Turn(t), q, k + 1) /\ k + 1 \in a..b
  <2>1. /\ m \in i..k /\ k \in i..b /\ m \in a..b /\ k \in a..b
        /\ m \in a..(b + 1) /\ k + 1 \in a..(b + 1) /\ b \in a..b /\ b + 1 \in a..(b + 1)
    BY <1>1, <1>4
  <2>2. c[m] \in Place /\ c[k + 1] \in Place
    BY <1>1, <2>1
  <2>3. t.toswap = c[m] /\ t.cursor = c[k + 1] /\ t \in [toswap : Place, cursor : Place]
    BY <1>4, <2>2
  <2>4. next[c[b]] = c[b + 1]
    BY <1>1, <2>1
  <2>5. k = b => Turn(t) = t
    BY <2>3, <2>4 DEF ForemostTurn
  <2>6. ASSUME k # b
        PROVE  \E q \in a..b : Met(Turn(t), q, k + 1) /\ k + 1 \in a..b
    <3>1. k + 1 \in a..b /\ k + 1 \in i..b /\ m \in i..(k + 1) /\ k + 1 \in i..(k + 1)
          /\ \A j \in i..(k + 1) : (j \in i..k \/ j = k + 1) /\ j \in a..b
      BY <1>1, <2>1, <2>6
    <3>2. next[c[b]] # c[k + 1] /\ next[c[k + 1]] = c[(k + 1) + 1]
      BY <1>1, <2>1, <2>4, <2>6, <3>1
    <3> DEFINE q == IF Late(d[c[m]], d[c[k + 1]], versus) THEN k + 1 ELSE m
    <3>3. Turn(t) = [toswap |-> c[q], cursor |-> c[(k + 1) + 1]]
      BY <2>3, <3>2 DEF ForemostTurn
    <3>4. ASSUME NEW j \in i..(k + 1) PROVE ~ Late(d[c[q]], d[c[j]], versus)
      <4>1. d[c[m]] \in Int /\ d[c[j]] \in Int /\ d[c[k + 1]] \in Int
        BY <1>1, <2>1, <3>1
      <4>2. j = k + 1 \/ ~ Late(d[c[m]], d[c[j]], versus)
        BY <1>4, <3>1 DEF First
      <4>3. CASE Late(d[c[m]], d[c[k + 1]], versus)
        <5>1. ~ Late(d[c[k + 1]], d[c[m]], versus) /\ ~ Late(d[c[k + 1]], d[c[k + 1]], versus)
          BY <1>3, <4>1, <4>3, LateOrder
        <5>2. j # k + 1 => ~ Late(d[c[k + 1]], d[c[j]], versus)
          BY <1>3, <4>1, <4>2, <5>1, LateOrder
        <5> QED
          BY <4>3, <5>1, <5>2
      <4>4. CASE ~ Late(d[c[m]], d[c[k + 1]], versus)
        BY <4>2, <4>4
      <4> QED
        BY <4>3, <4>4
    <3>5. q \in i..(k + 1) /\ q \in a..b
      BY <2>1, <3>1
    <3> HIDE DEF q, Turn
    <3>6. Met(Turn(t), q, k + 1)
      BY <3>1, <3>3, <3>4, <3>5 DEF First
    <3> QED
      BY <3>1, <3>5, <3>6
  <2> QED
    BY <2>1, <2>3, <2>5, <2>6
<1>5. Met(s, i, i)
  <2>1. i \in a..b /\ i \in i..i /\ i \in i..b /\ \A j \in i..i : j = i
    BY <1>1
  <2>2. next[c[i]] = c[i + 1] /\ d[c[i]] \in Int
    BY <1>1, <2>1
  <2>3. ~ Late(d[c[i]], d[c[i]], versus)
    BY <1>3, <2>2, LateOrder
  <2> QED
    BY <2>1, <2>2, <2>3 DEF First
<1> HIDE DEF Met, Turn, s
<1>6. s \in V /\ \A t \in V : Turn(t) \in V
  <2>1. s \in V
    BY <1>4, <1>5
  <2>2. ASSUME NEW t \in V PROVE Turn(t) \in V
    <3>1. PICK m, k \in a..b : Met(t, m, k)
      OBVIOUS
    <3>2. \E q, j \in a..b : Met(Turn(t), q, j)
      BY <1>4, <3>1
    <3> QED
      BY <1>4, <3>2
  <2> QED
    BY <2>1, <2>2
<1> HIDE DEF V
<1>7. PICK f : RunOf(f, V, s, F, n)
  <2>1. F \in [V -> V]
    BY <1>6
  <2> HIDE DEF F
  <2> QED
    BY <1>1, <1>6, <2>1, LoopRuns
<1>8. /\ f = [k \in 0..n |-> f[k]] /\ f[0] = s
      /\ \A k \in 1..n : f[k] = Turn(f[k - 1])
  BY <1>7 DEF RunOf
<1>9. Is(f)
  <2>1. \A k \in 0..n : f[k] = IF k = 0 THEN s ELSE Turn(f[k - 1])
    <3>1. \A k \in 0..n : k = 0 \/ k \in 1..n
      BY <1>1
    <3> QED
      BY <1>8, <3>1
  <2> QED
    BY <1>8, <2>1
<1>10. Is(w)
  <2> HIDE DEF Is
  <2> QED
    BY <1>9, Zenon
<1> HIDE DEF w
<1>11. w[n] = f[n]
  <2>1. w[0] = f[0]
    BY <1>1, <1>8, <1>10
  <2>2. ASSUME NEW k \in 1..n, w[k - 1] = f[k - 1] PROVE w[k] = f[k]
    <3>1. w[k] = Turn(w[k - 1])
      BY <1>1, <1>10
    <3> QED
      BY <1>8, <2>2, <3>1
  <2> QED
    BY <1>1, <2>1, <2>2, SameRun
<1> DEFINE S == {j \in 0..n : \E m, k \in a..b : Met(f[j], m, k) /\ (k = b \/ k >= i + j)}
<1>12. S = 0..n
  <2>1. S \subseteq 0..n
    OBVIOUS
  <2>2. 0 \in S
    <3>1. Met(f[0], i, i) /\ i >= i + 0
      BY <1>1, <1>5, <1>8
    <3> QED
      BY <1>1, <3>1
  <2>3. ASSUME NEW j \in 1..n, j - 1 \in S PROVE j \in S
    <3>1. PICK m, k \in a..b : Met(f[j - 1], m, k) /\ (k = b \/ k >= i + (j - 1))
      BY <2>3
    <3>2. PICK t : t = f[j - 1]
      OBVIOUS
    <3>3. Met(t, m, k) /\ f[j] = Turn(t)
      BY <1>8, <3>1, <3>2
    <3>4. /\ k = b => Turn(t) = t
          /\ k # b => \E q \in a..b : Met(Turn(t), q, k + 1) /\ k + 1 \in a..b
      BY ONLY <1>4, <3>3
    <3>5. CASE k = b
      BY <3>3, <3>4, <3>5
    <3>6. CASE k # b
      <4>1. PICK q \in a..b : Met(f[j], q, k + 1) /\ k + 1 \in a..b
        BY <3>3, <3>4, <3>6
      <4>2. k + 1 >= i + j
        BY <1>1, <3>1, <3>6
      <4> QED
        BY <4>1, <4>2
    <3> QED
      BY <3>5, <3>6
  <2> HIDE DEF S
  <2> QED
    BY <1>1, <2>1, <2>2, <2>3, RunKeeps
<1>13. PICK m, k \in a..b : Met(f[n], m, k) /\ (k = b \/ k >= i + n)
  <2>1. n \in S
    BY <1>1, <1>12
  <2> QED
    BY <2>1
<1>14. k = b
  BY <1>1, <1>13
<1>15. f[n] = [toswap |-> c[m], cursor |-> c[b + 1]] /\ m \in i..b /\ First(d, c, i, m, b, versus)
  BY <1>13, <1>14 DEF Met
<1>16. Foremost(d, c[i], part) = c[m]
  BY <1>2, <1>11, <1>15
<1> QED
  BY <1>15, <1>16 DEF versus

\* The entries before i are sorted, and none of them is late for any entry behind it.
Sorted(d, c, a, i, b, versus) ==
  \A j \in a..(i - 1) : \A k \in j..b : ~ Late(d[c[j]], d[c[k]], versus)

\* Exchanging the next entry with the foremost of the rest sorts one entry more.
LEMMA SelectTurn ==
  ASSUME NEW c, NEW a, NEW b, Stretch(c, a, b), NEW d, Numbers(d, c, a, b), NEW part,
         part.lel = c[b], part.versus \in {-1, 1}, NEW e \in DataMap,
         Rearranged(d, e, c, a, b), NEW i \in a..(b - 1), Sorted(e, c, a, i, b, part.versus)
  PROVE  LET g == Exchanged(e, c[i], Foremost(e, c[i], part))
         IN  /\ g \in DataMap /\ Rearranged(d, g, c, a, b)
             /\ Sorted(g, c, a, i + 1, b, part.versus)
<1> DEFINE versus == part.versus
           g == Exchanged(e, c[i], Foremost(e, c[i], part))
<1>1. a \in Int /\ b \in Int /\ a >= 1 /\ a <= b /\ i \in a..b
  BY StretchIs
<1>2. Numbers(e, c, a, b)
  BY NumbersStay
<1>3. PICK m \in i..b :
           Foremost(e, c[i], part) = c[m] /\ First(e, c, i, m, b, versus)
  BY <1>1, <1>2, ForemostIs
<1> HIDE DEF g, versus
<1>4. m \in a..b /\ g = Exchanged(e, c[i], c[m])
  BY <1>1, <1>3 DEF g
<1>5. /\ g \in DataMap /\ Rearranged(e, g, c, a, b)
      /\ g[c[i]] = e[c[m]] /\ g[c[m]] = e[c[i]]
      /\ \A k \in a..b : k # i /\ k # m => g[c[k]] = e[c[k]]
  <2>1. Stretch(c, a, b) /\ e \in DataMap /\ i \in a..b /\ m \in a..b
    BY <1>1, <1>4
  <2>2. /\ Exchanged(e, c[i], c[m]) \in DataMap
        /\ Rearranged(e, Exchanged(e, c[i], c[m]), c, a, b)
        /\ Exchanged(e, c[i], c[m])[c[i]] = e[c[m]] /\ Exchanged(e, c[i], c[m])[c[m]] = e[c[i]]
        /\ \A k \in a..b : k # i /\ k # m => Exchanged(e, c[i], c[m])[c[k]] = e[c[k]]
    BY ONLY <2>1, Exchange
  <2> QED
    BY <1>4, <2>2
<1>6. Rearranged(d, g, c, a, b)
  BY <1>1, <1>5, RearrangedTwice
<1>7. ASSUME NEW k \in i..b PROVE \E q \in i..b : g[c[k]] = e[c[q]]
  <2>1. k \in a..b /\ i \in i..b /\ m \in i..b
    BY <1>1, <1>3
  <2> QED
    BY <1>5, <2>1
<1>8. ASSUME NEW j \in a..((i + 1) - 1), NEW k \in j..b
      PROVE  ~ Late(g[c[j]], g[c[k]], versus)
  <2>1. CASE j = i
    <3>1. g[c[j]] = e[c[m]]
      BY <1>5, <2>1
    <3>2. PICK q \in i..b : g[c[k]] = e[c[q]]
      BY <1>7, <2>1
    <3> QED
      BY <1>3, <3>1, <3>2 DEF First
  <2>2. CASE j # i
    <3>1. j \in a..(i - 1) /\ j \in a..b /\ j # m /\ k \in a..b
      BY <1>1, <1>3, <2>2
    <3>2. g[c[j]] = e[c[j]]
      BY <1>5, <2>2, <3>1
    <3>3. \E q \in j..b : g[c[k]] = e[c[q]]
      <4>1. k \in i..b \/ (k # i /\ k # m)
        BY <1>1, <1>3
      <4>2. \A q \in i..b : q \in j..b
        BY <1>1, <3>1
      <4> QED
        BY <1>5, <1>7, <3>1, <4>1, <4>2
    <3>4. \A q \in j..b : ~ Late(e[c[j]], e[c[q]], versus)
      BY <3>1 DEF Sorted, versus
    <3> QED
      BY <3>2, <3>3, <3>4
  <2> QED
    BY <2>1, <2>2
<1>9. Sorted(g, c, a, i + 1, b, versus)
  BY <1>8 DEF Sorted
<1> QED
  BY <1>5, <1>6, <1>9 DEF g, versus

\* A turn of selection sort.
SelectionTurn(t, part) ==
  IF t.firstunsorted = part.lel THEN t
  ELSE [data |-> Exchanged(t.data, t.firstunsorted, Foremost(t.data, t.firstunsorted, part)),
        firstunsorted |-> next[t.firstunsorted]]

\* Selection sort rearranges its part, and leaves it sorted.
LEMMA SelectionIs ==
  ASSUME NEW c, NEW a, NEW b, Stretch(c, a, b), Numbers(data, c, a, b), NEW part,
         part.fel = c[a], part.lel = c[b], part.versus \in {-1, 1}
  PROVE  LET g == list_sort_selectionsort(part)
         IN  /\ g \in DataMap /\ Rearranged(data, g, c, a, b)
             /\ Sorted(g, c, a, b, b, part.versus)
<1> DEFINE n == numels
           versus == part.versus
           s == [data |-> data, firstunsorted |-> c[a]]
           U == [data : DataMap, firstunsorted : Place]
           Turn(t) == SelectionTurn(t, part)
           Met(t, i) == /\ i \in a..b /\ t.firstunsorted = c[i] /\ t \in U
                        /\ Rearranged(data, t.data, c, a, b)
                        /\ Sorted(t.data, c, a, i, b, versus)
           V == {t \in U : \E i \in a..b : Met(t, i)}
           F == [t \in V |-> Turn(t)]
           Is(g) == g = [k \in 0..n |-> IF k = 0 THEN s ELSE Turn(g[k - 1])]
           w == CHOOSE g : Is(g)
<1>1. /\ n \in Nat /\ a \in Int /\ b \in Int /\ a >= 1 /\ a <= b /\ b <= n
      /\ \A k \in a..b : c[k] \in Place
      /\ \A j, k \in a..b : c[j] = c[k] => j = k
      /\ \A k \in a..(b - 1) : next[c[k]] = c[k + 1]
  BY StretchIs
<1>2. list_sort_selectionsort(part) = w[n].data
  BY DEF list_sort_selectionsort, Repeat, SelectionTurn
<1> HIDE DEF n, versus
<1>3. ASSUME NEW t, NEW i, Met(t, i)
      PROVE  /\ i \in a..b /\ t \in U
             /\ i = b => Turn(t) = t
             /\ i # b => Met(Turn(t), i + 1) /\ i + 1 \in a..b
  <2>1. i \in a..b /\ t \in U /\ t.firstunsorted = c[i]
    BY <1>3
  <2>2. i = b => Turn(t) = t
    BY <2>1 DEF SelectionTurn
  <2>3. ASSUME i # b PROVE Met(Turn(t), i + 1) /\ i + 1 \in a..b
    <3>1. i \in a..(b - 1) /\ i + 1 \in a..b /\ b \in a..b
      BY <1>1, <2>1, <2>3
    <3>2. c[i] # part.lel /\ next[c[i]] = c[i + 1] /\ c[i + 1] \in Place
      BY <1>1, <2>1, <2>3, <3>1
    <3>3. PICK e : e = t.data
      OBVIOUS
    <3> DEFINE g == Exchanged(e, c[i], Foremost(e, c[i], part))
               z == c[i + 1]
    <3>4. e \in DataMap /\ Rearranged(data, e, c, a, b) /\ Sorted(e, c, a, i, b, part.versus)
      BY <1>3, <2>1, <3>3 DEF versus
    <3>5. g \in DataMap /\ Rearranged(data, g, c, a, b) /\ Sorted(g, c, a, i + 1, b, part.versus)
      <4>1. Stretch(c, a, b) /\ Numbers(data, c, a, b) /\ part.lel = c[b] /\ part.versus \in {-1, 1}
        OBVIOUS
      <4> QED
        BY ONLY <3>1, <3>4, <4>1, SelectTurn
    <3>6. Turn(t) = [data |-> g, firstunsorted |-> z]
      BY <2>1, <3>2, <3>3 DEF SelectionTurn
    <3>7. z \in Place
      BY <3>2
    <3> HIDE DEF g
    <3>8. Turn(t) \in U /\ Turn(t).data = g /\ Turn(t).firstunsorted = z
      <4> HIDE DEF z, Turn
      <4> QED
        BY <3>5, <3>6, <3>7
    <3> QED
      BY <3>1, <3>5, <3>8 DEF versus
  <2> QED
    BY <2>1, <2>2, <2>3
<1>4. Met(s, a)
  <2>1. a \in a..b /\ c[a] \in Place /\ data \in DataMap
    BY <1>1 DEF Numbers
  <2>2. Rearranged(data, data, c, a, b)
    BY <1>1, RearrangedNot
  <2>3. Sorted(data, c, a, a, b, versus)
    <3>1. a..(a - 1) = {}
      BY <1>1
    <3> QED
      BY <3>1 DEF Sorted
  <2> QED
    BY <2>1, <2>2, <2>3
<1> HIDE DEF Met, Turn, s, U
<1>6. s \in V /\ \A t \in V : Turn(t) \in V
  <2>1. s \in V
    BY <1>3, <1>4
  <2>2. ASSUME NEW t \in V PROVE Turn(t) \in V
    <3>1. PICK i \in a..b : Met(t, i)
      OBVIOUS
    <3>2. \E j \in a..b : Met(Turn(t), j)
      BY <1>3, <3>1
    <3> QED
      BY <1>3, <3>2
  <2> QED
    BY <2>1, <2>2
<1> HIDE DEF V
<1>7. PICK f : RunOf(f, V, s, F, n)
  <2>1. F \in [V -> V]
    BY <1>6
  <2> HIDE DEF F
  <2> QED
    BY <1>1, <1>6, <2>1, LoopRuns
<1>8. /\ f = [k \in 0..n |-> f[k]] /\ f[0] = s
      /\ \A k \in 1..n : f[k] = Turn(f[k - 1])
  BY <1>7 DEF RunOf
<1>9. Is(f)
  <2>1. \A k \in 0..n : f[k] = IF k = 0 THEN s ELSE Turn(f[k - 1])
    <3>1. \A k \in 0..n : k = 0 \/ k \in 1..n
      BY <1>1
    <3> QED
      BY <1>8, <3>1
  <2> QED
    BY <1>8, <2>1
<1>10. Is(w)
  <2> HIDE DEF Is
  <2> QED
    BY <1>9, Zenon
<1> HIDE DEF w
<1>11. w[n] = f[n]
  <2>1. w[0] = f[0]
    BY <1>1, <1>8, <1>10
  <2>2. ASSUME NEW k \in 1..n, w[k - 1] = f[k - 1] PROVE w[k] = f[k]
    <3>1. w[k] = Turn(w[k - 1])
      BY <1>1, <1>10
    <3> QED
      BY <1>8, <2>2, <3>1
  <2> QED
    BY <1>1, <2>1, <2>2, SameRun
<1> DEFINE S == {k \in 0..n : \E i \in a..b : Met(f[k], i) /\ (i = b \/ i >= a + k)}
<1>12. S = 0..n
  <2>1. S \subseteq 0..n
    OBVIOUS
  <2>2. 0 \in S
    <3>1. Met(f[0], a) /\ a >= a + 0
      BY <1>1, <1>4, <1>8
    <3> QED
      BY <1>1, <3>1
  <2>3. ASSUME NEW k \in 1..n, k - 1 \in S PROVE k \in S
    <3>1. PICK i \in a..b : Met(f[k - 1], i) /\ (i = b \/ i >= a + (k - 1))
      BY <2>3
    <3>2. PICK t : t = f[k - 1]
      OBVIOUS
    <3>3. Met(t, i) /\ f[k] = Turn(t)
      BY <1>8, <3>1, <3>2
    <3>4. /\ i = b => Turn(t) = t
          /\ i # b => Met(Turn(t), i + 1) /\ i + 1 \in a..b
      BY ONLY <1>3, <3>3
    <3>5. CASE i = b
      BY <3>3, <3>4, <3>5
    <3>6. CASE i # b
      <4>1. Met(f[k], i + 1) /\ i + 1 \in a..b
        BY <3>3, <3>4, <3>6
      <4>2. i + 1 >= a + k
        BY <1>1, <3>1, <3>6
      <4> QED
        BY <4>1, <4>2
    <3> QED
      BY <3>5, <3>6
  <2> HIDE DEF S
  <2> QED
    BY <1>1, <2>1, <2>2, <2>3, RunKeeps
<1>13. PICK i \in a..b : Met(f[n], i) /\ (i = b \/ i >= a + n)
  <2>1. n \in S
    BY <1>1, <1>12
  <2> QED
    BY <2>1
<1>14. i = b
  BY <1>1, <1>13
<1>15. /\ f[n].data \in DataMap /\ Rearranged(data, f[n].data, c, a, b)
       /\ Sorted(f[n].data, c, a, b, b, versus)
  BY <1>13, <1>14 DEF Met, U
<1> QED
  BY <1>2, <1>11, <1>15 DEF versus

-----------------------------------------------------------------------------
(* The parts that are yet to be sorted.                                      *)

Part == [first : Nat, fel : Place, last : Nat, lel : Place, versus : {-1, 1}]

\* A part is a stretch of the list, and points to its ends.
PartAt(part, c) ==
  /\ part \in Part /\ part.first <= part.last /\ part.last < numels
  /\ part.fel = c[part.first + 1] /\ part.lel = c[part.last + 1]

\* The parts are apart, the last one foremost, and all are sorted the same way.
PartsAt(s, c, versus) ==
  /\ s \in Seq(Part) /\ versus \in {-1, 1}
  /\ \A p \in 1..Len(s) : PartAt(s[p], c) /\ s[p].versus = versus
  /\ \A p, q \in 1..Len(s) : p < q => s[q].last < s[p].first

\* What a part leaves when it is split.
Pieces(t, part, c) ==
  /\ t \in Seq(Part)
  /\ \A p \in 1..Len(t) : /\ PartAt(t[p], c) /\ t[p].versus = part.versus
                          /\ part.first <= t[p].first /\ t[p].last <= part.last
  /\ \A p, q \in 1..Len(t) : p < q => t[q].last < t[p].first

\* Item i is in a part; items i and j are in one part.
Covers(s, i)      == \E p \in DOMAIN s : s[p].first < i /\ i <= s[p].last + 1
Together(s, i, j) == \E p \in DOMAIN s : s[p].first < i /\ j <= s[p].last + 1

\* Items that are not in one part are in order.
Apart(s, d, c, versus) ==
  \A i, j \in 1..numels :
    i < j /\ ~ Together(s, i, j) => ~ Late(d[c[i]], d[c[j]], versus)

\* The two sides of the pivot at m are pieces of the part, and m is in none of them.
LEMMA SidesAre ==
  ASSUME NEW c, NEW part, PartAt(part, c), numels \in Nat, Chained(c, numels, next, prev),
         NEW m \in (part.first + 1)..(part.last + 1), NEW s,
         s.pivot = c[m], s.pivotid = m - (part.first + 1)
  PROVE  LET t == Sides(part, s)
         IN  /\ Pieces(t, part, c) /\ ~ Covers(t, m)
             /\ \A i, j \in (part.first + 1)..(part.last + 1) :
                  i < j /\ ~ Together(t, i, j) => i <= m /\ m <= j
<1> DEFINE a == part.first
           b == part.last
           y == c[m + 1]
           z == c[m - 1]
           R == [part EXCEPT !.first = m, !.fel = y]
           L == [part EXCEPT !.last = m - 2, !.lel = z]
           t == Sides(part, s)
<1>1. /\ part \in Part /\ a \in Nat /\ b \in Nat /\ m \in Nat /\ a <= b /\ b < numels
      /\ m >= a + 1 /\ m <= b + 1 /\ numels \in Nat
      /\ part.fel = c[a + 1] /\ part.lel = c[b + 1]
  BY DEF PartAt, Part
<1>2. part.first + s.pivotid = m - 1 /\ part.first + s.pivotid + 1 = m
      /\ part.first + s.pivotid - 1 = m - 2
  BY <1>1
<1>3. m <= b => next[s.pivot] = y /\ y \in Place
  <2>1. ASSUME m <= b PROVE m \in 0..numels /\ m + 1 \in 0..(numels + 1)
    BY <1>1, <2>1
  <2> QED
    BY <2>1 DEF Chained
<1>4. m > a + 1 => prev[s.pivot] = z /\ z \in Place
  <2>1. ASSUME m > a + 1
        PROVE  m - 1 \in 0..numels /\ (m - 1) + 1 = m /\ m - 1 \in 0..(numels + 1)
    BY <1>1, <2>1
  <2>2. ASSUME m > a + 1 PROVE prev[c[(m - 1) + 1]] = c[m - 1]
    BY <2>1, <2>2 DEF Chained
  <2>3. ASSUME m > a + 1 PROVE c[m - 1] \in Place
    BY <2>1, <2>3 DEF Chained
  <2> QED
    BY <2>1, <2>2, <2>3
<1>5. t = (IF m <= b THEN <<R>> ELSE <<>>) \o (IF m > a + 1 THEN <<L>> ELSE <<>>)
  <2>1. (part.first + s.pivotid < part.last) <=> m <= b
    BY <1>1, <1>2
  <2>2. (s.pivotid > 0) <=> m > a + 1
    BY <1>1
  <2>3. m <= b => [part EXCEPT !.first = @ + s.pivotid + 1, !.fel = next[s.pivot]] = R
    BY <1>2, <1>3
  <2>4. m > a + 1 =>
          [part EXCEPT !.last = part.first + s.pivotid - 1, !.lel = prev[s.pivot]] = L
    BY <1>2, <1>4
  <2> HIDE DEF R, L
  <2> QED
    BY <2>1, <2>2, <2>3, <2>4 DEF Sides
<1>6. m <= b => /\ PartAt(R, c) /\ R.versus = part.versus
                /\ R.first = m /\ R.last = b
  <2> ASSUME m <= b PROVE /\ PartAt(R, c) /\ R.versus = part.versus /\ R.first = m /\ R.last = b
    <3> HIDE DEF y
    <3>1. y \in Place
      BY <1>3
    <3>2. R \in Part /\ R.first = m /\ R.last = b /\ R.versus = part.versus /\ R.fel = y
          /\ R.lel = part.lel
      BY <1>1, <3>1 DEF Part
    <3> HIDE DEF R
    <3> QED
      BY <1>1, <3>2 DEF PartAt, y
  <2> QED
    OBVIOUS
<1>7. m > a + 1 => /\ PartAt(L, c) /\ L.versus = part.versus
                   /\ L.first = a /\ L.last = m - 2
  <2> ASSUME m > a + 1
      PROVE  /\ PartAt(L, c) /\ L.versus = part.versus /\ L.first = a /\ L.last = m - 2
    <3>1. z \in Place /\ m - 2 \in Nat /\ (m - 2) + 1 = m - 1 /\ a <= m - 2 /\ m - 2 < numels
      BY <1>1, <1>4
    <3> HIDE DEF z
    <3>2. L \in Part /\ L.first = a /\ L.last = m - 2 /\ L.versus = part.versus /\ L.lel = z
          /\ L.fel = part.fel
      BY <1>1, <3>1 DEF Part
    <3> HIDE DEF L
    <3> QED
      BY <1>1, <3>1, <3>2 DEF PartAt, z
  <2> QED
    OBVIOUS
<1> HIDE DEF t, R, L, a, b
<1>8. (m <= b => R \in Part) /\ (m > a + 1 => L \in Part)
  BY <1>6, <1>7 DEF PartAt
<1>9. /\ part.versus = part.versus /\ part.first = a /\ part.last = b
  BY DEF a, b
<1>10. CASE m <= b /\ m > a + 1
  <2>1. t = <<R>> \o <<L>>
    BY <1>5, <1>10
  <2>2. t \in Seq(Part) /\ Len(t) = 2 /\ t[1] = R /\ t[2] = L /\ DOMAIN t = {1, 2}
        /\ \A p \in 1..2 : p = 1 \/ p = 2
    <3>1. <<R>> \in Seq(Part) /\ <<L>> \in Seq(Part)
      BY <1>8, <1>10
    <3>2. t \in Seq(Part) /\ Len(t) = 2
      BY <2>1, <3>1
    <3>3. t[1] = R /\ t[2] = L
      BY <2>1, <3>1
    <3>4. DOMAIN t = 1..2
      BY <3>2
    <3> QED
      BY <3>2, <3>3, <3>4
  <2>3. Pieces(t, part, c)
    BY <1>1, <1>6, <1>7, <1>9, <1>10, <2>2 DEF Pieces
  <2>4. ~ Covers(t, m)
    BY <1>1, <1>6, <1>7, <1>10, <2>2 DEF Covers
  <2>5. ASSUME NEW i \in (a + 1)..(b + 1), NEW j \in (a + 1)..(b + 1), i < j,
               ~ Together(t, i, j)
        PROVE  i <= m /\ m <= j
    <3>1. ~ (m < i /\ j <= b + 1) /\ ~ (a < i /\ j <= (m - 2) + 1)
      BY <1>6, <1>7, <1>10, <2>2, <2>5 DEF Together
    <3> QED
      BY <1>1, <3>1
  <2> QED
    BY <1>9, <2>3, <2>4, <2>5 DEF t
<1>11. CASE m <= b /\ ~ (m > a + 1)
  <2>1. t = <<R>>
    BY <1>5, <1>11
  <2>2. t \in Seq(Part) /\ Len(t) = 1 /\ t[1] = R /\ DOMAIN t = {1} /\ \A p \in 1..1 : p = 1
    BY <1>8, <1>11, <2>1
  <2>3. Pieces(t, part, c)
    BY <1>1, <1>6, <1>9, <1>11, <2>2 DEF Pieces
  <2>4. ~ Covers(t, m)
    BY <1>1, <1>6, <1>11, <2>2 DEF Covers
  <2>5. ASSUME NEW i \in (a + 1)..(b + 1), NEW j \in (a + 1)..(b + 1), i < j,
               ~ Together(t, i, j)
        PROVE  i <= m /\ m <= j
    <3>1. ~ (m < i /\ j <= b + 1)
      BY <1>6, <1>11, <2>2, <2>5 DEF Together
    <3> QED
      BY <1>1, <1>11, <3>1
  <2> QED
    BY <1>9, <2>3, <2>4, <2>5 DEF t
<1>12. CASE ~ (m <= b) /\ m > a + 1
  <2>1. t = <<L>>
    BY <1>5, <1>12
  <2>2. t \in Seq(Part) /\ Len(t) = 1 /\ t[1] = L /\ DOMAIN t = {1} /\ \A p \in 1..1 : p = 1
    BY <1>8, <1>12, <2>1
  <2>3. Pieces(t, part, c)
    BY <1>1, <1>7, <1>9, <1>12, <2>2 DEF Pieces
  <2>4. ~ Covers(t, m)
    BY <1>1, <1>7, <1>12, <2>2 DEF Covers
  <2>5. ASSUME NEW i \in (a + 1)..(b + 1), NEW j \in (a + 1)..(b + 1), i < j,
               ~ Together(t, i, j)
        PROVE  i <= m /\ m <= j
    <3>1. ~ (a < i /\ j <= (m - 2) + 1)
      BY <1>7, <1>12, <2>2, <2>5 DEF Together
    <3> QED
      BY <1>1, <1>12, <3>1
  <2> QED
    BY <1>9, <2>3, <2>4, <2>5 DEF t
<1>13. CASE ~ (m <= b) /\ ~ (m > a + 1)
  <2>1. t = <<>>
    BY <1>5, <1>13
  <2>2. Pieces(t, part, c) /\ ~ Covers(t, m)
    BY <2>1 DEF Pieces, Covers
  <2>3. \A i, j \in (a + 1)..(b + 1) : i <= m /\ m <= j
    BY <1>1, <1>13
  <2> QED
    BY <1>9, <2>2, <2>3 DEF t
<1> QED
  BY <1>10, <1>11, <1>12, <1>13

\* Pieces take the place of the last part: the parts stay apart, nothing is in them that was
\* not, and what is no longer together was in the last part.
LEMMA Replaced ==
  ASSUME NEW c, NEW versus, NEW s, PartsAt(s, c, versus), s # <<>>,
         NEW t, Pieces(t, Last(s), c)
  PROVE  LET u    == Front(s) \o t
             part == Last(s)
         IN  /\ PartsAt(u, c, versus)
             /\ \A i \in Int : Covers(u, i) => Covers(s, i)
             /\ \A i \in (part.first + 1)..(part.last + 1) :
                  Covers(s, i) /\ (~ Covers(t, i) => ~ Covers(u, i))
             /\ \A i, j \in Int : i < j /\ Together(s, i, j) /\ ~ Together(u, i, j) =>
                  /\ i \in (part.first + 1)..(part.last + 1)
                  /\ j \in (part.first + 1)..(part.last + 1) /\ ~ Together(t, i, j)
<1> DEFINE f == Front(s)
           part == Last(s)
           u == f \o t
           n == Len(s)
           m == Len(t)
<1>1. s \in Seq(Part) /\ n \in Nat \ {0} /\ t \in Seq(Part) /\ m \in Nat
  BY DEF PartsAt, Pieces
<1>2. /\ f \in Seq(Part) /\ Len(f) = n - 1 /\ \A p \in 1..(n - 1) : f[p] = s[p]
      /\ part = s[n] /\ part \in Part
  <2>1. f = SubSeq(s, 1, n - 1) /\ part = s[n]
    BY DEF Front, Last
  <2> HIDE DEF f, part, n
  <2>2. n = Len(s)
    BY DEF n
  <2>3. n - 1 \in Nat /\ 1 \in Int /\ n - 1 \in Int /\ n \in 1..n /\ \A p \in 1..(n - 1) : p \in 1..n
    BY <1>1
  <2>4. \A p \in 1..n : s[p] \in Part
    BY <1>1, <2>2
  <2>5. /\ f \in Seq(Part) /\ Len(f) = IF 1 <= n - 1 THEN n - 1 - 1 + 1 ELSE 0
        /\ \A p \in 1..(n - 1 - 1 + 1) : f[p] = s[1 + p - 1]
    BY ONLY <2>1, <2>3, <2>4, SubSeqProperties
  <2>6. n - 1 - 1 + 1 = n - 1 /\ (IF 1 <= n - 1 THEN n - 1 ELSE 0) = n - 1
    BY ONLY <2>3
  <2>7. ASSUME NEW p \in 1..(n - 1) PROVE f[p] = s[p]
    <3>1. 1 + p - 1 = p
      OBVIOUS
    <3> QED
      BY ONLY <2>5, <2>6, <2>7, <3>1
  <2> QED
    BY ONLY <2>1, <2>3, <2>4, <2>5, <2>6, <2>7
<1> HIDE DEF f, part, n
<1>3. u \in Seq(Part) /\ Len(u) = (n - 1) + m
  <2>1. u \in Seq(Part) /\ Len(u) = Len(f) + Len(t)
    BY ONLY <1>1, <1>2, ConcatProperties
  <2> QED
    BY <1>2, <2>1
<1>4. /\ \A p \in 1..(n - 1) : u[p] = s[p]
      /\ \A p \in 1..m : u[(n - 1) + p] = t[p]
  <2>1. /\ Len(f) = n - 1 /\ Len(t) = m
        /\ \A p \in 1..(Len(f) + Len(t)) : (f \o t)[p] = IF p <= Len(f) THEN f[p] ELSE t[p - Len(f)]
    BY ONLY <1>1, <1>2, ConcatProperties
  <2>2. ASSUME NEW p \in 1..(n - 1) PROVE u[p] = s[p]
    <3>1. p \in 1..((n - 1) + m) /\ p <= n - 1
      BY <1>1
    <3>2. u[p] = f[p]
      BY <2>1, <3>1
    <3> QED
      BY <1>2, <3>2
  <2>3. ASSUME NEW p \in 1..m PROVE u[(n - 1) + p] = t[p]
    <3>1. (n - 1) + p \in 1..((n - 1) + m) /\ ~ ((n - 1) + p <= n - 1) /\ (n - 1) + p - (n - 1) = p
      BY <1>1
    <3> QED
      BY <2>1, <3>1
  <2> QED
    BY <2>2, <2>3
<1>5. /\ \A p \in 1..n : PartAt(s[p], c) /\ s[p].versus = versus /\ s[p] \in Part
      /\ \A p, q \in 1..n : p < q => s[q].last < s[p].first
      /\ \A p \in 1..m : /\ PartAt(t[p], c) /\ t[p].versus = part.versus /\ t[p] \in Part
                         /\ part.first <= t[p].first /\ t[p].last <= part.last
      /\ \A p, q \in 1..m : p < q => t[q].last < t[p].first
      /\ versus \in {-1, 1}
  BY DEF PartsAt, Pieces, PartAt, n, part
<1>6. DOMAIN s = 1..n /\ DOMAIN t = 1..m /\ DOMAIN u = 1..((n - 1) + m)
  <2>1. DOMAIN s = 1..n
    BY <1>1 DEF n
  <2>2. DOMAIN u = 1..Len(u)
    BY <1>3
  <2> QED
    BY <1>1, <1>3, <2>1, <2>2
<1> HIDE DEF f, part, u, n, m
<1>7. ASSUME NEW p \in 1..((n - 1) + m)
      PROVE  \/ p \in 1..(n - 1) /\ p \in 1..n /\ u[p] = s[p]
             \/ p - (n - 1) \in 1..m /\ u[p] = t[p - (n - 1)]
  <2>1. CASE p \in 1..(n - 1)
    BY <1>1, <1>4, <2>1
  <2>2. CASE p \notin 1..(n - 1)
    <3>1. PICK k : k = p - (n - 1)
      OBVIOUS
    <3>2. k \in 1..m /\ (n - 1) + k = p
      BY <1>1, <2>2, <3>1
    <3>3. u[(n - 1) + k] = t[k]
      BY <1>4, <3>2
    <3> QED
      BY <3>1, <3>2, <3>3
  <2> QED
    BY <2>1, <2>2
<1>8. n \in 1..n /\ part = s[n] /\ part.versus = versus /\ part.first \in Nat /\ part.last \in Nat
      /\ part.first <= part.last
  <2>1. n \in 1..n /\ part = s[n]
    BY <1>1, <1>2
  <2> QED
    BY <1>5, <2>1 DEF Part, PartAt
<1>9. ASSUME NEW p \in 1..(n - 1)
      PROVE  p \in 1..n /\ part.last < s[p].first /\ s[p].first \in Nat /\ s[p].last \in Nat
             /\ s[p].first <= s[p].last
  <2>1. p \in 1..n /\ p < n
    BY <1>1
  <2> QED
    BY <1>5, <1>8, <2>1 DEF Part, PartAt
<1>10. \A p \in 1..m : t[p].first \in Nat /\ t[p].last \in Nat
  BY <1>5 DEF Part
<1>11. PartsAt(u, c, versus)
  <2>1. ASSUME NEW p \in 1..Len(u) PROVE PartAt(u[p], c) /\ u[p].versus = versus
    BY <1>3, <1>5, <1>7, <1>8
  <2>2. ASSUME NEW p \in 1..Len(u), NEW q \in 1..Len(u), p < q
        PROVE  u[q].last < u[p].first
    <3>1. p \in 1..((n - 1) + m) /\ q \in 1..((n - 1) + m)
      BY <1>3
    <3>2. CASE p \in 1..(n - 1) /\ q \in 1..(n - 1)
      BY <1>4, <1>5, <1>9, <2>2, <3>2
    <3>3. CASE p \in 1..(n - 1) /\ q \notin 1..(n - 1)
      <4>1. PICK k \in 1..m : u[q] = t[k]
        BY <1>7, <3>1, <3>3
      <4>2. u[p] = s[p]
        BY <1>4, <3>3
      <4> QED
        BY <1>5, <1>8, <1>9, <1>10, <3>3, <4>1, <4>2
    <3>4. CASE p \notin 1..(n - 1)
      <4>1. q \notin 1..(n - 1)
        BY <1>1, <2>2, <3>1, <3>4
      <4>2. PICK k, l : k = p - (n - 1) /\ l = q - (n - 1)
        OBVIOUS
      <4>3. k \in 1..m /\ l \in 1..m /\ u[p] = t[k] /\ u[q] = t[l]
        BY <1>7, <3>1, <3>4, <4>1, <4>2
      <4>4. k < l
        BY <1>1, <2>2, <3>1, <4>2
      <4> QED
        BY <1>5, <4>3, <4>4
    <3> QED
      BY <3>2, <3>3, <3>4
  <2> QED
    BY <1>3, <1>5, <2>1, <2>2 DEF PartsAt
<1>12. ASSUME NEW i \in Int, Covers(u, i) PROVE Covers(s, i)
  <2>1. PICK p \in 1..((n - 1) + m) : u[p].first < i /\ i <= u[p].last + 1
    BY <1>6, <1>12 DEF Covers
  <2>2. CASE p \in 1..(n - 1)
    BY <1>4, <1>6, <1>9, <2>1, <2>2 DEF Covers
  <2>3. CASE p \notin 1..(n - 1)
    <3>1. PICK k \in 1..m : u[p] = t[k]
      BY <1>7, <2>3
    <3>2. part.first < i /\ i <= part.last + 1
      BY <1>5, <1>8, <1>10, <2>1, <3>1
    <3> QED
      BY <1>6, <1>8, <3>2 DEF Covers
  <2> QED
    BY <2>2, <2>3
<1>13. ASSUME NEW i \in (part.first + 1)..(part.last + 1)
       PROVE  Covers(s, i) /\ (~ Covers(t, i) => ~ Covers(u, i))
  <2>1. i \in Int /\ part.first < i /\ i <= part.last + 1
    BY <1>8
  <2>2. Covers(s, i)
    BY <1>6, <1>8, <2>1 DEF Covers
  <2>3. ASSUME Covers(u, i) PROVE Covers(t, i)
    <3>1. PICK p \in 1..((n - 1) + m) : u[p].first < i /\ i <= u[p].last + 1
      BY <1>6, <2>3 DEF Covers
    <3>2. p \notin 1..(n - 1)
      BY <1>4, <1>8, <1>9, <2>1, <3>1
    <3>3. PICK k \in 1..m : u[p] = t[k]
      BY <1>7, <3>2
    <3> QED
      BY <1>6, <3>1, <3>3 DEF Covers
  <2> QED
    BY <2>2, <2>3
<1>14. ASSUME NEW i \in Int, NEW j \in Int, i < j, Together(s, i, j), ~ Together(u, i, j)
       PROVE  /\ i \in (part.first + 1)..(part.last + 1)
              /\ j \in (part.first + 1)..(part.last + 1) /\ ~ Together(t, i, j)
  <2>1. PICK p \in 1..n : s[p].first < i /\ j <= s[p].last + 1
    BY <1>6, <1>14 DEF Together
  <2>2. p = n
    <3>1. p # n => p \in 1..(n - 1) /\ p \in 1..((n - 1) + m)
      BY <1>1
    <3> QED
      BY <1>4, <1>6, <1>14, <2>1, <3>1 DEF Together
  <2>3. i \in (part.first + 1)..(part.last + 1) /\ j \in (part.first + 1)..(part.last + 1)
    BY <1>8, <1>14, <2>1, <2>2
  <2>4. ~ Together(t, i, j)
    <3>1. SUFFICES ASSUME NEW k \in 1..m, t[k].first < i, j <= t[k].last + 1 PROVE FALSE
      BY <1>6 DEF Together
    <3>2. (n - 1) + k \in 1..((n - 1) + m) /\ u[(n - 1) + k] = t[k]
      BY <1>1, <1>4
    <3> QED
      BY <1>6, <1>14, <3>1, <3>2 DEF Together
  <2> QED
    BY <2>3, <2>4
<1> QED
  BY <1>11, <1>12, <1>13, <1>14 DEF u, f, part

\* Data is moved within one part only: items that are not together stay in order.
LEMMA ApartStays ==
  ASSUME NEW c, NEW versus, NEW s, PartsAt(s, c, versus), NEW d, NEW e,
         Apart(s, d, c, versus), numels \in Nat, Chained(c, numels, next, prev),
         NEW p \in 1..Len(s), NEW a, NEW b, a = s[p].first + 1, b = s[p].last + 1,
         Rearranged(d, e, c, a, b)
  PROVE  Apart(s, e, c, versus)
<1>1. /\ s \in Seq(Part) /\ a \in Nat /\ b \in Nat /\ a >= 1 /\ a <= b /\ b <= numels
      /\ \A q \in 1..Len(s) : s[q] \in Part /\ s[q].first \in Nat /\ s[q].last \in Nat
                              /\ s[q].first <= s[q].last
      /\ \A q, r \in 1..Len(s) : q < r => s[r].last < s[q].first
      /\ DOMAIN s = 1..Len(s)
  <2>1. /\ s \in Seq(Part) /\ \A q \in 1..Len(s) : PartAt(s[q], c)
        /\ \A q, r \in 1..Len(s) : q < r => s[r].last < s[q].first
    BY DEF PartsAt
  <2>2. ASSUME NEW q \in 1..Len(s)
        PROVE  /\ s[q] \in Part /\ s[q].first \in Nat /\ s[q].last \in Nat
               /\ s[q].first <= s[q].last /\ s[q].last < numels
    BY <2>1 DEF PartAt, Part
  <2>3. DOMAIN s = 1..Len(s)
    BY <2>1
  <2>4. a \in Nat /\ b \in Nat /\ a >= 1 /\ a <= b /\ b <= numels
    BY <2>2
  <2> QED
    BY <2>1, <2>2, <2>3, <2>4
<1>2. PICK f : Permutes(f, a, b) /\ \A i \in a..b : e[c[i]] = d[c[f[i]]]
  BY DEF Rearranged
<1>3. \A i \in a..b : f[i] \in a..b /\ f[i] \in 1..numels
  <2>1. \A i \in a..b : f[i] \in a..b
    BY <1>2 DEF Permutes
  <2>2. \A i \in a..b : i \in 1..numels
    BY <1>1
  <2> QED
    BY <2>1, <2>2
<1>4. ASSUME NEW i \in 1..numels, i \notin a..b PROVE e[c[i]] = d[c[i]]
  <2>1. c[i] \in Place /\ \A j \in a..b : c[i] # c[j]
    <3>1. i \in 0..(numels + 1) /\ \A j \in a..b : j \in 0..(numels + 1) /\ i # j
      BY <1>1, <1>4
    <3> QED
      BY <3>1 DEF Chained
  <2> QED
    BY <2>1 DEF Rearranged, Elsewhere
<1>5. ASSUME NEW i \in 1..numels, NEW j \in 1..numels, i < j, i \in a..b, j \in a..b
      PROVE  Together(s, i, j)
  <2>1. s[p].first < i /\ j <= s[p].last + 1
    BY <1>1, <1>5
  <2> QED
    BY <1>1, <2>1 DEF Together
<1>6. ASSUME NEW i \in 1..numels, NEW j \in 1..numels, i < j, Together(s, i, j),
             i \in a..b \/ j \in a..b
      PROVE  i \in a..b /\ j \in a..b
  <2>1. PICK q \in 1..Len(s) : s[q].first < i /\ j <= s[q].last + 1
    BY <1>1, <1>6 DEF Together
  <2>2. q = p
    <3>1. ~ (q < p)
      BY <1>1, <1>6, <2>1
    <3>2. ~ (p < q)
      BY <1>1, <1>6, <2>1
    <3> QED
      BY <3>1, <3>2
  <2> QED
    BY <1>1, <1>6, <2>1, <2>2
<1>7. ASSUME NEW i \in 1..numels, NEW j \in 1..numels, i < j, ~ Together(s, i, j)
      PROVE  ~ Late(e[c[i]], e[c[j]], versus)
  <2>1. ~ (i \in a..b /\ j \in a..b)
    BY <1>5, <1>7
  <2>2. \A k, l \in 1..numels : k < l /\ ~ Together(s, k, l) => ~ Late(d[c[k]], d[c[l]], versus)
    BY DEF Apart
  <2>3. CASE i \in a..b
    <3>1. f[i] \in a..b /\ f[i] \in 1..numels /\ j \notin a..b /\ e[c[i]] = d[c[f[i]]]
      BY <1>2, <1>3, <2>1, <2>3
    <3>2. f[i] < j
      BY <1>1, <1>7, <2>3, <3>1
    <3>3. ~ Together(s, f[i], j)
      BY <1>6, <3>1, <3>2
    <3> QED
      BY <1>4, <2>2, <3>1, <3>2, <3>3
  <2>4. CASE j \in a..b
    <3>1. f[j] \in a..b /\ f[j] \in 1..numels /\ i \notin a..b /\ e[c[j]] = d[c[f[j]]]
      BY <1>2, <1>3, <2>1, <2>4
    <3>2. i < f[j]
      BY <1>1, <1>7, <2>4, <3>1
    <3>3. ~ Together(s, i, f[j])
      BY <1>6, <3>1, <3>2
    <3> QED
      BY <1>4, <2>2, <3>1, <3>2, <3>3
  <2>5. CASE i \notin a..b /\ j \notin a..b
    BY <1>4, <1>7, <2>2, <2>5
  <2> QED
    BY <2>3, <2>4, <2>5
<1> QED
  BY <1>7 DEF Apart

-----------------------------------------------------------------------------
(* One call of list_sort_quicksort.                                          *)

\* The items of the list refer to numbers, the sentinels to nothing.
Referring(c, n, d) ==
  /\ d \in DataMap /\ d[head_sentinel] = Null /\ d[tail_sentinel] = Null
  /\ \A i \in 1..n : d[c[i]] \in Data

\* They still do when a part is rearranged.
LEMMA ReferringStays ==
  ASSUME NEW c, numels \in Nat, Chained(c, numels, next, prev), NEW a \in 1..numels,
         NEW b \in a..numels, NEW d, NEW e \in DataMap, Referring(c, numels, d),
         Rearranged(d, e, c, a, b)
  PROVE  Referring(c, numels, e)
<1>1. PICK f : Permutes(f, a, b) /\ \A i \in a..b : e[c[i]] = d[c[f[i]]]
  BY DEF Rearranged
<1>2. \A i \in a..b : f[i] \in a..b /\ f[i] \in 1..numels
  <2>1. \A i \in a..b : f[i] \in a..b
    BY <1>1 DEF Permutes
  <2>2. \A i \in a..b : i \in 1..numels
    OBVIOUS
  <2> QED
    BY <2>1, <2>2
<1>3. \A i, j \in 0..(numels + 1) : c[i] \in Place /\ (c[i] = c[j] => i = j)
  BY DEF Chained
<1>4. ASSUME NEW i \in 0..(numels + 1), i \notin a..b PROVE e[c[i]] = d[c[i]]
  <2>1. \A j \in a..b : j \in 0..(numels + 1) /\ i # j
    BY <1>4
  <2>2. c[i] \in Place /\ Elsewhere(c[i], c, a, b)
    BY <1>3, <2>1 DEF Elsewhere
  <2> QED
    BY <2>2 DEF Rearranged
<1>5. /\ 0 \in 0..(numels + 1) /\ 0 \notin a..b /\ c[0] = head_sentinel
      /\ numels + 1 \in 0..(numels + 1) /\ numels + 1 \notin a..b /\ c[numels + 1] = tail_sentinel
  BY DEF Chained
<1>6. e[head_sentinel] = Null /\ e[tail_sentinel] = Null
  BY <1>4, <1>5 DEF Referring
<1>7. ASSUME NEW i \in 1..numels PROVE e[c[i]] \in Data
  <2>1. CASE i \in a..b
    BY <1>1, <1>2, <2>1 DEF Referring
  <2>2. CASE i \notin a..b
    <3>1. i \in 0..(numels + 1)
      OBVIOUS
    <3> QED
      BY <1>4, <2>2, <3>1 DEF Referring
  <2> QED
    BY <2>1, <2>2
<1> QED
  BY <1>6, <1>7 DEF Referring

\* The items that a call takes out of what is left to sort, and what it does to the others.
Sorts(c, versus, s, t, d, e) ==
  /\ PartsAt(t, c, versus) /\ Apart(t, e, c, versus) /\ Referring(c, numels, e)
  /\ \E a \in 1..numels : \E b \in a..numels : Rearranged(d, e, c, a, b)
  /\ \A i \in Int : Covers(t, i) => Covers(s, i)
  /\ \E i \in 1..numels : Covers(s, i) /\ ~ Covers(t, i)

\* The last part is rearranged and replaced with pieces that leave x out: then what is to be
\* in order is, when in the part it is.
LEMMA PartDone ==
  ASSUME NEW c, NEW versus, NEW s, PartsAt(s, c, versus), s # <<>>, NEW d, NEW e \in DataMap,
         Apart(s, d, c, versus), Referring(c, numels, d),
         numels \in Nat, Chained(c, numels, next, prev),
         NEW a, NEW b, a = Last(s).first + 1, b = Last(s).last + 1,
         Rearranged(d, e, c, a, b),
         NEW t, Pieces(t, Last(s), c), NEW x \in a..b, ~ Covers(t, x),
         \A i, j \in a..b : i < j /\ ~ Together(t, i, j) => ~ Late(e[c[i]], e[c[j]], versus)
  PROVE  Sorts(c, versus, s, Front(s) \o t, d, e)
<1> DEFINE u == Front(s) \o t
<1>1. /\ PartsAt(u, c, versus)
      /\ \A i \in Int : Covers(u, i) => Covers(s, i)
      /\ \A i \in a..b : Covers(s, i) /\ (~ Covers(t, i) => ~ Covers(u, i))
      /\ \A i, j \in Int : i < j /\ Together(s, i, j) /\ ~ Together(u, i, j) =>
           i \in a..b /\ j \in a..b /\ ~ Together(t, i, j)
  BY Replaced
<1>2. Len(s) \in 1..Len(s) /\ Last(s) = s[Len(s)] /\ PartAt(Last(s), c)
  <2>1. s \in Seq(Part) /\ Last(s) = s[Len(s)]
    BY DEF PartsAt, Last
  <2>2. Len(s) \in 1..Len(s)
    BY <2>1
  <2> QED
    BY <2>1, <2>2 DEF PartsAt
<1>3. a \in 1..numels /\ b \in a..numels
  BY <1>2 DEF PartAt, Part
<1>4. Apart(s, e, c, versus)
  BY <1>2, ApartStays
<1>5. Apart(u, e, c, versus)
  <2> HIDE DEF u
  <2>1. ASSUME NEW i \in 1..numels, NEW j \in 1..numels, i < j, ~ Together(u, i, j)
        PROVE  ~ Late(e[c[i]], e[c[j]], versus)
    <3>1. i \in Int /\ j \in Int
      OBVIOUS
    <3>2. CASE Together(s, i, j)
      BY <1>1, <2>1, <3>1, <3>2
    <3>3. CASE ~ Together(s, i, j)
      BY <1>4, <2>1, <3>3 DEF Apart
    <3> QED
      BY <3>2, <3>3
  <2> QED
    BY <2>1 DEF Apart
<1>6. Referring(c, numels, e)
  BY <1>3, ReferringStays
<1>7. x \in 1..numels /\ Covers(s, x) /\ ~ Covers(u, x)
  BY <1>1, <1>3
<1> HIDE DEF u
<1> QED
  BY <1>1, <1>3, <1>5, <1>6, <1>7 DEF Sorts, u

\* Nothing behind.
LEMMA ConcatNothing ==
  ASSUME NEW S, NEW s \in Seq(S)
  PROVE  s \o <<>> = s
  OBVIOUS

\* What every call of list_sort_quicksort does.
LEMMA QuickStep ==
  ASSUME NEW c, NEW versus, PartsAt(sorting, c, versus), Apart(sorting, data, c, versus),
         Referring(c, numels, data), numels \in Nat, Chained(c, numels, next, prev),
         list_sort_quicksort
  PROVE  Sorts(c, versus, sorting, sorting', data, data')
<1> DEFINE part == Last(sorting)
           a == part.first + 1
           b == part.last + 1
           size == part.last - part.first + 1
<1>1. sorting # <<>> /\ sorting \in Seq(Part) /\ Front(sorting) \in Seq(Part)
      /\ part \in Part /\ PartAt(part, c) /\ part.versus = versus /\ versus \in {-1, 1}
  <2>1. sorting # <<>> /\ sorting \in Seq(Part) /\ part = sorting[Len(sorting)]
    BY DEF list_sort_quicksort, PartsAt, Last
  <2>2. Len(sorting) \in 1..Len(sorting)
    BY <2>1
  <2>3. PartAt(part, c) /\ part.versus = versus /\ versus \in {-1, 1}
    BY <2>1, <2>2 DEF PartsAt
  <2>4. Front(sorting) \in Seq(Part)
    <3>1. Front(sorting) = SubSeq(sorting, 1, Len(sorting) - 1)
      BY DEF Front
    <3> QED
      BY <2>1, <3>1
  <2> QED
    BY <2>1, <2>3, <2>4 DEF PartAt
<1> HIDE DEF part
<1>2. /\ a \in 1..numels /\ b \in a..numels /\ part.first = a - 1 /\ part.last = b - 1
      /\ part.fel = c[a] /\ part.lel = c[b] /\ size = b - a + 1
  <2>1. /\ part.first \in Nat /\ part.last \in Nat /\ part.first <= part.last
        /\ part.last < numels
    BY <1>1 DEF PartAt, Part
  <2>2. part.fel = c[a] /\ part.lel = c[b]
    BY <1>1 DEF PartAt
  <2> QED
    BY <2>1, <2>2
<1>3. Stretch(c, a, b) /\ Numbers(data, c, a, b)
  <2>1. \A i \in a..b : i \in 1..numels
    BY <1>2
  <2> QED
    BY <1>2, <2>1 DEF Stretch, Numbers, Referring
<1>4. \/ size <= 1 /\ UNCHANGED data /\ sorting' = Front(sorting)
      \/ /\ size > 1 /\ data' = list_sort_selectionsort(part)
         /\ sorting' = Front(sorting)
      \/ /\ size > 1
         /\ \E pivotid \in 0..(size - 1) :
              /\ data' = Split(part, pivotid).data
              /\ sorting' = Front(sorting) \o Sides(part, Split(part, pivotid))
  BY DEF list_sort_quicksort, part
<1>5. Front(sorting) \o <<>> = Front(sorting) /\ Pieces(<<>>, part, c)
      /\ \A x : ~ Covers(<<>>, x)
  BY <1>1, ConcatNothing DEF Pieces, Covers
<1> HIDE DEF size
<1> DEFINE Done(e, t, x) ==
             /\ e \in DataMap /\ Rearranged(data, e, c, a, b) /\ Pieces(t, part, c)
             /\ x \in a..b /\ ~ Covers(t, x)
             /\ \A i, j \in a..b :
                  i < j /\ ~ Together(t, i, j) => ~ Late(e[c[i]], e[c[j]], versus)
<1>6. ASSUME NEW e, NEW t, NEW x, Done(e, t, x)
      PROVE  Sorts(c, versus, sorting, Front(sorting) \o t, data, e)
  <2>1. PICK a1, b1 : a1 = a /\ b1 = b
    OBVIOUS
  <2>2. /\ PartsAt(sorting, c, versus) /\ sorting # <<>> /\ e \in DataMap
        /\ Apart(sorting, data, c, versus) /\ Referring(c, numels, data)
        /\ numels \in Nat /\ Chained(c, numels, next, prev)
        /\ a1 = Last(sorting).first + 1 /\ b1 = Last(sorting).last + 1
        /\ Rearranged(data, e, c, a1, b1)
        /\ Pieces(t, Last(sorting), c) /\ x \in a1..b1 /\ ~ Covers(t, x)
        /\ \A i, j \in a1..b1 :
             i < j /\ ~ Together(t, i, j) => ~ Late(e[c[i]], e[c[j]], versus)
    BY <1>1, <1>6, <2>1 DEF part
  <2>3. PICK D : D = data
    OBVIOUS
  <2>4. Sorts(c, versus, sorting, Front(sorting) \o t, D, e)
    BY ONLY <2>2, <2>3, PartDone
  <2> QED
    BY <2>3, <2>4
<1>7. CASE size <= 1 /\ UNCHANGED data /\ sorting' = Front(sorting)
  <2>1. a \in a..b /\ \A i, j \in a..b : ~ (i < j)
    BY <1>2, <1>7
  <2>2. Rearranged(data, data, c, a, b) /\ data \in DataMap
    BY <1>2, <1>3, RearrangedNot DEF Numbers
  <2>3. Done(data, <<>>, a)
    BY <1>5, <2>1, <2>2
  <2>4. Sorts(c, versus, sorting, Front(sorting) \o <<>>, data, data)
    <3> HIDE DEF Done
    <3> QED
      BY <1>6, <2>3
  <2> QED
    BY <1>5, <1>7, <2>4
<1>8. CASE size > 1 /\ data' = list_sort_selectionsort(part) /\ sorting' = Front(sorting)
  <2> DEFINE g == list_sort_selectionsort(part)
  <2>1. g \in DataMap /\ Rearranged(data, g, c, a, b) /\ Sorted(g, c, a, b, b, versus)
    BY <1>1, <1>2, <1>3, SelectionIs
  <2> HIDE DEF g
  <2>2. a \in a..b /\ \A i, j \in a..b : i < j => i \in a..(b - 1) /\ j \in i..b
    BY <1>2
  <2>3. \A i, j \in a..b : i < j => ~ Late(g[c[i]], g[c[j]], versus)
    BY <2>1, <2>2 DEF Sorted
  <2>4. Done(g, <<>>, a)
    BY <1>5, <2>1, <2>2, <2>3
  <2>5. Sorts(c, versus, sorting, Front(sorting) \o <<>>, data, g)
    <3> HIDE DEF Done
    <3> QED
      BY <1>6, <2>4
  <2> QED
    BY <1>5, <1>8, <2>5 DEF g
<1>9. ASSUME NEW pivotid \in 0..(size - 1), size > 1,
             data' = Split(part, pivotid).data,
             sorting' = Front(sorting) \o Sides(part, Split(part, pivotid))
      PROVE  Sorts(c, versus, sorting, sorting', data, data')
  <2> DEFINE s == Split(part, pivotid)
             t == Sides(part, s)
             e == s.data
  <2>1. pivotid \in 0..(b - a)
    BY <1>2
  <2>2. PICK m \in a..b : Splitting(s, data, c, a, b, m, m, m, versus)
    BY <1>1, <1>2, <1>3, <2>1, SplitIs
  <2> HIDE DEF s
  <2>3. /\ s.pivot = c[m] /\ s.pivotid = m - a /\ s.data \in DataMap
        /\ Rearranged(data, s.data, c, a, b) /\ Around(s, c, a, b, m, m, m, versus)
    BY <2>2 DEF Splitting, SortState
  <2>4. /\ Pieces(t, part, c) /\ ~ Covers(t, m)
        /\ \A i, j \in a..b : i < j /\ ~ Together(t, i, j) => i <= m /\ m <= j
    BY <1>1, <1>2, <2>3, SidesAre
  <2>5. Numbers(e, c, a, b)
    BY <1>3, <2>3, NumbersStay
  <2> HIDE DEF t
  <2>6. ASSUME NEW i \in a..b, NEW j \in a..b, i < j, ~ Together(t, i, j)
        PROVE  ~ Late(e[c[i]], e[c[j]], versus)
    <3>1. i <= m /\ m <= j
      BY <2>4, <2>6
    <3>2. e[c[i]] \in Int /\ e[c[m]] \in Int /\ e[c[j]] \in Int
      BY <2>5, SortAssumption DEF Numbers
    <3>3. i < m => ~ Late(e[c[i]], e[c[m]], versus)
      <4>1. i < m => i \in a..(m - 1)
        BY <1>2
      <4> QED
        BY <2>3, <4>1 DEF Around
    <3>4. j > m => ~ Late(e[c[m]], e[c[j]], versus)
      <4>1. j > m => j \in (m + 1)..b
        BY <1>2
      <4> QED
        BY <2>3, <4>1 DEF Around
    <3>5. CASE i = m
      <4>1. j > m
        BY <1>2, <2>6, <3>5
      <4> QED
        BY <3>4, <3>5, <4>1
    <3>6. CASE j = m
      <4>1. i < m
        BY <1>2, <2>6, <3>6
      <4> QED
        BY <3>3, <3>6, <4>1
    <3>7. CASE i # m /\ j # m
      <4>1. i < m /\ j > m
        BY <1>2, <3>1, <3>7
      <4> HIDE DEF e
      <4> QED
        BY <1>1, <3>2, <3>3, <3>4, <4>1, LateOrder
    <3> QED
      BY <3>5, <3>6, <3>7
  <2>7. Done(e, t, m)
    BY <2>3, <2>4, <2>6
  <2>8. Sorts(c, versus, sorting, Front(sorting) \o t, data, e)
    <3> HIDE DEF Done, e
    <3> QED
      BY <1>6, <2>7
  <2> QED
    BY <1>9, <2>8 DEF s, t
<1> QED
  BY <1>4, <1>7, <1>8, <1>9

-----------------------------------------------------------------------------
(* The invariant of the data and of the parts.                               *)

\* Nothing else is done to a list while it is sorted.
SortOnly == alive /\ fault = "none" /\ ~ iter_active

SortInv(c, versus) ==
  /\ Linked(c) /\ Referring(c, numels, data) /\ PartsAt(sorting, c, versus)
  /\ sorting # <<>> => SortOnly /\ Apart(sorting, data, c, versus)

SInv == LInv /\ \E c, versus : SortInv(c, versus)

\* There is one chain only.
LEMMA OneChain ==
  ASSUME NEW n \in Nat, NEW c, NEW d, NEW nx, NEW pv, Chained(c, n, nx, pv), Chained(d, n, nx, pv)
  PROVE  c = d
<1>1. ASSUME NEW i \in 0..(n + 1) PROVE c[i] = d[i]
  <2>1. c[0] = head_sentinel /\ d[0] = head_sentinel /\ 0 + i = i /\ 0 + i <= n + 1 /\ i \in Nat
    BY DEF Chained
  <2>2. Walk(c[0], nx, i) = c[0 + i] /\ Walk(d[0], nx, i) = d[0 + i]
    BY <2>1, WalkNext
  <2> QED
    BY <2>1, <2>2
<1>2. c \in [0..(n + 1) -> Place] /\ d \in [0..(n + 1) -> Place]
  BY DEF Chained
<1> QED
  BY <1>1, <1>2

\* Where no link changes, the chain is the same.
LEMMA StillLinked ==
  ASSUME LInv, LInv', NEW c, Linked(c), UNCHANGED <<next, prev, numels>>
  PROVE  Linked(c)'
<1>1. PICK d : Linked(d)'
  BY DEF LInv
<1>2. /\ numels \in Nat /\ Chained(c, numels, next, prev) /\ Chained(d, numels, next, prev)
  BY <1>1 DEF LInv, Sizes, Linked, Chained
<1>3. c = d
  BY <1>2, OneChain
<1> QED
  BY <1>1, <1>3

\* A list that is not being sorted needs no more than its chain and its data.
LEMMA Unsorted ==
  ASSUME LInv', NEW c, Linked(c)', Referring(c, numels', data'), sorting' = <<>>
  PROVE  SInv'
<1>1. Referring(c, numels, data)'
  BY DEF Referring
<1>2. PartsAt(sorting, c, 1)'
  BY DEF PartsAt
<1>3. SortInv(c, 1)'
  BY <1>1, <1>2 DEF SortInv
<1> QED
  BY <1>3 DEF SInv

\* An inserted item refers to a number as well.
LEMMA InsertRefers ==
  ASSUME NEW c, NEW n \in Nat, NEW nx, NEW pv, Chained(c, n, nx, pv), Referring(c, n, data),
         NEW pos \in 0..n, NEW e \in Entry, NEW x \in Data, \A i \in 1..n : c[i] # e,
         data' = [data EXCEPT ![e] = x]
  PROVE  Referring(Inserted(c, n, pos, e), n + 1, data')
<1> DEFINE d == Inserted(c, n, pos, e)
<1>1. data' \in DataMap /\ data'[e] = x /\ \A p \in Place : p # e => data'[p] = data[p]
  BY Sentinels DEF Referring, DataMap
<1>2. data'[head_sentinel] = Null /\ data'[tail_sentinel] = Null
  BY <1>1, Sentinels DEF Referring
<1>3. ASSUME NEW i \in 1..(n + 1) PROVE data'[d[i]] \in Data
  <2>1. d[i] = e \/ \E j \in 1..n : d[i] = c[j]
    <3>1. i \in 0..(n + 2) /\ d[i] = IF i <= pos THEN c[i] ELSE IF i = pos + 1 THEN e ELSE c[i - 1]
      BY DEF Inserted
    <3>2. CASE i <= pos /\ i <= n
      BY <3>1, <3>2
    <3>3. CASE i = pos + 1
      BY <3>1, <3>3
    <3>4. CASE i > pos + 1
      <4>1. i - 1 \in 1..n
        BY <3>4
      <4> QED
        BY <3>1, <3>4, <4>1
    <3> QED
      BY <3>2, <3>3, <3>4
  <2>2. \A j \in 1..n : c[j] \in Place /\ c[j] # e /\ data[c[j]] \in Data
    BY DEF Chained, Referring
  <2> QED
    BY <1>1, <2>1, <2>2
<1> QED
  BY <1>1, <1>2, <1>3 DEF Referring

\* The items that are left when some are taken out refer to what they did.
LEMMA WithoutRefers ==
  ASSUME NEW c, NEW n \in Nat, NEW nx, NEW pv, Chained(c, n, nx, pv), Referring(c, n, data),
         NEW a \in 0..n, NEW k \in 1..(n - a), NEW e \in DataMap,
         \A p \in Place : Elsewhere(p, c, a + 1, a + k) => e[p] = data[p]
  PROVE  Referring(Without(c, n, a, k), n - k, e)
<1> DEFINE d == Without(c, n, a, k)
<1>1. \A i \in 1..(n - k) : \E j \in 1..n : d[i] = c[j] /\ j \notin (a + 1)..(a + k)
  <2>1. PICK d1 : d1 = Without(c, n, a, k)
    OBVIOUS
  <2>2. Lacks(d1, c, n, a, k)
    BY <2>1, WithoutEntries
  <2> QED
    BY <2>1, <2>2 DEF Lacks
<1>2. ASSUME NEW j \in 0..(n + 1), j \notin (a + 1)..(a + k) PROVE e[c[j]] = data[c[j]]
  <2>1. \A i \in (a + 1)..(a + k) : i \in 0..(n + 1) /\ i # j
    BY <1>2
  <2>2. c[j] \in Place /\ Elsewhere(c[j], c, a + 1, a + k)
    BY <2>1 DEF Chained, Elsewhere
  <2> QED
    BY <2>2
<1>3. /\ 0 \in 0..(n + 1) /\ 0 \notin (a + 1)..(a + k) /\ c[0] = head_sentinel
      /\ n + 1 \in 0..(n + 1) /\ n + 1 \notin (a + 1)..(a + k) /\ c[n + 1] = tail_sentinel
  BY DEF Chained
<1>4. e[head_sentinel] = Null /\ e[tail_sentinel] = Null
  BY <1>2, <1>3 DEF Referring
<1>5. ASSUME NEW i \in 1..(n - k) PROVE e[d[i]] \in Data
  <2>1. PICK j \in 1..n : d[i] = c[j] /\ j \notin (a + 1)..(a + k)
    BY <1>1
  <2>2. j \in 0..(n + 1) /\ data[c[j]] \in Data
    BY DEF Referring
  <2> QED
    BY <1>2, <2>1, <2>2
<1> QED
  BY <1>4, <1>5 DEF Referring

\* An insertion keeps the invariant.
LEMMA InsertKeeps ==
  ASSUME LInv, NEW c, NEW versus, SortInv(c, versus), NEW x \in Data, NEW pos \in Nat,
         list_insert_at(x, pos)
  PROVE  SInv'
<1>1. numels \in Nat /\ Chained(c, numels, next, prev) /\ Linked(c) /\ Referring(c, numels, data)
      /\ sorting' = <<>> /\ numels' = numels + 1 /\ pos \in 0..numels
  BY DEF LInv, Sizes, Linked, SortInv, list_insert_at, Changeable, Ready
<1>2. LInv' /\ \E e, d : /\ e \in Entry /\ \A i \in 1..numels : c[i] # e
                        /\ d = Inserted(c, numels, pos, e) /\ Linked(d)'
                        /\ data' = [data EXCEPT ![e] = x]
  BY <1>1, InsertStep
<1>3. PICK e, d : /\ e \in Entry /\ \A i \in 1..numels : c[i] # e
                  /\ d = Inserted(c, numels, pos, e) /\ Linked(d)'
                  /\ data' = [data EXCEPT ![e] = x]
  BY <1>2
<1>4. Referring(Inserted(c, numels, pos, e), numels + 1, data')
  <2>1. PICK n, nx, pv : n = numels /\ nx = next /\ pv = prev
    OBVIOUS
  <2>2. /\ n \in Nat /\ Chained(c, n, nx, pv) /\ Referring(c, n, data) /\ pos \in 0..n
        /\ e \in Entry /\ x \in Data /\ \A i \in 1..n : c[i] # e
        /\ data' = [data EXCEPT ![e] = x]
    BY <1>1, <1>3, <2>1
  <2>3. Referring(Inserted(c, n, pos, e), n + 1, data')
    BY ONLY <2>2, InsertRefers
  <2> QED
    BY <2>1, <2>3
<1>5. Referring(d, numels', data')
  BY <1>1, <1>3, <1>4
<1> QED
  BY <1>1, <1>2, <1>3, <1>5, Unsorted

\* A deletion keeps it.
LEMMA DropKeeps ==
  ASSUME LInv, NEW c, NEW versus, SortInv(c, versus), NEW pos \in Nat, list_delete_at(pos)
  PROVE  SInv'
<1>1. numels \in Nat /\ Chained(c, numels, next, prev) /\ Linked(c) /\ Referring(c, numels, data)
      /\ sorting' = <<>> /\ numels' = numels - 1 /\ pos \in 0..numels /\ pos < numels
  <2>1. numels \in Nat /\ Linked(c) /\ Referring(c, numels, data) /\ sorting = <<>>
        /\ pos < numels /\ numels' = numels - 1 /\ sorting' = sorting
    BY DEF LInv, Sizes, SortInv, list_delete_at, Changeable, Ready
  <2> QED
    BY <2>1 DEF Linked
<1>2. LInv' /\ (\E d : d = Without(c, numels, pos, 1) /\ Linked(d)')
      /\ data' = [data EXCEPT ![c[pos + 1]] = Null]
  BY <1>1, DropStep
<1>3. PICK d : d = Without(c, numels, pos, 1) /\ Linked(d)'
  BY <1>2
<1>4. data' \in DataMap /\ \A p \in Place : Elsewhere(p, c, pos + 1, pos + 1) => data'[p] = data[p]
  <2>1. pos + 1 \in (pos + 1)..(pos + 1) /\ data \in DataMap
    BY <1>1 DEF Referring
  <2>2. data' \in DataMap
    BY <1>2, <2>1 DEF DataMap
  <2>3. \A p \in Place : p # c[pos + 1] => data'[p] = data[p]
    BY <1>2, <2>1 DEF DataMap
  <2> QED
    BY <2>1, <2>2, <2>3 DEF Elsewhere
<1>5. Referring(Without(c, numels, pos, 1), numels - 1, data')
  <2>1. PICK n, nx, pv, e : n = numels /\ nx = next /\ pv = prev /\ e = data'
    OBVIOUS
  <2>2. /\ n \in Nat /\ Chained(c, n, nx, pv) /\ Referring(c, n, data) /\ pos \in 0..n
        /\ 1 \in 1..(n - pos) /\ e \in DataMap
        /\ \A p \in Place : Elsewhere(p, c, pos + 1, pos + 1) => e[p] = data[p]
    BY <1>1, <1>4, <2>1
  <2>3. Referring(Without(c, n, pos, 1), n - 1, e)
    BY ONLY <2>2, WithoutRefers
  <2> QED
    BY <2>1, <2>3
<1>6. Referring(d, numels', data')
  BY <1>1, <1>3, <1>5
<1> QED
  BY <1>1, <1>2, <1>3, <1>6, Unsorted

\* A range shows where it ends.
LEMMA SameRange ==
  ASSUME NEW x \in Nat, NEW y \in Nat, 0..x = 0..y
  PROVE  x = y
<1>1. x \in 0..y /\ y \in 0..x
  OBVIOUS
<1> QED
  BY <1>1

\* A chain without k entries is shorter by k.
LEMMA WithoutShorter ==
  ASSUME NEW n \in Nat, NEW a, NEW k \in 0..n, NEW m \in Nat, NEW c, NEW nx, NEW pv,
         Chained(Without(c, n, a, k), m, nx, pv)
  PROVE  m = n - k
<1>1. DOMAIN Without(c, n, a, k) = 0..(m + 1) /\ DOMAIN Without(c, n, a, k) = 0..(n + 1 - k)
  BY DEF Chained, Without
<1>2. m + 1 \in Nat /\ n + 1 - k \in Nat
  OBVIOUS
<1>3. m + 1 = n + 1 - k
  BY <1>1, <1>2, SameRange
<1> QED
  BY <1>3

\* The deletion of a range keeps it, and so does one that fails.
LEMMA RangeKeeps ==
  ASSUME LInv, NEW c, NEW versus, SortInv(c, versus), NEW a \in Nat, NEW b \in Nat,
         list_delete_range(a, b)
  PROVE  SInv'
<1> DEFINE k == b - a + 1
<1>1. numels \in Nat /\ Chained(c, numels, next, prev) /\ Linked(c) /\ Referring(c, numels, data)
      /\ a \in 0..numels /\ a <= b /\ b < numels /\ sorting = <<>>
  BY DEF LInv, Sizes, Linked, SortInv, list_delete_range, Changeable, Ready
<1>2. sorting' = <<>>
  BY <1>1 DEF list_delete_range
<1>3. LInv' /\ \/ UNCHANGED <<links, numels, iterator, sorting, alive>> /\ fault' # "none"
               \/ /\ \E d : d = Without(c, numels, a, b - a + 1) /\ Linked(d)'
                  /\ data' = [p \in Place |-> IF \E i \in (a + 1)..(b + 1) : p = c[i]
                                             THEN Null ELSE data[p]]
  BY <1>1, RangeStep
<1>4. CASE UNCHANGED <<links, numels, iterator, sorting, alive>>
  <2>1. Linked(c)'
    BY <1>1, <1>3, <1>4, StillLinked DEF links
  <2>2. Referring(c, numels', data')
    BY <1>1, <1>4 DEF links
  <2> QED
    BY <1>2, <1>3, <2>1, <2>2, Unsorted
<1>5. ASSUME NEW d, d = Without(c, numels, a, b - a + 1), Linked(d)',
             data' = [p \in Place |-> IF \E i \in (a + 1)..(b + 1) : p = c[i]
                                      THEN Null ELSE data[p]]
      PROVE  SInv'
  <2>1. k \in 1..(numels - a) /\ a + k = b + 1
    BY <1>1
  <2>2. data' \in DataMap /\ \A p \in Place : Elsewhere(p, c, a + 1, b + 1) => data'[p] = data[p]
    BY <1>1, <1>5 DEF Referring, DataMap, Elsewhere
  <2>3. Referring(Without(c, numels, a, k), numels - k, data')
    <3>1. PICK n, nx, pv, e, l : n = numels /\ nx = next /\ pv = prev /\ e = data' /\ l = k
      OBVIOUS
    <3>2. /\ n \in Nat /\ Chained(c, n, nx, pv) /\ Referring(c, n, data) /\ a \in 0..n
          /\ l \in 1..(n - a) /\ e \in DataMap
          /\ \A p \in Place : Elsewhere(p, c, a + 1, a + l) => e[p] = data[p]
      BY <1>1, <2>1, <2>2, <3>1
    <3>3. Referring(Without(c, n, a, l), n - l, e)
      BY ONLY <3>2, WithoutRefers
    <3> QED
      BY <3>1, <3>3
  <2>4. numels' = numels - k
    <3>1. Chained(d, numels', next', prev') /\ numels' \in Nat /\ k \in 0..numels
      BY <1>1, <1>3, <1>5, <2>1 DEF Linked, LInv, Sizes
    <3>2. PICK m, n, l : m \in Nat /\ n \in Nat /\ m = numels' /\ n = numels /\ l = k
      BY <1>1, <3>1
    <3>3. Chained(Without(c, n, a, l), m, next', prev') /\ l \in 0..n
      BY <1>5, <3>1, <3>2
    <3>4. m = n - l
      <4>1. m \in Nat /\ n \in Nat
        BY <3>2
      <4> QED
        BY ONLY <3>3, <4>1, WithoutShorter
    <3> QED
      BY <3>2, <3>4
  <2>5. Referring(d, numels', data')
    BY <1>5, <2>3, <2>4
  <2> QED
    BY <1>2, <1>3, <1>5, <2>5, Unsorted
<1> QED
  BY <1>3, <1>4, <1>5

\* What empties the list keeps it.
LEMMA EmptiedKeeps ==
  ASSUME LInv, NEW c, NEW versus, SortInv(c, versus), list_clear \/ list_destroy \/ list_init
  PROVE  SInv'
<1>1. LInv'
  BY ClearStep, DestroyStep
<1>2. Emptied
  BY DEF list_clear, list_destroy, list_init
<1>3. sorting' = <<>>
  <2>1. sorting # <<>> => alive
    BY DEF SortInv, SortOnly
  <2> QED
    BY <2>1 DEF list_clear, list_destroy, list_init, Changeable, Ready
<1>4. PICK d : Linked(d)'
  BY <1>1 DEF LInv
<1>5. Referring(d, numels', data')
  <2>1. numels' = 0 /\ data' = [p \in Place |-> Null]
    BY <1>2 DEF Emptied
  <2> QED
    BY <2>1, Sentinels DEF Referring, DataMap
<1> QED
  BY <1>1, <1>3, <1>4, <1>5, Unsorted

\* Iterating keeps it.
LEMMA IterateKeeps ==
  ASSUME LInv, NEW c, NEW versus, SortInv(c, versus),
         list_iterator_start \/ list_iterator_next \/ list_iterator_stop
  PROVE  SInv'
<1>1. LInv'
  BY IterateStep
<1>2. UNCHANGED <<next, prev, data, numels>> /\ sorting' = <<>>
  BY DEF list_iterator_start, list_iterator_next, list_iterator_stop, links, Ready
<1>3. Linked(c)'
  BY <1>1, <1>2, StillLinked DEF SortInv
<1>4. Referring(c, numels', data')
  BY <1>2 DEF SortInv
<1> QED
  BY <1>1, <1>2, <1>3, <1>4, Unsorted

\* A sort begins with one part, the whole list.
LEMMA SortBegins ==
  ASSUME LInv, NEW c, NEW versus, SortInv(c, versus), NEW v \in {-1, 1}, list_sort(v)
  PROVE  /\ PartsAt(sorting', c, v) /\ Apart(sorting', data, c, v) /\ Len(sorting') = 1
         /\ sorting'[1].versus = v /\ SortOnly
<1> DEFINE n == numels
           x == c[1]
           y == c[n]
           part == [first |-> 0, fel |-> x, last |-> n - 1, lel |-> y, versus |-> v]
<1>1. /\ n \in Nat /\ n > 1 /\ Chained(c, n, next, prev) /\ SortOnly
  BY DEF LInv, Sizes, Linked, SortInv, list_sort, Changeable, Ready, SortOnly
<1>2. next[head_sentinel] = x /\ prev[tail_sentinel] = y /\ x \in Place /\ y \in Place
  <2>1. 0 \in 0..n /\ n \in 0..n /\ 1 \in 0..(n + 1) /\ n \in 0..(n + 1) /\ 0 + 1 = 1
    BY <1>1
  <2>2. next[c[0]] = c[0 + 1] /\ prev[c[n + 1]] = c[n] /\ c[1] \in Place /\ c[n] \in Place
    BY <1>1, <2>1 DEF Chained
  <2> QED
    BY <1>1, <2>1, <2>2 DEF Chained
<1>3. sorting' = <<part>>
  BY <1>2 DEF list_sort
<1> HIDE DEF x, y
<1>4. part \in Part
  BY <1>1, <1>2 DEF Part
<1>5. PartAt(part, c)
  <2>1. (n - 1) + 1 = n /\ 0 + 1 = 1
    BY <1>1
  <2> QED
    BY <1>1, <1>4, <2>1 DEF PartAt, x, y
<1>6. part.first = 0 /\ part.last = n - 1 /\ part.versus = v
  OBVIOUS
<1> HIDE DEF part
<1>7. sorting' \in Seq(Part) /\ Len(sorting') = 1 /\ sorting'[1] = part /\ DOMAIN sorting' = 1..1
  BY <1>3, <1>4
<1>8. PartsAt(sorting', c, v)
  BY <1>5, <1>6, <1>7 DEF PartsAt
<1>9. \A i, j \in 1..n : Together(sorting', i, j)
  BY <1>1, <1>6, <1>7 DEF Together
<1>10. Apart(sorting', data, c, v)
  BY <1>9 DEF Apart
<1> QED
  BY <1>1, <1>6, <1>7, <1>8, <1>10

\* Sorting keeps it.
LEMMA SortKeeps ==
  ASSUME LInv, NEW c, NEW versus, SortInv(c, versus), NEW v, SortOnly,
         (\E w \in {-1, 1} : list_sort(w)) \/ list_sort_quicksort,
         PartsAt(sorting', c, v), Apart(sorting', data', c, v), Referring(c, numels, data')
  PROVE  SInv'
<1>1. LInv'
  BY SortStep
<1>2. UNCHANGED <<next, prev, numels, alive, iterator, fault>>
  BY DEF list_sort, list_sort_quicksort, links
<1>3. Linked(c)'
  BY <1>1, <1>2, StillLinked DEF SortInv
<1>4. Referring(c, numels, data)' /\ SortOnly'
  BY <1>2 DEF Referring, SortOnly, iterator
<1>5. PartsAt(sorting, c, v)' /\ Apart(sorting, data, c, v)'
  BY <1>2 DEF PartsAt, PartAt, Apart, Together
<1>6. SortInv(c, v)'
  BY <1>3, <1>4, <1>5 DEF SortInv
<1> QED
  BY <1>1, <1>6 DEF SInv


\* At first the list is empty.
LEMMA SInvInit ==
  ASSUME Init
  PROVE  SInv
<1>1. LInv /\ sorting = <<>> /\ numels = 0
  BY LInvInit DEF Init
<1>2. PICK c : Linked(c)
  BY <1>1 DEF LInv
<1>3. Referring(c, numels, data)
  BY <1>1, Sentinels DEF Init, Referring, DataMap
<1>4. PartsAt(sorting, c, 1)
  BY <1>1 DEF PartsAt
<1>5. SortInv(c, 1)
  BY <1>1, <1>2, <1>3, <1>4 DEF SortInv
<1> QED
  BY <1>1, <1>5 DEF SInv

\* A call of list_sort_quicksort keeps it, and sorts.
LEMMA QuickKeeps ==
  ASSUME LInv, NEW c, NEW versus, SortInv(c, versus), list_sort_quicksort
  PROVE  SInv' /\ Sorts(c, versus, sorting, sorting', data, data')
<1>1. /\ numels \in Nat /\ Chained(c, numels, next, prev) /\ PartsAt(sorting, c, versus)
      /\ Referring(c, numels, data) /\ SortOnly /\ Apart(sorting, data, c, versus)
  BY DEF LInv, Sizes, SortInv, Linked, list_sort_quicksort
<1>2. Sorts(c, versus, sorting, sorting', data, data')
  BY <1>1, QuickStep
<1>3. /\ PartsAt(sorting', c, versus) /\ Apart(sorting', data', c, versus)
      /\ Referring(c, numels, data')
  BY <1>2 DEF Sorts
<1>4. SInv'
  BY <1>1, <1>3, SortKeeps
<1> QED
  BY <1>2, <1>4

\* What begins a sort keeps it.
LEMMA BeginKeeps ==
  ASSUME LInv, NEW c, NEW versus, SortInv(c, versus), NEW v \in {-1, 1}, list_sort(v)
  PROVE  SInv'
<1>1. /\ PartsAt(sorting', c, v) /\ Apart(sorting', data, c, v) /\ SortOnly
  BY SortBegins
<1>2. data' = data /\ Referring(c, numels, data)
  BY DEF list_sort, links, SortInv
<1>3. Apart(sorting', data', c, v) /\ Referring(c, numels, data')
  BY <1>1, <1>2
<1> QED
  BY <1>1, <1>3, SortKeeps

\* Where nothing changes, nothing is to be shown.
LEMMA NothingKeeps ==
  ASSUME SInv, UNCHANGED vars
  PROVE  SInv'
<1>1. PICK c, versus : SortInv(c, versus)
  BY DEF SInv
<1>2. LInv'
  BY SortStep DEF SInv
<1>3. /\ UNCHANGED <<next, prev, data, numels, iter_active, sorting, alive, fault>>
  BY DEF vars, links, iterator
<1>4. Linked(c)'
  BY <1>1, <1>2, <1>3, StillLinked DEF SInv, SortInv
<1>5. Referring(c, numels, data)' /\ PartsAt(sorting, c, versus)' /\ (sorting # <<>> => SortOnly)'
      /\ (sorting # <<>> => Apart(sorting, data, c, versus))'
  BY <1>1, <1>3 DEF SortInv, Referring, PartsAt, PartAt, SortOnly, Apart, Together
<1>6. SortInv(c, versus)'
  BY <1>4, <1>5 DEF SortInv
<1> QED
  BY <1>2, <1>6 DEF SInv

\* The first position of an item that is in the list.
LEMMA LocateIs ==
  ASSUME numels \in Nat, NEW d, Positions(d) # {}
  PROVE  list_locate(d) \in Positions(d) /\ \A i \in Positions(d) : list_locate(d) <= i
<1>1. PICK i \in Positions(d) : \A j \in Positions(d) : i <= j
  <2>1. Positions(d) \subseteq Nat
    BY DEF Positions
  <2> QED
    BY <2>1, Least
<1> QED
  BY <1>1, Zenon DEF list_locate

\* The invariant holds in every state.
THEOREM SInvHolds == Spec => []SInv
<1>1. Init => SInv
  BY SInvInit
<1>2. SInv /\ [Next]_vars => SInv'
  <2> SUFFICES ASSUME SInv, [Next]_vars PROVE SInv'
    OBVIOUS
  <2>1. LInv /\ numels \in Nat
    BY DEF SInv, LInv, Sizes
  <2> PICK c, versus : SortInv(c, versus)
    BY DEF SInv
  <2>2. ASSUME NEW d \in Data, list_append(d) \/ list_prepend(d)
        PROVE  SInv'
    BY <2>1, <2>2, InsertKeeps DEF list_append, list_prepend
  <2>3. ASSUME NEW d \in Data, list_delete(d)
        PROVE  SInv'
    <3>1. list_locate(d) \in Nat
      BY <2>1, <2>3, LocateIs DEF list_delete, Positions
    <3> QED
      BY <2>1, <2>3, <3>1, DropKeeps DEF list_delete
  <2>4. ASSUME NEW d \in Data, NEW pos \in 1..(numels - 1), list_insert_at(d, pos)
        PROVE  SInv'
    BY <2>1, <2>4, InsertKeeps
  <2>5. ASSUME NEW pos \in 0..(numels - 1), list_delete_at(pos)
        PROVE  SInv'
    BY <2>1, <2>5, DropKeeps
  <2>6. ASSUME NEW a \in 0..(numels - 1), NEW b \in a..(numels - 1), list_delete_range(a, b)
        PROVE  SInv'
    BY <2>1, <2>6, RangeKeeps
  <2>7. ASSUME NEW v \in {-1, 1}, list_sort(v)
        PROVE  SInv'
    BY <2>1, <2>7, BeginKeeps
  <2>8. CASE list_clear \/ list_destroy \/ list_init
    BY <2>1, <2>8, EmptiedKeeps
  <2>9. CASE list_iterator_start \/ list_iterator_next \/ list_iterator_stop
    BY <2>1, <2>9, IterateKeeps
  <2>10. CASE list_sort_quicksort
    BY <2>1, <2>10, QuickKeeps
  <2>11. CASE UNCHANGED vars
    BY <2>11, NothingKeeps
  <2> QED
    BY <2>2, <2>3, <2>4, <2>5, <2>6, <2>7, <2>8, <2>9, <2>10, <2>11 DEF Next
<1> QED
  BY <1>1, <1>2, PTL DEF Spec

-----------------------------------------------------------------------------
(* What the invariant says of the runs' properties.                          *)

\* The items are the data of the chain's entries.
LEMMA ItemsAre ==
  ASSUME Sizes, NEW c, Linked(c)
  PROVE  Items = [i \in 1..numels |-> data[c[i]]]
<1>1. Chain = [i \in 1..numels |-> c[i]]
  BY ChainIs
<1> QED
  BY <1>1 DEF Items

\* Every shortcut through the list leads to the position that is asked for.
LEMMA PositionsFollow ==
  ASSUME SInv
  PROVE  PositionsFound
<1>1. PICK c, versus : SortInv(c, versus)
  BY DEF SInv
<1>2. /\ Sizes /\ numels \in Nat /\ Linked(c) /\ Chained(c, numels, next, prev)
      /\ Referring(c, numels, data) /\ Null \notin Place
  BY <1>1, Sentinels DEF SInv, LInv, Sizes, SortInv, Linked
<1>3. Items = [i \in 1..numels |-> data[c[i]]]
  BY <1>2, ItemsAre
<1>4. ASSUME NEW pos \in (-1)..numels
      PROVE  list_findpos(pos) = Walk(head_sentinel, next, pos + 1) /\ list_findpos(pos) = c[pos + 1]
  <2>1. pos + 1 \in 0..(numels + 1)
    BY <1>2
  <2> QED
    BY <1>2, <2>1, FindPos, WalkHead
<1>5. ASSUME NEW pos \in 0..(numels - 1)
      PROVE  list_get_at(pos) = Items[pos + 1]
  <2>1. pos \in (-1)..numels /\ pos + 1 \in 1..numels /\ pos + 1 \in 0..(numels + 1)
    BY <1>2
  <2>2. list_findpos(pos) = c[pos + 1] /\ c[pos + 1] \in Place
    BY <1>2, <1>4, <2>1 DEF Chained
  <2> QED
    BY <1>2, <1>3, <2>1, <2>2 DEF list_get_at
<1>6. ASSUME NEW pos \in numels..(numels + 2)
      PROVE  list_get_at(pos) = Null
  <2>1. CASE pos = numels
    <3>1. pos \in (-1)..numels
      BY <1>2, <2>1
    <3>2. list_findpos(pos) = tail_sentinel
      BY <1>2, <1>4, <2>1, <3>1 DEF Chained
    <3> QED
      BY <1>2, <3>2 DEF list_get_at, Referring
  <2>2. CASE pos # numels
    <3>1. pos > numels
      BY <1>2, <2>2
    <3>2. list_findpos(pos) = Null
      BY <3>1 DEF list_findpos
    <3> QED
      BY <3>2 DEF list_get_at
  <2> QED
    BY <2>1, <2>2
<1> QED
  BY <1>4, <1>5, <1>6 DEF PositionsFound

\* Every position is found, from the nearest of the sentinels and the middle.
THEOREM PositionsFoundHolds == Spec => []PositionsFound
  BY SInvHolds, PositionsFollow, PTL

\* Parts are where they are said to be, and what is not in one part is in order.
LEMMA PartsFollow ==
  ASSUME SInv
  PROVE  PartsInOrder
<1>1. PICK c, versus : SortInv(c, versus)
  BY DEF SInv
<1>2. /\ Sizes /\ numels \in Nat /\ Linked(c) /\ PartsAt(sorting, c, versus)
  BY <1>1 DEF SInv, LInv, Sizes, SortInv
<1>3. Chain = [i \in 1..numels |-> c[i]] /\ Items = [i \in 1..numels |-> data[c[i]]]
  BY <1>2, ItemsAre, ChainIs
<1>4. ASSUME NEW p \in DOMAIN sorting
      PROVE  /\ sorting[p].fel = Chain[sorting[p].first + 1]
             /\ sorting[p].lel = Chain[sorting[p].last + 1]
             /\ \A i, j \in 1..numels : i < j /\ ~ Together(sorting, i, j) =>
                   ~ Late(Items[i], Items[j], sorting[p].versus)
  <2>1. sorting # <<>> /\ p \in 1..Len(sorting)
    BY <1>2, <1>4 DEF PartsAt
  <2>2. PartAt(sorting[p], c) /\ sorting[p].versus = versus /\ Apart(sorting, data, c, versus)
    BY <1>1, <1>2, <2>1 DEF PartsAt, SortInv
  <2>3. /\ sorting[p].first \in Nat /\ sorting[p].last \in Nat
        /\ sorting[p].first <= sorting[p].last /\ sorting[p].last < numels
        /\ sorting[p].fel = c[sorting[p].first + 1] /\ sorting[p].lel = c[sorting[p].last + 1]
    BY <2>2 DEF PartAt, Part
  <2>4. sorting[p].first + 1 \in 1..numels /\ sorting[p].last + 1 \in 1..numels
    BY <1>2, <2>3
  <2>5. \A i, j \in 1..numels : i < j /\ ~ Together(sorting, i, j) =>
                   ~ Late(Items[i], Items[j], sorting[p].versus)
    BY <1>3, <2>2 DEF Apart
  <2> QED
    BY <1>3, <2>3, <2>4, <2>5
<1> QED
  BY <1>4 DEF PartsInOrder, Together

\* While the list is sorted, all pairs of items that are not in one part are in order.
THEOREM PartsInOrderHolds == Spec => []PartsInOrder
  BY SInvHolds, PartsFollow, PTL


\* What is left to sort are the items that parts cover.
LEMMA LeftIsCovered ==
  ASSUME numels \in Nat, NEW s
  PROVE  /\ LeftToSort(s) = {i \in 1..numels : Covers(s, i)}
         /\ IsFiniteSet(LeftToSort(s)) /\ LeftToSort(s) \subseteq 1..numels
<1>1. LeftToSort(s) = {i \in 1..numels : Covers(s, i)}
  BY DEF LeftToSort, Covers
<1>2. LeftToSort(s) \in SUBSET (1..numels) /\ IsFiniteSet(1..numels)
  BY <1>1, FS_Interval
<1> QED
  BY <1>1, <1>2, FS_Subset

\* Where one item is no longer covered and no other is added, fewer are left.
LEMMA FewerLeft ==
  ASSUME numels \in Nat, NEW c, NEW versus, NEW t, NEW d, NEW e,
         Sorts(c, versus, sorting, t, d, e)
  PROVE  Cardinality(LeftToSort(t)) < Cardinality(LeftToSort(sorting))
<1> DEFINE S == LeftToSort(sorting)
           T == LeftToSort(t)
<1>1. IsFiniteSet(S) /\ S = {i \in 1..numels : Covers(sorting, i)}
      /\ T = {i \in 1..numels : Covers(t, i)}
  BY LeftIsCovered
<1>2. \A i \in Int : Covers(t, i) => Covers(sorting, i)
  BY DEF Sorts
<1>3. PICK i \in 1..numels : Covers(sorting, i) /\ ~ Covers(t, i)
  BY DEF Sorts
<1>4. T \in SUBSET S /\ S # T
  BY <1>1, <1>2, <1>3
<1> HIDE DEF S, T
<1>5. Cardinality(T) <= Cardinality(S) /\ Cardinality(S) # Cardinality(T) /\ IsFiniteSet(T)
  BY <1>1, <1>4, FS_Subset
<1>6. Cardinality(S) \in Nat /\ Cardinality(T) \in Nat
  BY <1>1, <1>5, FS_CardinalityType
<1>7. Cardinality(T) < Cardinality(S)
  BY <1>5, <1>6
<1> QED
  BY <1>7 DEF S, T

\* Every call of list_sort_quicksort leaves fewer items to sort, so a sort of any list ends.
THEOREM SortShrinksHolds == Spec => SortShrinks
<1> DEFINE Fewer == Cardinality(LeftToSort(sorting')) < Cardinality(LeftToSort(sorting))
           A == sorting # <<>> => Fewer
<1>1. SInv /\ [Next]_vars => [A]_vars
  <2> SUFFICES ASSUME SInv, Next, sorting # <<>>
               PROVE  Fewer
    OBVIOUS
  <2>1. PICK c, versus : SortInv(c, versus)
    BY DEF SInv
  <2>2. LInv /\ numels \in Nat
    BY DEF SInv, LInv, Sizes
  <2>3. alive /\ ~ Ready
    BY <2>1 DEF SortInv, SortOnly, Ready
  <2>4. list_sort_quicksort
    BY <2>3 DEF Next, list_init, list_append, list_prepend, list_delete, list_insert_at,
                list_delete_at, list_delete_range, list_clear, list_sort, list_destroy,
                list_iterator_start, list_iterator_next, list_iterator_stop, Changeable
  <2>5. Sorts(c, versus, sorting, sorting', data, data')
    BY <2>1, <2>2, <2>4, QuickKeeps
  <2> QED
    BY <2>2, <2>5, FewerLeft
<1>2. Spec => [][A]_vars
  BY <1>1, SInvHolds, PTL DEF Spec
<1> QED
  BY <1>2 DEF SortShrinks


-----------------------------------------------------------------------------
(* What the operations do to the items.                                      *)

\* A sequence with a range of it left out.
LEMMA LeftOut ==
  ASSUME NEW S, NEW s \in Seq(S), NEW a \in 0..Len(s), NEW k \in 1..(Len(s) - a)
  PROVE  SubSeq(s, 1, a) \o SubSeq(s, a + k + 1, Len(s))
           = [i \in 1..(Len(s) - k) |-> IF i <= a THEN s[i] ELSE s[i + k]]
<1> DEFINE u == SubSeq(s, 1, a)
           v == SubSeq(s, a + k + 1, Len(s))
           n == Len(s)
<1>1. n \in Nat /\ a \in Nat /\ k \in Nat /\ a + k <= n
  OBVIOUS
<1>2. \A i \in 1..a : s[i] \in S
  BY <1>1
<1>3. \A i \in (a + k + 1)..n : s[i] \in S
  BY <1>1
<1>4. u \in Seq(S) /\ Len(u) = a /\ \A i \in 1..a : u[i] = s[i]
  <2>1. u \in Seq(S) /\ Len(u) = (IF 1 <= a THEN a - 1 + 1 ELSE 0)
        /\ \A i \in 1..(a - 1 + 1) : u[i] = s[1 + i - 1]
    BY <1>1, <1>2, SubSeqProperties
  <2> QED
    BY <1>1, <2>1
<1>5. v \in Seq(S) /\ Len(v) = n - a - k /\ \A i \in 1..(n - a - k) : v[i] = s[a + k + i]
  <2>1. a + k + 1 \in Int /\ n \in Int
    BY <1>1
  <2>2. v \in Seq(S) /\ Len(v) = (IF a + k + 1 <= n THEN n - (a + k + 1) + 1 ELSE 0)
        /\ \A i \in 1..(n - (a + k + 1) + 1) : v[i] = s[(a + k + 1) + i - 1]
    BY <1>3, <2>1, SubSeqProperties
  <2>3. n - (a + k + 1) + 1 = n - a - k
    BY <1>1
  <2> HIDE DEF v
  <2>4. ASSUME NEW i \in 1..(n - a - k) PROVE v[i] = s[a + k + i]
    <3>1. (a + k + 1) + i - 1 = a + k + i /\ i \in 1..(n - (a + k + 1) + 1)
      BY <1>1, <2>3
    <3>2. v[i] = s[(a + k + 1) + i - 1]
      BY <2>2, <3>1
    <3> QED
      BY <3>1, <3>2
  <2>5. Len(v) = n - a - k
    BY <1>1, <2>2
  <2> QED
    BY <2>2, <2>4, <2>5
<1> HIDE DEF u, v
<1>6. u \o v \in Seq(S) /\ Len(u \o v) = n - k
      /\ \A i \in 1..(n - k) : (u \o v)[i] = IF i <= a THEN u[i] ELSE v[i - a]
  <2>1. a + (n - a - k) = n - k
    BY <1>1
  <2>2. u \o v \in Seq(S) /\ Len(u \o v) = Len(u) + Len(v)
        /\ \A i \in 1..(Len(u) + Len(v)) :
             (u \o v)[i] = IF i <= Len(u) THEN u[i] ELSE v[i - Len(u)]
    BY ONLY <1>4, <1>5, ConcatProperties
  <2>3. Len(u) + Len(v) = n - k /\ Len(u) = a
    BY <1>4, <1>5, <2>1
  <2> QED
    BY ONLY <2>2, <2>3
<1>7. ASSUME NEW i \in 1..(n - k)
      PROVE  (u \o v)[i] = IF i <= a THEN s[i] ELSE s[i + k]
  <2>1. CASE i <= a
    BY <1>4, <1>6, <2>1
  <2>2. CASE ~ (i <= a)
    <3>1. i - a \in 1..(n - a - k) /\ a + k + (i - a) = i + k
      BY <1>1, <2>2
    <3>2. v[i - a] = s[i + k]
      BY <1>5, <3>1
    <3> QED
      BY <1>1, <1>6, <2>2, <3>2
  <2> QED
    BY <2>1, <2>2
<1>8. u \o v = [i \in 1..(n - k) |-> IF i <= a THEN s[i] ELSE s[i + k]]
  <2>1. PICK w, m : w = u \o v /\ m = n - k
    OBVIOUS
  <2>2. w \in Seq(S) /\ Len(w) = m
    BY <1>6, <2>1
  <2>3. DOMAIN w = 1..m /\ w = [i \in DOMAIN w |-> w[i]]
    BY <2>2
  <2>4. \A i \in 1..m : w[i] = IF i <= a THEN s[i] ELSE s[i + k]
    BY <1>7, <2>1
  <2> QED
    BY <2>1, <2>3, <2>4
<1> QED
  BY <1>8 DEF u, v

\* A sequence with an element put in.
LEMMA PutIn ==
  ASSUME NEW S, NEW s \in Seq(S), NEW x \in S, NEW p \in 0..Len(s)
  PROVE  InsertAt(s, p + 1, x) = [i \in 1..(Len(s) + 1) |-> IF i <= p THEN s[i]
                                                        ELSE IF i = p + 1 THEN x ELSE s[i - 1]]
<1> DEFINE n == Len(s)
           u == SubSeq(s, 1, p)
           v == SubSeq(s, p + 1, n)
           w == u \o <<x>>
<1>1. n \in Nat /\ p \in Nat /\ p <= n
  OBVIOUS
<1>2. u \in Seq(S) /\ Len(u) = p /\ \A i \in 1..p : u[i] = s[i]
  <2>1. \A i \in 1..p : s[i] \in S
    BY <1>1
  <2>2. u \in Seq(S) /\ Len(u) = (IF 1 <= p THEN p - 1 + 1 ELSE 0)
        /\ \A i \in 1..(p - 1 + 1) : u[i] = s[1 + i - 1]
    BY <1>1, <2>1, SubSeqProperties
  <2> QED
    BY <1>1, <2>2
<1>3. v \in Seq(S) /\ Len(v) = n - p /\ \A i \in 1..(n - p) : v[i] = s[p + i]
  <2>1. \A i \in (p + 1)..n : s[i] \in S
    BY <1>1
  <2>2. v \in Seq(S) /\ Len(v) = (IF p + 1 <= n THEN n - (p + 1) + 1 ELSE 0)
        /\ \A i \in 1..(n - (p + 1) + 1) : v[i] = s[(p + 1) + i - 1]
    BY <1>1, <2>1, SubSeqProperties
  <2>3. n - (p + 1) + 1 = n - p
    BY <1>1
  <2> HIDE DEF v
  <2>4. ASSUME NEW i \in 1..(n - p) PROVE v[i] = s[p + i]
    <3>1. (p + 1) + i - 1 = p + i /\ i \in 1..(n - (p + 1) + 1)
      BY <1>1, <2>3
    <3>2. v[i] = s[(p + 1) + i - 1]
      BY <2>2, <3>1
    <3> QED
      BY <3>1, <3>2
  <2>5. Len(v) = n - p
    BY <1>1, <2>2
  <2> QED
    BY <2>2, <2>4, <2>5
<1> HIDE DEF u, v
<1>4. <<x>> \in Seq(S) /\ Len(<<x>>) = 1 /\ <<x>>[1] = x
  OBVIOUS
<1>5. w \in Seq(S) /\ Len(w) = p + 1
      /\ \A i \in 1..(p + 1) : w[i] = IF i <= p THEN u[i] ELSE <<x>>[i - p]
  BY <1>2, <1>4, ConcatProperties
<1>6. w[p + 1] = x /\ \A i \in 1..p : w[i] = s[i]
  <2>1. p + 1 \in 1..(p + 1) /\ ~ (p + 1 <= p) /\ (p + 1) - p = 1
    BY <1>1
  <2>2. w[p + 1] = <<x>>[1]
    BY <1>5, <2>1
  <2>3. \A i \in 1..p : i \in 1..(p + 1) /\ i <= p
    BY <1>1
  <2> QED
    BY <1>2, <1>4, <1>5, <2>2, <2>3
<1> HIDE DEF w
<1>7. w \o v \in Seq(S) /\ Len(w \o v) = n + 1
      /\ \A i \in 1..(n + 1) : (w \o v)[i] = IF i <= p + 1 THEN w[i] ELSE v[i - (p + 1)]
  <2>1. w \o v \in Seq(S) /\ Len(w \o v) = Len(w) + Len(v)
        /\ \A i \in 1..(Len(w) + Len(v)) :
             (w \o v)[i] = IF i <= Len(w) THEN w[i] ELSE v[i - Len(w)]
    BY ONLY <1>3, <1>5, ConcatProperties
  <2>2. Len(w) + Len(v) = n + 1 /\ Len(w) = p + 1
    BY <1>1, <1>3, <1>5
  <2> QED
    BY ONLY <2>1, <2>2
<1>8. ASSUME NEW i \in 1..(n + 1)
      PROVE  (w \o v)[i] = IF i <= p THEN s[i] ELSE IF i = p + 1 THEN x ELSE s[i - 1]
  <2>1. CASE i <= p
    <3>1. i <= p + 1 /\ i \in 1..p
      BY <1>1, <2>1
    <3> QED
      BY <1>6, <1>7, <2>1, <3>1
  <2>2. CASE i = p + 1
    BY <1>1, <1>6, <1>7, <2>2
  <2>3. CASE i > p + 1
    <3>1. i - (p + 1) \in 1..(n - p) /\ p + (i - (p + 1)) = i - 1 /\ ~ (i <= p + 1)
          /\ ~ (i <= p) /\ i # p + 1
      BY <1>1, <2>3
    <3>2. v[i - (p + 1)] = s[i - 1]
      BY <1>3, <3>1
    <3> QED
      BY <1>7, <3>1, <3>2
  <2>4. i <= p \/ i = p + 1 \/ i > p + 1
    BY <1>1
  <2> QED
    BY ONLY <2>1, <2>2, <2>3, <2>4
<1>9. w \o v = [i \in 1..(n + 1) |-> IF i <= p THEN s[i]
                                     ELSE IF i = p + 1 THEN x ELSE s[i - 1]]
  <2>1. PICK g, m : g = w \o v /\ m = n + 1
    OBVIOUS
  <2>2. g \in Seq(S) /\ Len(g) = m
    BY <1>7, <2>1
  <2>3. DOMAIN g = 1..m /\ g = [i \in DOMAIN g |-> g[i]]
    BY <2>2
  <2>4. \A i \in 1..m : g[i] = IF i <= p THEN s[i] ELSE IF i = p + 1 THEN x ELSE s[i - 1]
    BY <1>8, <2>1
  <2> QED
    BY <2>1, <2>3, <2>4
<1>10. InsertAt(s, p + 1, x) = w \o v
  <2>1. (p + 1) - 1 = p
    BY <1>1
  <2> QED
    BY <2>1 DEF InsertAt, u, v, w
<1> QED
  BY <1>9, <1>10

\* A sequence without the first of an element's occurrences.
LEMMA FirstOut ==
  ASSUME NEW S, NEW s \in Seq(S), NEW x, NEW p \in 1..Len(s), s[p] = x,
         \A i \in 1..Len(s) : s[i] = x => p <= i
  PROVE  RemoveFirst(s, x) = RemoveAt(s, p)
<1> DEFINE I == {i \in 1..Len(s) : s[i] = x}
<1>1. p \in I /\ \A i \in I : p <= i
  OBVIOUS
<1>2. ASSUME NEW q, q \in I, \A i \in I : q <= i
      PROVE  q = p
  BY <1>1, <1>2
<1>3. Min(I) = p
  <2>1. Min(I) \in I /\ \A i \in I : Min(I) <= i
    BY <1>1, Zenon DEF Min
  <2> QED
    BY <1>2, <2>1
<1>4. SelectInSeq(s, LAMBDA v : v = x) = p
  BY <1>1, <1>3 DEF SelectInSeq
<1>5. \E i \in 1..Len(s) : s[i] = x
  OBVIOUS
<1> QED
  BY <1>4, <1>5 DEF RemoveFirst


\* The items after a step, by the chain there is then.
LEMMA ItemsThen ==
  ASSUME NEW d, NEW n \in Nat, n = numels', Chained(d, n, next', prev')
  PROVE  Items' = [i \in 1..n |-> data'[d[i]]]
<1>1. ASSUME NEW i \in 1..n PROVE Walk(head_sentinel, next', i) = d[i]
  <2>1. d[0] = head_sentinel
    BY DEF Chained
  <2>2. 0 + i = i /\ 0 + i <= n + 1 /\ i \in Nat
    BY ONLY n \in Nat, i \in 1..n
  <2>3. Walk(d[0], next', i) = d[0 + i]
    BY <2>2, WalkNext
  <2> QED
    BY <2>1, <2>2, <2>3
<1>2. Chain' = [i \in 1..n |-> d[i]]
  BY <1>1 DEF Chain
<1> QED
  BY <1>2 DEF Items

\* The items are references.
LEMMA ItemsListed ==
  ASSUME NEW c, NEW n \in Nat, NEW dt, \A i \in 1..n : dt[c[i]] \in Data
  PROVE  [i \in 1..n |-> dt[c[i]]] \in Seq(Data) /\ Len([i \in 1..n |-> dt[c[i]]]) = n
<1> DEFINE s == [i \in 1..n |-> dt[c[i]]]
<1>1. s \in [1..n -> Data]
  OBVIOUS
<1> HIDE DEF s
<1>2. s \in Seq(Data) /\ Len(s) = n
  BY <1>1
<1> QED
  BY <1>2 DEF s

\* What the invariant says of the items.
ItemsAt(c) ==
  /\ Items = [i \in 1..numels |-> data[c[i]]] /\ Items \in Seq(Data) /\ Len(Items) = numels
  /\ numels \in Nat /\ Chained(c, numels, next, prev) /\ Linked(c)
  /\ Referring(c, numels, data)

LEMMA ItemsKnown ==
  ASSUME SInv
  PROVE  \E c, versus : SortInv(c, versus) /\ ItemsAt(c)
<1>1. PICK c, versus : SortInv(c, versus)
  BY DEF SInv
<1>2. /\ Sizes /\ numels \in Nat /\ Linked(c) /\ Chained(c, numels, next, prev)
      /\ Referring(c, numels, data)
  BY <1>1 DEF SInv, LInv, Sizes, SortInv, Linked
<1>3. Items = [i \in 1..numels |-> data[c[i]]]
  BY <1>2, ItemsAre
<1>4. Items \in Seq(Data) /\ Len(Items) = numels
  BY <1>2, <1>3, ItemsListed DEF Referring
<1> QED
  BY <1>1, <1>2, <1>3, <1>4 DEF ItemsAt

\* An insertion puts the item at its position.
LEMMA InsertsInPlace ==
  ASSUME SInv, NEW x \in Data, NEW pos \in Nat, list_insert_at(x, pos)
  PROVE  Items' = InsertAt(Items, pos + 1, x) /\ pos \in 0..numels
<1>1. PICK c : ItemsAt(c)
  BY ItemsKnown
<1>2. /\ numels \in Nat /\ Chained(c, numels, next, prev) /\ Referring(c, numels, data)
      /\ numels' = numels + 1 /\ pos \in 0..numels /\ LInv /\ Linked(c)
  BY <1>1 DEF ItemsAt, SInv, list_insert_at
<1>3. \E e, d : /\ e \in Entry /\ \A i \in 1..numels : c[i] # e
                /\ d = Inserted(c, numels, pos, e) /\ Linked(d)'
                /\ data' = [data EXCEPT ![e] = x]
  BY <1>2, InsertStep
<1>4. PICK e, d : /\ e \in Entry /\ \A i \in 1..numels : c[i] # e
                  /\ d = Inserted(c, numels, pos, e) /\ Linked(d)'
                  /\ data' = [data EXCEPT ![e] = x]
  BY <1>3
<1>5. PICK n \in Nat : n = numels
  BY <1>2
<1>6. n + 1 = numels' /\ Chained(d, n + 1, next', prev')
  BY <1>2, <1>4, <1>5 DEF Linked
<1>7. Items' = [i \in 1..(n + 1) |-> data'[d[i]]]
  BY <1>6, ItemsThen
<1>8. data'[e] = x /\ \A p \in Place : p # e => data'[p] = data[p]
  BY <1>2, <1>4, Sentinels DEF Referring, DataMap
<1>9. ASSUME NEW i \in 1..(n + 1)
      PROVE  data'[d[i]] = IF i <= pos THEN Items[i] ELSE IF i = pos + 1 THEN x ELSE Items[i - 1]
  <2>1. d[i] = IF i <= pos THEN c[i] ELSE IF i = pos + 1 THEN e ELSE c[i - 1]
    BY <1>4, <1>5 DEF Inserted
  <2>2. \A j \in 1..n : c[j] \in Place /\ c[j] # e /\ Items[j] = data[c[j]]
    BY <1>1, <1>4, <1>5 DEF ItemsAt, Chained
  <2>3. \A j \in 1..n : data'[c[j]] = Items[j]
    BY <1>8, <2>2
  <2>4. (i <= pos => i \in 1..n) /\ (~ (i <= pos) /\ i # pos + 1 => i - 1 \in 1..n)
    BY <1>2, <1>5
  <2> QED
    BY <1>8, <2>1, <2>3, <2>4
<1>10. PICK s : s = Items
  OBVIOUS
<1>11. s \in Seq(Data) /\ Len(s) = n /\ pos \in 0..Len(s)
  BY <1>1, <1>2, <1>5, <1>10 DEF ItemsAt
<1>12. InsertAt(s, pos + 1, x) = [i \in 1..(n + 1) |-> IF i <= pos THEN s[i]
                                        ELSE IF i = pos + 1 THEN x ELSE s[i - 1]]
  BY <1>11, PutIn
<1> QED
  BY <1>2, <1>7, <1>9, <1>10, <1>12

\* What is left of the items when some of the chain is taken out.
LEMMA ItemsWithout ==
  ASSUME NEW c, ItemsAt(c), NEW a \in 0..numels, NEW k \in 1..(numels - a),
         numels' = numels - k, NEW d, d = Without(c, numels, a, k),
         Chained(d, numels', next', prev'),
         \A p \in Place : Elsewhere(p, c, a + 1, a + k) => data'[p] = data[p]
  PROVE  Items' = SubSeq(Items, 1, a) \o SubSeq(Items, a + k + 1, numels)
<1>1. PICK n \in Nat : n = numels
  BY DEF ItemsAt
<1>2. n - k \in Nat /\ n - k = numels' /\ Chained(c, n, next, prev) /\ Chained(d, n - k, next', prev')
  BY <1>1 DEF ItemsAt
<1>3. Items' = [i \in 1..(n - k) |-> data'[d[i]]]
  BY <1>2, ItemsThen
<1>4. PICK s : s = Items
  OBVIOUS
<1>5. s \in Seq(Data) /\ Len(s) = n /\ a \in 0..Len(s) /\ k \in 1..(Len(s) - a)
      /\ s = [i \in 1..n |-> data[c[i]]]
  BY <1>1, <1>4 DEF ItemsAt
<1>6. SubSeq(s, 1, a) \o SubSeq(s, a + k + 1, n)
        = [i \in 1..(n - k) |-> IF i <= a THEN s[i] ELSE s[i + k]]
  <2>1. SubSeq(s, 1, a) \o SubSeq(s, a + k + 1, Len(s))
           = [i \in 1..(Len(s) - k) |-> IF i <= a THEN s[i] ELSE s[i + k]]
    BY ONLY <1>5, LeftOut
  <2> QED
    BY <1>5, <2>1
<1>7. ASSUME NEW j \in 1..n, j \notin (a + 1)..(a + k)
      PROVE  data'[c[j]] = s[j]
  <2>1. c[j] \in Place /\ \A i \in (a + 1)..(a + k) : i \in 0..(n + 1) /\ j \in 0..(n + 1) /\ i # j
    BY <1>1, <1>2, <1>7 DEF Chained
  <2>2. Elsewhere(c[j], c, a + 1, a + k)
    BY <1>2, <2>1 DEF Elsewhere, Chained
  <2> QED
    BY <1>5, <2>1, <2>2
<1>8. ASSUME NEW i \in 1..(n - k)
      PROVE  data'[d[i]] = IF i <= a THEN s[i] ELSE s[i + k]
  <2>1. d[i] = IF i <= a THEN c[i] ELSE c[i + k]
    BY <1>1 DEF Without
  <2>2. CASE i <= a
    <3>1. i \in 1..n /\ i \notin (a + 1)..(a + k)
      BY <1>1, <2>2
    <3> QED
      BY <1>7, <2>1, <2>2, <3>1
  <2>3. CASE ~ (i <= a)
    <3>1. i + k \in 1..n /\ i + k \notin (a + 1)..(a + k)
      BY <1>1, <2>3
    <3> QED
      BY <1>7, <2>1, <2>3, <3>1
  <2> QED
    BY <2>2, <2>3
<1> QED
  BY <1>1, <1>3, <1>4, <1>6, <1>8

\* A deletion takes the item at its position.
LEMMA DeletesInPlace ==
  ASSUME SInv, NEW pos \in Nat, list_delete_at(pos)
  PROVE  Items' = RemoveAt(Items, pos + 1) /\ pos \in 0..(numels - 1)
<1>1. PICK c : ItemsAt(c)
  BY ItemsKnown
<1>2. /\ numels \in Nat /\ Chained(c, numels, next, prev) /\ Referring(c, numels, data)
      /\ numels' = numels - 1 /\ pos \in 0..(numels - 1) /\ LInv /\ Linked(c)
  BY <1>1 DEF ItemsAt, SInv, list_delete_at
<1>3. (\E d : d = Without(c, numels, pos, 1) /\ Linked(d)')
      /\ data' = [data EXCEPT ![c[pos + 1]] = Null]
  BY <1>2, DropStep
<1>4. PICK d : d = Without(c, numels, pos, 1) /\ Linked(d)'
  BY <1>3
<1>5. \A p \in Place : Elsewhere(p, c, pos + 1, pos + 1) => data'[p] = data[p]
  <2>1. pos + 1 \in (pos + 1)..(pos + 1)
    BY <1>2
  <2> QED
    BY <1>2, <1>3, <2>1 DEF Referring, DataMap, Elsewhere
<1>6. pos \in 0..numels /\ 1 \in 1..(numels - pos) /\ Chained(d, numels', next', prev')
  BY <1>2, <1>4 DEF Linked
<1>7. Items' = SubSeq(Items, 1, pos) \o SubSeq(Items, pos + 1 + 1, numels)
  BY <1>1, <1>2, <1>4, <1>5, <1>6, ItemsWithout
<1>8. (pos + 1) - 1 = pos /\ Len(Items) = numels
  BY <1>1, <1>2 DEF ItemsAt
<1> QED
  BY <1>2, <1>7, <1>8 DEF RemoveAt


\* The deletion of a range takes the items of its range, or fails and takes none.
LEMMA RangeInPlace ==
  ASSUME SInv, NEW a \in Nat, NEW b \in Nat, list_delete_range(a, b)
  PROVE  /\ a <= b /\ b < numels
         /\ \/ UNCHANGED <<links, numels, iterator, sorting, alive>> /\ fault' # "none"
            \/ Items' = SubSeq(Items, 1, a) \o SubSeq(Items, b + 2, numels)
<1>1. PICK c : ItemsAt(c)
  BY ItemsKnown
<1>2. /\ numels \in Nat /\ Chained(c, numels, next, prev) /\ Referring(c, numels, data)
      /\ a \in 0..numels /\ a <= b /\ b < numels /\ LInv /\ Linked(c)
  BY <1>1 DEF ItemsAt, SInv, list_delete_range
<1>3. LInv' /\ \/ UNCHANGED <<links, numels, iterator, sorting, alive>> /\ fault' # "none"
               \/ /\ \E d : d = Without(c, numels, a, b - a + 1) /\ Linked(d)'
                  /\ data' = [p \in Place |-> IF \E i \in (a + 1)..(b + 1) : p = c[i]
                                             THEN Null ELSE data[p]]
  BY <1>2, RangeStep
<1>4. ASSUME NEW d, d = Without(c, numels, a, b - a + 1), Linked(d)',
             data' = [p \in Place |-> IF \E i \in (a + 1)..(b + 1) : p = c[i]
                                      THEN Null ELSE data[p]]
      PROVE  Items' = SubSeq(Items, 1, a) \o SubSeq(Items, b + 2, numels)
  <2>1. PICK k : k = b - a + 1
    OBVIOUS
  <2>2. k \in 1..(numels - a) /\ k \in 0..numels /\ a + k = b + 1 /\ a + k + 1 = b + 2
    BY <1>2, <2>1
  <2>3. \A p \in Place : Elsewhere(p, c, a + 1, a + k) => data'[p] = data[p]
    BY <1>4, <2>2 DEF Elsewhere
  <2>4. Chained(d, numels', next', prev') /\ numels' \in Nat
    BY <1>3, <1>4 DEF Linked, LInv, Sizes
  <2>5. numels' = numels - k
    <3>1. PICK m \in Nat, n \in Nat : m = numels' /\ n = numels
      BY <1>2, <2>4
    <3>2. Chained(Without(c, n, a, k), m, next', prev') /\ k \in 0..n
      BY <1>4, <2>1, <2>2, <2>4, <3>1
    <3>3. m = n - k
      BY ONLY <3>2, m \in Nat, n \in Nat, WithoutShorter
    <3> QED
      BY <3>1, <3>3
  <2>7. d = Without(c, numels, a, k) /\ numels \in Nat /\ ItemsAt(c)
    BY <1>1, <1>2, <1>4, <2>1
  <2>6. Items' = SubSeq(Items, 1, a) \o SubSeq(Items, a + k + 1, numels)
    BY ONLY <1>2, <2>2, <2>3, <2>4, <2>5, <2>7, ItemsWithout
  <2> QED
    BY <2>2, <2>6
<1> QED
  BY <1>2, <1>3, <1>4

\* The positions of a reference are those of the items that are it.
LEMMA PositionsAre ==
  ASSUME NEW c, ItemsAt(c), NEW x
  PROVE  Positions(x) = {i \in 0..(numels - 1) : Items[i + 1] = x}
<1>1. numels \in Nat /\ Linked(c) /\ Items = [i \in 1..numels |-> data[c[i]]]
      /\ Chained(c, numels, next, prev)
  BY DEF ItemsAt
<1>2. ASSUME NEW i \in 0..(numels - 1)
      PROVE  data[Walk(head_sentinel, next, i + 1)] = Items[i + 1]
  <2> PICK n \in Nat : n = numels
    BY <1>1
  <2>1. PICK nx, pv : nx = next /\ pv = prev
    OBVIOUS
  <2>2. i + 1 \in 1..n /\ i + 1 \in Nat /\ 0 + (i + 1) = i + 1 /\ 0 + (i + 1) <= n + 1
        /\ c[0] = head_sentinel /\ Chained(c, n, nx, pv)
    BY <1>1, <2>1 DEF Chained
  <2>3. Walk(c[0], nx, i + 1) = c[0 + (i + 1)]
    BY <2>2, WalkNext
  <2> QED
    BY <1>1, <2>1, <2>2, <2>3
<1> QED
  BY <1>2 DEF Positions

\* A deletion by reference takes the first item that is it.
LEMMA DeletesFirst ==
  ASSUME SInv, NEW x \in Data, list_delete(x)
  PROVE  /\ Items' = RemoveFirst(Items, x) /\ x \in ToSet(Items)
         /\ \E pos \in Nat : list_delete_at(pos)
<1>1. PICK c : ItemsAt(c)
  BY ItemsKnown
<1>2. PICK n \in Nat : n = numels
  BY <1>1 DEF ItemsAt
<1>3. Items \in Seq(Data) /\ Len(Items) = n
  BY <1>1, <1>2 DEF ItemsAt
<1>4. Positions(x) = {i \in 0..(n - 1) : Items[i + 1] = x}
  BY <1>1, <1>2, PositionsAre
<1>5. PICK pos : pos = list_locate(x)
  OBVIOUS
<1>6. pos \in Positions(x) /\ (\A i \in Positions(x) : pos <= i) /\ list_delete_at(pos)
  BY <1>2, <1>5, LocateIs DEF list_delete
<1>7. pos \in 0..(n - 1) /\ pos \in Nat /\ Items[pos + 1] = x /\ pos + 1 \in 1..n
  BY <1>4, <1>6
<1>8. \A i \in 1..n : Items[i] = x => pos + 1 <= i
  <2> SUFFICES ASSUME NEW i \in 1..n, Items[i] = x PROVE pos + 1 <= i
    OBVIOUS
  <2>1. i - 1 \in 0..(n - 1) /\ (i - 1) + 1 = i
    OBVIOUS
  <2>2. i - 1 \in Positions(x)
    BY <1>4, <2>1
  <2>3. pos <= i - 1
    BY <1>6, <2>2
  <2> QED
    BY <1>7, <2>3
<1>9. PICK s, p : s = Items /\ p = pos + 1
  OBVIOUS
<1>10. s \in Seq(Data) /\ Len(s) = n /\ p \in 1..Len(s) /\ s[p] = x
       /\ \A i \in 1..Len(s) : s[i] = x => p <= i
  BY <1>3, <1>7, <1>8, <1>9
<1>11. RemoveFirst(s, x) = RemoveAt(s, p)
  BY ONLY <1>10, FirstOut
<1>12. Items' = RemoveAt(Items, pos + 1)
  BY <1>6, <1>7, DeletesInPlace
<1>13. x \in ToSet(Items)
  BY <1>9, <1>10 DEF ToSet
<1> QED
  BY <1>6, <1>7, <1>9, <1>11, <1>12, <1>13

\* Every operation acts on the item it is asked for, though it finds it by pointers.
THEOREM OperationsInPlaceHolds == Spec => OperationsInPlace
<1> DEFINE A ==
      /\ \A d \in Data :
           /\ \A pos \in 0..numels : list_insert_at(d, pos) => Items' = InsertAt(Items, pos + 1, d)
           /\ list_delete(d) => Items' = RemoveFirst(Items, d)
      /\ \A pos \in 0..(numels - 1) : list_delete_at(pos) => Items' = RemoveAt(Items, pos + 1)
      /\ \A a \in 0..(numels - 1) : \A b \in a..(numels - 1) :
           list_delete_range(a, b) /\ fault' = "none" =>
             Items' = SubSeq(Items, 1, a) \o SubSeq(Items, b + 2, numels)
<1>1. SInv => A
  <2> SUFFICES ASSUME SInv PROVE A
    OBVIOUS
  <2>1. \A d \in Data : \A pos \in 0..numels :
          list_insert_at(d, pos) => Items' = InsertAt(Items, pos + 1, d)
    BY InsertsInPlace
  <2>2. \A d \in Data : list_delete(d) => Items' = RemoveFirst(Items, d)
    BY DeletesFirst
  <2>3. \A pos \in 0..(numels - 1) : list_delete_at(pos) => Items' = RemoveAt(Items, pos + 1)
    BY DeletesInPlace
  <2>4. ASSUME NEW a \in 0..(numels - 1), NEW b \in a..(numels - 1),
               list_delete_range(a, b), fault' = "none"
        PROVE  Items' = SubSeq(Items, 1, a) \o SubSeq(Items, b + 2, numels)
    <3>1. a \in Nat /\ b \in Nat
      OBVIOUS
    <3> QED
      BY <2>4, <3>1, RangeInPlace DEF links
  <2> QED
    BY <2>1, <2>2, <2>3, <2>4
<1>2. Spec => [][A]_vars
  BY <1>1, SInvHolds, PTL
<1> QED
  BY <1>2 DEF OperationsInPlace


-----------------------------------------------------------------------------
(* The items in order.                                                       *)

\* A set that m places lead into has at least m members, one they cover at most m.
LEMMA Counted ==
  ASSUME NEW n \in Nat, NEW f, Permutes(f, 1, n), NEW m \in 0..n, NEW I \in SUBSET (1..n)
  PROVE  /\ Cardinality(I) \in Nat
         /\ (\A j \in 1..m : f[j] \in I) => m <= Cardinality(I)
         /\ (\A i \in I : \E j \in 1..m : f[j] = i) => Cardinality(I) <= m
<1>1. IsFiniteSet(1..n) /\ IsFiniteSet(1..m) /\ Cardinality(1..m) = m
  BY FS_Interval
<1>2. IsFiniteSet(I)
  BY <1>1, FS_Subset
<1>3. Cardinality(I) \in Nat
  BY <1>2, FS_CardinalityType
<1>4. \A j \in 1..m : j \in 1..n
  OBVIOUS
<1>5. ASSUME \A j \in 1..m : f[j] \in I
      PROVE  m <= Cardinality(I)
  <2> DEFINE h == [j \in 1..m |-> f[j]]
  <2>1. h \in [1..m -> I] /\ \A i, j \in 1..m : h[i] = h[j] => i = j
    BY <1>4, <1>5 DEF Permutes
  <2> HIDE DEF h
  <2>2. h \in Injection(1..m, I)
    BY <2>1 DEF Injection, IsInjective
  <2>3. Cardinality(1..m) <= Cardinality(I)
    BY <1>2, <2>2, FS_Injection
  <2> QED
    BY <1>1, <2>3
<1>6. ASSUME \A i \in I : \E j \in 1..m : f[j] = i
      PROVE  Cardinality(I) <= m
  <2> DEFINE h == [i \in I |-> CHOOSE j \in 1..m : f[j] = i]
  <2>1. \A i \in I : h[i] \in 1..m /\ f[h[i]] = i
    BY <1>6, Zenon
  <2>2. h \in [I -> 1..m] /\ \A i, j \in I : h[i] = h[j] => i = j
    BY <2>1
  <2> HIDE DEF h
  <2>3. h \in Injection(I, 1..m)
    BY <2>2 DEF Injection, IsInjective
  <2>4. Cardinality(I) <= Cardinality(1..m)
    BY <1>1, <2>3, FS_Injection
  <2> QED
    BY <1>1, <2>4
<1> QED
  BY <1>3, <1>5, <1>6

\* None of n items is late for one behind it.
Ascends(t, n, versus) == \A i, j \in 1..n : i <= j => ~ Late(t[i], t[j], versus)

\* The item d may be at position k.
Kth(s, d, k, versus) ==
  /\ Cardinality({i \in DOMAIN s : Late(d, s[i], versus)}) < k
  /\ k <= Cardinality({i \in DOMAIN s : ~ Late(s[i], d, versus)})

\* The n items of t are those of s, in another order.
Shuffled(s, t, f, n) ==
  /\ s \in Seq(Data) /\ Len(s) = n /\ t \in Seq(Data) /\ Len(t) = n
  /\ Permutes(f, 1, n) /\ \A i \in 1..n : t[i] = s[f[i]]

SameOnes(s, t, f, n) ==
  /\ DOMAIN s = 1..n /\ DOMAIN t = 1..n
  /\ \A i \in 1..n : f[i] \in 1..n /\ t[i] = s[f[i]]
  /\ \A i \in 1..n : s[i] \in Data /\ t[i] \in Data /\ s[i] \in Int /\ t[i] \in Int
  /\ \A i \in 1..n : \E j \in 1..n : f[j] = i
  /\ \A i \in 1..n : \E j \in 1..n : s[i] = t[j]

\* Shuffled items are the same ones.
LEMMA Shuffling ==
  ASSUME NEW n \in Nat, NEW s, NEW t, NEW f, Shuffled(s, t, f, n)
  PROVE  SameOnes(s, t, f, n)
<1>1. /\ \A i \in 1..n : f[i] \in 1..n /\ t[i] = s[f[i]]
      /\ \A i \in 1..n : \E j \in 1..n : f[j] = i
  BY DEF Shuffled, Permutes
<1>2. DOMAIN s = 1..n /\ DOMAIN t = 1..n /\ \A i \in 1..n : s[i] \in Data /\ t[i] \in Data
  BY DEF Shuffled
<1>3. \A i \in 1..n : s[i] \in Int /\ t[i] \in Int
  BY <1>2, SortAssumption
<1>4. ASSUME NEW i \in 1..n PROVE \E j \in 1..n : s[i] = t[j]
  <2>1. PICK j \in 1..n : f[j] = i
    BY <1>1
  <2> QED
    BY <1>1, <2>1
<1> QED
  BY <1>1, <1>2, <1>3, <1>4 DEF SameOnes

\* The k-th of the items that are in order may be at position k, and no other item may.
LEMMA KthIs ==
  ASSUME NEW n \in Nat, NEW s, NEW t, NEW f, Shuffled(s, t, f, n), NEW versus \in {-1, 1},
         Ascends(t, n, versus),
         NEW k \in 1..n
  PROVE  Kth(s, t[k], k, versus) /\ \A m \in 1..n : Kth(s, t[m], k, versus) => t[m] = t[k]
<1>1. DOMAIN s = 1..n /\ (\A i \in 1..n : f[i] \in 1..n /\ t[i] = s[f[i]])
      /\ (\A i \in 1..n : s[i] \in Int) /\ (\A i \in 1..n : t[i] \in Int)
      /\ (\A i \in 1..n : \E j \in 1..n : f[j] = i)
  <2>1. SameOnes(s, t, f, n)
    BY Shuffling
  <2> QED
    BY ONLY <2>1 DEF SameOnes
<1>0. Permutes(f, 1, n)
  BY DEF Shuffled
<1> DEFINE Before(d) == {i \in DOMAIN s : Late(d, s[i], versus)}
           Upto(d)   == {i \in DOMAIN s : ~ Late(s[i], d, versus)}
<1>2. \A d : Before(d) \in SUBSET (1..n) /\ Upto(d) \in SUBSET (1..n)
             /\ Kth(s, d, k, versus) = (Cardinality(Before(d)) < k /\ k <= Cardinality(Upto(d)))
  BY <1>1 DEF Kth
<1>3. \A d, j : j \in 1..n => /\ f[j] \in Before(d) <=> Late(d, t[j], versus)
                              /\ f[j] \in Upto(d) <=> ~ Late(t[j], d, versus)
  BY <1>1
<1> HIDE DEF Before, Upto
<1>4. k - 1 \in 0..n /\ k \in 0..n /\ \A j \in 1..n : ~ (j \in 1..(k - 1)) => k <= j
  OBVIOUS
<1>5. \A i, j \in 1..n : i <= j => ~ Late(t[i], t[j], versus)
  BY DEF Ascends
<1>6. Kth(s, t[k], k, versus)
  <2>1. ASSUME NEW i \in Before(t[k]) PROVE \E j \in 1..(k - 1) : f[j] = i
    <3>1. PICK j \in 1..n : f[j] = i
      BY <1>1, <1>2, <2>1
    <3>2. Late(t[k], t[j], versus)
      BY <1>3, <2>1, <3>1
    <3>3. ~ (k <= j)
      BY <1>5, <3>2
    <3> QED
      BY <1>4, <3>1, <3>3
  <2>2. ASSUME NEW j \in 1..k PROVE f[j] \in Upto(t[k])
    <3>1. j \in 1..n /\ j <= k
      OBVIOUS
    <3> QED
      BY <1>3, <1>5, <3>1
  <2>3. Cardinality(Before(t[k])) <= k - 1 /\ Cardinality(Before(t[k])) \in Nat
    BY <1>0, <1>2, <1>4, <2>1, Counted
  <2>4. k <= Cardinality(Upto(t[k]))
    BY <1>0, <1>2, <1>4, <2>2, Counted
  <2>5. Cardinality(Before(t[k])) < k
    BY <2>3
  <2> QED
    BY <1>2, <2>4, <2>5
<1>7. ASSUME NEW m \in 1..n, Kth(s, t[m], k, versus)
      PROVE  t[m] = t[k]
  <2>1. Cardinality(Before(t[m])) < k /\ k <= Cardinality(Upto(t[m]))
    BY <1>2, <1>7
  <2>2. ASSUME Late(t[m], t[k], versus) PROVE FALSE
    <3>1. ASSUME NEW j \in 1..k PROVE f[j] \in Before(t[m])
      <4>1. j \in 1..n /\ ~ Late(t[j], t[k], versus)
        BY <1>5
      <4>2. Late(t[m], t[j], versus)
        BY <1>1, <2>2, <4>1, LateOrder
      <4> QED
        BY <1>3, <4>1, <4>2
    <3>2. k <= Cardinality(Before(t[m])) /\ Cardinality(Before(t[m])) \in Nat
      BY <1>0, <1>2, <1>4, <3>1, Counted
    <3> QED
      BY <2>1, <3>2
  <2>3. ASSUME Late(t[k], t[m], versus) PROVE FALSE
    <3>1. ASSUME NEW i \in Upto(t[m]) PROVE \E j \in 1..(k - 1) : f[j] = i
      <4>1. PICK j \in 1..n : f[j] = i
        BY <1>1, <1>2, <3>1
      <4>2. ~ Late(t[j], t[m], versus)
        BY <1>3, <3>1, <4>1
      <4>3. ASSUME k <= j PROVE FALSE
        <5>1. ~ Late(t[k], t[j], versus)
          BY <1>5, <4>3
        <5>2. ~ Late(t[k], t[m], versus)
          BY <1>1, <4>2, <5>1, LateOrder
        <5> QED
          BY <2>3, <5>2
      <4> QED
        BY <1>4, <4>1, <4>3
    <3>2. Cardinality(Upto(t[m])) <= k - 1 /\ Cardinality(Upto(t[m])) \in Nat
      BY <1>0, <1>2, <1>4, <3>1, Counted
    <3> QED
      BY <2>1, <3>2
  <2> QED
    BY <1>1, <2>2, <2>3, LateOrder
<1> QED
  BY <1>6, <1>7

\* Rearranged items that are in order are the items in order.
LEMMA OrderedIs ==
  ASSUME NEW n \in Nat, NEW s, NEW t, NEW f, Shuffled(s, t, f, n), NEW versus \in {-1, 1},
         Ascends(t, n, versus)
  PROVE  InOrder(versus)[s] = t
<1>1. DOMAIN s = 1..n /\ (\A i \in 1..n : f[i] \in 1..n /\ t[i] = s[f[i]])
      /\ (\A i \in 1..n : \E j \in 1..n : s[i] = t[j])
  <2>1. SameOnes(s, t, f, n)
    BY Shuffling
  <2> QED
    BY ONLY <2>1 DEF SameOnes
<1>0. s \in Seq(Data) /\ t = [k \in 1..n |-> t[k]]
  BY DEF Shuffled
<1>2. InOrder(versus)[s] = [k \in 1..n |-> CHOOSE d \in ToSet(s) : Kth(s, d, k, versus)]
  BY <1>1, <1>0 DEF InOrder, Kth
<1>3. ASSUME NEW k \in 1..n
      PROVE  (CHOOSE d \in ToSet(s) : Kth(s, d, k, versus)) = t[k]
  <2> DEFINE x == CHOOSE d \in ToSet(s) : Kth(s, d, k, versus)
  <2>1. t[k] \in ToSet(s) /\ \A d \in ToSet(s) : \E m \in 1..n : d = t[m]
    <3>1. f[k] \in DOMAIN s /\ t[k] = s[f[k]]
      BY <1>1
    <3>2. \A i \in DOMAIN s : \E m \in 1..n : s[i] = t[m]
      BY <1>1
    <3> QED
      BY ONLY <3>1, <3>2 DEF ToSet
  <2>2. Kth(s, t[k], k, versus) /\ \A m \in 1..n : Kth(s, t[m], k, versus) => t[m] = t[k]
    BY KthIs
  <2>3. x \in ToSet(s) /\ Kth(s, x, k, versus)
    BY <2>1, <2>2, Zenon
  <2> QED
    BY <2>1, <2>2, <2>3
<1> QED
  BY <1>0, <1>2, <1>3


\* What one shuffles, another shuffles back.
LEMMA ShuffledBack ==
  ASSUME NEW n \in Nat, NEW s, NEW t, NEW f, Shuffled(s, t, f, n)
  PROVE  \E g : Shuffled(t, s, g, n)
<1> DEFINE g == [i \in 1..n |-> CHOOSE j \in 1..n : f[j] = i]
<1>1. /\ f \in [1..n -> 1..n] /\ \A i, j \in 1..n : f[i] = f[j] => i = j
      /\ \A i \in 1..n : \E j \in 1..n : f[j] = i
      /\ \A i \in 1..n : t[i] = s[f[i]]
  BY DEF Shuffled, Permutes
<1>2. \A i \in 1..n : g[i] \in 1..n /\ f[g[i]] = i
  BY <1>1, Zenon
<1>3. g \in [1..n -> 1..n]
  BY <1>2
<1> HIDE DEF g
<1>4. \A j \in 1..n : f[j] \in 1..n /\ g[f[j]] = j
  BY <1>1, <1>2
<1>5. \A i, j \in 1..n : g[i] = g[j] => i = j
  BY <1>2
<1>6. Permutes(g, 1, n)
  BY <1>3, <1>4, <1>5 DEF Permutes
<1>7. \A i \in 1..n : s[i] = t[g[i]]
  BY <1>1, <1>2
<1> QED
  BY <1>6, <1>7 DEF Shuffled

\* One shuffle after the other is one.
LEMMA ShuffledTwice ==
  ASSUME NEW n \in Nat, NEW s, NEW t, NEW u, NEW f, NEW g,
         Shuffled(s, t, f, n), Shuffled(t, u, g, n)
  PROVE  \E h : Shuffled(s, u, h, n)
<1> DEFINE h == [i \in 1..n |-> f[g[i]]]
<1>1. /\ \A i \in 1..n : f[i] \in 1..n /\ t[i] = s[f[i]]
      /\ \A i, j \in 1..n : f[i] = f[j] => i = j
      /\ \A i \in 1..n : \E j \in 1..n : f[j] = i
  BY DEF Shuffled, Permutes
<1>2. /\ \A i \in 1..n : g[i] \in 1..n /\ u[i] = t[g[i]]
      /\ \A i, j \in 1..n : g[i] = g[j] => i = j
      /\ \A i \in 1..n : \E j \in 1..n : g[j] = i
  BY DEF Shuffled, Permutes
<1>3. h \in [1..n -> 1..n] /\ \A i \in 1..n : h[i] = f[g[i]]
  BY <1>1, <1>2
<1> HIDE DEF h
<1>4. ASSUME NEW i \in 1..n, NEW j \in 1..n, h[i] = h[j] PROVE i = j
  <2>1. g[i] \in 1..n /\ g[j] \in 1..n
    BY <1>2
  <2>2. f[g[i]] = f[g[j]]
    BY <1>3, <1>4
  <2>3. g[i] = g[j]
    BY <1>1, <2>1, <2>2
  <2> QED
    BY <1>2, <2>3
<1>5. ASSUME NEW i \in 1..n PROVE \E j \in 1..n : h[j] = i
  <2>1. PICK k \in 1..n : f[k] = i
    BY <1>1
  <2>2. PICK j \in 1..n : g[j] = k
    BY <1>2
  <2> QED
    BY <1>3, <2>1, <2>2
<1>6. Permutes(h, 1, n)
  BY <1>3, <1>4, <1>5 DEF Permutes
<1>7. ASSUME NEW i \in 1..n PROVE u[i] = s[h[i]]
  <2>1. g[i] \in 1..n /\ u[i] = t[g[i]] /\ h[i] = f[g[i]]
    BY <1>2, <1>3
  <2>2. t[g[i]] = s[f[g[i]]]
    BY <1>1, <2>1
  <2> QED
    BY <2>1, <2>2
<1> QED
  BY <1>6, <1>7 DEF Shuffled

\* Shuffled items have the same order.
LEMMA SameOrder ==
  ASSUME NEW n \in Nat, NEW s, NEW t, NEW u, NEW f, NEW g, NEW versus \in {-1, 1},
         Shuffled(s, t, f, n), Shuffled(s, u, g, n), Ascends(u, n, versus)
  PROVE  InOrder(versus)[s] = InOrder(versus)[t]
<1>1. InOrder(versus)[s] = u
  BY OrderedIs
<1>2. PICK h : Shuffled(t, s, h, n)
  BY ShuffledBack
<1>3. PICK k : Shuffled(t, u, k, n)
  BY <1>2, ShuffledTwice
<1>4. InOrder(versus)[t] = u
  BY <1>3, OrderedIs
<1> QED
  BY <1>1, <1>4

\* The abstract list counts as this module does, and so it puts in and takes out.
LEMMA SameOperators ==
  ASSUME NEW S, NEW s, NEW x, NEW p
  PROVE  /\ List!Cardinality(S) = Cardinality(S) /\ List!ToSet(s) = ToSet(s)
         /\ List!InsertAt(s, p, x) = InsertAt(s, p, x)
         /\ List!RemoveFirst(s, x) = RemoveFirst(s, x)
<1>1. List!Cardinality(S) = Cardinality(S)
  BY DEF Cardinality, List!Cardinality
<1>2. List!ToSet(s) = ToSet(s) /\ List!InsertAt(s, p, x) = InsertAt(s, p, x)
  BY DEF ToSet, List!ToSet, InsertAt, List!InsertAt
<1>3. List!RemoveFirst(s, x) = RemoveFirst(s, x)
  BY DEF RemoveFirst, List!RemoveFirst, RemoveAt, List!RemoveAt, SelectInSeq, List!SelectInSeq,
         Min, List!Min
<1> QED
  BY <1>1, <1>2, <1>3

\* Each is there as often.
LEMMA SameTimes ==
  ASSUME NEW n \in Nat, NEW s, NEW t, NEW f, Shuffled(s, t, f, n)
  PROVE  List!SameItems(s, t)
<1>1. SameOnes(s, t, f, n)
  BY Shuffling
<1>2. s \in Seq(Data) /\ t \in Seq(Data) /\ Len(s) = n /\ Len(t) = n /\ Permutes(f, 1, n)
      /\ DOMAIN s = 1..n /\ DOMAIN t = 1..n
  BY <1>1 DEF Shuffled, SameOnes
<1>3. ASSUME NEW d \in Data
      PROVE  Cardinality({i \in 1..n : s[i] = d}) = Cardinality({i \in 1..n : t[i] = d})
  <2> DEFINE S == {i \in 1..n : s[i] = d}
             T == {i \in 1..n : t[i] = d}
             h == [i \in T |-> f[i]]
  <2>1. /\ \A i \in 1..n : f[i] \in 1..n /\ t[i] = s[f[i]]
        /\ \A i, j \in 1..n : f[i] = f[j] => i = j
        /\ \A i \in 1..n : \E j \in 1..n : f[j] = i
    BY <1>2 DEF Permutes, Shuffled
  <2>2. h \in [T -> S] /\ (\A i, j \in T : h[i] = h[j] => i = j) /\ DOMAIN h = T
    BY <2>1
  <2>3. ASSUME NEW i \in S PROVE \E j \in T : h[j] = i
    <3>1. PICK j \in 1..n : f[j] = i
      BY <2>1
    <3>2. j \in T
      BY <2>1, <3>1
    <3> QED
      BY <3>1, <3>2
  <2>4. T \in SUBSET (1..n) /\ IsFiniteSet(1..n)
    BY FS_Interval
  <2> HIDE DEF h, S, T
  <2>5. IsFiniteSet(T)
    BY <2>4, FS_Subset
  <2>6. h \in Injection(T, S) /\ h \in Surjection(T, S)
    BY <2>2, <2>3 DEF Injection, Surjection, IsInjective
  <2>7. ExistsBijection(T, S)
    BY <2>6 DEF ExistsBijection, Bijection
  <2>8. Cardinality(S) = Cardinality(T)
    BY <2>5, <2>7, FS_Bijection
  <2> QED
    BY <2>8 DEF S, T
<1>4. [d \in Data |-> Cardinality({i \in 1..n : s[i] = d})]
        = [d \in Data |-> Cardinality({i \in 1..n : t[i] = d})]
  BY <1>3
<1>5. List!Times[s] = List!Times[t]
  <2>1. List!Times[s] = [d \in Data |-> Cardinality({i \in DOMAIN s : s[i] = d})]
    <3>1. List!Times[s] = [d \in Data |-> List!Cardinality({i \in DOMAIN s : s[i] = d})]
      BY <1>2 DEF List!Times
    <3>2. \A d : List!Cardinality({i \in DOMAIN s : s[i] = d}) = Cardinality({i \in DOMAIN s : s[i] = d})
      BY SameOperators
    <3> QED
      BY <3>1, <3>2
  <2>2. List!Times[t] = [d \in Data |-> Cardinality({i \in DOMAIN t : t[i] = d})]
    <3>1. List!Times[t] = [d \in Data |-> List!Cardinality({i \in DOMAIN t : t[i] = d})]
      BY <1>2 DEF List!Times
    <3>2. \A d : List!Cardinality({i \in DOMAIN t : t[i] = d}) = Cardinality({i \in DOMAIN t : t[i] = d})
      BY SameOperators
    <3> QED
      BY <3>1, <3>2
  <2>3. DOMAIN s = 1..n /\ DOMAIN t = 1..n
    BY <1>2
  <2> QED
    BY ONLY <1>4, <2>1, <2>2, <2>3
<1> QED
  BY <1>2, <1>5 DEF List!SameItems

\* The places 1 to n of the chain c take their data from each other by f.
Exchanges(f, c, n, d, e) ==
  Permutes(f, 1, n) /\ \A i \in 1..n : e[c[i]] = d[c[f[i]]]

\* What a part of the chain rearranges, the whole of it does.
LEMMA RearrangedWhole ==
  ASSUME NEW n \in Nat, NEW c, NEW nx, NEW pv, Chained(c, n, nx, pv), NEW d, NEW e,
         NEW a \in 1..n, NEW b \in a..n, Rearranged(d, e, c, a, b)
  PROVE  \E f : Exchanges(f, c, n, d, e)
<1>1. PICK g : Permutes(g, a, b) /\ \A i \in a..b : e[c[i]] = d[c[g[i]]]
  BY DEF Rearranged
<1>2. \A p \in Place : Elsewhere(p, c, a, b) => e[p] = d[p]
  BY DEF Rearranged
<1> DEFINE f == [i \in 1..n |-> IF i \in a..b THEN g[i] ELSE i]
<1>3. /\ \A i \in a..b : g[i] \in a..b /\ i \in 1..n
      /\ \A i, j \in a..b : g[i] = g[j] => i = j
      /\ \A i \in a..b : \E j \in a..b : g[j] = i
  <2>1. \A i \in a..b : i \in 1..n
    OBVIOUS
  <2>2. g \in [a..b -> a..b]
    BY <1>1 DEF Permutes
  <2>3. \A i \in a..b : g[i] \in a..b
    BY ONLY <2>2
  <2> QED
    BY <1>1, <2>1, <2>3, Zenon DEF Permutes
<1>4. f \in [1..n -> 1..n] /\ \A i \in 1..n : f[i] = IF i \in a..b THEN g[i] ELSE i
  <2>1. \A i \in a..b : g[i] \in 1..n
    BY <1>3
  <2> QED
    BY <2>1
<1> HIDE DEF f
<1>5. ASSUME NEW i \in 1..n, NEW j \in 1..n, f[i] = f[j] PROVE i = j
  <2>1. /\ i \in a..b => f[i] = g[i] /\ g[i] \in a..b
        /\ i \notin a..b => f[i] = i
        /\ j \in a..b => f[j] = g[j] /\ g[j] \in a..b
        /\ j \notin a..b => f[j] = j
    BY <1>3, <1>4
  <2>2. i \in a..b /\ j \in a..b /\ g[i] = g[j] => i = j
    BY <1>3
  <2> QED
    BY ONLY <1>5, <2>1, <2>2
<1>6. ASSUME NEW i \in 1..n PROVE \E j \in 1..n : f[j] = i
  <2>1. CASE i \in a..b
    BY <1>3, <1>4, <2>1
  <2>2. CASE i \notin a..b
    BY <1>4, <2>2
  <2> QED
    BY <2>1, <2>2
<1>7. ASSUME NEW i \in 1..n PROVE e[c[i]] = d[c[f[i]]]
  <2>1. CASE i \in a..b
    BY <1>1, <1>4, <2>1
  <2>2. CASE i \notin a..b
    <3>1. c[i] \in Place /\ Elsewhere(c[i], c, a, b)
      <4>1. i \in 0..(n + 1) /\ \A j \in a..b : j \in 0..(n + 1) /\ j # i
        BY <2>2
      <4>2. c[i] \in Place
        BY <4>1 DEF Chained
      <4>3. \A j \in a..b : c[i] # c[j]
        BY <4>1 DEF Chained
      <4> QED
        BY <4>2, <4>3 DEF Elsewhere
    <3> QED
      BY <1>2, <1>4, <2>2, <3>1
  <2> QED
    BY <2>1, <2>2
<1>8. Permutes(f, 1, n)
  BY <1>4, <1>5, <1>6 DEF Permutes
<1>9. Exchanges(f, c, n, d, e)
  BY <1>7, <1>8 DEF Exchanges
<1> QED
  BY <1>9

\* The items of the chain, with the data of d.
Listed(c, n, d) == [i \in 1..n |-> d[c[i]]]

\* Rearranged data is a shuffle of the items.
LEMMA RearrangedShuffles ==
  ASSUME NEW n \in Nat, NEW c, NEW nx, NEW pv, Chained(c, n, nx, pv), NEW d, NEW e,
         Referring(c, n, d), Referring(c, n, e),
         NEW a \in 1..n, NEW b \in a..n, Rearranged(d, e, c, a, b)
  PROVE  \E f : Shuffled(Listed(c, n, d), Listed(c, n, e), f, n)
<1>1. PICK f : Permutes(f, 1, n) /\ \A i \in 1..n : e[c[i]] = d[c[f[i]]]
  <2>1. \E f : Exchanges(f, c, n, d, e)
    BY RearrangedWhole
  <2>2. PICK f : Exchanges(f, c, n, d, e)
    BY <2>1
  <2> QED
    BY <2>2 DEF Exchanges
<1>2. \A i \in 1..n : f[i] \in 1..n
  BY <1>1 DEF Permutes
<1>3. Listed(c, n, d) \in Seq(Data) /\ Len(Listed(c, n, d)) = n
      /\ Listed(c, n, e) \in Seq(Data) /\ Len(Listed(c, n, e)) = n
  BY ItemsListed DEF Referring, Listed
<1>4. \A i \in 1..n : Listed(c, n, e)[i] = Listed(c, n, d)[f[i]]
  BY <1>1, <1>2 DEF Listed
<1> QED
  BY <1>1, <1>3, <1>4 DEF Shuffled


-----------------------------------------------------------------------------
(* The pointers implement the sequence, step by step.                        *)

Abs   == IF sorting = <<>> THEN Items ELSE InOrder(sorting[1].versus)[Items]
Given == IF iter_active /\ alive THEN iter_pos ELSE -1

\* Some shuffle of the items is in order.
LEMMA OrderExists ==
  ASSUME NEW c, ItemsAt(c), numels > 0, NEW versus \in {-1, 1}
  PROVE  \E u, g : Shuffled(Items, u, g, numels) /\ Ascends(u, numels, versus)
<1> DEFINE part == [fel |-> c[1], lel |-> c[numels], versus |-> versus]
           e == list_sort_selectionsort(part)
<1>1. PICK n \in Nat : n = numels
  BY DEF ItemsAt
<1>2. /\ n > 0 /\ Chained(c, n, next, prev) /\ Referring(c, n, data) /\ Items = Listed(c, n, data)
      /\ 1 \in 1..n /\ n \in 1..n
  BY <1>1 DEF ItemsAt, Listed
<1>3. Stretch(c, 1, n) /\ Numbers(data, c, 1, n)
  BY <1>1, <1>2 DEF Stretch, Numbers, Referring
<1>4. part.fel = c[1] /\ part.lel = c[n] /\ part.versus = versus
  BY <1>1
<1> HIDE DEF part
<1>5. e \in DataMap /\ Rearranged(data, e, c, 1, n) /\ Sorted(e, c, 1, n, n, versus)
  BY <1>3, <1>4, SelectionIs
<1> HIDE DEF e
<1>6. Referring(c, n, e)
  <2>1. numels \in Nat /\ Chained(c, numels, next, prev) /\ 1 \in 1..numels /\ n \in 1..numels
        /\ e \in DataMap /\ Referring(c, numels, data)
    BY <1>1, <1>2, <1>5
  <2> QED
    BY <1>1, <1>5, <2>1, ReferringStays
<1>7. PICK g : Shuffled(Listed(c, n, data), Listed(c, n, e), g, n)
  <2>1. n \in Nat /\ Chained(c, n, next, prev) /\ Referring(c, n, data) /\ Referring(c, n, e)
        /\ 1 \in 1..n /\ n \in 1..n /\ Rearranged(data, e, c, 1, n)
    BY <1>2, <1>5, <1>6
  <2>2. \E g : Shuffled(Listed(c, n, data), Listed(c, n, e), g, n)
    BY ONLY <2>1, RearrangedShuffles
  <2> QED
    BY <2>2
<1>8. PICK u : u = Listed(c, n, e)
  OBVIOUS
<1>9. ASSUME NEW i \in 1..n, NEW j \in 1..n, i <= j
      PROVE  ~ Late(u[i], u[j], versus)
  <2>1. u[i] = e[c[i]] /\ u[j] = e[c[j]] /\ u[i] \in Int
    BY <1>6, <1>8, SortAssumption DEF Listed, Referring
  <2>2. CASE i = n
    <3>1. i = j
      BY <1>9, <2>2
    <3> QED
      BY <2>1, <3>1, LateOrder
  <2>3. CASE i # n
    <3>1. i \in 1..(n - 1) /\ j \in i..n
      BY <1>9, <2>3
    <3> QED
      BY <1>5, <2>1, <3>1 DEF Sorted
  <2> QED
    BY <2>2, <2>3
<1>10. Ascends(u, n, versus)
  BY <1>9 DEF Ascends
<1> QED
  BY <1>1, <1>2, <1>7, <1>8, <1>10

\* A sort puts the items in order.
LEMMA SortServes ==
  ASSUME SInv, NEW v \in {-1, 1}, list_sort(v)
  PROVE  List!Sort
<1>1. PICK c, versus : SortInv(c, versus) /\ ItemsAt(c)
  BY ItemsKnown
<1>2. /\ sorting = <<>> /\ ~ iter_active /\ numels > 1 /\ iter_active' = iter_active
      /\ UNCHANGED <<next, data, numels>>
  BY DEF list_sort, Changeable, Ready, links, iterator
<1>3. sorting' # <<>> /\ sorting'[1].versus = v
  BY DEF list_sort
<1>4. Items' = Items
  BY <1>2 DEF Items, Chain
<1>5. PICK n \in Nat : n = numels
  BY <1>1 DEF ItemsAt
<1>6. PICK u, g : Shuffled(Items, u, g, n) /\ Ascends(u, n, v)
  BY <1>1, <1>2, <1>5, OrderExists
<1>7. InOrder(v)[Items] = u
  BY <1>6, OrderedIs
<1>8. Abs = Items /\ Abs' = u /\ Given = -1 /\ Given' = -1
  BY <1>2, <1>3, <1>4, <1>7 DEF Abs, Given
<1>9. List!SameItems(Items, u)
  BY <1>6, SameTimes
<1>10. List!Ordered(u, v)
  <2>1. SameOnes(Items, u, g, n) /\ Len(u) = n
    BY <1>6, Shuffling DEF Shuffled
  <2>2. ASSUME NEW i \in 2..n PROVE (u[i - 1] - u[i]) * v <= 0
    <3>1. i - 1 \in 1..n /\ i \in 1..n /\ i - 1 <= i
      OBVIOUS
    <3>2. u[i - 1] \in Int /\ u[i] \in Int /\ ~ Late(u[i - 1], u[i], v)
      BY <1>6, <2>1, <3>1 DEF SameOnes, Ascends
    <3>3. PICK x \in Int, y \in Int : x = u[i - 1] /\ y = u[i]
      BY <3>2
    <3>4. ~ ((x - y) * v > 0)
      BY <3>2, <3>3 DEF Late
    <3>5. (x - y) * v <= 0
      BY <3>4
    <3> QED
      BY <3>3, <3>5
  <2> QED
    BY <2>1, <2>2 DEF List!Ordered
<1> QED
  BY <1>8, <1>9, <1>10 DEF List!Sort, List!Off, Abs, Given


Stutters == Abs' = Abs /\ Given' = Given

\* What list_sort_quicksort does of a sort changes nothing of its order.
LEMMA QuickStutters ==
  ASSUME SInv, list_sort_quicksort
  PROVE  Stutters
<1>1. PICK c, versus : SortInv(c, versus) /\ ItemsAt(c)
  BY ItemsKnown
<1>2. /\ sorting # <<>> /\ UNCHANGED <<next, prev, numels, iter_active, iter_pos, alive>>
      /\ LInv /\ SortOnly
  BY <1>1 DEF list_sort_quicksort, iterator, SInv, SortInv
<1>3. PICK n \in Nat : n = numels
  BY <1>1 DEF ItemsAt
<1>4. Sorts(c, versus, sorting, sorting', data, data')
  BY <1>1, <1>2, QuickKeeps
<1>5. /\ Chained(c, n, next, prev) /\ Referring(c, n, data) /\ Referring(c, n, data')
      /\ Items = Listed(c, n, data)
      /\ \E a \in 1..n : \E b \in a..n : Rearranged(data, data', c, a, b)
  BY <1>1, <1>3, <1>4 DEF ItemsAt, Sorts, Listed
<1>6. Items' = Listed(c, n, data')
  <2>1. n = numels' /\ Chained(c, n, next', prev')
    BY <1>2, <1>3, <1>5
  <2> QED
    BY <2>1, ItemsThen DEF Listed
<1>7. PICK e : e = data'
  OBVIOUS
<1>8. PICK s, t, f : s = Items /\ t = Items' /\ Shuffled(s, t, f, n)
  <2> PICK a \in 1..n : \E b \in a..n : Rearranged(data, e, c, a, b)
    BY <1>5, <1>7
  <2>1. PICK b \in a..n : Rearranged(data, e, c, a, b)
    OBVIOUS
  <2>2. Referring(c, n, data) /\ Referring(c, n, e) /\ Chained(c, n, next, prev)
    BY <1>5, <1>7
  <2>3. \E f : Shuffled(Listed(c, n, data), Listed(c, n, e), f, n)
    BY <2>1, <2>2, RearrangedShuffles
  <2> QED
    BY <1>5, <1>6, <1>7, <2>3
<1>9. /\ sorting[1].versus = versus /\ versus \in {-1, 1} /\ n > 0
      /\ sorting' # <<>> => sorting'[1].versus = versus
  <2>1. PartsAt(sorting, c, versus) /\ PartsAt(sorting', c, versus)
    BY <1>1, <1>4 DEF SortInv, Sorts
  <2>2. PICK q : q = sorting'
    OBVIOUS
  <2>3. 1 \in 1..Len(sorting) /\ (q # <<>> => 1 \in 1..Len(q))
    BY <1>2, <2>1, <2>2 DEF PartsAt
  <2>4. PartAt(sorting[1], c) /\ sorting[1].versus = versus /\ (q # <<>> => q[1].versus = versus)
    BY <2>1, <2>2, <2>3 DEF PartsAt
  <2>5. versus \in {-1, 1}
    BY <2>1 DEF PartsAt
  <2>6. n > 0
    BY <1>3, <2>4 DEF PartAt, Part
  <2> QED
    BY <2>2, <2>4, <2>5, <2>6
<1>10. Abs = InOrder(versus)[s]
  BY <1>2, <1>8, <1>9 DEF Abs
<1>11. CASE sorting' = <<>>
  <2>1. Apart(<<>>, e, c, versus)
    BY <1>4, <1>7, <1>11 DEF Sorts
  <2>2. ASSUME NEW i \in 1..n, NEW j \in 1..n, i <= j
        PROVE  ~ Late(t[i], t[j], versus)
    <3>1. t[i] = e[c[i]] /\ t[j] = e[c[j]] /\ t[i] \in Int
      BY <1>5, <1>6, <1>7, <1>8, SortAssumption DEF Listed, Referring
    <3>2. CASE i = j
      BY <1>9, <3>1, <3>2, LateOrder
    <3>3. CASE i # j
      <4>1. i < j
        BY <2>2, <3>3
      <4>2. ~ Together(<<>>, i, j)
        BY DEF Together
      <4> QED
        BY <1>3, <2>1, <3>1, <4>1, <4>2 DEF Apart
    <3> QED
      BY <3>2, <3>3
  <2>3. InOrder(versus)[s] = t
    BY <1>8, <1>9, <2>2, OrderedIs DEF Ascends
  <2>4. Abs' = t
    BY <1>8, <1>11 DEF Abs
  <2> QED
    BY <1>2, <1>10, <2>3, <2>4 DEF Stutters, Given
<1>12. CASE sorting' # <<>>
  <2>1. PICK u, g : Shuffled(s, u, g, n) /\ Ascends(u, n, versus)
    BY <1>1, <1>3, <1>8, <1>9, OrderExists
  <2>2. InOrder(versus)[s] = InOrder(versus)[t]
    BY <1>8, <1>9, <2>1, SameOrder
  <2>3. Abs' = InOrder(versus)[t]
    BY <1>8, <1>9, <1>12 DEF Abs
  <2> QED
    BY <1>2, <1>10, <2>2, <2>3 DEF Stutters, Given
<1> QED
  BY <1>11, <1>12

\* Outside of a sort and of an iteration, the items are what they are.
LEMMA AtRest ==
  ASSUME SInv, sorting = <<>>, sorting' = sorting, ~ iter_active, UNCHANGED iterator
  PROVE  Abs = Items /\ Abs' = Items' /\ Given = -1 /\ Given' = -1
  BY DEF Abs, Given, iterator

\* An insertion inserts.
LEMMA InsertServes ==
  ASSUME SInv, NEW x \in Data, NEW pos \in Nat, list_insert_at(x, pos)
  PROVE  List!Insert
<1>1. Items' = InsertAt(Items, pos + 1, x) /\ pos \in 0..numels
  BY InsertsInPlace
<1>2. PICK c : ItemsAt(c)
  BY ItemsKnown
<1>3. /\ Items \in Seq(Data) /\ Len(Items) = numels /\ numels < MaxLen
      /\ Abs = Items /\ Abs' = Items' /\ Given = -1 /\ Given' = -1
  BY <1>2, AtRest DEF ItemsAt, list_insert_at, Changeable, Ready
<1>4. PICK s, p : s = Items /\ p = pos + 1
  OBVIOUS
<1>5. p \in 1..(Len(s) + 1)
  BY <1>1, <1>3, <1>4
<1>6. Items' \in {List!InsertAt(s, q, d) : d \in Data, q \in 1..(Len(s) + 1)}
  BY <1>1, <1>4, <1>5, SameOperators
<1> QED
  BY <1>3, <1>4, <1>6 DEF List!Insert, List!Change, List!Off, Abs, Given

\* A deletion by reference expunges.
LEMMA DeleteServes ==
  ASSUME SInv, NEW x \in Data, list_delete(x)
  PROVE  List!Expunge
<1>1. Items' = RemoveFirst(Items, x) /\ x \in ToSet(Items)
  BY DeletesFirst
<1>2. Abs = Items /\ Abs' = Items' /\ Given = -1 /\ Given' = -1
  BY AtRest DEF list_delete, list_delete_at, Changeable, Ready
<1>3. Items' \in {List!RemoveFirst(Items, d) : d \in List!ToSet(Items)}
  BY <1>1, SameOperators
<1> QED
  BY <1>2, <1>3 DEF List!Expunge, List!Change, List!Off, Abs, Given

\* The sequences that are left when a range of s is taken out.
Ranged(s) == UNION {{SubSeq(s, 1, k - 1) \o SubSeq(s, l + 1, Len(s)) : l \in k..Len(s)} :
                      k \in DOMAIN s}

\* What takes the items of a range expunges them.
LEMMA RangeServes ==
  ASSUME SInv, NEW a \in Nat, NEW b \in Nat, a <= b, b < numels,
         Abs = Items, Abs' = Items', Given = -1, Given' = -1,
         Items' = SubSeq(Items, 1, a) \o SubSeq(Items, b + 2, numels)
  PROVE  List!ExpungeRange
<1>1. PICK c : ItemsAt(c)
  BY ItemsKnown
<1>2. PICK s, n, from, to : s = Items /\ n = numels /\ from = a + 1 /\ to = b + 1
  OBVIOUS
<1>3. s \in Seq(Data) /\ Len(s) = n /\ n \in Nat /\ DOMAIN s = 1..n
  BY <1>1, <1>2 DEF ItemsAt
<1>4. from \in DOMAIN s /\ to \in from..Len(s) /\ from - 1 = a /\ to + 1 = b + 2
  BY <1>2, <1>3
<1>5. Items' = SubSeq(s, 1, from - 1) \o SubSeq(s, to + 1, Len(s))
  BY <1>2, <1>3, <1>4
<1>6. Items' \in Ranged(s)
  <2> DEFINE Cut(k) == {SubSeq(s, 1, k - 1) \o SubSeq(s, l + 1, Len(s)) : l \in k..Len(s)}
  <2>1. Items' \in Cut(from)
    BY <1>4, <1>5
  <2> HIDE DEF Cut
  <2>2. Items' \in UNION {Cut(k) : k \in DOMAIN s}
    BY <1>4, <2>1
  <2> QED
    BY <2>2 DEF Cut, Ranged
<1>7. s = Abs /\ Items' = Abs' /\ Given = -1 /\ Given' = Given
  BY <1>2
<1>8. Abs' \in Ranged(Abs)
  BY <1>6, <1>7
<1> QED
  BY ONLY <1>7, <1>8 DEF Ranged, List!ExpungeRange, List!Change, List!Off, Abs, Given

\* A deletion at a position expunges a range of one.
LEMMA DeleteAtServes ==
  ASSUME SInv, NEW pos \in Nat, list_delete_at(pos)
  PROVE  List!ExpungeRange
<1>1. Items' = RemoveAt(Items, pos + 1) /\ pos \in 0..(numels - 1)
  BY DeletesInPlace
<1>2. PICK c : ItemsAt(c)
  BY ItemsKnown
<1>3. Len(Items) = numels /\ numels \in Nat
  BY <1>2 DEF ItemsAt
<1>4. Abs = Items /\ Abs' = Items' /\ Given = -1 /\ Given' = -1
  BY AtRest DEF list_delete_at, Changeable, Ready
<1>5. pos <= pos /\ pos < numels /\ (pos + 1) - 1 = pos /\ (pos + 1) + 1 = pos + 2
  BY <1>1, <1>3
<1>6. Items' = SubSeq(Items, 1, pos) \o SubSeq(Items, pos + 2, numels)
  BY <1>1, <1>3, <1>5 DEF RemoveAt
<1> QED
  BY <1>4, <1>5, <1>6, RangeServes

\* The deletion of a range expunges it, or fails.
LEMMA DeleteRangeServes ==
  ASSUME SInv, NEW a \in Nat, NEW b \in Nat, list_delete_range(a, b)
  PROVE  List!ExpungeRange \/ Stutters
<1>1. /\ a <= b /\ b < numels
      /\ \/ UNCHANGED <<links, numels, iterator, sorting, alive>> /\ fault' # "none"
         \/ Items' = SubSeq(Items, 1, a) \o SubSeq(Items, b + 2, numels)
  BY RangeInPlace
<1>2. sorting = <<>> /\ ~ iter_active
  BY DEF list_delete_range, Changeable, Ready
<1>3. sorting' = sorting /\ UNCHANGED iterator
  BY <1>2 DEF list_delete_range
<1>4. CASE UNCHANGED <<links, numels, iterator, sorting, alive>>
  BY <1>4 DEF Stutters, Abs, Given, Items, Chain, InOrder, links, iterator
<1>5. CASE Items' = SubSeq(Items, 1, a) \o SubSeq(Items, b + 2, numels)
  BY <1>1, <1>2, <1>3, <1>5, AtRest, RangeServes
<1> QED
  BY <1>1, <1>4, <1>5

\* Emptying it clears it, or starts again.
LEMMA EmptyServes ==
  ASSUME SInv, list_clear \/ list_destroy \/ list_init
  PROVE  List!Clear \/ List!Restart
<1>1. Items' = <<>>
  BY DEF list_clear, list_destroy, list_init, Emptied, Items
<1>2. sorting = <<>> /\ sorting' = <<>>
  <2>1. sorting # <<>> => alive
    BY DEF SInv, SortInv, SortOnly
  <2> QED
    BY <2>1 DEF list_clear, list_destroy, list_init, Changeable, Ready
<1>3. CASE list_clear
  <2>1. Abs' = <<>> /\ Given = -1 /\ Given' = -1
    BY <1>1, <1>2, <1>3, AtRest DEF list_clear, Changeable
  <2> QED
    BY <2>1 DEF List!Clear, List!Change, List!Off, Abs, Given
<1>4. CASE list_destroy \/ list_init
  <2>1. Abs' = <<>> /\ Given' = -1
    BY <1>1, <1>2, <1>4 DEF list_destroy, list_init, Abs, Given
  <2> QED
    BY <2>1 DEF List!Restart, List!Off, Abs, Given
<1> QED
  BY <1>3, <1>4

\* Iterating gives the items one by one.
LEMMA IterateServes ==
  ASSUME SInv, list_iterator_start \/ list_iterator_next \/ list_iterator_stop
  PROVE  List!Start \/ List!Give \/ List!Stop
<1>1. PICK c : ItemsAt(c)
  BY ItemsKnown
<1>2. Len(Items) = numels /\ numels \in Nat
      /\ (alive /\ iter_active => iter_pos \in 0..numels)
  BY <1>1 DEF ItemsAt, Linked
<1>3. UNCHANGED <<next, data, numels, alive>> /\ sorting = <<>> /\ sorting' = <<>> /\ alive
  BY DEF list_iterator_start, list_iterator_next, list_iterator_stop, links, Ready
<1>4. Items' = Items /\ Abs = Items /\ Abs' = Items
  BY <1>3 DEF Items, Chain, Abs
<1>5. CASE list_iterator_start
  <2>1. Given = -1 /\ Given' = 0
    BY <1>3, <1>5 DEF list_iterator_start, Given
  <2> QED
    BY <1>4, <2>1 DEF List!Start, List!Off, Abs, Given
<1>6. CASE list_iterator_next
  <2>1. Given = iter_pos /\ Given' = Given + 1 /\ iter_pos < numels /\ iter_pos \in 0..numels
    BY <1>2, <1>3, <1>6 DEF list_iterator_next, Given
  <2>2. Given # -1 /\ Given < Len(Abs)
    BY <1>2, <1>4, <2>1
  <2> QED
    BY <1>4, <2>1, <2>2 DEF List!Give, List!Off, Abs, Given
<1>7. CASE list_iterator_stop
  <2>1. Given = iter_pos /\ Given' = -1 /\ iter_pos \in 0..numels
    BY <1>2, <1>3, <1>7 DEF list_iterator_stop, Given
  <2>2. Given # -1
    BY <1>2, <2>1
  <2> QED
    BY <1>4, <2>1, <2>2 DEF List!Stop, List!Off, Abs, Given
<1> QED
  BY <1>5, <1>6, <1>7

\* The pointers implement the sequence that simclist.h promises, a sort as one step of it.
THEOREM ImplementsList == Spec => Refines
<1>1. Init => List!Init
  <2> SUFFICES ASSUME Init PROVE List!Init
    OBVIOUS
  <2>1. Items = <<>> /\ sorting = <<>> /\ iter_active = FALSE
    BY DEF Init, Items
  <2> QED
    BY <2>1 DEF List!Init, List!Off
<1>2. SInv /\ [Next]_vars => [List!Next]_(List!vars)
  <2> SUFFICES ASSUME SInv, [Next]_vars PROVE List!Next \/ Stutters
    BY DEF Stutters, Abs, Given, List!vars
  <2>1. numels \in Nat
    BY DEF SInv, LInv, Sizes
  <2>2. ASSUME NEW d \in Data, list_append(d) \/ list_prepend(d)
        PROVE  List!Insert
    BY <2>1, <2>2, InsertServes DEF list_append, list_prepend
  <2>3. ASSUME NEW d \in Data, list_delete(d)
        PROVE  List!Expunge
    BY <2>3, DeleteServes
  <2>4. ASSUME NEW d \in Data, NEW pos \in 1..(numels - 1), list_insert_at(d, pos)
        PROVE  List!Insert
    BY <2>1, <2>4, InsertServes
  <2>5. ASSUME NEW pos \in 0..(numels - 1), list_delete_at(pos)
        PROVE  List!ExpungeRange
    BY <2>1, <2>5, DeleteAtServes
  <2>6. ASSUME NEW a \in 0..(numels - 1), NEW b \in a..(numels - 1), list_delete_range(a, b)
        PROVE  List!ExpungeRange \/ Stutters
    BY <2>1, <2>6, DeleteRangeServes
  <2>7. ASSUME NEW v \in {-1, 1}, list_sort(v)
        PROVE  List!Sort
    BY <2>7, SortServes
  <2>8. CASE list_clear \/ list_destroy \/ list_init
    BY <2>8, EmptyServes DEF List!Next
  <2>9. CASE list_iterator_start \/ list_iterator_next \/ list_iterator_stop
    BY <2>9, IterateServes DEF List!Next
  <2>10. CASE list_sort_quicksort
    BY <2>10, QuickStutters
  <2>11. CASE UNCHANGED vars
    BY <2>11 DEF vars, links, iterator, Stutters, Abs, Given, Items, Chain, InOrder
  <2> QED
    BY <2>2, <2>3, <2>4, <2>5, <2>6, <2>7, <2>8, <2>9, <2>10, <2>11 DEF Next, List!Next
<1> QED
  BY SInvHolds, <1>1, <1>2, PTL DEF Spec, Refines, List!Spec

=============================================================================
