----------------------------- MODULE SimcList ------------------------------
(***************************************************************************)
(* simclist, the doubly linked list behind the device list and the two     *)
(* lists of every device, as it is in memory: entries between two          *)
(* sentinels, a pointer to the middle one that halves every search, and a  *)
(* stock of spare entries.  Data is never copied (copy_data = 0), and      *)
(* elements are found by reference (comparator = NULL): the list's         *)
(* defaults, and all this program uses.  Sorting takes a comparator: here  *)
(* one of numbers, of which equal ones are the same reference.             *)
(*                                                                         *)
(* The links of an entry that is in no list are never to be read: the      *)
(* model sets them to Null, so that reading them would show.               *)
(***************************************************************************)
EXTENDS Integers, Sequences, FiniteSets, SequencesExt

CONSTANTS
  Entry,      \* the entries malloc can give
  Data,       \* data references: numbers, for the comparator
  head_sentinel, tail_sentinel,
  Null,
  MaxSpare,   \* SIMCLIST_MAX_SPARE_ELEMS
  MaxLen,     \* bound on the length of the list
  UintMod,    \* 2^(width of unsigned int)
  MinQuicksort  \* SIMCLIST_MINQUICKSORTELS

ASSUME EntryAssumption ==
  /\ {head_sentinel, tail_sentinel, Null} \cap Entry = {}
  /\ head_sentinel # tail_sentinel /\ Null \notin {head_sentinel, tail_sentinel}
ASSUME SizeAssumption  ==
  /\ MaxSpare \in Nat /\ MaxLen \in Nat
  /\ UintMod \in Nat /\ UintMod \div 4 > MaxLen
ASSUME SortAssumption  == Data \subseteq Int /\ MinQuicksort \in Nat \ {0}

VARIABLES
  next, prev, data,             \* the fields of the entries and sentinels
  numels, mid,
  spareels,                     \* the spare entries; the last one is used first
  iter_active, iter_pos, iter_curentry,
  sorting,                      \* the parts that list_sort has yet to sort; the last one is next
  heap,                         \* the entries that are malloc'ed
  alive,                        \* between list_init and list_destroy
  fault                         \* the function that followed a null pointer, or "none"

links    == <<next, prev, data>>
iterator == <<iter_active, iter_pos, iter_curentry>>
vars     == <<links, numels, mid, spareels, iterator, sorting, heap, alive, fault>>

Place == Entry \cup {head_sentinel, tail_sentinel}

\* The links of the empty list; entries have none.
EmptyNext == [p \in Place |-> IF p = head_sentinel THEN tail_sentinel ELSE Null]
EmptyPrev == [p \in Place |-> IF p = tail_sentinel THEN head_sentinel ELSE Null]

Init ==
  /\ next = EmptyNext /\ prev = EmptyPrev /\ data = [p \in Place |-> Null]
  /\ numels = 0 /\ mid = Null /\ spareels = <<>>
  /\ iter_active = FALSE /\ iter_pos = 0 /\ iter_curentry = Null
  /\ sorting = <<>>
  /\ heap = {} /\ alive = TRUE /\ fault = "none"

-----------------------------------------------------------------------------
\* The entry n links away from ptr; Null once the chain has been left.
Walk(ptr, link, n) ==
  LET w[k \in 0..n] == IF k = 0 THEN ptr
                       ELSE IF w[k - 1] = Null THEN Null ELSE link[w[k - 1]]
  IN  w[n]

Middle(n) == (n - 1) \div 2

\* Position pos from the nearest of the sentinels and the middle.  An empty list
\* makes a division by zero of the fraction: it is searched from the tail.
\* Mutant: the middle is taken to be half the length.
FindPosFromHalf(pos) ==
  LET quarters == 4 * (pos + 1) IN
  IF pos < -1 \/ pos > numels THEN Null
  ELSE IF numels > 0 /\ quarters <= numels THEN Walk(head_sentinel, next, pos + 1)
  ELSE IF numels > 0 /\ quarters < 2 * numels THEN Walk(mid, prev, numels \div 2 - pos)
  ELSE IF numels > 0 /\ quarters <= 3 * numels THEN Walk(mid, next, pos - Middle(numels))
  ELSE Walk(tail_sentinel, prev, numels - pos)
list_findpos(pos) ==
  LET quarters == 4 * (pos + 1) IN
  IF pos < -1 \/ pos > numels THEN Null
  ELSE IF numels > 0 /\ quarters <= numels THEN Walk(head_sentinel, next, pos + 1)
  ELSE IF numels > 0 /\ quarters < 2 * numels THEN Walk(mid, prev, Middle(numels) - pos)
  ELSE IF numels > 0 /\ quarters <= 3 * numels THEN Walk(mid, next, pos - Middle(numels))
  ELSE Walk(tail_sentinel, prev, numels - pos)

list_get_at(pos) ==
  IF list_findpos(pos) = Null THEN Null ELSE data[list_findpos(pos)]

\* The positions of d, and the first of them.  Mutant: the last one.
Positions(d)   == {i \in 0..(numels - 1) : data[Walk(head_sentinel, next, i + 1)] = d}
LocateLast(d)  == CHOOSE i \in Positions(d) : \A j \in Positions(d) : j <= i
list_locate(d) == CHOOSE i \in Positions(d) : \A j \in Positions(d) : i <= j

\* An entry goes to the spare ones, or back to malloc when there are enough.
\* Mutant: a spare entry is freed as well.
ReleaseAnyway(e) ==
  /\ heap' = heap \ {e}
  /\ spareels' = IF Len(spareels) < MaxSpare THEN Append(spareels, e) ELSE spareels
Release(e) ==
  IF Len(spareels) < MaxSpare THEN spareels' = Append(spareels, e) /\ UNCHANGED heap
                              ELSE heap' = heap \ {e} /\ UNCHANGED spareels

\* Where the middle is after an entry was inserted at pos: n entries, linked by
\* fwd and back.  Mutant: off by one.
MidAfterInsertLate(lent, pos, n, fwd, back) ==
  IF n = 1 THEN lent
  ELSE IF n % 2 = 1 THEN (IF pos > Middle(n) THEN fwd[mid] ELSE mid)
  ELSE (IF pos <= Middle(n) THEN back[mid] ELSE mid)
MidAfterInsert(lent, pos, n, fwd, back) ==
  IF n = 1 THEN lent
  ELSE IF n % 2 = 1 THEN (IF pos >= Middle(n) THEN fwd[mid] ELSE mid)
  ELSE (IF pos <= Middle(n) THEN back[mid] ELSE mid)

\* The same before the entry at pos is dropped from n entries.
MidBeforeDrop(pos, n) ==
  IF n % 2 = 1 THEN (IF n = 1 THEN Null ELSE IF pos >= n \div 2 THEN prev[mid] ELSE mid)
  ELSE (IF pos < n \div 2 THEN next[mid] ELSE mid)

-----------------------------------------------------------------------------
\* No call is under way.
Ready == fault = "none" /\ alive /\ sorting = <<>>

\* What refuses to work on a list that is being iterated.  Mutant: nothing does.
EvenIterating == Ready
Changeable    == Ready /\ ~ iter_active

list_insert_at(d, pos) ==
  /\ Changeable
  /\ pos <= numels /\ numels < MaxLen
  /\ \E lent \in IF spareels = <<>> THEN Entry \ heap ELSE {Last(spareels)} :
       LET prec == list_findpos(pos - 1)
           succ == next[prec]
           fwd  == [next EXCEPT ![prec] = lent, ![lent] = succ]
           back == [prev EXCEPT ![lent] = prec, ![succ] = lent]
       IN  /\ next' = fwd
           /\ prev' = back
           /\ data' = [data EXCEPT ![lent] = d]
           /\ heap' = heap \cup {lent}
           /\ mid'  = MidAfterInsert(lent, pos, numels + 1, fwd, back)
  /\ spareels' = IF spareels = <<>> THEN <<>> ELSE Front(spareels)
  /\ numels' = numels + 1
  /\ UNCHANGED <<iterator, sorting, alive, fault>>

list_append(d)  == list_insert_at(d, numels)
list_prepend(d) == list_insert_at(d, 0)

\* Unlink an entry and give it up.
list_drop_elem(tmp, pos) ==
  /\ mid'  = MidBeforeDrop(pos, numels)
  /\ next' = [next EXCEPT ![prev[tmp]] = next[tmp], ![tmp] = Null]
  /\ prev' = [prev EXCEPT ![next[tmp]] = prev[tmp], ![tmp] = Null]
  /\ data' = [data EXCEPT ![tmp] = Null]
  /\ Release(tmp)

\* list_delete_at, and list_extract_at but for what it returns.
list_delete_at(pos) ==
  /\ Changeable
  /\ pos < numels
  /\ list_drop_elem(list_findpos(pos), pos)
  /\ numels' = numels - 1
  /\ UNCHANGED <<iterator, sorting, alive, fault>>

list_delete(d) == Positions(d) # {} /\ list_delete_at(list_locate(d))

\* How far list_delete_range moves the middle: the position it is to have
\* afterwards is computed with unsigned numbers, and for numdel = numels that
\* starts from -1.
MidMove(posstart, numdel) ==
  LET half  == ((numels - 1 - numdel) % UintMod) \div 2
      after == IF half < posstart THEN half ELSE (half + numdel) % UintMod
      moved == (after - Middle(numels)) % UintMod
  IN  IF moved < UintMod \div 2 THEN moved ELSE moved - UintMod

\* As many of the given entries as there is room for become spare ones.
Stock(entries) == SubSeq(entries, 1, Min({Len(entries), MaxSpare - Len(spareels)}))

list_delete_range(posstart, posend) ==
  LET first   == list_findpos(posstart)
      dropped == [i \in 1..(posend - posstart + 1) |-> Walk(first, next, i - 1)]
      before  == prev[first]
      beyond  == Walk(first, next, Len(dropped))
      move    == MidMove(posstart, Len(dropped))
      middle  == IF move > 0 THEN Walk(mid, next, Min({move, MaxLen + 2}))
                             ELSE Walk(mid, prev, Min({-move, MaxLen + 2}))
      Unset(f) == [p \in Place |-> IF p \in ToSet(dropped) THEN Null ELSE f[p]]
  IN
  /\ Changeable
  /\ posstart <= posend /\ posend < numels
  /\ IF middle = Null
     THEN fault' = "list_delete_range"
          /\ UNCHANGED <<links, numels, mid, spareels, iterator, sorting, heap, alive>>
     ELSE /\ mid'  = middle
          /\ next' = [Unset(next) EXCEPT ![before] = beyond]
          /\ prev' = [Unset(prev) EXCEPT ![beyond] = before]
          /\ data' = Unset(data)
          /\ spareels' = spareels \o Stock(dropped)
          /\ heap'   = heap \ (ToSet(dropped) \ ToSet(Stock(dropped)))
          /\ numels' = numels - Len(dropped)
          /\ UNCHANGED <<iterator, sorting, alive, fault>>

\* What list_clear leaves.
Emptied ==
  /\ next' = EmptyNext /\ prev' = EmptyPrev /\ data' = [p \in Place |-> Null]
  /\ numels' = 0 /\ mid' = Null

list_clear ==
  LET all == [i \in 1..numels |-> Walk(head_sentinel, next, i)] IN
  /\ Changeable
  /\ Emptied
  /\ spareels' = spareels \o Stock(all)
  /\ heap' = heap \ (ToSet(all) \ ToSet(Stock(all)))
  /\ UNCHANGED <<iterator, sorting, alive, fault>>

\* list_clear, which does nothing while the list is being iterated; then the
\* spare entries and the sentinels go.
list_destroy ==
  /\ Ready
  /\ heap' = IF iter_active THEN heap \ ToSet(spareels) ELSE {}
  /\ Emptied
  /\ spareels' = <<>>
  /\ alive' = FALSE
  /\ UNCHANGED <<iterator, sorting, fault>>

list_init ==
  /\ fault = "none" /\ ~ alive /\ heap = {}
  /\ alive' = TRUE
  /\ Emptied
  /\ spareels' = <<>>
  /\ iter_active' = FALSE /\ iter_pos' = 0 /\ iter_curentry' = Null
  /\ UNCHANGED <<sorting, heap, fault>>

list_iterator_start ==
  /\ Ready /\ ~ iter_active
  /\ iter_active' = TRUE /\ iter_pos' = 0 /\ iter_curentry' = next[head_sentinel]
  /\ UNCHANGED <<links, numels, mid, spareels, sorting, heap, alive, fault>>

\* After list_iterator_hasnext.
list_iterator_next ==
  /\ Ready /\ iter_active
  /\ iter_pos < numels
  /\ iter_pos' = iter_pos + 1 /\ iter_curentry' = next[iter_curentry]
  /\ UNCHANGED <<links, numels, mid, spareels, iter_active, sorting, heap, alive, fault>>

list_iterator_stop ==
  /\ Ready /\ iter_active
  /\ iter_active' = FALSE /\ iter_pos' = 0
  /\ UNCHANGED <<links, numels, mid, spareels, iter_curentry, sorting, heap, alive, fault>>

-----------------------------------------------------------------------------
(* list_sort.  A part is a stretch of the list: the positions of its ends,   *)
(* and pointers to them.  Sorting moves the data, not the entries.           *)

\* s after n turns of a loop; a turn that finds the loop's condition false changes nothing.
Repeat(Turn(_), s, n) ==
  LET after[k \in 0..n] == IF k = 0 THEN s ELSE Turn(after[k - 1]) IN after[n]

\* comparator(u, v) * -versus > 0: u is to come after v.
Late(u, v, versus) == (u - v) * versus > 0

\* Mutant: one of the two is lost.
CopiedOver(d, p, q) == [d EXCEPT ![p] = d[q]]
Exchanged(d, p, q)  == [d EXCEPT ![p] = d[q], ![q] = d[p]]

\* list_sort_selectionsort: the entry whose data is to come first, from an entry on to the end.
Foremost(d, from, part) ==
  LET Turn(s) == IF s.cursor = next[part.lel] THEN s
                 ELSE [toswap |-> IF Late(d[s.toswap], d[s.cursor], part.versus)
                                  THEN s.cursor ELSE s.toswap,
                       cursor |-> next[s.cursor]]
  IN  Repeat(Turn, [toswap |-> from, cursor |-> next[from]], numels).toswap

list_sort_selectionsort(part) ==
  LET Turn(s) == IF s.firstunsorted = part.lel THEN s
                 ELSE [data |-> Exchanged(s.data, s.firstunsorted,
                                          Foremost(s.data, s.firstunsorted, part)),
                       firstunsorted |-> next[s.firstunsorted]]
  IN  Repeat(Turn, [data |-> data, firstunsorted |-> part.fel], numels).data

\* The two ends move towards the pivot, exchanging what is on the wrong side.
Meet(s, versus) ==
  LET Ahead(p)  == IF p = s.pivot \/ Late(s.data[p], s.data[s.pivot], versus) THEN p ELSE next[p]
      Behind(p) == IF p = s.pivot \/ Late(s.data[s.pivot], s.data[p], versus) THEN p ELSE prev[p]
      l == Repeat(Ahead, s.left, numels)
      r == Repeat(Behind, s.right, numels)
  IN  IF s.left = s.pivot \/ s.right = s.pivot THEN s
      ELSE IF l = s.pivot \/ r = s.pivot THEN [s EXCEPT !.left = l, !.right = r]
      ELSE [s EXCEPT !.data = Exchanged(@, l, r), !.left = next[l], !.right = prev[r]]

\* What is left on the longer side changes places with the pivot and its neighbour, which
\* are then the other way round.  Mutant: pivotid is not counted down.
SweepLeftUncounted(s, versus) ==
  LET beside == prev[s.pivot] IN
  IF s.left = s.pivot THEN s
  ELSE IF Late(s.data[s.left], s.data[s.pivot], versus)
  THEN [s EXCEPT !.data = [@ EXCEPT ![s.left] = s.data[beside], ![beside] = s.data[s.pivot],
                                    ![s.pivot] = s.data[s.left]],
                 !.pivot = beside]
  ELSE [s EXCEPT !.left = next[@]]
SweepLeft(s, versus) ==
  LET beside == prev[s.pivot] IN
  IF s.left = s.pivot THEN s
  ELSE IF Late(s.data[s.left], s.data[s.pivot], versus)
  THEN [s EXCEPT !.data = [@ EXCEPT ![s.left] = s.data[beside], ![beside] = s.data[s.pivot],
                                    ![s.pivot] = s.data[s.left]],
                 !.pivot = beside, !.pivotid = @ - 1]
  ELSE [s EXCEPT !.left = next[@]]
SweepRight(s, versus) ==
  LET beside == next[s.pivot] IN
  IF s.right = s.pivot THEN s
  ELSE IF Late(s.data[s.pivot], s.data[s.right], versus)
  THEN [s EXCEPT !.data = [@ EXCEPT ![s.right] = s.data[beside], ![beside] = s.data[s.pivot],
                                    ![s.pivot] = s.data[s.right]],
                 !.pivot = beside, !.pivotid = @ + 1]
  ELSE [s EXCEPT !.right = prev[@]]

\* The pivot is looked for from the nearer end.
FindPivot(part, pivotid) ==
  IF pivotid < (part.last - part.first + 1) \div 2 THEN Walk(part.fel, next, pivotid)
  ELSE Walk(part.lel, prev, part.last - part.first - pivotid)

\* smaller PIVOT bigger
Split(part, pivotid) ==
  LET versus  == part.versus
      start   == [data |-> data, left |-> part.fel, right |-> part.lel,
                  pivot |-> FindPivot(part, pivotid), pivotid |-> pivotid]
      Met(s)   == Meet(s, versus)
      Left(s)  == SweepLeft(s, versus)
      Right(s) == SweepRight(s, versus)
      met     == Repeat(Met, start, numels)
  IN  IF met.right = met.pivot THEN Repeat(Left, met, numels) ELSE Repeat(Right, met, numels)

\* The parts on the two sides of the pivot, of which one may be empty: the one before it is
\* sorted first.  Mutant: the one before it takes the pivot along.
SidesWithPivot(part, s) ==
  (IF part.first + s.pivotid < part.last
   THEN <<[part EXCEPT !.first = @ + s.pivotid + 1, !.fel = next[s.pivot]]>> ELSE <<>>)
    \o (IF s.pivotid > 0
        THEN <<[part EXCEPT !.last = part.first + s.pivotid, !.lel = s.pivot]>> ELSE <<>>)
Sides(part, s) ==
  (IF part.first + s.pivotid < part.last
   THEN <<[part EXCEPT !.first = @ + s.pivotid + 1, !.fel = next[s.pivot]]>> ELSE <<>>)
    \o (IF s.pivotid > 0
        THEN <<[part EXCEPT !.last = part.first + s.pivotid - 1, !.lel = prev[s.pivot]]>>
        ELSE <<>>)

list_sort(versus) ==
  /\ Changeable
  /\ numels > 1
  /\ sorting' = <<[first |-> 0, fel |-> next[head_sentinel],
                   last |-> numels - 1, lel |-> prev[tail_sentinel], versus |-> versus]>>
  /\ UNCHANGED <<links, numels, mid, spareels, iterator, heap, alive, fault>>

\* One call of list_sort_quicksort, up to the calls it makes; get_random may give any pivot.
list_sort_quicksort ==
  /\ sorting # <<>>
  /\ LET part == Last(sorting)
         size == part.last - part.first + 1
     IN  \/ size <= 1 /\ UNCHANGED data /\ sorting' = Front(sorting)
         \/ /\ size > 1 /\ size <= MinQuicksort
            /\ data' = list_sort_selectionsort(part)
            /\ sorting' = Front(sorting)
         \/ /\ size > 1 /\ size > MinQuicksort
            /\ \E pivotid \in 0..(size - 1) : LET s == Split(part, pivotid) IN
                 /\ data' = s.data
                 /\ sorting' = Front(sorting) \o Sides(part, s)
  /\ UNCHANGED <<next, prev, numels, mid, spareels, iterator, heap, alive, fault>>

Next ==
  \/ list_init
  \/ \E d \in Data : list_append(d) \/ list_prepend(d) \/ list_delete(d)
  \/ \E d \in Data : \E pos \in 1..(numels - 1) : list_insert_at(d, pos)
  \/ \E pos \in 0..(numels - 1) : list_delete_at(pos)
  \/ \E a \in 0..(numels - 1) : \E b \in a..(numels - 1) : list_delete_range(a, b)
  \/ list_clear
  \/ \E versus \in {-1, 1} : list_sort(versus)
  \/ list_sort_quicksort
  \/ list_destroy
  \/ list_iterator_start
  \/ list_iterator_next
  \/ list_iterator_stop

Spec == Init /\ [][Next]_vars

-----------------------------------------------------------------------------
\* The entries from the head on, and what they refer to.
Chain == [i \in 1..numels |-> Walk(head_sentinel, next, i)]
Items == LET chain == Chain IN [i \in 1..numels |-> data[chain[i]]]

\* list_repOk, the representation invariant the library asserts after every
\* change: the chain is doubly linked, as long as numels says, and mid is in
\* the middle of it.
RepOk ==
  /\ prev[head_sentinel] = Null /\ next[tail_sentinel] = Null
  /\ Walk(head_sentinel, next, numels + 1) = tail_sentinel
  /\ \A i \in 0..numels : prev[Walk(head_sentinel, next, i + 1)] = Walk(head_sentinel, next, i)
  /\ mid = IF numels = 0 THEN Null ELSE Chain[Middle(numels) + 1]
  /\ Len(spareels) <= MaxSpare

\* Every shortcut through the list leads to the position that is asked for, the
\* two sentinels and the empty list included; past the end there is no item.
PositionsFound ==
  LET items == Items IN
  /\ \A pos \in -1..numels : list_findpos(pos) = Walk(head_sentinel, next, pos + 1)
  /\ \A pos \in 0..(numels - 1) : list_get_at(pos) = items[pos + 1]
  /\ \A pos \in numels..(numels + 2) : list_get_at(pos) = Null

\* Every entry that is malloc'ed is in the list or in the stock, and in one of
\* them only once: none is leaked, none is used after it is freed.
EntriesAccounted ==
  /\ alive => heap = ToSet(Chain) \cup ToSet(spareels)
  /\ ToSet(Chain) \cap ToSet(spareels) = {}
  /\ IsInjective(Chain) /\ IsInjective(spareels)
  /\ ~ alive => heap = {} \/ iter_active

\* An iteration always stands at the entry it is about to hand out.
IteratorInPlace ==
  alive /\ iter_active => iter_curentry = Walk(head_sentinel, next, iter_pos + 1)

\* While the list is sorted, every part is where it is said to be, and all pairs that are
\* not both in one part are in order already, the pivots in their places.
PartsInOrder ==
  LET chain == Chain
      items == Items
      OnePart(i, j) == \E p \in DOMAIN sorting : sorting[p].first < i /\ j <= sorting[p].last + 1
  IN  \A p \in DOMAIN sorting : LET part == sorting[p] IN
        /\ part.fel = chain[part.first + 1] /\ part.lel = chain[part.last + 1]
        /\ \A i, j \in 1..numels :
             i < j /\ ~ OnePart(i, j) => ~ Late(items[i], items[j], part.versus)

\* Every call of list_sort_quicksort leaves fewer items to sort, so the recursion ends, and
\* its depth is bounded by the length of the list.
LeftToSort(parts) == {i \in 1..numels : \E p \in DOMAIN parts :
                        parts[p].first < i /\ i <= parts[p].last + 1}
SortShrinks ==
  [][sorting # <<>> => Cardinality(LeftToSort(sorting')) < Cardinality(LeftToSort(sorting))]_vars

\* The k-th item in order: fewer than k are to come before it, and at least k not after it.
InOrder(versus) == [s \in Seq(Data) |->
  [k \in DOMAIN s |-> CHOOSE d \in ToSet(s) :
     /\ Cardinality({i \in DOMAIN s : Late(d, s[i], versus)}) < k
     /\ k <= Cardinality({i \in DOMAIN s : ~ Late(s[i], d, versus)})]]

\* The pointers implement the sequence that simclist.h promises.  A sort is one step: its
\* list_sort puts the items in order, whatever list_sort_quicksort has done of it.
List == INSTANCE ListSpec WITH
          items <- IF sorting = <<>> THEN Items ELSE InOrder(sorting[1].versus)[Items],
          given <- IF iter_active /\ alive THEN iter_pos ELSE -1
Refines == List!Spec

\* Every operation acts on the item it is asked for, though it finds it by pointers: an
\* insertion puts the item at its position, a deletion takes the item at its position, the
\* first one equal to the reference, or those of its range, and leaves the others in order.
OperationsInPlace ==
  [][/\ \A d \in Data :
          /\ \A pos \in 0..numels : list_insert_at(d, pos) => Items' = InsertAt(Items, pos + 1, d)
          /\ list_delete(d) => Items' = RemoveFirst(Items, d)
     /\ \A pos \in 0..(numels - 1) : list_delete_at(pos) => Items' = RemoveAt(Items, pos + 1)
     /\ \A a \in 0..(numels - 1) : \A b \in a..(numels - 1) :
          list_delete_range(a, b) /\ fault' = "none" =>
            Items' = SubSeq(Items, 1, a) \o SubSeq(Items, b + 2, numels)]_vars
=============================================================================
