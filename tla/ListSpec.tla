----------------------------- MODULE ListSpec ------------------------------
(***************************************************************************)
(* What simclist.h promises of a list_t: a sequence of data references     *)
(* that cannot change while it is being iterated.                          *)
(***************************************************************************)
EXTENDS Integers, FiniteSets, SequencesExt

CONSTANTS Data, MaxLen

VARIABLES
  items,    \* the data references, in order
  given     \* how many of them the iteration under way has handed out, or Off

vars == <<items, given>>

Off == -1

Init == items = <<>> /\ given = Off

\* The same references, each as often.
Times == [s \in Seq(Data) |-> [d \in Data |-> Cardinality({i \in DOMAIN s : s[i] = d})]]
SameItems(s, t) == Len(s) = Len(t) /\ Times[s] = Times[t]

\* From small to big, or from big to small.
Ordered(s, versus) == \A i \in 2..Len(s) : (s[i - 1] - s[i]) * versus <= 0

\* The list becomes one of the given ones.
Change(lists) == given = Off /\ UNCHANGED given /\ items' \in lists

Insert  == LET now == items IN
           /\ Len(now) < MaxLen
           /\ Change({InsertAt(now, p, d) : d \in Data, p \in 1..(Len(now) + 1)})
Expunge == LET now == items IN Change({RemoveFirst(now, d) : d \in ToSet(now)})
\* The items from one position to another are taken out.
ExpungeRange == LET now == items IN
  Change(UNION {{SubSeq(now, 1, a - 1) \o SubSeq(now, b + 1, Len(now)) : b \in a..Len(now)} :
                  a \in DOMAIN now})
Clear   == Change({<<>>})
Sort    == /\ given = Off /\ UNCHANGED given
           /\ LET then == items' IN
              SameItems(items, then) /\ \E versus \in {-1, 1} : Ordered(then, versus)
Restart == items' = <<>> /\ given' = Off

Start   == given = Off /\ given' = 0 /\ UNCHANGED items
Give    == given # Off /\ given < Len(items) /\ given' = given + 1 /\ UNCHANGED items
Stop    == given # Off /\ given' = Off /\ UNCHANGED items

Next == Insert \/ Expunge \/ ExpungeRange \/ Clear \/ Sort \/ Restart \/ Start \/ Give \/ Stop

Spec == Init /\ [][Next]_vars
=============================================================================
