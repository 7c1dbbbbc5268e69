---------------------------- MODULE MCSimcList -----------------------------
(* SimcList for TLC: the entries malloc gives are interchangeable.  Three  *)
(* values of data let a pivot stand between a smaller and a bigger one;    *)
(* only the shorter lists hold them all.                                   *)
EXTENDS SimcList
EntrySymmetry == Permutations(Entry)
ShortOfThree == Len(Items') > 4 => 3 \notin ToSet(Items')
=============================================================================
