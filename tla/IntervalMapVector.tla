-------------------------- MODULE IntervalMapVector -------------------------
(***************************************************************************)
(* A map from intervals to data as a vector of items that is searched by    *)
(* bisection (include/seec/DSA/IntervalMapVector.hpp), as operators on the  *)
(* vector.  Recording and replay keep the regions of memory that are known  *)
(* to be accessible in such a map.  Both ends of an interval belong to it.  *)
(***************************************************************************)
EXTENDS Integers, Sequences

Item(begin, end, data) == [Begin |-> begin, End |-> end, Value |-> data]

End == 0   \* the iterator end(), as an index

\* The number of items that do not begin after key: the iterator is one past
\* them, and std::upper_bound finds it if the items are sorted.
upper_bound(items, key) ==
  CHOOSE n \in 0..Len(items) : /\ \A i \in 1..n : items[i].Begin <= key
                               /\ \A i \in (n + 1)..Len(items) : key < items[i].Begin

\* Only the last item that does not begin after the key is looked at.
find(items, key) ==
  LET n == upper_bound(items, key)
  IN  IF n # 0 /\ key <= items[n].End THEN n ELSE End

\* Is an item inserted?  It is if the one before it ends before it begins; the
\* one after it is not looked at.
IsInserted(items, item) == find(items, item.Begin) = End

insert(items, item) ==
  LET n == upper_bound(items, item.Begin)
  IN  IF ~IsInserted(items, item) THEN items
      ELSE [i \in 1..(Len(items) + 1) |-> IF i <= n THEN items[i]
                                          ELSE IF i = n + 1 THEN item ELSE items[i - 1]]

erase(items, key) ==
  LET k == find(items, key)
  IN  IF k = End THEN items
      ELSE [i \in 1..(Len(items) - 1) |-> IF i < k THEN items[i] ELSE items[i + 1]]

-----------------------------------------------------------------------------
\* A key is in the interval of an item.
Covers(item, key) == item.Begin <= key /\ key <= item.End

\* The items are in the order of their beginnings, as the bisection expects.
BeginsAscend(items) == \A i, j \in 1..Len(items) : i < j => items[i].Begin < items[j].Begin

\* No two items have a key in common.
IsDisjoint(items) == \A i, j \in 1..Len(items) : i < j => items[i].End < items[j].Begin

\* Every item has a key.
IsProper(items) == \A i \in 1..Len(items) : items[i].Begin <= items[i].End
=============================================================================
