------------------------------ MODULE Panels_proofs -----------------------------
(***************************************************************************)
(* Proofs about what is shown as text, and the data structures below it:   *)
(* sorted vectors of intervals of any length (IntervalMapVector), texts of *)
(* any length in characters of any width (TextPositions), sequences put    *)
(* together, the panel of explanations and the panel of streams.           *)
(***************************************************************************)
EXTENDS IntervalMapVector, ExplanationViewer, StreamPanel, FiniteSetTheorems, SequenceTheorems,
        WellFoundedInduction, TLAPS

--------------------------------------------------------------------------------
(***************************************************************************)
(* Induction.  The induction theorems of the library have a predicate as a *)
(* parameter; here it is the set of the numbers that have it.              *)
(***************************************************************************)
\* A set of natural numbers that is not empty has a smallest element.
LEMMA SmallestNumber ==
  ASSUME NEW T \in SUBSET Nat, T # {}
  PROVE  \E x \in T : \A y \in T : x <= y
<1> DEFINE R == OpToRel(<, Nat)
<1>1. IsWellFoundedOn(R, Nat)
  BY NatLessThanWellFounded, Zenon
<1>2. ASSUME NEW x \in Nat, NEW y \in Nat, y < x
      PROVE  <<y, x>> \in R
  BY <1>2, Zenon DEF OpToRel
<1> HIDE DEF R
<1>3. \E x \in T : \A y \in T : ~(<<y, x>> \in R)
  BY <1>1, WFMin, Zenon
<1>4. PICK x \in T : \A y \in T : ~(<<y, x>> \in R)
  BY <1>3, Zenon
<1>5. ASSUME NEW y \in T PROVE x <= y
  <2>1. x \in Nat /\ y \in Nat
    OBVIOUS
  <2>2. ~(y < x)
    BY <1>2, <1>4, <2>1, Zenon
  <2> QED BY <2>1, <2>2
<1> QED BY <1>5

\* A set of numbers that has 0, and n + 1 for each n it has, has all of them.
LEMMA SetInduction ==
  ASSUME NEW T, T \subseteq Nat, 0 \in T, \A n \in T : n + 1 \in T
  PROVE  \A n \in Nat : n \in T
<1> SUFFICES ASSUME NEW a \in Nat, a \notin T PROVE FALSE
  OBVIOUS
<1> DEFINE U == {n \in Nat : n \notin T}
<1>1. U \subseteq Nat /\ U # {}
  OBVIOUS
<1> HIDE DEF U
<1>2. PICK m \in U : \A k \in U : m <= k
  BY <1>1, SmallestNumber
<1>3. m \in Nat /\ m \notin T /\ m # 0
  BY <1>2 DEF U
<1>4. m - 1 \in Nat /\ m - 1 \notin U
  BY <1>3, <1>2, <1>1
<1>5. m - 1 \in T
  BY <1>4 DEF U
<1> QED
  BY <1>5, <1>3

--------------------------------------------------------------------------------
(* Vectors of intervals *)

-----------------------------------------------------------------------------
\* Vectors of items with data from the set D.
ItemSet(D) == [Begin : Int, End : Int, Value : D]
Vector(D) == Seq(ItemSet(D))

\* The items of a vector have ends and data.
LEMMA VectorItems ==
  ASSUME NEW D, NEW items \in Vector(D)
  PROVE  /\ Len(items) \in Nat
         /\ \A i \in 1..Len(items) : /\ items[i] \in ItemSet(D)
                                    /\ items[i].Begin \in Int /\ items[i].End \in Int
<1>1. items \in Seq(ItemSet(D))
  BY DEF Vector
<1> HIDE DEF ItemSet
<1>2. Len(items) \in Nat /\ \A i \in 1..Len(items) : items[i] \in ItemSet(D)
  BY <1>1
<1>3. ASSUME NEW x \in ItemSet(D) PROVE x.Begin \in Int /\ x.End \in Int
  BY DEF ItemSet
<1> QED BY <1>2, <1>3

\* In a sorted vector the bisection finds the place of every key.
LEMMA UpperBound ==
  ASSUME NEW D, NEW items \in Vector(D), BeginsAscend(items), NEW key \in Int
  PROVE  /\ upper_bound(items, key) \in 0..Len(items)
         /\ \A i \in 1..upper_bound(items, key) : items[i].Begin <= key
         /\ \A i \in (upper_bound(items, key) + 1)..Len(items) : key < items[i].Begin
<1> DEFINE T == {i \in 1..(Len(items) + 1) : i = Len(items) + 1 \/ key < items[i].Begin}
<1>1. /\ Len(items) \in Nat
      /\ \A i \in 1..Len(items) : items[i].Begin \in Int
  BY VectorItems
<1>2. T \in SUBSET Nat /\ T # {}
  <2>1. Len(items) + 1 \in T
    BY <1>1
  <2> QED BY <1>1, <2>1
<1>3. PICK x \in T : \A y \in T : x <= y
  BY <1>2, SmallestNumber
<1>4. x - 1 \in 0..Len(items)
  BY <1>1
<1>5. \A i \in 1..(x - 1) : items[i].Begin <= key
  <2> TAKE i \in 1..(x - 1)
  <2>1. i \in 1..Len(items) /\ i < x
    BY <1>1
  <2>2. i \notin T
    BY <1>1, <1>3, <2>1
  <2> QED BY <1>1, <2>1, <2>2
<1>6. \A i \in (x - 1 + 1)..Len(items) : key < items[i].Begin
  <2> TAKE i \in (x - 1 + 1)..Len(items)
  <2>1. x \in 1..Len(items) /\ i \in 1..Len(items) /\ x <= i
    BY <1>1
  <2>2. key < items[x].Begin
    BY <1>1, <2>1
  <2>3. x < i => items[x].Begin < items[i].Begin
    BY <2>1 DEF BeginsAscend
  <2> QED BY <1>1, <2>1, <2>2, <2>3
<1> HIDE DEF T
<1>7. \E n \in 0..Len(items) : /\ \A i \in 1..n : items[i].Begin <= key
                               /\ \A i \in (n + 1)..Len(items) : key < items[i].Begin
  BY <1>4, <1>5, <1>6
<1> QED BY <1>7 DEF upper_bound

\* Disjoint items in their order begin in that order.
LEMMA DisjointAscends ==
  ASSUME NEW D, NEW items \in Vector(D), IsDisjoint(items), IsProper(items)
  PROVE  BeginsAscend(items)
<1> SUFFICES ASSUME NEW i \in 1..Len(items), NEW j \in 1..Len(items), i < j
             PROVE  items[i].Begin < items[j].Begin
  BY DEF BeginsAscend
<1>1. /\ items[i].Begin \in Int /\ items[i].End \in Int /\ items[j].Begin \in Int
      /\ items[i].Begin <= items[i].End
      /\ items[i].End < items[j].Begin
  BY VectorItems DEF IsDisjoint, IsProper
<1> QED BY <1>1

\* find() returns the item that contains the key if one does, and end() if none
\* does: looking at the last item that does not begin after the key is enough.
THEOREM FindIsExact ==
  ASSUME NEW D, NEW items \in Vector(D), IsDisjoint(items), IsProper(items), NEW key \in Int
  PROVE  /\ find(items, key) # End => /\ find(items, key) \in 1..Len(items)
                                      /\ Covers(items[find(items, key)], key)
         /\ \A i \in 1..Len(items) : Covers(items[i], key) => find(items, key) = i
<1> DEFINE n == upper_bound(items, key)
<1>1. /\ n \in 0..Len(items)
      /\ \A i \in 1..n : items[i].Begin <= key
      /\ \A i \in (n + 1)..Len(items) : key < items[i].Begin
  BY DisjointAscends, UpperBound
<1>2. find(items, key) = IF n # 0 /\ key <= items[n].End THEN n ELSE 0
  BY DEF find, End
<1>3. /\ Len(items) \in Nat
      /\ \A i \in 1..Len(items) : items[i].Begin \in Int /\ items[i].End \in Int
  BY VectorItems
<1> HIDE DEF n
<1>4. find(items, key) # End => /\ find(items, key) \in 1..Len(items)
                                /\ Covers(items[find(items, key)], key)
  BY <1>1, <1>2, <1>3 DEF Covers, End
<1>5. ASSUME NEW i \in 1..Len(items), Covers(items[i], key)
      PROVE  find(items, key) = i
  <2>1. items[i].Begin <= key /\ key <= items[i].End
    BY <1>5 DEF Covers
  <2>2. i <= n
    BY <1>1, <1>3, <2>1
  <2>3. n \in 1..Len(items) /\ items[n].Begin <= key
    BY <1>1, <1>3, <2>2
  <2>4. i = n
    <3>1. i < n => items[i].End < items[n].Begin
      BY <2>3 DEF IsDisjoint
    <3> QED BY <1>1, <1>3, <2>1, <2>2, <2>3, <3>1
  <2> QED BY <1>2, <2>1, <2>3, <2>4
<1> QED BY <1>4, <1>5

\* An item that does not reach the next one leaves the vector disjoint, and is
\* in it unless an item contains its beginning.  (Nothing in insert() looks at
\* the next item.)
THEOREM InsertKeepsDisjoint ==
  ASSUME NEW D, NEW items \in Vector(D), IsDisjoint(items), IsProper(items),
         NEW item \in ItemSet(D), item.Begin <= item.End,
         \A i \in 1..Len(items) : item.Begin < items[i].Begin => item.End < items[i].Begin
  PROVE  /\ insert(items, item) \in Vector(D)
         /\ IsDisjoint(insert(items, item)) /\ IsProper(insert(items, item))
         /\ IsInserted(items, item) => \E k \in 1..Len(insert(items, item)) : insert(items, item)[k] = item
<1>1. CASE ~IsInserted(items, item)
  <2>1. insert(items, item) = items
    BY <1>1 DEF insert
  <2> QED BY <1>1, <2>1
<1>2. CASE IsInserted(items, item)
  <2> DEFINE key == item.Begin
             n == upper_bound(items, key)
             s == insert(items, item)
  <2>1. key \in Int /\ item.End \in Int
    BY DEF ItemSet
  <2>2. /\ Len(items) \in Nat
        /\ \A i \in 1..Len(items) : /\ items[i] \in ItemSet(D)
                                   /\ items[i].Begin \in Int /\ items[i].End \in Int
    BY VectorItems
  <2>3. /\ n \in 0..Len(items)
        /\ \A i \in 1..n : items[i].Begin <= key
        /\ \A i \in (n + 1)..Len(items) : key < items[i].Begin
    BY <2>1, DisjointAscends, UpperBound
  <2>4. s = [i \in 1..(Len(items) + 1) |-> IF i <= n THEN items[i]
                                            ELSE IF i = n + 1 THEN item ELSE items[i - 1]]
    BY <1>2 DEF insert
  <2>5. n # 0 => items[n].End < key
    <3>1. find(items, key) = 0
      BY <1>2 DEF IsInserted, End
    <3>2. ~(n # 0 /\ key <= items[n].End)
      BY <2>3, <3>1 DEF find, End
    <3> QED BY <2>1, <2>2, <2>3, <3>2
  <2> HIDE DEF n, s
  <2>6. \A i \in 1..(Len(items) + 1) : s[i] \in ItemSet(D)
    BY <2>2, <2>3, <2>4
  <2>7. s \in Seq(ItemSet(D)) /\ Len(s) = Len(items) + 1
    <3>1. Len(items) + 1 \in Nat /\ s \in [1..(Len(items) + 1) -> ItemSet(D)]
      BY <2>2, <2>4, <2>6
    <3> HIDE DEF ItemSet
    <3> QED BY <3>1
  <2>8. ASSUME NEW i \in 1..n PROVE items[i].End < key
    <3>1. n # 0 /\ n \in 1..Len(items) /\ i \in 1..Len(items)
      BY <2>2, <2>3
    <3>2. i < n => items[i].End < items[n].Begin
      BY <3>1 DEF IsDisjoint
    <3>3. items[n].Begin <= items[n].End
      BY <3>1 DEF IsProper
    <3> QED BY <2>1, <2>2, <2>3, <2>5, <3>1, <3>2, <3>3
  <2>9. ASSUME NEW i \in (n + 1)..Len(items) PROVE item.End < items[i].Begin
    <3>1. i \in 1..Len(items) /\ key < items[i].Begin
      BY <2>2, <2>3
    <3> QED BY <3>1
  <2>10. IsDisjoint(s)
    <3> SUFFICES ASSUME NEW i \in 1..Len(s), NEW j \in 1..Len(s), i < j
                 PROVE  s[i].End < s[j].Begin
      BY DEF IsDisjoint
    <3>1. i \in 1..(Len(items) + 1) /\ j \in 1..(Len(items) + 1)
      BY <2>7
    <3>2. CASE j <= n
      <4>1. s[i] = items[i] /\ s[j] = items[j] /\ i \in 1..Len(items) /\ j \in 1..Len(items)
        BY <2>2, <2>3, <2>4, <3>1, <3>2
      <4> QED BY <4>1 DEF IsDisjoint
    <3>3. CASE j = n + 1
      <4>1. s[i] = items[i] /\ s[j] = item /\ i \in 1..n
        BY <2>2, <2>3, <2>4, <3>1, <3>3
      <4> QED BY <2>8, <4>1
    <3>4. CASE j > n + 1 /\ i <= n
      <4>1. /\ s[i] = items[i] /\ s[j] = items[j - 1]
            /\ i \in 1..Len(items) /\ j - 1 \in 1..Len(items) /\ i < j - 1
        BY <2>2, <2>3, <2>4, <3>1, <3>4
      <4> QED BY <4>1 DEF IsDisjoint
    <3>5. CASE j > n + 1 /\ i = n + 1
      <4>1. s[i] = item /\ s[j] = items[j - 1] /\ j - 1 \in (n + 1)..Len(items)
        BY <2>2, <2>3, <2>4, <3>1, <3>5
      <4> QED BY <2>9, <4>1
    <3>6. CASE j > n + 1 /\ i > n + 1
      <4>1. /\ s[i] = items[i - 1] /\ s[j] = items[j - 1]
            /\ i - 1 \in 1..Len(items) /\ j - 1 \in 1..Len(items) /\ i - 1 < j - 1
        BY <2>2, <2>3, <2>4, <3>1, <3>6
      <4> QED BY <4>1 DEF IsDisjoint
    <3> QED BY <2>3, <3>1, <3>2, <3>3, <3>4, <3>5, <3>6
  <2>11. IsProper(s)
    <3> SUFFICES ASSUME NEW i \in 1..Len(s) PROVE s[i].Begin <= s[i].End
      BY DEF IsProper
    <3>1. s[i] = item \/ \E j \in 1..Len(items) : s[i] = items[j]
      <4>1. i \in 1..(Len(items) + 1)
        BY <2>7
      <4>2. i <= n => i \in 1..Len(items) /\ s[i] = items[i]
        BY <2>2, <2>3, <2>4, <4>1
      <4>3. i = n + 1 => s[i] = item
        BY <2>2, <2>3, <2>4, <4>1
      <4>4. i > n + 1 => i - 1 \in 1..Len(items) /\ s[i] = items[i - 1]
        BY <2>2, <2>3, <2>4, <4>1
      <4> QED BY <2>3, <4>1, <4>2, <4>3, <4>4
    <3> QED BY <3>1 DEF IsProper
  <2>12. n + 1 \in 1..Len(s) /\ s[n + 1] = item
    BY <2>2, <2>3, <2>4, <2>7
  <2> QED BY <2>7, <2>10, <2>11, <2>12 DEF s, Vector
<1> QED BY <1>1, <1>2

\* An item that was inserted is found at each of its keys.
THEOREM InsertedIsFound ==
  ASSUME NEW D, NEW items \in Vector(D), IsDisjoint(items), IsProper(items),
         NEW item \in ItemSet(D), item.Begin <= item.End,
         \A i \in 1..Len(items) : item.Begin < items[i].Begin => item.End < items[i].Begin,
         IsInserted(items, item), NEW key \in Int, Covers(item, key)
  PROVE  /\ find(insert(items, item), key) # End
         /\ insert(items, item)[find(insert(items, item), key)] = item
<1> DEFINE s == insert(items, item)
<1>1. s \in Vector(D) /\ IsDisjoint(s) /\ IsProper(s)
  BY InsertKeepsDisjoint
<1>2. PICK k \in 1..Len(s) : s[k] = item
  BY InsertKeepsDisjoint
<1> HIDE DEF s
<1>3. find(s, key) = k
  BY <1>1, <1>2, FindIsExact
<1>4. Len(s) \in Nat
  BY <1>1, VectorItems
<1> QED BY <1>2, <1>3, <1>4 DEF s, End

\* erase() removes the item that contains the key, so that none does, and leaves
\* the vector disjoint.
THEOREM ErasedIsGone ==
  ASSUME NEW D, NEW items \in Vector(D), IsDisjoint(items), IsProper(items), NEW key \in Int
  PROVE  /\ erase(items, key) \in Vector(D)
         /\ IsDisjoint(erase(items, key)) /\ IsProper(erase(items, key))
         /\ find(erase(items, key), key) = End
<1> DEFINE k == find(items, key)
           s == erase(items, key)
<1>1. CASE k = End
  BY <1>1 DEF erase
<1>2. CASE k # End
  <2>1. k \in 1..Len(items) /\ \A i \in 1..Len(items) : Covers(items[i], key) => i = k
    BY <1>2, FindIsExact
  <2>2. /\ Len(items) \in Nat
        /\ \A i \in 1..Len(items) : items[i] \in ItemSet(D)
    BY VectorItems
  <2>3. s = [i \in 1..(Len(items) - 1) |-> IF i < k THEN items[i] ELSE items[i + 1]]
    BY <1>2 DEF erase
  <2> HIDE DEF k, s
  <2>4. \A i \in 1..(Len(items) - 1) : s[i] \in ItemSet(D)
    BY <2>1, <2>2, <2>3
  <2>5. s \in Seq(ItemSet(D)) /\ Len(s) = Len(items) - 1
    <3>1. Len(items) - 1 \in Nat /\ s \in [1..(Len(items) - 1) -> ItemSet(D)]
      BY <2>1, <2>2, <2>3, <2>4
    <3> HIDE DEF ItemSet
    <3> QED BY <3>1
  <2>6. \A i \in 1..Len(s) :
           \/ i < k /\ i \in 1..Len(items) /\ s[i] = items[i]
           \/ i >= k /\ i + 1 \in 1..Len(items) /\ s[i] = items[i + 1]
    BY <2>1, <2>2, <2>3, <2>5
  <2>7. IsDisjoint(s)
    <3> SUFFICES ASSUME NEW i \in 1..Len(s), NEW j \in 1..Len(s), i < j
                 PROVE  s[i].End < s[j].Begin
      BY DEF IsDisjoint
    <3>1. CASE j < k
      <4>1. s[i] = items[i] /\ s[j] = items[j] /\ i \in 1..Len(items) /\ j \in 1..Len(items)
        BY <2>1, <2>5, <2>6, <3>1
      <4> QED BY <4>1 DEF IsDisjoint
    <3>2. CASE i < k /\ j >= k
      <4>1. /\ s[i] = items[i] /\ s[j] = items[j + 1]
            /\ i \in 1..Len(items) /\ j + 1 \in 1..Len(items) /\ i < j + 1
        BY <2>1, <2>5, <2>6, <3>2
      <4> QED BY <4>1 DEF IsDisjoint
    <3>3. CASE i >= k
      <4>1. /\ s[i] = items[i + 1] /\ s[j] = items[j + 1]
            /\ i + 1 \in 1..Len(items) /\ j + 1 \in 1..Len(items) /\ i + 1 < j + 1
        BY <2>1, <2>5, <2>6, <3>3
      <4> QED BY <4>1 DEF IsDisjoint
    <3> QED BY <2>1, <2>5, <3>1, <3>2, <3>3
  <2>8. IsProper(s)
    BY <2>6 DEF IsProper
  <2>9. \A i \in 1..Len(s) : ~Covers(s[i], key)
    <3> TAKE i \in 1..Len(s)
    <3>0. k \in Int /\ i \in Int
      BY <2>1, <2>5
    <3>1. PICK j \in 1..Len(items) : s[i] = items[j] /\ j # k
      <4>1. CASE i < k /\ i \in 1..Len(items) /\ s[i] = items[i]
        BY <3>0, <4>1
      <4>2. CASE i >= k /\ i + 1 \in 1..Len(items) /\ s[i] = items[i + 1]
        BY <3>0, <4>2
      <4> QED BY <2>6, <4>1, <4>2
    <3> QED BY <2>1, <3>1
  <2>10. s \in Vector(D)
    BY <2>5 DEF Vector
  <2>11. find(s, key) = End
    BY <2>7, <2>8, <2>9, <2>10, FindIsExact
  <2> QED BY <2>7, <2>8, <2>10, <2>11 DEF s
<1> QED BY <1>1, <1>2

--------------------------------------------------------------------------------
(* Texts *)

\* The least and the greatest element of a set.
LEMMA MinIs ==
  ASSUME NEW S, S \subseteq Int, NEW x \in S, \A y \in S : x <= y
  PROVE  Min(S) = x
<1>1. \E z \in S : \A y \in S : z <= y
  OBVIOUS
<1> DEFINE z == Min(S)
<1>2. z \in S /\ \A y \in S : z <= y
  BY <1>1 DEF Min
<1> HIDE DEF z
<1>3. z \in Int /\ x \in Int /\ z <= x /\ x <= z
  BY <1>2
<1>4. z = x
  BY <1>3
<1> QED
  BY <1>4 DEF z

LEMMA MaxIs ==
  ASSUME NEW S, S \subseteq Int, NEW x \in S, \A y \in S : x >= y
  PROVE  Max(S) = x
<1>1. \E z \in S : \A y \in S : z >= y
  OBVIOUS
<1> DEFINE z == Max(S)
<1>2. z \in S /\ \A y \in S : z >= y
  BY <1>1 DEF Max
<1> HIDE DEF z
<1>3. z \in Int /\ x \in Int /\ z >= x /\ x >= z
  BY <1>2
<1>4. z = x
  BY <1>3
<1> QED
  BY <1>4 DEF z

LEMMA MinExists ==
  ASSUME NEW S, S \subseteq Nat, S # {}
  PROVE  Min(S) \in S /\ \A y \in S : Min(S) <= y
<1>1. \E z \in S : \A y \in S : z <= y
  BY SmallestNumber
<1> QED
  BY <1>1 DEF Min

LEMMA MaxExists ==
  ASSUME NEW S, S \subseteq Nat, S # {}, NEW n \in Nat, \A x \in S : x <= n
  PROVE  Max(S) \in S /\ \A y \in S : Max(S) >= y
<1> DEFINE D == {n - x : x \in S}
<1>1. D \subseteq Nat /\ D # {}
  OBVIOUS
<1>2. PICK d \in D : \A e \in D : d <= e
  <2> HIDE DEF D
  <2> QED BY <1>1, SmallestNumber
<1>3. PICK x \in S : d = n - x
  OBVIOUS
<1>4. ASSUME NEW y \in S PROVE x >= y
  <2>1. n - y \in D
    OBVIOUS
  <2>2. n - x <= n - y /\ x \in Nat /\ y \in Nat
    BY <2>1, <1>2, <1>3
  <2> QED
    BY <2>2
<1>5. \E z \in S : \A y \in S : z >= y
  BY <1>4
<1> QED
  BY <1>5 DEF Max

--------------------------------------------------------------------------------
(***************************************************************************)
(* Positions in a text.  Every character has a width.                      *)
(***************************************************************************)
HasWidths(t) == Len(t) \in Nat /\ \A i \in 1..Len(t) : t[i].width \in Nat \ {0}

IsSum(f, t, n) == f = [k \in 0..n |-> IF k = 0 THEN 0 ELSE f[k - 1] + t[k].width]
SumTo(t, n) == CHOOSE f : IsSum(f, t, n)

LEMMA OffsetIsSum == ASSUME NEW t, NEW n PROVE Offset(t, n) = SumTo(t, n)[n]
BY DEF Offset, SumTo, IsSum

LEMMA SumExists ==
  ASSUME NEW t PROVE \A n \in Nat : \E f : IsSum(f, t, n)
<1> DEFINE T == {n \in Nat : \E f : IsSum(f, t, n)}
<1>1. 0 \in T
  <2> DEFINE g == [k \in 0..0 |-> 0]
  <2>1. IsSum(g, t, 0)
    BY DEF IsSum
  <2> QED BY <2>1
<1>2. ASSUME NEW n \in T PROVE n + 1 \in T
  <2>1. PICK f : IsSum(f, t, n)
    BY <1>2
  <2> DEFINE g == [k \in 0..(n + 1) |-> IF k = n + 1 THEN f[n] + t[n + 1].width ELSE f[k]]
  <2>2. n \in Nat /\ n + 1 \in Nat
    BY <1>2
  <2>3. ASSUME NEW k \in 0..(n + 1) PROVE g[k] = IF k = 0 THEN 0 ELSE g[k - 1] + t[k].width
    BY <2>1, <2>2 DEF IsSum
  <2>4. IsSum(g, t, n + 1)
    BY <2>3 DEF IsSum
  <2>5. \E h : IsSum(h, t, n + 1)
    <3> HIDE DEF g
    <3> QED BY <2>4
  <2> QED BY <2>5, <2>2
<1> HIDE DEF T
<1>3. T \subseteq Nat
  BY DEF T
<1>4. \A n \in Nat : n \in T
  BY <1>1, <1>2, <1>3, SetInduction
<1> QED BY <1>4 DEF T

LEMMA SumIs ==
  ASSUME NEW t, NEW n \in Nat
  PROVE  /\ SumTo(t, n)[0] = 0
         /\ \A k \in 1..n : SumTo(t, n)[k] = SumTo(t, n)[k - 1] + t[k].width
<1> DEFINE f == SumTo(t, n)
<1>1. \E g : IsSum(g, t, n)
  BY SumExists
<1>2. IsSum(f, t, n)
  BY <1>1 DEF SumTo
<1> HIDE DEF f
<1>3. f = [k \in 0..n |-> IF k = 0 THEN 0 ELSE f[k - 1] + t[k].width]
  BY <1>2 DEF IsSum
<1>4. f[0] = 0
  BY <1>3
<1>5. ASSUME NEW k \in 1..n PROVE f[k] = f[k - 1] + t[k].width
  <2>1. k \in 0..n /\ k # 0
    OBVIOUS
  <2> QED BY <2>1, <1>3
<1> QED BY <1>4, <1>5 DEF f

LEMMA SumExtends ==
  ASSUME NEW t, NEW n \in Nat
  PROVE  \A k \in Nat : k <= n => SumTo(t, n + 1)[k] = SumTo(t, n)[k]
<1> DEFINE f == SumTo(t, n)
           g == SumTo(t, n + 1)
           T == {k \in Nat : k <= n => g[k] = f[k]}
<1>1. /\ f[0] = 0
      /\ \A k \in 1..n : f[k] = f[k - 1] + t[k].width
  BY SumIs
<1>2. /\ g[0] = 0
      /\ \A k \in 1..(n + 1) : g[k] = g[k - 1] + t[k].width
  <2>1. n + 1 \in Nat
    OBVIOUS
  <2> QED BY <2>1, SumIs
<1> HIDE DEF f, g
<1>3. 0 \in T
  BY <1>1, <1>2
<1>4. ASSUME NEW k \in T PROVE k + 1 \in T
  <2>1. k \in Nat
    OBVIOUS
  <2>2. CASE k + 1 <= n
    <3>1. k + 1 \in 1..n /\ k + 1 \in 1..(n + 1) /\ (k + 1) - 1 = k /\ k <= n
      BY <2>1, <2>2
    <3>2. g[k] = f[k]
      BY <3>1
    <3>3. g[k + 1] = g[k] + t[k + 1].width /\ f[k + 1] = f[k] + t[k + 1].width
      BY <3>1, <1>1, <1>2
    <3> QED BY <3>2, <3>3, <2>1
  <2>3. CASE ~(k + 1 <= n)
    BY <2>1, <2>3
  <2> QED BY <2>2, <2>3
<1>5. \A k \in Nat : k \in T
  <2>1. T \subseteq Nat
    OBVIOUS
  <2> HIDE DEF T
  <2> QED BY <2>1, <1>3, <1>4, SetInduction
<1> QED BY <1>5 DEF f, g

\* The offset of the first character is 0, that of the next one is a width more.
LEMMA OffsetStep ==
  ASSUME NEW t
  PROVE  /\ Offset(t, 0) = 0
         /\ \A n \in Nat : Offset(t, n + 1) = Offset(t, n) + t[n + 1].width
<1>1. Offset(t, 0) = 0
  <2>1. SumTo(t, 0)[0] = 0
    BY SumIs
  <2> QED BY <2>1, OffsetIsSum
<1>2. ASSUME NEW n \in Nat PROVE Offset(t, n + 1) = Offset(t, n) + t[n + 1].width
  <2>1. n + 1 \in Nat /\ n + 1 \in 1..(n + 1) /\ (n + 1) - 1 = n /\ n <= n
    OBVIOUS
  <2>2. SumTo(t, n + 1)[n + 1] = SumTo(t, n + 1)[n] + t[n + 1].width
    <3>1. \A k \in 1..(n + 1) : SumTo(t, n + 1)[k] = SumTo(t, n + 1)[k - 1] + t[k].width
      BY <2>1, SumIs
    <3> QED BY <3>1, <2>1
  <2>3. SumTo(t, n + 1)[n] = SumTo(t, n)[n]
    BY <2>1, SumExtends
  <2> QED BY <2>2, <2>3, OffsetIsSum
<1> QED BY <1>1, <1>2

LEMMA OffsetType ==
  ASSUME NEW t, HasWidths(t)
  PROVE  \A n \in 0..Len(t) : Offset(t, n) \in Nat
<1> DEFINE T == {n \in Nat : n <= Len(t) => Offset(t, n) \in Nat}
<1>1. 0 \in T
  BY OffsetStep
<1>2. ASSUME NEW n \in T PROVE n + 1 \in T
  <2>1. n \in Nat
    OBVIOUS
  <2>2. CASE n + 1 <= Len(t)
    <3>1. n <= Len(t) /\ n + 1 \in 1..Len(t)
      BY <2>1, <2>2 DEF HasWidths
    <3>2. Offset(t, n + 1) = Offset(t, n) + t[n + 1].width
      BY <2>1, OffsetStep
    <3>3. Offset(t, n) \in Nat /\ t[n + 1].width \in Nat
      BY <3>1 DEF HasWidths
    <3> QED BY <3>2, <3>3, <2>1
  <2> QED BY <2>1, <2>2
<1>3. \A n \in Nat : n \in T
  <2>1. T \subseteq Nat
    OBVIOUS
  <2> HIDE DEF T
  <2> QED BY <2>1, <1>1, <1>2, SetInduction
<1> QED BY <1>3 DEF HasWidths

\* Every character takes at least one byte.
LEMMA OffsetGrows ==
  ASSUME NEW t, HasWidths(t), NEW m \in 0..Len(t)
  PROVE  \A n \in m..Len(t) : Offset(t, m) + (n - m) <= Offset(t, n)
<1> DEFINE T == {d \in Nat : m + d <= Len(t) => Offset(t, m) + d <= Offset(t, m + d)}
<1>0. m \in Nat /\ Len(t) \in Nat /\ \A n \in 0..Len(t) : Offset(t, n) \in Nat
  BY OffsetType DEF HasWidths
<1>1. 0 \in T
  <2>1. m + 0 = m /\ Offset(t, m) \in Nat
    BY <1>0
  <2> QED BY <2>1
<1>2. ASSUME NEW d \in T PROVE d + 1 \in T
  <2>1. d \in Nat
    OBVIOUS
  <2>2. CASE m + (d + 1) <= Len(t)
    <3>1. m + d \in Nat /\ m + d <= Len(t) /\ (m + d) + 1 \in 1..Len(t) /\ m + (d + 1) = (m + d) + 1
          /\ m + d \in 0..Len(t)
      BY <2>1, <2>2, <1>0
    <3> DEFINE w == t[(m + d) + 1].width
               a == Offset(t, m)
               b == Offset(t, m + d)
    <3>2. Offset(t, (m + d) + 1) = b + w
      BY <3>1, OffsetStep
    <3>3. w \in Nat \ {0}
      BY <3>1 DEF HasWidths
    <3>4. a \in Nat /\ b \in Nat /\ a + d <= b
      BY <3>1, <1>0
    <3>5. a + (d + 1) <= b + w
      <4> HIDE DEF a, b, w
      <4> QED BY <3>3, <3>4, <2>1
    <3>6. a + (d + 1) <= Offset(t, m + (d + 1))
      BY <3>5, <3>2, <3>1
    <3> QED BY <3>6, <2>1
  <2> QED BY <2>1, <2>2
<1>3. \A d \in Nat : d \in T
  <2>1. T \subseteq Nat
    OBVIOUS
  <2> HIDE DEF T
  <2> QED BY <2>1, <1>1, <1>2, SetInduction
<1>4. ASSUME NEW n \in m..Len(t) PROVE Offset(t, m) + (n - m) <= Offset(t, n)
  <2>1. n - m \in Nat /\ m + (n - m) = n /\ n <= Len(t)
    BY <1>0
  <2>2. n - m \in T
    BY <2>1, <1>3
  <2> QED BY <2>1, <2>2
<1> QED BY <1>4

LEMMA OffsetOrder ==
  ASSUME NEW t, HasWidths(t), NEW m \in 0..Len(t), NEW n \in 0..Len(t)
  PROVE  /\ m < n <=> Offset(t, m) < Offset(t, n)
         /\ m = n <=> Offset(t, m) = Offset(t, n)
         /\ n <= Offset(t, n)
<1> DEFINE a == Offset(t, m)
           b == Offset(t, n)
<1>1. a \in Nat /\ b \in Nat /\ m \in Nat /\ n \in Nat /\ Len(t) \in Nat
  BY OffsetType DEF HasWidths
<1>2. m <= n => a + (n - m) <= b
  <2>1. ASSUME m <= n PROVE a + (n - m) <= b
    <3>1. n \in m..Len(t)
      BY <2>1, <1>1
    <3> QED BY <3>1, OffsetGrows
  <2> QED BY <2>1
<1>3. n <= m => b + (m - n) <= a
  <2>1. ASSUME n <= m PROVE b + (m - n) <= a
    <3>1. m \in n..Len(t)
      BY <2>1, <1>1
    <3> QED BY <3>1, OffsetGrows
  <2> QED BY <2>1
<1>4. n <= b
  <2>1. 0 \in 0..Len(t) /\ n \in 0..Len(t) /\ Offset(t, 0) = 0
    BY <1>1, OffsetStep
  <2>2. Offset(t, 0) + (n - 0) <= Offset(t, n)
    BY <2>1, OffsetGrows
  <2> QED BY <2>1, <2>2, <1>1
<1>5. (m < n <=> a < b) /\ (m = n <=> a = b)
  <2> HIDE DEF a, b
  <2> QED BY <1>1, <1>2, <1>3
<1> QED BY <1>4, <1>5

LEMMA PositionAfterIs ==
  ASSUME NEW t, HasWidths(t), NEW k \in Nat, k < Len(t)
  PROVE  PositionAfter(t, Offset(t, k)) = Offset(t, k + 1)
<1> DEFINE S == {Length(t)} \cup {b \in Boundaries(t) : b > Offset(t, k)}
           x == Offset(t, k + 1)
<1>0. Len(t) \in Nat /\ k \in 0..Len(t) /\ k + 1 \in 0..Len(t) /\ Len(t) \in 0..Len(t)
  BY DEF HasWidths
<1>1. \A n \in 0..Len(t) : Offset(t, n) \in Nat
  BY OffsetType
<1>2. ASSUME NEW y \in S PROVE \E n \in (k + 1)..Len(t) : y = Offset(t, n)
  <2>1. CASE y = Length(t)
    <3>1. Len(t) \in (k + 1)..Len(t)
      BY <1>0
    <3> QED BY <2>1, <3>1 DEF Length
  <2>2. CASE y \in Boundaries(t) /\ y > Offset(t, k)
    <3>1. PICK n \in 0..Len(t) : y = Offset(t, n)
      BY <2>2 DEF Boundaries
    <3>2. Offset(t, k) < Offset(t, n)
      BY <3>1, <2>2, <1>0, <1>1
    <3>3. k < n
      BY <3>2, <1>0, OffsetOrder
    <3>4. n \in (k + 1)..Len(t)
      BY <3>3, <1>0
    <3> QED BY <3>1, <3>4
  <2> QED BY <2>1, <2>2
<1>3. S \subseteq Int
  <2>1. ASSUME NEW y \in S PROVE y \in Int
    <3>1. PICK n \in (k + 1)..Len(t) : y = Offset(t, n)
      BY <1>2
    <3>2. n \in 0..Len(t)
      BY <1>0
    <3> QED BY <3>1, <3>2, <1>1
  <2> QED BY <2>1
<1>4. x \in S
  <2>1. k < k + 1
    BY <1>0
  <2>2. Offset(t, k) < x
    BY <2>1, <1>0, OffsetOrder
  <2>3. x > Offset(t, k)
    BY <2>2, <1>1, <1>0
  <2> QED BY <2>3, <1>0 DEF Boundaries
<1>5. ASSUME NEW y \in S PROVE x <= y
  <2>1. PICK n \in (k + 1)..Len(t) : y = Offset(t, n)
    BY <1>2
  <2>2. n \in 0..Len(t) /\ (k + 1 < n \/ k + 1 = n)
    BY <1>0
  <2>3. x < y \/ x = y
    BY <2>1, <2>2, <1>0, OffsetOrder
  <2>4. x \in Nat /\ y \in Nat
    BY <2>1, <2>2, <1>0, <1>1
  <2> QED BY <2>3, <2>4
<1>6. Min(S) = x
  <2> HIDE DEF S, x
  <2> QED BY <1>3, <1>4, <1>5, MinIs
<1> QED BY <1>6 DEF PositionAfter

--------------------------------------------------------------------------------
IsAfter(f, t, p, n) == f = [i \in 0..n |-> IF i = 0 THEN p ELSE PositionAfter(t, f[i - 1])]
AfterTo(t, p, n) == CHOOSE f : IsAfter(f, t, p, n)

\* Moving on by n characters gets n characters further.
LEMMA AfterIs ==
  ASSUME NEW t, HasWidths(t), NEW k \in Nat, NEW n \in Nat, k + n <= Len(t)
  PROVE  After(t, Offset(t, k), n) = Offset(t, k + n)
<1> DEFINE p == Offset(t, k)
           g == [i \in 0..n |-> Offset(t, k + i)]
           f == AfterTo(t, p, n)
<1>0. Len(t) \in Nat
  BY DEF HasWidths
<1>1. IsAfter(g, t, p, n)
  <2>1. ASSUME NEW i \in 0..n PROVE g[i] = IF i = 0 THEN p ELSE PositionAfter(t, g[i - 1])
    <3>1. CASE i = 0
      <4>1. k + 0 = k
        OBVIOUS
      <4> QED BY <3>1, <4>1
    <3>2. CASE i # 0
      <4>1. i - 1 \in 0..n /\ k + (i - 1) \in Nat /\ k + (i - 1) < Len(t) /\ (k + (i - 1)) + 1 = k + i
        BY <3>2, <1>0
      <4>2. PositionAfter(t, Offset(t, k + (i - 1))) = Offset(t, (k + (i - 1)) + 1)
        BY <4>1, PositionAfterIs
      <4>3. g[i - 1] = Offset(t, k + (i - 1)) /\ g[i] = Offset(t, k + i)
        BY <4>1
      <4> QED BY <4>1, <4>2, <4>3, <3>2
    <3> QED BY <3>1, <3>2
  <2> QED BY <2>1 DEF IsAfter
<1>2. IsAfter(f, t, p, n)
  <2>1. \E h : IsAfter(h, t, p, n)
    <3> HIDE DEF g, p
    <3> QED BY <1>1
  <2> HIDE DEF p
  <2> QED BY <2>1 DEF AfterTo
<1>3. After(t, p, n) = f[n]
  BY DEF After, AfterTo, IsAfter
<1> DEFINE T == {i \in Nat : i <= n => f[i] = g[i]}
<1>4. /\ f[0] = p /\ g[0] = p
      /\ \A i \in 1..n : f[i] = PositionAfter(t, f[i - 1]) /\ g[i] = PositionAfter(t, g[i - 1])
  <2> HIDE DEF f, g, p
  <2>1. \A h : IsAfter(h, t, p, n) => h[0] = p /\ \A i \in 1..n : h[i] = PositionAfter(t, h[i - 1])
    <3> TAKE h
    <3> HAVE IsAfter(h, t, p, n)
    <3>1. h = [i \in 0..n |-> IF i = 0 THEN p ELSE PositionAfter(t, h[i - 1])]
      BY DEF IsAfter
    <3>2. ASSUME NEW i \in 0..n PROVE h[i] = IF i = 0 THEN p ELSE PositionAfter(t, h[i - 1])
      BY <3>1
    <3>3. 0 \in 0..n /\ \A i \in 1..n : i \in 0..n /\ i # 0
      OBVIOUS
    <3> QED BY <3>2, <3>3
  <2> QED BY <2>1, <1>1, <1>2
<1>5. f[n] = g[n]
  <2> HIDE DEF f, g, p
  <2>1. 0 \in T
    BY <1>4
  <2>2. ASSUME NEW i \in T PROVE i + 1 \in T
    <3>1. i \in Nat
      OBVIOUS
    <3>2. CASE i + 1 <= n
      <4>1. i + 1 \in 1..n /\ (i + 1) - 1 = i /\ i <= n
        BY <3>1, <3>2
      <4>2. f[i] = g[i]
        BY <4>1
      <4>3. f[i + 1] = PositionAfter(t, f[i]) /\ g[i + 1] = PositionAfter(t, g[i])
        BY <4>1, <1>4
      <4> QED BY <4>2, <4>3, <3>1
    <3> QED BY <3>1, <3>2
  <2>3. T \subseteq Nat
    OBVIOUS
  <2> HIDE DEF T
  <2>4. \A i \in Nat : i \in T
    BY <2>1, <2>2, <2>3, SetInduction
  <2>5. n <= n
    OBVIOUS
  <2> QED BY <2>4, <2>5 DEF T
<1>6. g[n] = Offset(t, k + n)
  OBVIOUS
<1> QED BY <1>3, <1>5, <1>6

\* As many characters are counted as there are between two positions.
LEMMA CountIs ==
  ASSUME NEW t, HasWidths(t), NEW i \in Nat, NEW j \in Nat, i <= j, j <= Len(t)
  PROVE  CountCharacters(t, Offset(t, i), Offset(t, j)) = j - i
<1> DEFINE S == {x \in Boundaries(t) : Offset(t, i) <= x /\ x < Offset(t, j)}
           f == [k \in 1..(j - i) |-> Offset(t, (i + k) - 1)]
<1>0. Len(t) \in Nat /\ i \in 0..Len(t) /\ j \in 0..Len(t) /\ j - i \in Nat
  BY DEF HasWidths
<1>1. \A n \in 0..Len(t) : Offset(t, n) \in Nat
  BY OffsetType
<1>2. ASSUME NEW k \in 1..(j - i)
      PROVE  (i + k) - 1 \in 0..Len(t) /\ i <= (i + k) - 1 /\ (i + k) - 1 < j
  BY <1>0
<1>3. ASSUME NEW n \in 0..Len(t)
      PROVE  Offset(t, n) \in S <=> i <= n /\ n < j
  <2>1. Offset(t, n) \in Boundaries(t)
    BY DEF Boundaries
  <2>2. (n < j <=> Offset(t, n) < Offset(t, j)) /\ (n < i <=> Offset(t, n) < Offset(t, i))
    BY <1>0, OffsetOrder
  <2>3. (Offset(t, i) <= Offset(t, n) <=> ~(Offset(t, n) < Offset(t, i))) /\ (i <= n <=> ~(n < i))
    BY <1>0, <1>1
  <2> QED BY <2>1, <2>2, <2>3
<1>4. f \in [1..(j - i) -> S]
  <2>1. ASSUME NEW k \in 1..(j - i) PROVE Offset(t, (i + k) - 1) \in S
    <3> HIDE DEF S
    <3> QED BY <1>2, <1>3
  <2> HIDE DEF S
  <2> QED BY <2>1
<1>5. ASSUME NEW a \in 1..(j - i), NEW b \in 1..(j - i), f[a] = f[b] PROVE a = b
  <2>1. Offset(t, (i + a) - 1) = Offset(t, (i + b) - 1)
    BY <1>5
  <2>2. (i + a) - 1 \in 0..Len(t) /\ (i + b) - 1 \in 0..Len(t)
    BY <1>2
  <2>3. (i + a) - 1 = (i + b) - 1
    BY <2>1, <2>2, OffsetOrder
  <2> QED BY <2>3, <1>0
<1>6. ASSUME NEW x \in S PROVE \E k \in 1..(j - i) : f[k] = x
  <2>1. PICK n \in 0..Len(t) : x = Offset(t, n)
    BY DEF Boundaries
  <2>2. i <= n /\ n < j
    <3> HIDE DEF S
    <3> QED BY <2>1, <1>3
  <2>3. (n - i) + 1 \in 1..(j - i) /\ (i + ((n - i) + 1)) - 1 = n
    BY <2>2, <1>0
  <2>4. f[(n - i) + 1] = x
    BY <2>3, <2>1
  <2> QED BY <2>3, <2>4
<1>7. ExistsBijection(1..(j - i), S)
  <2> HIDE DEF f, S
  <2>1. f \in Bijection(1..(j - i), S)
    BY <1>4, <1>5, <1>6 DEF Bijection, Injection, Surjection, IsInjective
  <2> QED BY <2>1 DEF ExistsBijection
<1>8. Cardinality(S) = j - i
  <2> HIDE DEF S
  <2> QED BY <1>7, <1>0, FS_CountingElements
<1> QED BY <1>8 DEF CountCharacters

(***************************************************************************)
(* The bytes of a range of characters are found exactly, whatever the      *)
(* widths of the characters: the guess that getPositionsForCharacterRange  *)
(* starts from is always the position of a character that does not come    *)
(* after the first one, and counting on from there ends at the range.      *)
(***************************************************************************)
THEOREM CharacterRangesAreExact ==
  ASSUME NEW t, HasWidths(t), NEW start \in 0..Len(t), NEW end \in start..Len(t)
  PROVE  getPositionsForCharacterRange(t, start, end) = <<Offset(t, start), Offset(t, end)>>
<1> DEFINE S == {0} \cup {b \in Boundaries(t) : b < start}
           guess == PositionBefore(t, start)
           counted == CountCharacters(t, 0, guess)
           first == After(t, guess, start - counted)
<1>0. Len(t) \in Nat /\ start \in Nat /\ end \in Nat /\ end - start \in Nat /\ start <= end /\ end <= Len(t)
  BY DEF HasWidths
<1>1. \A n \in 0..Len(t) : Offset(t, n) \in Nat
  BY OffsetType
<1>2. \A b \in S : b \in Boundaries(t) /\ b \in Nat /\ b <= start
  <2>1. 0 \in Boundaries(t) /\ 0 <= start
    BY <1>0, OffsetStep DEF Boundaries
  <2>2. \A b \in Boundaries(t) : b \in Nat
    BY <1>1 DEF Boundaries
  <2> QED BY <2>1, <2>2, <1>0
<1>3. guess \in Boundaries(t) /\ guess <= start
  <2>1. 0 \in S /\ guess = Max(S)
    BY DEF PositionBefore
  <2> HIDE DEF S, guess
  <2>2. S \subseteq Nat /\ S # {} /\ \A x \in S : x <= start
    BY <2>1, <1>2
  <2>3. Max(S) \in S
    BY <2>2, <1>0, MaxExists
  <2> QED BY <2>1, <2>3, <1>2
<1>4. PICK g \in 0..Len(t) : guess = Offset(t, g)
  BY <1>3 DEF Boundaries
<1> HIDE DEF guess
<1>5. g \in Nat /\ g <= start /\ start - g \in Nat /\ g + (start - g) = start /\ g <= Len(t)
  <2>1. g <= Offset(t, g)
    BY OffsetOrder
  <2>2. Offset(t, g) \in Nat /\ Offset(t, g) <= start
    BY <1>1, <1>3, <1>4
  <2>3. g \in Nat
    BY <1>0
  <2> QED BY <2>1, <2>2, <2>3, <1>0
<1>6. counted = g
  <2>1. CountCharacters(t, Offset(t, 0), Offset(t, g)) = g - 0
    <3>1. 0 \in Nat /\ 0 <= g
      BY <1>5
    <3> QED BY <3>1, <1>5, CountIs
  <2>2. Offset(t, 0) = 0
    BY OffsetStep
  <2> QED BY <2>1, <2>2, <1>4, <1>5
<1> HIDE DEF counted
<1>7. first = Offset(t, start)
  <2>1. After(t, Offset(t, g), start - g) = Offset(t, g + (start - g))
    BY <1>5, <1>0, AfterIs
  <2> QED BY <2>1, <1>4, <1>5, <1>6
<1> HIDE DEF first
<1>8. After(t, first, end - start) = Offset(t, end)
  <2>1. start + (end - start) = end
    BY <1>0
  <2>2. After(t, Offset(t, start), end - start) = Offset(t, start + (end - start))
    BY <2>1, <1>0, AfterIs
  <2> QED BY <2>1, <2>2, <1>7
<1> QED
  BY <1>7, <1>8 DEF getPositionsForCharacterRange, first, counted, guess

\* Texts that begin alike have their characters at the same places.
LEMMA OffsetPrefix ==
  ASSUME NEW t, NEW u, NEW n \in Nat, \A i \in 1..n : t[i].width = u[i].width
  PROVE  \A k \in 0..n : Offset(t, k) = Offset(u, k)
<1> DEFINE T == {k \in Nat : k <= n => Offset(t, k) = Offset(u, k)}
<1>1. 0 \in T
  BY OffsetStep
<1>2. ASSUME NEW k \in T PROVE k + 1 \in T
  <2>1. k \in Nat
    OBVIOUS
  <2>2. CASE k + 1 <= n
    <3>1. k <= n /\ k + 1 \in 1..n
      BY <2>1, <2>2
    <3>2. Offset(t, k) = Offset(u, k) /\ t[k + 1].width = u[k + 1].width
      BY <3>1
    <3>3. Offset(t, k + 1) = Offset(t, k) + t[k + 1].width
      BY <2>1, OffsetStep
    <3>4. Offset(u, k + 1) = Offset(u, k) + u[k + 1].width
      BY <2>1, OffsetStep
    <3> QED BY <3>2, <3>3, <3>4, <2>1
  <2> QED BY <2>1, <2>2
<1>3. \A k \in Nat : k \in T
  <2>1. T \subseteq Nat
    OBVIOUS
  <2> HIDE DEF T
  <2> QED BY <2>1, <1>1, <1>2, SetInduction
<1> QED BY <1>3

\* The bytes of a character, and of the characters of a range.
CharBytes(t, k) == Offset(t, k)..Offset(t, k + 1) - 1

LEMMA RangeBytes ==
  ASSUME NEW t, HasWidths(t), NEW a \in 0..Len(t)
  PROVE  \A b \in a..Len(t) : Offset(t, a)..Offset(t, b) - 1 = UNION {CharBytes(t, k) : k \in a..b - 1}
<1> DEFINE U(b) == UNION {CharBytes(t, k) : k \in a..b - 1}
           T == {d \in Nat : a + d <= Len(t) => Offset(t, a)..Offset(t, a + d) - 1 = U(a + d)}
<1>0. Len(t) \in Nat /\ a \in Nat /\ \A n \in 0..Len(t) : Offset(t, n) \in Nat
  BY OffsetType DEF HasWidths
<1>1. 0 \in T
  <2>1. a + 0 = a /\ a..a - 1 = {} /\ Offset(t, a)..Offset(t, a) - 1 = {}
    BY <1>0
  <2>2. U(a) = {}
    BY <2>1
  <2> QED BY <2>1, <2>2
<1>2. ASSUME NEW d \in T PROVE d + 1 \in T
  <2>1. d \in Nat
    OBVIOUS
  <2>2. CASE a + (d + 1) <= Len(t)
    <3> DEFINE b == a + d
    <3>1. a + d <= Len(t) /\ b \in 0..Len(t) /\ b + 1 \in 0..Len(t) /\ a + (d + 1) = b + 1 /\ a <= b /\ b \in Nat
      BY <2>1, <2>2, <1>0
    <3>2. Offset(t, a)..Offset(t, b) - 1 = U(b)
      BY <3>1
    <3> HIDE DEF b
    <3> DEFINE x == Offset(t, a)
               y == Offset(t, b)
               z == Offset(t, b + 1)
    <3>3. x \in Nat /\ y \in Nat /\ z \in Nat
      BY <3>1, <1>0
    <3>4. x <= y /\ y < z
      <4>1. b \in a..Len(t) /\ b < b + 1
        BY <3>1, <1>0
      <4>2. x + (b - a) <= y /\ b - a \in Nat
        BY <4>1, OffsetGrows, <3>1, <1>0
      <4>3. y < z
        BY <4>1, <3>1, OffsetOrder
      <4> QED
        <5> HIDE DEF x, y, z
        <5> QED BY <4>2, <4>3, <3>3
    <3>5. x..z - 1 = (x..y - 1) \cup (y..z - 1)
      <4> HIDE DEF x, y, z
      <4> QED BY <3>3, <3>4
    <3>6. a..(b + 1) - 1 = (a..b - 1) \cup {b}
      BY <3>1, <1>0
    <3>7. U(b + 1) = U(b) \cup CharBytes(t, b)
      BY <3>6
    <3>8. x..z - 1 = U(b + 1)
      BY <3>5, <3>7, <3>2 DEF CharBytes
    <3> QED BY <3>8, <3>1, <2>1
  <2> QED BY <2>1, <2>2
<1>3. \A d \in Nat : d \in T
  <2>1. T \subseteq Nat
    OBVIOUS
  <2> HIDE DEF T
  <2> QED BY <2>1, <1>1, <1>2, SetInduction
<1>4. ASSUME NEW b \in a..Len(t) PROVE Offset(t, a)..Offset(t, b) - 1 = U(b)
  <2>1. b - a \in Nat /\ a + (b - a) = b /\ b <= Len(t)
    BY <1>0
  <2>2. b - a \in T
    BY <2>1, <1>3
  <2> QED BY <2>1, <2>2
<1> QED BY <1>4

--------------------------------------------------------------------------------
(***************************************************************************)
(* What a sequence of sequences is when put together.                      *)
(***************************************************************************)
IsFlat(f, s, n) == f = [i \in 1..n |-> IF i = 1 THEN s[i] ELSE f[i - 1] \o s[i]]
FlatTo(s, n) == CHOOSE f : IsFlat(f, s, n)

LEMMA FlattenIs ==
  ASSUME NEW s, Len(s) # 0
  PROVE  FlattenSeq(s) = FlatTo(s, Len(s))[Len(s)]
BY DEF FlattenSeq, FlatTo, IsFlat

LEMMA FlatExists ==
  ASSUME NEW s PROVE \A n \in Nat : \E f : IsFlat(f, s, n)
<1> DEFINE T == {n \in Nat : \E f : IsFlat(f, s, n)}
<1>1. 0 \in T
  <2> DEFINE g == [i \in 1..0 |-> 0]
  <2>1. IsFlat(g, s, 0)
    BY DEF IsFlat
  <2> QED BY <2>1
<1>2. ASSUME NEW n \in T PROVE n + 1 \in T
  <2>1. PICK f : IsFlat(f, s, n)
    OBVIOUS
  <2> DEFINE last == IF n + 1 = 1 THEN s[1] ELSE f[n] \o s[n + 1]
             g == [i \in 1..(n + 1) |-> IF i = n + 1 THEN last ELSE f[i]]
  <2>2. n \in Nat /\ n + 1 \in Nat
    OBVIOUS
  <2>3. f = [i \in 1..n |-> IF i = 1 THEN s[i] ELSE f[i - 1] \o s[i]]
    BY <2>1 DEF IsFlat
  <2>4. ASSUME NEW i \in 1..(n + 1)
        PROVE  g[i] = IF i = 1 THEN s[i] ELSE g[i - 1] \o s[i]
    <3>1. CASE i = n + 1
      <4>1. CASE i = 1
        BY <3>1, <4>1, <2>2
      <4>2. CASE i # 1
        <5>1. i - 1 = n /\ i - 1 \in 1..(n + 1) /\ i - 1 # n + 1
          BY <3>1, <4>2, <2>2
        <5>2. g[i - 1] = f[n]
          BY <5>1
        <5>3. g[i] = f[n] \o s[n + 1]
          BY <3>1, <4>2
        <5> QED BY <5>2, <5>3, <3>1, <4>2
      <4> QED BY <4>1, <4>2
    <3>2. CASE i # n + 1
      <4>1. i \in 1..n
        BY <3>2, <2>2
      <4>2. g[i] = f[i]
        BY <3>2
      <4>3. f[i] = IF i = 1 THEN s[i] ELSE f[i - 1] \o s[i]
        BY <4>1, <2>3
      <4>4. CASE i = 1
        BY <4>2, <4>3, <4>4
      <4>5. CASE i # 1
        <5>1. i - 1 \in 1..(n + 1) /\ i - 1 # n + 1
          BY <4>1, <4>5, <2>2
        <5>2. g[i - 1] = f[i - 1]
          BY <5>1
        <5> QED BY <4>2, <4>3, <4>5, <5>2
      <4> QED BY <4>4, <4>5
    <3> QED BY <3>1, <3>2
  <2>5. IsFlat(g, s, n + 1)
    <3>1. g = [i \in 1..(n + 1) |-> g[i]]
      OBVIOUS
    <3> HIDE DEF g
    <3> QED BY <2>4, <3>1 DEF IsFlat
  <2> QED BY <2>2, <2>5
<1> HIDE DEF T
<1>3. T \subseteq Nat
  BY DEF T
<1>4. \A n \in Nat : n \in T
  BY <1>1, <1>2, <1>3, SetInduction
<1> QED BY <1>4 DEF T

LEMMA FlatIs ==
  ASSUME NEW s, NEW n \in Nat
  PROVE  \A i \in 1..n : FlatTo(s, n)[i] = IF i = 1 THEN s[i] ELSE FlatTo(s, n)[i - 1] \o s[i]
<1> DEFINE f == FlatTo(s, n)
<1>1. \E g : IsFlat(g, s, n)
  BY FlatExists
<1>2. IsFlat(f, s, n)
  BY <1>1 DEF FlatTo
<1> HIDE DEF f
<1>3. f = [i \in 1..n |-> IF i = 1 THEN s[i] ELSE f[i - 1] \o s[i]]
  BY <1>2 DEF IsFlat
<1>4. \A i \in 1..n : f[i] = IF i = 1 THEN s[i] ELSE f[i - 1] \o s[i]
  BY <1>3
<1> QED BY <1>4 DEF f

\* Sequences that begin alike are put together alike.
LEMMA FlatPrefix ==
  ASSUME NEW s, NEW r, NEW m \in Nat, NEW n \in Nat, n <= m, \A i \in 1..n : r[i] = s[i]
  PROVE  \A i \in 1..n : FlatTo(r, m)[i] = FlatTo(s, n)[i]
<1> DEFINE f == FlatTo(r, m)
           g == FlatTo(s, n)
           T == {k \in Nat : k \in 1..n => f[k] = g[k]}
<1>1. \A i \in 1..m : f[i] = IF i = 1 THEN r[i] ELSE f[i - 1] \o r[i]
  BY FlatIs
<1>2. \A i \in 1..n : g[i] = IF i = 1 THEN s[i] ELSE g[i - 1] \o s[i]
  BY FlatIs
<1> HIDE DEF f, g
<1>3. 0 \in T
  OBVIOUS
<1>4. ASSUME NEW k \in T PROVE k + 1 \in T
  <2>1. k \in Nat
    OBVIOUS
  <2>2. CASE k + 1 \in 1..n
    <3>1. k + 1 \in 1..m /\ (k + 1) - 1 = k /\ r[k + 1] = s[k + 1]
      BY <2>1, <2>2
    <3>2. CASE k = 0
      BY <3>1, <3>2, <2>2, <1>1, <1>2
    <3>3. CASE k # 0
      <4>1. k \in 1..n /\ k + 1 # 1
        BY <2>1, <2>2, <3>3
      <4>2. f[k] = g[k]
        BY <4>1
      <4>3. f[k + 1] = f[k] \o r[k + 1]
        BY <3>1, <4>1, <1>1
      <4>4. g[k + 1] = g[k] \o s[k + 1]
        BY <3>1, <4>1, <2>2, <1>2
      <4>5. f[k + 1] = g[k + 1]
        BY <4>2, <4>3, <4>4, <3>1
      <4> QED BY <4>5, <2>1
    <3> QED BY <3>2, <3>3
  <2> QED BY <2>1, <2>2
<1> HIDE DEF T
<1>5. T \subseteq Nat
  BY DEF T
<1>6. \A k \in Nat : k \in T
  BY <1>3, <1>4, <1>5, SetInduction
<1>7. \A k \in Nat : k \in 1..n => f[k] = g[k]
  BY <1>6 DEF T
<1> QED BY <1>7 DEF f, g

\* Putting one more sequence at the end.
LEMMA FlattenStep ==
  ASSUME NEW S, NEW s \in Seq(Seq(S)), NEW n \in 0..Len(s) - 1
  PROVE  /\ FlattenSeq(SubSeq(s, 1, 0)) = <<>>
         /\ FlattenSeq(SubSeq(s, 1, n + 1)) = FlattenSeq(SubSeq(s, 1, n)) \o s[n + 1]
<1> DEFINE a == SubSeq(s, 1, n)
           b == SubSeq(s, 1, n + 1)
<1>0. Len(s) \in Nat /\ n \in Nat /\ n + 1 \in 1..Len(s) /\ s[n + 1] \in Seq(S)
  OBVIOUS
<1>1. FlattenSeq(SubSeq(s, 1, 0)) = <<>>
  <2>1. SubSeq(s, 1, 0) = <<>> /\ Len(<<>>) = 0
    OBVIOUS
  <2> QED BY <2>1 DEF FlattenSeq
<1>2. Len(a) = n /\ \A i \in 1..n : a[i] = s[i]
  BY <1>0
<1>3. Len(b) = n + 1 /\ \A i \in 1..(n + 1) : b[i] = s[i]
  BY <1>0
<1>4. FlattenSeq(b) = FlatTo(b, n + 1)[n + 1]
  <2>1. Len(b) # 0
    BY <1>3, <1>0
  <2> HIDE DEF b
  <2> QED BY <2>1, <1>3, FlattenIs
<1>5. FlatTo(b, n + 1)[n + 1] = IF n + 1 = 1 THEN b[n + 1] ELSE FlatTo(b, n + 1)[n] \o b[n + 1]
  <2>1. n + 1 \in 1..(n + 1) /\ (n + 1) - 1 = n /\ n + 1 \in Nat
    BY <1>0
  <2> HIDE DEF b
  <2> QED BY <2>1, FlatIs
<1>6. CASE n = 0
  <2>1. FlattenSeq(b) = s[n + 1]
    <3>1. n + 1 \in 1..(n + 1) /\ n + 1 = 1
      BY <1>0, <1>6
    <3>2. b[n + 1] = s[n + 1]
      BY <1>3, <3>1
    <3> HIDE DEF b
    <3> QED BY <1>4, <1>5, <3>1, <3>2
  <2>2. FlattenSeq(a) = <<>>
    BY <1>1, <1>6
  <2>3. <<>> \o s[n + 1] = s[n + 1]
    BY <1>0
  <2> QED BY <2>1, <2>2, <2>3, <1>1
<1>7. CASE n # 0
  <2>1. FlattenSeq(a) = FlatTo(a, n)[n]
    <3>1. Len(a) # 0
      BY <1>2, <1>7
    <3> HIDE DEF a
    <3> QED BY <3>1, <1>2, FlattenIs
  <2>2. FlatTo(b, n + 1)[n] = FlatTo(a, n)[n]
    <3>1. n + 1 \in Nat /\ n <= n + 1 /\ n \in 1..n
      BY <1>0, <1>7
    <3>2. \A i \in 1..n : b[i] = a[i]
      BY <1>2, <1>3, <1>0
    <3> HIDE DEF a, b
    <3>3. \A i \in 1..n : FlatTo(b, n + 1)[i] = FlatTo(a, n)[i]
      BY <3>1, <3>2, <1>0, FlatPrefix
    <3> QED BY <3>1, <3>3
  <2>3. b[n + 1] = s[n + 1] /\ n + 1 # 1
    <3>1. n + 1 \in 1..(n + 1)
      BY <1>0
    <3> QED BY <3>1, <1>3, <1>0, <1>7
  <2>4. FlattenSeq(b) = FlattenSeq(a) \o s[n + 1]
    <3> HIDE DEF a, b
    <3> QED BY <1>4, <1>5, <2>1, <2>2, <2>3
  <2> QED BY <2>4, <1>1
<1> QED BY <1>6, <1>7

\* What the first n of some sequences are when put together.
JoinedFirst(s, n) == FlattenSeq(SubSeq(s, 1, n))

LEMMA JoinedIs ==
  ASSUME NEW S, NEW s \in Seq(Seq(S))
  PROVE  /\ JoinedFirst(s, 0) = <<>> /\ JoinedFirst(s, Len(s)) = FlattenSeq(s)
         /\ \A n \in 0..Len(s) : JoinedFirst(s, n) \in Seq(S)
         /\ \A n \in 0..Len(s) - 1 : JoinedFirst(s, n + 1) = JoinedFirst(s, n) \o s[n + 1]
<1>0. Len(s) \in Nat
  OBVIOUS
<1>1. JoinedFirst(s, 0) = <<>>
  <2>1. SubSeq(s, 1, 0) = <<>> /\ Len(<<>>) = 0
    OBVIOUS
  <2> QED BY <2>1 DEF FlattenSeq, JoinedFirst
<1>2. JoinedFirst(s, Len(s)) = FlattenSeq(s)
  <2>1. SubSeq(s, 1, Len(s)) = s
    OBVIOUS
  <2> QED BY <2>1 DEF JoinedFirst
<1>3. ASSUME NEW n \in 0..Len(s) - 1 PROVE JoinedFirst(s, n + 1) = JoinedFirst(s, n) \o s[n + 1]
  BY FlattenStep DEF JoinedFirst
<1> DEFINE T == {n \in Nat : n <= Len(s) => JoinedFirst(s, n) \in Seq(S)}
<1>4. 0 \in T
  <2>1. <<>> \in Seq(S)
    OBVIOUS
  <2> QED BY <1>1, <2>1
<1>5. ASSUME NEW n \in T PROVE n + 1 \in T
  <2>1. n \in Nat
    OBVIOUS
  <2>2. CASE n + 1 <= Len(s)
    <3>1. n \in 0..Len(s) - 1 /\ n <= Len(s) /\ n + 1 \in 1..Len(s)
      BY <2>1, <2>2, <1>0
    <3>2. JoinedFirst(s, n) \in Seq(S) /\ s[n + 1] \in Seq(S)
      BY <3>1
    <3>3. JoinedFirst(s, n) \o s[n + 1] \in Seq(S)
      BY <3>2
    <3>4. JoinedFirst(s, n + 1) = JoinedFirst(s, n) \o s[n + 1]
      BY <3>1, <1>3
    <3>5. JoinedFirst(s, n + 1) \in Seq(S)
      BY <3>3, <3>4
    <3> QED BY <3>5, <2>1
  <2> QED BY <2>1, <2>2
<1> HIDE DEF T
<1>6. T \subseteq Nat
  BY DEF T
<1>7. \A n \in Nat : n \in T
  BY <1>4, <1>5, <1>6, SetInduction
<1>8. ASSUME NEW n \in 0..Len(s) PROVE JoinedFirst(s, n) \in Seq(S)
  <2>1. n \in Nat /\ n <= Len(s)
    BY <1>0
  <2> QED BY <2>1, <1>7 DEF T
<1> QED BY <1>1, <1>2, <1>3, <1>8

LEMMA JoinedGrows ==
  ASSUME NEW S, NEW s \in Seq(Seq(S)), NEW n \in 0..Len(s)
  PROVE  \A m \in n..Len(s) : /\ Len(JoinedFirst(s, n)) <= Len(JoinedFirst(s, m))
                              /\ \A i \in 1..Len(JoinedFirst(s, n)) : JoinedFirst(s, m)[i] = JoinedFirst(s, n)[i]
<1> DEFINE P(m) == /\ Len(JoinedFirst(s, n)) <= Len(JoinedFirst(s, m))
                   /\ \A i \in 1..Len(JoinedFirst(s, n)) : JoinedFirst(s, m)[i] = JoinedFirst(s, n)[i]
           T == {d \in Nat : n + d <= Len(s) => P(n + d)}
<1>0. Len(s) \in Nat /\ n \in Nat /\ \A m \in 0..Len(s) : JoinedFirst(s, m) \in Seq(S)
  BY JoinedIs
<1>1. 0 \in T
  <2>1. n + 0 = n /\ Len(JoinedFirst(s, n)) \in Nat
    BY <1>0
  <2>2. P(n)
    BY <2>1
  <2> QED BY <2>1, <2>2
<1>2. ASSUME NEW d \in T PROVE d + 1 \in T
  <2>1. d \in Nat
    OBVIOUS
  <2>2. CASE n + (d + 1) <= Len(s)
    <3> DEFINE m == n + d
               a == JoinedFirst(s, n)
               b == JoinedFirst(s, m)
               c == JoinedFirst(s, m + 1)
               w == s[m + 1]
    <3>1. m \in 0..Len(s) - 1 /\ m \in 0..Len(s) /\ m <= Len(s) /\ n + (d + 1) = m + 1 /\ m + 1 \in 1..Len(s)
      BY <2>1, <2>2, <1>0
    <3>2. P(m)
      BY <3>1
    <3>3. c = b \o w
      <4> HIDE DEF m
      <4> QED BY <3>1, JoinedIs
    <3>4. a \in Seq(S) /\ b \in Seq(S) /\ w \in Seq(S)
      <4> HIDE DEF m
      <4> QED BY <3>1, <1>0
    <3>5. Len(a) <= Len(b) /\ \A i \in 1..Len(a) : b[i] = a[i]
      BY <3>2
    <3> HIDE DEF a, b, c, w
    <3>6. Len(a) \in Nat /\ Len(b) \in Nat /\ Len(c) = Len(b) + Len(w) /\ Len(w) \in Nat
          /\ \A i \in 1..Len(b) : c[i] = b[i]
      BY <3>3, <3>4
    <3>7. Len(a) <= Len(c) /\ \A i \in 1..Len(a) : c[i] = a[i]
      BY <3>5, <3>6
    <3>8. P(m + 1)
      BY <3>7 DEF a, c
    <3> QED BY <3>8, <3>1, <2>1
  <2> QED BY <2>1, <2>2
<1> HIDE DEF T
<1>3. T \subseteq Nat
  BY DEF T
<1>4. \A d \in Nat : d \in T
  BY <1>1, <1>2, <1>3, SetInduction
<1>5. ASSUME NEW m \in n..Len(s) PROVE P(m)
  <2>1. m - n \in Nat /\ n + (m - n) = m /\ m <= Len(s)
    BY <1>0
  <2>2. m - n \in T
    BY <2>1, <1>4
  <2>3. n + (m - n) <= Len(s) => P(n + (m - n))
    BY <2>2 DEF T
  <2> HIDE DEF P
  <2> QED BY <2>1, <2>3
<1> QED BY <1>5

--------------------------------------------------------------------------------
LEMMA TextHasWidths ==
  ASSUME NEW t \in Seq(Character)
  PROVE  HasWidths(t)
<1>1. Len(t) \in Nat
  OBVIOUS
<1>2. ASSUME NEW i \in 1..Len(t) PROVE t[i].width \in Nat \ {0}
  <2>1. t[i] \in Character
    OBVIOUS
  <2>2. t[i].width \in 1..4
    BY <2>1 DEF Character
  <2> QED BY <2>2
<1> QED BY <1>1, <1>2 DEF HasWidths

\* The link of a character extends over the characters that have it.
LEMMA LinkRange ==
  ASSUME NEW t \in Seq(Character), OnePlace(t), NEW n \in Linked(t)
  PROVE  /\ LinkStart(t, n) \in 0..n /\ LinkEnd(t, n) \in (n + 1)..Len(t)
         /\ \A k \in 0..Len(t) - 1 : LinkAt(t, k) = LinkAt(t, n) <=> k \in LinkStart(t, n)..LinkEnd(t, n) - 1
<1> DEFINE l == LinkAt(t, n)
           S == {m \in 0..n : \A k \in m..n : LinkAt(t, k) = l}
           E == {m \in n..Len(t) - 1 : \A k \in n..m : LinkAt(t, k) = l}
           a == Min(S)
           b == Max(E)
<1>0. Len(t) \in Nat /\ n \in 0..Len(t) - 1 /\ n \in Nat /\ l # NoLink
  BY DEF Linked
<1>1. n \in S /\ S \subseteq Nat
  <2>1. \A k \in n..n : k = n
    BY <1>0
  <2> QED BY <2>1, <1>0
<1>2. n \in E /\ E \subseteq Nat /\ \A x \in E : x <= Len(t)
  <2>1. \A k \in n..n : k = n
    BY <1>0
  <2> QED BY <2>1, <1>0
<1>3. a \in S /\ \A y \in S : a <= y
  <2> HIDE DEF S
  <2> QED BY <1>1, MinExists
<1>4. b \in E /\ \A y \in E : b >= y
  <2> HIDE DEF E
  <2> QED BY <1>2, <1>0, MaxExists
<1> HIDE DEF a, b
<1>5. a \in 0..n /\ b \in n..Len(t) - 1
  BY <1>3, <1>4
<1>6. ASSUME NEW k \in 0..Len(t) - 1
      PROVE  LinkAt(t, k) = l <=> k \in a..b
  <2>1. ASSUME k \in a..b PROVE LinkAt(t, k) = l
    <3>1. k \in a..n \/ k \in n..b
      BY <2>1, <1>5, <1>0
    <3> QED BY <3>1, <1>3, <1>4
  <2>2. ASSUME LinkAt(t, k) = l PROVE k \in a..b
    <3>1. k \in Linked(t)
      BY <2>2, <1>0 DEF Linked
    <3>2. CASE k <= n
      <4>1. \A j \in k..n : LinkAt(t, j) = l
        BY <3>1, <2>2 DEF OnePlace
      <4>2. k \in S
        BY <4>1, <3>2, <1>0
      <4>3. a <= k
        BY <4>2, <1>3
      <4> QED BY <4>3, <3>2, <1>5, <1>0
    <3>3. CASE ~(k <= n)
      <4>1. \A j \in n..k : LinkAt(t, j) = l
        BY <3>1, <2>2 DEF OnePlace
      <4>2. k \in E
        BY <4>1, <3>3, <1>0
      <4>3. b >= k
        BY <4>2, <1>4
      <4> QED BY <4>3, <3>3, <1>5, <1>0
    <3> QED BY <3>2, <3>3
  <2> QED BY <2>1, <2>2
<1>7. LinkStart(t, n) = a /\ LinkEnd(t, n) = b + 1
  BY DEF LinkStart, LinkEnd, a, b
<1>8. b + 1 \in (n + 1)..Len(t) /\ (b + 1) - 1 = b
  BY <1>5, <1>0
<1> QED BY <1>5, <1>6, <1>7, <1>8

\* The bytes of a link of text t, which is in text s after d characters.
LEMMA LinkBytes ==
  ASSUME NEW t \in Seq(Character), OnePlace(t), NEW n \in Linked(t),
         NEW s \in Seq(Character), NEW d \in Nat, d + Len(t) <= Len(s)
  PROVE  /\ LinkStart(t, n) + d \in 0..Len(s) /\ LinkEnd(t, n) + d \in 0..Len(s)
         /\ Bytes(getPositionsForCharacterRange(s, LinkStart(t, n) + d, LinkEnd(t, n) + d))
              = UNION {CharBytes(s, k + d) : k \in {j \in 0..Len(t) - 1 : LinkAt(t, j) = LinkAt(t, n)}}
<1> DEFINE a == LinkStart(t, n)
           b == LinkEnd(t, n)
           K == {j \in 0..Len(t) - 1 : LinkAt(t, j) = LinkAt(t, n)}
<1>0. Len(t) \in Nat /\ Len(s) \in Nat /\ n \in 0..Len(t) - 1
  BY DEF Linked
<1>1. a \in 0..n /\ b \in (n + 1)..Len(t) /\ \A k \in 0..Len(t) - 1 : LinkAt(t, k) = LinkAt(t, n) <=> k \in a..b - 1
  BY LinkRange
<1> HIDE DEF a, b
<1>2. K = a..b - 1
  BY <1>0, <1>1
<1> HIDE DEF K
<1> DEFINE x == a + d
           y == b + d
<1>3. x \in 0..Len(s) /\ y \in x..Len(s) /\ y \in 0..Len(s)
  BY <1>0, <1>1
<1>4. \A k \in Int : k \in a..b - 1 <=> k + d \in x..y - 1
  BY <1>0, <1>1
<1>4a. \A j \in x..y - 1 : j - d \in a..b - 1 /\ (j - d) + d = j
  BY <1>0, <1>1
<1> HIDE DEF x, y
<1>5. HasWidths(s)
  BY TextHasWidths
<1>6. getPositionsForCharacterRange(s, x, y) = <<Offset(s, x), Offset(s, y)>>
  BY <1>3, <1>5, CharacterRangesAreExact
<1>7. Bytes(<<Offset(s, x), Offset(s, y)>>) = Offset(s, x)..Offset(s, y) - 1
  BY DEF Bytes
<1>8. Offset(s, x)..Offset(s, y) - 1 = UNION {CharBytes(s, j) : j \in x..y - 1}
  BY <1>3, <1>5, RangeBytes
<1>9. {CharBytes(s, j) : j \in x..y - 1} = {CharBytes(s, k + d) : k \in K}
  <2>1. ASSUME NEW j \in x..y - 1 PROVE \E k \in K : CharBytes(s, j) = CharBytes(s, k + d)
    <3>1. j - d \in K /\ (j - d) + d = j
      BY <1>2, <1>4a
    <3> QED BY <3>1
  <2>2. ASSUME NEW k \in K PROVE k + d \in x..y - 1
    BY <1>2, <1>4, <1>1, <1>0
  <2> QED BY <2>1, <2>2
<1>10. Bytes(getPositionsForCharacterRange(s, x, y)) = UNION {CharBytes(s, k + d) : k \in K}
  BY <1>6, <1>7, <1>8, <1>9
<1> QED BY <1>10, <1>3 DEF x, y, a, b, K

LEMMA AllLinkBytes ==
  ASSUME NEW t \in Seq(Character), OnePlace(t),
         NEW s \in Seq(Character), NEW d \in Nat, d + Len(t) <= Len(s)
  PROVE  UNION {Bytes(getPositionsForCharacterRange(s, LinkStart(t, n) + d, LinkEnd(t, n) + d)) : n \in Linked(t)}
           = UNION {CharBytes(s, k + d) : k \in Linked(t)}
<1> DEFINE B(n) == Bytes(getPositionsForCharacterRange(s, LinkStart(t, n) + d, LinkEnd(t, n) + d))
           K(n) == {j \in 0..Len(t) - 1 : LinkAt(t, j) = LinkAt(t, n)}
           C(k) == CharBytes(s, k + d)
<1>1. ASSUME NEW n \in Linked(t) PROVE B(n) = UNION {C(k) : k \in K(n)}
  BY LinkBytes
<1>2. \A n \in Linked(t) : n \in K(n) /\ K(n) \subseteq Linked(t)
  BY DEF Linked
<1> HIDE DEF B, K, C
<1>3. UNION {B(n) : n \in Linked(t)} = UNION {C(k) : k \in Linked(t)}
  <2>1. ASSUME NEW n \in Linked(t), NEW x \in B(n) PROVE \E k \in Linked(t) : x \in C(k)
    BY <2>1, <1>1, <1>2
  <2>2. ASSUME NEW k \in Linked(t), NEW x \in C(k) PROVE x \in B(k)
    BY <2>2, <1>1, <1>2
  <2> QED BY <2>1, <2>2
<1> QED BY <1>3 DEF B, C

\* The links of a text that is put together from two.
LEMMA LinksOfConcat ==
  ASSUME NEW t \in Seq(Character), NEW u \in Seq(Character)
  PROVE  /\ t \o u \in Seq(Character) /\ Len(t \o u) = Len(t) + Len(u)
         /\ \A k \in 0..Len(t) - 1 : LinkAt(t \o u, k) = LinkAt(t, k)
         /\ \A k \in 0..Len(u) - 1 : LinkAt(t \o u, k + Len(t)) = LinkAt(u, k)
         /\ Linked(t \o u) = Linked(t) \cup {k + Len(t) : k \in Linked(u)}
<1> DEFINE s == t \o u
<1>1. s \in Seq(Character) /\ Len(s) = Len(t) + Len(u) /\ Len(t) \in Nat /\ Len(u) \in Nat
  OBVIOUS
<1>2. \A i \in 1..Len(s) : s[i] = IF i <= Len(t) THEN t[i] ELSE u[i - Len(t)]
  OBVIOUS
<1> HIDE DEF s
<1> DEFINE lt == Len(t)
           lu == Len(u)
<1>3. ASSUME NEW k \in 0..lt - 1 PROVE LinkAt(s, k) = LinkAt(t, k)
  <2>1. k + 1 \in 1..Len(s) /\ k + 1 <= Len(t) /\ k < Len(s) /\ k < Len(t)
    BY <1>1
  <2>2. s[k + 1] = t[k + 1]
    BY <2>1, <1>2
  <2> QED BY <2>1, <2>2 DEF LinkAt
<1>4. ASSUME NEW k \in 0..lu - 1 PROVE LinkAt(s, k + lt) = LinkAt(u, k)
  <2>1. (k + lt) + 1 \in 1..Len(s) /\ ~((k + lt) + 1 <= Len(t)) /\ k + lt < Len(s) /\ k < Len(u)
        /\ ((k + lt) + 1) - Len(t) = k + 1
    BY <1>1
  <2>2. s[(k + lt) + 1] = u[k + 1]
    BY <2>1, <1>2
  <2> QED BY <2>1, <2>2 DEF LinkAt
<1>5. Linked(s) \subseteq Linked(t) \cup {k + lt : k \in Linked(u)}
  <2> SUFFICES ASSUME NEW n \in Linked(s), n \notin Linked(t) PROVE \E k \in Linked(u) : n = k + lt
    OBVIOUS
  <2>1. n \in 0..Len(s) - 1 /\ LinkAt(s, n) # NoLink
    BY DEF Linked
  <2>2. ~(n \in 0..lt - 1)
    BY <2>1, <1>3 DEF Linked
  <2>3. n - lt \in 0..lu - 1 /\ n = (n - lt) + lt
    BY <2>1, <2>2, <1>1
  <2>4. LinkAt(u, n - lt) # NoLink
    BY <2>1, <2>3, <1>4
  <2>5. n - lt \in Linked(u)
    BY <2>3, <2>4 DEF Linked
  <2> QED BY <2>3, <2>5
<1>6. ASSUME NEW n \in Linked(t) PROVE n \in Linked(s)
  <2>1. n \in 0..lt - 1 /\ LinkAt(t, n) # NoLink
    BY DEF Linked
  <2>2. n \in 0..Len(s) - 1
    BY <2>1, <1>1
  <2> QED BY <2>1, <2>2, <1>3 DEF Linked
<1>7. ASSUME NEW k \in Linked(u) PROVE k + lt \in Linked(s)
  <2>1. k \in 0..lu - 1 /\ LinkAt(u, k) # NoLink
    BY DEF Linked
  <2>2. k + lt \in 0..Len(s) - 1
    BY <2>1, <1>1
  <2> QED BY <2>1, <2>2, <1>4 DEF Linked
<1>8. Linked(s) = Linked(t) \cup {k + lt : k \in Linked(u)}
  BY <1>5, <1>6, <1>7
<1> QED BY <1>1, <1>3, <1>4, <1>8 DEF s

\* The second of two texts begins where the first one ends.
LEMMA OffsetsOfConcat ==
  ASSUME NEW t \in Seq(Character), NEW u \in Seq(Character)
  PROVE  \A k \in 0..Len(t) : Offset(t \o u, k) = Offset(t, k)
<1> DEFINE s == t \o u
<1>1. Len(t) \in Nat /\ \A i \in 1..Len(t) : s[i].width = t[i].width
  OBVIOUS
<1> HIDE DEF s
<1>2. \A k \in 0..Len(t) : Offset(s, k) = Offset(t, k)
  BY <1>1, OffsetPrefix
<1> QED BY <1>2 DEF s
--------------------------------------------------------------------------------
(***************************************************************************)
(* The inductive invariant of the panel.                                   *)
(***************************************************************************)
Links == STRING \cup {NoLink}

Explanations ==
    [Annotation : Seq(Character), AnnotationLength : Nat, Explanation : BOOLEAN, text : Seq(Character),
     mouse : Int, Decl : Links, Stmt : Links, URLHover : BOOLEAN, URLClick : BOOLEAN, URLHovered : Links,
     interactive : SUBSET Int, filled : SUBSET Int, view : Nat]

\* The bytes of some characters of a text.
AllBytes(t, K) == UNION {CharBytes(t, k) : k \in K}

\* The texts are those of the state, and exactly their links are marked.
TextsInv(p) ==
    /\ p.AnnotationLength = Length(p.Annotation)
    /\ OnePlace(p.Annotation) /\ OnePlace(p.text) /\ Apart(p.Annotation, p.text)
    /\ ~p.Explanation => Linked(p.text) = {}
    /\ ~p.Explanation /\ p.text # <<>> => p.view \in DOMAIN Explained /\ Explained[p.view].result = "error"
    /\ p.interactive = AllBytes(Shown(p), Linked(Shown(p)))

\* The pointer is at a character, and what is highlighted or pressed is its link.
PointerInv(p) ==
    /\ p.mouse = INVALID \/ \E k \in 0..Len(Shown(p)) - 1 : p.mouse = Offset(Shown(p), k)
    /\ p.filled # {} =>
          /\ p.mouse # INVALID
          /\ p.filled = AllBytes(Shown(p), {m \in Linked(Shown(p)) : LinkAt(Shown(p), m) = Under(p)})
    /\ p.URLHover => p.URLHovered = Under(p)
    /\ p.URLClick /\ p.URLHovered # NoLink => Under(p) \in {p.URLHovered, NoLink}

ExplanationInv ==
    /\ explanation \in Explanations /\ TextsInv(explanation) /\ PointerInv(explanation)
    /\ OpenedIsUnderPointer /\ ExplanationExists

LEMMA BytesAreInt ==
  ASSUME NEW t \in Seq(Character), NEW K, K \subseteq 0..Len(t) - 1
  PROVE  AllBytes(t, K) \in SUBSET Int
BY DEF AllBytes, CharBytes

LEMMA LinkIsString ==
  ASSUME NEW t \in Seq(Character), NEW k \in 0..Len(t) - 1
  PROVE  LinkAt(t, k) \in STRING
<1>1. k + 1 \in 1..Len(t) /\ k < Len(t)
  OBVIOUS
<1>2. t[k + 1] \in Character
  BY <1>1
<1> QED BY <1>1, <1>2 DEF Character, LinkAt

LEMMA UnderNothing ==
  ASSUME NEW p, p.mouse = INVALID
  PROVE  Under(p) = NoLink
BY DEF Under

LEMMA UnderIs ==
  ASSUME NEW p, NEW s \in Seq(Character), s = Shown(p), NEW k \in 0..Len(s) - 1, p.mouse = Offset(s, k)
  PROVE  p.mouse # INVALID /\ Under(p) = LinkAt(s, k)
<1>0. HasWidths(s) /\ Len(s) \in Nat /\ k \in 0..Len(s)
  BY TextHasWidths
<1>1. p.mouse # INVALID
  <2>1. Offset(s, k) \in Nat
    BY <1>0, OffsetType
  <2> QED BY <2>1 DEF INVALID
<1> DEFINE n == CHOOSE m \in 0..Len(s) : Offset(s, m) = p.mouse
<1>2. n \in 0..Len(s) /\ Offset(s, n) = p.mouse
  BY <1>0
<1>3. n = k
  <2> HIDE DEF n
  <2> QED BY <1>0, <1>2, OffsetOrder
<1>4. Under(p) = LinkAt(s, n)
  BY <1>1 DEF Under
<1> QED BY <1>1, <1>3, <1>4

\* A panel on which the pointer has not been.
LEMMA UntouchedPointer ==
  ASSUME NEW p, p.mouse = INVALID, p.filled = {}, p.URLHover = FALSE
  PROVE  PointerInv(p)
BY UnderNothing DEF PointerInv

--------------------------------------------------------------------------------
(* Showing a state *)

LEMMA NoLinksInNothing ==
  /\ Linked(<<>>) = {} /\ OnePlace(<<>>) /\ Length(<<>>) = 0 /\ <<>> \in Seq(Character)
  /\ \A t : Apart(t, <<>>) /\ Apart(<<>>, t)
<1>1. 0..Len(<<>>) - 1 = {}
  OBVIOUS
<1>2. Linked(<<>>) = {}
  BY <1>1 DEF Linked
<1>3. Length(<<>>) = 0
  BY OffsetStep DEF Length
<1>4. <<>> \in Seq(Character)
  OBVIOUS
<1> QED BY <1>2, <1>3, <1>4 DEF OnePlace, Apart

\* The bytes of the links of t, which stands in s after d characters: as they
\* are found link by link, and character by character.
LinkedBytes(t, s, d) ==
    UNION {Bytes(getPositionsForCharacterRange(s, LinkStart(t, n) + d, LinkEnd(t, n) + d)) : n \in Linked(t)}
ShiftedBytes(t, s, d) == UNION {CharBytes(s, k + d) : k \in Linked(t)}

LEMMA LinkedIsShifted ==
  ASSUME NEW t \in Seq(Character), OnePlace(t),
         NEW s \in Seq(Character), NEW d \in Nat, d + Len(t) <= Len(s)
  PROVE  LinkedBytes(t, s, d) = ShiftedBytes(t, s, d)
BY AllLinkBytes DEF LinkedBytes, ShiftedBytes

LEMMA setAnnotationTextIs ==
  ASSUME NEW p \in Explanations, NEW t \in Seq(Character), OnePlace(t), p.text = <<>>
  PROVE  setAnnotationText(p, t)
           = [p EXCEPT !.Annotation = t, !.AnnotationLength = Length(t), !.interactive = AllBytes(t \o <<>>, Linked(t))]
<1> DEFINE q == [p EXCEPT !.Annotation = t, !.AnnotationLength = Length(t)]
           s == t \o <<>>
<1>0. s \in Seq(Character) /\ Len(s) = Len(t) /\ Len(t) \in Nat
  BY NoLinksInNothing
<1>1. Shown(q) = s
  BY DEF Shown, Explanations
<1> DEFINE B(n) == Bytes(getPositionsForCharacterRange(s, LinkStart(t, n), LinkEnd(t, n)))
<1>2. UNION {B(n) : n \in Linked(t)} = AllBytes(s, Linked(t))
  <2>1. LinkedBytes(t, s, 0) = ShiftedBytes(t, s, 0)
    <3> HIDE DEF s
    <3>1. 0 \in Nat /\ 0 + Len(t) <= Len(s)
      BY <1>0
    <3> QED BY <3>1, <1>0, LinkedIsShifted
  <2>2. \A n \in Linked(t) : n \in Int /\ LinkStart(t, n) \in Int /\ LinkEnd(t, n) \in Int
    <3> TAKE n \in Linked(t)
    <3>1. LinkStart(t, n) \in 0..n /\ LinkEnd(t, n) \in (n + 1)..Len(t)
      BY LinkRange
    <3>2. n \in Int
      BY DEF Linked
    <3> QED BY <3>1, <3>2
  <2>3. ASSUME NEW n \in Linked(t)
        PROVE  B(n) = Bytes(getPositionsForCharacterRange(s, LinkStart(t, n) + 0, LinkEnd(t, n) + 0))
    <3>1. LinkStart(t, n) + 0 = LinkStart(t, n) /\ LinkEnd(t, n) + 0 = LinkEnd(t, n)
      BY <2>2
    <3> QED BY <3>1
  <2>4. \A n \in Linked(t) : CharBytes(s, n + 0) = CharBytes(s, n)
    <3> TAKE n \in Linked(t)
    <3>1. n + 0 = n
      BY <2>2
    <3> QED BY <3>1
  <2> HIDE DEF B, s
  <2>5. {B(n) : n \in Linked(t)}
          = {Bytes(getPositionsForCharacterRange(s, LinkStart(t, n) + 0, LinkEnd(t, n) + 0)) : n \in Linked(t)}
    BY <2>3
  <2>6. {CharBytes(s, k + 0) : k \in Linked(t)} = {CharBytes(s, k) : k \in Linked(t)}
    BY <2>4
  <2> QED BY <2>1, <2>5, <2>6 DEF AllBytes, LinkedBytes, ShiftedBytes
<1>3. setAnnotationText(p, t) = [q EXCEPT !.interactive = UNION {B(n) : n \in Linked(t)}]
  BY <1>1 DEF setAnnotationText, getAnnotationByteOffsetRange
<1> HIDE DEF B, s
<1>4. setAnnotationText(p, t) = [q EXCEPT !.interactive = AllBytes(s, Linked(t))]
  BY <1>2, <1>3
<1> QED BY <1>4 DEF s, Explanations

\* A panel that shows nothing.
Blank(p) ==
    /\ p \in Explanations /\ p.Annotation = <<>> /\ p.AnnotationLength = 0 /\ p.text = <<>> /\ p.interactive = {}
    /\ p.Explanation = FALSE /\ p.mouse = INVALID /\ p.filled = {} /\ p.URLHover = FALSE

LEMMA clearExplanationIs ==
  ASSUME NEW p \in Explanations, NEW v \in Nat
  PROVE  Blank([clearExplanation(p) EXCEPT !.view = v]) /\ [clearExplanation(p) EXCEPT !.view = v].view = v
<1> DEFINE c == clearCurrent(p)
           q == [c EXCEPT !.Annotation = <<>>, !.AnnotationLength = Length(<<>>)]
           r == [q EXCEPT !.interactive = {}]
           w == [r EXCEPT !.Explanation = FALSE]
           x == setExplanationText(w, <<>>)
<1>0. NoLink \in Links /\ INVALID \in Int /\ Length(<<>>) = 0 /\ <<>> \in Seq(Character)
  <2>1. NoLink \in Links
    BY DEF Links
  <2>2. INVALID \in Int
    BY DEF INVALID
  <2> QED BY <2>1, <2>2, NoLinksInNothing
<1>1. c \in Explanations /\ c.mouse = INVALID /\ c.filled = {} /\ c.URLHover = FALSE
  BY <1>0 DEF clearCurrent, Explanations
<1>2. setAnnotationText(c, <<>>) = r
  <2> DEFINE f(n) == Bytes(getAnnotationByteOffsetRange(Shown(q), LinkStart(<<>>, n), LinkEnd(<<>>, n)))
  <2>1. setAnnotationText(c, <<>>) = [q EXCEPT !.interactive = UNION {f(n) : n \in Linked(<<>>)}]
    BY DEF setAnnotationText
  <2> HIDE DEF f
  <2>2. UNION {f(n) : n \in Linked(<<>>)} = {}
    BY NoLinksInNothing
  <2> QED BY <2>1, <2>2
<1> HIDE DEF c
<1>3. /\ r \in Explanations /\ r.Annotation = <<>> /\ r.AnnotationLength = 0 /\ r.interactive = {}
      /\ r.mouse = INVALID /\ r.filled = {} /\ r.URLHover = FALSE
  <2>1. /\ q \in Explanations /\ q.Annotation = <<>> /\ q.AnnotationLength = 0
        /\ q.mouse = INVALID /\ q.filled = {} /\ q.URLHover = FALSE
    <3> DEFINE q1 == [c EXCEPT !.Annotation = <<>>]
    <3>1. q1 \in Explanations /\ q1.Annotation = <<>> /\ q1.mouse = INVALID /\ q1.filled = {} /\ q1.URLHover = FALSE
      BY <1>0, <1>1 DEF Explanations
    <3>2. q = [q1 EXCEPT !.AnnotationLength = 0]
      BY <1>0
    <3> HIDE DEF q1, q
    <3> QED BY <3>1, <3>2 DEF Explanations
  <2> HIDE DEF q
  <2> QED BY <2>1 DEF Explanations
<1> HIDE DEF r
<1>4. /\ w \in Explanations /\ w.Annotation = <<>> /\ w.AnnotationLength = 0 /\ w.interactive = {} /\ w.Explanation = FALSE
      /\ w.mouse = INVALID /\ w.filled = {} /\ w.URLHover = FALSE
  BY <1>3 DEF Explanations
<1> HIDE DEF w
<1>5. x = [w EXCEPT !.text = <<>>, !.interactive = {}]
  <2>1. {b \in w.interactive : b < w.AnnotationLength} = {}
    BY <1>4
  <2> QED BY <2>1 DEF setExplanationText
<1>6. Blank(x)
  BY <1>0, <1>4, <1>5 DEF Blank, Explanations
<1>7. clearExplanation(p) = x
  BY <1>2 DEF clearExplanation, c, w
<1> HIDE DEF x
<1> QED BY <1>6, <1>7 DEF Blank, Explanations

LEMMA BlankTexts ==
  ASSUME NEW p, Blank(p)
  PROVE  TextsInv(p)
<1>1. Shown(p) = <<>>
  BY DEF Shown, Blank
<1>2. AllBytes(<<>>, {}) = {}
  BY DEF AllBytes
<1> QED BY <1>1, <1>2, NoLinksInNothing DEF TextsInv, Blank

\* The annotation of a state is shown.
Annotated(p, t) ==
    /\ p \in Explanations /\ p.Annotation = t /\ p.AnnotationLength = Length(t) /\ p.text = <<>>
    /\ p.interactive = AllBytes(t \o <<>>, Linked(t))
    /\ p.Explanation = FALSE /\ p.mouse = INVALID /\ p.filled = {} /\ p.URLHover = FALSE

LEMMA LengthIsNat ==
  ASSUME NEW t \in Seq(Character)
  PROVE  Length(t) \in Nat /\ Len(t) \in Nat /\ HasWidths(t)
<1>1. HasWidths(t) /\ Len(t) \in 0..Len(t) /\ Len(t) \in Nat
  BY TextHasWidths
<1> QED BY <1>1, OffsetType DEF Length

LEMMA showAnnotationsIs ==
  ASSUME NEW p, Blank(p), NEW v \in DOMAIN Explained
  PROVE  Annotated(showAnnotations(p, Explained[v]), Explained[v].annotation)
         /\ showAnnotations(p, Explained[v]).view = p.view
<1> DEFINE t == Explained[v].annotation
<1>0. t \in Seq(Character) /\ OnePlace(t) /\ p \in Explanations /\ p.text = <<>>
  BY ExplainedIsText DEF Blank
<1>1. CASE t = <<>>
  <2>1. showAnnotations(p, Explained[v]) = p
    BY <1>1 DEF showAnnotations
  <2>2. t \o <<>> = <<>> /\ AllBytes(<<>>, {}) = {}
    BY <1>1 DEF AllBytes
  <2> QED BY <2>1, <2>2, <1>1, NoLinksInNothing DEF Annotated, Blank
<1>2. CASE t # <<>>
  <2> DEFINE I == AllBytes(t \o <<>>, Linked(t))
  <2>1. showAnnotations(p, Explained[v]) = setAnnotationText(p, t)
    BY <1>2 DEF showAnnotations
  <2>2. setAnnotationText(p, t) = [p EXCEPT !.Annotation = t, !.AnnotationLength = Length(t), !.interactive = I]
    BY <1>0, setAnnotationTextIs
  <2>3. Length(t) \in Nat
    BY <1>0, LengthIsNat
  <2>4. I \in SUBSET Int
    <3>1. t \o <<>> \in Seq(Character) /\ Len(t \o <<>>) = Len(t)
      BY <1>0, NoLinksInNothing
    <3>2. Linked(t) \subseteq 0..Len(t \o <<>>) - 1
      BY <3>1 DEF Linked
    <3> QED BY <3>1, <3>2, BytesAreInt
  <2> HIDE DEF t, I
  <2>5. showAnnotations(p, Explained[v]) = [p EXCEPT !.Annotation = t, !.AnnotationLength = Length(t), !.interactive = I]
    BY <2>1, <2>2
  <2>6. Annotated([p EXCEPT !.Annotation = t, !.AnnotationLength = Length(t), !.interactive = I], t)
    BY <2>3, <2>4, <1>0 DEF Annotated, Blank, Explanations, I
  <2> QED BY <2>5, <2>6, <1>0 DEF t, Explanations
<1> QED BY <1>1, <1>2

LEMMA AnnotatedTexts ==
  ASSUME NEW p, NEW t \in Seq(Character), OnePlace(t), Annotated(p, t)
  PROVE  TextsInv(p)
<1>1. Shown(p) = t \o <<>> /\ p.Annotation = t /\ p.text = <<>>
  BY DEF Shown, Annotated
<1>2. Linked(t \o <<>>) = Linked(t)
  <2>1. {k + Len(t) : k \in Linked(<<>>)} = {}
    BY NoLinksInNothing
  <2> QED BY <2>1, NoLinksInNothing, LinksOfConcat
<1> QED BY <1>1, <1>2, NoLinksInNothing DEF TextsInv, Annotated

\* A text after the annotation leaves the marks of the annotation as they are.
LEMMA AnnotationBytes ==
  ASSUME NEW t \in Seq(Character), NEW u \in Seq(Character)
  PROVE  /\ AllBytes(t \o u, Linked(t)) = AllBytes(t \o <<>>, Linked(t))
         /\ \A b \in AllBytes(t \o u, Linked(t)) : b < Length(t)
<1> DEFINE s == t \o u
           e == t \o <<>>
<1>0. HasWidths(t) /\ Len(t) \in Nat
  BY LengthIsNat
<1>1. \A k \in 0..Len(t) : Offset(s, k) = Offset(t, k)
  BY OffsetsOfConcat
<1>2. \A k \in 0..Len(t) : Offset(e, k) = Offset(t, k)
  BY NoLinksInNothing, OffsetsOfConcat
<1> HIDE DEF s, e
<1>3. ASSUME NEW k \in Linked(t)
      PROVE  /\ CharBytes(s, k) = CharBytes(e, k)
             /\ \A b \in CharBytes(s, k) : b < Length(t)
  <2>1. k \in 0..Len(t) /\ k + 1 \in 0..Len(t) /\ k + 1 \in Nat
    BY <1>0 DEF Linked
  <2>2. CharBytes(s, k) = Offset(t, k)..Offset(t, k + 1) - 1 /\ CharBytes(e, k) = Offset(t, k)..Offset(t, k + 1) - 1
    BY <2>1, <1>1, <1>2 DEF CharBytes
  <2>3. Offset(t, k) \in Nat /\ Offset(t, k + 1) \in Nat /\ Length(t) \in Nat
    BY <2>1, <1>0, OffsetType, LengthIsNat
  <2>4. Offset(t, k + 1) <= Length(t)
    <3>1. Len(t) \in 0..Len(t) /\ (k + 1 < Len(t) \/ k + 1 = Len(t))
      BY <2>1, <1>0
    <3>2. k + 1 < Len(t) => Offset(t, k + 1) < Length(t)
      BY <3>1, <2>1, <1>0, OffsetOrder DEF Length
    <3> QED BY <3>1, <3>2, <2>3 DEF Length
  <2> QED BY <2>2, <2>3, <2>4
<1>4. {CharBytes(s, k) : k \in Linked(t)} = {CharBytes(e, k) : k \in Linked(t)}
  BY <1>3
<1>5. AllBytes(s, Linked(t)) = AllBytes(e, Linked(t))
  BY <1>4 DEF AllBytes
<1>6. ASSUME NEW b \in AllBytes(s, Linked(t)) PROVE b < Length(t)
  <2>1. PICK k \in Linked(t) : b \in CharBytes(s, k)
    BY DEF AllBytes
  <2> QED BY <2>1, <1>3
<1> QED BY <1>5, <1>6 DEF s, e

LEMMA showExplanationIs ==
  ASSUME NEW v \in DOMAIN Explained, NEW p, Annotated(p, Explained[v].annotation), p.view = v
  PROVE  LET r == showExplanation(p, Explained[v])
         IN  /\ r \in Explanations /\ TextsInv(r) /\ r.mouse = INVALID /\ r.filled = {} /\ r.URLHover = FALSE
<1> DEFINE t == Explained[v].annotation
           u == Explained[v].text
           s == t \o u
           x == setExplanationText(p, u)
           I == AllBytes(t \o <<>>, Linked(t))
           y == [x EXCEPT !.Explanation = TRUE]
           z == setExplanationIndicators(y)
<1>0. /\ t \in Seq(Character) /\ OnePlace(t) /\ u \in Seq(Character) /\ OnePlace(u) /\ Apart(t, u)
      /\ Explained[v].result = "error" => Linked(u) = {}
      /\ p \in Explanations /\ s \in Seq(Character) /\ Len(s) = Len(t) + Len(u) /\ Len(t) \in Nat /\ Len(u) \in Nat
  <2>1. /\ t \in Seq(Character) /\ OnePlace(t) /\ u \in Seq(Character) /\ OnePlace(u) /\ Apart(t, u)
        /\ Explained[v].result = "error" => Linked(u) = {}
    BY ExplainedIsText
  <2>2. p \in Explanations
    BY DEF Annotated
  <2> HIDE DEF t, u
  <2>3. s \in Seq(Character) /\ Len(s) = Len(t) + Len(u) /\ Len(t) \in Nat /\ Len(u) \in Nat
    BY <2>1
  <2> QED BY <2>1, <2>2, <2>3
<1>1. {b \in I : b < Length(t)} = I /\ I = AllBytes(s, Linked(t))
  BY <1>0, AnnotationBytes
<1>2. Linked(s) = Linked(t) \cup {k + Len(t) : k \in Linked(u)}
  BY <1>0, LinksOfConcat
<1>3. x = [p EXCEPT !.text = u, !.interactive = I]
  <2>1. p.interactive = I /\ p.AnnotationLength = Length(t)
    BY DEF Annotated
  <2> HIDE DEF I, t, u
  <2> QED BY <2>1, <1>1 DEF setExplanationText
<1>3a. Linked(t) \subseteq 0..Len(s) - 1 /\ Linked(s) \subseteq 0..Len(s) - 1
  <2> HIDE DEF s, t, u
  <2> QED BY <1>0 DEF Linked
<1>4. I \in SUBSET Int
  BY <1>0, <1>1, <1>3a, BytesAreInt
<1>5. p.Annotation = t /\ p.AnnotationLength = Length(t) /\ p.Explanation = FALSE
      /\ p.mouse = INVALID /\ p.filled = {} /\ p.URLHover = FALSE
  BY DEF Annotated
<1> HIDE DEF I, t, u, x
<1>6. /\ x \in Explanations /\ x.Annotation = t /\ x.AnnotationLength = Length(t) /\ x.text = u /\ x.interactive = I
      /\ x.Explanation = FALSE /\ x.mouse = INVALID /\ x.filled = {} /\ x.URLHover = FALSE /\ x.view = v
  BY <1>0, <1>3, <1>4, <1>5 DEF Explanations
<1>7. CASE Explained[v].result = "explained"
  <2>1. /\ y \in Explanations /\ y.Annotation = t /\ y.AnnotationLength = Length(t) /\ y.text = u /\ y.interactive = I
        /\ y.Explanation = TRUE /\ y.mouse = INVALID /\ y.filled = {} /\ y.URLHover = FALSE
    BY <1>6 DEF Explanations
  <2> HIDE DEF y
  <2>2. Shown(y) = s
    BY <2>1 DEF Shown
  <2> HIDE DEF s
  <2> DEFINE J == UNION {Bytes(getPositionsForCharacterRange(s, LinkStart(u, n) + Len(t), LinkEnd(u, n) + Len(t))) : n \in Linked(u)}
  <2>3. z = [y EXCEPT !.interactive = I \cup J]
    BY <2>1, <2>2 DEF setExplanationIndicators, getExplanationByteOffsetRange, getAnnotationByteOffsetRange
  <2>4. J = UNION {CharBytes(s, k + Len(t)) : k \in Linked(u)}
    BY <1>0, AllLinkBytes
  <2> HIDE DEF J
  <2>5. I \cup J = AllBytes(s, Linked(s))
    <3> DEFINE C(k) == CharBytes(s, k)
    <3>1. UNION {C(k) : k \in Linked(t)} = I /\ UNION {C(k + Len(t)) : k \in Linked(u)} = J
      BY <1>1, <2>4 DEF AllBytes
    <3> HIDE DEF C
    <3>2. UNION {C(k) : k \in Linked(t) \cup {m + Len(t) : m \in Linked(u)}} = I \cup J
      BY <3>1
    <3> QED BY <3>2, <1>2 DEF AllBytes, C
  <2>6. I \cup J \in SUBSET Int
    BY <2>5, <1>0, <1>3a, BytesAreInt
  <2> DEFINE K == I \cup J
  <2> HIDE DEF z, K
  <2>7. /\ z \in Explanations /\ z.Annotation = t /\ z.AnnotationLength = Length(t) /\ z.text = u /\ z.interactive = K
        /\ z.Explanation = TRUE /\ z.mouse = INVALID /\ z.filled = {} /\ z.URLHover = FALSE
    <3>1. K \in SUBSET Int /\ z = [y EXCEPT !.interactive = K]
      BY <2>3, <2>6 DEF K
    <3> QED BY <3>1, <2>1 DEF Explanations
  <2>8. Shown(z) = s
    BY <2>7 DEF Shown, s
  <2>9. TextsInv(z)
    BY <2>7, <2>8, <2>5, <1>0 DEF TextsInv, K
  <2>10. showExplanation(p, Explained[v]) = z
    BY <1>7 DEF showExplanation, z, y, x, u
  <2> QED BY <2>7, <2>9, <2>10
<1>8. CASE Explained[v].result = "error"
  <2>1. showExplanation(p, Explained[v]) = x
    BY <1>8 DEF showExplanation, x, u
  <2>2. Linked(s) = Linked(t)
    BY <1>2, <1>0, <1>8
  <2>3. Shown(x) = s
    BY <1>6 DEF Shown
  <2>4. TextsInv(x)
    BY <1>0, <1>1, <1>6, <1>8, <2>2, <2>3 DEF TextsInv
  <2> QED BY <2>1, <2>4, <1>6
<1>9. CASE Explained[v].result = "none"
  <2>1. showExplanation(p, Explained[v]) = p
    BY <1>9 DEF showExplanation
  <2>2. TextsInv(p)
    BY <1>0, AnnotatedTexts DEF t
  <2> QED BY <2>1, <2>2, <1>0, <1>5
<1>10. Explained[v].result \in {"explained", "error", "none"}
  BY ExplainedIsText
<1> QED BY <1>7, <1>8, <1>9, <1>10

LEMMA ShowingKeeps ==
  ASSUME ExplanationInv, NEW v \in DOMAIN Explained, showExplained(v)
  PROVE  explanation' \in Explanations /\ TextsInv(explanation') /\ PointerInv(explanation')
<1> DEFINE p == [clearExplanation(explanation) EXCEPT !.view = v]
           q == showAnnotations(p, Explained[v])
           r == showExplanation(q, Explained[v])
           Good(x) == x \in Explanations /\ TextsInv(x) /\ x.mouse = INVALID /\ x.filled = {} /\ x.URLHover = FALSE
<1>0. v \in Nat /\ explanation \in Explanations
  BY ExplainedIsText DEF ExplanationInv
<1>1. explanation' \in {p, q, r}
  BY DEF showExplained
<1>2. Blank(p) /\ p.view = v
  BY <1>0, clearExplanationIs
<1> HIDE DEF p
<1>3. Annotated(q, Explained[v].annotation) /\ q.view = v
  BY <1>2, showAnnotationsIs
<1> HIDE DEF q
<1>4. Good(r)
  BY <1>3, showExplanationIs
<1>5. Good(q)
  <2>1. Explained[v].annotation \in Seq(Character) /\ OnePlace(Explained[v].annotation)
    BY ExplainedIsText
  <2> QED BY <2>1, <1>3, AnnotatedTexts DEF Annotated
<1>6. Good(p)
  BY <1>2, BlankTexts DEF Blank
<1> HIDE DEF r
<1>7. Good(explanation')
  <2> HIDE DEF Good
  <2> QED BY <1>1, <1>4, <1>5, <1>6
<1> QED BY <1>7, UntouchedPointer

--------------------------------------------------------------------------------
(* The pointer *)

\* The character that a byte begins is counted in the text that it is part of.
LEMMA PointedAt ==
  ASSUME NEW p \in Explanations, TextsInv(p), NEW k \in 0..Len(Shown(p)) - 1
  PROVE  LET s == Shown(p)
             pos == Offset(s, k)
         IN  /\ pos < p.AnnotationLength <=> k < Len(p.Annotation)
             /\ k < Len(p.Annotation) => CountCharacters(s, 0, pos) = k /\ LinkAt(p.Annotation, k) = LinkAt(s, k)
             /\ ~(k < Len(p.Annotation)) =>
                   /\ k - Len(p.Annotation) \in 0..Len(p.text) - 1
                   /\ CountCharacters(s, p.AnnotationLength, pos) = k - Len(p.Annotation)
                   /\ LinkAt(p.text, k - Len(p.Annotation)) = LinkAt(s, k)
<1> DEFINE t == p.Annotation
           u == p.text
           s == Shown(p)
           l == Len(t)
           pos == Offset(s, k)
<1>0. t \in Seq(Character) /\ u \in Seq(Character) /\ s = t \o u
  BY DEF Explanations, Shown
<1>1. s \in Seq(Character) /\ Len(s) = l + Len(u) /\ l \in Nat /\ Len(u) \in Nat
  <2> HIDE DEF t, u, s
  <2> QED BY <1>0
<1>2. p.AnnotationLength = Offset(s, l)
  <2>1. p.AnnotationLength = Offset(t, l)
    BY DEF TextsInv, Length
  <2>2. l \in 0..l
    BY <1>1
  <2> HIDE DEF t, u, s
  <2>3. Offset(s, l) = Offset(t, l)
    BY <1>0, <2>2, OffsetsOfConcat
  <2> QED BY <2>1, <2>3
<1>3. /\ \A m \in 0..l - 1 : LinkAt(s, m) = LinkAt(t, m)
      /\ \A m \in 0..Len(u) - 1 : LinkAt(s, m + l) = LinkAt(u, m)
  <2> HIDE DEF t, u, s
  <2> QED BY <1>0, LinksOfConcat
<1>4. k \in 0..Len(s) - 1
  OBVIOUS
<1>5. HasWidths(s)
  BY <1>1, TextHasWidths
<1> HIDE DEF t, u, s
<1>6. pos < Offset(s, l) <=> k < l
  <2>1. k \in 0..Len(s) /\ l \in 0..Len(s)
    BY <1>1, <1>4
  <2> QED BY <2>1, <1>5, OffsetOrder
<1>7. ASSUME k < l PROVE CountCharacters(s, 0, pos) = k /\ LinkAt(t, k) = LinkAt(s, k)
  <2>1. 0 \in Nat /\ k \in Nat /\ 0 <= k /\ k <= Len(s) /\ k - 0 = k /\ k \in 0..l - 1
    BY <1>1, <1>4, <1>7
  <2>2. CountCharacters(s, Offset(s, 0), Offset(s, k)) = k - 0
    BY <2>1, <1>5, CountIs
  <2>3. Offset(s, 0) = 0
    BY OffsetStep
  <2> QED BY <2>1, <2>2, <2>3, <1>3
<1>8. ASSUME ~(k < l)
      PROVE  /\ k - l \in 0..Len(u) - 1
             /\ CountCharacters(s, Offset(s, l), pos) = k - l
             /\ LinkAt(u, k - l) = LinkAt(s, k)
  <2>1. k \in Nat /\ l <= k /\ k <= Len(s) /\ k - l \in 0..Len(u) - 1 /\ (k - l) + l = k
    BY <1>1, <1>4, <1>8
  <2>2. CountCharacters(s, Offset(s, l), Offset(s, k)) = k - l
    BY <2>1, <1>1, <1>5, CountIs
  <2> QED BY <2>1, <2>2, <1>3
<1> QED BY <1>2, <1>6, <1>7, <1>8 DEF t, u, s

\* A link is in one of the two texts, so that its bytes are those of all the
\* characters that have it.
LEMMA HighlightIsTheLink ==
  ASSUME NEW p \in Explanations, TextsInv(p), NEW k \in Linked(Shown(p))
  PROVE  LET s == Shown(p)
             t == p.Annotation
             u == p.text
             K == {m \in Linked(s) : LinkAt(s, m) = LinkAt(s, k)}
             n == k - Len(t)
         IN  /\ k < Len(t) => Bytes(getPositionsForCharacterRange(s, LinkStart(t, k), LinkEnd(t, k))) = AllBytes(s, K)
             /\ ~(k < Len(t)) =>
                  Bytes(getPositionsForCharacterRange(s, LinkStart(u, n) + Len(t), LinkEnd(u, n) + Len(t))) = AllBytes(s, K)
<1> DEFINE t == p.Annotation
           u == p.text
           s == Shown(p)
           l == Len(t)
           n == k - l
           K == {m \in Linked(s) : LinkAt(s, m) = LinkAt(s, k)}
<1>0. t \in Seq(Character) /\ u \in Seq(Character) /\ s = t \o u
  BY DEF Explanations, Shown
<1>0a. OnePlace(t) /\ OnePlace(u) /\ Apart(t, u)
  BY DEF TextsInv
<1>0b. k \in Linked(s)
  OBVIOUS
<1> HIDE DEF t, u, s
<1>1. s \in Seq(Character) /\ Len(s) = l + Len(u) /\ l \in Nat /\ Len(u) \in Nat /\ k \in 0..Len(s) - 1
      /\ LinkAt(s, k) # NoLink
  BY <1>0, <1>0b DEF Linked
<1>2. /\ \A m \in 0..l - 1 : LinkAt(s, m) = LinkAt(t, m)
      /\ \A m \in 0..Len(u) - 1 : LinkAt(s, m + l) = LinkAt(u, m)
      /\ Linked(s) = Linked(t) \cup {m + l : m \in Linked(u)}
  BY <1>0, LinksOfConcat
<1>3. Linked(t) \subseteq 0..l - 1 /\ Linked(u) \subseteq 0..Len(u) - 1
  BY DEF Linked
<1>4. ASSUME k < l PROVE Bytes(getPositionsForCharacterRange(s, LinkStart(t, k), LinkEnd(t, k))) = AllBytes(s, K)
  <2> DEFINE J == {j \in 0..l - 1 : LinkAt(t, j) = LinkAt(t, k)}
  <2>1. k \in 0..l - 1 /\ LinkAt(t, k) = LinkAt(s, k)
    BY <1>1, <1>2, <1>4
  <2>2. k \in Linked(t)
    BY <2>1, <1>1 DEF Linked
  <2>3. LinkStart(t, k) + 0 = LinkStart(t, k) /\ LinkEnd(t, k) + 0 = LinkEnd(t, k)
    <3>1. LinkStart(t, k) \in 0..k /\ LinkEnd(t, k) \in (k + 1)..Len(t)
      BY <2>2, <1>0, <1>0a, LinkRange
    <3> QED BY <3>1
  <2>4. Bytes(getPositionsForCharacterRange(s, LinkStart(t, k) + 0, LinkEnd(t, k) + 0)) = UNION {CharBytes(s, j + 0) : j \in J}
    <3>1. 0 \in Nat /\ 0 + Len(t) <= Len(s)
      BY <1>1
    <3>2. t \in Seq(Character) /\ OnePlace(t) /\ s \in Seq(Character)
      BY <1>0, <1>0a, <1>1
    <3> QED BY ONLY <3>1, <3>2, <2>2, LinkBytes
  <2>5. ASSUME NEW m \in K PROVE m \in J
    <3>1. m \in Linked(s) /\ LinkAt(s, m) = LinkAt(s, k)
      OBVIOUS
    <3>2. CASE m \in Linked(t)
      <4>1. m \in 0..l - 1
        BY <3>2, <1>3
      <4> QED BY <4>1, <3>1, <1>2, <2>1
    <3>3. ASSUME NEW i \in Linked(u), m = i + l PROVE FALSE
      <4>1. LinkAt(s, m) = LinkAt(u, i)
        BY <3>3, <1>2, <1>3
      <4>2. LinkAt(t, k) # LinkAt(u, i)
        BY <2>2, <1>0a DEF Apart
      <4> QED BY <4>1, <4>2, <3>1, <2>1
    <3> QED BY <3>1, <3>2, <3>3, <1>2
  <2>6. ASSUME NEW m \in J PROVE m \in K
    <3>1. m \in 0..l - 1 /\ LinkAt(t, m) = LinkAt(s, k) /\ LinkAt(s, m) = LinkAt(s, k)
      BY <1>2, <2>1
    <3>2. m \in Linked(t)
      BY <3>1, <1>1 DEF Linked
    <3> QED BY <3>1, <3>2, <1>2
  <2>7. \A m \in J : m + 0 = m
    BY <1>1
  <2> HIDE DEF J, K
  <2>8. J = K
    BY <2>5, <2>6
  <2>9. {CharBytes(s, j + 0) : j \in J} = {CharBytes(s, j) : j \in K}
    BY <2>7, <2>8
  <2> QED BY <2>3, <2>4, <2>9 DEF AllBytes
<1>5. ASSUME ~(k < l)
      PROVE  Bytes(getPositionsForCharacterRange(s, LinkStart(u, n) + l, LinkEnd(u, n) + l)) = AllBytes(s, K)
  <2> DEFINE J == {j \in 0..Len(u) - 1 : LinkAt(u, j) = LinkAt(u, n)}
  <2>1. n \in 0..Len(u) - 1 /\ n + l = k
    BY <1>1, <1>5
  <2>1a. LinkAt(u, n) = LinkAt(s, k)
    BY <2>1, <1>2
  <2> HIDE DEF n
  <2>2. n \in Linked(u)
    BY <2>1, <2>1a, <1>1 DEF Linked
  <2>4. Bytes(getPositionsForCharacterRange(s, LinkStart(u, n) + l, LinkEnd(u, n) + l)) = UNION {CharBytes(s, j + l) : j \in J}
    <3>1. l \in Nat /\ l + Len(u) <= Len(s)
      BY <1>1
    <3>2. u \in Seq(Character) /\ OnePlace(u) /\ s \in Seq(Character)
      BY <1>0, <1>0a, <1>1
    <3> QED BY ONLY <3>1, <3>2, <2>2, LinkBytes
  <2>5. ASSUME NEW m \in K PROVE \E j \in J : m = j + l
    <3>1. m \in Linked(s) /\ LinkAt(s, m) = LinkAt(s, k)
      OBVIOUS
    <3>2. ASSUME m \in Linked(t) PROVE FALSE
      <4>1. LinkAt(s, m) = LinkAt(t, m)
        BY <3>2, <1>2, <1>3
      <4>2. LinkAt(t, m) # LinkAt(u, n)
        BY <3>2, <2>2, <1>0a DEF Apart
      <4> QED BY <4>1, <4>2, <3>1, <2>1a
    <3>3. ASSUME NEW i \in Linked(u), m = i + l PROVE i \in J
      <4>1. LinkAt(s, m) = LinkAt(u, i) /\ i \in 0..Len(u) - 1
        BY <3>3, <1>2, <1>3
      <4> QED BY <4>1, <3>1, <2>1a
    <3> HIDE DEF J, K
    <3> QED BY <3>1, <3>2, <3>3, <1>2
  <2>6. ASSUME NEW j \in J PROVE j + l \in K
    <3>1. j \in 0..Len(u) - 1 /\ LinkAt(u, j) = LinkAt(s, k) /\ LinkAt(s, j + l) = LinkAt(s, k)
      BY <1>2, <2>1a
    <3>2. j \in Linked(u)
      BY <3>1, <1>1 DEF Linked
    <3> QED BY <3>1, <3>2, <1>2
  <2> HIDE DEF J, K
  <2>9. {CharBytes(s, j + l) : j \in J} = {CharBytes(s, j) : j \in K}
    BY <2>5, <2>6
  <2> QED BY <2>4, <2>9 DEF AllBytes
<1> QED BY <1>4, <1>5 DEF t, u, s

\* Handlers of the pointer leave the texts as they are.
SameTexts(p, q) ==
    /\ q.Annotation = p.Annotation /\ q.AnnotationLength = p.AnnotationLength /\ q.text = p.text
    /\ q.Explanation = p.Explanation /\ q.interactive = p.interactive /\ q.view = p.view

LEMMA SameTextsKept ==
  ASSUME NEW p, NEW q, TextsInv(p), SameTexts(p, q)
  PROVE  TextsInv(q) /\ Shown(q) = Shown(p)
<1>1. Shown(q) = Shown(p)
  BY DEF Shown, SameTexts
<1> QED BY <1>1 DEF TextsInv, SameTexts

\* A link under the pointer is highlighted; that of a page is what a press of
\* the button opens, that of a declaration or statement forgets the page.
LEMMA OverLinkIs ==
  ASSUME NEW p \in Explanations, NEW link \in Links
  PROVE  LET q == OverLink(p, link)
         IN  /\ q \in Explanations /\ SameTexts(p, q) /\ q.filled = p.filled /\ q.mouse = p.mouse
             /\ \/ q.URLHover = p.URLHover /\ q.URLClick = FALSE
                \/ q.URLHover = TRUE /\ q.URLHovered = link
<1> DEFINE d == mouseOverDecl(p, link)
           s == mouseOverStmt(p, link)
           h == mouseOverHyperlink(p, link)
           Good(q) == /\ q \in Explanations /\ SameTexts(p, q) /\ q.filled = p.filled /\ q.mouse = p.mouse
                      /\ \/ q.URLHover = p.URLHover /\ q.URLClick = FALSE
                         \/ q.URLHover = TRUE /\ q.URLHovered = link
<1>0. NoLink \in Links
  BY DEF Links
<1>1. Good(ForgetURL(d))
  <2>1. d \in Explanations /\ SameTexts(p, d) /\ d.filled = p.filled /\ d.mouse = p.mouse /\ d.URLHover = p.URLHover
    BY DEF mouseOverDecl, Explanations, SameTexts
  <2> HIDE DEF d
  <2> QED BY <2>1, <1>0 DEF ForgetURL, Explanations, SameTexts
<1>2. Good(ForgetURL(s))
  <2>1. s \in Explanations /\ SameTexts(p, s) /\ s.filled = p.filled /\ s.mouse = p.mouse /\ s.URLHover = p.URLHover
    BY DEF mouseOverStmt, Explanations, SameTexts
  <2> HIDE DEF s
  <2> QED BY <2>1, <1>0 DEF ForgetURL, Explanations, SameTexts
<1>3. Good(h)
  BY DEF mouseOverHyperlink, Explanations, SameTexts
<1>4. OverLink(p, link) = ForgetURL(d) \/ OverLink(p, link) = ForgetURL(s) \/ OverLink(p, link) = h
  <2>1. CASE link = "decl"
    BY <2>1 DEF OverLink
  <2>2. CASE link # "decl" /\ link = "stmt"
    BY <2>2 DEF OverLink
  <2>3. CASE link # "decl" /\ link # "stmt"
    BY <2>3 DEF OverLink
  <2> QED BY <2>1, <2>2, <2>3
<1> HIDE DEF d, s, h
<1>5. Good(OverLink(p, link))
  <2> HIDE DEF Good
  <2> QED BY <1>1, <1>2, <1>3, <1>4
<1> QED BY <1>5

LEMMA MotionKeeps ==
  ASSUME ExplanationInv,
         NEW pos \in {INVALID} \cup (Boundaries(Shown(explanation)) \ {Length(Shown(explanation))}), OnMotion(pos)
  PROVE  ExplanationInv'
<1> DEFINE e == explanation
           c == clearCurrent(e)
           p == [c EXCEPT !.mouse = pos]
           s == Shown(e)
           t == e.Annotation
           u == e.text
           annotated == pos < p.AnnotationLength
<1>0. e \in Explanations /\ TextsInv(e) /\ PointerInv(e) /\ OpenedIsUnderPointer /\ ExplanationExists
  BY DEF ExplanationInv
<1>1. NoLink \in Links /\ INVALID \in Int
  <2>1. NoLink \in Links
    BY DEF Links
  <2>2. INVALID \in Int
    BY DEF INVALID
  <2> QED BY <2>1, <2>2
<1>2. s \in Seq(Character) /\ Len(s) \in Nat /\ HasWidths(s) /\ t \in Seq(Character) /\ u \in Seq(Character) /\ s = t \o u
      /\ Len(s) = Len(t) + Len(u) /\ Len(t) \in Nat /\ Len(u) \in Nat
  <2>1. t \in Seq(Character) /\ u \in Seq(Character) /\ s = t \o u
    BY <1>0 DEF Explanations, Shown
  <2> HIDE DEF s, t, u
  <2>2. s \in Seq(Character) /\ Len(s) = Len(t) + Len(u)
    BY <2>1
  <2> QED BY <2>1, <2>2, LengthIsNat
<1>3. ASSUME pos # INVALID PROVE \E k \in 0..Len(s) - 1 : pos = Offset(s, k)
  <2>1. pos \in Boundaries(s) /\ pos # Length(s)
    BY <1>3
  <2>2. PICK k \in 0..Len(s) : pos = Offset(s, k)
    BY <2>1 DEF Boundaries
  <2>3. k # Len(s)
    BY <2>1, <2>2 DEF Length
  <2>4. k \in 0..Len(s) - 1
    <3> HIDE DEF s, t, u
    <3> QED BY <2>3, <1>2
  <2> QED BY <2>2, <2>4
<1>4. pos \in Int
  <2> HIDE DEF s, t, u
  <2>1. CASE pos = INVALID
    BY <2>1, <1>1
  <2>2. CASE pos # INVALID
    <3>1. PICK k \in 0..Len(s) - 1 : pos = Offset(s, k)
      BY <2>2, <1>3
    <3>2. k \in 0..Len(s)
      BY <1>2
    <3>3. Offset(s, k) \in Nat
      BY <3>2, <1>2, OffsetType
    <3> QED BY <3>1, <3>3
  <2> QED BY <2>1, <2>2
<1>5. /\ p \in Explanations /\ SameTexts(e, p) /\ p.filled = {} /\ p.mouse = pos /\ p.URLHover = FALSE
      /\ p.URLClick = e.URLClick /\ p.URLHovered = e.URLHovered
  <2>1. c \in Explanations /\ SameTexts(e, c) /\ c.filled = {} /\ c.URLHover = FALSE
        /\ c.URLClick = e.URLClick /\ c.URLHovered = e.URLHovered
    <3> HIDE DEF e
    <3> QED BY <1>0, <1>1 DEF clearCurrent, Explanations, SameTexts
  <2> HIDE DEF c, e
  <2> QED BY <2>1, <1>4 DEF Explanations, SameTexts
<1>6. Shown(p) = s /\ TextsInv(p)
  BY <1>5, <1>0, SameTextsKept
<1> DEFINE x == IF annotated THEN p.Annotation ELSE p.text
           n == CountCharacters(Shown(p), IF annotated THEN 0 ELSE p.AnnotationLength, pos)
           range == IF annotated
                    THEN getAnnotationByteOffsetRange(Shown(p), LinkStart(x, n), LinkEnd(x, n))
                    ELSE getExplanationByteOffsetRange(Shown(p), p.Annotation, LinkStart(x, n), LinkEnd(x, n))
           g == [p EXCEPT !.filled = Bytes(range)]
<1>7. /\ explanation' = IF pos = INVALID THEN ForgetURL(p)
                        ELSE IF LinkAt(x, n) = NoLink \/ (~annotated /\ ~p.Explanation) THEN p
                        ELSE OverLink(g, LinkAt(x, n))
      /\ nullRead' = IF pos # INVALID /\ ~annotated /\ ~p.Explanation THEN p.view ELSE nullRead
      /\ opened' = opened
  BY DEF OnMotion
<1>8. OpenedIsUnderPointer'
  BY <1>0, <1>7 DEF OpenedIsUnderPointer
<1>9. CASE pos = INVALID
  <2>1. explanation' = ForgetURL(p) /\ nullRead' = nullRead
    BY <1>7, <1>9
  <2> DEFINE f == ForgetURL(p)
  <2> HIDE DEF p, e, s
  <2>2. f \in Explanations /\ SameTexts(p, f) /\ f.mouse = INVALID /\ f.filled = {} /\ f.URLHover = FALSE
    BY <1>5, <1>1, <1>9 DEF ForgetURL, Explanations, SameTexts
  <2> HIDE DEF f
  <2>3. TextsInv(f) /\ PointerInv(f)
    BY <2>2, <1>6, SameTextsKept, UntouchedPointer
  <2>4. ExplanationExists'
    BY <2>1, <1>0 DEF ExplanationExists
  <2>5. explanation' = f
    BY <2>1 DEF f
  <2> QED BY <2>2, <2>3, <2>4, <2>5, <1>8 DEF ExplanationInv
<1>10. CASE pos # INVALID
  <2>0. PICK k \in 0..Len(s) - 1 : pos = Offset(s, k)
    BY <1>10, <1>3
  <2>1. /\ pos < p.AnnotationLength <=> k < Len(p.Annotation)
        /\ k < Len(p.Annotation) => CountCharacters(s, 0, pos) = k /\ LinkAt(p.Annotation, k) = LinkAt(s, k)
        /\ ~(k < Len(p.Annotation)) =>
              /\ k - Len(p.Annotation) \in 0..Len(p.text) - 1
              /\ CountCharacters(s, p.AnnotationLength, pos) = k - Len(p.Annotation)
              /\ LinkAt(p.text, k - Len(p.Annotation)) = LinkAt(s, k)
    <3> HIDE DEF p, s
    <3> QED BY <1>5, <1>6, <2>0, PointedAt
  <2> HIDE DEF p, s
  <2>2. LinkAt(x, n) = LinkAt(s, k)
    BY <2>1, <1>6
  <2>3. ASSUME k \in Linked(s)
        PROVE  Bytes(range) = AllBytes(s, {m \in Linked(s) : LinkAt(s, m) = LinkAt(s, k)})
    <3> DEFINE K == {m \in Linked(s) : LinkAt(s, m) = LinkAt(s, k)}
               a == p.Annotation
               b == p.text
               j == k - Len(a)
    <3>1. /\ k < Len(a) => Bytes(getPositionsForCharacterRange(s, LinkStart(a, k), LinkEnd(a, k))) = AllBytes(s, K)
          /\ ~(k < Len(a)) =>
               Bytes(getPositionsForCharacterRange(s, LinkStart(b, j) + Len(a), LinkEnd(b, j) + Len(a))) = AllBytes(s, K)
      BY <2>3, <1>5, <1>6, HighlightIsTheLink
    <3> HIDE DEF K
    <3>2. CASE k < Len(a)
      <4>1. annotated /\ n = k /\ x = a
        BY <3>2, <2>1, <1>6
      <4>2. range = getPositionsForCharacterRange(s, LinkStart(a, k), LinkEnd(a, k))
        BY <4>1, <1>6 DEF getAnnotationByteOffsetRange
      <4> QED BY <4>2, <3>1, <3>2 DEF K
    <3>3. CASE ~(k < Len(a))
      <4>1. ~annotated /\ n = j /\ x = b
        BY <3>3, <2>1, <1>6
      <4>2. range = getPositionsForCharacterRange(s, LinkStart(b, j) + Len(a), LinkEnd(b, j) + Len(a))
        BY <4>1, <1>6 DEF getAnnotationByteOffsetRange, getExplanationByteOffsetRange
      <4> QED BY <4>2, <3>1, <3>3 DEF K
    <3> QED BY <3>2, <3>3
  <2>4. ASSUME ~annotated, ~p.Explanation PROVE LinkAt(s, k) = NoLink /\ p.view \in DOMAIN Explained /\ Explained[p.view].result = "error"
    <3>1. k - Len(p.Annotation) \in 0..Len(p.text) - 1 /\ LinkAt(p.text, k - Len(p.Annotation)) = LinkAt(s, k)
      BY <2>4, <2>1
    <3>2. p.text # <<>>
      BY <3>1
    <3>3. Linked(p.text) = {} /\ p.view \in DOMAIN Explained /\ Explained[p.view].result = "error"
      BY <3>2, <2>4, <1>6 DEF TextsInv
    <3> QED BY <3>1, <3>3 DEF Linked
  <2>5. ExplanationExists'
    <3>1. CASE ~annotated /\ ~p.Explanation
      <4>1. nullRead' = p.view
        BY <1>7, <1>10, <3>1
      <4> QED BY <4>1, <3>1, <2>4 DEF ExplanationExists
    <3>2. CASE ~(~annotated /\ ~p.Explanation)
      <4>1. nullRead' = nullRead
        BY <1>7, <3>2
      <4> QED BY <4>1, <1>0 DEF ExplanationExists
    <3> QED BY <3>1, <3>2
  <2>6. CASE LinkAt(s, k) = NoLink
    <3>1. explanation' = p
      BY <1>7, <1>10, <2>2, <2>6
    <3>2. Under(p) = NoLink
      BY <1>5, <1>6, <1>2, <2>0, <2>6, UnderIs
    <3>3. PointerInv(p)
      BY <3>2, <1>5, <1>6, <2>0 DEF PointerInv
    <3> QED BY <3>1, <3>3, <1>5, <1>6, <1>8, <2>5 DEF ExplanationInv
  <2>7. CASE LinkAt(s, k) # NoLink
    <3> DEFINE l == LinkAt(s, k)
               K == {m \in Linked(s) : LinkAt(s, m) = l}
               B == Bytes(range)
               o == OverLink(g, l)
    <3>1. k \in Linked(s)
      BY <2>7, <2>0 DEF Linked
    <3>2. B = AllBytes(s, K)
      BY <3>1, <2>3
    <3>3. explanation' = OverLink(g, l)
      BY <1>7, <1>10, <2>2, <2>4, <2>7
    <3>4. B \in SUBSET Int
      <4>1. K \subseteq 0..Len(s) - 1
        BY DEF Linked
      <4>2. AllBytes(s, K) \in SUBSET Int
        BY <4>1, <1>2, BytesAreInt
      <4> HIDE DEF B, K
      <4> QED BY <4>2, <3>2, Zenon
    <3>5. l \in Links
      BY <2>0, <1>2, LinkIsString DEF Links
    <3>6. g = [p EXCEPT !.filled = B]
      OBVIOUS
    <3> HIDE DEF B, g
    <3>7. g \in Explanations /\ SameTexts(p, g) /\ g.filled = B /\ g.mouse = pos /\ g.URLHover = FALSE
      BY <3>6, <3>4, <1>5 DEF Explanations, SameTexts
    <3> HIDE DEF l
    <3>8. /\ o \in Explanations /\ SameTexts(g, o) /\ o.filled = B /\ o.mouse = pos
          /\ \/ o.URLHover = FALSE /\ o.URLClick = FALSE
             \/ o.URLHover = TRUE /\ o.URLHovered = l
      BY <3>7, <3>5, OverLinkIs
    <3> HIDE DEF o
    <3>9. TextsInv(o) /\ Shown(o) = s
      BY <3>7, <3>8, <1>6, SameTextsKept
    <3>10. o.mouse # INVALID /\ Under(o) = l
      BY <3>8, <3>9, <2>0, <1>2, UnderIs DEF l
    <3>11. PointerInv(o)
      <4>1. o.filled = AllBytes(Shown(o), {m \in Linked(Shown(o)) : LinkAt(Shown(o), m) = Under(o)})
        BY <3>2, <3>8, <3>9, <3>10
      <4>2. \E i \in 0..Len(Shown(o)) - 1 : o.mouse = Offset(Shown(o), i)
        BY <3>8, <3>9, <2>0
      <4> QED BY <4>1, <4>2, <3>8, <3>10 DEF PointerInv
    <3> QED BY <3>3, <3>8, <3>9, <3>11, <1>8, <2>5 DEF ExplanationInv, o
  <2> QED BY <2>6, <2>7
<1> QED BY <1>9, <1>10

\* Leaving the panel, and the button.
LEMMA ButtonKeeps ==
  ASSUME ExplanationInv, OnLeaveWindow \/ OnLeftDown \/ OnLeftUp
  PROVE  ExplanationInv'
<1> DEFINE e == explanation
<1>0. e \in Explanations /\ TextsInv(e) /\ PointerInv(e) /\ OpenedIsUnderPointer /\ ExplanationExists
  BY DEF ExplanationInv
<1>1. NoLink \in Links /\ INVALID \in Int
  <2>1. NoLink \in Links
    BY DEF Links
  <2>2. INVALID \in Int
    BY DEF INVALID
  <2> QED BY <2>1, <2>2
<1>2. CASE OnLeaveWindow
  <2> DEFINE c == clearCurrent(e)
             q == [c EXCEPT !.URLClick = FALSE]
  <2>1. explanation' = q /\ opened' = opened /\ nullRead' = nullRead
    BY <1>2 DEF OnLeaveWindow
  <2> HIDE DEF e
  <2>2. c \in Explanations /\ SameTexts(e, c) /\ c.filled = {} /\ c.mouse = INVALID /\ c.URLHover = FALSE
    BY <1>0, <1>1 DEF clearCurrent, Explanations, SameTexts
  <2> HIDE DEF c
  <2>3. q \in Explanations /\ SameTexts(e, q) /\ q.filled = {} /\ q.mouse = INVALID /\ q.URLHover = FALSE
    BY <2>2 DEF Explanations, SameTexts
  <2> HIDE DEF q
  <2>4. TextsInv(q) /\ PointerInv(q)
    BY <2>3, <1>0, SameTextsKept, UntouchedPointer
  <2> QED BY <2>1, <2>3, <2>4, <1>0 DEF ExplanationInv, OpenedIsUnderPointer, ExplanationExists
<1>3. CASE OnLeftDown
  <2> DEFINE q == IF e.URLHover THEN [e EXCEPT !.URLClick = TRUE] ELSE ForgetURL(e)
  <2>1. explanation' = q /\ opened' = opened /\ nullRead' = nullRead
    BY <1>3 DEF OnLeftDown
  <2> HIDE DEF e
  <2>2. /\ q \in Explanations /\ SameTexts(e, q) /\ q.filled = e.filled /\ q.mouse = e.mouse /\ q.URLHover = e.URLHover
        /\ e.URLHover => q.URLHovered = e.URLHovered
        /\ ~e.URLHover => ~q.URLClick
    BY <1>0, <1>1 DEF ForgetURL, Explanations, SameTexts
  <2> HIDE DEF q
  <2>3. TextsInv(q) /\ Shown(q) = Shown(e)
    BY <2>2, <1>0, SameTextsKept
  <2>4. Under(q) = Under(e)
    BY <2>2, <2>3 DEF Under
  <2>5. PointerInv(q)
    BY <2>2, <2>3, <2>4, <1>0 DEF PointerInv
  <2> QED BY <2>1, <2>2, <2>3, <2>5, <1>0 DEF ExplanationInv, OpenedIsUnderPointer, ExplanationExists
<1>4. CASE OnLeftUp
  <2>1. explanation' = e /\ nullRead' = nullRead
        /\ opened' = IF e.URLClick THEN [url |-> e.URLHovered, under |-> Under(e)] ELSE opened
    BY <1>4 DEF OnLeftUp
  <2>2. OpenedIsUnderPointer'
    BY <2>1, <1>0 DEF OpenedIsUnderPointer, PointerInv
  <2> QED BY <2>1, <2>2, <1>0 DEF ExplanationInv, ExplanationExists
<1> QED BY <1>2, <1>3, <1>4

LEMMA ExplanationStarts ==
  ExplanationInit => ExplanationInv
<1> SUFFICES ASSUME ExplanationInit PROVE ExplanationInv
  OBVIOUS
<1>1. NoLink \in Links /\ INVALID \in Int
  <2>1. NoLink \in Links
    BY DEF Links
  <2>2. INVALID \in Int
    BY DEF INVALID
  <2> QED BY <2>1, <2>2
<1>2. Blank(explanation)
  BY <1>1, NoLinksInNothing DEF ExplanationInit, Blank, Explanations
<1>3. TextsInv(explanation) /\ PointerInv(explanation)
  BY <1>2, BlankTexts, UntouchedPointer DEF Blank
<1> QED BY <1>2, <1>3 DEF ExplanationInv, Blank, ExplanationInit, OpenedIsUnderPointer, ExplanationExists

LEMMA ExplanationKept ==
  ExplanationInv /\ [ExplanationNext]_explanationVars => ExplanationInv'
<1> SUFFICES ASSUME ExplanationInv, [ExplanationNext]_explanationVars PROVE ExplanationInv'
  OBVIOUS
<1>1. ASSUME NEW v \in DOMAIN Explained, showExplained(v) PROVE ExplanationInv'
  <2>1. opened' = opened /\ nullRead' = nullRead
    BY <1>1 DEF showExplained
  <2>2. explanation' \in Explanations /\ TextsInv(explanation') /\ PointerInv(explanation')
    BY <1>1, ShowingKeeps
  <2> QED BY <2>1, <2>2 DEF ExplanationInv, OpenedIsUnderPointer, ExplanationExists
<1>2. CASE UNCHANGED explanationVars
  BY <1>2 DEF explanationVars, ExplanationInv, OpenedIsUnderPointer, ExplanationExists
<1> QED BY <1>1, <1>2, MotionKeeps, ButtonKeeps DEF ExplanationNext

LEMMA ExplanationFaithful ==
  ExplanationInv => LinksAreFaithful
<1> SUFFICES ASSUME ExplanationInv PROVE LinksAreMarked
  BY DEF LinksAreFaithful, ExplanationInv
<1> DEFINE e == explanation
           s == Shown(e)
           t == e.Annotation
           live == {n \in Linked(s) : n < Len(t) \/ e.Explanation}
           bytes(n) == Offset(s, n)..Offset(s, n + 1) - 1
<1>0. e \in Explanations /\ TextsInv(e) /\ PointerInv(e)
  BY DEF ExplanationInv
<1>1. live = Linked(s)
  <2>1. CASE e.Explanation
    BY <2>1
  <2>2. CASE ~e.Explanation
    <3>1. Linked(e.text) = {} /\ t \in Seq(Character) /\ e.text \in Seq(Character) /\ s = t \o e.text
      BY <2>2, <1>0 DEF TextsInv, Explanations, Shown
    <3> HIDE DEF s, t
    <3>2. Linked(s) = Linked(t)
      <4>1. Linked(t \o e.text) = Linked(t) \cup {k + Len(t) : k \in Linked(e.text)}
        BY <3>1, LinksOfConcat
      <4>2. {k + Len(t) : k \in Linked(e.text)} = {}
        BY <3>1
      <4> QED BY <4>1, <4>2, <3>1
    <3>3. \A n \in Linked(t) : n < Len(t)
      BY <3>1 DEF Linked
    <3> QED BY <3>2, <3>3
  <2> QED BY <2>1, <2>2
<1>2. e.interactive = UNION {bytes(n) : n \in live}
  <2> HIDE DEF live
  <2> QED BY <1>0, <1>1 DEF TextsInv, AllBytes, CharBytes
<1> DEFINE M == {m \in live : e.mouse # INVALID /\ e.filled # {} /\ LinkAt(s, m) = Under(e)}
<1>3. e.filled = UNION {bytes(n) : n \in M}
  <2>1. CASE e.filled = {}
    <3>1. M = {}
      BY <2>1
    <3> HIDE DEF M
    <3> QED BY <3>1, <2>1
  <2>2. CASE e.filled # {}
    <3>1. e.mouse # INVALID /\ e.filled = AllBytes(s, {m \in Linked(s) : LinkAt(s, m) = Under(e)})
      BY <2>2, <1>0 DEF PointerInv
    <3>2. M = {m \in Linked(s) : LinkAt(s, m) = Under(e)}
      BY <3>1, <2>2, <1>1
    <3> HIDE DEF M
    <3> QED BY <3>1, <3>2 DEF AllBytes, CharBytes
  <2> QED BY <2>1, <2>2
<1> QED BY <1>2, <1>3 DEF LinksAreMarked

\* The links of an explanation are where they are shown and lead where they say,
\* for all texts, of whatever length and of characters of whatever width.
THEOREM LinksStayFaithful == ExplanationSpec => []LinksAreFaithful
<1>1. ExplanationSpec => []ExplanationInv
  BY ExplanationStarts, ExplanationKept, PTL DEF ExplanationSpec
<1> QED BY <1>1, ExplanationFaithful, PTL

--------------------------------------------------------------------------------
(***************************************************************************)
(* Writes: where they end, and how they are shown.                         *)
(***************************************************************************)
LEMMA NewLengthIs ==
  ASSUME NEW writes \in Writes
  PROVE  /\ NewLength(writes, 0) = 0 /\ NewLength(writes, Len(writes)) = Len(Written(writes))
         /\ \A n \in 0..Len(writes) : NewLength(writes, n) \in Nat
         /\ \A n \in 0..Len(writes) : \A m \in n..Len(writes) : NewLength(writes, n) <= NewLength(writes, m)
         /\ \A n \in 0..Len(writes) - 1 : NewLength(writes, n + 1) = NewLength(writes, n) + Len(writes[n + 1])
<1> DEFINE S == {"p", "c", "x"}
<1>0. writes \in Seq(Seq(S)) /\ Len(writes) \in Nat
  BY DEF Writes
<1> HIDE DEF S
<1>1. \A n : NewLength(writes, n) = Len(JoinedFirst(writes, n))
  BY DEF NewLength, Written, JoinedFirst
<1>2. /\ JoinedFirst(writes, 0) = <<>> /\ JoinedFirst(writes, Len(writes)) = FlattenSeq(writes)
      /\ \A n \in 0..Len(writes) : JoinedFirst(writes, n) \in Seq(S)
      /\ \A n \in 0..Len(writes) - 1 : JoinedFirst(writes, n + 1) = JoinedFirst(writes, n) \o writes[n + 1]
  BY <1>0, JoinedIs
<1>3. NewLength(writes, 0) = 0
  BY <1>1, <1>2
<1>4. NewLength(writes, Len(writes)) = Len(Written(writes))
  BY <1>1, <1>2 DEF Written
<1>5. ASSUME NEW n \in 0..Len(writes) PROVE NewLength(writes, n) \in Nat
  <2>1. JoinedFirst(writes, n) \in Seq(S)
    BY <1>2
  <2> QED BY <2>1, <1>1
<1>6. ASSUME NEW n \in 0..Len(writes), NEW m \in n..Len(writes) PROVE NewLength(writes, n) <= NewLength(writes, m)
  BY <1>0, <1>1, JoinedGrows
<1>7. ASSUME NEW n \in 0..Len(writes) - 1 PROVE NewLength(writes, n + 1) = NewLength(writes, n) + Len(writes[n + 1])
  <2>1. n \in 0..Len(writes) /\ n + 1 \in 1..Len(writes)
    BY <1>0
  <2>2. JoinedFirst(writes, n) \in Seq(S) /\ writes[n + 1] \in Seq(S)
    BY <2>1, <1>0, <1>2
  <2>3. JoinedFirst(writes, n + 1) = JoinedFirst(writes, n) \o writes[n + 1]
    BY <1>2
  <2>4. Len(JoinedFirst(writes, n) \o writes[n + 1]) = Len(JoinedFirst(writes, n)) + Len(writes[n + 1])
    BY <2>2
  <2> QED BY <2>3, <2>4, <1>1
<1> QED BY <1>3, <1>4, <1>5, <1>6, <1>7

\* The write of a byte is the first that ends after it.
LEMMA WriteOf ==
  ASSUME NEW writes \in Writes, NEW p \in 0..Len(Written(writes)) - 1
  PROVE  LET w == Min({i \in DOMAIN writes : p < NewLength(writes, i)})
         IN  /\ w \in 1..Len(writes) /\ p < NewLength(writes, w) /\ NewLength(writes, w - 1) <= p
             /\ \A i \in 1..Len(writes) : p < NewLength(writes, i) => w <= i
<1> DEFINE Q == {i \in DOMAIN writes : p < NewLength(writes, i)}
           w == Min(Q)
           l == Len(writes)
           total == Len(Written(writes))
<1>0. l \in Nat /\ DOMAIN writes = 1..l
  BY DEF Writes
<1>1. /\ NewLength(writes, 0) = 0 /\ NewLength(writes, l) = total
      /\ \A n \in 0..l : NewLength(writes, n) \in Nat
  BY NewLengthIs
<1>2. p < NewLength(writes, l) /\ p \in Nat /\ l # 0
  <2>1. total \in Nat /\ p \in 0..total - 1
    <3>1. l \in 0..l
      BY <1>0
    <3> QED BY <3>1, <1>1
  <2> HIDE DEF total
  <2>2. p < total /\ p \in Nat
    BY <2>1
  <2> QED BY <2>2, <1>1
<1>3. l \in Q /\ Q \subseteq Nat
  BY <1>0, <1>2
<1>4. w \in Q /\ \A y \in Q : w <= y
  <2> HIDE DEF Q
  <2> QED BY <1>3, MinExists
<1> HIDE DEF w
<1>5. w \in 1..l /\ p < NewLength(writes, w)
  BY <1>4, <1>0
<1>6. NewLength(writes, w - 1) <= p
  <2>1. CASE w = 1
    <3>1. w - 1 = 0
      BY <2>1
    <3> QED BY <3>1, <1>1, <1>2
  <2>2. CASE w # 1
    <3>1. w - 1 \in 1..l /\ w - 1 \in 0..l /\ ~(w <= w - 1)
      BY <2>2, <1>5, <1>0
    <3>2. w - 1 \notin Q
      BY <3>1, <1>4
    <3>3. ~(p < NewLength(writes, w - 1))
      BY <3>1, <3>2, <1>0
    <3> QED BY <3>1, <3>3, <1>1, <1>2
  <2> QED BY <2>1, <2>2
<1>7. \A i \in 1..l : p < NewLength(writes, i) => w <= i
  BY <1>4, <1>0
<1> QED BY <1>5, <1>6, <1>7 DEF w

\* Characters of ASCII text.
LEMMA ASCIIWidths ==
  ASSUME NEW writes \in Writes
  PROVE  HasWidths(ASCIIText(writes)) /\ Len(ASCIIText(writes)) = Len(Written(writes))
<1> DEFINE w == Written(writes)
           t == ASCIIText(writes)
           S == {"p", "c", "x"}
<1>0. w \in Seq(S)
  <2>1. writes \in Seq(Seq(S)) /\ Len(writes) \in 0..Len(writes)
    BY DEF Writes
  <2> HIDE DEF S
  <2> QED BY <2>1, JoinedIs DEF Written
<1>1. t = [i \in DOMAIN w |-> Char(IF w[i] = "p" THEN 1 ELSE 3)]
  BY DEF ASCIIText
<1> HIDE DEF w, t, S
<1>2. DOMAIN w = 1..Len(w) /\ Len(w) \in Nat
  BY <1>0
<1>3. t = [i \in 1..Len(w) |-> Char(IF w[i] = "p" THEN 1 ELSE 3)]
  BY <1>1, <1>2
<1>4. Len(t) = Len(w)
  BY <1>2, <1>3
<1>5. \A i \in 1..Len(t) : t[i].width \in Nat \ {0}
  <2> TAKE i \in 1..Len(t)
  <2>1. t[i] = Char(IF w[i] = "p" THEN 1 ELSE 3)
    BY <1>3, <1>4
  <2> QED BY <2>1 DEF Char
<1>6. HasWidths(t)
  BY <1>2, <1>4, <1>5 DEF HasWidths
<1> QED BY <1>4, <1>6 DEF t, w

\* The first writes are shown as the beginning of the text.
LEMMA ASCIIPrefix ==
  ASSUME NEW writes \in Writes, NEW n \in 0..Len(writes)
  PROVE  Length(ASCIIText(SubSeq(writes, 1, n))) = Offset(ASCIIText(writes), NewLength(writes, n))
<1> DEFINE S == {"p", "c", "x"}
           r == SubSeq(writes, 1, n)
           a == Written(r)
           b == Written(writes)
           t == ASCIIText(r)
           u == ASCIIText(writes)
           l == NewLength(writes, n)
<1>0. writes \in Seq(Seq(S)) /\ Len(writes) \in Nat
  BY DEF Writes
<1>1. r \in Writes
  <2> HIDE DEF S
  <2>1. r \in Seq(Seq(S))
    BY <1>0
  <2> QED BY <2>1 DEF Writes, S
<1>2. l = Len(a)
  BY DEF NewLength
<1>3. Len(t) = l /\ l \in Nat
  <2>1. Len(t) = Len(a)
    BY <1>1, ASCIIWidths
  <2>2. l \in Nat
    BY NewLengthIs
  <2> QED BY <2>1, <2>2, <1>2
<1>4. Len(a) <= Len(b) /\ \A i \in 1..Len(a) : b[i] = a[i]
  <2>1. JoinedFirst(writes, n) = a /\ JoinedFirst(writes, Len(writes)) = b
    <3>1. JoinedFirst(writes, Len(writes)) = FlattenSeq(writes)
      BY <1>0, JoinedIs
    <3> QED BY <3>1 DEF JoinedFirst, Written
  <2>2. Len(writes) \in n..Len(writes)
    BY <1>0
  <2> HIDE DEF S, a, b
  <2> QED BY <2>1, <2>2, <1>0, JoinedGrows
<1>5. DOMAIN a = 1..Len(a) /\ DOMAIN b = 1..Len(b) /\ Len(b) \in Nat
  <2>1. a \in Seq(S) /\ b \in Seq(S)
    <3>1. r \in Seq(Seq(S))
      BY <1>1 DEF Writes
    <3>2. Len(r) \in 0..Len(r) /\ Len(writes) \in 0..Len(writes)
      BY <3>1, <1>0
    <3> HIDE DEF r, S
    <3> QED BY <3>1, <3>2, <1>0, JoinedIs DEF Written
  <2> HIDE DEF a, b, S
  <2> QED BY <2>1
<1>6. t = [i \in DOMAIN a |-> Char(IF a[i] = "p" THEN 1 ELSE 3)] /\ u = [i \in DOMAIN b |-> Char(IF b[i] = "p" THEN 1 ELSE 3)]
  BY DEF ASCIIText
<1> HIDE DEF a, b, t, u, l
<1>7. \A i \in 1..l : t[i].width = u[i].width
  <2> TAKE i \in 1..l
  <2>1. i \in DOMAIN a /\ i \in DOMAIN b /\ a[i] = b[i]
    BY <1>2, <1>3, <1>4, <1>5
  <2> QED BY <2>1, <1>6
<1>8. Offset(t, l) = Offset(u, l)
  <2>1. l \in 0..l
    BY <1>3
  <2> QED BY <2>1, <1>3, <1>7, OffsetPrefix
<1> QED BY <1>8, <1>3 DEF Length, t, u, l

\* Text in characters of one byte is as long as it has characters.
Narrow == [width : {1}]

LEMMA NarrowLength ==
  ASSUME NEW t \in Seq(Narrow)
  PROVE  Length(t) = Len(t)
<1> DEFINE T == {k \in Nat : k <= Len(t) => Offset(t, k) = k}
<1>0. Len(t) \in Nat
  OBVIOUS
<1>1. 0 \in T
  BY OffsetStep
<1>2. ASSUME NEW k \in T PROVE k + 1 \in T
  <2>1. k \in Nat
    OBVIOUS
  <2>2. CASE k + 1 <= Len(t)
    <3>1. k <= Len(t) /\ k + 1 \in 1..Len(t)
      BY <2>1, <2>2, <1>0
    <3>2. t[k + 1] \in Narrow
      BY <3>1
    <3>3. t[k + 1].width = 1
      BY <3>2 DEF Narrow
    <3>4. Offset(t, k + 1) = Offset(t, k) + t[k + 1].width
      BY <2>1, OffsetStep
    <3>5. Offset(t, k) = k
      BY <3>1
    <3> QED BY <3>3, <3>4, <3>5, <2>1
  <2> QED BY <2>1, <2>2
<1> HIDE DEF T
<1>3. T \subseteq Nat
  BY DEF T
<1>4. \A k \in Nat : k \in T
  BY <1>1, <1>2, <1>3, SetInduction
<1>5. Offset(t, Len(t)) = Len(t)
  BY <1>4, <1>0 DEF T
<1> QED BY <1>5 DEF Length

\* Each write has a line, which is longer than an empty one by four characters
\* for each byte.
LEMMA LineStartIs ==
  ASSUME NEW writes \in Writes
  PROVE  /\ LineStart(writes, 0) = 0
         /\ \A n \in 0..Len(writes) : LineStart(writes, n) \in Nat
         /\ \A n \in 0..Len(writes) - 1 : LineStart(writes, n + 1) = LineStart(writes, n) + 4 * Len(writes[n + 1]) + 1
<1> DEFINE l == Len(writes)
           b == [i \in DOMAIN writes |-> BinaryLine(writes[i])]
<1>0. l \in Nat /\ DOMAIN writes = 1..l /\ \A i \in 1..l : Len(writes[i]) \in Nat
  <2>1. writes \in Seq(Seq({"p", "c", "x"}))
    BY DEF Writes
  <2>2. l \in Nat /\ DOMAIN writes = 1..l
    BY <2>1
  <2>3. ASSUME NEW i \in 1..l PROVE Len(writes[i]) \in Nat
    <3>1. writes[i] \in Seq({"p", "c", "x"})
      BY <2>1
    <3> QED BY <3>1
  <2> QED BY <2>2, <2>3
<1>1. ASSUME NEW i \in 1..l
      PROVE  BinaryLine(writes[i]) \in Seq(Narrow) /\ Len(BinaryLine(writes[i])) = 4 * Len(writes[i]) + 1
  <2> DEFINE k == 4 * Len(writes[i]) + 1
             f == [j \in 1..k |-> Char(1)]
  <2>1. BinaryLine(writes[i]) = f
    BY DEF BinaryLine
  <2>2. k \in Nat
    BY <1>0
  <2>3. Char(1) \in Narrow
    BY DEF Char, Narrow
  <2> HIDE DEF k
  <2>4. f \in Seq(Narrow) /\ Len(f) = k
    BY <2>2, <2>3
  <2> QED BY <2>1, <2>4 DEF k
<1>2. b \in Seq(Seq(Narrow)) /\ Len(b) = l /\ \A i \in 1..l : b[i] = BinaryLine(writes[i])
  BY <1>0, <1>1
<1> HIDE DEF b
<1>3. ASSUME NEW n \in 0..l PROVE BinaryText(SubSeq(writes, 1, n)) = JoinedFirst(b, n)
  <2> DEFINE r == SubSeq(writes, 1, n)
             f == [i \in DOMAIN r |-> BinaryLine(r[i])]
             g == SubSeq(b, 1, n)
  <2>0. n \in Nat /\ n <= l
    BY <1>0
  <2>1. DOMAIN r = 1..n /\ \A i \in 1..n : r[i] = writes[i]
    BY <2>0, <1>0 DEF Writes
  <2>2. g = [i \in 1..n |-> b[i]]
    BY <2>0, <1>0, <1>2
  <2>3. \A i \in 1..n : b[i] = BinaryLine(writes[i])
    BY <2>0, <1>0, <1>2
  <2>4. f = [i \in 1..n |-> BinaryLine(writes[i])]
    <3> HIDE DEF r
    <3> QED BY <2>1
  <2>5. f = g
    <3> HIDE DEF f, g
    <3> QED BY <2>2, <2>3, <2>4
  <2> QED BY <2>5 DEF BinaryText, JoinedFirst
<1>4. /\ JoinedFirst(b, 0) = <<>>
      /\ \A n \in 0..l : JoinedFirst(b, n) \in Seq(Narrow)
      /\ \A n \in 0..l - 1 : JoinedFirst(b, n + 1) = JoinedFirst(b, n) \o b[n + 1]
  <2> HIDE DEF l
  <2> QED BY <1>2, JoinedIs
<1>5. ASSUME NEW n \in 0..l PROVE LineStart(writes, n) = Len(JoinedFirst(b, n)) /\ Len(JoinedFirst(b, n)) \in Nat
  <2>1. JoinedFirst(b, n) \in Seq(Narrow)
    BY <1>4
  <2>2. Length(JoinedFirst(b, n)) = Len(JoinedFirst(b, n))
    BY <2>1, NarrowLength
  <2>3. LineStart(writes, n) = Length(JoinedFirst(b, n))
    BY <1>3 DEF LineStart
  <2> QED BY <2>1, <2>2, <2>3
<1>6. LineStart(writes, 0) = 0
  <2>1. 0 \in 0..l
    BY <1>0
  <2> QED BY <2>1, <1>4, <1>5
<1>7. ASSUME NEW n \in 0..l - 1 PROVE LineStart(writes, n + 1) = LineStart(writes, n) + 4 * Len(writes[n + 1]) + 1
  <2> DEFINE x == JoinedFirst(b, n)
             y == b[n + 1]
  <2>1. n \in 0..l /\ n + 1 \in 0..l /\ n + 1 \in 1..l
    BY <1>0
  <2>2. x \in Seq(Narrow) /\ y \in Seq(Narrow) /\ Len(y) = 4 * Len(writes[n + 1]) + 1
    BY <2>1, <1>1, <1>2, <1>4
  <2>3. JoinedFirst(b, n + 1) = x \o y
    BY <1>4
  <2>4. LineStart(writes, n + 1) = Len(JoinedFirst(b, n + 1)) /\ LineStart(writes, n) = Len(x)
    BY <2>1, <1>5
  <2> HIDE DEF x, y
  <2>5. Len(x \o y) = Len(x) + Len(y) /\ Len(x) \in Nat
    BY <2>2
  <2>6. Len(writes[n + 1]) \in Nat
    BY <2>1, <1>0
  <2>7. LineStart(writes, n + 1) = LineStart(writes, n) + Len(y) /\ LineStart(writes, n) \in Nat
    BY <2>3, <2>4, <2>5
  <2> DEFINE k == Len(writes[n + 1])
             o == LineStart(writes, n)
  <2>8. k \in Nat /\ o \in Nat /\ Len(y) = 4 * k + 1 /\ LineStart(writes, n + 1) = o + Len(y)
    BY <2>2, <2>6, <2>7
  <2>9. LineStart(writes, n + 1) = o + 4 * k + 1
    <3> HIDE DEF k, o
    <3> QED BY <2>8
  <2> QED BY <2>9
<1> QED BY <1>5, <1>6, <1>7

LEMMA LineFromPositionIs ==
  ASSUME NEW writes \in Writes, NEW hit \in Nat
  PROVE  LineFromPosition(writes, hit) \in 0..Len(writes)
<1> DEFINE Q == {line \in 0..Len(writes) : LineStart(writes, line) <= hit}
<1>0. Len(writes) \in Nat
  BY DEF Writes
<1>1. 0 \in Q /\ Q \subseteq Nat /\ \A x \in Q : x <= Len(writes)
  BY <1>0, LineStartIs
<1>2. Max(Q) \in Q
  <2> HIDE DEF Q
  <2> QED BY <1>0, <1>1, MaxExists
<1> QED BY <1>2 DEF LineFromPosition

--------------------------------------------------------------------------------
(***************************************************************************)
(* The inductive invariant of the panel.                                   *)
(***************************************************************************)
StreamPages == [born : Nat, MouseOverPosition : Int, filled : SUBSET Int, ClickUnmoved : BOOLEAN]

ShownAs(writes, i) ==
    IF HasNonASCII(writes) THEN Bytes(<<LineStart(writes, i - 1), LineStart(writes, i) - 1>>)
    ELSE Bytes(<<Length(ASCIIText(SubSeq(writes, 1, i - 1))), Length(ASCIIText(SubSeq(writes, 1, i)))>>)

\* A position is of a byte that was written, or of nothing.
Somewhere(writes, p) == p \in 0..Len(Written(writes)) - 1 \/ Nowhere(writes, p)

PageInv(page, writes) ==
    /\ page \in StreamPages
    /\ Somewhere(writes, page.MouseOverPosition)
    /\ page.filled # {} =>
          /\ page.MouseOverPosition \in 0..Len(Written(writes)) - 1
          /\ page.filled = ShownAs(writes, Min({i \in DOMAIN writes : page.MouseOverPosition < NewLength(writes, i)}))

Movers == [address : Nat, born : Nat, position : Int]

\* A page, and a position on it, are there.
Found(m, pages, v) ==
    m.address # 0 => /\ m.address \in DOMAIN pages /\ pages[m.address].born = m.born
                     /\ Somewhere(StreamViews[v][m.address], m.position)

PagesInv(pages, v) ==
    /\ v \in DOMAIN StreamViews
    /\ pages = [a \in DOMAIN StreamViews[v] |-> pages[a]]
    /\ \A a \in DOMAIN StreamViews[v] : PageInv(pages[a], StreamViews[v][a])

StreamInv ==
    /\ shows \in Nat /\ PagesInv(streamPages, view)
    /\ streamMenu \in Seq(Movers) /\ Len(streamMenu) <= 1 /\ movers \in Seq(Movers)
    /\ late \in BOOLEAN /\ (streamMenu # <<>> => streamMenu[1].address # 0)
    /\ ~late => /\ streamMenu # <<>> => Found(streamMenu[1], streamPages, view)
                /\ \A i \in 1..Len(movers) : Found(movers[i], streamPages, view)
    /\ MoversFindTheirWrite

\* A page over which the pointer is not.
LEMMA EmptyPage ==
  ASSUME NEW page \in StreamPages, page.MouseOverPosition = NoPosition, page.filled = {}, NEW writes
  PROVE  PageInv(page, writes)
BY DEF PageInv, Somewhere, Nowhere

\* The place of the pointer in text, and its highlight.
LEMMA HitText ==
  ASSUME NEW writes \in Writes, ~HasNonASCII(writes), NEW hit \in Boundaries(Display(writes)),
         NEW page, PageInv(page, writes)
  PROVE  PageInv(SetPositionAndHighlightFromHit(page, writes, hit), writes)
<1> DEFINE t == ASCIIText(writes)
           total == Len(Written(writes))
           position == CountCharacters(t, 0, hit)
           write == getWriteAt(writes, position)
           range == getPositionsForCharacterRange(t, write[1], write[2])
           q == [page EXCEPT !.MouseOverPosition = position, !.filled = Bytes(range)]
<1>0. HasWidths(t) /\ Len(t) = total /\ total \in Nat
  BY ASCIIWidths DEF HasWidths
<1>1. PICK k \in 0..Len(t) : hit = Offset(t, k)
  <2>1. Display(writes) = t
    BY DEF Display
  <2> QED BY <2>1 DEF Boundaries
<1>2. position = k
  <2>1. 0 \in Nat /\ k \in Nat /\ 0 <= k /\ k <= Len(t) /\ k - 0 = k
    BY <1>0
  <2> HIDE DEF t
  <2>2. CountCharacters(t, Offset(t, 0), Offset(t, k)) = k - 0
    BY <2>1, <1>0, CountIs
  <2>3. Offset(t, 0) = 0
    BY OffsetStep
  <2> QED BY <2>1, <2>2, <2>3, <1>1
<1>3. SetPositionAndHighlightFromHit(page, writes, hit)
        = IF position = page.MouseOverPosition \/ position >= total THEN page ELSE q
  BY DEF SetPositionAndHighlightFromHit
<1>4. CASE position >= total
  BY <1>3, <1>4
<1>5. CASE ~(position >= total)
  <2> DEFINE w == Min({i \in DOMAIN writes : position < NewLength(writes, i)})
             a == NewLength(writes, w - 1)
             b == NewLength(writes, w)
  <2>1. position \in 0..total - 1
    <3> HIDE DEF position, t, total
    <3> QED BY <1>0, <1>2, <1>5
  <2>2. w \in 1..Len(writes) /\ Len(writes) \in Nat
    <3>1. Len(writes) \in Nat
      BY DEF Writes
    <3> HIDE DEF position
    <3> QED BY <2>1, <3>1, WriteOf
  <2>3. write = <<a, b>>
    BY DEF getWriteAt, getWrite
  <2> HIDE DEF w
  <2>4. a \in Nat /\ b \in Nat /\ a <= b /\ b <= total /\ w - 1 \in 0..Len(writes) /\ w \in 0..Len(writes)
    <3>1. w - 1 \in 0..Len(writes) /\ w \in 0..Len(writes) /\ w \in (w - 1)..Len(writes) /\ Len(writes) \in w..Len(writes)
      BY <2>2
    <3> QED BY <3>1, NewLengthIs
  <2>5. range = <<Offset(t, a), Offset(t, b)>>
    <3>1. a \in 0..Len(t) /\ b \in a..Len(t) /\ write[1] = a /\ write[2] = b
      <4> HIDE DEF a, b, t, write, total
      <4> QED BY <2>3, <2>4, <1>0
    <3> HIDE DEF a, b, t, write
    <3> QED BY <3>1, <1>0, CharacterRangesAreExact
  <2>6. Length(ASCIIText(SubSeq(writes, 1, w - 1))) = Offset(t, a) /\ Length(ASCIIText(SubSeq(writes, 1, w))) = Offset(t, b)
    BY <2>4, ASCIIPrefix
  <2>7. Bytes(range) = ShownAs(writes, w)
    BY <2>5, <2>6 DEF ShownAs
  <2>8. Bytes(range) \in SUBSET Int
    BY <2>5 DEF Bytes
  <2> DEFINE B == Bytes(range)
  <2> HIDE DEF B, position, total
  <2>9. q = [page EXCEPT !.MouseOverPosition = position, !.filled = B]
    BY DEF B
  <2> HIDE DEF q
  <2>10. q \in StreamPages /\ q.MouseOverPosition = position /\ q.filled = B
    <3>1. position \in Int /\ B \in SUBSET Int /\ page \in StreamPages
      BY <2>1, <2>8 DEF B, PageInv
    <3> QED BY <2>9, <3>1 DEF StreamPages
  <2>11. PageInv(q, writes)
    BY <2>1, <2>7, <2>10 DEF PageInv, Somewhere, w, B, total
  <2> QED BY <2>11, <1>3
<1> QED BY <1>4, <1>5

\* The place of the pointer in lines of bytes, and its highlight.
LEMMA HitLine ==
  ASSUME NEW writes \in Writes, HasNonASCII(writes), NEW hit \in Nat,
         NEW page, PageInv(page, writes)
  PROVE  PageInv(SetPositionAndHighlightFromHit(page, writes, hit), writes)
<1> DEFINE line == LineFromPosition(writes, hit)
           write == getWrite(writes, line + 1)
           B == LineStart(writes, line)..LineStart(writes, line + 1) - 2
           q == [page EXCEPT !.MouseOverPosition = write[1], !.filled = B]
           l == Len(writes)
<1>0. l \in Nat /\ DOMAIN writes = 1..l
  BY DEF Writes
<1>1. line \in 0..l
  BY LineFromPositionIs
<1>2. SetPositionAndHighlightFromHit(page, writes, hit)
        = IF line >= l \/ write[1] = page.MouseOverPosition THEN page ELSE q
  BY DEF SetPositionAndHighlightFromHit
<1> HIDE DEF line
<1>3. CASE line >= l
  BY <1>2, <1>3
<1>4. CASE ~(line >= l)
  <2> DEFINE a == NewLength(writes, line)
             b == NewLength(writes, line + 1)
             x == LineStart(writes, line)
             y == LineStart(writes, line + 1)
             k == Len(writes[line + 1])
             total == Len(Written(writes))
  <2>1. line \in 0..l - 1 /\ line + 1 \in 1..l /\ line + 1 \in 0..l /\ (line + 1) - 1 = line /\ l \in 0..l /\ l \in (line + 1)..l
    BY <1>0, <1>1, <1>4
  <2>2. write = <<a, b>>
    BY <2>1 DEF getWrite
  <2>3. a \in Nat /\ b \in Nat /\ b = a + k /\ b <= total /\ total \in Nat
    <3> HIDE DEF l
    <3> QED BY <2>1, NewLengthIs DEF l
  <2>4. x \in Nat /\ y \in Nat /\ y = x + 4 * k + 1
    BY <2>1, LineStartIs
  <2>5. k \in Nat
    <3>1. writes[line + 1] \in Seq({"p", "c", "x"})
      BY <2>1 DEF Writes
    <3> QED BY <3>1
  <2>6. write[1] = a /\ write[2] = b
    BY <2>2
  <2>7. Somewhere(writes, a)
    <3>1. CASE k = 0
      <4>1. write = <<a, a>>
        <5> HIDE DEF a, b, k, write
        <5> QED BY <2>2, <2>3, <3>1
      <4>2. line + 1 \in DOMAIN writes /\ getWrite(writes, line + 1) = <<a, a>>
        BY <4>1, <2>1, <1>0
      <4> QED BY <4>2 DEF Somewhere, Nowhere
    <3>2. CASE k # 0
      <4>1. a \in 0..total - 1
        <5> HIDE DEF a, b, k, total
        <5> QED BY <2>3, <2>5, <3>2
      <4> QED BY <4>1 DEF Somewhere
    <3> QED BY <3>1, <3>2
  <2>8. ASSUME B # {} PROVE a \in 0..total - 1 /\ B = ShownAs(writes, Min({i \in DOMAIN writes : a < NewLength(writes, i)}))
    <3>1. k # 0
      <4> SUFFICES ASSUME k = 0 PROVE B = {}
        BY <2>8
      <4> HIDE DEF x, y, k
      <4>1. B = x..y - 2
        BY DEF x, y
      <4>2. y = x + 1
        BY <2>4
      <4> HIDE DEF B
      <4> QED BY <4>1, <4>2, <2>4
    <3>2. a \in 0..total - 1 /\ a < b
      <4> HIDE DEF a, b, k, total
      <4> QED BY <2>3, <2>5, <3>1
    <3> DEFINE w == Min({i \in DOMAIN writes : a < NewLength(writes, i)})
    <3>3. w \in 1..l /\ a < NewLength(writes, w) /\ \A i \in 1..l : a < NewLength(writes, i) => w <= i
      <4> HIDE DEF a
      <4> QED BY <3>2, WriteOf
    <3> HIDE DEF w
    <3>4. w <= line + 1
      BY <3>2, <3>3, <2>1
    <3>5. ~(w <= line)
      <4> SUFFICES ASSUME w <= line PROVE FALSE
        OBVIOUS
      <4>1. w \in 0..l /\ line \in w..l
        BY <3>3, <2>1, <1>0
      <4>2. NewLength(writes, w) <= a /\ NewLength(writes, w) \in Nat
        BY <4>1, NewLengthIs
      <4> HIDE DEF a
      <4> QED BY <4>2, <3>3, <2>3
    <3>6. w = line + 1
      BY <3>3, <3>4, <3>5, <2>1, <1>0
    <3>7. ShownAs(writes, w) = Bytes(<<x, y - 1>>)
      BY <3>6, <2>1 DEF ShownAs
    <3>8. Bytes(<<x, y - 1>>) = x..(y - 1) - 1
      BY DEF Bytes
    <3>9. (y - 1) - 1 = y - 2
      BY <2>4
    <3>10. B = ShownAs(writes, w)
      BY <3>7, <3>8, <3>9
    <3> QED BY <3>2, <3>10 DEF w
  <2>9. B \in SUBSET Int
    OBVIOUS
  <2> HIDE DEF a, B, total
  <2>10. q = [page EXCEPT !.MouseOverPosition = a, !.filled = B]
    BY <2>6
  <2> HIDE DEF q
  <2>11. q \in StreamPages /\ q.MouseOverPosition = a /\ q.filled = B
    <3>1. a \in Int /\ page \in StreamPages
      BY <2>3 DEF PageInv
    <3> QED BY <2>9, <2>10, <3>1 DEF StreamPages
  <2>12. PageInv(q, writes)
    BY <2>7, <2>8, <2>11 DEF PageInv, total
  <2> QED BY <2>12, <1>2
<1> QED BY <1>3, <1>4

LEMMA BinaryBoundaries ==
  ASSUME NEW writes \in Writes, HasNonASCII(writes)
  PROVE  Boundaries(Display(writes)) \subseteq Nat
<1> DEFINE b == [i \in DOMAIN writes |-> BinaryLine(writes[i])]
           t == BinaryText(writes)
           l == Len(writes)
<1>0. l \in Nat /\ DOMAIN writes = 1..l /\ \A i \in 1..l : Len(writes[i]) \in Nat
  <2>1. writes \in Seq(Seq({"p", "c", "x"}))
    BY DEF Writes
  <2>2. l \in Nat /\ DOMAIN writes = 1..l
    BY <2>1
  <2>3. ASSUME NEW i \in 1..l PROVE Len(writes[i]) \in Nat
    <3>1. writes[i] \in Seq({"p", "c", "x"})
      BY <2>1
    <3> QED BY <3>1
  <2> QED BY <2>2, <2>3
<1>1. ASSUME NEW i \in 1..l PROVE BinaryLine(writes[i]) \in Seq(Narrow)
  <2> DEFINE k == 4 * Len(writes[i]) + 1
             f == [j \in 1..k |-> Char(1)]
  <2>1. BinaryLine(writes[i]) = f
    BY DEF BinaryLine
  <2>2. k \in Nat
    BY <1>0
  <2>3. Char(1) \in Narrow
    BY DEF Char, Narrow
  <2> HIDE DEF k
  <2>4. f \in Seq(Narrow)
    BY <2>2, <2>3
  <2> QED BY <2>1, <2>4
<1>2. b \in Seq(Seq(Narrow)) /\ Len(b) = l
  BY <1>0, <1>1
<1>3. t = FlattenSeq(b)
  BY DEF BinaryText
<1> HIDE DEF b, t, l
<1>4. t \in Seq(Narrow)
  <2>1. Len(b) \in 0..Len(b)
    BY <1>2, <1>0
  <2> QED BY <2>1, <1>2, <1>3, JoinedIs
<1>5. HasWidths(t)
  <2>1. ASSUME NEW i \in 1..Len(t) PROVE t[i].width \in Nat \ {0}
    <3>1. t[i] \in Narrow
      BY <1>4
    <3> QED BY <3>1 DEF Narrow
  <2>2. Len(t) \in Nat
    BY <1>4
  <2> QED BY <2>1, <2>2 DEF HasWidths
<1>6. Display(writes) = t
  BY DEF Display, t
<1> QED BY <1>5, <1>6, OffsetType DEF Boundaries

\* Wherever the pointer is, the page keeps its invariant and stays the same
\* object.
LEMMA HitKeeps ==
  ASSUME NEW writes \in Writes, NEW hit \in Boundaries(Display(writes)), NEW page, PageInv(page, writes)
  PROVE  LET q == SetPositionAndHighlightFromHit([page EXCEPT !.ClickUnmoved = FALSE], writes, hit)
         IN  PageInv(q, writes) /\ q.born = page.born
<1> DEFINE p == [page EXCEPT !.ClickUnmoved = FALSE]
           q == SetPositionAndHighlightFromHit(p, writes, hit)
<1>1. page \in StreamPages
  BY DEF PageInv
<1>2. p \in StreamPages /\ p.born = page.born /\ p.MouseOverPosition = page.MouseOverPosition /\ p.filled = page.filled
  BY <1>1 DEF StreamPages
<1> HIDE DEF p
<1>3. PageInv(p, writes)
  BY <1>2 DEF PageInv
<1>4. q.born = p.born
  <2>1. \A x, y : [p EXCEPT !.MouseOverPosition = x, !.filled = y].born = p.born
    BY <1>2 DEF StreamPages
  <2> QED BY <2>1 DEF SetPositionAndHighlightFromHit
<1>5. CASE HasNonASCII(writes)
  <2>1. hit \in Nat
    BY <1>5, BinaryBoundaries
  <2>2. PageInv(q, writes)
    <3> HIDE DEF q
    <3> QED BY <2>1, <1>3, <1>5, HitLine DEF q
  <2> QED BY <2>2, <1>2, <1>4 DEF p
<1>6. CASE ~HasNonASCII(writes)
  <2>2. PageInv(q, writes)
    <3> HIDE DEF q
    <3> QED BY <1>3, <1>6, HitText DEF q
  <2> QED BY <2>2, <1>2, <1>4 DEF p
<1> QED BY <1>5, <1>6

LEMMA WritesOf ==
  ASSUME NEW v \in DOMAIN StreamViews, NEW a \in DOMAIN StreamViews[v]
  PROVE  StreamViews[v][a] \in Writes /\ a \in Nat \ {0}
BY StreamViewsAreStates

\* Another place of the pointer on a page.
LEMMA PageChanges ==
  ASSUME StreamInv, NEW a \in DOMAIN streamPages, NEW q, PageInv(q, StreamViews[view][a]), q.born = streamPages[a].born,
         streamPages' = [streamPages EXCEPT ![a] = q],
         shows' = shows, view' = view, streamMenu' = streamMenu, movers' = movers, late' = late,
         lost' \cap {"page", "position"} = {}
  PROVE  StreamInv'
<1>1. PagesInv(streamPages, view)
  BY DEF StreamInv
<1>2. DOMAIN streamPages = DOMAIN StreamViews[view]
  BY <1>1 DEF PagesInv
<1> DEFINE p == streamPages
           r == streamPages'
<1>3. DOMAIN r = DOMAIN p /\ r[a] = q /\ \A b \in DOMAIN p \ {a} : r[b] = p[b]
  <2>1. p = [b \in DOMAIN StreamViews[view] |-> p[b]]
    BY <1>1 DEF PagesInv
  <2> QED BY <2>1, <1>2
<1>4. r = [b \in DOMAIN StreamViews[view] |-> r[b]]
  BY <1>2
<1> HIDE DEF p, r
<1>5. PagesInv(r, view)
  <2>1. ASSUME NEW b \in DOMAIN StreamViews[view] PROVE PageInv(r[b], StreamViews[view][b])
    <3>1. PageInv(p[b], StreamViews[view][b])
      BY <1>1 DEF PagesInv, p
    <3> QED BY <3>1, <1>2, <1>3 DEF p
  <2>2. view \in DOMAIN StreamViews
    BY <1>1 DEF PagesInv
  <2> QED BY <2>1, <2>2, <1>4 DEF PagesInv
<1>6. \A m : Found(m, p, view) => Found(m, r, view)
  BY <1>3 DEF Found, p
<1>7. MoversFindTheirWrite'
  BY DEF MoversFindTheirWrite
<1> QED BY <1>5, <1>6, <1>7 DEF StreamInv, p, r

LEMMA PointerSteps ==
  ASSUME StreamInv, NEW a,
         \/ OnTextLeave(a) \/ OnRightDown(a)
         \/ a \in DOMAIN streamPages /\ \E hit \in Boundaries(Display(StreamViews[view][a])) : OnStreamMotion(a, hit)
  PROVE  StreamInv'
<1> DEFINE page == streamPages[a]
           writes == StreamViews[view][a]
<1>0. a \in DOMAIN streamPages
  BY DEF OnTextLeave, OnRightDown
<1>1. view \in DOMAIN StreamViews /\ a \in DOMAIN StreamViews[view] /\ PageInv(page, writes)
      /\ streamPages = [b \in DOMAIN StreamViews[view] |-> streamPages[b]]
  <2>1. PagesInv(streamPages, view)
    BY DEF StreamInv
  <2>2. DOMAIN streamPages = DOMAIN StreamViews[view]
    BY <2>1 DEF PagesInv
  <2> QED BY <2>1, <2>2, <1>0 DEF PagesInv
<1>2. writes \in Writes /\ page \in StreamPages
  BY <1>1, WritesOf DEF PageInv
<1>3. CASE OnTextLeave(a)
  <2> DEFINE q == [page EXCEPT !.MouseOverPosition = NoPosition, !.filled = {}]
  <2>1. streamPages' = [streamPages EXCEPT ![a] = q] /\ lost' = {} /\ UNCHANGED <<shows, view, streamMenu, movers, late>>
    <3>1. streamPages' = [streamPages EXCEPT ![a].MouseOverPosition = NoPosition, ![a].filled = {}]
          /\ lost' = {} /\ UNCHANGED <<shows, view, streamMenu, movers, late>>
      BY <1>3 DEF OnTextLeave
    <3> QED BY <3>1, <1>0, <1>1
  <2>2. NoPosition \in Int
    BY DEF NoPosition
  <2> HIDE DEF page
  <2>3. q \in StreamPages /\ q.MouseOverPosition = NoPosition /\ q.filled = {} /\ q.born = page.born
    BY <2>2, <1>2 DEF StreamPages
  <2> HIDE DEF q
  <2>4. PageInv(q, writes)
    BY <2>3, EmptyPage
  <2> QED BY <2>1, <2>3, <2>4, <1>0, PageChanges DEF page
<1>4. CASE OnRightDown(a)
  <2> DEFINE q == [page EXCEPT !.ClickUnmoved = TRUE]
  <2>1. streamPages' = [streamPages EXCEPT ![a] = q] /\ lost' = {} /\ UNCHANGED <<shows, view, streamMenu, movers, late>>
    <3>1. streamPages' = [streamPages EXCEPT ![a].ClickUnmoved = TRUE]
          /\ lost' = {} /\ UNCHANGED <<shows, view, streamMenu, movers, late>>
      BY <1>4 DEF OnRightDown
    <3> QED BY <3>1
  <2> HIDE DEF page
  <2>3. q \in StreamPages /\ q.MouseOverPosition = page.MouseOverPosition /\ q.filled = page.filled /\ q.born = page.born
    BY <1>2 DEF StreamPages
  <2> HIDE DEF q
  <2>4. PageInv(q, writes)
    BY <2>3, <1>1 DEF PageInv
  <2> QED BY <2>1, <2>3, <2>4, <1>0, PageChanges DEF page
<1>5. ASSUME NEW hit \in Boundaries(Display(writes)), OnStreamMotion(a, hit) PROVE StreamInv'
  <2> DEFINE q == SetPositionAndHighlightFromHit([page EXCEPT !.ClickUnmoved = FALSE], writes, hit)
  <2>1. streamPages' = [streamPages EXCEPT ![a] = q] /\ UNCHANGED <<shows, view, streamMenu, movers, late>>
    BY <1>5 DEF OnStreamMotion
  <2>2. lost' \cap {"page", "position"} = {}
    <3>1. lost' = {"write"} \/ lost' = {}
      BY <1>5 DEF OnStreamMotion
    <3> QED BY <3>1
  <2>3. PageInv(q, writes) /\ q.born = page.born
    <3> HIDE DEF page, writes
    <3> QED BY <1>1, <1>2, HitKeeps
  <2> HIDE DEF q
  <2> QED BY <2>1, <2>2, <2>3, <1>0, PageChanges
<1> QED BY <1>3, <1>4, <1>5

\* The pages stay as they are, and what is queued is found on them.
LEMMA QueueChanges ==
  ASSUME StreamInv, shows' = shows, view' = view, streamPages' = streamPages, late' = late,
         streamMenu' \in Seq(Movers), Len(streamMenu') <= 1, movers' \in Seq(Movers),
         streamMenu' # <<>> => streamMenu'[1].address # 0,
         ~late => /\ streamMenu' # <<>> => Found(streamMenu'[1], streamPages, view)
                  /\ \A i \in 1..Len(movers') : Found(movers'[i], streamPages, view)
                  /\ lost' \cap {"page", "position"} = {}
  PROVE  StreamInv'
<1>1. MoversFindTheirWrite'
  BY DEF MoversFindTheirWrite, StreamInv
<1>2. PagesInv(streamPages', view')
  BY DEF StreamInv
<1>3. shows' \in Nat /\ late' \in BOOLEAN
  BY DEF StreamInv
<1>4. ~late' => /\ streamMenu' # <<>> => Found(streamMenu'[1], streamPages', view')
                /\ \A i \in 1..Len(movers') : Found(movers'[i], streamPages', view')
  OBVIOUS
<1> QED BY <1>1, <1>2, <1>3, <1>4 DEF StreamInv

LEMMA StreamQueueSteps ==
  ASSUME StreamInv, \/ StreamRewindToWrite \/ OtherMove \/ \E a : OnRightUp(a)
  PROVE  StreamInv'
<1>0. /\ streamMenu \in Seq(Movers) /\ Len(streamMenu) <= 1 /\ movers \in Seq(Movers) /\ PagesInv(streamPages, view)
      /\ streamMenu # <<>> => streamMenu[1].address # 0
      /\ ~late => /\ streamMenu # <<>> => Found(streamMenu[1], streamPages, view)
                  /\ \A i \in 1..Len(movers) : Found(movers[i], streamPages, view)
  BY DEF StreamInv
<1>1. CASE StreamRewindToWrite
  <2>1. /\ streamMenu # <<>> /\ streamMenu' = <<>> /\ movers' \in {movers, movers \o streamMenu}
        /\ lost' = IF movers' # movers /\ ~Alive(streamMenu[1]) THEN {"page"} ELSE {}
        /\ UNCHANGED <<shows, view, streamPages, late>>
    BY <1>1 DEF StreamRewindToWrite
  <2>2. Len(streamMenu) = 1 /\ streamMenu[1] \in Movers
    <3> DEFINE x == streamMenu
    <3>1. x \in Seq(Movers) /\ Len(x) <= 1 /\ x # <<>>
      BY <1>0, <2>1
    <3> HIDE DEF x
    <3>2. Len(x) = 1
      <4>1. Len(x) \in Nat /\ (Len(x) = 0 => x = <<>>)
        BY <3>1
      <4>2. Len(x) # 0
        BY <4>1, <3>1
      <4> DEFINE n == Len(x)
      <4>3. n \in Nat /\ n <= 1 /\ n # 0
        BY <4>1, <4>2, <3>1
      <4> HIDE DEF n
      <4>4. n = 1
        BY <4>3
      <4> QED BY <4>4 DEF n
    <3>3. x[1] \in Movers
      BY <3>1, <3>2
    <3> QED BY <3>2, <3>3 DEF x
  <2> DEFINE q == movers \o streamMenu
  <2>3. q \in Seq(Movers) /\ Len(q) = Len(movers) + 1 /\ Len(movers) \in Nat
    <3>1. movers \in Seq(Movers) /\ streamMenu \in Seq(Movers)
      BY <1>0
    <3>2. q \in Seq(Movers) /\ Len(q) = Len(movers) + Len(streamMenu) /\ Len(movers) \in Nat
      BY <3>1
    <3> QED BY <3>2, <2>2
  <2>4. \A i \in 1..Len(q) : IF i <= Len(movers) THEN q[i] = movers[i] ELSE q[i] = streamMenu[1]
    <3> TAKE i \in 1..Len(q)
    <3>1. CASE i <= Len(movers)
      BY <3>1, <2>3, <1>0
    <3>2. CASE ~(i <= Len(movers))
      <4>1. i - Len(movers) = 1 /\ i \in 1..Len(movers) + Len(streamMenu)
        BY <3>2, <2>2, <2>3
      <4>2. q[i] = streamMenu[i - Len(movers)]
        BY <4>1, <3>2, <1>0
      <4> QED BY <4>1, <4>2, <3>2
    <3> QED BY <3>1, <3>2
  <2>5. ASSUME ~late PROVE \A i \in 1..Len(q) : Found(q[i], streamPages, view)
    <3> TAKE i \in 1..Len(q)
    <3>1. CASE i <= Len(movers)
      <4>1. i \in 1..Len(movers) /\ q[i] = movers[i]
        BY <3>1, <2>3, <2>4
      <4> QED BY <4>1, <2>5, <1>0
    <3>2. CASE ~(i <= Len(movers))
      BY <3>2, <2>1, <2>4, <2>5, <1>0
    <3> QED BY <3>1, <3>2
  <2>6. ~late => Alive(streamMenu[1])
    BY <2>1, <1>0 DEF Found, Alive
  <2> HIDE DEF q
  <2>7. movers' = movers \/ movers' = q
    BY <2>1 DEF q
  <2>8. movers' \in Seq(Movers) /\ (~late => \A i \in 1..Len(movers') : Found(movers'[i], streamPages, view))
    BY <2>3, <2>5, <2>7, <1>0
  <2>9. ~late => lost' \cap {"page", "position"} = {}
    BY <2>1, <2>6
  <2>10. streamMenu' \in Seq(Movers) /\ Len(streamMenu') <= 1 /\ streamMenu' = <<>>
    BY <2>1
  <2> QED BY <2>1, <2>8, <2>9, <2>10, QueueChanges
<1>2. CASE OtherMove
  <2> DEFINE m == [address |-> 0, born |-> 0, position |-> 0]
             q == Append(movers, m)
  <2>1. movers' = q /\ lost' = {} /\ UNCHANGED <<shows, view, streamPages, streamMenu, late>>
    BY <1>2 DEF OtherMove
  <2>2. m \in Movers /\ m.address = 0
    BY DEF Movers
  <2> HIDE DEF m
  <2>3. q \in Seq(Movers) /\ Len(q) = Len(movers) + 1 /\ Len(movers) \in Nat
        /\ \A i \in 1..Len(q) : (i \in 1..Len(movers) /\ q[i] = movers[i]) \/ q[i] = m
    BY <2>2, <1>0
  <2> HIDE DEF q
  <2>4. Found(m, streamPages, view)
    BY <2>2 DEF Found
  <2>5. ~late => \A i \in 1..Len(q) : Found(q[i], streamPages, view)
    BY <2>3, <2>4, <1>0
  <2>6. lost' \cap {"page", "position"} = {} /\ movers' \in Seq(Movers)
        /\ (~late => \A i \in 1..Len(movers') : Found(movers'[i], streamPages, view))
    BY <2>1, <2>3, <2>5
  <2>7. streamMenu' \in Seq(Movers) /\ Len(streamMenu') <= 1 /\ (streamMenu' # <<>> => streamMenu'[1].address # 0)
    BY <2>1, <1>0
  <2>8. ~late => (streamMenu' # <<>> => Found(streamMenu'[1], streamPages, view))
    BY <2>1, <1>0
  <2> QED BY <2>1, <2>6, <2>7, <2>8, QueueChanges
<1>3. ASSUME NEW a, OnRightUp(a) PROVE StreamInv'
  <2> DEFINE m == [address |-> a, born |-> streamPages[a].born, position |-> streamPages[a].MouseOverPosition]
  <2>1. a \in DOMAIN streamPages /\ streamMenu' = <<m>> /\ lost' = {} /\ UNCHANGED <<shows, view, streamPages, movers, late>>
    BY <1>3 DEF OnRightUp
  <2>2. view \in DOMAIN StreamViews /\ a \in DOMAIN StreamViews[view] /\ PageInv(streamPages[a], StreamViews[view][a])
    <3>1. DOMAIN streamPages = DOMAIN StreamViews[view]
      BY <1>0 DEF PagesInv
    <3> QED BY <3>1, <2>1, <1>0 DEF PagesInv
  <2>3. a \in Nat \ {0}
    BY <2>2, WritesOf
  <2>4. streamPages[a] \in StreamPages
    BY <2>2 DEF PageInv
  <2>5. m \in Movers /\ m.address = a /\ m.address # 0
    BY <2>3, <2>4 DEF StreamPages, Movers
  <2>6. Found(m, streamPages, view)
    BY <2>1, <2>2 DEF Found, PageInv
  <2> HIDE DEF m
  <2>7. streamMenu' \in Seq(Movers) /\ Len(streamMenu') <= 1 /\ streamMenu'[1] = m
    BY <2>1, <2>5
  <2>8. movers' \in Seq(Movers) /\ (~late => \A i \in 1..Len(movers') : Found(movers'[i], streamPages, view))
    BY <2>1, <1>0
  <2>9. lost' \cap {"page", "position"} = {}
    BY <2>1
  <2> QED BY <2>1, <2>5, <2>6, <2>7, <2>8, <2>9, QueueChanges
<1> QED BY <1>1, <1>2, <1>3

LEMMA ShowingPages ==
  ASSUME StreamInv, NEW v \in DOMAIN StreamViews, MoveStreams(v)
  PROVE  StreamInv'
<1>0. /\ streamMenu \in Seq(Movers) /\ Len(streamMenu) <= 1 /\ movers \in Seq(Movers) /\ PagesInv(streamPages, view)
      /\ streamMenu # <<>> => streamMenu[1].address # 0
      /\ ~late => \A i \in 1..Len(movers) : Found(movers[i], streamPages, view)
      /\ shows \in Nat /\ late \in BOOLEAN
  BY DEF StreamInv
<1> DEFINE new == [born |-> shows', MouseOverPosition |-> NoPosition, filled |-> {}, ClickUnmoved |-> FALSE]
           m == Head(movers)
           writes == StreamViews[view][m.address]
<1>1. /\ movers # <<>> /\ movers' = Tail(movers) /\ shows' = shows + 1 /\ view' = v
      /\ streamPages' = [a \in DOMAIN StreamViews[v] |->
                            IF a \in DOMAIN streamPages THEN updatePage(streamPages[a]) ELSE new]
      /\ lost' = IF m.address = 0 THEN {}
                 ELSE IF ~Alive(m) THEN {"page"}
                 ELSE IF m.position \in 0..Len(Written(writes)) - 1 THEN {}
                 ELSE IF Nowhere(writes, m.position) THEN {"nothing"}
                 ELSE {"position"}
      /\ late' = (late \/ streamMenu # <<>> \/ Tail(movers) # <<>>)
      /\ streamMenu' = streamMenu
  BY DEF MoveStreams, showStreams, NewStreamPage
<1>2. NoPosition \in Int /\ shows' \in Nat
  BY <1>0, <1>1 DEF NoPosition
<1>3. ASSUME NEW a \in DOMAIN StreamViews[v] PROVE PageInv(streamPages'[a], StreamViews[v][a])
  <2>1. CASE a \in DOMAIN streamPages
    <3> DEFINE p == streamPages[a]
    <3>1. p \in StreamPages
      <4>1. DOMAIN streamPages = DOMAIN StreamViews[view]
        BY <1>0 DEF PagesInv
      <4> QED BY <4>1, <2>1, <1>0 DEF PagesInv, PageInv
    <3>2. streamPages'[a] = updatePage(p)
      BY <1>1, <2>1
    <3> HIDE DEF p
    <3>3. updatePage(p) \in StreamPages /\ updatePage(p).MouseOverPosition = NoPosition /\ updatePage(p).filled = {}
      BY <3>1, <1>2 DEF updatePage, StreamPages
    <3> QED BY <3>2, <3>3, EmptyPage
  <2>2. CASE a \notin DOMAIN streamPages
    <3>1. streamPages'[a] = new
      BY <1>1, <2>2
    <3>2. new \in StreamPages /\ new.MouseOverPosition = NoPosition /\ new.filled = {}
      BY <1>2 DEF StreamPages
    <3> QED BY <3>1, <3>2, EmptyPage
  <2> QED BY <2>1, <2>2
<1>4. PagesInv(streamPages', v)
  <2>1. streamPages' = [a \in DOMAIN StreamViews[v] |-> streamPages'[a]]
    BY <1>1
  <2> QED BY <2>1, <1>3 DEF PagesInv
<1>5. Tail(movers) \in Seq(Movers) /\ 1 \in 1..Len(movers) /\ m = movers[1]
  BY <1>0, <1>1
<1>6. ASSUME ~late PROVE lost' \cap {"page", "position"} = {}
  <2>1. Found(m, streamPages, view)
    BY <1>0, <1>5, <1>6
  <2>2. m.address # 0 => Alive(m) /\ (m.position \in 0..Len(Written(writes)) - 1 \/ Nowhere(writes, m.position))
    BY <2>1 DEF Found, Alive, Somewhere
  <2>3. lost' = {} \/ lost' = {"nothing"}
    <3> HIDE DEF m, writes
    <3> QED BY <1>1, <2>2
  <2> QED BY <2>3
<1>7. MoversFindTheirWrite'
  BY <1>1, <1>6 DEF MoversFindTheirWrite
<1>8. ~late' => streamMenu' = <<>> /\ movers' = <<>>
  BY <1>1
<1>9. late' \in BOOLEAN
  BY <1>1
<1>10. movers' \in Seq(Movers) /\ streamMenu' \in Seq(Movers) /\ Len(streamMenu') <= 1
       /\ (streamMenu' # <<>> => streamMenu'[1].address # 0)
  BY <1>0, <1>1, <1>5
<1>11. ~late' => /\ streamMenu' # <<>> => Found(streamMenu'[1], streamPages', view')
                 /\ \A i \in 1..Len(movers') : Found(movers'[i], streamPages', view')
  <2>1. Len(<<>>) = 0 /\ 1..0 = {}
    OBVIOUS
  <2> QED BY <1>8, <2>1
<1>12. PagesInv(streamPages', view')
  BY <1>1, <1>4
<1> QED BY <1>2, <1>7, <1>9, <1>10, <1>11, <1>12 DEF StreamInv

LEMMA StreamStarts ==
  StreamInit => StreamInv
<1> SUFFICES ASSUME StreamInit PROVE StreamInv
  OBVIOUS
<1> DEFINE new == [born |-> 0, MouseOverPosition |-> NoPosition, filled |-> {}, ClickUnmoved |-> FALSE]
<1>1. streamPages = [a \in DOMAIN StreamViews[1] |-> new] /\ view = 1 /\ shows = 0
      /\ streamMenu = <<>> /\ movers = <<>> /\ late = FALSE /\ lost = {}
  BY DEF StreamInit
<1>2. 1 \in DOMAIN StreamViews
  BY StreamViewsAreStates
<1>3. new \in StreamPages /\ new.MouseOverPosition = NoPosition /\ new.filled = {}
  <2>1. NoPosition \in Int
    BY DEF NoPosition
  <2> QED BY <2>1 DEF StreamPages
<1> HIDE DEF new
<1>4. PagesInv(streamPages, view)
  BY <1>1, <1>2, <1>3, EmptyPage DEF PagesInv
<1>5. streamMenu \in Seq(Movers) /\ movers \in Seq(Movers) /\ Len(streamMenu) = 0 /\ Len(movers) = 0
  BY <1>1
<1>6. \A i \in 1..Len(movers) : Found(movers[i], streamPages, view)
  BY <1>5
<1>7. shows \in Nat /\ late \in BOOLEAN /\ streamMenu = <<>> /\ MoversFindTheirWrite
  BY <1>1 DEF MoversFindTheirWrite
<1>8. Len(streamMenu) <= 1
  BY <1>5
<1> QED BY <1>4, <1>5, <1>6, <1>7, <1>8 DEF StreamInv

LEMMA StreamKept ==
  StreamInv /\ [StreamNext]_streamVars => StreamInv'
<1> SUFFICES ASSUME StreamInv, [StreamNext]_streamVars PROVE StreamInv'
  OBVIOUS
<1>1. CASE UNCHANGED streamVars
  BY <1>1 DEF streamVars, StreamInv, MoversFindTheirWrite
<1> QED BY <1>1, PointerSteps, StreamQueueSteps, ShowingPages DEF StreamNext

LEMMA StreamFound ==
  StreamInv => WritesAreFound
<1> SUFFICES ASSUME StreamInv PROVE HighlightIsTheWrite
  BY DEF WritesAreFound, StreamInv
<1> SUFFICES ASSUME NEW a \in DOMAIN streamPages, streamPages[a].filled # {}
             PROVE  LET writes == StreamViews[view][a]
                        page == streamPages[a]
                        w == Min({i \in DOMAIN writes : page.MouseOverPosition < NewLength(writes, i)})
                    IN  page.MouseOverPosition \in 0..Len(Written(writes)) - 1 /\ page.filled = ShownAs(writes, w)
  BY DEF HighlightIsTheWrite, ShownAs
<1>1. PagesInv(streamPages, view)
  BY DEF StreamInv
<1>2. DOMAIN streamPages = DOMAIN StreamViews[view]
  BY <1>1 DEF PagesInv
<1> QED BY <1>1, <1>2 DEF PagesInv, PageInv

\* The write that the user points at is the one highlighted and moved to, for all
\* sequences of writes, in ASCII or not, empty ones among them.
THEOREM WritesStayFound == StreamSpec => []WritesAreFound
<1>1. StreamSpec => []StreamInv
  BY StreamStarts, StreamKept, PTL DEF StreamSpec
<1> QED BY <1>1, StreamFound, PTL
================================================================================
