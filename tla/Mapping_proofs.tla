---------------------------- MODULE Mapping_proofs -----------------------------
(***************************************************************************)
(* Proofs about the mapping of recreated states to the source: which       *)
(* variables are shown for a call, whatever the function's tree of         *)
(* statements is (MappedScope), and where movements between statements     *)
(* end, in a recording of any length (MappedMovement).                     *)
(***************************************************************************)
EXTENDS MappedScope, MappedMovement, FiniteSetTheorems, WellFoundedInduction, TLAPS

--------------------------------------------------------------------------------
(***************************************************************************)
(* Induction.  The induction theorems of the library have a predicate as a *)
(* parameter; here it is the set of the numbers that have it.              *)
(***************************************************************************)
\* A set of natural numbers that is not empty has a smallest element.
LEMMA SmallestNumber ==
  ASSUME NEW T \in SUBSET Nat, T # {}
  PROVE  \E x \in T : \A y \in T : x <= y
<1> DEFINE R == OpToRel(<, Nat)
<1>1. IsWellFoundedOn(R, Nat)
  BY NatLessThanWellFounded, Zenon
<1>2. ASSUME NEW x \in Nat, NEW y \in Nat, y < x
      PROVE  <<y, x>> \in R
  BY <1>2, Zenon DEF OpToRel
<1> HIDE DEF R
<1>3. \E x \in T : \A y \in T : ~(<<y, x>> \in R)
  BY <1>1, WFMin, Zenon
<1>4. PICK x \in T : \A y \in T : ~(<<y, x>> \in R)
  BY <1>3, Zenon
<1>5. ASSUME NEW y \in T PROVE x <= y
  <2>1. x \in Nat /\ y \in Nat
    OBVIOUS
  <2>2. ~(y < x)
    BY <1>2, <1>4, <2>1, Zenon
  <2> QED BY <2>1, <2>2
<1> QED BY <1>5

\* A set of numbers that has 0, and n + 1 for each n it has, has all of them.
LEMMA SetInduction ==
  ASSUME NEW T, T \subseteq Nat, 0 \in T, \A n \in T : n + 1 \in T
  PROVE  \A n \in Nat : n \in T
<1> SUFFICES ASSUME NEW a \in Nat, a \notin T PROVE FALSE
  OBVIOUS
<1> DEFINE U == {n \in Nat : n \notin T}
<1>1. U \subseteq Nat /\ U # {}
  OBVIOUS
<1> HIDE DEF U
<1>2. PICK m \in U : \A k \in U : m <= k
  BY <1>1, SmallestNumber
<1>3. m \in Nat /\ m \notin T /\ m # 0
  BY <1>2 DEF U
<1>4. m - 1 \in Nat /\ m - 1 \notin U
  BY <1>3, <1>2, <1>1
<1>5. m - 1 \in T
  BY <1>4 DEF U
<1> QED
  BY <1>5, <1>3

--------------------------------------------------------------------------------
(***************************************************************************)
(* The variables that are shown for a call.                                *)
(***************************************************************************)
\* What holds for the program that was chosen.
Body ==
  /\ Len(function.nodes) \in Nat /\ Nodes = 1..Len(function.nodes)
  /\ InTextOrder(function.nodes) /\ DeclarationsInPlace(function.nodes)

\* The parent of a node, and the order of the text, without the details.
LEMMA ParentIs ==
  ASSUME Body
  PROVE  /\ Nodes \subseteq Nat /\ 0 \notin Nodes
         /\ \A k \in Nodes : /\ N(k).parent \in Nat /\ N(k).parent < k
                             /\ N(k).parent # 0 => N(k).parent \in Nodes
         /\ \A k \in Nodes : \A i \in Nodes : N(k).parent < i /\ i < k => N(k).parent <= N(i).parent
<1>1. Nodes = 1..Len(function.nodes) /\ Len(function.nodes) \in Nat
  BY DEF Body
<1>2. \A k \in Nodes : /\ N(k).parent \in 0..k - 1
                       /\ \A i \in N(k).parent + 1 .. k - 1 : N(i).parent >= N(k).parent
  BY DEF Body, InTextOrder, Nodes, N
<1>3. Nodes \subseteq Nat /\ 0 \notin Nodes
  BY <1>1
<1>4. ASSUME NEW k \in Nodes
      PROVE  N(k).parent \in Nat /\ N(k).parent < k /\ (N(k).parent # 0 => N(k).parent \in Nodes)
  BY <1>1, <1>2, <1>4
<1>5. ASSUME NEW k \in Nodes, NEW i \in Nodes, N(k).parent < i, i < k PROVE N(k).parent <= N(i).parent
  <2>1. i \in N(k).parent + 1 .. k - 1
    BY <1>1, <1>3, <1>4, <1>5
  <2>2. N(i).parent \in Nat /\ N(k).parent \in Nat
    BY <1>4
  <2> QED BY <1>2, <2>1, <2>2
<1> QED BY <1>3, <1>4, <1>5

--------------------------------------------------------------------------------
\* What a gives for a node and for all that are around it, put together.
IsUpward(f, a, n) ==
  f = [k \in 1..n |-> a[k] \cup IF N(k).parent = 0 THEN {} ELSE f[N(k).parent]]

\* A function that is defined by recursion over the parents exists.
LEMMA UpwardExists ==
  ASSUME Body, NEW a, NEW m \in Nat, m <= Len(function.nodes)
  PROVE  \E f : IsUpward(f, a, m)
<1> DEFINE T == {n \in Nat : n <= Len(function.nodes) => \E f : IsUpward(f, a, n)}
<1>0. Len(function.nodes) \in Nat /\ Nodes = 1..Len(function.nodes)
  BY DEF Body
<1>1. 0 \in T
  <2> DEFINE g == [k \in 1..0 |-> {}]
  <2>1. IsUpward(g, a, 0)
    BY DEF IsUpward
  <2>2. \E f : IsUpward(f, a, 0)
    <3> HIDE DEF g
    <3> QED BY <2>1
  <2> QED BY <2>2
<1>2. ASSUME NEW n \in T PROVE n + 1 \in T
  <2> SUFFICES ASSUME n + 1 <= Len(function.nodes) PROVE \E f : IsUpward(f, a, n + 1)
    BY <1>2
  <2>0. n \in Nat /\ n <= Len(function.nodes) /\ n + 1 \in Nodes
    BY <1>0, <1>2
  <2>1. PICK f : IsUpward(f, a, n)
    BY <2>0, <1>2
  <2> DEFINE new == a[n + 1] \cup IF N(n + 1).parent = 0 THEN {} ELSE f[N(n + 1).parent]
             g == [k \in 1..n + 1 |-> IF k = n + 1 THEN new ELSE f[k]]
  <2>2. ASSUME NEW k \in 1..n + 1
        PROVE  g[k] = a[k] \cup IF N(k).parent = 0 THEN {} ELSE g[N(k).parent]
    <3>1. k \in Nodes /\ k \in Nat
      BY <1>0, <2>0, <2>2
    <3>2. N(k).parent \in Nat /\ N(k).parent < k
      BY <3>1, ParentIs
    <3>3. N(k).parent # 0 => N(k).parent \in 1..n
      BY <3>1, <3>2, <2>0, <2>2
    <3>4. N(k).parent # 0 => g[N(k).parent] = f[N(k).parent]
      BY <3>3, <2>0
    <3>5. CASE k = n + 1
      <4>1. g[k] = new
        BY <3>5, <2>0
      <4> HIDE DEF g
      <4> QED BY <3>4, <3>5, <4>1
    <3>6. CASE k # n + 1
      <4>1. k \in 1..n /\ g[k] = f[k]
        BY <3>6, <3>1, <2>0, <2>2
      <4>2. f[k] = a[k] \cup IF N(k).parent = 0 THEN {} ELSE f[N(k).parent]
        BY <2>1, <4>1 DEF IsUpward
      <4> HIDE DEF g
      <4> QED BY <3>4, <4>1, <4>2
    <3> QED BY <3>5, <3>6
  <2>3. g = [k \in 1..n + 1 |-> a[k] \cup IF N(k).parent = 0 THEN {} ELSE g[N(k).parent]]
    <3>1. g = [k \in 1..n + 1 |-> g[k]]
      OBVIOUS
    <3> HIDE DEF g
    <3> QED BY <3>1, <2>2
  <2> HIDE DEF g
  <2> QED BY <2>3 DEF IsUpward
<1> HIDE DEF T
<1>3. T \subseteq Nat
  BY DEF T
<1>4. m \in T
  BY <1>1, <1>2, <1>3, SetInduction
<1> QED BY <1>4 DEF T

\* The nodes around each node.
LEMMA AroundIs ==
  ASSUME Body
  PROVE  \A k \in Nodes : Around(k) = {k} \cup IF N(k).parent = 0 THEN {} ELSE Around(N(k).parent)
<1> DEFINE Is(f) == f = [j \in Nodes |-> {j} \cup IF N(j).parent = 0 THEN {} ELSE f[N(j).parent]]
           a == [j \in Nodes |-> {j}]
           all == CHOOSE f : Is(f)
<1>1. \E f : Is(f)
  <2>0. Len(function.nodes) \in Nat /\ Len(function.nodes) <= Len(function.nodes)
    BY DEF Body
  <2>1. PICK f : IsUpward(f, a, Len(function.nodes))
    <3> HIDE DEF a
    <3> QED BY <2>0, UpwardExists
  <2>2. Nodes = 1..Len(function.nodes)
    BY DEF Body
  <2>3. f = [k \in Nodes |-> a[k] \cup IF N(k).parent = 0 THEN {} ELSE f[N(k).parent]]
    BY <2>1, <2>2 DEF IsUpward
  <2>4. \A k \in Nodes : a[k] = {k}
    OBVIOUS
  <2> HIDE DEF a
  <2>5. Is(f)
    BY <2>3, <2>4
  <2> QED BY <2>5
<1>2. Is(all)
  <2> HIDE DEF Is
  <2> QED BY <1>1
<1>3. \A k : Around(k) = all[k]
  BY DEF Around
<1> HIDE DEF all
<1>4. \A k \in Nodes : all[k] = {k} \cup IF N(k).parent = 0 THEN {} ELSE all[N(k).parent]
  BY <1>2
<1> QED BY <1>3, <1>4

\* What is visible above a node.
IsAbove(f) ==
  \A k \in Nodes : f[k] = IF N(k).parent = 0 THEN {}
                          ELSE addVarDeclsVisible(N(k).parent, k) \cup f[N(k).parent]

\* What is visible from a node is what it adds, and what is visible above it.
LEMMA VisibleIs ==
  ASSUME Body
  PROVE  \E f : IsAbove(f) /\ \A k, prior : getVarDeclsVisible(k, prior) = addVarDeclsVisible(k, prior) \cup f[k]
<1> DEFINE Is(f) == f = [j \in Nodes |-> IF N(j).parent = 0 THEN {}
                                         ELSE addVarDeclsVisible(N(j).parent, j) \cup f[N(j).parent]]
           a == [j \in Nodes |-> IF N(j).parent = 0 THEN {} ELSE addVarDeclsVisible(N(j).parent, j)]
           all == CHOOSE f : Is(f)
<1>1. \E f : Is(f)
  <2>0. Len(function.nodes) \in Nat /\ Len(function.nodes) <= Len(function.nodes)
    BY DEF Body
  <2>1. PICK f : IsUpward(f, a, Len(function.nodes))
    <3> HIDE DEF a
    <3> QED BY <2>0, UpwardExists
  <2>2. Nodes = 1..Len(function.nodes)
    BY DEF Body
  <2>3. f = [k \in Nodes |-> a[k] \cup IF N(k).parent = 0 THEN {} ELSE f[N(k).parent]]
    BY <2>1, <2>2 DEF IsUpward
  <2>4. \A k \in Nodes : a[k] = IF N(k).parent = 0 THEN {} ELSE addVarDeclsVisible(N(k).parent, k)
    OBVIOUS
  <2> HIDE DEF a
  <2>5. \A k \in Nodes : a[k] \cup (IF N(k).parent = 0 THEN {} ELSE f[N(k).parent]) =
                         IF N(k).parent = 0 THEN {} ELSE addVarDeclsVisible(N(k).parent, k) \cup f[N(k).parent]
    BY <2>4
  <2>6. Is(f)
    BY <2>3, <2>5
  <2> QED BY <2>6
<1>2. Is(all)
  <2> HIDE DEF Is
  <2> QED BY <1>1
<1>3. \A k, prior : getVarDeclsVisible(k, prior) = addVarDeclsVisible(k, prior) \cup all[k]
  BY DEF getVarDeclsVisible
<1> HIDE DEF all
<1>4. IsAbove(all)
  BY <1>2 DEF IsAbove
<1> QED BY <1>3, <1>4

--------------------------------------------------------------------------------
\* What has 0 and whatever the parents of its nodes lead to has all nodes.
LEMMA TreeInduction ==
  ASSUME Body, NEW T, T \subseteq Nodes,
         \A k \in Nodes : (N(k).parent # 0 => N(k).parent \in T) => k \in T
  PROVE  \A k \in Nodes : k \in T
<1> DEFINE U == {k \in Nodes : k \notin T}
<1> SUFFICES ASSUME U # {} PROVE FALSE
  OBVIOUS
<1>1. U \in SUBSET Nat
  BY ParentIs
<1> HIDE DEF U
<1>2. PICK k \in U : \A j \in U : k <= j
  BY <1>1, SmallestNumber
<1>3. k \in Nodes /\ k \notin T
  BY <1>2 DEF U
<1>4. N(k).parent # 0 /\ N(k).parent \notin T
  BY <1>3
<1>5. N(k).parent \in U /\ N(k).parent < k /\ N(k).parent \in Nat /\ k \in Nat
  BY <1>3, <1>4, ParentIs DEF U
<1>6. k <= N(k).parent
  BY <1>2, <1>5
<1> QED BY <1>5, <1>6

\* What is around a node is a node, begins before it, and has its parent around it.
LEMMA AroundFacts ==
  ASSUME Body
  PROVE  \A k \in Nodes :
           /\ k \in Around(k) /\ Around(k) \subseteq Nodes
           /\ \A j \in Around(k) : j <= k /\ (N(j).parent # 0 => N(j).parent \in Around(k))
           /\ \A p \in Around(k) : p # k => \E j \in Around(k) : N(j).parent = p
<1> DEFINE Ok(k) == /\ k \in Around(k) /\ Around(k) \subseteq Nodes
                    /\ \A j \in Around(k) : j <= k /\ (N(j).parent # 0 => N(j).parent \in Around(k))
                    /\ \A p \in Around(k) : p # k => \E j \in Around(k) : N(j).parent = p
           T == {k \in Nodes : Ok(k)}
<1>1. ASSUME NEW k \in Nodes, N(k).parent # 0 => N(k).parent \in T PROVE k \in T
  <2>1. Around(k) = {k} \cup IF N(k).parent = 0 THEN {} ELSE Around(N(k).parent)
    BY <1>1, AroundIs
  <2>2. k \in Nat /\ N(k).parent \in Nat /\ N(k).parent < k /\ Nodes \subseteq Nat
    BY <1>1, ParentIs
  <2>3. CASE N(k).parent = 0
    <3>1. Around(k) = {k} /\ k <= k
      BY <2>1, <2>2, <2>3
    <3>2. Ok(k)
      BY <3>1, <1>1, <2>3
    <3> QED BY <3>2, <1>1
  <2>4. CASE N(k).parent # 0
    <3> PICK q : q = N(k).parent
      OBVIOUS
    <3>1. q \in Nodes /\ Ok(q) /\ Around(k) = {k} \cup Around(q)
      BY <1>1, <2>1, <2>4
    <3>2. ASSUME NEW j \in Around(k) PROVE j <= k /\ (N(j).parent # 0 => N(j).parent \in Around(k))
      <4>1. CASE j = k
        BY <4>1, <3>1, <2>2
      <4>2. CASE j \in Around(q)
        <5>1. j <= q /\ j \in Nat /\ q < k /\ q \in Nat
          BY <4>2, <3>1, <2>2
        <5> QED BY <5>1, <4>2, <3>1, <2>2
      <4> QED BY <4>1, <4>2, <3>1
    <3>3. ASSUME NEW p \in Around(k), p # k PROVE \E j \in Around(k) : N(j).parent = p
      <4>1. p \in Around(q)
        BY <3>1, <3>3
      <4>2. CASE p = q
        BY <4>2, <3>1
      <4>3. CASE p # q
        BY <4>1, <4>3, <3>1
      <4> QED BY <4>2, <4>3
    <3>4. k \in Around(k) /\ Around(k) \subseteq Nodes
      BY <3>1, <1>1
    <3>5. Ok(k)
      BY <3>2, <3>3, <3>4
    <3> QED BY <3>5, <1>1
  <2> QED BY <2>3, <2>4
<1> HIDE DEF Ok
<1>2. T \subseteq Nodes
  OBVIOUS
<1>3. \A k \in Nodes : k \in T
  <2> HIDE DEF T
  <2> QED BY <1>1, <1>2, TreeInduction
<1> QED BY <1>3 DEF Ok

\* What is inside a node comes before the nodes that follow it in the same parent.
LEMMA InsideComesFirst ==
  ASSUME Body
  PROVE  \A k \in Nodes : \A j \in Around(k) : \A c \in Nodes :
           N(c).parent = N(j).parent /\ j < c => k < c
<1> DEFINE Ok(k) == \A j \in Around(k) : \A c \in Nodes : N(c).parent = N(j).parent /\ j < c => k < c
           T == {k \in Nodes : Ok(k)}
<1>1. ASSUME NEW k \in Nodes, N(k).parent # 0 => N(k).parent \in T PROVE k \in T
  <2> SUFFICES ASSUME NEW j \in Around(k), NEW c \in Nodes, N(c).parent = N(j).parent, j < c
               PROVE  k < c
    BY <1>1
  <2>1. CASE j = k
    BY <2>1
  <2>2. CASE j # k
    <3> PICK q : q = N(k).parent
      OBVIOUS
    <3>1. q # 0 /\ j \in Around(q) /\ q \in Nodes /\ Ok(q)
      BY <2>2, <1>1, AroundIs, ParentIs
    <3>2. q < c
      BY <3>1
    <3>3. j <= q /\ j \in Nodes
      BY <3>1, AroundFacts
    <3>4. /\ k \in Nat /\ c \in Nat /\ j \in Nat /\ q \in Nat
          /\ N(j).parent \in Nat /\ N(j).parent < j
          /\ q < c /\ c < k => q <= N(c).parent
      BY <1>1, <3>1, <3>3, ParentIs
    <3>5. k # c
      <4>1. k = c => N(j).parent = q
        OBVIOUS
      <4> QED BY <4>1, <3>3, <3>4
    <3>6. ~(c < k)
      <4>1. c < k => q <= N(j).parent
        BY <3>2, <3>4
      <4> QED BY <4>1, <3>3, <3>4
    <3> QED BY <3>4, <3>5, <3>6
  <2> QED BY <2>1, <2>2
<1> HIDE DEF Ok
<1>2. T \subseteq Nodes
  OBVIOUS
<1>3. \A k \in Nodes : k \in T
  <2> HIDE DEF T
  <2> QED BY <1>1, <1>2, TreeInduction
<1> QED BY <1>3 DEF Ok

\* What is visible from a node is what the nodes around it add, each before the one
\* that the search came from.
LEMMA VisibleAbove ==
  ASSUME Body, NEW f, IsAbove(f)
  PROVE  \A k \in Nodes : \A v :
           v \in f[k] <=> \E j \in Around(k) : N(j).parent # 0 /\ v \in addVarDeclsVisible(N(j).parent, j)
<1> DEFINE Ok(k) == \A v : v \in f[k] <=>
                      \E j \in Around(k) : N(j).parent # 0 /\ v \in addVarDeclsVisible(N(j).parent, j)
           T == {k \in Nodes : Ok(k)}
<1>1. ASSUME NEW k \in Nodes, N(k).parent # 0 => N(k).parent \in T PROVE k \in T
  <2>1. Around(k) = {k} \cup IF N(k).parent = 0 THEN {} ELSE Around(N(k).parent)
    BY <1>1, AroundIs
  <2>2. f[k] = IF N(k).parent = 0 THEN {} ELSE addVarDeclsVisible(N(k).parent, k) \cup f[N(k).parent]
    BY <1>1 DEF IsAbove
  <2>3. CASE N(k).parent = 0
    BY <2>1, <2>2, <2>3, <1>1
  <2>4. CASE N(k).parent # 0
    <3> PICK q : q = N(k).parent
      OBVIOUS
    <3>1. Ok(q) /\ q # 0 /\ Around(k) = {k} \cup Around(q) /\ f[k] = addVarDeclsVisible(q, k) \cup f[q]
      BY <2>1, <2>2, <2>4, <1>1
    <3>2. Ok(k)
      BY <3>1
    <3> QED BY <3>2, <1>1
  <2> QED BY <2>3, <2>4
<1> HIDE DEF Ok
<1>2. T \subseteq Nodes
  OBVIOUS
<1>3. \A k \in Nodes : k \in T
  <2> HIDE DEF T
  <2> QED BY <1>1, <1>2, TreeInduction
<1> QED BY <1>3 DEF Ok

--------------------------------------------------------------------------------
\* Where a variable is declared.
LEMMA DeclaredIn ==
  ASSUME Body
  PROVE  /\ \A v \in Nodes : N(v).class = "Var" =>
              /\ N(v).parent \in Nodes /\ N(N(v).parent).class = "DeclStmt"
              /\ ScopeOf(v) \in Nodes /\ N(N(v).parent).parent = ScopeOf(v)
              /\ \/ N(ScopeOf(v)).class = "Compound"
                 \/ N(ScopeOf(v)).class = "For" /\ N(ScopeOf(v)).init = N(v).parent
         /\ \A k \in Nodes : N(k).class = "For" /\ N(k).init # 0 =>
              /\ N(k).init \in Nodes /\ N(N(k).init).parent = k
              /\ \A c \in Nodes : N(c).parent = k => N(k).init <= c
<1>1. \A k \in Nodes : LET p == N(k).parent IN
        /\ N(k).class = "Var" => p # 0 /\ N(p).class = "DeclStmt"
        /\ N(k).class = "DeclStmt" =>
              p # 0 /\ (N(p).class = "Compound" \/ (N(p).class = "For" /\ N(p).init = k))
        /\ N(k).class = "For" /\ N(k).init # 0 =>
              /\ N(k).init \in Nodes /\ N(N(k).init).parent = k
              /\ \A c \in Nodes : N(c).parent = k => N(k).init <= c
  BY DEF Body, DeclarationsInPlace, Nodes, N
<1>2. \A k \in Nodes : N(k).parent # 0 => N(k).parent \in Nodes
  BY ParentIs
<1> QED BY <1>1, <1>2 DEF ScopeOf

\* What the variables that are visible from a node are.
Visible(v, k) ==
  \/ v \in visibleInDeclStmt(k, 0) /\ N(k).class = "DeclStmt"
  \/ \E j \in Around(k) : N(j).parent # 0 /\ v \in addVarDeclsVisible(N(j).parent, j)

\* What getVarDeclsVisible() finds, without its recursion.
LEMMA VisibleFrom ==
  ASSUME Body
  PROVE  \A k \in Nodes : N(k).class \in {"Expr", "DeclStmt"} =>
           \A v : v \in getVarDeclsVisible(k, 0) <=> Visible(v, k)
<1>1. PICK f : IsAbove(f) /\ \A k, prior : getVarDeclsVisible(k, prior) = addVarDeclsVisible(k, prior) \cup f[k]
  BY VisibleIs
<1>2. \A k \in Nodes : \A v :
        v \in f[k] <=> \E j \in Around(k) : N(j).parent # 0 /\ v \in addVarDeclsVisible(N(j).parent, j)
  BY <1>1, VisibleAbove
<1>3. ASSUME NEW k \in Nodes, N(k).class \in {"Expr", "DeclStmt"}
      PROVE  addVarDeclsVisible(k, 0) = IF N(k).class = "DeclStmt" THEN visibleInDeclStmt(k, 0) ELSE {}
  BY <1>3 DEF addVarDeclsVisible
<1> QED BY <1>1, <1>2, <1>3 DEF Visible

\* Variables of a node that follow another one's parent's are declared before it.
LEMMA SiblingsFirst ==
  ASSUME Body, NEW k \in Nodes, NEW j \in Around(k), NEW v \in Nodes, NEW d \in Around(v),
         N(d).parent = N(j).parent, d < j
  PROVE  v <= k
<1>1. j \in Nodes /\ j <= k /\ k \in Nat /\ j \in Nat /\ v \in Nat
  BY AroundFacts, ParentIs
<1>2. v < j
  BY <1>1, InsideComesFirst
<1> QED BY <1>1, <1>2

\* A variable has its declaration around it.
LEMMA DeclarationAround ==
  ASSUME Body, NEW v \in Nodes, N(v).parent \in Nodes
  PROVE  N(v).parent \in Around(v)
BY AroundFacts, ParentIs

\* What is visible is in scope, or is of a declaration that is being evaluated.
LEMMA VisibleInScope ==
  ASSUME Body, NEW k \in Nodes, NEW v, Visible(v, k)
  PROVE  /\ v \in Nodes /\ N(v).class = "Var"
         /\ v \in InScope(k) \/ N(v).parent \in Around(k)
<1>1. CASE v \in visibleInDeclStmt(k, 0)
  <2>1. k \in Around(k)
    BY AroundFacts
  <2> QED BY <2>1, <1>1 DEF visibleInDeclStmt, Declarators, ChildrenOf
<1>2. ASSUME NEW j \in Around(k), N(j).parent # 0, v \in addVarDeclsVisible(N(j).parent, j)
      PROVE  /\ v \in Nodes /\ N(v).class = "Var"
             /\ v \in InScope(k) \/ N(v).parent \in Around(k)
  <2> PICK p : p = N(j).parent
    OBVIOUS
  <2>1. j \in Nodes /\ p \in Nodes /\ p \in Around(k) /\ p # 0 /\ j # 0
    BY <1>2, AroundFacts, ParentIs
  <2>2. CASE N(p).class = "DeclStmt"
    <3>1. v \in visibleInDeclStmt(p, j)
      BY <1>2, <2>2 DEF addVarDeclsVisible
    <3> QED BY <3>1, <2>1 DEF visibleInDeclStmt, Declarators, ChildrenOf
  <2>3. CASE N(p).class = "Compound"
    <3>1. v \in visibleInCompound(p, j)
      BY <1>2, <2>3 DEF addVarDeclsVisible
    <3>2. PICK d \in Nodes : N(d).parent = p /\ d <= j /\ v \in Declarators(d)
      BY <3>1, <2>1 DEF visibleInCompound, ChildrenOf
    <3>3. v \in Nodes /\ N(v).class = "Var" /\ N(v).parent = d
      BY <3>2 DEF Declarators, ChildrenOf
    <3>4. CASE d = j
      BY <3>3, <3>4
    <3>5. CASE d # j
      <4>1. d < j /\ d \in Around(v)
        BY <3>2, <3>3, <3>5, <2>1, DeclarationAround, ParentIs
      <4>2. v <= k
        BY <4>1, <3>2, <3>3, SiblingsFirst
      <4> QED BY <4>2, <3>2, <3>3, <2>1 DEF InScope, ScopeOf
    <3> QED BY <3>4, <3>5
  <2>4. CASE N(p).class = "For"
    <3>1. v \in visibleInFor(p, j)
      BY <1>2, <2>4 DEF addVarDeclsVisible
    <3> PICK d : d = N(p).init
      OBVIOUS
    <3>2. j # d /\ v \in Nodes /\ N(v).class = "Var" /\ N(v).parent = d
      BY <3>1, <2>1 DEF visibleInFor, Declarators, ChildrenOf
    <3>3. d # 0
      BY <3>2, DeclaredIn, ParentIs
    <3>4. d \in Nodes /\ N(d).parent = p /\ d <= j
      BY <3>3, <2>1, <2>4, DeclaredIn
    <3>5. d < j /\ d \in Around(v)
      BY <3>2, <3>4, <2>1, DeclarationAround, ParentIs
    <3>6. v <= k
      BY <3>2, <3>4, <3>5, SiblingsFirst
    <3> QED BY <3>2, <3>4, <3>6, <2>1 DEF InScope, ScopeOf
  <2> QED BY <1>2, <2>2, <2>3, <2>4 DEF addVarDeclsVisible
<1> QED BY <1>1, <1>2 DEF Visible

\* What is in scope is visible.
LEMMA ScopeIsVisible ==
  ASSUME Body, NEW k \in Nodes, NEW v \in InScope(k)
  PROVE  Visible(v, k)
<1> PICK d, p : d = N(v).parent /\ p = ScopeOf(v)
  OBVIOUS
<1>1. v \in Nodes /\ N(v).class = "Var" /\ p \in Around(k) /\ v <= k
  BY DEF InScope
<1>2. /\ d \in Nodes /\ N(d).class = "DeclStmt" /\ p \in Nodes /\ N(d).parent = p
      /\ N(p).class = "Compound" \/ (N(p).class = "For" /\ N(p).init = d)
  BY <1>1, DeclaredIn
<1>3. p < d /\ d < v /\ p \in Nat /\ d \in Nat /\ v \in Nat /\ k \in Nat /\ p # 0
  BY <1>1, <1>2, ParentIs
<1>4. p # k
  BY <1>1, <1>3
<1>5. PICK j \in Around(k) : N(j).parent = p
  BY <1>1, <1>4, AroundFacts
<1>6. j \in Nodes /\ j \in Nat /\ j # 0
  BY <1>5, AroundFacts, ParentIs
<1>7. v \in Declarators(d)
  BY <1>1 DEF Declarators, ChildrenOf
<1>8. CASE N(p).class = "Compound"
  <2>1. ~(j < d)
    <3>1. j < d => k < d
      BY <1>2, <1>5, InsideComesFirst
    <3> QED BY <3>1, <1>1, <1>3
  <2>2. d <= j
    BY <2>1, <1>3, <1>6
  <2>3. v \in visibleInCompound(p, j)
    BY <2>2, <1>2, <1>7 DEF visibleInCompound, ChildrenOf
  <2>4. v \in addVarDeclsVisible(p, j)
    BY <2>3, <1>8 DEF addVarDeclsVisible
  <2> QED BY <2>4, <1>3, <1>5 DEF Visible
<1>9. CASE N(p).class = "For" /\ j # d
  <2>1. v \in visibleInFor(p, j)
    BY <1>2, <1>7, <1>9 DEF visibleInFor
  <2>2. v \in addVarDeclsVisible(p, j)
    BY <2>1, <1>9 DEF addVarDeclsVisible
  <2> QED BY <2>2, <1>3, <1>5 DEF Visible
<1>10. CASE N(p).class = "For" /\ j = d
  <2>1. d # k
    BY <1>1, <1>3
  <2>2. PICK i \in Around(k) : N(i).parent = d
    BY <2>1, <1>5, <1>10, AroundFacts
  <2>3. i \in Nodes /\ i \in Nat
    BY <2>2, AroundFacts, ParentIs
  <2>4. ~(i < v)
    <3>1. i < v => k < v
      BY <1>1, <2>2, InsideComesFirst
    <3> QED BY <3>1, <1>1, <1>3
  <2>5. v <= i
    BY <2>3, <2>4, <1>3
  <2>6. v \in addVarDeclsVisible(d, i)
    BY <2>5, <1>2, <1>7 DEF addVarDeclsVisible, visibleInDeclStmt
  <2> QED BY <2>2, <2>6, <1>3 DEF Visible
<1> QED BY <1>2, <1>8, <1>9, <1>10

--------------------------------------------------------------------------------
\* What may be active.
Places == {k \in Nodes : N(k).class \in {"Expr", "DeclStmt"}}

\* What is shown is of the statement that is active, and of the allocas until now;
\* statements are evaluated after all allocas.
ScopeInv ==
  /\ function \in Bodies /\ active \in Places \cup {0}
  /\ active # 0 => allocated = Allocas
  /\ shown = FunctionStateShows(active, allocated)

\* The function stays the same, and all that is told by it alone.
LEMMA SameFunction ==
  ASSUME function' = function
  PROVE  /\ Places' = Places /\ Allocas' = Allocas
         /\ \A k, s : FunctionStateShows(k, s)' = FunctionStateShows(k, s)
<1>1. Places' = Places /\ Allocas' = Allocas
  BY DEF Places, Allocas, Nodes, N
<1>2. \A k, s : FunctionStateShows(k, s)' = FunctionStateShows(k, s)
  BY DEF FunctionStateShows, getVarDeclsVisible, addVarDeclsVisible, visibleInDeclStmt, visibleInCompound,
         visibleInFor, Declarators, ChildrenOf, Nodes, N
<1> QED BY <1>1, <1>2

\* Before anything is executed only parameters passed by value are shown.
LEMMA ScopeStarts == ScopeInit => ScopeInv
<1> SUFFICES ASSUME ScopeInit PROVE ScopeInv
  OBVIOUS
<1>1. FunctionStateShows(0, {}) = function.byval
  BY DEF FunctionStateShows
<1> QED BY <1>1 DEF ScopeInit, ScopeInv

\* Each alloca and each statement shows what is told by it alone.
LEMMA ScopeKept == ScopeInv /\ [ScopeNext]_scopeVars => ScopeInv'
<1> SUFFICES ASSUME ScopeInv, [ScopeNext]_scopeVars PROVE ScopeInv'
  OBVIOUS
<1>0. function' = function
  BY DEF ScopeNext, ExecuteAlloca, ExecuteStmt, scopeVars
<1>1. /\ Places' = Places /\ Allocas' = Allocas
      /\ \A k, s : FunctionStateShows(k, s)' = FunctionStateShows(k, s)
  BY <1>0, SameFunction
<1>2. function' \in Bodies
  BY <1>0 DEF ScopeInv
<1>3. CASE ExecuteAlloca
  BY <1>1, <1>2, <1>3 DEF ScopeInv, ExecuteAlloca
<1>4. CASE ExecuteStmt
  BY <1>1, <1>2, <1>4 DEF ScopeInv, ExecuteStmt, Places
<1>5. CASE UNCHANGED scopeVars
  BY <1>1, <1>2, <1>5 DEF ScopeInv, scopeVars
<1> QED BY <1>3, <1>4, <1>5 DEF ScopeNext

\* What is shown is what is visible, which is what is in scope.
LEMMA ShownInScope == ScopeInv => VisibleIsScope
<1> SUFFICES ASSUME ScopeInv, active # 0
             PROVE  LET scope == {v \in InScope(active) : ~N(v).static} \cup function.params \cup function.byval
                        early == {v \in Nodes : /\ N(v).class = "Var" /\ N(v).parent \in Around(active)
                                                /\ ~N(v).static}
                    IN  scope \subseteq shown /\ shown \subseteq scope \cup early
  BY DEF VisibleIsScope
<1>1. Body /\ active \in Nodes /\ N(active).class \in {"Expr", "DeclStmt"}
  BY BodiesAssumption DEF ScopeInv, Places, Body, Nodes
<1>2. \A v : v \in getVarDeclsVisible(active, 0) <=> Visible(v, active)
  BY <1>1, VisibleFrom
<1>3. allocated = function.params \cup {k \in Nodes : N(k).class = "Var" /\ ~N(k).static}
  BY DEF ScopeInv, Allocas
<1>4. shown = function.byval \cup (function.params \cap allocated)
                \cup {v \in getVarDeclsVisible(active, 0) \cap allocated : ~N(v).static}
  BY DEF ScopeInv, FunctionStateShows
<1>5. ASSUME NEW v \in InScope(active), ~N(v).static PROVE v \in shown
  <2>1. v \in Nodes /\ N(v).class = "Var" /\ Visible(v, active)
    BY <1>1, ScopeIsVisible DEF InScope
  <2> QED BY <2>1, <1>2, <1>3, <1>4, <1>5
<1>6. ASSUME NEW v \in getVarDeclsVisible(active, 0)
      PROVE  /\ v \in Nodes /\ N(v).class = "Var"
             /\ v \in InScope(active) \/ N(v).parent \in Around(active)
  BY <1>1, <1>2, VisibleInScope
<1> QED BY <1>3, <1>4, <1>5, <1>6

(***************************************************************************)
(* For every function of any size whose declarations are where C allows    *)
(* them: the local variables that getVarDeclsVisible finds on its way from *)
(* the active statement up to the function's body are those in the scope   *)
(* of C, at every statement and in whatever order these are executed; and  *)
(* those of a declaration that is being evaluated.                         *)
(***************************************************************************)
THEOREM ShownIsTheScope == ScopeSpec => []VisibleIsScope
<1>1. ScopeSpec => []ScopeInv
  BY ScopeStarts, ScopeKept, PTL DEF ScopeSpec
<1> QED BY <1>1, ShownInScope, PTL

--------------------------------------------------------------------------------
(***************************************************************************)
(* Movements between statements.                                           *)
(***************************************************************************)
\* What holds for the recording that was chosen.
Recorded ==
  /\ Len(recording) \in Nat /\ DOMAIN recording = 1..Len(recording)
  /\ \A n \in DOMAIN recording : recording[n].timed \in BOOLEAN /\ recording[n].mapped \in BOOLEAN
  /\ SoundCalls(recording) /\ SoundObjects(recording)

\* The first and the last of some positions.
LEMMA EarliestIs ==
  ASSUME NEW S, S \subseteq Nat, S # {}
  PROVE  Earliest(S) \in S /\ \A l \in S : Earliest(S) <= l
<1>1. S \in SUBSET Nat
  OBVIOUS
<1>2. \E k \in S : \A l \in S : k <= l
  BY <1>1, SmallestNumber
<1> QED BY <1>2 DEF Earliest

\* Latest() is the greatest of a set that has one.
LEMMA LatestIs ==
  ASSUME NEW S, NEW m \in Nat, S \subseteq 0..m, S # {}
  PROVE  Latest(S) \in S /\ \A l \in S : l <= Latest(S)
<1> DEFINE T == {m - x : x \in S}
<1>1. T \in SUBSET Nat /\ T # {}
  <2>1. \A x \in S : m - x \in Nat
    OBVIOUS
  <2>2. T \subseteq Nat
    BY <2>1
  <2>3. T # {}
    OBVIOUS
  <2> QED BY <2>2, <2>3
<1>2. PICK y \in T : \A z \in T : y <= z
  <2> HIDE DEF T
  <2> QED BY <1>1, SmallestNumber
<1>3. PICK x \in S : y = m - x
  BY <1>2
<1>4. ASSUME NEW l \in S PROVE l <= x
  <2>1. y <= m - l
    BY <1>2
  <2>2. l \in Nat /\ x \in Nat
    OBVIOUS
  <2> HIDE DEF T
  <2> QED BY <1>3, <2>1, <2>2
<1>5. \E k \in S : \A l \in S : l <= k
  BY <1>4
<1> QED BY <1>5 DEF Latest

\* It is 0 for no positions only: blocks are numbered from 1.
LEMMA LatestOfNone ==
  ASSUME NEW S, NEW m \in Nat, S \subseteq 1..m
  PROVE  Latest(S) = 0 <=> S = {}
<1>1. CASE S = {}
  BY <1>1 DEF Latest
<1>2. CASE S # {}
  <2>1. S \subseteq 0..m
    OBVIOUS
  <2>2. Latest(S) \in S
    BY <1>2, <2>1, LatestIs
  <2>3. Latest(S) \in 1..m
    BY <2>2
  <2>4. Latest(S) # 0
    BY <2>3
  <2> QED BY <2>4, <1>2
<1> QED BY <1>1, <1>2

--------------------------------------------------------------------------------
\* How a block changes the calls that there are.
LEMMA StackStep ==
  ASSUME Recorded, NEW n \in 1..Len(recording)
  PROVE  \/ /\ recording[n].kind = "enter" /\ StackAt(n) = Append(StackAt(n - 1), n)
            /\ StackAt(n - 1) # <<>> =>
                 \E k \in 1..n - 1 : recording[k].kind = "pre" /\ Top(StackAt(k)) = Top(StackAt(n - 1))
         \/ /\ recording[n].kind = "exit" /\ StackAt(n - 1) # <<>>
            /\ StackAt(n) = SubSeq(StackAt(n - 1), 1, Len(StackAt(n - 1)) - 1)
         \/ recording[n].kind \in {"pre", "inst", "time"} /\ StackAt(n) = StackAt(n - 1)
<1>1. n \in DOMAIN recording /\ n \in Nat /\ n # 0
  BY DEF Recorded
<1>2. CallsBefore(recording, n) = StackAt(n - 1)
  BY <1>1 DEF CallsBefore, StackAt
<1>3. StackAt(n) = recording[n].stack
  BY <1>1 DEF StackAt
<1>4. \A k \in 1..n - 1 : StackAt(k) = recording[k].stack
  BY <1>1 DEF StackAt
<1>5. \/ /\ recording[n].kind = "enter" /\ recording[n].stack = Append(StackAt(n - 1), n)
         /\ StackAt(n - 1) # <<>> =>
              \E k \in 1..n - 1 : recording[k].kind = "pre" /\ Top(recording[k].stack) = Top(StackAt(n - 1))
      \/ /\ recording[n].kind = "exit" /\ StackAt(n - 1) # <<>>
         /\ recording[n].stack = SubSeq(StackAt(n - 1), 1, Len(StackAt(n - 1)) - 1)
      \/ recording[n].kind \in {"pre", "inst", "time"} /\ recording[n].stack = StackAt(n - 1)
  BY <1>1, <1>2 DEF Recorded, SoundCalls
<1> QED BY <1>3, <1>4, <1>5

\* A call is known by the block that entered it, and keeps its place from there on.
IsStack(n) ==
  /\ StackAt(n) \in Seq(1..n)
  /\ \A i \in 1..Len(StackAt(n)) :
       /\ Len(StackAt(StackAt(n)[i])) = i
       /\ \A m \in StackAt(n)[i]..n : Len(StackAt(m)) >= i /\ StackAt(m)[i] = StackAt(n)[i]

\* A block keeps the calls below the one that it enters or leaves.
LEMMA StackKept ==
  ASSUME Recorded, NEW n \in 1..Len(recording), IsStack(n - 1)
  PROVE  IsStack(n)
<1> PICK s : s = StackAt(n - 1)
  OBVIOUS
<1>0. n \in Nat /\ n - 1 \in Nat /\ n \in 1..n /\ 1..n - 1 \subseteq 1..n
  BY DEF Recorded
<1>1. s \in Seq(1..n - 1) /\ s \in Seq(1..n) /\ Len(s) \in Nat
  BY <1>0 DEF IsStack
<1>2. \A i \in 1..Len(s) : /\ s[i] \in 1..n - 1 /\ Len(StackAt(s[i])) = i
                           /\ \A m \in s[i]..n - 1 : Len(StackAt(m)) >= i /\ StackAt(m)[i] = s[i]
  BY <1>1 DEF IsStack
<1>3. ASSUME StackAt(n) \in Seq(1..n), NEW i \in 1..Len(s), Len(StackAt(n)) >= i, StackAt(n)[i] = s[i]
      PROVE  /\ Len(StackAt(StackAt(n)[i])) = i
             /\ \A m \in StackAt(n)[i]..n : Len(StackAt(m)) >= i /\ StackAt(m)[i] = StackAt(n)[i]
  <2>1. \A m \in s[i]..n : m = n \/ m \in s[i]..n - 1
    BY <1>0, <1>2
  <2> QED BY <1>2, <1>3, <2>1
<1>4. CASE StackAt(n) = s
  <2>1. StackAt(n) \in Seq(1..n) /\ \A i \in 1..Len(s) : Len(StackAt(n)) >= i /\ StackAt(n)[i] = s[i]
    BY <1>1, <1>4
  <2> QED BY <2>1, <1>3, <1>4 DEF IsStack
<1>5. CASE StackAt(n) = Append(s, n)
  <2>1. /\ StackAt(n) \in Seq(1..n) /\ Len(StackAt(n)) = Len(s) + 1 /\ StackAt(n)[Len(s) + 1] = n
        /\ \A i \in 1..Len(s) : StackAt(n)[i] = s[i] /\ Len(StackAt(n)) >= i
    BY <1>0, <1>1, <1>5
  <2>2. ASSUME NEW i \in 1..Len(StackAt(n))
        PROVE  /\ Len(StackAt(StackAt(n)[i])) = i
               /\ \A m \in StackAt(n)[i]..n : Len(StackAt(m)) >= i /\ StackAt(m)[i] = StackAt(n)[i]
    <3>1. CASE i \in 1..Len(s)
      BY <3>1, <2>1, <1>3
    <3>2. CASE i = Len(s) + 1
      <4>1. \A m \in n..n : m = n
        BY <1>0
      <4> QED BY <4>1, <3>2, <2>1, <1>1
    <3>3. i \in 1..Len(s) \/ i = Len(s) + 1
      BY <2>1, <2>2, <1>1
    <3> QED BY <3>1, <3>2, <3>3
  <2> QED BY <2>1, <2>2 DEF IsStack
<1>6. CASE s # <<>> /\ StackAt(n) = SubSeq(s, 1, Len(s) - 1)
  <2>0. Len(s) # 0
    BY <1>1, <1>6
  <2>1. /\ StackAt(n) \in Seq(1..n) /\ Len(StackAt(n)) = Len(s) - 1
        /\ \A i \in 1..Len(s) - 1 : StackAt(n)[i] = s[i]
    <3>1. 1 \in 1..Len(s) + 1 /\ Len(s) - 1 \in 0..Len(s)
      BY <1>1, <2>0
    <3>2. /\ SubSeq(s, 1, Len(s) - 1) \in Seq(1..n) /\ Len(SubSeq(s, 1, Len(s) - 1)) = Len(s) - 1
          /\ \A i \in 1..Len(s) - 1 : SubSeq(s, 1, Len(s) - 1)[i] = s[i]
      BY <1>1, <3>1
    <3> QED BY <1>6, <3>2
  <2>2. \A i \in 1..Len(StackAt(n)) : i \in 1..Len(s) /\ Len(StackAt(n)) >= i /\ StackAt(n)[i] = s[i]
    <3>1. \A i \in 1..Len(s) - 1 : i \in 1..Len(s) /\ Len(s) - 1 >= i
      BY <1>1
    <3> QED BY <3>1, <2>1
  <2> QED BY <2>1, <2>2, <1>3 DEF IsStack
<1> QED BY <1>4, <1>5, <1>6, StackStep

\* So the call stack at any position has each call at its place.
LEMMA Stacks ==
  ASSUME Recorded
  PROVE  \A n \in Positions : IsStack(n)
<1> DEFINE T == {n \in Nat : n \in Positions => IsStack(n)}
<1>1. 0 \in T
  <2>1. StackAt(0) = <<>> /\ Len(StackAt(0)) = 0
    BY DEF StackAt
  <2>2. StackAt(0) \in Seq(1..0) /\ 1..Len(StackAt(0)) = {}
    <3>1. \A S : <<>> \in Seq(S)
      OBVIOUS
    <3>2. 1..0 = {}
      OBVIOUS
    <3> QED BY <2>1, <3>1, <3>2
  <2>3. IsStack(0)
    BY <2>2 DEF IsStack
  <2> QED BY <2>3
<1>2. ASSUME NEW n \in T PROVE n + 1 \in T
  <2>1. n \in Nat
    OBVIOUS
  <2>2. CASE n + 1 \in Positions
    <3>1. n + 1 \in 1..Len(recording) /\ n \in Positions /\ (n + 1) - 1 = n
      BY <2>1, <2>2 DEF Positions, Recorded
    <3>2. IsStack((n + 1) - 1)
      BY <3>1, <1>2
    <3>3. IsStack(n + 1)
      <4> HIDE DEF T
      <4> QED BY <3>1, <3>2, StackKept
    <3> QED BY <2>1, <3>3
  <2> QED BY <2>1, <2>2
<1> HIDE DEF T
<1>3. T \subseteq Nat
  BY DEF T
<1>4. \A n \in Nat : n \in T
  BY <1>1, <1>2, <1>3, SetInduction
<1> QED BY <1>4 DEF T, Positions, Recorded

--------------------------------------------------------------------------------
\* The block that decides which object is at the address.
LEMMA LastChange ==
  ASSUME Recorded, NEW n \in Positions
  PROVE  LET a == LastOf(Changes, n) IN
           /\ a = 0 => ObjectAt(n) = "none" /\ Changes \cap 1..n = {}
           /\ a # 0 => a \in Changes /\ a \in 1..n /\ ObjectAt(n) = recording[a].owner
           /\ \A k \in Changes : k <= n => k <= a
<1> DEFINE S == Changes \cap 1..n
<1>0. n \in Nat
  BY DEF Positions, Recorded
<1>1. S \subseteq 1..n /\ S \subseteq 0..n
  BY <1>0
<1>2. LastOf(Changes, n) = Latest(S)
  BY DEF LastOf
<1>3. \A k \in Changes : k <= n => k \in S
  BY <1>0 DEF Changes, Recorded
<1> HIDE DEF S
<1>4. Latest(S) = 0 <=> S = {}
  BY <1>0, <1>1, LatestOfNone
<1>5. S # {} => Latest(S) \in S /\ \A l \in S : l <= Latest(S)
  BY <1>0, <1>1, LatestIs
<1>6. ObjectAt(n) = IF Latest(S) = 0 THEN "none" ELSE recording[Latest(S)].owner
  BY <1>2 DEF ObjectAt
<1> QED BY <1>2, <1>3, <1>4, <1>5, <1>6 DEF S

\* An object stays until the next change.
LEMMA ObjectStays ==
  ASSUME Recorded, NEW a \in Changes, NEW n \in Positions, a <= n,
         \A k \in Changes : k <= n => k <= a
  PROVE  LastOf(Changes, n) = a /\ ObjectAt(n) = recording[a].owner
<1> PICK b : b = LastOf(Changes, n)
  OBVIOUS
<1>1. a \in Nat /\ a # 0 /\ n \in Nat
  BY DEF Changes, Positions, Recorded
<1>2. /\ a <= b
      /\ b # 0 => b \in Changes /\ b \in 1..n /\ ObjectAt(n) = recording[b].owner
      /\ b = 0 => Changes \cap 1..n = {}
  BY LastChange
<1>3. b # 0
  BY <1>1, <1>2
<1>4. b <= a /\ b \in Nat
  BY <1>1, <1>2, <1>3
<1> QED BY <1>1, <1>2, <1>3, <1>4

\* A block between two others that changes what is there.
LEMMA SoundChange ==
  ASSUME Recorded, NEW n \in Changes
  PROVE  /\ n \in 1..Len(recording) /\ n \in Positions /\ n - 1 \in Positions
         /\ recording[n].owner \in Heap \cup {"none"} => recording[n].timed
         /\ recording[n].owner # "none" => \A k \in Changes : k < n /\ recording[k].owner # "none" =>
              \E l \in Changes : k < l /\ l < n /\ recording[l].owner = "none"
<1>1. n \in DOMAIN recording /\ Changes \subseteq 1..Len(recording) /\ Len(recording) \in Nat
  BY DEF Changes, Recorded
<1>2. \A k \in Changes : recording[k].owner # "same"
  BY DEF Changes
<1>3. ASSUME recording[n].owner # "none", NEW k \in Changes, k < n, recording[k].owner # "none"
      PROVE  \E l \in Changes : k < l /\ l < n /\ recording[l].owner = "none"
  <2>1. Allocates(recording, n) /\ Allocates(recording, k) /\ k \in 1..n - 1
    BY <1>1, <1>2, <1>3 DEF Allocates
  <2>2. PICK l \in k + 1..n - 1 : recording[l].owner = "none"
    BY <1>1, <2>1 DEF Recorded, SoundObjects
  <2>3. l \in 1..Len(recording) /\ k < l /\ l < n
    BY <1>1, <2>1
  <2>4. l \in Changes
    BY <2>2, <2>3 DEF Changes, Recorded
  <2> QED BY <2>2, <2>3, <2>4
<1>4. recording[n].owner \in Heap \cup {"none"} => recording[n].timed
  BY <1>1 DEF Recorded, SoundObjects
<1>5. n \in 1..Len(recording) /\ n \in Positions /\ n - 1 \in Positions
  BY <1>1 DEF Positions, Recorded
<1> QED BY <1>3, <1>4, <1>5

\* Before an allocation nothing is there.
LEMMA FreeBefore ==
  ASSUME Recorded, NEW a \in Changes, recording[a].owner # "none"
  PROVE  ObjectAt(a - 1) = "none"
<1>1. a \in Nat /\ a - 1 \in Positions /\ a - 1 \in Nat
  BY SoundChange DEF Positions, Recorded
<1> PICK b : b = LastOf(Changes, a - 1)
  OBVIOUS
<1>2. /\ b = 0 => ObjectAt(a - 1) = "none"
      /\ b # 0 => b \in Changes /\ b \in 1..a - 1 /\ ObjectAt(a - 1) = recording[b].owner
      /\ \A k \in Changes : k <= a - 1 => k <= b
  BY <1>1, LastChange
<1>3. CASE b # 0 /\ recording[b].owner # "none"
  <2>1. b < a /\ b \in Nat
    BY <1>1, <1>2, <1>3
  <2>2. PICK l \in Changes : b < l /\ l < a /\ recording[l].owner = "none"
    BY <1>2, <1>3, <2>1, SoundChange
  <2>3. l \in Nat
    BY SoundChange DEF Recorded
  <2>4. l <= b
    BY <1>1, <1>2, <2>2, <2>3
  <2> QED BY <2>1, <2>2, <2>3, <2>4
<1> QED BY <1>2, <1>3

\* Where a movement ends, and that it ends at all.
LEMMA ForwardIs ==
  ASSUME Recorded, NEW n \in Positions, NEW goals, goals \subseteq Positions
  PROVE  /\ moveForwardUntil(n, goals).position \in Positions
         /\ \A g \in goals : g > n =>
              /\ moveForwardUntil(n, goals).result = "PredicateSatisfied"
              /\ moveForwardUntil(n, goals).position <= g
         /\ moveForwardUntil(n, goals).result = "PredicateSatisfied" =>
              moveForwardUntil(n, goals).position \in goals /\ moveForwardUntil(n, goals).position > n
<1> DEFINE ahead == {m \in goals : m > n}
<1>1. ahead \subseteq Nat /\ Len(recording) \in Positions
  <2>1. ahead \subseteq Positions
    OBVIOUS
  <2> HIDE DEF ahead
  <2>2. Positions \subseteq Nat /\ Len(recording) \in Positions
    BY DEF Positions, Recorded
  <2> QED BY <2>1, <2>2
<1>2. ahead # {} => Earliest(ahead) \in ahead /\ \A l \in ahead : Earliest(ahead) <= l
  <2> HIDE DEF ahead
  <2> QED BY <1>1, EarliestIs
<1>3. CASE ahead # {}
  <2>1. moveForwardUntil(n, goals) = [position |-> Earliest(ahead), result |-> "PredicateSatisfied"]
    BY <1>3 DEF moveForwardUntil, Reached
  <2> HIDE DEF ahead
  <2>2. /\ moveForwardUntil(n, goals).position = Earliest(ahead)
        /\ moveForwardUntil(n, goals).result = "PredicateSatisfied"
    BY <2>1
  <2> QED BY <2>2, <1>2, <1>3 DEF ahead
<1>4. CASE ahead = {}
  <2>1. moveForwardUntil(n, goals) =
          [position |-> Len(recording), result |-> IF n = Len(recording) THEN "Unmoved" ELSE "ReachedEnd"]
    BY <1>4 DEF moveForwardUntil, Stopped
  <2>2. /\ moveForwardUntil(n, goals).position = Len(recording)
        /\ moveForwardUntil(n, goals).result # "PredicateSatisfied"
    BY <2>1
  <2> QED BY <2>2, <1>1, <1>4
<1> QED BY <1>3, <1>4

\* The same for a search back.
LEMMA BackwardIs ==
  ASSUME Recorded, NEW n \in Positions, NEW goals, goals \subseteq Positions
  PROVE  /\ moveBackwardUntil(n, goals).position \in Positions
         /\ \A g \in goals : g < n =>
              /\ moveBackwardUntil(n, goals).result = "PredicateSatisfied"
              /\ g <= moveBackwardUntil(n, goals).position
         /\ moveBackwardUntil(n, goals).result = "PredicateSatisfied" =>
              moveBackwardUntil(n, goals).position \in goals /\ moveBackwardUntil(n, goals).position < n
<1> DEFINE behind == {m \in goals : m < n}
<1>1. behind \subseteq 0..Len(recording) /\ Len(recording) \in Nat /\ 0 \in Positions
  <2>1. behind \subseteq Positions
    OBVIOUS
  <2> HIDE DEF behind
  <2> QED BY <2>1 DEF Positions, Recorded
<1>2. behind # {} => Latest(behind) \in behind /\ \A l \in behind : l <= Latest(behind)
  <2> HIDE DEF behind
  <2> QED BY <1>1, LatestIs
<1>3. CASE behind # {}
  <2>1. moveBackwardUntil(n, goals) = [position |-> Latest(behind), result |-> "PredicateSatisfied"]
    BY <1>3 DEF moveBackwardUntil, Reached
  <2> HIDE DEF behind
  <2>2. /\ moveBackwardUntil(n, goals).position = Latest(behind)
        /\ moveBackwardUntil(n, goals).result = "PredicateSatisfied"
    BY <2>1
  <2> QED BY <2>2, <1>2, <1>3 DEF behind
<1>4. CASE behind = {}
  <2>1. moveBackwardUntil(n, goals) =
          [position |-> 0, result |-> IF n = 0 THEN "Unmoved" ELSE "ReachedBeginning"]
    BY <1>4 DEF moveBackwardUntil, Stopped
  <2>2. moveBackwardUntil(n, goals).position = 0 /\ moveBackwardUntil(n, goals).result # "PredicateSatisfied"
    BY <2>1
  <2> QED BY <2>2, <1>1, <1>4
<1> QED BY <1>3, <1>4

--------------------------------------------------------------------------------
(* The movements to where an object is allocated and deallocated.             *)

\* A search over the process ends where a block took its lock.
LEMMA ProcessForwardIs ==
  ASSUME Recorded, NEW n \in Positions, NEW goals, goals \subseteq Positions
  PROVE  /\ moveProcessForwardUntil(n, goals).position \in Positions
         /\ \A g \in goals : g > n /\ recording[g].timed =>
              /\ moveProcessForwardUntil(n, goals).result = "PredicateSatisfied"
              /\ moveProcessForwardUntil(n, goals).position <= g
         /\ moveProcessForwardUntil(n, goals).result = "PredicateSatisfied" =>
              /\ moveProcessForwardUntil(n, goals).position \in goals
              /\ moveProcessForwardUntil(n, goals).position > n
              /\ recording[moveProcessForwardUntil(n, goals).position].timed
<1> DEFINE timed == {m \in goals : m > n /\ recording[m].timed}
<1>1. timed \subseteq Positions /\ \A g : g \in timed <=> g \in goals /\ g > n /\ recording[g].timed
  OBVIOUS
<1>2. moveProcessForwardUntil(n, goals) = moveForwardUntil(n, timed)
  BY DEF moveProcessForwardUntil
<1> HIDE DEF timed
<1> QED BY <1>1, <1>2, ForwardIs

\* The same for a search back: the block that is undone took it.
LEMMA ProcessBackwardIs ==
  ASSUME Recorded, NEW n \in Positions, NEW goals, goals \subseteq Positions
  PROVE  /\ moveProcessBackwardUntil(n, goals).position \in Positions
         /\ \A g \in goals : g < n /\ recording[g + 1].timed =>
              /\ moveProcessBackwardUntil(n, goals).result = "PredicateSatisfied"
              /\ g <= moveProcessBackwardUntil(n, goals).position
         /\ moveProcessBackwardUntil(n, goals).result = "PredicateSatisfied" =>
              /\ moveProcessBackwardUntil(n, goals).position \in goals
              /\ moveProcessBackwardUntil(n, goals).position < n
<1> DEFINE timed == {m \in goals : m < n /\ recording[m + 1].timed}
<1>1. timed \subseteq Positions /\ \A g : g \in timed <=> g \in goals /\ g < n /\ recording[g + 1].timed
  OBVIOUS
<1>2. moveProcessBackwardUntil(n, goals) = moveBackwardUntil(n, timed)
  BY DEF moveProcessBackwardUntil
<1> HIDE DEF timed
<1> QED BY <1>1, <1>2, BackwardIs

\* Where a movement to an allocation ended, and where one to a deallocation did.
AllocationOk(from, to) ==
  ObjectAt(from) \in Heap => /\ ObjectAt(to) = ObjectAt(from) /\ to <= from
                             /\ ObjectAt(to - 1) # ObjectAt(to)
DeallocationOk(from, to) ==
  /\ ObjectAt(to) = ObjectAt(from) /\ from <= to
  /\ \A n \in from..to : Allocated(n)
  /\ ObjectAt(to + 1) # ObjectAt(to)

\* moveToAllocation(): back past the allocation, and on to it.
LEMMA AllocationEnds ==
  ASSUME Recorded, NEW n \in Positions, {"same", "none"} \cap Heap = {}
  PROVE  /\ ToAllocation(n).position \in Positions
         /\ ToAllocation(n).result = "PredicateSatisfied" => AllocationOk(n, ToAllocation(n).position)
<1> PICK back : back = moveProcessBackwardUntil(n, Positions \ AllocatedAt)
  OBVIOUS
<1> PICK b : b = back.position
  OBVIOUS
<1> PICK on : on = moveProcessForwardUntil(b, AllocatedAt)
  OBVIOUS
<1> PICK o : o = on.position
  OBVIOUS
<1>0. AllocatedAt \subseteq Positions /\ Positions \subseteq Nat
  BY DEF AllocatedAt, Positions, Recorded
<1>1. /\ b \in Positions /\ b \in Nat
      /\ \A g \in Positions \ AllocatedAt : g < n /\ recording[g + 1].timed => g <= b
      /\ back.result = "PredicateSatisfied" => b \in Positions \ AllocatedAt /\ b < n
  <2>1. Positions \ AllocatedAt \subseteq Positions
    OBVIOUS
  <2> QED BY <2>1, <1>0, ProcessBackwardIs
<1>2. /\ o \in Positions /\ o \in Nat
      /\ \A g \in AllocatedAt : g > b /\ recording[g].timed => o <= g /\ o > b
  BY <1>0, <1>1, ProcessForwardIs
<1>3. ToAllocation(n) = IF back.result = "PredicateSatisfied" THEN [back EXCEPT !.position = o] ELSE back
  BY DEF ToAllocation
<1>4. \E p, q : back = [position |-> p, result |-> q]
  BY DEF moveProcessBackwardUntil, moveBackwardUntil, Reached, Stopped
<1>5. /\ ToAllocation(n).result = back.result
      /\ ToAllocation(n).position = IF back.result = "PredicateSatisfied" THEN o ELSE b
  BY <1>3, <1>4
<1>6. ASSUME ObjectAt(n) \in Heap, back.result = "PredicateSatisfied"
      PROVE  /\ ObjectAt(o) = ObjectAt(n) /\ o <= n
             /\ ObjectAt(o - 1) # ObjectAt(o)
  <2> PICK a : a = LastOf(Changes, n)
    OBVIOUS
  <2>1. ObjectAt(n) # "none" /\ n \in Nat
    BY <1>0, <1>6
  <2>2. /\ a \in Changes /\ a \in 1..n /\ ObjectAt(n) = recording[a].owner
        /\ \A k \in Changes : k <= n => k <= a
    BY <2>1, LastChange
  <2>3. a \in Nat /\ a - 1 \in Nat /\ a <= n /\ a \in Positions /\ a - 1 \in Positions
    BY <2>1, <2>2, SoundChange
  <2>4. recording[a].timed
    BY <2>2, <1>6, SoundChange
  <2>5. ObjectAt(a - 1) = "none"
    BY <2>1, <2>2, FreeBefore
  <2>6. ASSUME NEW m \in Positions, a <= m, m <= n PROVE ObjectAt(m) = recording[a].owner
    <3>1. \A k \in Changes : k <= m => k <= a
      <4> SUFFICES ASSUME NEW k \in Changes, k <= m PROVE k <= a
        OBVIOUS
      <4>1. k \in Nat /\ m \in Nat
        BY <1>0, SoundChange DEF Recorded
      <4>2. k <= n
        BY <4>1, <2>1, <2>6
      <4> QED BY <4>2, <2>2
    <3> QED BY <3>1, <2>2, <2>6, ObjectStays
  <2>7. a \in AllocatedAt /\ a - 1 \in Positions \ AllocatedAt
    <3>1. a <= a
      BY <2>3
    <3>2. ObjectAt(a) # "none"
      BY <3>1, <2>1, <2>2, <2>3, <2>6
    <3> QED BY <3>2, <2>3, <2>5 DEF AllocatedAt, Allocated
  <2>8. b = a - 1
    <3>1. a - 1 < n /\ (a - 1) + 1 = a
      BY <2>1, <2>3
    <3>2. a - 1 <= b /\ b \in Positions \ AllocatedAt /\ b < n
      BY <3>1, <2>4, <2>7, <1>1, <1>6
    <3>3. ObjectAt(b) = "none"
      BY <3>2 DEF AllocatedAt, Allocated
    <3>4. a <= b /\ b <= n => ObjectAt(b) = recording[a].owner
      BY <1>1, <2>6
    <3>5. ~(a <= b /\ b <= n)
      BY <3>3, <3>4, <2>1, <2>2
    <3> QED BY <3>2, <3>5, <2>1, <2>3, <1>1
  <2>9. o = a
    <3>1. a > b
      BY <2>3, <2>8
    <3>2. o <= a /\ o > b
      BY <3>1, <2>4, <2>7, <1>2
    <3> QED BY <3>2, <2>3, <2>8, <1>2
  <2>10. ObjectAt(a) = recording[a].owner
    <3>1. a <= a
      BY <2>3
    <3> QED BY <3>1, <2>3, <2>6
  <2> QED BY <2>1, <2>2, <2>3, <2>5, <2>9, <2>10
<1> QED BY <1>1, <1>2, <1>5, <1>6 DEF AllocationOk

\* moveToDeallocation(): on past the deallocation, and back to before it.
LEMMA DeallocationEnds ==
  ASSUME Recorded, NEW n \in Positions, Allocated(n)
  PROVE  /\ ToDeallocation(n).position \in Positions
         /\ ToDeallocation(n).result = "PredicateSatisfied" => DeallocationOk(n, ToDeallocation(n).position)
<1> PICK on : on = moveProcessForwardUntil(n, Positions \ AllocatedAt)
  OBVIOUS
<1> PICK d : d = on.position
  OBVIOUS
<1> PICK back : back = moveProcessBackwardUntil(d, AllocatedAt)
  OBVIOUS
<1> PICK b : b = back.position
  OBVIOUS
<1>0. AllocatedAt \subseteq Positions /\ Positions \subseteq Nat /\ Len(recording) \in Nat
  BY DEF AllocatedAt, Positions, Recorded
<1>1. /\ d \in Positions /\ d \in Nat
      /\ \A g \in Positions \ AllocatedAt : g > n /\ recording[g].timed => d <= g
      /\ on.result = "PredicateSatisfied" => d \in Positions \ AllocatedAt /\ d > n
  <2>1. Positions \ AllocatedAt \subseteq Positions
    OBVIOUS
  <2> QED BY <2>1, <1>0, ProcessForwardIs
<1>2. /\ b \in Positions /\ b \in Nat
      /\ \A g \in AllocatedAt : g < d /\ recording[g + 1].timed => g <= b /\ b < d
  BY <1>0, <1>1, ProcessBackwardIs
<1>3. ToDeallocation(n) = IF on.result = "PredicateSatisfied" THEN [on EXCEPT !.position = b] ELSE on
  BY DEF ToDeallocation
<1>4. \E p, q : on = [position |-> p, result |-> q]
  BY DEF moveProcessForwardUntil, moveForwardUntil, Reached, Stopped
<1>5. /\ ToDeallocation(n).result = on.result
      /\ ToDeallocation(n).position = IF on.result = "PredicateSatisfied" THEN b ELSE d
  BY <1>3, <1>4
<1>6. ASSUME on.result = "PredicateSatisfied" PROVE DeallocationOk(n, b)
  <2>1. d \in Positions /\ d \in Nat /\ n \in Nat /\ d > n /\ ~Allocated(d)
    BY <1>0, <1>1, <1>6 DEF AllocatedAt
  <2>0. recording[d].timed
    <3>1. Positions \ AllocatedAt \subseteq Positions
      OBVIOUS
    <3> QED BY <3>1, <1>6, ProcessForwardIs
  <2> PICK a : a = LastOf(Changes, n)
    OBVIOUS
  <2>2. /\ a \in Changes /\ a \in 1..n /\ ObjectAt(n) = recording[a].owner /\ recording[a].owner # "none"
        /\ \A k \in Changes : k <= n => k <= a
    BY LastChange DEF Allocated
  <2>3. \A k \in Changes : k \in Nat /\ k \in Positions
    BY <1>0, SoundChange
  \* No other change until the object is gone.
  <2>4. \A k \in Changes : k < d => k <= a
    <3> SUFFICES ASSUME NEW k0 \in Changes, k0 < d, ~(k0 <= a) PROVE FALSE
      OBVIOUS
    <3> DEFINE T == {k \in Changes : a < k /\ k < d}
    <3>1. T \subseteq Nat /\ k0 \in T
      <4>1. a \in Nat /\ k0 \in Nat
        BY <2>1, <2>2, <2>3
      <4>2. a < k0
        BY <4>1
      <4>3. T \subseteq Changes /\ Changes \subseteq Nat
        BY <2>3
      <4> QED BY <4>2, <4>3
    <3>2. PICK k \in T : \A l \in T : k <= l
      <4>1. T \in SUBSET Nat /\ T # {}
        BY <3>1
      <4> HIDE DEF T
      <4> QED BY <4>1, SmallestNumber
    <3>3. k \in Changes /\ a < k /\ k < d /\ k \in Nat /\ a \in Nat /\ n < k
      <4>1. k \in Changes /\ a < k /\ k < d
        BY <3>2
      <4>2. k \in Nat /\ a \in Nat
        BY <4>1, <2>2, <2>3
      <4>3. ~(k <= n)
        <5>1. k <= n => k <= a
          BY <2>2, <4>1
        <5> QED BY <5>1, <4>1, <4>2
      <4> QED BY <4>1, <4>2, <4>3, <2>1
    <3>4. CASE recording[k].owner = "none"
      <4>1. k \in Positions \ AllocatedAt
        <5>1. \A l \in Changes : l <= k => l <= k
          OBVIOUS
        <5>2. k <= k
          BY <3>3
        <5>3. ObjectAt(k) = "none"
          BY <5>1, <5>2, <3>3, <3>4, <2>3, ObjectStays
        <5> QED BY <5>3, <3>3, <2>3 DEF AllocatedAt, Allocated
      <4>2. recording[k].timed
        BY <3>3, <3>4, SoundChange
      <4>3. d <= k
        BY <4>1, <4>2, <3>3, <1>1
      <4> QED BY <4>3, <3>3, <2>1
    <3>5. CASE recording[k].owner # "none"
      <4>1. PICK l \in Changes : a < l /\ l < k /\ recording[l].owner = "none"
        BY <3>3, <3>5, <2>2, SoundChange
      <4>2. l < d
        <5>1. l \in Nat /\ k \in Nat /\ d \in Nat
          BY <4>1, <3>3, <2>1, <2>3
        <5>2. l < k /\ k < d
          BY <4>1, <3>3
        <5> QED BY <5>1, <5>2
      <4>3. l \in T
        BY <4>1, <4>2
      <4>4. k <= l
        BY <3>2, <4>3
      <4> QED BY <4>1, <4>4, <3>3, <2>3
    <3> QED BY <3>4, <3>5
  <2>5. ASSUME NEW m \in Positions, n <= m, m < d PROVE ObjectAt(m) = ObjectAt(n)
    <3>1. m \in Nat /\ a \in Nat /\ a <= n
      BY <1>0, <2>2
    <3>2. a <= m
      BY <3>1, <2>1, <2>5
    <3>3. \A k \in Changes : k <= m => k <= a
      BY <3>1, <2>1, <2>3, <2>4, <2>5
    <3> QED BY <3>2, <3>3, <2>2, <2>5, ObjectStays
  <2>6. d - 1 \in Nat /\ d - 1 \in Positions /\ n <= d - 1 /\ d - 1 < d /\ (d - 1) + 1 = d
    BY <2>1 DEF Positions, Recorded
  <2>7. d - 1 \in AllocatedAt
    BY <2>2, <2>5, <2>6 DEF AllocatedAt, Allocated
  <2>8. d - 1 <= b /\ b < d
    BY <2>0, <2>6, <2>7, <1>2
  <2>10. b = d - 1
    BY <2>6, <2>8, <1>1, <1>2
  <2>11. \A m \in n..d - 1 : m \in Positions /\ n <= m /\ m < d
    BY <2>1 DEF Positions, Recorded
  <2>12. \A m \in n..d - 1 : Allocated(m)
    BY <2>2, <2>5, <2>11 DEF Allocated
  <2>13. ObjectAt(d) = "none" /\ ObjectAt(d - 1) = ObjectAt(n) /\ ObjectAt(n) # "none"
    BY <2>1, <2>2, <2>5, <2>6 DEF Allocated
  <2> QED BY <2>6, <2>10, <2>12, <2>13 DEF DeallocationOk
<1> QED BY <1>1, <1>2, <1>5, <1>6

--------------------------------------------------------------------------------
(* The instructions of a call, and the part of it before its first statement. *)

\* The instruction that is active is the last one that ran.
LEMMA ActiveIs ==
  ASSUME Recorded, NEW n \in Positions
  PROVE  LET c == getActiveFunction(n)
             a == getActiveInstruction(n)
         IN  /\ a = 0 => \A k \in Instructions(c) : ~(k <= n)
             /\ a # 0 => a \in Instructions(c) /\ a <= n /\ \A k \in Instructions(c) : k <= n => k <= a
<1> DEFINE c == getActiveFunction(n)
           S == {k \in Instructions(c) : k <= n}
<1>0. n \in Nat /\ Instructions(c) \subseteq 1..Len(recording)
  BY DEF Positions, Instructions, Recorded
<1>1. S \subseteq 1..n /\ S \subseteq 0..n
  BY <1>0
<1>2. getActiveInstruction(n) = Latest(S)
  BY DEF getActiveInstruction
<1>3. \A k : k \in S <=> k \in Instructions(c) /\ k <= n
  OBVIOUS
<1> HIDE DEF S
<1>4. Latest(S) = 0 <=> S = {}
  BY <1>0, <1>1, LatestOfNone
<1>5. S # {} => Latest(S) \in S /\ \A l \in S : l <= Latest(S)
  BY <1>0, <1>1, LatestIs
<1> QED BY <1>2, <1>3, <1>4, <1>5

\* The next one is the first that did not run yet.
LEMMA NextIs ==
  ASSUME Recorded, NEW n \in Positions, NEW m \in Instructions(getActiveFunction(n)), m > n
  PROVE  LET x == getNextInstructionInActiveFunction(n)
         IN  x \in Instructions(getActiveFunction(n)) /\ x > n /\ x <= m /\ x # 0
<1> DEFINE S == {k \in Instructions(getActiveFunction(n)) : k > n}
<1>0. n \in Nat /\ Instructions(getActiveFunction(n)) \subseteq 1..Len(recording)
  BY DEF Positions, Instructions, Recorded
<1>1. S \subseteq Nat /\ m \in S
  BY <1>0
<1>2. getNextInstructionInActiveFunction(n) = Earliest(S)
  BY DEF getNextInstructionInActiveFunction
<1>3. \A k \in S : k \in Instructions(getActiveFunction(n)) /\ k > n /\ k # 0
  BY <1>0
<1> HIDE DEF S
<1>4. Earliest(S) \in S /\ \A l \in S : Earliest(S) <= l
  BY <1>1, EarliestIs
<1> QED BY <1>1, <1>2, <1>3, <1>4

\* An instruction is active once it ran.
LEMMA ActiveItself ==
  ASSUME Recorded, NEW n \in Positions, n # 0, recording[n].kind \in {"pre", "inst"}
  PROVE  n \in Instructions(getActiveFunction(n)) /\ getActiveInstruction(n) = n
<1>1. n \in Nat /\ n \in DOMAIN recording
  BY DEF Positions, Recorded
<1>2. n \in Instructions(getActiveFunction(n))
  BY <1>1 DEF Instructions, getActiveFunction
<1> PICK a : a = getActiveInstruction(n)
  OBVIOUS
<1>3. a # 0 /\ a <= n /\ n <= a /\ a \in Instructions(getActiveFunction(n))
  <2>1. n <= n
    BY <1>1
  <2> QED BY <1>2, <2>1, ActiveIs
<1>4. a \in Nat
  BY <1>3 DEF Instructions, Recorded
<1> QED BY <1>1, <1>2, <1>3, <1>4

\* Where the part of a call before its first statement is shown.
PreludeShown(call) ==
  {n \in {n \in Positions : /\ getActiveFunction(n) = call /\ isLogicalPoint(n)
                            /\ getActiveInstruction(n) # 0
                            /\ ~isMappedToStmt(getActiveInstruction(n))} : recording[n].kind \in {"pre", "inst"}}

\* What precedes the first statement is shown at the last of its instructions.
LEMMA PreludeIsLast ==
  ASSUME Recorded, NEW call \in DOMAIN recording, NEW n \in PreludeShown(call), NEW m \in PreludeShown(call), n < m
  PROVE  FALSE
<1>0. call # 0 /\ Positions \subseteq Nat
  BY DEF Recorded, Positions
<1>1. ASSUME NEW x \in PreludeShown(call)
      PROVE  /\ x \in Positions /\ getActiveFunction(x) = call /\ x \in Instructions(call) /\ ~isMappedToStmt(x)
             /\ \/ getNextInstructionInActiveFunction(x) = 0
                \/ isMappedToStmt(getNextInstructionInActiveFunction(x))
             /\ \A k \in Instructions(call) : k < x => ~isMappedToStmt(k)
  <2>1. /\ x \in Positions /\ getActiveFunction(x) = call /\ isLogicalPoint(x)
        /\ ~isMappedToStmt(getActiveInstruction(x)) /\ recording[x].kind \in {"pre", "inst"}
    BY DEF PreludeShown
  <2>2. x # 0
    BY <2>1, <1>0 DEF getActiveFunction, StackAt, Top
  <2>3. x \in Instructions(call) /\ getActiveInstruction(x) = x
    BY <2>1, <2>2, ActiveItself
  <2>4. ~isMappedToStmt(x)
    BY <2>1, <2>3
  <2>5. /\ \/ getNextInstructionInActiveFunction(x) = 0
           \/ isMappedToStmt(getNextInstructionInActiveFunction(x))
        /\ \A k \in PreviousInActiveFunction(x) : ~isMappedToStmt(k)
    BY <2>1, <2>2, <2>3, <2>4, <1>0 DEF isLogicalPoint
  <2> QED BY <2>1, <2>3, <2>4, <2>5 DEF PreviousInActiveFunction
<1> PICK x : x = getNextInstructionInActiveFunction(n)
  OBVIOUS
<1>2. x \in Instructions(call) /\ x > n /\ x <= m /\ x # 0
  <2>1. n \in Positions /\ getActiveFunction(n) = call /\ m \in Instructions(call)
    BY <1>1
  <2>2. m > n
    BY <1>0, <1>1
  <2> QED BY <2>1, <2>2, NextIs
<1>3. isMappedToStmt(x)
  BY <1>1, <1>2
<1>4. x \in Nat /\ m \in Nat
  BY <1>0, <1>1, <1>2 DEF Instructions, Recorded
<1>5. x = m \/ x < m
  BY <1>2, <1>4
<1> QED BY <1>1, <1>2, <1>3, <1>5

\* So it is shown at one point at most.
LEMMA PreludeIsShownOnce ==
  ASSUME Recorded, NEW call \in DOMAIN recording
  PROVE  Cardinality(PreludeShown(call)) <= 1
<1>1. ASSUME NEW n \in PreludeShown(call), NEW m \in PreludeShown(call) PROVE n = m
  <2>1. n \in Nat /\ m \in Nat
    BY DEF PreludeShown, Positions, Recorded
  <2>2. ~(n < m) /\ ~(m < n)
    BY PreludeIsLast
  <2> QED BY <2>1, <2>2
<1>2. CASE PreludeShown(call) = {}
  <2>1. Cardinality(PreludeShown(call)) = 0
    BY <1>2, FS_EmptySet
  <2> QED BY <2>1
<1>3. CASE PreludeShown(call) # {}
  <2>1. PICK n : PreludeShown(call) = {n}
    BY <1>1, <1>3
  <2>2. Cardinality(PreludeShown(call)) = 1
    BY <2>1, FS_Singleton
  <2> QED BY <2>2
<1> QED BY <1>2, <1>3

\* Where the movement to a call's entry ended.
EntryOk(from, depth, to, result) ==
  LET call == StackAt(from)[depth]
      first == Earliest(Instructions(call))
  IN  /\ recording[call].fn \in Mapped \ System
      /\ first # 0 /\ ~isMappedToStmt(first)
      /\ \E k \in Instructions(call) : isMappedToStmt(k)
      /\ \A k \in Instructions(call) : ~isMappedToStmt(k) => recording[k].kind = "inst"
      => /\ result = "PredicateSatisfied" /\ getActiveFunction(to) = call
         /\ \A k \in Instructions(call) : k <= to => ~isMappedToStmt(k)

\* What is in a sequence.
LEMMA MembersOf ==
  ASSUME NEW S, NEW s \in Seq(S)
  PROVE  Len(s) \in Nat /\ \A j \in 1..Len(s) : s[j] \in S
OBVIOUS

\* The block that a call is known by entered it.
LEMMA EnteredAt ==
  ASSUME Recorded, NEW n \in Positions, NEW i \in 1..Len(StackAt(n))
  PROVE  LET c == StackAt(n)[i] IN
           /\ c \in 1..n /\ c \in Nat /\ c \in Positions /\ c - 1 \in Positions
           /\ Len(StackAt(c)) = i /\ StackAt(c)[i] = c /\ getActiveFunction(c) = c
           /\ recording[c].kind = "enter" /\ Len(StackAt(c - 1)) = i - 1
           /\ \A k \in Instructions(c) : k \in Nat /\ c < k
<1> PICK c : c = StackAt(n)[i]
  OBVIOUS
<1>0. n \in Nat /\ IsStack(n)
  BY Stacks DEF Positions, Recorded
<1>1. c \in 1..n /\ Len(StackAt(c)) = i /\ \A m \in c..n : StackAt(m)[i] = c
  BY <1>0 DEF IsStack
<1>2. c \in Nat /\ c \in 1..Len(recording) /\ c \in Positions /\ c - 1 \in Positions /\ c \in c..n
  BY <1>0, <1>1 DEF Positions, Recorded
<1>3. StackAt(c)[i] = c
  BY <1>1, <1>2
<1>4. IsStack(c) /\ IsStack(c - 1)
  BY <1>2, Stacks
<1>5. StackAt(c) \in Seq(1..c) /\ StackAt(c - 1) \in Seq(1..c - 1)
  BY <1>4 DEF IsStack
<1>6. Len(StackAt(c - 1)) \in Nat /\ Len(StackAt(c)) \in Nat
      /\ \A j \in 1..Len(StackAt(c - 1)) : StackAt(c - 1)[j] < c
  <2>1. Len(StackAt(c)) \in Nat
    BY <1>5, MembersOf
  <2>2. Len(StackAt(c - 1)) \in Nat /\ \A j \in 1..Len(StackAt(c - 1)) : StackAt(c - 1)[j] \in 1..c - 1
    BY <1>5, MembersOf
  <2>3. \A x \in 1..c - 1 : x < c
    BY <1>2
  <2> QED BY <2>1, <2>2, <2>3
<1>7. StackAt(c) # StackAt(c - 1)
  BY <1>1, <1>2, <1>3, <1>6
<1>8. ASSUME recording[c].kind = "exit", StackAt(c) = SubSeq(StackAt(c - 1), 1, Len(StackAt(c - 1)) - 1),
             StackAt(c - 1) # <<>>
      PROVE  FALSE
  <2>1. Len(StackAt(c - 1)) # 0
    BY <1>5, <1>8
  <2>2. Len(StackAt(c)) = Len(StackAt(c - 1)) - 1
        /\ \A j \in 1..Len(StackAt(c)) : StackAt(c)[j] = StackAt(c - 1)[j] /\ j \in 1..Len(StackAt(c - 1))
    BY <1>5, <1>6, <1>8, <2>1
  <2>3. i \in 1..Len(StackAt(c))
    BY <1>1
  <2>4. c < c
    BY <2>2, <2>3, <1>3, <1>6
  <2> QED BY <2>4, <1>2
<1>9. recording[c].kind = "enter" /\ StackAt(c) = Append(StackAt(c - 1), c)
  BY <1>2, <1>7, <1>8, StackStep
<1>10. Len(StackAt(c - 1)) = i - 1
  <2>1. Len(StackAt(c)) = Len(StackAt(c - 1)) + 1
    BY <1>5, <1>9
  <2> QED BY <2>1, <1>1, <1>6
<1>11. getActiveFunction(c) = c
  <2>1. StackAt(c) # <<>>
    BY <1>9, <1>5
  <2> QED BY <2>1, <1>1, <1>3 DEF getActiveFunction, Top
<1>12. ASSUME NEW k \in Instructions(c) PROVE k \in Nat /\ c < k
  <2>1. k \in Nat /\ k \in Positions /\ recording[k].kind \in {"pre", "inst"} /\ Top(StackAt(k)) = c
    BY DEF Instructions, Positions, Recorded
  <2>2. k # c
    BY <2>1, <1>9
  <2>3. StackAt(k) \in Seq(1..k)
    BY <2>1, Stacks DEF IsStack
  <2>4. StackAt(k) # <<>>
    BY <2>1, <1>2 DEF Top
  <2>5. StackAt(k)[Len(StackAt(k))] = c /\ Len(StackAt(k)) \in 1..Len(StackAt(k))
    <3>1. Len(StackAt(k)) \in Nat /\ Len(StackAt(k)) # 0
      BY <2>3, <2>4
    <3> QED BY <3>1, <2>1, <2>4 DEF Top
  <2>6. c \in 1..k
    BY <2>3, <2>5, MembersOf
  <2> QED BY <2>1, <2>2, <2>6, <1>2
<1> QED BY <1>1, <1>2, <1>3, <1>9, <1>10, <1>11, <1>12

\* Nothing is called before the first statement, and so the call stays active.
LEMMA PreludeIsActive ==
  ASSUME Recorded, NEW c \in Positions, NEW z \in Instructions(c), c # 0, c < z,
         getActiveFunction(c) = c, StackAt(c) # <<>>,
         \A k \in Instructions(c) : k <= z => recording[k].kind = "inst"
  PROVE  \A m \in c..z : StackAt(m) = StackAt(c)
<1>0. c \in Nat /\ z \in Nat /\ z \in Positions /\ z \in 1..Len(recording) /\ Top(StackAt(z)) = c
  BY DEF Instructions, Positions, Recorded
<1>1. IsStack(z) /\ IsStack(c)
  BY <1>0, Stacks
<1> PICK i : i = Len(StackAt(z))
  OBVIOUS
<1>2. StackAt(z) \in Seq(1..z) /\ StackAt(z) # <<>>
  BY <1>0, <1>1 DEF IsStack, Top
<1>3. i \in Nat /\ i \in 1..Len(StackAt(z)) /\ StackAt(z)[i] = c
  BY <1>0, <1>2 DEF Top
<1>4. Len(StackAt(c)) = i /\ \A m \in c..z : Len(StackAt(m)) >= i
  BY <1>1, <1>3 DEF IsStack
<1> DEFINE T == {m \in Nat : c <= m /\ m <= z => StackAt(m) = StackAt(c)}
<1>5. 0 \in T
  BY <1>0
<1>6. ASSUME NEW m \in T PROVE m + 1 \in T
  <2>1. m \in Nat /\ (c <= m /\ m <= z => StackAt(m) = StackAt(c))
    OBVIOUS
  <2> HIDE DEF T
  <2>2. ASSUME c <= m, m + 1 <= z PROVE StackAt(m + 1) = StackAt(c)
    <3>1. /\ m + 1 \in 1..Len(recording) /\ (m + 1) - 1 = m /\ m + 1 \in c..z
          /\ 1..m \subseteq 1..Len(recording)
      BY <2>1, <2>2, <1>0
    <3>2. StackAt(m) = StackAt(c)
      BY <2>1, <2>2, <1>0
    <3>3. ASSUME NEW k \in 1..m, recording[k].kind = "pre", Top(StackAt(k)) = Top(StackAt(m)) PROVE FALSE
      <4>1. Top(StackAt(k)) = c
        BY <3>2, <3>3 DEF getActiveFunction
      <4>2. k \in Instructions(c)
        BY <3>1, <3>3, <4>1 DEF Instructions, Recorded
      <4>3. k <= z
        BY <2>1, <2>2, <1>0
      <4> QED BY <4>2, <4>3, <3>3
    <3>4. ASSUME StackAt(m + 1) = SubSeq(StackAt(m), 1, Len(StackAt(m)) - 1) PROVE FALSE
      <4>1. StackAt(c) \in Seq(1..c) /\ Len(StackAt(c)) # 0
        BY <1>1 DEF IsStack
      <4>2. Len(StackAt(m + 1)) = i - 1
        BY <4>1, <3>2, <3>4, <1>3, <1>4
      <4> QED BY <4>2, <3>1, <1>3, <1>4
    <3> QED BY <3>1, <3>2, <3>3, <3>4, StackStep
  <2> QED BY <2>1, <2>2, <1>0 DEF T
<1> HIDE DEF T
<1>7. T \subseteq Nat
  BY DEF T
<1>8. \A m \in Nat : m \in T
  BY <1>5, <1>6, <1>7, SetInduction
<1> QED BY <1>8, <1>0 DEF T

\* moveToFunctionEntry(): back to before the call's first instruction, and on.
LEMMA EntryEnds ==
  ASSUME Recorded, position \in Positions, NEW depth \in 1..Len(StackAt(position))
  PROVE  LET back == moveBackwardUntil(position, {n \in Positions : BeforeEntry(depth, n)})
             on == moveForwardUntil(back.position, LogicalPoints)
         IN  on.position \in Positions /\ EntryOk(position, depth, on.position, on.result)
<1> DEFINE before == {n \in Positions : BeforeEntry(depth, n)}
<1> PICK p : p = position
  OBVIOUS
<1> PICK c : c = StackAt(p)[depth]
  OBVIOUS
<1> PICK back : back = moveBackwardUntil(p, before)
  OBVIOUS
<1> PICK b : b = back.position
  OBVIOUS
<1> PICK on : on = moveForwardUntil(b, LogicalPoints)
  OBVIOUS
<1> PICK e : e = on.position
  OBVIOUS
<1>0. /\ Positions \subseteq Nat /\ p \in Positions /\ p \in Nat /\ LogicalPoints \subseteq Positions
      /\ depth \in Nat /\ Len(StackAt(p)) \in Nat
  <2>1. IsStack(p)
    BY Stacks
  <2> QED BY <2>1 DEF Positions, Recorded, LogicalPoints, IsStack
<1>1. /\ c \in 1..p /\ c \in Nat /\ c # 0 /\ c \in Positions /\ c - 1 \in Positions /\ c - 1 \in Nat
      /\ Len(StackAt(c)) = depth /\ getActiveFunction(c) = c /\ Len(StackAt(c - 1)) = depth - 1
      /\ \A k \in Instructions(c) : k \in Nat /\ c < k
  <2>1. /\ c \in 1..p /\ c \in Nat /\ c \in Positions /\ c - 1 \in Positions
        /\ Len(StackAt(c)) = depth /\ getActiveFunction(c) = c /\ Len(StackAt(c - 1)) = depth - 1
        /\ \A k \in Instructions(c) : k \in Nat /\ c < k
    BY <1>0, EnteredAt
  <2> QED BY <2>1, <1>0
<1>2. /\ b \in Positions /\ b \in Nat
      /\ \A g \in before : g < p => back.result = "PredicateSatisfied" /\ g <= b
      /\ back.result = "PredicateSatisfied" => b \in before /\ b < p
  <2>1. before \subseteq Positions
    OBVIOUS
  <2> HIDE DEF before
  <2> QED BY <2>1, <1>0, BackwardIs
<1>3. /\ e \in Positions /\ e \in Nat
      /\ \A g \in LogicalPoints : g > b => on.result = "PredicateSatisfied" /\ e <= g
      /\ on.result = "PredicateSatisfied" => e \in LogicalPoints /\ e > b
  BY <1>0, <1>2, ForwardIs
<1>4. b \in before /\ b < p /\ c - 1 <= b
  <2>1. c - 1 \in before
    BY <1>0, <1>1 DEF BeforeEntry
  <2>2. c - 1 < p
    BY <1>0, <1>1
  <2> QED BY <2>1, <2>2, <1>2
<1>5. ASSUME /\ recording[c].fn \in Mapped \ System
             /\ Earliest(Instructions(c)) # 0 /\ ~isMappedToStmt(Earliest(Instructions(c)))
             /\ \E k \in Instructions(c) : isMappedToStmt(k)
             /\ \A k \in Instructions(c) : ~isMappedToStmt(k) => recording[k].kind = "inst"
      PROVE  /\ on.result = "PredicateSatisfied" /\ getActiveFunction(e) = c
             /\ \A k \in Instructions(c) : k <= e => ~isMappedToStmt(k)
  \* The first statement, and the last instruction before it.
  <2>1. PICK s \in Instructions(c) : isMappedToStmt(s) /\ \A k \in Instructions(c) : isMappedToStmt(k) => s <= k
    <3> DEFINE S == {k \in Instructions(c) : isMappedToStmt(k)}
    <3>1. S \in SUBSET Nat /\ S # {}
      BY <1>1, <1>5
    <3>2. \E s \in S : \A k \in S : s <= k
      <4> HIDE DEF S
      <4> QED BY <3>1, SmallestNumber
    <3> QED BY <3>2
  <2>2. PICK z \in Instructions(c) : z < s /\ \A k \in Instructions(c) : k < s => k <= z
    <3> DEFINE S == {k \in Instructions(c) : k < s}
    <3> PICK f : f = Earliest(Instructions(c))
      OBVIOUS
    <3>1. f \in Instructions(c) /\ f <= s
      <4>1. Instructions(c) \subseteq Nat /\ Instructions(c) # {}
        BY <1>1, <2>1
      <4> QED BY <4>1, <2>1, EarliestIs
    <3>2. s \in Nat /\ f \in Nat /\ f # s
      BY <1>1, <1>5, <2>1, <3>1
    <3>3. S \subseteq 0..s /\ f \in S
      <4>1. f < s
        BY <3>1, <3>2
      <4>2. \A k \in Instructions(c) : k < s => k \in 0..s
        BY <1>1, <3>2
      <4> QED BY <4>1, <4>2, <3>1
    <3>4. \A k : k \in S <=> k \in Instructions(c) /\ k < s
      OBVIOUS
    <3> HIDE DEF S
    <3>5. Latest(S) \in S /\ \A l \in S : l <= Latest(S)
      BY <3>2, <3>3, LatestIs
    <3> QED BY <3>4, <3>5
  <2>3. s \in Nat /\ z \in Nat /\ c < z /\ z \in Positions /\ z # 0 /\ z \in 1..Len(recording)
    BY <1>1, <2>1, <2>2 DEF Instructions, Positions, Recorded
  <2>4. \A k \in Instructions(c) : k <= z => ~isMappedToStmt(k) /\ recording[k].kind = "inst"
    <3> SUFFICES ASSUME NEW k \in Instructions(c), k <= z PROVE ~isMappedToStmt(k)
      BY <1>5
    <3>1. k < s
      BY <1>1, <2>2, <2>3
    <3>2. k \in Nat
      BY <1>1
    <3> QED BY <3>1, <3>2, <2>1, <2>3
  <2>5. ASSUME NEW m \in c..z PROVE m \in Positions /\ StackAt(m) = StackAt(c) /\ getActiveFunction(m) = c
    <3>1. StackAt(c) # <<>>
      BY <1>0, <1>1 DEF getActiveFunction, Top
    <3>2. StackAt(m) = StackAt(c)
      BY <3>1, <1>1, <2>3, <2>4, PreludeIsActive
    <3>3. getActiveFunction(m) = c
      BY <3>2, <1>1 DEF getActiveFunction
    <3>4. m \in Positions
      <4>1. c \in Nat /\ z \in 1..Len(recording)
        BY <1>1, <2>3
      <4>2. Len(recording) \in Nat
        BY DEF Recorded
      <4> QED BY <4>1, <4>2 DEF Positions
    <3> QED BY <3>2, <3>3, <3>4
  \* The search back ends before it, and where it ends is a point to show.
  <2>6. b < z
    <3>1. CASE b = c - 1
      BY <3>1, <1>1, <2>3
    <3>2. CASE b # c - 1
      <4>1. c <= b /\ b <= p
        BY <3>2, <1>0, <1>1, <1>2, <1>4
      <4>2. Len(StackAt(b)) \in Nat /\ Len(StackAt(b)) >= depth /\ StackAt(b)[depth] = c
        <5>1. IsStack(p) /\ IsStack(b)
          BY <1>0, <1>2, Stacks
        <5>2. b \in c..p
          BY <4>1, <1>0, <1>1, <1>2
        <5> QED BY <5>1, <5>2 DEF IsStack
      <4>3. Len(StackAt(b)) = depth /\ getActiveInstruction(b) = 0
        BY <4>2, <1>0, <1>4 DEF BeforeEntry
      <4>4. getActiveFunction(b) = c
        <5>1. StackAt(b) # <<>>
          BY <4>3, <1>0
        <5> QED BY <5>1, <4>2, <4>3 DEF getActiveFunction, Top
      <4>5. ~(z <= b)
        BY <4>3, <4>4, <1>2, ActiveIs
      <4> QED BY <4>5, <2>3, <1>2
    <3> QED BY <3>1, <3>2
  <2>7. z \in LogicalPoints
    <3>1. getActiveFunction(z) = c
      <4>1. z \in c..z
        BY <1>1, <2>3
      <4> QED BY <4>1, <2>5
    <3>2. getActiveInstruction(z) = z
      BY <2>3, <2>4, <2>2, ActiveItself DEF Instructions
    <3> PICK x : x = getNextInstructionInActiveFunction(z)
      OBVIOUS
    <3>3. x = s
      <4>1. s > z
        BY <2>2, <2>3
      <4>2. x \in Instructions(c) /\ x > z /\ x <= s
        BY <4>1, <3>1, <2>1, <2>3, NextIs
      <4>3. x \in Nat /\ ~(x < s)
        <5>1. x \in Nat
          BY <4>2, <1>1
        <5>2. x < s => x <= z
          BY <4>2, <2>2
        <5> QED BY <5>1, <5>2, <4>2, <2>3
      <4> QED BY <4>2, <4>3, <2>3
    <3>4. \A k \in PreviousInActiveFunction(z) : ~isMappedToStmt(k)
      <4> SUFFICES ASSUME NEW k \in Instructions(c), k < z PROVE ~isMappedToStmt(k)
        BY <3>1 DEF PreviousInActiveFunction
      <4>1. k <= z
        BY <1>1, <2>3
      <4> QED BY <4>1, <2>4
    <3>5. ~isMappedToStmt(z)
      <4>1. z <= z
        BY <2>3
      <4> QED BY <4>1, <2>2, <2>4
    <3>6. isLogicalPoint(z)
      BY <3>1, <3>2, <3>3, <3>4, <3>5, <2>1, <2>3, <1>5 DEF isLogicalPoint
    <3> QED BY <3>6, <2>3 DEF LogicalPoints
  <2>8. on.result = "PredicateSatisfied" /\ e <= z /\ e > b
    <3>1. z > b
      BY <2>3, <2>6, <1>2
    <3> QED BY <3>1, <2>7, <1>3
  <2>9. e \in c..z
    BY <2>3, <2>8, <1>1, <1>2, <1>3, <1>4
  <2>10. \A k \in Instructions(c) : k <= e => k <= z
    BY <2>3, <2>8, <1>1, <1>3
  <2> QED BY <2>4, <2>5, <2>8, <2>9, <2>10
<1>6. e \in Positions /\ EntryOk(p, depth, e, on.result)
  BY <1>3, <1>5 DEF EntryOk
<1> QED BY <1>6

--------------------------------------------------------------------------------
(* What every movement keeps.                                                 *)

MovementInv ==
  /\ recording \in Recordings /\ position \in Positions
  /\ callStack = StackAt(position)
  /\ last.move = "entry" => EntryOk(last.from, last.arg, position, last.result)
  /\ last.move = "allocation" /\ last.result = "PredicateSatisfied" => AllocationOk(last.from, position)
  /\ last.move = "deallocation" /\ last.result = "PredicateSatisfied" => DeallocationOk(last.from, position)

\* What the recordings are assumed to be like holds for the one that was chosen.
LEMMA RecordedIs == MovementInv => Recorded
BY RecordingsAssumption DEF MovementInv, Recorded

\* Where a movement ends is told by the recording, which stays the same.
LEMMA SameRecording ==
  ASSUME recording' = recording
  PROVE  /\ Positions' = Positions /\ \A n : StackAt(n)' = StackAt(n)
         /\ \A f, d, t, r : EntryOk(f, d, t, r)' = EntryOk(f, d, t, r)
         /\ \A f, t : AllocationOk(f, t)' = AllocationOk(f, t)
         /\ \A f, t : DeallocationOk(f, t)' = DeallocationOk(f, t)
<1>1. Positions' = Positions
  BY DEF Positions
<1>2. \A n : StackAt(n)' = StackAt(n)
  BY DEF StackAt
<1>3. \A f, d, t, r : EntryOk(f, d, t, r)' = EntryOk(f, d, t, r)
  BY DEF EntryOk, StackAt, Instructions, Earliest, Top, isMappedToStmt, getActiveFunction
<1>4. \A f, t : AllocationOk(f, t)' = AllocationOk(f, t)
  BY DEF AllocationOk, ObjectAt, LastOf, Latest, Changes
<1>5. \A f, t : DeallocationOk(f, t)' = DeallocationOk(f, t)
  BY DEF DeallocationOk, Allocated, ObjectAt, LastOf, Latest, Changes
<1> QED BY <1>1, <1>2, <1>3, <1>4, <1>5

\* Every movement ends with the calls of the point that it ended at.
LEMMA FinishKeeps ==
  ASSUME MovementInv, NEW move, NEW arg, NEW moved, Finish(move, arg, moved),
         moved.position \in Positions,
         move = "entry" => EntryOk(position, arg, moved.position, moved.result),
         move = "allocation" /\ moved.result = "PredicateSatisfied" => AllocationOk(position, moved.position),
         move = "deallocation" /\ moved.result = "PredicateSatisfied" => DeallocationOk(position, moved.position)
  PROVE  MovementInv'
<1>1. /\ recording' = recording /\ position' = moved.position /\ callStack' = StackAt(moved.position)
      /\ last' = [move |-> move, arg |-> arg, from |-> position, result |-> moved.result]
  BY DEF Finish, clearCallStack
<1>2. last'.move = move /\ last'.arg = arg /\ last'.from = position /\ last'.result = moved.result
  BY <1>1
<1>3. /\ Positions' = Positions /\ \A n : StackAt(n)' = StackAt(n)
      /\ \A f, d, t, r : EntryOk(f, d, t, r)' = EntryOk(f, d, t, r)
      /\ \A f, t : AllocationOk(f, t)' = AllocationOk(f, t)
      /\ \A f, t : DeallocationOk(f, t)' = DeallocationOk(f, t)
  BY <1>1, SameRecording
<1> QED BY <1>1, <1>2, <1>3 DEF MovementInv

\* A movement that is not to an entry, an allocation or a deallocation ends at a
\* position of the recording.
LEMMA PlainMovementKeeps ==
  ASSUME MovementInv, NEW move \in {"forward", "backward", "end", "start", "toplevel", "evaluated", "finished",
                                    "time", "allocated", "changes"},
         NEW arg, NEW goals, goals \subseteq Positions,
         \/ Finish(move, arg, moveForwardUntil(position, goals))
         \/ Finish(move, arg, moveBackwardUntil(position, goals))
         \/ Finish(move, arg, moveProcessForwardUntil(position, goals))
         \/ Finish(move, arg, moveProcessBackwardUntil(position, goals))
  PROVE  MovementInv'
<1>1. Recorded /\ position \in Positions
  BY RecordedIs DEF MovementInv
<1>2. move # "entry" /\ move # "allocation" /\ move # "deallocation"
  OBVIOUS
<1>3. PICK moved : Finish(move, arg, moved) /\ moved.position \in Positions
  BY <1>1, ForwardIs, BackwardIs, ProcessForwardIs, ProcessBackwardIs
<1> QED BY <1>2, <1>3, FinishKeeps

\* A state that was just opened is at the start of its recording.
LEMMA MovementStarts == MovementInit => MovementInv
<1> SUFFICES ASSUME MovementInit PROVE MovementInv
  OBVIOUS
<1>1. Recorded
  BY RecordingsAssumption DEF MovementInit, Recorded
<1>2. 0 \in Positions /\ StackAt(0) = <<>>
  BY <1>1 DEF Positions, Recorded, StackAt
<1> QED BY <1>2 DEF MovementInit, MovementInv

\* Every movement ends where it should, with the calls of that point.
LEMMA MovementKept == MovementInv /\ [MovementNext]_movementVars => MovementInv'
<1> SUFFICES ASSUME MovementInv, [MovementNext]_movementVars PROVE MovementInv'
  OBVIOUS
<1>0. /\ Recorded /\ position \in Positions /\ callStack = StackAt(position)
      /\ {"same", "none"} \cap Heap = {}
  BY RecordedIs, RecordingsAssumption DEF MovementInv
<1>1. /\ LogicalPoints \subseteq Positions /\ {Len(recording)} \subseteq Positions /\ {0} \subseteq Positions
      /\ CompletesTopLevel \subseteq Positions /\ AllocatedAt \subseteq Positions
      /\ OtherContents \subseteq Positions /\ Positions \subseteq Positions
      /\ \A s : Completes(s) \subseteq Positions
      /\ \A d : {n \in LogicalPoints : Len(StackAt(n)) < d} \subseteq Positions
  <2>1. {Len(recording)} \subseteq Positions /\ {0} \subseteq Positions
    BY <1>0 DEF Positions, Recorded
  <2> QED BY <2>1 DEF LogicalPoints, CompletesTopLevel, AllocatedAt, OtherContents, Completes
<1>2. CASE moveForward
  BY <1>1, <1>2, PlainMovementKeeps DEF moveForward
<1>3. CASE moveBackward
  BY <1>1, <1>3, PlainMovementKeeps DEF moveBackward
<1>4. CASE moveForwardToEnd
  BY <1>1, <1>4, PlainMovementKeeps DEF moveForwardToEnd
<1>5. CASE moveBackwardToEnd
  BY <1>1, <1>5, PlainMovementKeeps DEF moveBackwardToEnd
<1>6. CASE moveForwardToCompleteTopLevelStmt
  BY <1>1, <1>6, PlainMovementKeeps DEF moveForwardToCompleteTopLevelStmt
<1>7. CASE moveBackwardToCompleteTopLevelStmt
  BY <1>1, <1>7, PlainMovementKeeps DEF moveBackwardToCompleteTopLevelStmt
<1>8. CASE processForward
  BY <1>1, <1>8, PlainMovementKeeps DEF processForward
<1>9. CASE processBackward
  BY <1>1, <1>9, PlainMovementKeeps DEF processBackward
<1>10. CASE moveToAllocation
  <2>1. /\ ToAllocation(position).position \in Positions
        /\ ToAllocation(position).result = "PredicateSatisfied" =>
             AllocationOk(position, ToAllocation(position).position)
    BY <1>0, AllocationEnds
  <2>2. Finish("allocation", 0, ToAllocation(position))
    BY <1>10 DEF moveToAllocation
  <2> QED BY <2>1, <2>2, FinishKeeps
<1>11. CASE moveToDeallocation
  <2>1. Allocated(position) /\ Finish("deallocation", 0, ToDeallocation(position))
    BY <1>11 DEF moveToDeallocation
  <2>2. /\ ToDeallocation(position).position \in Positions
        /\ ToDeallocation(position).result = "PredicateSatisfied" =>
             DeallocationOk(position, ToDeallocation(position).position)
    BY <1>0, <2>1, DeallocationEnds
  <2> QED BY <2>1, <2>2, FinishKeeps
<1>12. CASE moveBackwardUntilAllocated
  BY <1>1, <1>12, PlainMovementKeeps DEF moveBackwardUntilAllocated
<1>13. CASE moveForwardUntilMemoryChanges
  BY <1>1, <1>13, PlainMovementKeeps DEF moveForwardUntilMemoryChanges
<1>14. CASE moveBackwardUntilMemoryChanges
  BY <1>1, <1>14, PlainMovementKeeps DEF moveBackwardUntilMemoryChanges
<1>15. ASSUME NEW depth \in DOMAIN callStack, moveToFunctionEntry(depth) PROVE MovementInv'
  <2> PICK back : back = moveBackwardUntil(position, {n \in Positions : BeforeEntry(depth, n)})
    OBVIOUS
  <2> PICK on : on = moveForwardUntil(back.position, LogicalPoints)
    OBVIOUS
  <2>1. depth \in 1..Len(StackAt(position))
    <3>1. StackAt(position) \in Seq(1..position)
      BY <1>0, Stacks DEF IsStack
    <3> QED BY <3>1, <1>0, <1>15
  <2>2. on.position \in Positions /\ EntryOk(position, depth, on.position, on.result)
    BY <2>1, <1>0, EntryEnds
  <2>3. Finish("entry", depth, on)
    BY <1>15 DEF moveToFunctionEntry
  <2> QED BY <2>2, <2>3, FinishKeeps
<1>16. ASSUME NEW depth \in DOMAIN callStack, moveToFunctionFinished(depth) PROVE MovementInv'
  BY <1>1, <1>16, PlainMovementKeeps DEF moveToFunctionFinished
<1>17. ASSUME NEW s \in Statements, moveForwardUntilEvaluated(s) \/ moveBackwardUntilEvaluated(s) PROVE MovementInv'
  BY <1>1, <1>17, PlainMovementKeeps DEF moveForwardUntilEvaluated, moveBackwardUntilEvaluated
<1>18. CASE UNCHANGED movementVars
  <2>1. /\ recording' = recording /\ position' = position /\ callStack' = callStack /\ last' = last
    BY <1>18 DEF movementVars
  <2>2. /\ Positions' = Positions /\ \A n : StackAt(n)' = StackAt(n)
        /\ \A f, d, t, r : EntryOk(f, d, t, r)' = EntryOk(f, d, t, r)
        /\ \A f, t : AllocationOk(f, t)' = AllocationOk(f, t)
        /\ \A f, t : DeallocationOk(f, t)' = DeallocationOk(f, t)
    BY <2>1, SameRecording
  <2> QED BY <2>1, <2>2 DEF MovementInv
<1> QED BY <1>2, <1>3, <1>4, <1>5, <1>6, <1>7, <1>8, <1>9, <1>10, <1>11, <1>12, <1>13, <1>14, <1>15, <1>16,
           <1>17, <1>18 DEF MovementNext

\* What the movements keep is what a user relies on.
LEMMA MovementReaches == MovementInv => MovementsReachTheirPoint
<1> SUFFICES ASSUME MovementInv PROVE MovementsReachTheirPoint
  OBVIOUS
<1>1. Recorded
  BY RecordedIs
<1>2. CallStackIsCurrent
  BY DEF MovementInv, CallStackIsCurrent
<1>3. PreludeOnce
  <2>1. \A call \in DOMAIN recording : Cardinality(PreludeShown(call)) <= 1
    BY <1>1, PreludeIsShownOnce
  <2> QED BY <2>1 DEF PreludeOnce, PreludeShown
<1>4. EntryIsReached
  BY DEF MovementInv, EntryIsReached, EntryOk, Satisfied
<1>5. AllocationIsFound
  BY DEF MovementInv, AllocationIsFound, HeapAllocation, AllocationOf, AllocationOk, Satisfied
<1>6. DeallocationIsFound
  BY DEF MovementInv, DeallocationIsFound, DeallocationOk, Satisfied
<1> QED BY <1>2, <1>3, <1>4, <1>5, <1>6 DEF MovementsReachTheirPoint

(***************************************************************************)
(* For every recording in which calls are entered and left as the compiler *)
(* makes them, and an object is allocated only where none is: whatever     *)
(* movements were made, in any order, the movement to a call's entry ends  *)
(* in that call before its first statement, the one to the allocation of   *)
(* an object from malloc() at the block that allocated it, the one to its  *)
(* deallocation at the last block at which it is there, the part of a call *)
(* before its first statement is shown once, and the call stack that is    *)
(* shown is that of the point reached.                                     *)
(***************************************************************************)
THEOREM MovementsEndWhereTheyShould == MovementSpec => []MovementsReachTheirPoint
<1>1. MovementSpec => []MovementInv
  BY MovementStarts, MovementKept, PTL DEF MovementSpec
<1> QED BY <1>1, MovementReaches, PTL
================================================================================
