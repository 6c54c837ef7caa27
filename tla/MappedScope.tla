------------------------------ MODULE MappedScope ------------------------------
(***************************************************************************)
(* The parameters and local variables that are shown for a call            *)
(* (MappedFunctionState.cpp): those that are visible from the statement    *)
(* whose instruction is active, if their memory is allocated.              *)
(*                                                                         *)
(* A function is a tree of statements and declarations, each known by a    *)
(* number that grows with its place in the text.                           *)
(***************************************************************************)
EXTENDS Integers, Sequences, FiniteSets

CONSTANT Bodies   \* [params, byval, nodes: a sequence of [class, parent, init, static]]

\* Nodes are numbered as they begin in the text: what is between a node and its
\* parent is inside the parent.
InTextOrder(nodes) ==
    \A k \in DOMAIN nodes :
        /\ nodes[k].parent \in 0 .. k - 1
        /\ \A i \in nodes[k].parent + 1 .. k - 1 : nodes[i].parent >= nodes[k].parent

\* A variable is in a declaration, which is in a block or is the first part of a
\* loop: C allows them in no other place.
DeclarationsInPlace(nodes) ==
    \A k \in DOMAIN nodes : LET p == nodes[k].parent IN
        /\ nodes[k].class = "Var" => p # 0 /\ nodes[p].class = "DeclStmt"
        /\ nodes[k].class = "DeclStmt" =>
              p # 0 /\ (nodes[p].class = "Compound" \/ (nodes[p].class = "For" /\ nodes[p].init = k))
        /\ nodes[k].class = "For" /\ nodes[k].init # 0 =>
              /\ nodes[k].init \in DOMAIN nodes /\ nodes[nodes[k].init].parent = k
              /\ \A c \in DOMAIN nodes : nodes[c].parent = k => nodes[k].init <= c

ASSUME BodiesAssumption ==
    \A f \in Bodies :
        /\ Len(f.nodes) \in Nat /\ DOMAIN f.nodes = 1 .. Len(f.nodes)
        /\ InTextOrder(f.nodes) /\ DeclarationsInPlace(f.nodes)

VARIABLES
    function,   \* one of Bodies
    active,     \* the active statement, or 0
    allocated,  \* variables and parameters whose alloca was executed
    shown       \* what the FunctionState shows

scopeVars == <<function, active, allocated, shown>>

Nodes == DOMAIN function.nodes
N(k) == function.nodes[k]
ChildrenOf(k) == {c \in Nodes : N(c).parent = k}
Declarators(k) == {c \in ChildrenOf(k) : N(c).class = "Var"}

--------------------------------------------------------------------------------
(* addVarDeclsVisible(), for each class of statement that declares: what is   *)
(* visible in it before the child that the search came from (0: from none).   *)

\* A declaration shows its own variable: it may be used in the initializer.
visibleInDeclStmt(k, prior) == {c \in Declarators(k) : prior = 0 \/ c <= prior}

visibleInCompoundAfter(k, prior) ==
    UNION {Declarators(c) : c \in {d \in ChildrenOf(k) : N(d).class = "DeclStmt"}}

\* All variables of a declaration, even those after the one being initialized.
visibleInCompound(k, prior) ==
    UNION {Declarators(c) : c \in {d \in ChildrenOf(k) : N(d).class = "DeclStmt" /\ (prior = 0 \/ d <= prior)}}

visibleInFor(k, prior) == IF prior # 0 /\ prior = N(k).init THEN {} ELSE Declarators(N(k).init)

addVarDeclsVisible(k, prior) ==
    CASE N(k).class = "DeclStmt" -> visibleInDeclStmt(k, prior)
      [] N(k).class = "Compound" -> visibleInCompound(k, prior)
      [] N(k).class = "For" -> visibleInFor(k, prior)
      [] OTHER -> {}

\* getVarDeclsVisible(): from a node to the function's body.
getVarDeclsVisible(k, prior) ==
    LET above[j \in Nodes] ==
            IF N(j).parent = 0 THEN {} ELSE addVarDeclsVisible(N(j).parent, j) \cup above[N(j).parent]
    IN  addVarDeclsVisible(k, prior) \cup above[k]

\* FunctionState::FunctionState(): static variables are shown as globals are.
\* Parameters that are passed by value in memory have no alloca.
FunctionStateShows(stmt, allocas) ==
    LET visible == IF stmt = 0 THEN {} ELSE getVarDeclsVisible(stmt, 0)
    IN  function.byval \cup (function.params \cap allocas) \cup {v \in visible \cap allocas : ~N(v).static}

--------------------------------------------------------------------------------
Allocas == function.params \cup {k \in Nodes : N(k).class = "Var" /\ ~N(k).static}

ScopeInit ==
    /\ function \in Bodies
    /\ active = 0 /\ allocated = {} /\ shown = function.byval

\* The function's allocas run first, one after the other.
ExecuteAlloca ==
    /\ active = 0
    /\ \E v \in Allocas \ allocated : allocated' = allocated \cup {v}
    /\ shown' = FunctionStateShows(0, allocated')
    /\ UNCHANGED <<function, active>>

\* Then its statements, in any order that loops and branches make; instructions
\* that belong to no statement come in between.  Each has a new FunctionState.
ExecuteStmt ==
    /\ allocated = Allocas
    /\ active' \in ({k \in Nodes : N(k).class \in {"Expr", "DeclStmt"}} \cup {0}) \ {active}
    /\ shown' = FunctionStateShows(active', allocated)
    /\ UNCHANGED <<function, allocated>>

ScopeNext == ExecuteAlloca \/ ExecuteStmt

ScopeSpec == ScopeInit /\ [][ScopeNext]_scopeVars

--------------------------------------------------------------------------------
(* The scope of C: from the end of its declarator to the end of the block.    *)

\* A node and what is around it.
Around(k) ==
    LET around[j \in Nodes] == {j} \cup IF N(j).parent = 0 THEN {} ELSE around[N(j).parent]
    IN  around[k]

\* The statement that a declaration's scope ends with.
ScopeOf(v) == N(N(v).parent).parent

InScope(k) == {v \in Nodes : N(v).class = "Var" /\ ScopeOf(v) \in Around(k) /\ v <= k}

\* The variables that are shown are those in scope, and the parameters.  While a
\* declaration of several variables is evaluated in a block, all of them are.
VisibleIsScope ==
    active # 0 =>
        LET scope == {v \in InScope(active) : ~N(v).static} \cup function.params \cup function.byval
            early == {v \in Nodes : N(v).class = "Var" /\ N(v).parent \in Around(active) /\ ~N(v).static}
        IN  scope \subseteq shown /\ shown \subseteq scope \cup early
================================================================================
