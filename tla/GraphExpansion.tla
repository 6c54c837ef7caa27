----------------------------- MODULE GraphExpansion ----------------------------
(***************************************************************************)
(* All pointers that can be reached from the variables of a state, and     *)
(* which of the pointers into an area is to decide how the area is shown   *)
(* (GraphExpansion.cpp).                                                   *)
(***************************************************************************)
EXTENDS MappedValue

\* What is known while the state is searched: the store, the pointers that were
\* met, what they point to directly, and whether an assertion failed.
NoExpansion == [st |-> NoValues, pointers |-> {}, direct |-> {}, failed |-> FALSE]

\* A pointer to things without pointers is followed once, to the first of them.
FollowLimit(p) ==
    LET limit == getDereferenceIndexLimit(p)
    IN  IF limit > 1 /\ ~containsPointerType(Elem(p.type)) THEN 1 ELSE limit

RECURSIVE expand(_, _), expandChildren(_, _, _), expandPointees(_, _, _), expandGot(_, _, _)
expand(e, v) ==
    IF e.failed \/ v = NoValue THEN [e EXCEPT !.failed = TRUE]
    ELSE CASE Kind(v) \in {"Scalar", "Complex"} -> e
           [] Kind(v) \in {"Array", "Record"} ->
                IF Kind(v) = "Array" /\ ~containsPointerType(v.type) THEN e ELSE expandChildren(e, v, 0)
           [] Kind(v) = "Pointer" ->
                IF v \in e.pointers THEN e
                ELSE expandPointees([e EXCEPT !.pointers = @ \cup {v}], v, 0)
expandChildren(e, v, i) ==
    IF e.failed \/ i >= getChildCount(e.st, v) THEN e
    ELSE expandChildren(expandGot(e, getChildAt(e.st, v, i), FALSE), v, i + 1)
expandPointees(e, p, i) ==
    IF e.failed \/ i >= FollowLimit(p) THEN e
    ELSE expandPointees(expandGot(e, getDereferenced(e.st, p, i), i = 0), p, i + 1)
expandGot(e, g, direct) ==
    expand([e EXCEPT !.st = g.st, !.direct = IF direct THEN @ \cup {g.v} ELSE @], g.v)

\* Something without a value is passed over.
expandIfAny(e, g) == IF g.v = NoValue THEN e ELSE expandGot(e, g, FALSE)

\* A local variable whose type has no values is passed over, a global is not.
expandVariable(e, x, fn) ==
    IF fn THEN expandIfAny(e, getValue(e.st, x.at, x.type, fn))
    ELSE expandGot(e, getValue(e.st, x.at, x.type, fn), FALSE)

RECURSIVE expandVariables(_, _, _)
expandVariables(e, xs, fn) ==
    IF xs = <<>> THEN e ELSE expandVariables(expandVariable(e, Head(xs), fn), Tail(xs), fn)

expandStmt(e, s) == expandIfAny(e, getStmtValue(e.st, s))

expandFunction(e, f) == expandStmt(expandVariables(e, f.params \o f.locals, TRUE), f.active)

RECURSIVE expandFunctions(_, _)
expandFunctions(e, fs) == IF fs = <<>> THEN e ELSE expandFunctions(expandFunction(e, Head(fs)), Tail(fs))

\* Expansion::from(): every thread's calls, then the globals.
ExpansionOf(st) ==
    expandVariables(expandFunctions([NoExpansion EXCEPT !.st = st], program.functions),
                    program.globals, FALSE)

--------------------------------------------------------------------------------

isReferencedDirectly(e, v) == v \in e.direct

getReferencesOfArea(e, start, end) == {p \in e.pointers : start <= getRawValue(p) /\ getRawValue(p) < end}

isAreaReferenced(e, start, end) == getReferencesOfArea(e, start, end) # {}

isChildOfAnyDereference(st, child, p) ==
    LET found == {isContainedChild(st, child, Dereferenced(st, p, i)) :
                      i \in 0 .. (getDereferenceIndexLimit(p) - 1)}
    IN  "yes" \in found

\* Pointers to values that another pointer leads to as well are left out, and so
\* are pointers into values that another pointer leads to.
LeftOut(st, p, refs) ==
    \E o \in refs \ {p} :
        IF doReferenceSameValue(st, p, o)
        THEN getRawValue(p) > getRawValue(o)
        ELSE isChildOfAnyDereference(st, Dereferenced(st, p, 0), o)

\* A member without a value may be dereferenced on the way.
ReductionCrashes(st, refs) ==
    \E p, o \in {r \in refs : ~isIncompleteType(Elem(r.type))} :
        /\ p # o /\ ~doReferenceSameValue(st, p, o)
        /\ \E i \in 0 .. (getDereferenceIndexLimit(o) - 1) :
              isContainedChild(st, Dereferenced(st, p, 0), Dereferenced(st, o, i)) = "crash"

\* reduceReferences(), on more than one reference.
IfAny(some, all) == IF some = {} THEN all ELSE some

reduceReferences(st, refs) ==
    LET typed == {p \in refs : ~isVoidType(Elem(p.type))}
        complete == {p \in typed : ~isIncompleteType(Elem(p.type))}
    IN  IF typed = {} THEN refs
        ELSE IF Cardinality(typed) = 1 \/ complete = {} THEN typed
        ELSE IF Cardinality(complete) = 1 THEN complete
        ELSE IfAny({p \in complete : ~LeftOut(st, p, complete)}, complete)

\* Which one comes first: the pointers are sorted by address, those to one
\* address in no particular order; dropping pointers to void or to an incomplete
\* type first mixes the others.
Mixes(refs) ==
    LET typed == {p \in refs : ~isVoidType(Elem(p.type))}
    IN  \/ typed \notin {{}, refs}
        \/ {p \in typed : isIncompleteType(Elem(p.type))} \notin {{}, typed}

Lowest(refs) == {p \in refs : \A o \in refs : getRawValue(p) <= getRawValue(o)}

FirstReferences(st, refs) ==
    IF Mixes(refs) THEN reduceReferences(st, refs) ELSE Lowest(reduceReferences(st, refs))

--------------------------------------------------------------------------------
(* What should be found: the values that are in the variables, and in what    *)
(* the pointers among them point to.                                          *)

Within(st, v) ==
    CASE Kind(v) \in {"Array", "Record"} -> {ChildAt(st, v, i) : i \in 0 .. (getChildCount(st, v) - 1)}
      [] Kind(v) = "Pointer" -> {Dereferenced(st, v, i) : i \in 0 .. (getDereferenceIndexLimit(v) - 1)}
      [] OTHER -> {}

PointedTo(st, v) == Within(IF isInMemory(v) THEN getValue(st, v.at, v.type, TRUE).st ELSE st, v)

RECURSIVE Reachable(_, _), ReachableIfNew(_, _, _)
ReachableIfNew(st, more, vs) == IF more = vs THEN vs ELSE Reachable(st, more)
Reachable(st, vs) == ReachableIfNew(st, vs \cup UNION {PointedTo(st, v) : v \in vs \ {NoValue}}, vs)

Roots(st) ==
    UNION {{getValue(st, x.at, x.type, TRUE).v : x \in SeqRange(f.params) \cup SeqRange(f.locals)}
             \cup {getStmtValue(st, f.active).v} : f \in SeqRange(program.functions)}
      \cup {getValue(st, x.at, x.type, FALSE).v : x \in SeqRange(program.globals)}
================================================================================
