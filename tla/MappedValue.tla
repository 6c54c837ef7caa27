------------------------------ MODULE MappedValue ------------------------------
(***************************************************************************)
(* Values of the recreated program, as its source sees them: what is in    *)
(* memory at an address, read as a type (MappedValue.cpp).  A value is     *)
(* known by its address and type; the store creates each of them once, and *)
(* is replaced whenever the state moves (MappedProcessState.cpp).          *)
(*                                                                         *)
(* Types belong to the traced program's translation units.  The comparison *)
(* of two types that may come from different units (TypeMatch.cpp) decides *)
(* which values are the same.                                              *)
(***************************************************************************)
EXTENDS Integers, Sequences, FiniteSets

CONSTANTS
    Types,      \* every type that is written in the program, by its name
    Programs    \* what is allocated, and which variables there are

VARIABLES
    program,   \* one of Programs
    mem,       \* [address -> [init, byte]]
    store      \* [address -> sequence of [type, count, fn, raw]]: CurrentValueStore

valueVars == <<program, mem, store>>

--------------------------------------------------------------------------------
(* Types.                                                                     *)

T(t) == Types[t]

\* A typedef stands for its type.
Canon(t) == IF T(t).class = "Typedef" THEN T(t).elem ELSE t

Size(t) == T(Canon(t)).size
Class(t) == T(Canon(t)).class
Elem(t) == Canon(T(Canon(t)).elem)
Fields(t) == T(Canon(t)).fields

ArrayClasses == {"ConstantArray", "IncompleteArray", "VariableArray"}

isIncompleteType(t) == T(Canon(t)).incomplete
isVoidType(t) == Class(t) = "Builtin" /\ T(Canon(t)).kind = "void"
isAnyPointerType(t) == Class(t) = "Pointer"
isCharType(t) == Class(t) = "Builtin" /\ T(Canon(t)).kind \in {"char", "uchar", "schar"}

\* The size of the thing pointed to; zero when its type is not known.
PointeeSize(t) == IF isIncompleteType(Elem(t)) THEN 0 ELSE Size(Elem(t))

\* A record whose last member is an array without a size.
hasFlexibleArrayMember(t) ==
    Class(t) = "Record" /\ Fields(t) # <<>> /\ Class(Fields(t)[Len(Fields(t))].type) = "IncompleteArray"

RECURSIVE containsPointerType(_)
containsPointerType(t) ==
    \/ isAnyPointerType(t)
    \/ Class(t) \in ArrayClasses /\ containsPointerType(Elem(t))
    \/ Class(t) = "Record" /\ \E k \in DOMAIN Fields(t) : containsPointerType(Fields(t)[k].type)

--------------------------------------------------------------------------------
(* matchImpl(): two types are compared structurally, and two types that are   *)
(* already being compared are taken to match when they were met at the same   *)
(* point.  The history remembers types as they are written.                   *)

Position(h, t) == IF \E k \in DOMAIN h : h[k] = t THEN CHOOSE k \in DOMAIN h : h[k] = t ELSE Len(h) + 1

Says(ok, m) == [m EXCEPT !.ok = ok]

SameLayout(a, b) == Size(a) = Size(b)

MatchesHeadBySize(a, b) == SameLayout(a, b) /\ Len(Fields(a)) = Len(Fields(b))

\* A comparison that does not look at the size of arrays, nor ever accepts two
\* functions with prototypes.
MatchesHead(a, b) ==
    CASE Class(a) = "Builtin" -> SameLayout(a, b) /\ T(a).kind = T(b).kind
      [] Class(a) \in {"Pointer", "Complex"} -> SameLayout(a, b)
      [] Class(a) \in ArrayClasses -> TRUE
      [] Class(a) = "Vector" -> T(a).count = T(b).count
      [] Class(a) = "FunctionProto" -> FALSE
      [] Class(a) = "Record" ->
           ~T(a).incomplete /\ ~T(b).incomplete /\ SameLayout(a, b) /\ Len(Fields(a)) = Len(Fields(b))
      [] Class(a) = "Enum" ->
           ~T(a).incomplete /\ ~T(b).incomplete /\ SameLayout(a, b) /\ T(a).values = T(b).values

\* The types that are compared in turn: members as they are written.
Parts(t) ==
    CASE Class(t) = "Record" -> [k \in DOMAIN Fields(t) |-> Fields(t)[k].type]
      [] Class(t) = "Enum" -> <<T(t).elem>>
      [] Class(t) \in {"Pointer", "Complex", "Vector"} \cup ArrayClasses -> <<Elem(t)>>
      [] OTHER -> <<>>

RECURSIVE matchImpl(_, _, _), matchParts(_, _, _, _)
matchImpl(a, b, m) ==
    LET pa == Position(m.a, a)
        pb == Position(m.b, b)
    IN  IF Class(a) # Class(b) \/ pa # pb THEN Says(FALSE, m)
        ELSE IF pa <= Len(m.a) THEN m
        ELSE LET pushed == [m EXCEPT !.a = Append(@, a), !.b = Append(@, b)]
             IN  IF MatchesHead(Canon(a), Canon(b))
                 THEN matchParts(Parts(Canon(a)), Parts(Canon(b)), 1, pushed)
                 ELSE Says(FALSE, pushed)
matchParts(as, bs, k, m) ==
    IF k > Len(as) \/ ~m.ok THEN m
    ELSE matchParts(as, bs, k + 1, matchImpl(as[k], bs[k], m))

\* Types of one unit are compared by identity.
match(a, b) ==
    IF T(a).unit = T(b).unit THEN Canon(a) = Canon(b)
    ELSE matchImpl(Canon(a), Canon(b), [ok |-> TRUE, a |-> <<>>, b |-> <<>>]).ok

--------------------------------------------------------------------------------
(* What the comparison should say: the types that no finite inspection tells  *)
(* apart.                                                                     *)

SameHead(a, b) ==
    /\ Class(a) = Class(b) /\ Size(a) = Size(b) /\ T(a).incomplete = T(b).incomplete
    /\ T(a).kind = T(b).kind /\ T(a).count = T(b).count /\ T(a).values = T(b).values
    /\ Len(Parts(a)) = Len(Parts(b))
    /\ Class(a) = "Record" => \A k \in DOMAIN Fields(a) : Fields(a)[k].at = Fields(b)[k].at

\* The pairs of types that a comparison of two types goes through.
RECURSIVE Paired(_)
Paired(r) ==
    LET more == r \cup UNION {{<<Canon(Parts(p[1])[k]), Canon(Parts(p[2])[k])>> : k \in DOMAIN Parts(p[1])} :
                                 p \in {q \in r : SameHead(q[1], q[2])}}
    IN  IF more = r THEN r ELSE Paired(more)

\* No inspection tells the types apart, and each type of one unit is one of the
\* other.
SameStructure(a, b) ==
    LET r == Paired({<<Canon(a), Canon(b)>>})
    IN  /\ \A p \in r : SameHead(p[1], p[2])
        /\ \A p, q \in r : p[1] = q[1] <=> p[2] = q[2]

\* The types that a type is made of.
RECURSIVE MadeOf(_)
MadeOf(s) ==
    LET more == s \cup UNION {{Parts(Canon(t))[k] : k \in DOMAIN Parts(Canon(t))} : t \in s}
    IN  IF more = s THEN s ELSE MadeOf(more)

\* Structures that are shared by units match, and no others do, but for three
\* gaps: arrays of different sizes match, functions with prototypes and
\* incomplete records never do, and neither do structures of which one is
\* written with a typedef.
MatchesStructure(a, b) ==
    LET same == SameStructure(a, b)
        parts == MadeOf({Canon(a), Canon(b)})
    IN  /\ match(a, b) /\ ~same => \E t \in parts : Class(t) \in ArrayClasses
        /\ same /\ ~match(a, b) =>
              \E t \in parts : Class(t) \in {"FunctionProto", "Typedef"} \/ Canon(t) # t
                               \/ (Class(t) = "Record" /\ isIncompleteType(t))

--------------------------------------------------------------------------------
(* Values.                                                                    *)

\* A value: where it is (0 if it is not in memory), its type and, for a pointer,
\* the address that was read when the value was created.
ValueOf(a, t, raw) == [at |-> a, type |-> t, raw |-> raw]
NoValue == ValueOf(-1, "none", 0)

Addresses == DOMAIN mem

isInMemory(v) == v.at > 0

Init(a) == a \in Addresses /\ mem[a].init
Byte(a) == IF a \in Addresses THEN mem[a].byte ELSE 0
Bytes(v) == v.at .. (v.at + Size(v.type) - 1)

--------------------------------------------------------------------------------
(* The process: areas of memory, as getContainingMemoryArea() finds them.     *)

Area(start, length) == [start |-> start, end |-> start + length]
Holds(area, a) == area.start <= a /\ a < area.end

VarArea(x) == Area(x.at, IF Class(x.type) = "VariableArray" THEN program.vla[x.type] * Size(Elem(x.type))
                         ELSE Size(x.type))

SeqRange(s) == {s[k] : k \in DOMAIN s}

Variables(f) == SeqRange(f.params) \cup SeqRange(f.locals) \cup f.hidden
FrameAreas == UNION {{VarArea(x) : x \in Variables(program.functions[k])} : k \in DOMAIN program.functions}
GlobalAreas == {VarArea(x) : x \in SeqRange(program.globals)}
MallocAreas == {Area(m.start, m.length) : m \in SeqRange(program.mallocs)}
StaticAreas == {Area(m.start, m.length) : m \in SeqRange(program.statics)}

Areas == FrameAreas \cup GlobalAreas \cup MallocAreas \cup StaticAreas

getContainingMemoryArea(a) == {x \in Areas : Holds(x, a)}
RestOf(a) == (CHOOSE x \in getContainingMemoryArea(a) : TRUE).end - a

isStream(a) == \E s \in SeqRange(program.streams) : s.at = a
isDir(a) == a \in SeqRange(program.dirs)

--------------------------------------------------------------------------------
(* ValueByMemoryForArray::create(): sizes that depend on the run are known to *)
(* the function that owns the array only.                                     *)

ElementSize(t, fn) ==
    IF Class(Elem(t)) = "VariableArray"
    THEN IF fn THEN Size(Elem(Elem(t))) * program.vla[Elem(t)] ELSE 0
    ELSE Size(Elem(t))

ElementCount(a, t, fn) ==
    CASE Class(t) = "ConstantArray" -> T(t).count
      [] Class(t) = "VariableArray" -> IF fn THEN program.vla[t] ELSE 0
      [] Class(t) = "IncompleteArray" ->
           IF getContainingMemoryArea(a) = {} THEN 0 ELSE RestOf(a) \div ElementSize(t, fn)
      [] OTHER -> 0

\* createValue() knows no vectors and no functions, and nothing of an
\* incomplete type; no array of elements of unknown size.
HasValue(t, fn) ==
    /\ Class(t) \notin {"Vector", "FunctionProto"}
    /\ ~isIncompleteType(t) \/ Class(t) = "IncompleteArray"
    /\ Class(t) \in ArrayClasses => ElementSize(t, fn) > 0

\* Every pointer is one cell; one that is not initialized is taken for null.
createValue(a, t, fn) ==
    [type |-> t, count |-> ElementCount(a, t, fn), fn |-> fn,
     raw |-> IF Class(t) = "Pointer" /\ Init(a) THEN Byte(a) ELSE 0]

HandleOf(a, item) == ValueOf(a, item.type, item.raw)

\* The items at an address whose type matches: the first one is used.
Matching(st, a, t) == {k \in DOMAIN st[a] : match(st[a][k].type, t)}
First(s) == CHOOSE k \in s : \A l \in s : k <= l

\* ValueStoreImpl::getValue(): the value that is found, or a new one if the type
\* has values.
FoundOrNew(st, a, found, has, new) ==
    IF found # {} THEN [st |-> st, v |-> HandleOf(a, st[a][First(found)])]
    ELSE IF ~has THEN [st |-> st, v |-> NoValue]
    ELSE [st |-> [st EXCEPT ![a] = Append(@, new)], v |-> HandleOf(a, new)]

getCanonical(st, a, t, fn) ==
    FoundOrNew(st, a, Matching(st, a, t), HasValue(t, fn), createValue(a, t, fn))

getValue(st, a, w, fn) == getCanonical(st, a, Canon(w), fn)

ItemOf(st, v) == st[v.at][First({k \in DOMAIN st[v.at] : st[v.at][k].type = v.type})]

\* ProcessState::cacheClear()
NoValues == [a \in Addresses |-> <<>>]

--------------------------------------------------------------------------------
(* Reading a value.                                                           *)

Kind(v) ==
    CASE Class(v.type) \in ArrayClasses -> "Array"
      [] Class(v.type) \in {"Record", "Pointer", "Complex"} -> Class(v.type)
      [] OTHER -> "Scalar"

\* Pointers of expressions are always initialized.
isCompletelyInitialized(v) == isInMemory(v) => \A a \in Bytes(v) : Init(a)

isZero(v) == \A a \in Bytes(v) : Byte(a) = 0

getRawValue(p) == p.raw

isValidOpaque(p) == isStream(getRawValue(p)) \/ isDir(getRawValue(p))

getDereferenceIndexLimit(p) ==
    IF \/ ~isCompletelyInitialized(p)
       \/ getContainingMemoryArea(getRawValue(p)) = {}
       \/ PointeeSize(p.type) = 0
    THEN 0
    ELSE IF hasFlexibleArrayMember(Elem(p.type)) THEN 1
    ELSE RestOf(getRawValue(p)) \div PointeeSize(p.type)

PointeeAt(p, i) == getRawValue(p) + i * PointeeSize(p.type)
getDereferenced(st, p, i) == getValue(st, PointeeAt(p, i), Elem(p.type), FALSE)

getChildCount(st, v) == IF Kind(v) = "Record" THEN Len(Fields(v.type)) ELSE ItemOf(st, v).count

\* Members of a record that do not start at a byte have no value.
getMember(st, v, f) ==
    IF ~f.aligned THEN [st |-> st, v |-> NoValue] ELSE getValue(st, v.at + f.at, f.type, FALSE)
getElement(st, v, i, fn) == getValue(st, v.at + i * ElementSize(v.type, fn), Elem(v.type), fn)

getChildAt(st, v, i) ==
    IF Kind(v) = "Record" THEN getMember(st, v, Fields(v.type)[i + 1])
    ELSE getElement(st, v, i, ItemOf(st, v).fn)

--------------------------------------------------------------------------------
(* The value of a statement: an lvalue or an aggregate is in memory, any      *)
(* other is what the last execution of its instruction gave, if there is one. *)

getStmtValue(st, s) ==
    IF s.kind = "none" \/ ~s.has THEN [st |-> st, v |-> NoValue]
    ELSE IF s.kind \in {"LValSimple", "RValAggregate"} THEN getValue(st, s.value, s.type, TRUE)
    ELSE IF isIncompleteType(s.type) THEN [st |-> st, v |-> NoValue]
    ELSE [st |-> st, v |-> ValueOf(0, Canon(s.type), s.value)]

--------------------------------------------------------------------------------
(* Whether a value is a part of another one, and whether two pointers lead to *)
(* the same values.  These functions only look: the values they ask for are   *)
(* the ones a layout asks for as well.                                        *)

ChildAt(st, v, i) == getChildAt(st, v, i).v
Dereferenced(st, p, i) == getDereferenced(st, p, i).v

\* A member without a value is dereferenced: "crash".
RECURSIVE isContainedChild(_, _, _), ContainedFrom(_, _, _, _), ChildIsOrContains(_, _, _),
          FirstContaining(_, _, _, _, _)
isContainedChild(st, child, parent) ==
    IF parent = NoValue THEN "crash"
    ELSE IF Kind(parent) \notin {"Array", "Record"} THEN "no"
    ELSE ContainedFrom(getValue(st, parent.at, parent.type, FALSE).st, child, parent, 0)
ContainedFrom(st, child, parent, i) ==
    IF i >= getChildCount(st, parent) THEN "no"
    ELSE FirstContaining(st, child, parent, i, ChildIsOrContains(st, child, ChildAt(st, parent, i)))
ChildIsOrContains(st, child, c) == IF c = child THEN "yes" ELSE isContainedChild(st, child, c)
FirstContaining(st, child, parent, i, inside) ==
    IF inside # "no" THEN inside ELSE ContainedFrom(st, child, parent, i + 1)

\* The lower of the two pointers reaches what the higher one points to.
Reaches(st, lo, hi) ==
    /\ getDereferenceIndexLimit(lo) # 0 /\ getDereferenceIndexLimit(hi) # 0
    /\ PointeeSize(lo.type) = PointeeSize(hi.type)
    /\ LET offset == (getRawValue(hi) - getRawValue(lo)) \div PointeeSize(lo.type)
       IN  /\ offset < getDereferenceIndexLimit(lo)
           /\ Dereferenced(st, lo, offset) = Dereferenced(st, hi, 0)

doReferenceSameValue(st, l, r) ==
    LET inOrder == getRawValue(l) <= getRawValue(r)
    IN  Reaches(st, IF inOrder THEN l ELSE r, IF inOrder THEN r ELSE l)
================================================================================
