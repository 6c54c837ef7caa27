------------------------------- MODULE MCMapping -------------------------------
(***************************************************************************)
(* The mapping of recreated states to the program's source, on small       *)
(* programs.                                                               *)
(***************************************************************************)
EXTENDS GraphLayout, MappedMovement, MappedScope, ValueText

VARIABLES
    profile,   \* which part of the mapping is looked at
    pair       \* two types that are compared

vars == <<valueVars, layoutVars, movementVars, scopeVars, textVars, profile, pair>>

--------------------------------------------------------------------------------
(* Types of two units.  A pointer is one cell, an int two.                    *)

Plain == [unit |-> "a", class |-> "Builtin", size |-> 1, kind |-> "", elem |-> "none", count |-> 0,
          fields |-> <<>>, values |-> <<>>, incomplete |-> FALSE]
Builtin(kind, size) == [Plain EXCEPT !.kind = kind, !.size = size]
Pointer(t) == [Plain EXCEPT !.class = "Pointer", !.elem = t]
Array(class, t, n, size) == [Plain EXCEPT !.class = class, !.elem = t, !.count = n, !.size = size,
                                          !.incomplete = (class = "IncompleteArray")]
Member(t, at) == [type |-> t, at |-> at, aligned |-> TRUE]
BitField(t, at) == [type |-> t, at |-> at, aligned |-> FALSE]
Record(size, fields) == [Plain EXCEPT !.class = "Record", !.size = size, !.fields = fields]
Unknown(class) == [Plain EXCEPT !.class = class, !.size = 0, !.incomplete = TRUE]
InUnitB(t) == [t EXCEPT !.unit = "b"]

UnitA == [none |-> Unknown("Builtin"),
    void |-> [Unknown("Builtin") EXCEPT !.kind = "void"],
    char |-> Builtin("char", 1), int |-> Builtin("int", 2),
    vec |-> [Plain EXCEPT !.class = "Vector", !.size = 2, !.elem = "int", !.count = 1],
    file |-> Unknown("Record"),
    pvoid |-> Pointer("void"), pchar |-> Pointer("char"), ppchar |-> Pointer("pchar"),
    pint |-> Pointer("int"), pfile |-> Pointer("file"),
    node |-> Record(3, <<Member("pnode", 0), Member("int", 1)>>), pnode |-> Pointer("node"),
    flex |-> Record(2, <<Member("int", 0), Member("ints", 2)>>), pflex |-> Pointer("flex"),
    bits |-> Record(2, <<Member("char", 0), BitField("char", 0), Member("char", 1)>>), pbits |-> Pointer("bits"),
    bits1 |-> Array("ConstantArray", "bits", 1, 2), pbits1 |-> Pointer("bits1"),
    chars3 |-> Array("ConstantArray", "char", 3, 3), chars2 |-> Array("ConstantArray", "char", 2, 2),
    strings |-> Array("ConstantArray", "chars2", 2, 4),
    ints |-> Array("IncompleteArray", "int", 0, 0), ints2 |-> Array("ConstantArray", "int", 2, 4),
    ints3 |-> Array("ConstantArray", "int", 3, 6), vla |-> Array("VariableArray", "int", 0, 0),
    vlap |-> Array("VariableArray", "pchar", 0, 0)]

UnitB == [bint |-> InUnitB(Builtin("int", 2)),
    bnode |-> InUnitB(Record(3, <<Member("bpnode", 0), Member("bint", 1)>>)),
    bpnode |-> InUnitB(Pointer("bnode")),
    bints1 |-> InUnitB(Array("ConstantArray", "bint", 1, 2)), bpints1 |-> InUnitB(Pointer("bints1"))]

\* Types that are compared: lists through one or two records, members written
\* with a typedef, functions, enumerations, and what is complete in one unit only.
MoreA == [
    word |-> [Plain EXCEPT !.class = "Typedef", !.size = 2, !.elem = "int"],
    twice |-> Record(4, <<Member("int", 0), Member("int", 2)>>),
    words |-> Record(4, <<Member("int", 0), Member("word", 2)>>),
    odd |-> Record(3, <<Member("pnode", 0), Member("chars2", 1)>>),
    left |-> Record(3, <<Member("pright", 0), Member("int", 1)>>), pright |-> Pointer("right"),
    right |-> Record(3, <<Member("pleft", 0), Member("int", 1)>>), pleft |-> Pointer("left"),
    tree |-> Record(4, <<Member("ptree", 0), Member("ptree", 1), Member("int", 2)>>), ptree |-> Pointer("tree"),
    color |-> [Plain EXCEPT !.class = "Enum", !.size = 2, !.elem = "int", !.values = <<0, 1>>],
    fn |-> [Unknown("FunctionProto") EXCEPT !.incomplete = FALSE], pfn |-> Pointer("fn")]

MoreB == [
    bvoid |-> InUnitB([Unknown("Builtin") EXCEPT !.kind = "void"]),
    bchar |-> InUnitB(Builtin("char", 1)), buint |-> InUnitB(Builtin("uint", 2)),
    bfile |-> InUnitB(Record(1, <<Member("bchar", 0)>>)), bpfile |-> InUnitB(Pointer("bfile")),
    bopen |-> InUnitB(Unknown("Record")), bpopen |-> InUnitB(Pointer("bopen")),
    btwice |-> InUnitB(Record(4, <<Member("bint", 0), Member("bint", 2)>>)),
    bmixed |-> InUnitB(Record(4, <<Member("bint", 0), Member("buint", 2)>>)),
    bchars3 |-> InUnitB(Array("ConstantArray", "bchar", 3, 3)),
    bodd |-> InUnitB(Record(3, <<Member("bpnode", 0), Member("bchars2", 1)>>)),
    bchars2 |-> InUnitB(Array("ConstantArray", "bchar", 2, 2)),
    bleft |-> InUnitB(Record(3, <<Member("bpright", 0), Member("bint", 1)>>)), bpright |-> InUnitB(Pointer("bright")),
    bright |-> InUnitB(Record(3, <<Member("bpleft", 0), Member("bint", 1)>>)), bpleft |-> InUnitB(Pointer("bleft")),
    btree |-> InUnitB(Record(4, <<Member("bptree", 0), Member("bptree", 1), Member("bint", 2)>>)),
    bptree |-> InUnitB(Pointer("btree")),
    bfork |-> InUnitB(Record(4, <<Member("bptree", 0), Member("bpnode", 1), Member("bint", 2)>>)),
    bcolor |-> InUnitB([Plain EXCEPT !.class = "Enum", !.size = 2, !.elem = "bint", !.values = <<0, 1>>]),
    bshade |-> InUnitB([Plain EXCEPT !.class = "Enum", !.size = 2, !.elem = "bint", !.values = <<0, 2>>]),
    bfn |-> InUnitB([Unknown("FunctionProto") EXCEPT !.incomplete = FALSE]), bpfn |-> InUnitB(Pointer("bfn"))]

AllTypes == UnitA @@ UnitB @@ MoreA @@ MoreB
MCTypes == LET types == AllTypes IN types

--------------------------------------------------------------------------------
(* Programs.                                                                  *)

B(n) == [init |-> TRUE, byte |-> n]
U(n) == [init |-> FALSE, byte |-> n]
Ptrs(s) == {B(n) : n \in s}

Var(t, at) == [type |-> t, at |-> at, shown |-> TRUE]
Block(start, length) == [start |-> start, length |-> length]
NoStmt == [kind |-> "none", type |-> "int", value |-> 0, has |-> FALSE]
Function(locals) == [params |-> <<>>, locals |-> locals, hidden |-> {}, active |-> NoStmt]

Empty == [functions |-> <<>>, globals |-> <<>>, mallocs |-> <<>>, statics |-> <<>>, streams |-> <<>>,
          dirs |-> <<>>, vla |-> [t \in {"vla", "vlap"} |-> 2], cells |-> <<>>, fixed |-> <<>>]

Fixed(n) == [a \in 1 .. n |-> B(5)]

\* A list of two nodes, and a pointer to a local that is out of scope.
List == [Empty EXCEPT
    !.functions = <<[Function(<<Var("pnode", 1), Var("pnode", 2)>>) EXCEPT !.hidden = {Var("node", 10)}]>>,
    !.mallocs = <<Block(4, 3), Block(7, 3)>>,
    !.cells = (1 :> Ptrs({4, 7, 10})) @@ (2 :> Ptrs({0, 4})) @@ (4 :> {U(4)} \cup Ptrs({4, 7})) @@ (7 :> Ptrs({0, 4})),
    !.fixed = Fixed(12)]

\* A string in an array and one in a block.
Strings == [Empty EXCEPT
    !.functions = <<Function(<<Var("chars3", 1), Var("pchar", 4)>>)>>,
    !.mallocs = <<Block(6, 3), Block(9, 0)>>,
    !.cells = (1 :> {U(0), B(0), B(5)}) @@ (2 :> {B(0), B(5)}) @@ (4 :> Ptrs({3, 7, 9}))
                 @@ (7 :> {U(0), B(0)}),
    !.fixed = Fixed(9)]

\* Pointers of several types into one block.
Mixed == [Empty EXCEPT
    !.functions = <<[Function(<<Var("pvoid", 2), Var("pchar", 3), Var("pfile", 4)>>)
                        EXCEPT !.params = <<Var("pint", 1)>>]>>,
    !.mallocs = <<Block(6, 4)>>,
    !.cells = (1 :> Ptrs({0, 6, 8})) @@ (2 :> Ptrs({0, 6})) @@ (3 :> Ptrs({6, 7})) @@ (4 :> Ptrs({0, 7})),
    !.fixed = Fixed(9)]

\* A record that ends in an array, and records with parts that have no value.
Flexible == [Empty EXCEPT
    !.functions = <<Function(<<Var("pflex", 1), Var("pint", 2)>>)>>,
    !.mallocs = <<Block(4, 6)>>, !.cells = [a \in {1, 2} |-> Ptrs({0, 4, 6, 8})],
    !.fixed = Fixed(9) @@ [a \in 10 .. 12 |-> U(0)]]

Gaps == [Empty EXCEPT
    !.functions = <<Function(<<Var("pbits", 6), Var("pbits1", 7), Var("pchar", 8)>>)>>,
    !.mallocs = <<Block(1, 4)>>, !.cells = [a \in {6, 7, 8} |-> Ptrs({0, 1, 3})], !.fixed = Fixed(8)]

Vectors == [Empty EXCEPT
    !.functions = <<Function(<<Var("pint", 4), Var("vec", 5)>>)>>,
    !.mallocs = <<Block(1, 2)>>, !.cells = (4 :> Ptrs({0, 1})), !.fixed = Fixed(6)]

VectorGlobal == [Vectors EXCEPT !.globals = <<Var("vec", 7)>>, !.fixed = Fixed(8)]

\* A caller from another unit, which points to a variable of its callee.
Units == [Empty EXCEPT
    !.functions = <<Function(<<Var("bpints1", 1), Var("bpnode", 2)>>), Function(<<Var("ints2", 4), Var("pnode", 8)>>)>>,
    !.mallocs = <<Block(10, 3)>>,
    !.cells = (1 :> Ptrs({0, 4, 6})) @@ (2 :> Ptrs({0, 10})) @@ (8 :> Ptrs({0, 10})) @@ (10 :> Ptrs({0, 10})),
    !.fixed = Fixed(12)]

\* Globals, streams, directories, a string literal, and the value of a statement.
Outside == [Empty EXCEPT
    !.functions = <<[Function(<<>>) EXCEPT
                        !.active = [kind |-> "RValScalar", type |-> "pchar", value |-> 7, has |-> TRUE]],
                    [Function(<<>>) EXCEPT
                        !.active = [kind |-> "LValSimple", type |-> "pchar", value |-> 2, has |-> TRUE]]>>,
    !.globals = <<Var("pfile", 1), Var("pchar", 2), [Var("int", 9) EXCEPT !.shown = FALSE]>>,
    !.statics = <<Block(6, 2)>>,
    !.streams = <<[at |-> 3, std |-> TRUE]>>, !.dirs = <<5>>,
    !.cells = (1 :> {U(3)} \cup Ptrs({3, 5, 11})) @@ (2 :> Ptrs({6, 7})), !.fixed = Fixed(11)]

\* A block that holds a pointer into itself.
Self == [Empty EXCEPT
    !.functions = <<Function(<<Var("ppchar", 6)>>)>>,
    !.mallocs = <<Block(1, 4)>>, !.cells = (2 :> Ptrs({0, 1, 3})) @@ (6 :> Ptrs({0, 2})), !.fixed = Fixed(6)]

\* Arrays: of strings, of numbers, and one whose size is known at run time only.
Arrays == [Empty EXCEPT
    !.functions = <<Function(<<Var("strings", 1), Var("ints3", 5), Var("pint", 11), Var("vla", 12)>>)>>,
    !.cells = (1 :> {U(0), B(0), B(5)}) @@ (5 :> {U(0), B(1)})
                 @@ (8 :> {U(1), B(0)}) @@ (11 :> Ptrs({0, 5, 8, 12})),
    !.fixed = (6 :> B(0)) @@ Fixed(15)]

\* Arrays whose size is known at run time only: numbers that are pointed to
\* between two variables, and pointers after all others.
RunTime == [Empty EXCEPT
    !.functions = <<Function(<<Var("pint", 1), Var("vla", 2), Var("pchar", 6), Var("vlap", 7)>>)>>,
    !.mallocs = <<Block(9, 2), Block(11, 0)>>,
    !.cells = (1 :> Ptrs({2, 4})) @@ (6 :> Ptrs({7, 8, 9, 11})) @@ (7 :> Ptrs({0, 9})),
    !.fixed = Fixed(11)]

MCPrograms == {RunTime, List, Strings, Mixed, Flexible, Gaps, Vectors, VectorGlobal, Units, Outside, Self, Arrays}

--------------------------------------------------------------------------------
(* Recordings: a call of f with a prelude, which calls g in several ways.     *)

Plainly(kind) == [kind |-> kind, fn |-> "", mapped |-> FALSE, completes |-> {}, timed |-> FALSE,
                  owner |-> "same", writes |-> 0]
Top1 == [id |-> 1, top |-> TRUE]
Sub2 == [id |-> 2, top |-> FALSE]
Call3 == [id |-> 3, top |-> TRUE]

Enter(f) == [Plainly("enter") EXCEPT !.fn = f]
Leave == [Plainly("exit") EXCEPT !.timed = TRUE, !.owner = "none"]
Return == Plainly("exit")
Unmapped == Plainly("inst")
Alloca == [Unmapped EXCEPT !.owner = "x"]
Part == [Plainly("inst") EXCEPT !.mapped = TRUE]
Done(s) == [Part EXCEPT !.completes = {s}]
Store(s, n) == [Done(s) EXCEPT !.timed = TRUE, !.writes = n]
Calling(s) == [Plainly("pre") EXCEPT !.mapped = TRUE, !.completes = {s}]
Malloc(s, name) == [Done(s) EXCEPT !.timed = TRUE, !.owner = name]
Free(s) == [Done(s) EXCEPT !.timed = TRUE, !.owner = "none"]
Time == [Plainly("time") EXCEPT !.timed = TRUE]

\* Bodies of the function that is called: its variable may be the object.
GBodies == {<<Alloca, Unmapped, Store(Top1, 1), Done(Sub2)>>, <<Alloca, Store(Top1, 1), Time, Store(Sub2, 2)>>}
HeapBodies == {<<Unmapped, Malloc(Top1, "h"), Store(Sub2, 1)>>, <<Malloc(Top1, "h"), Part, Free(Sub2)>>,
               <<Unmapped, Done(Sub2)>>, <<>>}

CallOf(f, body, leave) == <<Calling(Call3), Enter(f)>> \o body \o <<leave, Done(Call3)>>

\* An address is allocated only when it is free, and freed when it is not.
Sound(r) ==
    LET changes == SelectSeq(r, LAMBDA b : b.owner # "same")
    IN  \A k \in DOMAIN changes :
            (changes[k].owner = "none") <=> (k > 1 /\ changes[k - 1].owner # "none")

\* Each block with the calls that there are after it.
WithCalls(r) ==
    LET stack[n \in 0 .. Len(r)] ==
            IF n = 0 THEN <<>>
            ELSE CASE r[n].kind = "enter" -> Append(stack[n - 1], n)
                   [] r[n].kind = "exit" -> SubSeq(stack[n - 1], 1, Len(stack[n - 1]) - 1)
                   [] OTHER -> stack[n - 1]
    IN  [n \in DOMAIN r |-> r[n] @@ [stack |-> stack[n]]]

MCRecordings == {WithCalls(r) : r \in {r \in
    {<<Enter("main"), Unmapped, Unmapped, Store(Sub2, 3)>> \o CallOf(f, one, Leave) \o <<Time>> \o CallOf("g", two, Leave)
        : f \in {"g", "system", "unknown"}, one \in GBodies, two \in {<<Alloca, Unmapped, Store(Top1, 1), Done(Sub2)>>}}
      \cup {<<Enter("main"), Part>> \o CallOf("g", one, Return) \o middle \o CallOf("g", two, Return) \o <<Unmapped>>
        : one \in HeapBodies, two \in HeapBodies \ {<<Malloc(Top1, "h"), Part, Free(Sub2)>>},
          middle \in {<<>>, <<Free(Sub2), Malloc(Top1, "k"), Free(Sub2)>>, <<Free(Sub2)>>}} : Sound(r)}}

\* Two calls in a row, with nothing between them that takes the lock.
CallsInARow ==
    {WithCalls(<<Enter("main"), Unmapped, Store(Sub2, 3)>> \o CallOf("g", <<Alloca, Store(Top1, 1)>>, Leave)
                 \o CallOf("g", <<[Alloca EXCEPT !.owner = "y"], Store(Top1, 1)>>, Leave))}

--------------------------------------------------------------------------------
(* Functions with declarations: of several variables, in loops, static.       *)

Ast(class, parent) == [class |-> class, parent |-> parent, init |-> 0, static |-> FALSE]

\* { int a = e, b = e; { static int c; e; int d = e; e; } e; int f; e; }
Block1 == [params |-> {101}, byval |-> {102}, nodes |->
    <<Ast("Compound", 0), Ast("DeclStmt", 1), Ast("Var", 2), Ast("Expr", 3), Ast("Var", 2), Ast("Expr", 5),
      Ast("Compound", 1), Ast("DeclStmt", 7), [Ast("Var", 8) EXCEPT !.static = TRUE], Ast("Expr", 7),
      Ast("DeclStmt", 7), Ast("Var", 11), Ast("Expr", 12), Ast("Expr", 7), Ast("Expr", 1),
      Ast("DeclStmt", 1), Ast("Var", 16), Ast("Expr", 1)>>]

\* { for (int i = e, j = e; e; e) { int k; e; } e; }
Loop == [params |-> {}, byval |-> {}, nodes |->
    <<Ast("Compound", 0), [Ast("For", 1) EXCEPT !.init = 3], Ast("DeclStmt", 2), Ast("Var", 3), Ast("Expr", 4),
      Ast("Var", 3), Ast("Expr", 6), Ast("Expr", 2), Ast("Expr", 2), Ast("Compound", 2), Ast("DeclStmt", 10),
      Ast("Var", 11), Ast("Expr", 10), Ast("Expr", 1)>>]

MCBodies == {Block1, Loop}

--------------------------------------------------------------------------------
(* Scalar types, of one or two bytes of three bits.                           *)

NoNames == <<>>
ScalarOf(class, kind, size, elem) == [class |-> class, kind |-> kind, size |-> size, elem |-> elem, values |-> NoNames]
MCScalars ==
    [k \in {"char", "schar", "uchar", "bool", "float", "longdouble", "half"} |-> ScalarOf("Builtin", k, 1, k)]
      @@ [k \in {"int", "uint", "uint128"} |-> ScalarOf("Builtin", k, 2, k)]
      @@ [atomic |-> ScalarOf("Atomic", "int", 2, "int"), pointer |-> ScalarOf("Pointer", "", 2, ""),
          complex |-> ScalarOf("Complex", "", 2, "float"),
          enum |-> [ScalarOf("Enum", "", 2, "int") EXCEPT !.values = [zero |-> 0, none |-> 0, minus |-> -1, last |-> 31]]]

--------------------------------------------------------------------------------
(* Profiles: each looks at one part, while nothing happens in the others.     *)

LayoutIdle ==
    /\ program = Empty /\ mem = <<>> /\ store = <<>> /\ phase = "idle" /\ exp = <<>> /\ nodes = <<>>
    /\ edges = {} /\ engines = {} /\ areaTypes = <<>> /\ chosen = NoValue
MovementIdle ==
    /\ recording = <<>> /\ position = 0 /\ callStack = <<>>
    /\ last = [move |-> "none", arg |-> 0, from |-> 0, result |-> "Unmoved"]
ScopeIdle == function = Loop /\ active = 0 /\ allocated = {} /\ shown = {}
TextIdle == type = "char" /\ bits = 0 /\ stored = FALSE /\ texts = <<Text("uninitialized", 0)>>
NoPair == pair = <<"int", "bint">>

Init0 ==
    \/ profile = "graph" /\ LayoutInit /\ MovementIdle /\ ScopeIdle /\ TextIdle /\ NoPair
    \/ profile = "movement" /\ LayoutIdle /\ MovementInit /\ ScopeIdle /\ TextIdle /\ NoPair
    \/ profile = "scope" /\ LayoutIdle /\ MovementIdle /\ ScopeInit /\ TextIdle /\ NoPair
    \/ profile = "text" /\ LayoutIdle /\ MovementIdle /\ ScopeIdle /\ TextInit /\ NoPair
    \/ profile = "match" /\ LayoutIdle /\ MovementIdle /\ ScopeIdle /\ TextIdle
         /\ pair \in (DOMAIN (UnitA @@ MoreA)) \X (DOMAIN (UnitB @@ MoreB))

Next ==
    /\ UNCHANGED <<profile, pair>>
    /\ \/ profile = "graph" /\ LayoutNext /\ UNCHANGED <<movementVars, scopeVars, textVars>>
       \/ profile = "movement" /\ MovementNext /\ UNCHANGED <<valueVars, layoutVars, scopeVars, textVars>>
       \/ profile = "scope" /\ ScopeNext /\ UNCHANGED <<valueVars, layoutVars, movementVars, textVars>>
       \/ profile = "text" /\ EvaluateAndStore /\ UNCHANGED <<valueVars, layoutVars, movementVars, scopeVars>>

Spec == Init0 /\ [][Next]_vars

MovementOnly == Init0 /\ profile = "movement" /\ [][Next]_vars

--------------------------------------------------------------------------------
\* Types of two units match if they have the same structure (TypeMatch.cpp).
UnitsMatch == profile = "match" => MatchesStructure(pair[1], pair[2])

\* Movement to the allocation of an object ends at "the initial allocation of
\* the memory that owns Address", whatever memory it is (moveToAllocation()).
AnyAllocationIsFound == AllocationOf({"h", "k", "x", "y"})
================================================================================
