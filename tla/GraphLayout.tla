------------------------------ MODULE GraphLayout ------------------------------
(***************************************************************************)
(* The layout of a state as a graph (GraphLayout.cpp): variables, calls    *)
(* and areas of memory become nodes, in tasks that run in any order, and   *)
(* the pointers become edges between the cells of the nodes.  The text of  *)
(* the nodes is left out: what is kept of a node are the values that have  *)
(* a cell in it and the ones that edges may be attached to.                *)
(***************************************************************************)
EXTENDS GraphExpansion, TLC

VARIABLES
    phase,      \* "idle", "layout", "drawn" or "failed"
    exp,        \* the expansion of the state, or <<>>
    nodes,      \* [task -> node]: what the layout tasks returned
    edges,      \* the edges that were drawn
    engines,    \* engines the user chose for values and areas: [at, type, engine]
    areaTypes,  \* AreaReferenceOverride: [address -> type]
    chosen      \* the pointer the user chose for an area last, or NoValue

layoutVars == <<phase, exp, nodes, edges, engines, areaTypes, chosen>>

--------------------------------------------------------------------------------
(* Layout engines for values, in the order they are asked.                    *)

ValueEngines == <<"CString", "ElideEmptyStrings", "ElideUninitOrZero", "Standard">>

canLayout(engine, v) ==
    CASE engine = "CString" -> Kind(v) = "Array" /\ isCharType(Elem(v.type))
      [] engine = "ElideEmptyStrings" ->
           Kind(v) = "Array" /\ Class(Elem(v.type)) \in ArrayClasses /\ isCharType(Elem(Elem(v.type)))
      [] engine = "ElideUninitOrZero" -> Kind(v) = "Array" /\ ~isAnyPointerType(Elem(v.type))
      [] engine = "Standard" -> TRUE

\* LayoutHandler::doLayout(): the user's choice, if it fits, or the first engine.
EngineFor(v) ==
    LET own == {o \in engines : o.at = v.at /\ o.type = v.type /\ canLayout(o.engine, v)}
    IN  IF own # {} THEN (CHOOSE o \in own : TRUE).engine
        ELSE ValueEngines[First({k \in DOMAIN ValueEngines : canLayout(ValueEngines[k], v)})]

ElidedAnyway(engine, e, st, v, i) ==
    LET size == ElementSize(v.type, ItemOf(st, v).fn)
        start == v.at + i * size
    IN  Byte(start) = 0

\* Elements that are not shown: empty, and nothing points into them.
Elided(engine, e, st, v, i) ==
    LET size == ElementSize(v.type, ItemOf(st, v).fn)
        start == v.at + i * size
        cells == start .. (start + size - 1)
        empty == IF engine = "ElideEmptyStrings" THEN ~Init(start) \/ Byte(start) = 0
                 ELSE (\A a \in cells : ~Init(a)) \/ (\A a \in cells : Byte(a) = 0)
    IN  empty /\ ~isAreaReferenced(e, start, start + size)

\* A layout so far: the store, the values that have a cell, those with a port,
\* and whether the rest of a string is left out.
Nothing(st) == [st |-> st, cells |-> {}, ports |-> {}, eliding |-> FALSE]
Cell(l, v) == [l EXCEPT !.cells = @ \cup {v}]
Port(l, v) == [l EXCEPT !.ports = @ \cup {v}]

\* Characters after a zero are shown only if something points to them.  A zero
\* counts in an array even if it is not initialized.
EndsString(v, array) == isZero(v) /\ (array \/ isCompletelyInitialized(v))

RECURSIVE doLayout(_, _, _), doLayoutImpl(_, _, _, _), layoutIfAny(_, _, _), layoutChildren(_, _, _, _, _),
          layoutCharacters(_, _, _, _, _), layoutCharacter(_, _, _, _)
doLayout(l, e, v) == doLayoutImpl(l, e, v, EngineFor(v))
doLayoutImpl(l, e, v, engine) ==
    LET own == IF isReferencedDirectly(e, v) \/ (engine = "Standard" /\ Kind(v) = "Pointer")
               THEN Port(Cell(l, v), v) ELSE Cell(l, v)
    IN  CASE engine = "CString" -> layoutCharacters(own, e, [i \in 0 .. (getChildCount(l.st, v) - 1) |->
                                                               ChildAt(l.st, v, i)], 0, TRUE)
          [] engine # "CString" /\ Kind(v) \in {"Array", "Record"} -> layoutChildren(own, e, engine, v, 0)
          [] OTHER -> own
layoutIfAny(l, e, g) == IF g.v = NoValue THEN l ELSE doLayout([l EXCEPT !.st = g.st], e, g.v)
layoutChildren(l, e, engine, v, i) ==
    IF i >= getChildCount(l.st, v) THEN l
    ELSE IF engine # "Standard" /\ Elided(engine, e, l.st, v, i) THEN layoutChildren(l, e, engine, v, i + 1)
    ELSE layoutChildren(layoutIfAny(l, e, getChildAt(l.st, v, i)), e, engine, v, i + 1)
layoutCharacters(l, e, chars, i, array) ==
    IF i \notin DOMAIN chars THEN [l EXCEPT !.eliding = FALSE]
    ELSE LET v == chars[i]
         IN  layoutCharacters(layoutCharacter([l EXCEPT !.st = getValue(l.st, v.at, v.type, FALSE).st], e, v, array),
                              e, chars, i + 1, array)
layoutCharacter(l, e, v, array) ==
    IF l.eliding /\ ~isReferencedDirectly(e, v) THEN l
    ELSE [doLayout([l EXCEPT !.eliding = FALSE], e, v) EXCEPT !.eliding = EndsString(v, array)]

--------------------------------------------------------------------------------
(* Nodes.                                                                     *)

\* A node, and the areas of the objects that it stands for.
Node(area, l, owns) == [area |-> area, cells |-> l.cells, ports |-> l.ports, owns |-> owns]
AsNode(area, l, owns) == [st |-> l.st, nodes |-> <<Node(area, l, owns)>>]

\* A variable: a row of the node of its call, or the node of a global.
layoutVariable(l, e, x, fn) ==
    layoutIfAny(l, e, getValue(l.st, x.at, x.type, fn))

RECURSIVE layoutVariables(_, _, _)
layoutVariables(l, e, xs) ==
    IF xs = <<>> THEN l ELSE layoutVariables(layoutVariable(l, e, Head(xs), TRUE), e, Tail(xs))

\* A variable's area has the size of the type of its value: none for an array
\* whose size is known at run time only, and one for an array of another unit
\* that matched.  A variable without a value has the empty area at 0.
ValueArea(st, x, fn) ==
    LET v == getValue(st, x.at, x.type, fn).v
    IN  IF v = NoValue THEN Area(0, 0) ELSE Area(x.at, Size(v.type))

\* The area of a call covers its variables; one at 0 is taken for the lowest.
Cover(area, own) ==
    [start |-> IF area.start = 0 \/ own.start < area.start THEN own.start ELSE area.start,
     end |-> IF own.end > area.end THEN own.end ELSE area.end]

FunctionArea(st, xs) ==
    LET area[k \in 0 .. Len(xs)] ==
            IF k = 0 THEN Area(0, 0) ELSE Cover(area[k - 1], ValueArea(st, xs[k], TRUE))
    IN  area[Len(xs)]

layoutFunction(st, e, f) ==
    LET xs == f.params \o f.locals
    IN  AsNode(FunctionArea(st, xs), layoutVariables(Nothing(st), e, xs),
               {VarArea(x) : x \in Variables(f)})

layoutGlobal(st, e, x) == AsNode(ValueArea(st, x, FALSE), layoutVariable(Nothing(st), e, x, FALSE), {VarArea(x)})

\* An area as the pointer sees it: characters as a string, anything else as the
\* values it leads to.  The string engine gives a port to the pointer itself.
AreaEngineFor(area, p) ==
    IF \E o \in engines : o.at = area.start /\ o.type = p.type /\ o.engine = "AreaStandard" THEN "AreaStandard"
    ELSE IF isCharType(Elem(p.type)) /\ getDereferenceIndexLimit(p) # 0 THEN "AreaCString"
    ELSE "AreaStandard"

RECURSIVE layoutPointees(_, _, _, _)
layoutPointees(l, e, p, i) ==
    IF i >= getDereferenceIndexLimit(p) THEN l
    ELSE layoutPointees(layoutIfAny(l, e, getDereferenced(l.st, p, i)), e, p, i + 1)

layoutArea(st, e, area, p) ==
    LET chars == [i \in 0 .. (getDereferenceIndexLimit(p) - 1) |-> Dereferenced(st, p, i)]
        own == IF isReferencedDirectly(e, p) THEN Port(Nothing(st), p) ELSE Nothing(st)
    IN  AsNode(area, IF AreaEngineFor(area, p) = "AreaCString" THEN layoutCharacters(own, e, chars, 0, FALSE)
                     ELSE layoutPointees(Nothing(st), e, p, 0), {area})

\* The pointers that may decide how an area is shown: the only one, one of the
\* type the user chose, or the first that is left.  An empty area is referenced
\* at its start.
References(e, area) ==
    getReferencesOfArea(e, area.start, IF area.end = area.start THEN area.start + 1 ELSE area.end)

getAreaReferenceType(area) ==
    IF area.start \in DOMAIN areaTypes THEN {areaTypes[area.start]} ELSE {}

Deciding(st, e, area) ==
    LET refs == References(e, area)
        choice == {p \in refs : p.type \in getAreaReferenceType(area)}
    IN  IF Cardinality(refs) <= 1 THEN refs
        ELSE IF choice # {} THEN Lowest(choice)
        ELSE FirstReferences(st, refs)

\* Static areas that nothing points to are left out; so are standard streams.
layoutUnreferencedArea(st, area, dynamic) ==
    [st |-> st, nodes |-> IF dynamic THEN <<Node(area, Nothing(st), {area})>> ELSE <<>>]

layoutStream(st, e, s) ==
    [st |-> st, nodes |-> IF s.std /\ ~isAreaReferenced(e, s.at, s.at + 1) THEN <<>>
                          ELSE <<Node(Area(s.at, 1), Nothing(st), {Area(s.at, 1)})>>]

layoutDir(st, a) == [st |-> st, nodes |-> <<Node(Area(a, 1), Nothing(st), {Area(a, 1)})>>]

--------------------------------------------------------------------------------
(* The process: one task for each global, thread, area, stream and directory. *)

Indices(name, s) == [k \in DOMAIN s |-> <<name, k>>]

\* Globals of system headers that the program does not use are left out.
Tasks ==
    SelectSeq(Indices("global", program.globals), LAMBDA t : program.globals[t[2]].shown)
      \o Indices("function", program.functions)
      \o Indices("static", program.statics) \o Indices("malloc", program.mallocs)
      \o Indices("stream", program.streams) \o Indices("dir", program.dirs)

TaskArea(t) ==
    LET m == IF t[1] = "malloc" THEN program.mallocs[t[2]] ELSE program.statics[t[2]]
    IN  Area(m.start, m.length)

\* What a task may return; the pointer that decides is not always determined.
TaskResults(t) ==
    CASE t[1] = "global" -> {layoutGlobal(store, exp, program.globals[t[2]])}
      [] t[1] = "function" -> {layoutFunction(store, exp, program.functions[t[2]])}
      [] t[1] = "stream" -> {layoutStream(store, exp, program.streams[t[2]])}
      [] t[1] = "dir" -> {layoutDir(store, program.dirs[t[2]])}
      [] t[1] \in {"static", "malloc"} ->
           LET area == TaskArea(t)
           IN  IF References(exp, area) = {} THEN {layoutUnreferencedArea(store, area, t[1] = "malloc")}
               ELSE {layoutArea(store, exp, area, p) : p \in Deciding(store, exp, area)}

Concat(ss) ==
    LET cat[k \in 0 .. Len(ss)] == IF k = 0 THEN <<>> ELSE cat[k - 1] \o ss[k]
    IN  cat[Len(ss)]

AllNodeInfo == Concat([k \in DOMAIN Tasks |-> nodes[Tasks[k]]])

NodeAtNonEmpty(all, a, empty) == {k \in DOMAIN all : Holds(all[k].area, a)}

NodeAt(all, a, empty) ==
    {k \in DOMAIN all : \/ Holds(all[k].area, a)
                        \/ empty /\ all[k].area.end = all[k].area.start /\ all[k].area.start = a}

EdgeOfUnchecked(all, p) ==
    LET tail == First(NodeAt(all, p.at, FALSE))
        head == First(NodeAt(all, getRawValue(p), TRUE))
        pointee == Dereferenced(store, p, 0)
    IN  [ptr |-> p, tail |-> tail, head |-> head, tailPort |-> p \in all[tail].ports,
         headPort |-> IF getDereferenceIndexLimit(p) # 0
                      THEN "value"
                      ELSE IF isValidOpaque(p) /\ getRawValue(p) = all[head].area.start THEN "opaque"
                      ELSE "none",
         pointee |-> IF getDereferenceIndexLimit(p) # 0 THEN pointee ELSE NoValue]

\* renderEdges(), for one pointer: from the first node that covers the pointer to
\* the first that covers what it points to.
EdgeOf(all, p) ==
    LET tail == First(NodeAt(all, p.at, FALSE))
        head == First(NodeAt(all, getRawValue(p), TRUE))
        pointee == Dereferenced(store, p, 0)
    IN  [ptr |-> p, tail |-> tail, head |-> head, tailPort |-> p \in all[tail].ports,
         headPort |-> IF getDereferenceIndexLimit(p) # 0
                      THEN IF pointee \in all[head].ports THEN "value" ELSE "none"
                      ELSE IF isValidOpaque(p) /\ getRawValue(p) = all[head].area.start THEN "opaque"
                      ELSE "none",
         pointee |-> IF getDereferenceIndexLimit(p) # 0 THEN pointee ELSE NoValue]

renderEdges(all) ==
    {EdgeOf(all, p) : p \in {q \in exp.pointers :
        /\ isInMemory(q) /\ getRawValue(q) # 0
        /\ NodeAt(all, getRawValue(q), TRUE) # {} /\ NodeAt(all, q.at, FALSE) # {}}}

--------------------------------------------------------------------------------
(* Steps of the layout, of the user and of the state.                         *)

Cleared == /\ exp' = <<>> /\ nodes' = <<>> /\ edges' = {}

\* What may be in the cells that change.
Contents(cells) == {f \in [DOMAIN cells -> UNION {cells[a] : a \in DOMAIN cells}] :
                        \A a \in DOMAIN cells : f[a] \in cells[a]}

LayoutInit ==
    /\ program \in Programs
    /\ \E some \in Contents(program.cells) : mem = some @@ program.fixed
    /\ store = [a \in DOMAIN mem |-> <<>>]
    /\ phase = "idle" /\ exp = <<>> /\ nodes = <<>> /\ edges = {}
    /\ engines = {} /\ areaTypes = <<>> /\ chosen = NoValue

\* LayoutHandler::doLayout() starts with the expansion.
Expand ==
    /\ phase = "idle"
    /\ exp' = ExpansionOf(store) /\ store' = exp'.st
    /\ phase' = IF exp'.failed THEN "failed" ELSE "layout"
    /\ UNCHANGED <<program, mem, nodes, edges, engines, areaTypes, chosen>>

LayoutTask(t) ==
    /\ phase = "layout" /\ t \notin DOMAIN nodes
    /\ \E r \in TaskResults(t) :
          nodes' = [x \in DOMAIN nodes \cup {t} |-> IF x = t THEN r.nodes ELSE nodes[x]] /\ store' = r.st
    /\ UNCHANGED <<program, mem, phase, exp, edges, engines, areaTypes, chosen>>

\* Reducing the references of an area may dereference a member without a value.
LayoutCrashes(t) ==
    /\ phase = "layout" /\ t \notin DOMAIN nodes /\ t[1] \in {"static", "malloc"}
    /\ LET refs == References(exp, TaskArea(t))
       IN  /\ Cardinality(refs) > 1
           /\ {p \in refs : p.type \in getAreaReferenceType(TaskArea(t))} = {}
           /\ ReductionCrashes(store, refs)
    /\ phase' = "failed"
    /\ UNCHANGED <<program, mem, store, exp, nodes, edges, engines, areaTypes, chosen>>

RenderEdges ==
    /\ phase = "layout" /\ DOMAIN nodes = SeqRange(Tasks)
    /\ edges' = renderEdges(AllNodeInfo) /\ phase' = "drawn"
    /\ UNCHANGED <<program, mem, store, exp, nodes, engines, areaTypes, chosen>>

\* The layout is called off before the edges are drawn.
Cancel ==
    /\ phase = "layout" /\ phase' = "idle" /\ Cleared
    /\ UNCHANGED <<program, mem, store, engines, areaTypes, chosen>>

\* The user chooses once; the graph is laid out again.
NothingChosen == engines = {} /\ chosen = NoValue

setLayoutEngine(v, engine) ==
    /\ phase = "drawn" /\ NothingChosen /\ isInMemory(v)
    /\ canLayout(engine, v) /\ EngineFor(v) # engine
    /\ engines' = {[at |-> v.at, type |-> v.type, engine |-> engine]}
    /\ phase' = "idle" /\ Cleared
    /\ UNCHANGED <<program, mem, store, areaTypes, chosen>>

setAreaEngine(t, p) ==
    /\ phase = "drawn" /\ NothingChosen /\ AreaEngineFor(TaskArea(t), p) = "AreaCString"
    /\ engines' = {[at |-> TaskArea(t).start, type |-> p.type, engine |-> "AreaStandard"]}
    /\ phase' = "idle" /\ Cleared
    /\ UNCHANGED <<program, mem, store, areaTypes, chosen>>

setAreaReference(p) ==
    /\ phase = "drawn" /\ NothingChosen
    /\ areaTypes' = [a \in {getRawValue(p)} |-> p.type] /\ chosen' = p
    /\ phase' = "idle" /\ Cleared
    /\ UNCHANGED <<program, mem, store, engines>>

\* The state moves: something in memory changes, and there is a new store.
cacheClear == store' = NoValues

MoveState ==
    /\ phase = "drawn"
    /\ \E a \in DOMAIN program.cells : \E c \in program.cells[a] :
          c # mem[a] /\ mem' = [mem EXCEPT ![a] = c]
    /\ cacheClear
    /\ phase' = "idle" /\ Cleared
    /\ UNCHANGED <<program, engines, areaTypes, chosen>>

AreaTasks == {t \in SeqRange(Tasks) : t[1] \in {"static", "malloc"}}

LayoutNext ==
    \/ Expand \/ RenderEdges \/ Cancel \/ MoveState
    \/ \E t \in SeqRange(Tasks) : LayoutTask(t) \/ LayoutCrashes(t)
    \/ \E n \in UNION {SeqRange(nodes[t]) : t \in DOMAIN nodes} :
          \E v \in n.cells : \E engine \in SeqRange(ValueEngines) : setLayoutEngine(v, engine)
    \/ \E ed \in edges : setAreaReference(ed.ptr)
    \/ /\ phase = "drawn"
       /\ \E t \in AreaTasks : \E p \in References(exp, TaskArea(t)) : setAreaEngine(t, p)

--------------------------------------------------------------------------------
(* What a drawn graph shows.                                                  *)

Drawn == phase = "drawn"
Cells == UNION {n.cells : n \in SeqRange(AllNodeInfo)}

\* A type that has a part without a value.
RECURSIVE HasGap(_)
HasGap(t) ==
    \/ Class(t) \in {"Vector", "FunctionProto"}
    \/ Class(t) = "Record" /\ \E k \in DOMAIN Fields(t) :
          ~Fields(t)[k].aligned \/ HasGap(Canon(Fields(t)[k].type))
    \/ Class(t) \in ArrayClasses /\ HasGap(Elem(t))

\* The value at a variable's address is of the variable's type, and has a size.
HasItsSize(x, fn) ==
    /\ Class(x.type) # "VariableArray"
    /\ getValue(store, x.at, x.type, fn).v.type = Canon(x.type)

LastHasNoValue ==
    \E f \in SeqRange(program.functions) :
        LET xs == f.params \o f.locals IN xs # <<>> /\ ~HasValue(Canon(xs[Len(xs)].type), TRUE)

\* The types of the layout's variables hold what the code can put there.
LayoutTypeOK ==
    /\ phase \in {"idle", "layout", "drawn", "failed"}
    /\ \A a \in Addresses : \A k, l \in DOMAIN store[a] :
          k < l => ~match(store[a][k].type, store[a][l].type)
    /\ exp # <<>> => \A p \in exp.pointers : Class(p.type) = "Pointer"
    /\ DOMAIN nodes \subseteq SeqRange(Tasks)

\* The search finds every pointer that the variables lead to, in memory or in
\* the value of a statement, and no other; cycles end it.
AllPointersAreFound ==
    exp # <<>> /\ ~exp.failed =>
        exp.pointers = {v \in Reachable(exp.st, Roots(exp.st)) : v # NoValue /\ Kind(v) = "Pointer"}

\* An edge ends at the node of the object that holds the address which is in
\* memory now.  A call whose last variable has no value covers all that lies
\* below it, and takes the edges of other objects.
EdgesLeadToTheirObject ==
    Drawn => \A ed \in edges :
        \/ \E o \in AllNodeInfo[ed.head].owns :
              Holds(o, Byte(ed.ptr.at)) \/ (o.start = o.end /\ o.start = Byte(ed.ptr.at))
        \/ LastHasNoValue

\* What the graph has a node for: the variables that have a value, the blocks,
\* and the streams and directories.
Objects ==
    LET locals == UNION {SeqRange(f.params \o f.locals) : f \in SeqRange(program.functions)}
        globals == {x \in SeqRange(program.globals) : x.shown}
    IN  {VarArea(x) : x \in {y \in locals : HasValue(Canon(y.type), TRUE) /\ HasItsSize(y, TRUE)}
                        \cup {y \in globals : HasItsSize(y, FALSE)}}
          \cup MallocAreas \cup StaticAreas
          \cup {Area(a, 1) : a \in {s.at : s \in SeqRange(program.streams)} \cup SeqRange(program.dirs)}

\* Every pointer in one of the objects to one of them has an edge, which starts
\* where the pointer is.  Variable arrays are left out: what they hold, and what
\* points to them, is shown only if it lies between two other variables.
PointersHaveEdges ==
    Drawn => \A p \in exp.pointers :
        LET target == Byte(p.at)
        IN  /\ isInMemory(p) /\ Init(p.at) /\ target # 0
            /\ \E o \in Objects : Holds(o, p.at)
            /\ \E o \in Objects : Holds(o, target) \/ (o.start = o.end /\ o.start = target)
            => \E ed \in edges :
                  /\ ed.ptr = p
                  /\ LastHasNoValue \/ \E o \in AllNodeInfo[ed.tail].owns : Holds(o, p.at)

\* Edges name cells that are written in their nodes.  A string that holds the
\* pointer it is shown by is the exception: it has a port, but no cell.
PortsAreWritten ==
    Drawn => \A ed \in edges :
        /\ ed.tailPort => \/ ed.ptr \in AllNodeInfo[ed.tail].cells
                          \/ isCharType(Elem(ed.ptr.type)) /\ Holds(AllNodeInfo[ed.tail].area, getRawValue(ed.ptr))
        /\ ed.headPort = "value" => \/ ed.pointee \in AllNodeInfo[ed.head].cells
                                    \/ Kind(ed.pointee) = "Pointer" /\ isCharType(Elem(ed.pointee.type))
        /\ ed.headPort = "opaque" => AllNodeInfo[ed.head].cells = {}

\* An area whose pointers are all of one type and lead to the same values is
\* shown so that every edge into it ends at the value it points to.
TypedEdgesAreSolid ==
    Drawn => \A ed \in edges : \A t \in AreaTasks :
        LET area == TaskArea(t)
            refs == References(exp, area)
        IN  /\ Holds(area, getRawValue(ed.ptr)) /\ getDereferenceIndexLimit(ed.ptr) # 0
            /\ \A p, q \in refs : p.type = q.type /\ (p = q \/ doReferenceSameValue(store, p, q))
            /\ ~LastHasNoValue
            => ed.headPort = "value"

\* An area is shown from the first thing in it that is pointed to, among the
\* pointers that decide.  A pointer to void or to an incomplete type among the
\* others leaves it open which of them comes first.
ShownFromTheFirst ==
    Drawn => \A t \in AreaTasks :
        LET area == TaskArea(t)
            refs == References(exp, area)
        IN  \/ Cardinality(refs) < 2 \/ Mixes(refs) \/ chosen # NoValue
            \/ \E p \in Lowest(reduceReferences(store, refs)) :
                  getDereferenceIndexLimit(p) = 0 \/ Dereferenced(store, p, 0) \in nodes[t][1].cells

\* The characters of a string are shown up to its end.  A zero that was never
\* written hides what follows it in an array.
StringsAreShown ==
    Drawn => \A v \in Cells :
        Kind(v) = "Array" /\ isCharType(Elem(v.type)) /\ EngineFor(v) = "CString" =>
            \A i \in 0 .. (getChildCount(store, v) - 1) :
                LET before == {ChildAt(store, v, k) : k \in 0 .. (i - 1)}
                IN  \/ ChildAt(store, v, i) \in Cells
                    \/ \E c \in before : isZero(c)

\* Elements that are left out hold nothing, and nothing points into them.
OnlyEmptyIsElided ==
    Drawn => \A v \in Cells :
        Kind(v) = "Array" /\ EngineFor(v) = "ElideUninitOrZero" =>
            \A i \in 0 .. (getChildCount(store, v) - 1) :
                LET c == ChildAt(store, v, i)
                IN  \/ c = NoValue \/ c \in Cells
                    \/ /\ \A a \in Bytes(c) : ~(Init(a) /\ Byte(a) # 0)
                       /\ \A ed \in edges : ~(getRawValue(ed.ptr) \in Bytes(c))

\* The arrays among the variables are shown with all their elements, unless
\* another unit's array of another size was created at their address first.
ArraysAreWhole ==
    Drawn => \A f \in SeqRange(program.functions) : \A x \in SeqRange(f.params \o f.locals) :
        LET t == Canon(x.type)
            v == getValue(store, x.at, t, TRUE).v
        IN  Class(t) \in ArrayClasses /\ HasValue(t, TRUE) =>
                \/ v.type # t
                \/ getChildCount(store, v) * ElementSize(t, TRUE) = VarArea(x).end - VarArea(x).start

\* The pointer that the user chose decides about its area, if it points to the
\* start of it; the choice is lost if it points inside.
ChoiceIsKept ==
    Drawn /\ chosen # NoValue => \A t \in AreaTasks :
        LET refs == References(exp, TaskArea(t))
        IN  /\ Holds(TaskArea(t), getRawValue(chosen)) /\ Cardinality(refs) > 1
            /\ \E p \in refs : p.type = chosen.type
            /\ getRawValue(chosen) = TaskArea(t).start
            => \E p \in refs : /\ p.type = chosen.type
                               /\ \/ getDereferenceIndexLimit(p) = 0
                                  \/ Dereferenced(store, p, 0) \in nodes[t][1].cells

\* The layout fails only where a member or a global has no value: a bit-field
\* that does not start at a byte, or a vector.
FailuresHaveGaps ==
    phase = "failed" =>
        \/ \E x \in SeqRange(program.globals) : HasGap(x.type)
        \/ \E v \in Reachable(exp.st, Roots(exp.st)) \ {NoValue} : HasGap(v.type)

\* The graph has an edge for every pointer that the variables lead to, from the
\* object that the pointer is in to the one it points to, as long as neither is
\* an array whose size is known at run time only.
EdgesAreTrue == LayoutTypeOK /\ AllPointersAreFound /\ PointersHaveEdges /\ EdgesLeadToTheirObject

\* The areas are shown as their pointers call for, and the edges attached to what
\* is shown.
LayoutFollowsPointers ==
    PortsAreWritten /\ TypedEdgesAreSolid /\ ShownFromTheFirst /\ ChoiceIsKept /\ FailuresHaveGaps

\* What the nodes leave out of strings and arrays is not needed.
ContentsAreShown == StringsAreShown /\ OnlyEmptyIsElided /\ ArraysAreWhole
================================================================================
