---------------------------- MODULE ProcessState ----------------------------
(***************************************************************************)
(* The part of the recreated state that the threads of a process share      *)
(* (lib/Trace/ProcessState.cpp, lib/Trace/StreamState.cpp), as operators on *)
(* a record.  The memory is the sequence of the changes that have been made *)
(* to it: MemoryState shows that whatever is taken back in reverse order is *)
(* undone exactly, so the users of the memory owe it that order, and "ok"   *)
(* is FALSE once they break it or fail another assertion of the code.       *)
(***************************************************************************)
EXTENDS FunctionState

CONSTANTS
  Globals,         \* the areas of the global variables, [address, size]
  Stdin, Stdout, Stderr   \* the addresses of the standard streams

InitialStream(address, name) ==
  [address |-> address, name |-> name, written |-> <<>>, writes |-> <<>>]

\* The streams that are open from the start.
StandardStreams == [a \in {Stdin, Stdout, Stderr} |-> InitialStream(a, "standard")]

-----------------------------------------------------------------------------
(***************************************************************************)
(* The memory.                                                              *)
(***************************************************************************)
Change(op, area) == [op |-> op, address |-> area.address, size |-> area.size]
Area(address, size) == [address |-> address, size |-> size]

ChangeMemory(s, change) == [s EXCEPT !.memory = Append(@, change)]
ChangeAll(s, op, areas) ==
  FoldLeft(LAMBDA t, a : ChangeMemory(t, Change(op, a)), s, areas)

\* Take back a change, which has to be the latest one.
UndoChange(s, change) ==
  IF s.memory # <<>> /\ Last(s.memory) = change
  THEN [s EXCEPT !.memory = Front(@)]
  ELSE [s EXCEPT !.ok = FALSE]
UndoAll(s, op, areas) ==
  FoldLeft(LAMBDA t, a : UndoChange(t, Change(op, a)), s, areas)

\* A global that lies in an earlier one is left out; one that covers an
\* earlier one at the same place replaces it.
AddGlobal(memory, g) ==
  LET prior == {c \in ToSet(memory) : c.op = "add" /\ AreaContains(c, g.address)
                                      /\ Change("remove", c) \notin ToSet(memory)}
      within == \E c \in prior : g.address + g.size <= c.address + c.size
  IN  IF within THEN memory
      ELSE memory \o [k \in 1..Cardinality(prior) |-> Change("remove", CHOOSE c \in prior : TRUE)]
                  \o <<Change("add", g), Change("block", g)>>

InitialProcessState ==
  [processTime     |-> 0,              \* the process time of this state
   mallocs         |-> <<>>,           \* address -> [address, size, allocators]
   previousMallocs |-> <<>>,
   memory          |-> FoldLeft(AddGlobal, <<>>, Globals),
   known           |-> <<>>,           \* items of a map of intervals
   streams         |-> StandardStreams,
   streamsClosed   |-> <<>>,
   dirs            |-> <<>>,           \* address -> name
   ok              |-> TRUE]

Check(s, condition) == IF condition THEN s ELSE [s EXCEPT !.ok = FALSE]
Delete(f, x) == [z \in DOMAIN f \ {x} |-> f[z]]

-----------------------------------------------------------------------------
(***************************************************************************)
(* Dynamic memory allocations.                                              *)
(***************************************************************************)
MallocState(address, size, allocator) ==
  [address |-> address, size |-> size, allocators |-> <<allocator>>]

addMalloc(s, address, size, allocator) ==
  IF address \in DOMAIN s.mallocs THEN s
  ELSE [s EXCEPT !.mallocs = Override(@, address, MallocState(address, size, allocator))]

unaddMalloc(s, address) ==
  [Check(s, address \in DOMAIN s.mallocs) EXCEPT !.mallocs = Delete(@, address)]

removeMalloc(s, address) ==
  [s EXCEPT !.previousMallocs = Append(@, s.mallocs[address]),
            !.mallocs = Delete(@, address)]

unremoveMalloc(s, address) ==
  LET t == Check(s, s.previousMallocs # <<>> /\ Last(s.previousMallocs).address = address)
  IN  IF ~t.ok THEN t
      ELSE [t EXCEPT !.mallocs = Override(@, address, Last(s.previousMallocs)),
                     !.previousMallocs = Front(@)]

-----------------------------------------------------------------------------
(***************************************************************************)
(* Regions that are known to be accessible, in a map of intervals.          *)
(***************************************************************************)
Map == INSTANCE IntervalMapVector

addKnownMemory(s, address, size, access) ==
  [s EXCEPT !.known = Map!insert(@, Map!Item(address, address + (size - 1), access))]

removeKnownMemory(s, address) == [s EXCEPT !.known = Map!erase(@, address)]

KnownAreas(s) == {Area(k.Begin, (k.End - k.Begin) + 1) : k \in ToSet(s.known)}

\* The start of the global variable, the dynamic allocation or the known
\* region that contains an address.  Of the allocations, only the last one
\* that does not begin after the address is looked at.
SharedAreaAt(s, address, notAfter) ==
  LET InGlobal == SelectSeq(Globals, LAMBDA g : AreaContains(g, address))
      In(S)    == {a \in S : AreaContains(a, address)}
      InMalloc == IF notAfter = {} THEN {} ELSE In({s.mallocs[Max(notAfter)]})
      k        == Map!find(s.known, address)
  IN  CASE InGlobal # <<>> -> Head(InGlobal).address
        [] InGlobal = <<>> /\ InMalloc # {} -> Max(notAfter)
        [] InGlobal = <<>> /\ InMalloc = {} -> IF k = Map!End THEN None ELSE s.known[k].Begin

\* Mutant: an allocation that begins at the address is passed over.
sharedMemoryAreaAfter(s, address) ==
  SharedAreaAt(s, address, {a \in DOMAIN s.mallocs : a < address})

getSharedMemoryArea(s, address) ==
  SharedAreaAt(s, address, {a \in DOMAIN s.mallocs : a <= address})

-----------------------------------------------------------------------------
(***************************************************************************)
(* Streams and directories.                                                 *)
(***************************************************************************)
addStream(s, address, name) ==
  IF address \in DOMAIN s.streams THEN s
  ELSE [s EXCEPT !.streams = Override(@, address, InitialStream(address, name))]

removeStream(s, address) == [s EXCEPT !.streams = Delete(@, address)]

closeStream(s, address) ==
  IF address \notin DOMAIN s.streams THEN s
  ELSE [s EXCEPT !.streamsClosed = Append(@, s.streams[address]),
                 !.streams = Delete(@, address)]

restoreStream(s, address) ==
  LET t == Check(s, s.streamsClosed # <<>> /\ Last(s.streamsClosed).address = address)
  IN  IF ~t.ok THEN t
      ELSE [t EXCEPT !.streams = Override(@, address, Last(s.streamsClosed)),
                     !.streamsClosed = Front(@)]

\* The length of the stream after each write is kept.
write(s, address, data) ==
  LET t == Check(s, address \in DOMAIN s.streams)
  IN  IF ~t.ok THEN t
      ELSE [t EXCEPT !.streams[address].written = @ \o data,
                     !.streams[address].writes =
                        Append(@, Len(s.streams[address].written) + Len(data))]

unwrite(s, address, size) ==
  LET t == Check(s, address \in DOMAIN s.streams
                     /\ Len(s.streams[address].written) >= size)
  IN  IF ~t.ok THEN t
      ELSE [t EXCEPT !.streams[address].written = SubSeq(@, 1, Len(@) - size),
                     !.streams[address].writes = Front(@)]

\* The write that a position of the stream's text is part of.
getWriteAt(stream, position) ==
  LET k == SelectInSeq(stream.writes, LAMBDA length : position < length)
  IN  [begin |-> IF k = 1 THEN 0 ELSE stream.writes[k - 1], end |-> stream.writes[k]]

addDir(s, address, name) ==
  IF address \in DOMAIN s.dirs THEN s
  ELSE [s EXCEPT !.dirs = Override(@, address, name)]

removeDir(s, address) == [s EXCEPT !.dirs = Delete(@, address)]

=============================================================================
