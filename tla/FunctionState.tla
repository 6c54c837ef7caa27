--------------------------- MODULE FunctionState ---------------------------
(***************************************************************************)
(* The recreated state of one invocation of a function                      *)
(* (lib/Trace/FunctionState.cpp) and the values of its instructions         *)
(* (lib/Trace/BlockValueStore.cpp), as operators on a record.               *)
(*                                                                         *)
(* Instructions are numbered from 1 in the order of the function's layout,  *)
(* and so are its basic blocks.  All functions have the same code here.     *)
(***************************************************************************)
EXTENDS Integers, Sequences, SequencesExt, FiniteSetsExt, Graphs

CONSTANTS
  BlockOf,      \* the block of each instruction
  TypeOf,       \* "void", "int", "ptr" or "longdouble": what it computes
  Follows,   \* the control flow: the blocks that may follow each block
  DeclareOf     \* the llvm.dbg.declare of an alloca, if there is one

Instructions == DOMAIN BlockOf
Blocks       == DOMAIN Follows
None         == 0

ASSUME CodeAssumption ==
  /\ Instructions = 1..Cardinality(Instructions)
  /\ Blocks = 1..Cardinality(Blocks)
  /\ BlockOf \in [Instructions -> Blocks]
  /\ \A i, j \in Instructions : i < j => BlockOf[i] <= BlockOf[j]
  /\ TypeOf \in [Instructions -> {"void", "int", "ptr", "longdouble"}]
  /\ Follows \in [Blocks -> SUBSET Blocks]
  /\ DeclareOf \in [Instructions -> Instructions \cup {None}]

-----------------------------------------------------------------------------
(***************************************************************************)
(* The state of a new invocation, whose FunctionStart is at position start  *)
(* of the thread's events.                                                  *)
(***************************************************************************)
NewFunctionState(start) ==
  [start          |-> start,
   active         |-> None,      \* ActiveInstruction
   complete       |-> FALSE,     \* ActiveInstructionComplete
   allocas        |-> <<>>,      \* [instr, address, size]
   byvals         |-> <<>>,      \* [arg, address, size]
   errors         |-> <<>>,      \* [error, instr, time]
   activeBlocks   |-> <<>>,      \* block -> (instruction -> value)
   backwardsJumps |-> <<>>,      \* [FromBlock, NumCleared]
   clearedBlocks  |-> <<>>]      \* <<block, (instruction -> value)>>

Override(f, x, y) == [z \in DOMAIN f \cup {x} |-> IF z = x THEN y ELSE f[z]]

EmptyStore == <<>>

MaxOr(S) == IF S = {} THEN None ELSE Max(S)

\* The elements of a set of positive numbers, in order.
InOrder(S) ==
  SelectSeq([k \in 1..Max(S \cup {0}) |-> k], LAMBDA k : k \in S)

(***************************************************************************)
(* Before the state moves forward to instruction i: a jump backwards clears *)
(* the active blocks that it jumps over, up to block last, and records how  *)
(* many there were.  The block of i becomes active.                         *)
(***************************************************************************)
ForwardingOver(f, i, last) ==
  LET back == f.active # None /\ i < f.active
      over == IF back
              THEN InOrder({b \in DOMAIN f.activeBlocks : b \in BlockOf[i]..last})
              ELSE <<>>
      kept == [b \in DOMAIN f.activeBlocks \ ToSet(over) |-> f.activeBlocks[b]]
  IN  [f EXCEPT
        !.clearedBlocks  = @ \o [k \in DOMAIN over |-> <<over[k], f.activeBlocks[over[k]]>>],
        !.backwardsJumps = IF back
                           THEN Append(@, [FromBlock  |-> BlockOf[f.active],
                                           NumCleared |-> Len(over)])
                           ELSE @,
        !.activeBlocks   = IF BlockOf[i] \in DOMAIN kept
                           THEN kept ELSE Override(kept, BlockOf[i], EmptyStore)]

\* The last block that is cleared is the current one.
ActiveBlock(f) == IF f.active = None THEN None ELSE BlockOf[f.active]

forwardingToInstruction(f, i) == ForwardingOver(f, i, ActiveBlock(f))

\* What rewindingToInstruction asserts, and what it takes from the vectors.
CanRewindTo(f, i) ==
  f.active < i =>
    /\ f.backwardsJumps # <<>>
    /\ Last(f.backwardsJumps).FromBlock = BlockOf[i]
    /\ Last(f.backwardsJumps).NumCleared <= Len(f.clearedBlocks)

\* (Blocks that have become active again keep the values of that iteration.)
rewindingInserts(f, i) ==
  IF f.active >= i THEN f
  ELSE LET keep == Len(f.clearedBlocks) - Last(f.backwardsJumps).NumCleared
           back == SubSeq(f.clearedBlocks, keep + 1, Len(f.clearedBlocks))
       IN  [f EXCEPT !.activeBlocks   = FoldLeft(LAMBDA bs, r : IF r[1] \in DOMAIN bs THEN bs
                                                               ELSE Override(bs, r[1], r[2]),
                                                 @, Reverse(back)),
                     !.clearedBlocks  = SubSeq(@, 1, keep),
                     !.backwardsJumps = Front(@)]

\* Before the state moves back to instruction i: if it moves back over a
\* jump backwards, the blocks that the jump cleared become active again.
rewindingToInstruction(f, i) ==
  IF f.active >= i THEN f
  ELSE LET keep == Len(f.clearedBlocks) - Last(f.backwardsJumps).NumCleared
           back == SubSeq(f.clearedBlocks, keep + 1, Len(f.clearedBlocks))
       IN  [f EXCEPT !.activeBlocks   = FoldLeft(LAMBDA bs, r : Override(bs, r[1], r[2]),
                                                 @, Reverse(back)),
                     !.clearedBlocks  = SubSeq(@, 1, keep),
                     !.backwardsJumps = Front(@)]

setActiveInstructionComplete(f, i)   == [f EXCEPT !.active = i, !.complete = TRUE]
setActiveInstructionIncomplete(f, i) == [f EXCEPT !.active = i, !.complete = FALSE]
clearActiveInstruction(f)            == [f EXCEPT !.active = None]

-----------------------------------------------------------------------------
(***************************************************************************)
(* Run-time values.  A store keeps the first value that is set, except for  *)
(* a long double; that a second one is equal is asserted.                   *)
(***************************************************************************)
StoreOf(f, i)     == f.activeBlocks[BlockOf[i]]
ValueMatches(f, i, value) ==
  i \in DOMAIN StoreOf(f, i) /\ TypeOf[i] # "longdouble" => StoreOf(f, i)[i] = value

setValue(f, i, value) ==
  IF i \in DOMAIN StoreOf(f, i) /\ TypeOf[i] # "longdouble"
  THEN f
  ELSE [f EXCEPT !.activeBlocks[BlockOf[i]] = Override(@, i, value)]

\* Is i before the active instruction in the layout of the function?
isDominatedByActive(f, i) ==
  /\ f.active # None
  /\ \/ i < f.active
     \/ i = f.active /\ f.complete

hasValue(f, i) ==
  /\ isDominatedByActive(f, i)
  /\ TypeOf[i] # "void"
  /\ BlockOf[i] \in DOMAIN f.activeBlocks
  /\ i \in DOMAIN StoreOf(f, i)

getValue(f, i) == StoreOf(f, i)[i]

\* What a viewer can ask for: the value of every instruction that has one.
Values(f) == {<<i, getValue(f, i)>> : i \in {j \in Instructions : hasValue(f, j)}}

-----------------------------------------------------------------------------
(***************************************************************************)
(* Allocas, byval parameters and run-time errors.                           *)
(***************************************************************************)
addAlloca(f, i, address, size) ==
  [f EXCEPT !.allocas = Append(@, [instr |-> i, address |-> address, size |-> size])]

\* An alloca is not shown before its declaration, unless that is next.
getVisibleAllocas(f) ==
  IF f.active = None THEN <<>>
  ELSE SelectSeq(f.allocas, LAMBDA a : DeclareOf[a.instr] <= f.active + 1)

addByValArea(f, arg, address, size) ==
  [f EXCEPT !.byvals = Append(@, [arg |-> arg, address |-> address, size |-> size])]

AreaContains(area, address) ==
  area.address <= address /\ address < area.address + area.size

removeByValArea(f, address) ==
  LET k == SelectInSeq(f.byvals, LAMBDA p : AreaContains(p, address))
  IN  IF k = 0 THEN f ELSE [f EXCEPT !.byvals = RemoveAt(@, k)]

\* The area of the stack that contains the address, or None.
getContainingMemoryArea(f, address) ==
  LET Areas == f.allocas \o f.byvals
      k     == SelectInSeq(Areas, LAMBDA a : AreaContains(a, address))
  IN  IF k = 0 THEN None ELSE Areas[k].address

addRuntimeError(f, error, time) ==
  [f EXCEPT !.errors = Append(@, [error |-> error, instr |-> f.active, time |-> time])]

removeLastRuntimeError(f) == [f EXCEPT !.errors = Front(@)]

-----------------------------------------------------------------------------
(***************************************************************************)
(* The control flow, for the properties: block b dominates block c if every *)
(* path from the first block to c goes through b.                           *)
(***************************************************************************)
Flow(removed) == [node |-> Blocks \ removed,
                  edge |-> {e \in (Blocks \ removed) \X (Blocks \ removed) :
                              e[2] \in Follows[e[1]]}]

Dominators ==
  [c \in Blocks |-> {b \in Blocks :
     b \in {1, c} \/ ~ConnectionsIn(Flow({b}))[1, c]}]

=============================================================================
