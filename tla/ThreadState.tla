---------------------------- MODULE ThreadState ----------------------------
(***************************************************************************)
(* Replay of the events of one thread (lib/Trace/ThreadState.cpp).  Each    *)
(* event that was recorded can be added to the state and removed from it,   *)
(* and the state is to depend on the position only: not on the way that     *)
(* led there.                                                               *)
(*                                                                         *)
(* StateMovement models which event of which thread is next; here the other *)
(* threads show in the process times that they use up.                      *)
(***************************************************************************)
EXTENDS ProcessState

CONSTANTS
  Addresses,     \* of dynamic memory, known regions, streams and directories
  ValueSet,      \* the values of instructions
  MaxEvents,     \* bound on the events of a recording, for each profile
  MaxDepth,      \* bound on the depth of the call stack
  MaxErrors,     \* bound on the run-time errors of a recording
  MaxKept,       \* bound on what going back may leave behind
  Profiles       \* which kinds of recordings are made

ASSUME ThreadConstants ==
  /\ Addresses \subseteq Nat \ {0} /\ IsFiniteSet(Addresses)
  /\ ValueSet \subseteq Nat
  /\ {MaxDepth, MaxErrors, MaxKept} \subseteq Nat
  /\ MaxEvents \in [Profiles -> Nat]
  /\ Profiles \subseteq {"control", "stack", "heap", "files"}

VARIABLES
  profile,       \* the kind of this recording
  trace,         \* the recorded events, as far as they have been decided
  next,          \* position of the next event: m_NextEvent
  state          \* the recreated state

vars == <<profile, trace, next, state>>

-----------------------------------------------------------------------------
(***************************************************************************)
(* Searching the events.                                                    *)
(***************************************************************************)
InstructionTypes == {"PreInstruction", "Instruction", "InstructionWithUInt",
                     "InstructionWithPtr", "InstructionWithLongDouble"}
isInstruction(e)  == e.type \in InstructionTypes
hasProcessTime(e) == "time" \in DOMAIN e

OfType(tr, types)  == {k \in DOMAIN tr : tr[k].type \in types}
InstructionsOf(tr) == OfType(tr, InstructionTypes)
TimedEvents(tr)    == {k \in DOMAIN tr : hasProcessTime(tr[k])}

\* The last event before position n that is one of the given ones.
rfind(n, events) == MaxOr(events \cap 1..(n - 1))

\* The end of the invocation that starts at position p.
EventEnd(tr, p) ==
  CHOOSE q \in p..Len(tr) : tr[q].type = "FunctionEnd" /\ tr[q].start = p

\* Invocations that are over before position n, and the one that n belongs to.
Over(tr, n) == {q \in 1..(n - 1) : tr[q].type = "FunctionEnd"}
Invocation(tr, n) ==
  MaxOr({p \in 1..(n - 1) : /\ tr[p].type = "FunctionStart"
                            /\ \A q \in Over(tr, n) : tr[q].start # p})

\* The events before n of the invocation that n belongs to, its callees left
\* out; with the starts of callees.
OwnEvents(tr, n) ==
  {k \in (Invocation(tr, n) + 1)..(n - 1) :
     \A q \in Over(tr, n) : tr[q].start > Invocation(tr, n) => k < tr[q].start \/ q < k}
Callees(tr, n) ==
  {p \in (Invocation(tr, n) + 1)..(n - 1) :
     /\ tr[p].type = "FunctionStart"
     /\ \A q \in Over(tr, n) : tr[q].start > Invocation(tr, n) => p <= tr[q].start \/ q < p}

rfindInFunction(tr, n, events) == MaxOr(events \cap OwnEvents(tr, n))

\* The consecutive events of a type from position k on.
getLeadingBlock(tr, k, type) ==
  {j \in k..Len(tr) : \A m \in k..j : tr[m].type = type}

-----------------------------------------------------------------------------
(***************************************************************************)
(* The state: that of the process, and of the thread.                       *)
(***************************************************************************)
InitialState ==
  [thread  |-> [stack |-> <<>>, time |-> 0, processTime |-> 0],
   process |-> InitialProcessState]

Top(s)        == Last(s.thread.stack)
SetTop(s, f)  == [s EXCEPT !.thread.stack = Append(Front(@), f)]
Tick(s)       == [s EXCEPT !.thread.time = @ + 1]
Untick(s)     == [s EXCEPT !.thread.time = @ - 1]
Process(s, p) == [s EXCEPT !.process = p]
Mismatch(s)   == [s EXCEPT !.process.ok = FALSE]

\* Most events that change the shared state carry its process time.
AtTime(s, time) == [s EXCEPT !.process.processTime = time, !.thread.processTime = time]

\* The area that contains an address: shared, or on the stack.
getMemoryArea(s, address) ==
  LET OnStack == MaxOr({getContainingMemoryArea(s.thread.stack[k], address) :
                          k \in DOMAIN s.thread.stack})
  IN  IF getSharedMemoryArea(s.process, address) # None
      THEN getSharedMemoryArea(s.process, address) ELSE OnStack

-----------------------------------------------------------------------------
(***************************************************************************)
(* readdEvent: what an event does to the function's own state.              *)
(***************************************************************************)
readdPreInstruction(s, e) == SetTop(s, setActiveInstructionIncomplete(Top(s), e.index))
readdInstruction(s, e)    == SetTop(s, setActiveInstructionComplete(Top(s), e.index))

readdInstructionWith(s, e) ==
  LET t == IF ValueMatches(Top(s), e.index, e.value) THEN s ELSE Mismatch(s)
  IN  SetTop(t, setActiveInstructionComplete(setValue(Top(t), e.index, e.value), e.index))

\* The address is the value of the latest InstructionWithPtr.
PtrBefore(tr, n) == tr[rfind(n + 1, OfType(tr, {"InstructionWithPtr"}))]

readdAlloca(s, tr, n) ==
  SetTop(s, addAlloca(Top(s), PtrBefore(tr, n).index, PtrBefore(tr, n).value, tr[n].size))

\* The allocas are those that the records after the StackRestore refer to.
readdStackRestore(s, tr, n) ==
  FoldLeft(LAMBDA t, k : readdAlloca(t, tr, tr[k].alloca),
           SetTop(s, [Top(s) EXCEPT !.allocas = <<>>]),
           InOrder(getLeadingBlock(tr, n + 1, "StackRestoreAlloca")))

readdByValRegionAdd(s, e) == SetTop(s, addByValArea(Top(s), e.arg, e.address, e.size))

-----------------------------------------------------------------------------
(***************************************************************************)
(* addEvent.                                                                *)
(***************************************************************************)
addFunctionStart(s, tr, n) ==
  [s EXCEPT !.thread.stack = Append(@, NewFunctionState(n)),
            !.thread.time = tr[n].entered]

\* The function's memory is released: byval parameters, then allocas.
addFunctionEnd(s, tr, n) ==
  LET p == ChangeAll(ChangeAll(s.process, "remove", Top(s).byvals), "remove", Top(s).allocas)
  IN  [Process(s, p) EXCEPT !.thread.stack = Front(@), !.thread.time = tr[n].exited]

addNewProcessTime(s, e) == [s EXCEPT !.thread.processTime = e.time]

Forwarding(s, e) == SetTop(s, forwardingToInstruction(Top(s), e.index))
addPreInstruction(s, e)  == Tick(readdPreInstruction(Forwarding(s, e), e))
addInstruction(s, e)     == Tick(readdInstruction(Forwarding(s, e), e))
addInstructionWith(s, e) == Tick(readdInstructionWith(Forwarding(s, e), e))

\* The position of the first element in which post differs from pre.
MismatchAt(post, pre) ==
  Min({k \in 1..Len(post) : k > Len(pre) \/ post[k] # pre[k]} \cup {Len(post) + 1})

\* The allocas that are no longer there are removed from the memory.
addStackRestore(s, tr, n) ==
  LET pre == Top(s).allocas
      t   == readdStackRestore(s, tr, n)
      gone == SubSeq(pre, MismatchAt(Top(t).allocas, pre), Len(pre))
  IN  Process(t, ChangeAll(t.process, "remove", gone))

addAllocaEvent(s, tr, n) ==
  LET t == readdAlloca(s, tr, n)
  IN  Process(t, ChangeMemory(t.process, Change("add", Last(Top(t).allocas))))

addMallocEvent(s, tr, n) ==
  LET address == PtrBefore(tr, n).value
      p == addMalloc(s.process, address, tr[n].size, PtrBefore(tr, n).index)
  IN  AtTime(Process(s, ChangeMemory(p, Change("add", Area(address, tr[n].size)))), tr[n].time)

addFree(s, e) ==
  LET area == s.process.mallocs[e.address]
  IN  AtTime(Process(s, ChangeMemory(removeMalloc(s.process, e.address),
                                     Change("remove", area))), e.time)

Resize(e) == [op |-> "resize", address |-> e.address, from |-> e.old, to |-> e.new]

addRealloc(s, e) ==
  LET p == [s.process EXCEPT !.mallocs[e.address].allocators = Append(@, Top(s).active),
                             !.mallocs[e.address].size = e.new]
  IN  AtTime(Process(s, ChangeMemory(p, Resize(e))), e.time)

\* A block that is written, copied or cleared.
addStateUntyped(s, e) == AtTime(Process(s, ChangeMemory(s.process, Change("block", e))), e.time)
addStateMemmove(s, e) == AtTime(Process(s, ChangeMemory(s.process, Change("copy", e))), e.time)
addStateClear(s, e)   == AtTime(Process(s, ChangeMemory(s.process, Change("clear", e))), e.time)

addKnownRegionAdd(s, e) ==
  Process(s, ChangeMemory(addKnownMemory(s.process, e.address, e.size, e.access),
                          Change("add", e)))
addKnownRegionRemove(s, e) ==
  Process(s, ChangeMemory(removeKnownMemory(s.process, e.address), Change("remove", e)))

addByValRegionAdd(s, e) ==
  LET t == readdByValRegionAdd(s, e)
  IN  Process(t, ChangeMemory(t.process, Change("add", e)))

addFileOpen(s, e)  == AtTime(Process(s, addStream(s.process, e.file, e.name)), e.time)
addFileWrite(s, e) == AtTime(Process(s, write(s.process, e.file, e.data)), e.time)

\* What is written is read from the memory: as many bytes as the area has.
addFileWriteFromMemory(s, e) ==
  AtTime(Process(s, write(s.process, e.file, [k \in 1..e.size |-> Len(s.process.memory)])),
         e.time)

addFileClose(s, e) == AtTime(Process(s, closeStream(s.process, e.file)), e.time)
addDirOpen(s, e)   == AtTime(Process(s, addDir(s.process, e.dir, e.name)), e.time)
addDirClose(s, e)  == AtTime(Process(s, removeDir(s.process, e.dir)), e.time)

addRuntimeErrorEvent(s, e) == SetTop(s, addRuntimeError(Top(s), e.error, s.thread.time))

addEvent(s, tr, n) ==
  LET e == tr[n]
  IN  CASE e.type = "FunctionStart"        -> addFunctionStart(s, tr, n)
        [] e.type = "FunctionEnd"          -> addFunctionEnd(s, tr, n)
        [] e.type = "NewProcessTime"       -> addNewProcessTime(s, e)
        [] e.type = "NewThreadTime"        -> Tick(s)
        [] e.type = "PreInstruction"       -> addPreInstruction(s, e)
        [] e.type = "Instruction"          -> addInstruction(s, e)
        [] e.type \in {"InstructionWithUInt", "InstructionWithPtr",
                       "InstructionWithLongDouble"} -> addInstructionWith(s, e)
        [] e.type = "StackRestore"         -> addStackRestore(s, tr, n)
        [] e.type = "Alloca"               -> addAllocaEvent(s, tr, n)
        [] e.type = "Malloc"               -> addMallocEvent(s, tr, n)
        [] e.type = "Free"                 -> addFree(s, e)
        [] e.type = "Realloc"              -> addRealloc(s, e)
        [] e.type = "StateUntyped"         -> addStateUntyped(s, e)
        [] e.type = "StateMemmove"         -> addStateMemmove(s, e)
        [] e.type = "StateClear"           -> addStateClear(s, e)
        [] e.type = "KnownRegionAdd"       -> addKnownRegionAdd(s, e)
        [] e.type = "KnownRegionRemove"    -> addKnownRegionRemove(s, e)
        [] e.type = "ByValRegionAdd"       -> addByValRegionAdd(s, e)
        [] e.type = "FileOpen"             -> addFileOpen(s, e)
        [] e.type = "FileWrite"            -> addFileWrite(s, e)
        [] e.type = "FileWriteFromMemory"  -> addFileWriteFromMemory(s, e)
        [] e.type = "FileClose"            -> addFileClose(s, e)
        [] e.type = "DirOpen"              -> addDirOpen(s, e)
        [] e.type = "DirClose"             -> addDirClose(s, e)
        [] e.type = "RuntimeError"         -> addRuntimeErrorEvent(s, e)
        [] e.type \in {"StackRestoreAlloca", "TraceEnd"} -> s

-----------------------------------------------------------------------------
(***************************************************************************)
(* removeEvent.                                                             *)
(***************************************************************************)
\* All errors between the two instructions are added again.
ReaddErrors(s, tr, k, n) ==
  FoldLeft(LAMBDA t, j : IF tr[j].type = "RuntimeError"
                         THEN addRuntimeErrorEvent(t, tr[j]) ELSE t,
           s, [j \in 1..(n - k) |-> k + j - 1])

makePreviousInstructionActive(s, tr, n) ==
  LET k == rfindInFunction(tr, n, InstructionsOf(tr))
      f == Top(s)
      t == IF CanRewindTo(f, tr[k].index) THEN s ELSE Mismatch(s)
      g == rewindingToInstruction(f, tr[k].index)
  IN  IF k = None THEN SetTop(s, clearActiveInstruction(f))
      ELSE IF ~t.process.ok THEN t
      ELSE ReaddErrors(SetTop(s, IF tr[k].type = "PreInstruction"
                                 THEN setActiveInstructionIncomplete(g, tr[k].index)
                                 ELSE setActiveInstructionComplete(g, tr[k].index)),
                       tr, k, n)

\* Mutant: the process time of this very event counts as an earlier one.
setProcessTimeIncluding(s, tr, n) ==
  LET k == rfind(n + 1, TimedEvents(tr))
  IN  [s EXCEPT !.thread.processTime = IF k = None THEN 0 ELSE tr[k].time]

setPreviousViewOfProcessTime(s, tr, n) ==
  LET k == rfind(n, TimedEvents(tr))
  IN  [s EXCEPT !.thread.processTime = IF k = None THEN 0 ELSE tr[k].time]

BeforeTime(s, tr, n) ==
  setPreviousViewOfProcessTime([s EXCEPT !.process.processTime = tr[n].time - 1], tr, n)

removeFunctionStart(s, tr, n) ==
  [s EXCEPT !.thread.stack = Front(@), !.thread.time = tr[n].entered - 1]

\* Restore the function's own state by adding its events again.
restoreEvent(s, tr, k) ==
  LET e == tr[k]
  IN  CASE e.type = "FunctionStart"  -> [s EXCEPT !.thread.time = tr[EventEnd(tr, k)].exited]
        [] e.type \in InstructionTypes \cup {"RuntimeError"} -> addEvent(s, tr, k)
        [] e.type = "Alloca"         -> readdAlloca(s, tr, k)
        [] e.type = "StackRestore"   -> readdStackRestore(s, tr, k)
        [] e.type = "ByValRegionAdd" -> readdByValRegionAdd(s, e)
        [] OTHER                     -> s

RestoreFunction(s, tr, n) ==
  FoldLeft(LAMBDA u, k : restoreEvent(u, tr, k),
           [s EXCEPT !.thread.stack = Append(@, NewFunctionState(tr[n].start))],
           InOrder(OwnEvents(tr, n) \cup Callees(tr, n)))

Unremove(s, areas) == Process(s, UndoAll(s.process, "remove", areas))

\* Mutant: the areas are restored in the order in which they were removed.
removeFunctionEndInOrder(s, tr, n) ==
  LET t == RestoreFunction(s, tr, n)
  IN  [Unremove(t, Top(t).byvals \o Top(t).allocas) EXCEPT !.thread.time = tr[n].exited - 1]

removeFunctionEnd(s, tr, n) ==
  LET t == RestoreFunction(s, tr, n)
  IN  [Unremove(t, Reverse(Top(t).byvals \o Top(t).allocas))
         EXCEPT !.thread.time = tr[n].exited - 1]

removeInstruction(s, tr, n) == Untick(makePreviousInstructionActive(s, tr, n))

\* The allocas before it are those after the previous StackRestore of the
\* invocation, if there is one, and those that have been added since.
removeStackRestore(s, tr, n) ==
  LET post  == Top(s).allocas
      prev  == rfindInFunction(tr, n, OfType(tr, {"StackRestore"}))
      since == {k \in OwnEvents(tr, n) : k > prev /\ tr[k].type = "Alloca"}
      clear == SetTop(s, [Top(s) EXCEPT !.allocas = <<>>])
      t     == FoldLeft(LAMBDA u, k : readdAlloca(u, tr, k),
                        IF prev = None THEN clear ELSE readdStackRestore(clear, tr, prev),
                        InOrder(since))
      pre   == Top(t).allocas
      back  == SubSeq(pre, MismatchAt(post, pre), Len(pre))
  IN  Unremove(t, Reverse(back))

removeAlloca(s) ==
  LET a == Last(Top(s).allocas)
  IN  Process(SetTop(s, [Top(s) EXCEPT !.allocas = Front(@)]),
              UndoChange(s.process, Change("add", a)))

removeMallocEvent(s, tr, n) ==
  LET address == PtrBefore(tr, n).value
  IN  BeforeTime(Process(s, UndoChange(unaddMalloc(s.process, address),
                                       Change("add", Area(address, tr[n].size)))), tr, n)

removeFree(s, tr, n) ==
  LET p == unremoveMalloc(s.process, tr[n].address)
  IN  BeforeTime(Process(s, IF ~p.ok THEN p
                            ELSE UndoChange(p, Change("remove", p.mallocs[tr[n].address]))),
                 tr, n)

\* The allocator that addRealloc pushed is not popped.
removeRealloc(s, tr, n) ==
  LET p == [s.process EXCEPT !.mallocs[tr[n].address].size = tr[n].old]
  IN  BeforeTime(Process(s, UndoChange(p, Resize(tr[n]))), tr, n)

UndoState(s, tr, n, op) ==
  BeforeTime(Process(s, UndoChange(s.process, Change(op, tr[n]))), tr, n)
removeStateUntyped(s, tr, n) == UndoState(s, tr, n, "block")
removeStateMemmove(s, tr, n) == UndoState(s, tr, n, "copy")
removeStateClear(s, tr, n)   == UndoState(s, tr, n, "clear")

removeKnownRegionAdd(s, e) ==
  Process(s, UndoChange(removeKnownMemory(s.process, e.address), Change("add", e)))
removeKnownRegionRemove(s, e) ==
  Process(s, UndoChange(addKnownMemory(s.process, e.address, e.size, e.access),
                        Change("remove", e)))

removeByValRegionAdd(s, e) ==
  Process(SetTop(s, removeByValArea(Top(s), e.address)),
          UndoChange(s.process, Change("add", e)))

removeFileOpen(s, tr, n) == BeforeTime(Process(s, removeStream(s.process, tr[n].file)), tr, n)
removeFileWrite(s, tr, n) ==
  BeforeTime(Process(s, unwrite(s.process, tr[n].file, Len(tr[n].data))), tr, n)
removeFileWriteFromMemory(s, tr, n) ==
  BeforeTime(Process(s, unwrite(s.process, tr[n].file, tr[n].size)), tr, n)
removeFileClose(s, tr, n) == BeforeTime(Process(s, restoreStream(s.process, tr[n].file)), tr, n)
removeDirOpen(s, tr, n)   == BeforeTime(Process(s, removeDir(s.process, tr[n].dir)), tr, n)
removeDirClose(s, tr, n)  ==
  BeforeTime(Process(s, addDir(s.process, tr[n].dir, tr[n].name)), tr, n)

removeRuntimeErrorEvent(s) == SetTop(s, removeLastRuntimeError(Top(s)))

removeEvent(s, tr, n) ==
  LET e == tr[n]
  IN  CASE e.type = "FunctionStart"        -> removeFunctionStart(s, tr, n)
        [] e.type = "FunctionEnd"          -> removeFunctionEnd(s, tr, n)
        [] e.type = "NewProcessTime"       -> setPreviousViewOfProcessTime(s, tr, n)
        [] e.type = "NewThreadTime"        -> Untick(s)
        [] isInstruction(e)                -> removeInstruction(s, tr, n)
        [] e.type = "StackRestore"         -> removeStackRestore(s, tr, n)
        [] e.type = "Alloca"               -> removeAlloca(s)
        [] e.type = "Malloc"               -> removeMallocEvent(s, tr, n)
        [] e.type = "Free"                 -> removeFree(s, tr, n)
        [] e.type = "Realloc"              -> removeRealloc(s, tr, n)
        [] e.type = "StateUntyped"         -> removeStateUntyped(s, tr, n)
        [] e.type = "StateMemmove"         -> removeStateMemmove(s, tr, n)
        [] e.type = "StateClear"           -> removeStateClear(s, tr, n)
        [] e.type = "KnownRegionAdd"       -> removeKnownRegionAdd(s, e)
        [] e.type = "KnownRegionRemove"    -> removeKnownRegionRemove(s, e)
        [] e.type = "ByValRegionAdd"       -> removeByValRegionAdd(s, e)
        [] e.type = "FileOpen"             -> removeFileOpen(s, tr, n)
        [] e.type = "FileWrite"            -> removeFileWrite(s, tr, n)
        [] e.type = "FileWriteFromMemory"  -> removeFileWriteFromMemory(s, tr, n)
        [] e.type = "FileClose"            -> removeFileClose(s, tr, n)
        [] e.type = "DirOpen"              -> removeDirOpen(s, tr, n)
        [] e.type = "DirClose"             -> removeDirClose(s, tr, n)
        [] e.type = "RuntimeError"         -> removeRuntimeErrorEvent(s)
        [] e.type \in {"StackRestoreAlloca", "TraceEnd"} -> s

-----------------------------------------------------------------------------
(***************************************************************************)
(* The recording.  A thread writes its events in groups, each by one        *)
(* notification or one wrapped call; a group is decided when the replay     *)
(* comes to the end of what has been decided before.                        *)
(***************************************************************************)
End          == Len(trace) + 1
LastOwn      == rfindInFunction(trace, End, InstructionsOf(trace))
LastIndex    == trace[LastOwn].index
InCall       == LastOwn # None /\ trace[LastOwn].type = "PreInstruction"
Depth        == Len(state.thread.stack)
FirstOf(b)   == Min({i \in Instructions : BlockOf[i] = b})

\* The instructions that the thread may execute next, in its current function.
NextIndices ==
  IF LastOwn = None THEN {1}
  ELSE IF InCall THEN {LastIndex}
  ELSE IF LastIndex + 1 \in Instructions /\ BlockOf[LastIndex + 1] = BlockOf[LastIndex]
  THEN {LastIndex + 1}
  ELSE {FirstOf(b) : b \in Follows[BlockOf[LastIndex]]}

AtExit == LastOwn # None /\ ~InCall /\ LastIndex = Max(Instructions)

LastTime == MaxOr({trace[k].time : k \in {j \in 1..Len(trace) : hasProcessTime(trace[j])}})
Entered  == state.thread.time + 1

PreEvent(i) == [type |-> "PreInstruction", index |-> i]
ValueEvent(i, v) ==
  CASE TypeOf[i] = "void"       -> [type |-> "Instruction", index |-> i]
    [] TypeOf[i] = "int"        -> [type |-> "InstructionWithUInt", index |-> i, value |-> v]
    [] TypeOf[i] = "ptr"        -> [type |-> "InstructionWithPtr", index |-> i, value |-> v]
    [] TypeOf[i] = "longdouble" -> [type |-> "InstructionWithLongDouble", index |-> i, value |-> v]
StartEvent  == [type |-> "FunctionStart", entered |-> Entered + 1]
EndEvent    == [type |-> "FunctionEnd", start |-> Invocation(trace, End), exited |-> Entered]
ErrorEvent  == [type |-> "RuntimeError", error |-> Len(trace)]
OtherThread == [type |-> "NewProcessTime", time |-> LastTime + 1]

Errors == Cardinality({k \in 1..Len(trace) : trace[k].type = "RuntimeError"})

\* The caller of the current function, and its instruction that made the call.
CallerIndex == trace[rfindInFunction(trace, Invocation(trace, End), InstructionsOf(trace))].index

\* An instruction, with a value that is noticed before or after it is wrong.
Executions ==
  UNION {{ValueEvent(i, v) : v \in IF TypeOf[i] \in {"int", "longdouble"} THEN ValueSet ELSE {0}} :
           i \in NextIndices}
ExecuteGroups == {<<e>> : e \in Executions}
ErrorGroups ==
  IF Errors >= MaxErrors THEN {}
  ELSE {<<PreEvent(e.index), ErrorEvent, e>> : e \in Executions}
       \cup {<<e, ErrorEvent>> : e \in Executions}

\* A call of a function that is recorded too, and the return from it.
CallGroups(params) ==
  {<<PreEvent(i), StartEvent>> \o params : i \in {j \in NextIndices : Depth < MaxDepth}}
ReturnGroups ==
  IF ~AtExit THEN {}
  ELSE IF Depth = 1 THEN {<<EndEvent>>}
  ELSE {<<EndEvent, ValueEvent(CallerIndex, v)>> : v \in ValueSet}

-----------------------------------------------------------------------------
\* The stack: allocas, byval parameters, and llvm.stackrestore.
AreasOf(f) == f.allocas \o f.byvals
NextAddress == 1 + FoldLeft(LAMBDA n, f : n + Len(AreasOf(f)), 0, state.thread.stack)

Param(k) == [type |-> "ByValRegionAdd", arg |-> k, address |-> NextAddress + k - 1, size |-> 1]
StackGroups ==
  LET AllocaGroups ==
        {<<ValueEvent(i, NextAddress), [type |-> "Alloca", size |-> 1]>> :
           i \in {j \in NextIndices : TypeOf[j] = "ptr"}}
      \* The allocas that are there, as positions of their events.
      Live(k) == state.thread.stack[Depth].allocas[k]
      EventOf(k) == Max({n \in OwnEvents(trace, End) :
                           trace[n].type = "Alloca" /\ PtrBefore(trace, n).value = Live(k).address})
      Restore(k) == [type |-> "StackRestoreAlloca", alloca |-> EventOf(k)]
      RestoreGroups ==
        {<<ValueEvent(i, 0), [type |-> "StackRestore"]>> \o [k \in 1..n |-> Restore(k)] :
           i \in {j \in NextIndices : TypeOf[j] = "void"},
           n \in 0..Len(state.thread.stack[Depth].allocas)}
      OtherGroups == {<<ValueEvent(i, 0)>> :
                        i \in {j \in NextIndices : TypeOf[j] \notin {"ptr", "void"}}}
  IN  AllocaGroups \cup RestoreGroups \cup OtherGroups
      \cup CallGroups(<<Param(1), Param(2)>>) \cup ReturnGroups

-----------------------------------------------------------------------------
(***************************************************************************)
(* The heap: the events of malloc(), free(), realloc(), of stores, copies   *)
(* and clears, of known regions, and of the steps of qsort().               *)
(***************************************************************************)
Allocated == DOMAIN state.process.mallocs
Known     == {k.address : k \in KnownAreas(state.process)}
SizeOf(a) == state.process.mallocs[a].size
Timed(record) == [time |-> LastTime + 1] @@ record
MemoryEvent(type, a, n) == Timed([type |-> type, address |-> a, size |-> n])

HeapGroups ==
  LET i == CHOOSE j \in NextIndices : TRUE
      v == ValueEvent(i, 0)
      OfPtr(a) == ValueEvent(i, a)
      FreeAddresses == Addresses \ (Allocated \cup Known)
      Region(type, a) == [type |-> type, address |-> a, size |-> 2, access |-> "ReadOnly"]
  IN  IF TypeOf[i] = "ptr"
      THEN {<<OfPtr(a), Timed([type |-> "Malloc", size |-> n])>> : a \in FreeAddresses, n \in 0..1}
           \cup {<<OfPtr(a), Timed([type |-> "Realloc", address |-> a, old |-> SizeOf(a),
                                    new |-> 2])>> : a \in Allocated}
      ELSE {<<v>>, <<OtherThread, v>>}
           \cup {<<v, Timed([type |-> "Free", address |-> a])>> : a \in Allocated}
           \cup {<<v, MemoryEvent(type, a, 1)>> :
                   type \in {"StateUntyped", "StateMemmove", "StateClear"}, a \in Allocated}
           \cup {<<PreEvent(i), [type |-> "NewThreadTime"], MemoryEvent("StateUntyped", a, 1), v>> :
                   a \in Allocated}
           \cup {<<v, Region("KnownRegionAdd", a)>> : a \in FreeAddresses}
           \cup {<<v, Region("KnownRegionRemove", a)>> : a \in Known}

\* Streams and directories.
FileGroups ==
  LET i == CHOOSE j \in NextIndices : TRUE
      v == ValueEvent(i, 0)
      Open == DOMAIN state.process.streams \ {Stdin, Stderr}
      Unused == Addresses \ (Open \cup DOMAIN state.process.dirs)
      File(type, a) == Timed([type |-> type, file |-> a])
  IN  {<<v, File("FileOpen", a) @@ [name |-> n]>> : a \in Unused, n \in {"a", "b"}}
      \cup {<<v, File("FileClose", a)>> : a \in Open}
      \cup {<<v, File("FileWrite", a) @@ [data |-> d]>> : a \in Open, d \in {<<>>, <<1>>, <<2, 3>>}}
      \cup {<<v, File("FileWriteFromMemory", a) @@ [size |-> 1]>> : a \in Open}
      \cup {<<v, Timed([type |-> "DirOpen", dir |-> a, name |-> "d"])>> : a \in Unused}
      \cup {<<v, Timed([type |-> "DirClose", dir |-> a, name |-> state.process.dirs[a]])>> :
              a \in DOMAIN state.process.dirs}

Groups ==
  IF trace = <<>> THEN {<<[type |-> "FunctionStart", entered |-> 1]>>}
  ELSE IF Depth = 0 THEN {}
  ELSE CASE profile = "control" -> ExecuteGroups \cup ErrorGroups \cup ReturnGroups
                                   \cup CallGroups(<<>>)
         [] profile = "stack"   -> StackGroups
         [] profile = "heap"    -> HeapGroups
         [] profile = "files"   -> FileGroups

-----------------------------------------------------------------------------
Init ==
  /\ profile \in Profiles
  /\ trace = <<>>
  /\ next = 1
  /\ state = InitialState

Record ==
  /\ next = End
  /\ \E group \in Groups :
       /\ Len(trace) + Len(group) <= MaxEvents[profile]
       /\ trace' = trace \o group
  /\ UNCHANGED <<profile, next, state>>

\* The other threads have come to where the process time lets this one go on.
OthersAt(s, time) == [s EXCEPT !.process.processTime = time]

addNextEvent ==
  LET e == trace[next]
      s == IF ~hasProcessTime(e) THEN state
           ELSE OthersAt(state, IF e.type = "NewProcessTime" THEN e.time ELSE e.time - 1)
  IN  /\ next < End
      /\ state' = addEvent(s, trace, next)
      /\ next' = next + 1
      /\ UNCHANGED <<profile, trace>>

\* Errors and allocators that going back leaves behind or adds again.
Leftovers ==
  Max({Len(state.thread.stack[k].errors) : k \in DOMAIN state.thread.stack}
      \cup {Len(state.process.mallocs[a].allocators) - 1 : a \in DOMAIN state.process.mallocs}
      \cup {0})

removePreviousEvent ==
  LET e == trace[next - 1]
      s == IF hasProcessTime(e) THEN OthersAt(state, e.time) ELSE state
  IN  /\ next > 1
      /\ Leftovers <= MaxKept
      /\ state' = removeEvent(s, trace, next - 1)
      /\ next' = next - 1
      /\ UNCHANGED <<profile, trace>>

Next == Record \/ addNextEvent \/ removePreviousEvent

Spec == Init /\ [][Next]_vars

-----------------------------------------------------------------------------
(***************************************************************************)
(* Properties.                                                              *)
(***************************************************************************)
\* What the state is after the events before n have been added in order.
Forward(n) ==
  FoldLeft(LAMBDA s, k : addEvent(s, trace, k), InitialState, [k \in 1..(n - 1) |-> k])

\* What a viewer is shown of an invocation, its errors apart; of its values,
\* those that the code may rely on: the block that computed them dominates the
\* active one.
FunctionView(f) ==
  [start |-> f.start, active |-> f.active, complete |-> f.active # None /\ f.complete,
   allocas |-> f.allocas, visible |-> getVisibleAllocas(f), byvals |-> f.byvals,
   values |-> {v \in Values(f) : BlockOf[v[1]] \in Dominators[BlockOf[f.active]]}]

\* What a viewer is shown, errors and the allocators of blocks apart.
View(s) ==
  [stack |-> [k \in DOMAIN s.thread.stack |-> FunctionView(s.thread.stack[k])],
   time |-> s.thread.time, processTime |-> s.thread.processTime,
   mallocs |-> {[address |-> a, size |-> s.process.mallocs[a].size] :
                  a \in DOMAIN s.process.mallocs},
   memory |-> s.process.memory, known |-> s.process.known,
   streams |-> s.process.streams, dirs |-> s.process.dirs]

TypeOK ==
  /\ profile \in Profiles
  /\ Len(trace) <= MaxEvents[profile] /\ next \in 1..End
  /\ {state.thread.time, state.thread.processTime, state.process.processTime} \subseteq Nat
  /\ \A k \in DOMAIN state.thread.stack :
       /\ state.thread.stack[k].active \in Instructions \cup {None}
       /\ DOMAIN state.thread.stack[k].activeBlocks \subseteq Blocks

\* What replay asserts holds: every change of the memory that is taken back
\* is the latest one, and the stacks of removed things have them on the top.
NothingMismatches == state.process.ok

\* Where the events of the invocation on level k of the call stack end so far.
Level(k) == IF k = Len(state.thread.stack) THEN next ELSE state.thread.stack[k + 1].start

\* The events of the invocation that starts at p, and with those of its callees.
Own(p)    == {n \in DOMAIN trace : n > p /\ Invocation(trace, n) = p}
During(p) == {n \in DOMAIN trace : n > p /\ \A q \in Over(trace, n) : trace[q].start # p}

(***************************************************************************)
(* Errors and allocators are the two lists that do depend on the way: going *)
(* back adds the errors since the previous instruction again, those of a    *)
(* callee too, with a later thread time; and it leaves the allocator of a   *)
(* reallocation where it is.  What still holds of them: no error that was   *)
(* seen is missing, and each one listed was recorded during this very       *)
(* invocation, if in a callee or at a later position, and is listed for the *)
(* instruction that was active; the allocator of a block is the one of the  *)
(* position, or that of a later reallocation of the same block.             *)
(***************************************************************************)
ErrorsAreOfTheCall(s, exact) ==
  \A k \in DOMAIN s.thread.stack :
    LET p == s.thread.stack[k].start
        Listed(t) == {[error |-> e.error, instr |-> e.instr] : e \in ToSet(t.thread.stack[k].errors)}
        ActiveAt(n) == trace[rfind(n, InstructionsOf(trace) \cap Own(p))].index
        Recorded == {[error |-> trace[n].error, instr |-> ActiveAt(n)] :
                       n \in OfType(trace, {"RuntimeError"}) \cap During(p)}
    IN  Listed(exact) \subseteq Listed(s) /\ Listed(s) \subseteq Recorded

AllocatorsAreOfTheBlock(s, exact) ==
  \A a \in DOMAIN s.process.mallocs :
    LET Later(type) == {n \in next..Len(trace) : trace[n].type = type /\ trace[n].address = a}
        Reallocs == {n \in Later("Realloc") : \A m \in Later("Free") : n < m}
    IN  \/ Last(s.process.mallocs[a].allocators) = Last(exact.process.mallocs[a].allocators)
        \/ \E n \in Reallocs : Last(s.process.mallocs[a].allocators) = PtrBefore(trace, n).index

(***************************************************************************)
(* The state at a position does not depend on how it was reached: after any *)
(* movement back and forth the call stack, the values, the memory with its  *)
(* allocas, parameters, blocks and known regions, the streams, directories  *)
(* and times are those that adding the events once, in order, gives; errors *)
(* and allocators as far as is said above.                                  *)
(***************************************************************************)
GoingBackIsExact ==
  LET exact == Forward(next)
  IN  /\ View(state) = View(exact)
      /\ ErrorsAreOfTheCall(state, exact)
      /\ AllocatorsAreOfTheBlock(state, exact)

(***************************************************************************)
(* ProcessState.hpp:83 says of a block that was allocated dynamically: "Get *)
(* the llvm::Instruction that caused this allocation."  The code does not   *)
(* keep to it: removeEvent(Realloc) never calls popAllocator().             *)
(***************************************************************************)
AllocatorCausedIt ==
  \A a \in DOMAIN state.process.mallocs :
    Last(state.process.mallocs[a].allocators) = Last(Forward(next).process.mallocs[a].allocators)

(***************************************************************************)
(* FunctionState.hpp:282 says of the errors of a function: "All runtime     *)
(* errors seen in this function."  The code lists others:                   *)
(* makePreviousInstructionActive() adds an error that is listed already     *)
(* once more, of which only one is removed, and those of callees.           *)
(***************************************************************************)
OnlySeenErrors ==
  \A k \in DOMAIN state.thread.stack : \A e \in ToSet(state.thread.stack[k].errors) :
    \E n \in Own(state.thread.stack[k].start) :
      n < Level(k) /\ trace[n].type = "RuntimeError" /\ trace[n].error = e.error

(***************************************************************************)
(* The value shown for an instruction whose block dominates the active one  *)
(* is the one that was recorded last, by this invocation.                   *)
(***************************************************************************)
ValuesAreRecorded ==
  \A k \in DOMAIN state.thread.stack :
    LET f    == state.thread.stack[k]
        upTo == Level(k)
    IN  \A v \in FunctionView(f).values :
          LET n == rfindInFunction(trace, upTo,
                     {i \in InstructionsOf(trace) : trace[i].index = v[1] /\ "value" \in DOMAIN trace[i]})
          IN  n # None /\ trace[n].value = v[2]

(***************************************************************************)
(* The process time lies between the last time that this thread has used    *)
(* and the next one that it is going to use.                                *)
(***************************************************************************)
ProcessTimeFits ==
  LET Times(S) == {trace[k].time : k \in {j \in S : hasProcessTime(trace[j])
                                                    /\ trace[j].type # "NewProcessTime"}}
  IN  /\ \A t \in Times(1..(next - 1)) : t <= state.process.processTime
      /\ \A t \in Times(next..Len(trace)) : state.process.processTime < t

\* Every address of a live area is found to be in that area.
AreasAreFound ==
  LET OnStack == UNION {ToSet(f.allocas) \cup ToSet(f.byvals) : f \in ToSet(state.thread.stack)}
      Dynamic == {state.process.mallocs[a] : a \in DOMAIN state.process.mallocs}
  IN  \A area \in OnStack \cup Dynamic \cup KnownAreas(state.process) :
        \A address \in area.address..(area.address + area.size - 1) :
          getMemoryArea(state, address) = area.address

(***************************************************************************)
(* No run-time error of the current call is lost: each one that was         *)
(* recorded up to here is in the list of the function.  (Going back adds    *)
(* the errors of an instruction again, so it may be there twice, and with   *)
(* another thread time.)                                                    *)
(***************************************************************************)
ErrorsAreKept ==
  state.thread.stack # <<>> =>
    LET kept == Top(state).errors
    IN  \A n \in OwnEvents(trace, next) :
          trace[n].type = "RuntimeError" => \E j \in DOMAIN kept : kept[j].error = trace[n].error

\* Every write to a stream is found from each position of its text.
WritesCoverTheText ==
  \A a \in DOMAIN state.process.streams :
    LET stream == state.process.streams[a]
    IN  \A position \in 0..(Len(stream.written) - 1) :
          LET w == getWriteAt(stream, position)
          IN  w.begin <= position /\ position < w.end

(***************************************************************************)
(* What the state shows of a thread, its values, errors, streams and times, *)
(* is what was recorded.                                                    *)
(***************************************************************************)
ShownIsRecorded ==
  TypeOK /\ ValuesAreRecorded /\ ProcessTimeFits /\ ErrorsAreKept /\ WritesCoverTheText

=============================================================================
