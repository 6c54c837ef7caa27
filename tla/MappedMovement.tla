----------------------------- MODULE MappedMovement ----------------------------
(***************************************************************************)
(* Movement of a state in terms of the program's source                    *)
(* (MappedStateMovement.cpp, and the searches of StateMovement.cpp it      *)
(* uses): to the next point where something was evaluated, to the end of a *)
(* call's entry, to the allocation of an object.  A thread's recording is  *)
(* a sequence of blocks; all that a search looks at is determined by the   *)
(* number of blocks that are applied.                                      *)
(*                                                                         *)
(* A block enters or leaves a function ("enter", "exit"), makes a call     *)
(* active ("pre"), completes an instruction ("inst"), or only tells that   *)
(* the process moved on ("time").  It is timed if it takes the lock of the *)
(* process.  Memory is one address: a block may change which object is     *)
(* there (owner), or what is in it (writes).                               *)
(***************************************************************************)
EXTENDS Integers, Sequences, FiniteSets

CONSTANTS
    Recordings,   \* sequences of blocks
    Mapped,       \* functions that have a declaration in the source
    System,       \* those of them that are declared in system headers
    Heap          \* objects that are allocated by malloc()

VARIABLES
    recording,    \* one of Recordings
    position,     \* how many blocks are applied
    callStack,    \* the mapped call stack, as it was last generated
    last          \* the last movement

movementVars == <<recording, position, callStack, last>>

--------------------------------------------------------------------------------
(* The state after n blocks.                                                  *)

Positions == 0 .. Len(recording)

\* Calls are known by the block that entered them; each block says which calls
\* there are after it.
StackAt(n) == IF n = 0 THEN <<>> ELSE recording[n].stack

Top(stack) == IF stack = <<>> THEN 0 ELSE stack[Len(stack)]

Instructions(call) ==
    {k \in DOMAIN recording : recording[k].kind \in {"pre", "inst"} /\ Top(StackAt(k)) = call}

Latest(s) == IF s = {} THEN 0 ELSE CHOOSE k \in s : \A l \in s : l <= k
Earliest(s) == IF s = {} THEN 0 ELSE CHOOSE k \in s : \A l \in s : k <= l

\* What a recording is like.  A call is entered from an instruction of the
\* function that is active, by the thread's first block if there is none.
CallsBefore(r, n) == IF n = 1 THEN <<>> ELSE r[n - 1].stack

SoundCalls(r) ==
    \A n \in DOMAIN r : LET before == CallsBefore(r, n) IN
        \/ /\ r[n].kind = "enter" /\ r[n].stack = Append(before, n)
           /\ before # <<>> => \E k \in 1 .. n - 1 : r[k].kind = "pre" /\ Top(r[k].stack) = Top(before)
        \/ r[n].kind = "exit" /\ before # <<>> /\ r[n].stack = SubSeq(before, 1, Len(before) - 1)
        \/ r[n].kind \in {"pre", "inst", "time"} /\ r[n].stack = before

\* What is allocated was free.  Freeing it takes the lock of the process, and so
\* does malloc().
Allocates(r, n) == r[n].owner \notin {"same", "none"}
SoundObjects(r) ==
    \A n \in DOMAIN r :
        /\ r[n].owner \in Heap \cup {"none"} => r[n].timed
        /\ Allocates(r, n) => \A k \in 1 .. n - 1 :
              Allocates(r, k) => \E l \in k + 1 .. n - 1 : r[l].owner = "none"

ASSUME RecordingsAssumption ==
    /\ {"same", "none"} \cap Heap = {}
    /\ \A r \in Recordings :
          /\ Len(r) \in Nat /\ DOMAIN r = 1 .. Len(r)
          /\ \A n \in DOMAIN r : r[n].timed \in BOOLEAN /\ r[n].mapped \in BOOLEAN
          /\ SoundCalls(r) /\ SoundObjects(r)

getActiveFunction(n) == Top(StackAt(n))
getActiveInstruction(n) == Latest({k \in Instructions(getActiveFunction(n)) : k <= n})
getNextInstructionInActiveFunction(n) == Earliest({k \in Instructions(getActiveFunction(n)) : k > n})
PreviousInActiveFunction(n) == {k \in Instructions(getActiveFunction(n)) : k < n}

isMappedToStmt(k) == recording[k].mapped
hasCompletionMapping(k) == recording[k].completes # {}

\* The last block that changed the address, of those that did.
Changes == {k \in DOMAIN recording : recording[k].owner # "same"}
Writes == {k \in DOMAIN recording : recording[k].writes # 0}
LastOf(blocks, n) == Latest(blocks \cap 1 .. n)

ObjectAt(n) ==
    LET k == LastOf(Changes, n)
    IN  IF k = 0 THEN "none" ELSE recording[k].owner

\* Points that are shown: outside of all functions; the end of what precedes
\* the first statement of a function; and where a statement or declaration is
\* complete.  A call has its completions from the moment it is active.
isLogicalPoint(n) ==
    LET call == getActiveFunction(n)
        active == getActiveInstruction(n)
        next == getNextInstructionInActiveFunction(n)
    IN  IF call = 0 THEN TRUE
        ELSE /\ recording[call].fn \in Mapped \ System
             /\ IF active = 0 THEN next = 0
                ELSE IF isMappedToStmt(active) THEN hasCompletionMapping(active)
                ELSE /\ next = 0 \/ isMappedToStmt(next)
                     /\ \A k \in PreviousInActiveFunction(n) : ~isMappedToStmt(k)

--------------------------------------------------------------------------------
(* Movement until a predicate holds: where it ends and what it returns.       *)

\* The predicate is the set of the positions at which it holds.
Reached(goal) == [position |-> goal, result |-> "PredicateSatisfied"]
Stopped(n, end, result) == [position |-> end, result |-> IF n = end THEN "Unmoved" ELSE result]

moveForwardUntil(n, goals) ==
    LET ahead == {m \in goals : m > n}
    IN  IF ahead # {} THEN Reached(Earliest(ahead)) ELSE Stopped(n, Len(recording), "ReachedEnd")
moveBackwardUntil(n, goals) ==
    LET behind == {m \in goals : m < n}
    IN  IF behind # {} THEN Reached(Latest(behind)) ELSE Stopped(n, 0, "ReachedBeginning")

\* A predicate on the process is asked only after a block that took the lock.
moveProcessForwardUntil(n, goals) ==
    moveForwardUntil(n, {m \in goals : m > n /\ recording[m].timed})
moveProcessBackwardUntil(n, goals) ==
    moveBackwardUntil(n, {m \in goals : m < n /\ recording[m + 1].timed})

\* Every movement ends with a new call stack: ProcessState::clearCallStack().
clearCallStack(n) == callStack' = StackAt(n)

Finish(move, arg, moved) ==
    /\ position' = moved.position
    /\ clearCallStack(moved.position)
    /\ last' = [move |-> move, arg |-> arg, from |-> position, result |-> moved.result]
    /\ UNCHANGED recording

--------------------------------------------------------------------------------
LogicalPoints == {n \in Positions : isLogicalPoint(n)}

moveForward == Finish("forward", 0, moveForwardUntil(position, LogicalPoints))
moveBackward == Finish("backward", 0, moveBackwardUntil(position, LogicalPoints))
moveForwardToEnd == Finish("end", 0, moveForwardUntil(position, {Len(recording)}))
moveBackwardToEnd == Finish("start", 0, moveBackwardUntil(position, {0}))

\* Statements the active instruction completes, in a function of the source.
getStmtCompletions(n) ==
    LET call == getActiveFunction(n)
        active == getActiveInstruction(n)
    IN  IF call = 0 \/ active = 0 THEN {}
        ELSE IF recording[call].fn \notin Mapped THEN {} ELSE recording[active].completes

\* A statement is top-level if no expression but parentheses is around it.
isTopLevel(s) == s.top

CompletesTopLevel == {n \in Positions : \E s \in getStmtCompletions(n) : isTopLevel(s)}
Completes(s) == {n \in Positions : s \in getStmtCompletions(n)}

moveForwardToCompleteTopLevelStmt == Finish("toplevel", 0, moveForwardUntil(position, CompletesTopLevel))
moveBackwardToCompleteTopLevelStmt == Finish("toplevel", 0, moveBackwardUntil(position, CompletesTopLevel))

moveForwardUntilEvaluated(s) ==
    Finish("evaluated", s, moveForwardUntil(position, Completes(s)))
moveBackwardUntilEvaluated(s) ==
    Finish("evaluated", s, moveBackwardUntil(position, Completes(s)))

BeforeEntryDeeper(depth, n) ==
    \/ Len(StackAt(n)) < depth
    \/ getActiveInstruction(n) = 0

\* Back to where the call at this depth has no active instruction, or is not
\* there; and from there to the next point that is shown.
BeforeEntry(depth, n) ==
    \/ Len(StackAt(n)) < depth
    \/ Len(StackAt(n)) = depth /\ (StackAt(n)[depth] # StackAt(position)[depth] \/ getActiveInstruction(n) = 0)

moveToFunctionEntry(depth) ==
    LET back == moveBackwardUntil(position, {n \in Positions : BeforeEntry(depth, n)})
    IN  Finish("entry", depth, moveForwardUntil(back.position, LogicalPoints))

moveToFunctionFinished(depth) ==
    Finish("finished", depth, moveForwardUntil(position, {n \in LogicalPoints : Len(StackAt(n)) < depth}))

--------------------------------------------------------------------------------
(* Movement of the process.                                                   *)

Allocated(n) == ObjectAt(n) # "none"
AllocatedAt == {n \in Positions : Allocated(n)}

processForward == Finish("time", 0, moveProcessForwardUntil(position, Positions))
processBackward == Finish("time", 0, moveProcessBackwardUntil(position, Positions))

\* Back until nothing is allocated at the address, and on to its allocation.
ToAllocation(n) ==
    LET back == moveProcessBackwardUntil(n, Positions \ AllocatedAt)
    IN  IF back.result = "PredicateSatisfied"
        THEN [back EXCEPT !.position = moveProcessForwardUntil(back.position, AllocatedAt).position] ELSE back

ToDeallocation(n) ==
    LET on == moveProcessForwardUntil(n, Positions \ AllocatedAt)
    IN  IF on.result = "PredicateSatisfied"
        THEN [on EXCEPT !.position = moveProcessBackwardUntil(on.position, AllocatedAt).position] ELSE on

moveToAllocation == Allocated(position) /\ Finish("allocation", 0, ToAllocation(position))
moveToDeallocation == Allocated(position) /\ Finish("deallocation", 0, ToDeallocation(position))
moveBackwardUntilAllocated == Finish("allocated", 0, moveProcessBackwardUntil(position, AllocatedAt))

\* What is in the object, and whether it is still there.
ObjectContents(n) ==
    LET k == LastOf(Changes \cup Writes, n)
    IN  IF Allocated(n) THEN recording[k].writes ELSE -1
OtherContents == {n \in Positions : ObjectContents(n) # ObjectContents(position)}

moveForwardUntilMemoryChanges ==
    /\ Allocated(position)
    /\ Finish("changes", 0, moveProcessForwardUntil(position, OtherContents))
moveBackwardUntilMemoryChanges ==
    /\ Allocated(position)
    /\ Finish("changes", 0, moveProcessBackwardUntil(position, OtherContents))

Statements == UNION {recording[k].completes : k \in DOMAIN recording}

MovementInit ==
    /\ recording \in Recordings
    /\ position = 0 /\ callStack = <<>>
    /\ last = [move |-> "none", arg |-> 0, from |-> 0, result |-> "Unmoved"]

MovementNext ==
    \/ moveForward \/ moveBackward \/ moveForwardToEnd \/ moveBackwardToEnd
    \/ moveForwardToCompleteTopLevelStmt \/ moveBackwardToCompleteTopLevelStmt
    \/ processForward \/ processBackward
    \/ moveToAllocation \/ moveToDeallocation \/ moveBackwardUntilAllocated
    \/ moveForwardUntilMemoryChanges \/ moveBackwardUntilMemoryChanges
    \/ \E depth \in DOMAIN callStack : moveToFunctionEntry(depth) \/ moveToFunctionFinished(depth)
    \/ \E s \in Statements : moveForwardUntilEvaluated(s) \/ moveBackwardUntilEvaluated(s)

MovementSpec == MovementInit /\ [][MovementNext]_movementVars

--------------------------------------------------------------------------------
Satisfied == last.result = "PredicateSatisfied"

\* The mapped call stack is the one of the state: the calls it shows are there.
CallStackIsCurrent == callStack = StackAt(position)

\* The part of a call before its first statement is shown at one point at most,
\* however it was reached.  A call in that part is seen twice: when it becomes
\* active and when it returns; and so is whatever precedes a block that only
\* tells the time.
PreludeOnce ==
    position = Len(recording) => \A call \in {k \in DOMAIN recording : recording[k].kind = "enter"} :
        LET shown == {n \in Positions : /\ getActiveFunction(n) = call /\ isLogicalPoint(n)
                                        /\ getActiveInstruction(n) # 0
                                        /\ ~isMappedToStmt(getActiveInstruction(n))}
        IN  Cardinality({n \in shown : recording[n].kind \in {"pre", "inst"}}) <= 1

\* After the movement to a call's entry, the call is the active one, and none of
\* its statements was evaluated, if anything precedes its first statement.
EntryIsReached ==
    last.move = "entry" =>
        LET call == StackAt(last.from)[last.arg]
            first == Earliest(Instructions(call))
        IN  /\ recording[call].fn \in Mapped \ System
            /\ first # 0 /\ ~isMappedToStmt(first)
            /\ \E k \in Instructions(call) : isMappedToStmt(k)
            /\ \A k \in Instructions(call) : ~isMappedToStmt(k) => recording[k].kind = "inst"
            => /\ Satisfied /\ getActiveFunction(position) = call
               /\ \A k \in Instructions(call) : k <= position => ~isMappedToStmt(k)

\* The movement to the allocation of an object ends where that object is, and
\* not after the point it began at.
AllocationOf(objects) ==
    last.move = "allocation" /\ Satisfied /\ ObjectAt(last.from) \in objects =>
        ObjectAt(position) = ObjectAt(last.from) /\ position <= last.from

\* Memory from malloc() is allocated by the block that the movement stops at.
HeapAllocation(objects) ==
    /\ AllocationOf(objects)
    /\ last.move = "allocation" /\ Satisfied /\ ObjectAt(last.from) \in objects =>
          ObjectAt(position - 1) # ObjectAt(position)

\* Going to the deallocation of an object ends where it is there for the last
\* time, be it on the heap or on the stack.
DeallocationIsFound ==
    last.move = "deallocation" /\ Satisfied =>
        /\ ObjectAt(position) = ObjectAt(last.from) /\ last.from <= position
        /\ \A n \in last.from .. position : Allocated(n)
        /\ ObjectAt(position + 1) # ObjectAt(position)

\* Memory from malloc() is found where it was allocated; what is on the stack
\* may not be (moveToAllocation()).
AllocationIsFound == HeapAllocation(Heap)

\* Movements between statements end at the point that they are named for, and
\* show the calls of that point.
MovementsReachTheirPoint ==
    CallStackIsCurrent /\ PreludeOnce /\ EntryIsReached /\ AllocationIsFound /\ DeallocationIsFound
================================================================================
