---------------------------- MODULE MemoryState ----------------------------
(***************************************************************************)
(* The recreated memory of a process (lib/Trace/MemoryState.cpp): every     *)
(* allocation holds its bytes, whether each is initialized, and three       *)
(* vectors in which overwritten areas are saved; removed allocations are    *)
(* kept on a stack.  Each memory event has an operation that applies it and *)
(* one that takes it back.                                                  *)
(***************************************************************************)
EXTENDS Integers, Sequences, SequencesExt, FiniteSetsExt

CONSTANTS
  Addresses,          \* start addresses, a finite set of numbers
  MaxSize,            \* bound on the size of an allocation
  Values,             \* the values of bytes
  Uninit,             \* how a byte that is not initialized is shown
  MaxEvents,          \* bound on the number of events that are applied
  OverlappingCopies   \* may the source and the target of a copy overlap?

ASSUME ConstantsAssumption ==
  /\ Addresses \subseteq Nat /\ IsFiniteSet(Addresses)
  /\ MaxSize \in Nat /\ MaxEvents \in Nat
  /\ Uninit \notin Values /\ 0 \notin Values
  /\ OverlappingCopies \in BOOLEAN

VARIABLES
  Allocations,           \* start address -> allocation
  PreviousAllocations,   \* the removed allocations, the top last
  events,                \* the events that have been applied
  past                   \* what the memory showed before each of them

vars == <<Allocations, PreviousAllocations, events, past>>

Sizes == 0..MaxSize
Bytes == UNION {[1..n -> Values] : n \in 1..MaxSize}

-----------------------------------------------------------------------------
(***************************************************************************)
(* MemoryAllocation.  A byte of Init is all ones or all zeros here: no      *)
(* event initializes part of a byte.                                        *)
(***************************************************************************)
Complete == 1
Zeros(n) == [i \in 1..n |-> 0]
Ones(n)  == [i \in 1..n |-> Complete]

MemoryAllocation(address, size) ==
  [Address |-> address, Data |-> Zeros(size), Init |-> Zeros(size),
   PreviousType |-> <<>>, PreviousData |-> <<>>, PreviousInit |-> <<>>]

Size(al) == Len(al.Data)

\* seq with the elements after position offset replaced by those of part.
Fill(seq, offset, part) ==
  [i \in DOMAIN seq |-> IF i - offset \in DOMAIN part THEN part[i - offset] ELSE seq[i]]

Slice(seq, offset, n)  == SubSeq(seq, offset + 1, offset + n)
DropLast(seq, n)       == SubSeq(seq, 1, Len(seq) - n)
LastPart(seq, n)       == SubSeq(seq, Len(seq) - n + 1, Len(seq))

Covers(al, a, n) == al.Address <= a /\ a + n <= al.Address + Size(al)

\* Mutant: the data of a partially initialized area are not saved.
clearAreaNoPartialData(al, a, n) ==
  LET offset == a - al.Address
      init   == Slice(al.Init, offset, n)
      type   == IF init = Zeros(n) THEN "Uninitialized"
                ELSE IF init = Ones(n) THEN "Complete" ELSE "Partial"
  IN  [al EXCEPT !.PreviousType = Append(@, type),
                 !.PreviousInit = IF type = "Partial" THEN @ \o init ELSE @,
                 !.PreviousData = IF type = "Complete"
                                  THEN @ \o Slice(al.Data, offset, n) ELSE @,
                 !.Init = Fill(@, offset, Zeros(n))]

\* Save the area and mark it as uninitialized; the data stay.
clearArea(al, a, n) ==
  LET offset == a - al.Address
      init   == Slice(al.Init, offset, n)
      type   == IF init = Zeros(n) THEN "Uninitialized"
                ELSE IF init = Ones(n) THEN "Complete" ELSE "Partial"
  IN  [al EXCEPT !.PreviousType = Append(@, type),
                 !.PreviousInit = IF type = "Partial" THEN @ \o init ELSE @,
                 !.PreviousData = IF type # "Uninitialized"
                                  THEN @ \o Slice(al.Data, offset, n) ELSE @,
                 !.Init = Fill(@, offset, Zeros(n))]

\* addBlock and addArea: save the area, then set its data and initialization.
addArea(al, a, data, init) ==
  LET offset  == a - al.Address
      cleared == clearArea(al, a, Len(data))
  IN  [cleared EXCEPT !.Data = Fill(@, offset, data), !.Init = Fill(@, offset, init)]

\* Mutant: the saved data are discarded instead of restored.
rewindInitOnly(al, a, n) ==
  LET type == Last(al.PreviousType)
      init == CASE type = "Uninitialized" -> Zeros(n)
                [] type = "Partial"       -> LastPart(al.PreviousInit, n)
                [] type = "Complete"      -> Ones(n)
  IN  [al EXCEPT !.PreviousType = Front(@),
                 !.PreviousInit = IF type = "Partial" THEN DropLast(@, n) ELSE @,
                 !.PreviousData = IF type # "Uninitialized" THEN DropLast(@, n) ELSE @,
                 !.Init = Fill(@, a - al.Address, init)]

\* Restore the latest saved area, which is the one from a on.
rewindArea(al, a, n) ==
  LET offset == a - al.Address
      type   == Last(al.PreviousType)
      init   == CASE type = "Uninitialized" -> Zeros(n)
                  [] type = "Partial"       -> LastPart(al.PreviousInit, n)
                  [] type = "Complete"      -> Ones(n)
  IN  [al EXCEPT !.PreviousType = Front(@),
                 !.PreviousInit = IF type = "Partial" THEN DropLast(@, n) ELSE @,
                 !.PreviousData = IF type # "Uninitialized" THEN DropLast(@, n) ELSE @,
                 !.Init = Fill(@, offset, init),
                 !.Data = IF type # "Uninitialized"
                          THEN Fill(@, offset, LastPart(al.PreviousData, n)) ELSE @]

\* What rewindArea asserts.
CanRewind(al, a, n) ==
  /\ Covers(al, a, n)
  /\ al.PreviousType # <<>>
  /\ Last(al.PreviousType) = "Partial" => Len(al.PreviousInit) >= n
  /\ Last(al.PreviousType) # "Uninitialized" => Len(al.PreviousData) >= n

\* Bytes that are added by a resize are zero, in the data and in the
\* initialization.
Resized(seq, n) == [i \in 1..n |-> IF i <= Len(seq) THEN seq[i] ELSE 0]

resize(al, n) == [al EXCEPT !.Data = Resized(@, n), !.Init = Resized(@, n)]

-----------------------------------------------------------------------------
(***************************************************************************)
(* MemoryState.                                                             *)
(***************************************************************************)
With(address, al) ==
  [s \in DOMAIN Allocations \cup {address} |->
     IF s = address THEN al ELSE Allocations[s]]
Without(address) == [s \in DOMAIN Allocations \ {address} |-> Allocations[s]]

\* The allocation with the highest start address that is not above a.
NotAbove(a) == {s \in DOMAIN Allocations : s <= a}
StartFor(a) == Max(NotAbove(a))

\* getAllocation finds an allocation that contains the area, without asserting.
Found(a, n) == NotAbove(a) # {} /\ Covers(Allocations[StartFor(a)], a, n)
getAllocation(a) == Allocations[StartFor(a)]

\* The recorded process allocates memory that is not in use.
IsFree(a, n) ==
  \A s \in DOMAIN Allocations : a + n <= s \/ s + Size(Allocations[s]) <= a

\* What a user of the memory sees: the allocations and their bytes.
Shown(al) == [i \in 1..Size(al) |-> IF al.Init[i] = Complete THEN al.Data[i] ELSE Uninit]
View == [s \in DOMAIN Allocations |-> Shown(Allocations[s])]

Applied(e) ==
  /\ Len(events) < MaxEvents
  /\ events' = Append(events, e)
  /\ past' = Append(past, View)

TakenBack == events' = Front(events) /\ past' = Front(past)

-----------------------------------------------------------------------------
(***************************************************************************)
(* Moving forward.                                                          *)
(***************************************************************************)
Event(op, a, n) == [op |-> op, address |-> a, size |-> n]

\* The effects of allocationAdd and allocationRemove.
AddAllocation(a, n) ==
  /\ IsFree(a, n)
  /\ Allocations' = IF n = 0 THEN Allocations ELSE With(a, MemoryAllocation(a, n))
  /\ UNCHANGED PreviousAllocations

RemoveAllocation(a, n) ==
  IF n = 0
  THEN UNCHANGED <<Allocations, PreviousAllocations>>
  ELSE /\ a \in DOMAIN Allocations /\ Size(Allocations[a]) = n
       /\ PreviousAllocations' = Append(PreviousAllocations, Allocations[a])
       /\ Allocations' = Without(a)

allocationAdd(a, n)    == Applied(Event("add", a, n)) /\ AddAllocation(a, n)
allocationRemove(a, n) == Applied(Event("remove", a, n)) /\ RemoveAllocation(a, n)

\* A shrinking allocation saves the area that disappears.
ResizeInPlace(a, current, size) ==
  LET al  == getAllocation(a)
      cut == IF size < current THEN clearArea(al, a + size, current - size) ELSE al
  IN  /\ a \in DOMAIN Allocations /\ Size(al) = current
      /\ size > current => IsFree(a + current, size - current)
      /\ Allocations' = With(a, resize(cut, size))
      /\ UNCHANGED PreviousAllocations

allocationResize(a, current, size) ==
  /\ Applied([op |-> "resize", address |-> a, current |-> current, size |-> size])
  /\ CASE current = 0 -> AddAllocation(a, size)
       [] current # 0 /\ size = 0 -> RemoveAllocation(a, current)
       [] OTHER -> ResizeInPlace(a, current, size)

addBlock(a, data) ==
  /\ Applied(Event("block", a, Len(data)))
  /\ Found(a, Len(data))
  /\ Allocations' = With(StartFor(a),
                         addArea(getAllocation(a), a, data, Ones(Len(data))))
  /\ UNCHANGED PreviousAllocations

(***************************************************************************)
(* memcpy of n elements of seq from one offset to another.  Its result is   *)
(* undefined if the areas overlap; a build copies them as a whole or one by *)
(* one from either end.                                                     *)
(***************************************************************************)
Memcpy(seq, from, to, n, order) ==
  LET d == IF to > from THEN to - from ELSE from - to
      Source(i) == CASE order = "ascending" /\ to > from  -> i % d
                     [] order = "descending" /\ to < from -> n - 1 - ((n - 1 - i) % d)
                     [] OTHER -> i
  IN  [i \in 1..n |-> seq[from + Source(i - 1) + 1]]

\* addCopy hands addArea a view of the source, which clearArea may change.
addCopy(from, to, n, order) ==
  LET sourceStart == StartFor(from)
      targetStart == StartFor(to)
      target  == getAllocation(to)
      cleared == clearArea(target, to, n)
      source  == IF sourceStart = targetStart THEN cleared ELSE getAllocation(from)
      overlap == from < to + n /\ to < from + n
      Copied(seq) == IF overlap
                     THEN Memcpy(seq, from - sourceStart, to - targetStart, n, order)
                     ELSE Slice(seq, from - sourceStart, n)
  IN  /\ Applied(Event("copy", to, n))
      /\ Found(from, n) /\ Found(to, n)
      /\ overlap => OverlappingCopies
      /\ ~overlap => order = "whole"
      /\ Allocations' = With(targetStart,
                             addArea(target, to, Copied(source.Data), Copied(source.Init)))
      /\ UNCHANGED PreviousAllocations

\* A clear of what is not allocated does nothing.
addClear(a, n) ==
  /\ Applied(Event("clear", a, n))
  /\ Allocations' = IF Found(a, n)
                    THEN With(StartFor(a), clearArea(getAllocation(a), a, n))
                    ELSE Allocations
  /\ UNCHANGED PreviousAllocations

-----------------------------------------------------------------------------
(***************************************************************************)
(* Moving backward: each operation takes back the latest event.  What the   *)
(* code asserts is a guard.                                                 *)
(***************************************************************************)
IsLast(op) == events # <<>> /\ Last(events).op = op

CanUnadd(a, n) == n # 0 => a \in DOMAIN Allocations
Unadd(a, n) ==
  /\ CanUnadd(a, n)
  /\ Allocations' = IF n = 0 THEN Allocations ELSE Without(a)
  /\ UNCHANGED PreviousAllocations

CanUnremove(a, n) ==
  n # 0 => /\ PreviousAllocations # <<>> /\ Last(PreviousAllocations).Address = a
           /\ a \notin DOMAIN Allocations
Unremove(a, n) ==
  /\ CanUnremove(a, n)
  /\ IF n = 0
     THEN UNCHANGED <<Allocations, PreviousAllocations>>
     ELSE /\ Allocations' = With(a, Last(PreviousAllocations))
          /\ PreviousAllocations' = Front(PreviousAllocations)

allocationUnadd ==
  LET e == Last(events)
  IN  IsLast("add") /\ Unadd(e.address, e.size) /\ TakenBack

allocationUnremove ==
  LET e == Last(events)
  IN  IsLast("remove") /\ Unremove(e.address, e.size) /\ TakenBack

\* The resize from current to size is taken back: size becomes current again.
CanUnresize(a, size, current) ==
  CASE size = 0 -> CanUnremove(a, current)
    [] size # 0 /\ current = 0 -> CanUnadd(a, size)
    [] OTHER -> /\ Found(a, size) /\ Size(getAllocation(a)) = size
                /\ current > size =>
                     CanRewind(resize(getAllocation(a), current), a + size, current - size)

UnresizeInPlace(a, size, current) ==
  LET al == resize(getAllocation(a), current)
  IN  /\ Allocations' = With(StartFor(a), IF current > size
                                          THEN rewindArea(al, a + size, current - size)
                                          ELSE al)
      /\ UNCHANGED PreviousAllocations

allocationUnresize ==
  LET e == Last(events)
  IN  /\ IsLast("resize")
      /\ CanUnresize(e.address, e.size, e.current)
      /\ CASE e.size = 0 -> Unremove(e.address, e.current)
           [] e.size # 0 /\ e.current = 0 -> Unadd(e.address, e.size)
           [] OTHER -> UnresizeInPlace(e.address, e.size, e.current)
      /\ TakenBack

CanRewindAt(a, n) == Found(a, n) /\ CanRewind(getAllocation(a), a, n)
RewindAt(a, n) ==
  /\ CanRewindAt(a, n)
  /\ Allocations' = With(StartFor(a), rewindArea(getAllocation(a), a, n))
  /\ UNCHANGED PreviousAllocations

removeBlock ==
  LET e == Last(events)
  IN  IsLast("block") /\ RewindAt(e.address, e.size) /\ TakenBack

removeCopy ==
  LET e == Last(events)
  IN  IsLast("copy") /\ RewindAt(e.address, e.size) /\ TakenBack

removeClear ==
  LET e == Last(events)
  IN  /\ IsLast("clear")
      /\ IF Found(e.address, e.size)
         THEN RewindAt(e.address, e.size)
         ELSE UNCHANGED <<Allocations, PreviousAllocations>>
      /\ TakenBack

-----------------------------------------------------------------------------
Init ==
  /\ Allocations = <<>>
  /\ PreviousAllocations = <<>>
  /\ events = <<>>
  /\ past = <<>>

MoveForward ==
  \/ \E a \in Addresses, n \in Sizes :
       allocationAdd(a, n) \/ allocationRemove(a, n)
  \/ \E a \in Addresses, current, size \in Sizes : allocationResize(a, current, size)
  \/ \E a \in Addresses, data \in Bytes : addBlock(a, data)
  \/ \E from, to \in Addresses, n \in 1..MaxSize,
        order \in {"whole", "ascending", "descending"} : addCopy(from, to, n, order)
  \/ \E a \in Addresses, n \in 1..MaxSize : addClear(a, n)

MoveBackward ==
  \/ allocationUnadd \/ allocationUnremove \/ allocationUnresize
  \/ removeBlock \/ removeCopy \/ removeClear

Next == MoveForward \/ MoveBackward

Spec == Init /\ [][Next]_vars

-----------------------------------------------------------------------------
(***************************************************************************)
(* Properties.                                                              *)
(***************************************************************************)
Allocation ==
  [Address : Nat, Data : Seq(Values \cup {0}), Init : Seq({0, Complete}),
   PreviousType : Seq({"Uninitialized", "Partial", "Complete"}),
   PreviousData : Seq(Values \cup {0}), PreviousInit : Seq({0, Complete})]

TypeOK ==
  /\ DOMAIN Allocations \subseteq Addresses
  /\ \A s \in DOMAIN Allocations :
       /\ Allocations[s] \in Allocation
       /\ Allocations[s].Address = s
       /\ Len(Allocations[s].Init) = Size(Allocations[s])
       /\ Size(Allocations[s]) \in 1..MaxSize
  /\ PreviousAllocations \in Seq(Allocation)
  /\ Len(events) = Len(past) /\ Len(events) <= MaxEvents

(***************************************************************************)
(* Whatever was applied can be taken back: the assertions of the operation  *)
(* that takes back the latest event hold (there is a saved area of the      *)
(* length that is needed, and the allocation on the top of                  *)
(* PreviousAllocations is the one that is to be restored).  The state keeps *)
(* its type on the way.                                                     *)
(***************************************************************************)
LatestCanBeTakenBack ==
  /\ TypeOK
  /\ events # <<>> =>
       LET e == Last(events)
       IN  CASE e.op = "add"    -> CanUnadd(e.address, e.size)
             [] e.op = "remove" -> CanUnremove(e.address, e.size)
             [] e.op = "resize" -> CanUnresize(e.address, e.size, e.current)
             [] e.op \in {"block", "copy"} -> CanRewindAt(e.address, e.size)
             [] e.op = "clear"  -> Found(e.address, e.size) => CanRewindAt(e.address, e.size)

(***************************************************************************)
(* What a viewer sees of the memory is what ReversibleMemory promises: the  *)
(* events change the bytes they name and no others, and going back shows    *)
(* the memory exactly as it was, however the saved areas share vectors.     *)
(***************************************************************************)
RM == INSTANCE ReversibleMemory WITH mem <- View

ReversesExactly == RM!Spec

(***************************************************************************)
(* "Copy the value and initialization of memory beginning at Source": after *)
(* addCopy the target shows what the source showed, for copies within an    *)
(* allocation too, whose source is read after the target has been cleared.  *)
(***************************************************************************)
CopyCopies ==
  [][Len(events') > Len(events) /\ Last(events').op = "copy" =>
       \A from, to \in Addresses, n \in 1..MaxSize :
         \A order \in {"whole", "ascending", "descending"} :
           addCopy(from, to, n, order) => RM!Copy(from, to, n)]_vars

(***************************************************************************)
(* What the events and their reversal do to the memory that a viewer sees.  *)
(***************************************************************************)
MemoryIsAsRecorded == ReversesExactly /\ CopyCopies

=============================================================================
