---------------------------- MODULE ShadowMemory ----------------------------
(***************************************************************************)
(* What the traced process remembers about its own memory while it runs:   *)
(* TraceMemoryState (allocations and which bytes of them are initialized), *)
(* and TraceProcessListener (known regions, dynamic allocations, temporal  *)
(* IDs of regions, the objects of the pointers that are held in memory).   *)
(*                                                                         *)
(* The state is one record, sh, and every operation returns a new one, so  *)
(* that a wrapper's operations compose in the order in which it makes      *)
(* them.  An address is a number; a cell holds a character, an object or a *)
(* pointer, so sizeof(char) = sizeof(void * ) = 1.                          *)
(*                                                                         *)
(*   alloc    start |-> length of each TraceMemoryAllocation               *)
(*   rec      cell |-> the value that replaying the events would show, or  *)
(*            Unknown: the cell is not initialized in the shadow memory    *)
(*   known    start |-> length of each region of KnownMemory               *)
(*   dyn      the addresses in DynamicMemoryAllocations                    *)
(*   ids      RegionTemporalIDs                                            *)
(*   impo     InMemoryPointerObjects                                       *)
(*   streams, dirs   the open FILEs and DIRs                               *)
(*   lock     the memory lock of the thread: "none", "read" or "write"     *)
(*   failed   the assertions that did not hold                             *)
(***************************************************************************)
EXTENDS Integers, FiniteSets, FiniteSetsExt, Functions

CONSTANT Top                    \* the cells are 1 .. Top

Cell    == 1 .. Top
Unknown == -1
Null    == 0

\* The object of a pointer: PointerTarget(Base, TemporalID).
NoObject == [base |-> Null, id |-> 0]

Cells(a, n) == a .. (a + n - 1)

Without(f, x) == [y \in DOMAIN f \ {x} |-> f[y]]
With(f, x, v) == [y \in DOMAIN f \cup {x} |-> IF y = x THEN v ELSE f[y]]

\* assert(): the process stops at the first one that fails.
Asserts(sh, holds, what) == IF holds THEN sh ELSE [sh EXCEPT !.failed = @ \cup {what}]

(***************************************************************************)
(* TraceMemoryState.                                                       *)
(***************************************************************************)

\* The start of the allocation at or preceding an address; 0 if there is none.
getAllocationAtOrPreceding(sh, a) ==
  LET starts == {s \in DOMAIN sh.alloc : s <= a}
  IN  IF starts = {} THEN 0 ELSE Max(starts)

\* getContainingMemoryArea: the start of the area, 0 if the address is in none.
Area(sh, a) ==
  LET s == getAllocationAtOrPreceding(sh, a)
  IN  IF s # 0 /\ a < s + sh.alloc[s] THEN s ELSE 0

EndOf(sh, s) == s + sh.alloc[s]

\* getAllocationContaining asserts that one allocation contains the range.
Contained(sh, a, n) ==
  LET s == getAllocationAtOrPreceding(sh, a) IN s # 0 /\ a + n <= EndOf(sh, s)

hasKnownState(sh, a, n) == \A c \in Cells(a, n) : sh.rec[c] # Unknown

addAllocation(sh, a, n) ==
  Asserts([sh EXCEPT !.alloc = With(@, a, n),
                     !.rec = [c \in Cell |-> IF c \in Cells(a, n) THEN Unknown ELSE @[c]]],
          a \notin DOMAIN sh.alloc, "allocation already existed?")

removeAllocation(sh, a) ==
  IF a \notin DOMAIN sh.alloc THEN Asserts(sh, FALSE, "allocation doesn't exist?")
  ELSE [sh EXCEPT !.alloc = Without(@, a),
                  !.rec = [c \in Cell |-> IF c \in Cells(a, sh.alloc[a]) THEN Unknown ELSE @[c]]]

\* The shadow of the cells that are gained is uninitialized.
resizeAllocation(sh, a, n) ==
  IF a \notin DOMAIN sh.alloc THEN Asserts(sh, FALSE, "allocation doesn't exist?")
  ELSE [sh EXCEPT !.alloc[a] = n,
                  !.rec = [c \in Cell |-> IF c \in Cells(a, Max({n, sh.alloc[a]}))
                                             /\ c >= a + Min({n, sh.alloc[a]})
                                          THEN Unknown ELSE @[c]]]

(***************************************************************************)
(* Temporal IDs and the objects of pointers.                               *)
(***************************************************************************)

incrementRegionTemporalID(sh, a) == [sh EXCEPT !.ids[a] = @ + 1]

makePointerObject(sh, a) == [base |-> a, id |-> IF a = Null THEN 0 ELSE sh.ids[a]]

getInMemoryPointerObject(sh, a) == IF a \in DOMAIN sh.impo THEN sh.impo[a] ELSE NoObject

clearInMemoryPointerObjects(sh, a, n) ==
  [sh EXCEPT !.impo = [c \in DOMAIN @ \ Cells(a, n) |-> @[c]]]

\* An object that is already there is kept.
setInMemoryPointerObjectOnce(sh, a, obj) == IF a \in DOMAIN sh.impo THEN sh ELSE [sh EXCEPT !.impo = With(@, a, obj)]

setInMemoryPointerObject(sh, a, obj) ==
  [clearInMemoryPointerObjects(sh, a, 1) EXCEPT !.impo = With(@, a, obj)]

copyInMemoryPointerObjects(sh, from, to, n) ==
  LET moved == {c \in Cells(to, n) : c - to + from \in DOMAIN sh.impo}
  IN  [sh EXCEPT !.impo =
        [c \in (DOMAIN @ \ Cells(to, n)) \cup moved |->
           IF c \in moved THEN @[c - to + from] ELSE @[c]]]

(***************************************************************************)
(* The record... functions of TraceThreadListener.  m is the real memory.  *)
(***************************************************************************)
Locked(sh) == Asserts(sh, sh.lock # "none", "Global memory is not locked.")

recordUntypedState(sh, m, a, n) ==
  IF n = 0 THEN Locked(sh)
  ELSE IF ~Contained(sh, a, n) THEN Asserts(Locked(sh), FALSE, "contains")
  ELSE [Locked(sh) EXCEPT !.rec = [c \in Cell |-> IF c \in Cells(a, n) THEN m[c] ELSE @[c]]]

recordMemmove(sh, from, to, n) ==
  IF n = 0 THEN Locked(sh)
  ELSE IF ~Contained(sh, from, n) \/ ~Contained(sh, to, n)
       THEN Asserts(Locked(sh), FALSE, "contains")
  ELSE [copyInMemoryPointerObjects(Locked(sh), from, to, n) EXCEPT
          !.rec = [c \in Cell |-> IF c \in Cells(to, n) THEN @[c - to + from] ELSE @[c]]]

recordMalloc(sh, a, n) ==
  incrementRegionTemporalID(
    IF a \in sh.dyn THEN resizeAllocation(sh, a, n)
    ELSE [addAllocation(sh, a, n) EXCEPT !.dyn = @ \cup {a}], a)

\* The ID is incremented by setCurrentDynamicMemoryAllocation and once more.
recordRealloc(sh, a, n) ==
  incrementRegionTemporalID(recordMalloc(Locked(sh), a, n), a)

\* The address stays among the dynamic allocations.
recordFreeOfArea(sh, a) == removeAllocation(sh, a)

recordFree(sh, a) == [removeAllocation(sh, a) EXCEPT !.dyn = @ \ {a}]

\* KnownMemory.find: the start of the region that holds an address, or 0.
knownRegion(sh, a) ==
  LET s == {x \in DOMAIN sh.known : a \in Cells(x, sh.known[x])}
  IN  IF s = {} THEN 0 ELSE Max(s)

isKnownMemoryRegionAt(sh, a) == knownRegion(sh, a) # 0

\* End is inclusive, so a region of exactly n cells does not cover n cells.
isKnownMemoryRegionCovering(sh, a, n) ==
  LET s == knownRegion(sh, a) IN s # 0 /\ s + sh.known[s] - 1 >= a + n

addKnownMemoryRegion(sh, a, n) ==
  incrementRegionTemporalID([addAllocation(Locked(sh), a, n) EXCEPT !.known = With(@, a, n)], a)

\* The allocation is looked up at the address, the region around the address.
removeKnownMemoryRegion(sh, a) ==
  LET s == knownRegion(sh, a)
  IN  IF s = 0 THEN Locked(sh)
      ELSE [removeAllocation(Locked(sh), a) EXCEPT !.known = Without(@, s)]

recordStreamOpen(sh, f)  == [sh EXCEPT !.streams = @ \cup {f}]
recordStreamClose(sh, f) == [sh EXCEPT !.streams = @ \ {f}]
recordDirOpen(sh, d)     == [sh EXCEPT !.dirs = @ \cup {d}]
recordDirClose(sh, d)    == [sh EXCEPT !.dirs = @ \ {d}]

(***************************************************************************)
(* The checks of TraceThreadMemCheck: what the tracer tests before a       *)
(* library function, a load or a store is executed.  A check is a Boolean: *)
(* raiseError with severity Fatal ends the process.                        *)
(*                                                                         *)
(* a is the call: the registers a.p and a.q (first and second pointer      *)
(* argument), the number a.n, whether the C function succeeds (a.ok), where*)
(* a new object is placed (a.at), the real memory a.mem and the shadow     *)
(* memory a.sh.  A register is a pointer: its address, the object that     *)
(* SeeC associates with it (base, id), and gen, the C object it really     *)
(* belongs to, which SeeC cannot see.                                      *)
(***************************************************************************)

\* The number of characters before the first NUL at or after x.
Strlen(m, x) == Min({c \in Cell : c >= x /\ m[c] = 0} \cup {Top + 1}) - x

\* The check as it would be without the comparison of temporal IDs.
checkPointerArea(sh, r, x) ==
  r.base = Null \/ (Area(sh, r.base) # 0 /\ Area(sh, x) = Area(sh, r.base))

checkPointer(sh, r, x) ==
  \/ r.base = Null
  \/ /\ sh.ids[r.base] = r.id
     /\ Area(sh, r.base) # 0
     /\ Area(sh, x) = Area(sh, r.base)

memoryExistsForParameter(sh, r, x) == checkPointer(sh, r, x) /\ Area(sh, x) # 0

checkMemoryAccessForParameter(sh, x, n, access) ==
  /\ x + n <= EndOf(sh, Area(sh, x))
  /\ access = "Read" => hasKnownState(sh, x, n)

\* The address x, passed as the parameter whose object is that of r.
checkMemoryAt(sh, r, x, n, access) ==
  memoryExistsForParameter(sh, r, x) /\ checkMemoryAccessForParameter(sh, x, n, access)

checkMemory(sh, r, n, access) == checkMemoryAt(sh, r, r.addr, n, access)

\* getCStringInArea: the area holds a NUL at or after x.
isCString(a, x) == LET s == Area(a.sh, x) IN s # 0 /\ x + Strlen(a.mem, x) < EndOf(a.sh, s)

\* Every cell of the string has to be initialized; whether InvalidCString or
\* PassPointerToUninitialized is raised otherwise does not matter here.
checkCStringAt(a, r, x) ==
  /\ memoryExistsForParameter(a.sh, r, x)
  /\ isCString(a, x)
  /\ hasKnownState(a.sh, x, Strlen(a.mem, x) + 1)

checkCStringRead(a, r) == checkCStringAt(a, r, r.addr)

\* getLimitedCStringInArea: the length of what is read, the NUL included.
LimitedLength(a, x, n) == IF isCString(a, x) THEN Min({Strlen(a.mem, x) + 1, n}) ELSE n

\* checkCStringIsValid looks up the initialization of a range that, without a
\* NUL, may leave the area: getLengthOfKnownState asserts that it does not.
LimitLeavesArea(a, r, n) ==
  /\ memoryExistsForParameter(a.sh, r, r.addr)
  /\ ~isCString(a, r.addr)
  /\ ~Contained(a.sh, r.addr, n)

checkLimitedCStringRead(a, r, n) ==
  /\ memoryExistsForParameter(a.sh, r, r.addr)
  /\ ~LimitLeavesArea(a, r, n)
  /\ hasKnownState(a.sh, r.addr, LimitedLength(a, r.addr, n))

checkMemoryDoesNotOverlap(x, n, y, m) == Cells(x, n) \cap Cells(y, m) = {}

\* The elements up to the NULL have to be strings; each is checked with the
\* object that is stored for the pointer in memory.
checkCStringArray(a, r) ==
  LET ends == {c \in Cell : c >= r.addr /\ a.mem[c] = 0}
      e    == Min(ends \cup {Top + 1})
  IN  /\ memoryExistsForParameter(a.sh, r, r.addr)
      /\ e < EndOf(a.sh, Area(a.sh, r.addr))
      /\ \A c \in r.addr .. e : hasKnownState(a.sh, c, 1)
      /\ \A c \in r.addr .. (e - 1) :
           checkCStringAt(a, getInMemoryPointerObject(a.sh, c), a.mem[c])

(***************************************************************************)
(* A format with one conversion, whose argument is the string r: %5s for   *)
(* n = 5, %.5s for n = -5, %s for n = 0.  The width is taken for a limit,  *)
(* though it is a minimum; the precision, which limits what is read, is    *)
(* not looked at.                                                          *)
(***************************************************************************)
checkPrintFormat(a, r, n) ==
  IF n > 0 THEN checkLimitedCStringRead(a, r, n) ELSE checkCStringRead(a, r)

checkStreamIsValid(a, r) == a.sh.ids[r.addr] = r.id /\ r.addr \in a.sh.streams
checkStandardStreamIsValid(a, f) == f \in a.sh.streams
checkDIRIsValid(a, r) == r.addr \in a.sh.dirs

=============================================================================
