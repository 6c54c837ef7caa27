---------------------------- MODULE StringCalls ----------------------------
(***************************************************************************)
(* The functions of string.h, stdlib.h and ctype.h that work on memory:    *)
(* those the tracer recognises by name (pre... and post... of              *)
(* TraceThreadListenerDetectCalls) and those that are wrapped; dynamic     *)
(* memory; and the instructions that use pointers.                         *)
(*                                                                         *)
(* Each definition gives, for a call a, what the checks before it demand,  *)
(* what the C function does, and the shadow memory after what is recorded. *)
(***************************************************************************)
EXTENDS CFunctions

Locking(a, lock) == [a.sh EXCEPT !.lock = lock]
Reading(a) == Locking(a, "read")
Writing(a) == Locking(a, "write")

Called(ok, c, sh) == [ok |-> ok, c |-> c, sh |-> sh, ret |-> c.ret, out |-> 0]

\* The value of a call: the pointer that C returns, with an object of SeeC's.
Returning(r, o) == [r EXCEPT !.ret = [r.c.ret EXCEPT !.base = o.base, !.id = o.id]]
ReturningNull(r) == [r EXCEPT !.ret = NullPointer]

\* recordErrno
recordErrno(sh, m) ==
  recordUntypedState(
    IF isKnownMemoryRegionCovering(sh, Errno, 1) THEN sh
    ELSE addKnownMemoryRegion(removeKnownMemoryRegion(sh, Errno), Errno, 1), m, Errno, 1)

\* Nothing but reads: one string, two strings, limited strings.
OneString(a)  == Called(checkCStringRead(a, a.p), ReadsOne(a, StrCells(a, a.p)), Reading(a))
TwoStrings(a) == Called(checkCStringRead(a, a.p) /\ checkCStringRead(a, a.q),
                        Reads(a, StrCells(a, a.p), StrCells(a, a.q)), Reading(a))
TwoLimited(a) == Called(checkLimitedCStringRead(a, a.p, a.n) /\ checkLimitedCStringRead(a, a.q, a.n),
                        Reads(a, LimCells(a, a.p, a.n), LimCells(a, a.q, a.n)), Reading(a))

\* A pointer into the first argument, with its object, or NULL.
Found(a, r) == IF a.ok THEN [r EXCEPT !.ret.addr = a.p.addr + Strlen(a.mem, a.p.addr)]
                       ELSE ReturningNull(r)

atof(a) == OneString(a)
atoi(a) == OneString(a)
atol(a) == OneString(a)
atoll(a) == OneString(a)
strlen(a) == OneString(a)
strcmp(a) == TwoStrings(a)
strcoll(a) == TwoStrings(a)
strcspn(a) == TwoStrings(a)
strspn(a) == TwoStrings(a)
strncmp(a) == TwoLimited(a)
strchr(a) == Found(a, OneString(a))
strrchr(a) == Found(a, OneString(a))
strstr(a) == Found(a, TwoStrings(a))

\* The second string is checked with the object of the first parameter.
strpbrk(a) ==
  Found(a, Called(checkCStringRead(a, a.p) /\ checkCStringAt(a, a.p, a.q.addr),
                  Reads(a, StrCells(a, a.p), StrCells(a, a.q)), Reading(a)))

memchr(a) ==
  LET r == Called(checkMemory(a.sh, a.p, a.n, "Read"), ReadsOne(a, Cells(a.p.addr, a.n)), Reading(a))
  IN  IF a.ok THEN r ELSE ReturningNull(r)

memcmp(a) ==
  Called(checkMemory(a.sh, a.p, a.n, "Read") /\ checkMemory(a.sh, a.q, a.n, "Read"),
         Reads(a, Cells(a.p.addr, a.n), Cells(a.q.addr, a.n)), Reading(a))

memcpy(a) ==
  Called(/\ checkMemory(a.sh, a.q, a.n, "Copy")
         /\ checkMemory(a.sh, a.p, a.n, "Write")
         /\ checkMemoryDoesNotOverlap(a.p.addr, a.n, a.q.addr, a.n),
         CopyMemory(a),
         recordMemmove(Writing(a), a.q.addr, a.p.addr, a.n))

memmove(a) ==
  Called(checkMemory(a.sh, a.q, a.n, "Read") /\ checkMemory(a.sh, a.p, a.n, "Write"),
         MoveMemory(a),
         recordMemmove(Writing(a), a.q.addr, a.p.addr, a.n))

memset(a) ==
  LET c == WritesOne(a, Filled(a.p.addr, a.n, B))
  IN  Called(checkMemory(a.sh, a.p, a.n, "Write"), c,
             recordUntypedState(Writing(a), c.mem, a.p.addr, a.n))

\* The terminating NUL is not recorded.
strcpyWithoutNUL(a) ==
  LET k == Strlen(a.mem, a.q.addr) + 1
      c == CopyString(a)
  IN  Called(/\ checkCStringRead(a, a.q)
             /\ checkMemory(a.sh, a.p, k, "Write")
             /\ checkMemoryDoesNotOverlap(a.p.addr, k, a.q.addr, k),
             c, recordUntypedState(Writing(a), c.mem, a.p.addr, Strlen(c.mem, a.q.addr)))

strcpy(a) ==
  LET k == Strlen(a.mem, a.q.addr) + 1
      c == CopyString(a)
  IN  Called(/\ checkCStringRead(a, a.q)
             /\ checkMemory(a.sh, a.p, k, "Write")
             /\ checkMemoryDoesNotOverlap(a.p.addr, k, a.q.addr, k),
             c, recordUntypedState(Writing(a), c.mem, a.p.addr, Strlen(c.mem, a.q.addr) + 1))

strncpy(a) ==
  LET c == CopyLimited(a)
  IN  Called(/\ checkMemory(a.sh, a.p, a.n, "Write")
             /\ checkLimitedCStringRead(a, a.q, a.n)
             /\ checkMemoryDoesNotOverlap(a.p.addr, a.n, a.q.addr, LimitedLength(a, a.q.addr, a.n)),
             c, recordUntypedState(Writing(a), c.mem, a.p.addr, a.n))

\* What is appended is recorded from the length the string has afterwards.
Appended(a, c, n) ==
  recordUntypedState(Writing(a), c.mem, a.p.addr + Strlen(c.mem, a.p.addr) + 1 - n, n)

strcat(a) ==
  LET k == Strlen(a.mem, a.q.addr) + 1
      c == AppendString(a)
  IN  Called(/\ checkCStringRead(a, a.q)
             /\ checkCStringRead(a, a.p)
             /\ checkMemoryAt(a.sh, a.p, a.p.addr + Strlen(a.mem, a.p.addr), k, "Write"),
             c, Appended(a, c, k))

\* The check returns when the limit is 0; it leaves no room for the NUL that
\* is added when the limit cuts the source.
strncat(a) ==
  LET k == LimitedLength(a, a.q.addr, a.n)
      c == AppendLimited(a)
  IN  Called(/\ checkLimitedCStringRead(a, a.q, a.n)
             /\ k = 0 \/ /\ checkCStringRead(a, a.p)
                         /\ checkMemoryAt(a.sh, a.p, a.p.addr + Strlen(a.mem, a.p.addr), k, "Write"),
             c, Appended(a, c, Min({Strlen(a.mem, a.q.addr), a.n}) + 1))

\* The length is that of the string from the second character on.
strxfrm(a) ==
  LET w == LimCells(a, a.q, a.n)
      c == Using([Writes(a, w, ShiftedTo(a, a.q.addr, a.p.addr, Cardinality(w))) EXCEPT !.apart = w],
                 a.p, Cells(a.p.addr, a.n), "write")
  IN  IF a.p.addr = Null THEN Called(checkCStringRead(a, a.q), Using(Idle(a), a.q, StrCells(a, a.q), "read"), Writing(a))
      ELSE Called(checkLimitedCStringRead(a, a.q, a.n) /\ checkMemory(a.sh, a.p, a.n, "Write"), c,
                  recordUntypedState(Writing(a), c.mem, a.p.addr, Strlen(c.mem, a.p.addr + 1)))

\* A string inside the library is a known region of its length; it is always
\* taken away and added again, so older pointers to it are outdated.
StaticString(a, lock, c) ==
  recordUntypedState(
    addKnownMemoryRegion(removeKnownMemoryRegion(Locking(a, lock), c.ret.addr),
                         c.ret.addr, Strlen(c.mem, c.ret.addr) + 1),
    c.mem, c.ret.addr, Strlen(c.mem, c.ret.addr) + 1)

ReturningNew(r) == Returning(r, makePointerObject(r.sh, r.c.ret.addr))

strerror(a) == LET c == StringChanges(Idle(a)) IN ReturningNew(Called(TRUE, c, StaticString(a, "write", c)))

\* The value lies inside the string of the environment table.
getenv(a) ==
  LET c == [ReadsOne(a, StrCells(a, a.p)) EXCEPT
              !.ret = [addr |-> EnvValue, base |-> Null, id |-> 0, gen |-> Environ]]
  IN  IF a.ok THEN ReturningNew(Called(checkCStringRead(a, a.p), c, StaticString(a, "read", c)))
      ELSE ReturningNull(Called(checkCStringRead(a, a.p), c, Reading(a)))

\* strtol and the others: the end of the number is stored through q.  errno,
\* which a number out of range changes, is not recorded.
ToNumber(a) ==
  LET c0 == IF a.ok THEN ReadsOne(a, StrCells(a, a.p)) ELSE Fails(ReadsOne(a, StrCells(a, a.p)))
      c  == IF a.q.addr = Null THEN c0
            ELSE StoresPointer(c0, a.q, a.q.addr, [a.p EXCEPT !.addr = @ + Strlen(a.mem, @)])
  IN  Called(/\ checkCStringRead(a, a.p)
             /\ a.q.addr # Null => checkMemory(a.sh, a.q, 1, "Write"),
             c,
             IF a.q.addr = Null THEN Writing(a)
             ELSE recordUntypedState(
                    setInMemoryPointerObject(Writing(a), a.q.addr, [base |-> a.p.base, id |-> a.p.id]),
                    c.mem, a.q.addr, 1))
strtol(a) == ToNumber(a)
strtoll(a) == ToNumber(a)
strtoul(a) == ToNumber(a)
strtoull(a) == ToNumber(a)
strtof(a) == ToNumber(a)
strtod(a) == ToNumber(a)
strtold(a) == ToNumber(a)
strtoimax(a) == ToNumber(a)
strtoumax(a) == ToNumber(a)

(***************************************************************************)
(* The wrappers.                                                           *)
(***************************************************************************)
strcasecmp(a) == TwoStrings(a)
strncasecmp(a) == TwoLimited(a)

\* The origin of the result is None: it has no object.
strcasestr(a) == Returning(Found(a, TwoStrings(a)), NoObject)

strnlen(a) == Called(checkLimitedCStringRead(a, a.p, a.n), ReadsOne(a, LimCells(a, a.p, a.n)), Reading(a))

\* The copy is a dynamic allocation with n characters and a NUL.
Duplicate(a, n) ==
  LET c == Creates(a, ReadsOne(a, LimCells(a, a.p, n)), Min({Strlen(a.mem, a.p.addr), n}) + 1)
      k == Min({Strlen(a.mem, a.p.addr), n})
  IN  Storing(c, [x \in Cells(a.at, k + 1) |-> IF x = a.at + k THEN 0 ELSE At(a.mem, x - a.at + a.p.addr)])
RecordCopy(a, c) ==
  LET n == Strlen(c.mem, a.at) + 1
  IN  recordUntypedState(recordMalloc(Writing(a), a.at, n), c.mem, a.at, n)

strdup(a) ==
  LET c == IF a.ok THEN Duplicate(a, Top) ELSE Fails(ReadsOne(a, StrCells(a, a.p)))
  IN  IF a.ok THEN ReturningNew(Called(checkCStringRead(a, a.p), c, RecordCopy(a, c)))
      ELSE ReturningNull(Called(checkCStringRead(a, a.p), c, recordErrno(Writing(a), c.mem)))

\* The origin of the result is None: it has no object.
strndup(a) ==
  LET c == IF a.ok THEN Duplicate(a, a.n) ELSE Fails(ReadsOne(a, LimCells(a, a.p, a.n)))
  IN  IF a.ok THEN Called(checkLimitedCStringRead(a, a.p, a.n), c, RecordCopy(a, c))
      ELSE ReturningNull(Called(checkLimitedCStringRead(a, a.p, a.n), c, recordErrno(Writing(a), c.mem)))

\* p is the char **.  The string it points to is checked with the object of
\* the char ** itself; the new value of *stringp is not recorded.
strsep(a) ==
  LET s == [addr |-> a.mem[a.p.addr], base |-> a.p.base, id |-> a.p.id, gen |-> a.prov[a.p.addr]]
      more == a.ok /\ s.addr # Null /\ Strlen(a.mem, s.addr) > 1
      c0 == Reads(a, {a.p.addr}, StrCells(a, a.q))
      c1 == IF s.addr = Null THEN c0 ELSE Using(c0, s, StrCells(a, s), "read")
      c  == IF more THEN StoresPointer(Storing(c1, [x \in {s.addr + 1} |-> 0]),
                                       a.p, a.p.addr, [s EXCEPT !.addr = @ + 2])
            ELSE StoresPointer(c1, a.p, a.p.addr, NullPointer)
      o  == getInMemoryPointerObject(a.sh, a.p.addr)
  IN  Returning(Called(/\ checkMemory(a.sh, a.p, 1, "Write")
                       /\ checkCStringAt(a, a.p, s.addr)
                       /\ checkCStringRead(a, a.q),
                       [c EXCEPT !.ret = s],
                       IF more THEN recordUntypedState(Writing(a), c.mem, s.addr + 1, 1)
                       ELSE setInMemoryPointerObject(Writing(a), a.p.addr, NoObject)), o)

\* tok holds the C library's position in the string and, as base and id,
\* CurrentStringPointerObject.  A NULL string is not checked.
strtok(a) ==
  LET s == IF a.p.addr # Null THEN a.p ELSE a.tok
      c == Token(a, s)
  IN  [Called(/\ a.p.addr # Null => checkCStringRead(a, a.p)
              /\ checkCStringRead(a, a.q),
              c, IF c.ret.addr = Null THEN Writing(a)
                 ELSE recordUntypedState(Writing(a), c.mem, c.ret.addr + Strlen(c.mem, c.ret.addr), 1))
         EXCEPT !.ret = IF c.ret.addr = Null THEN NullPointer ELSE @]

----------------------------------------------------------------------------
(* Dynamic memory, and the instructions that use pointers: load, store,     *)
(* pointer arithmetic, alloca and the end of a function.                    *)

Stack == 10                         \* where the only local variable is placed

malloc(a) ==
  IF a.ok THEN ReturningNew(Called(TRUE, Creates(a, Idle(a), a.n), recordMalloc(a.sh, a.at, a.n)))
  ELSE ReturningNull(Called(TRUE, Fails(Idle(a)), a.sh))

calloc(a) ==
  LET c == Storing(Creates(a, Idle(a), a.n), Filled(a.at, a.n, 0))
  IN  IF a.ok THEN ReturningNew(Called(TRUE, c, recordUntypedState(recordMalloc(Writing(a), a.at, a.n),
                                                                  c.mem, a.at, a.n)))
      ELSE ReturningNull(Called(TRUE, Fails(Idle(a)), Writing(a)))

\* Only the address is looked up, not the object of the pointer.
isCurrentDynamicMemoryAllocation(a, r) == r.addr \in a.sh.dyn

Freed(a) == IF a.p.gen \in DOMAIN a.obj THEN Ends(Using(Idle(a), a.p, {a.p.addr}, "free"), a.p)
            ELSE Using(Idle(a), a.p, {a.p.addr}, "free")

free(a) ==
  Called(isCurrentDynamicMemoryAllocation(a, a.p),
         IF a.p.addr = Null THEN Idle(a) ELSE Freed(a),
         IF a.p.addr \in a.sh.dyn THEN recordFree(Writing(a), a.p.addr) ELSE a.sh)

\* The block stays in place (a.at is its address), or is moved.
Moved(a) ==
  LET n == Min({a.sh.alloc[a.p.addr], a.n})
      c == CopyCells(a, a.p.addr, a.at, n)
      w == Creates(a, Freed(a), a.n)
  IN  [w EXCEPT !.mem = c.mem, !.prov = c.prov,
                !.init = @ \cup {x \in Cells(a.at, n) : x - a.at + a.p.addr \in a.init}]

realloc(a) ==
  LET ok == a.p.addr = Null \/ isCurrentDynamicMemoryAllocation(a, a.p)
      n  == Min({a.sh.alloc[a.p.addr], a.n})
      sh == Writing(a)
  IN  IF a.p.addr = Null \/ a.p.addr \notin a.sh.dyn THEN [malloc(a) EXCEPT !.ok = ok, !.c.uses = IF a.p.addr = Null THEN {} ELSE {Use(a.p, {a.p.addr}, "free")}]
      ELSE IF a.n = 0 THEN ReturningNull(Called(ok, Freed(a), recordFree(sh, a.p.addr)))
      ELSE IF ~a.ok THEN ReturningNull(Called(ok, Fails(Using(Idle(a), a.p, {a.p.addr}, "free")), sh))
      ELSE IF a.at = a.p.addr THEN ReturningNew(Called(ok, Moved(a), recordRealloc(sh, a.at, a.n)))
      ELSE ReturningNew(Called(ok, Moved(a),
             recordFree(recordMemmove(recordMalloc(sh, a.at, a.n), a.p.addr, a.at, n), a.p.addr)))

checkAccess(a, r, access) ==
  checkPointer(a.sh, r, r.addr) /\ Area(a.sh, r.addr) # 0 /\ checkMemoryAccessForParameter(a.sh, r.addr, 1, access)

loadChar(a) == Called(checkAccess(a, a.p, "Read"), ReadsOne(a, {a.p.addr}), Writing(a))

\* A pointer is loaded into q.  Where memory holds no object for it, the
\* instruction keeps the one of its previous execution (a.loaded).
loadPointer(a) ==
  LET o == getInMemoryPointerObject(a.sh, a.p.addr)
      r == Called(checkAccess(a, a.p, "Read"),
                  [ReadsOne(a, {a.p.addr}) EXCEPT !.ret = [NullPointer EXCEPT !.addr = At(a.mem, a.p.addr),
                                                                             !.gen = At(a.prov, a.p.addr)]], Writing(a))
  IN  Returning(r, IF o = NoObject THEN a.loaded ELSE o)

storeChar(a) ==
  LET c == WritesOne(a, Filled(a.p.addr, 1, IF a.ok THEN B ELSE 0))
  IN  Called(checkAccess(a, a.p, "Write"), c, recordUntypedState(Writing(a), c.mem, a.p.addr, 1))

\* A pointer without object leaves the object that the memory held.
storePointer(a) ==
  LET c == StoresPointer(Idle(a), a.p, a.p.addr, a.q)
      sh == IF a.q.base = Null THEN Writing(a)
            ELSE setInMemoryPointerObject(Writing(a), a.p.addr, [base |-> a.q.base, id |-> a.q.id])
  IN  Called(checkAccess(a, a.p, "Write"), c, recordUntypedState(sh, c.mem, a.p.addr, 1))

\* p + 1 or p - 1: the result must be in the area of the object or one past it.
getElementPtr(a) ==
  LET x == IF a.ok THEN a.p.addr + 1 ELSE a.p.addr - 1
      s == Area(a.sh, a.p.base)
  IN  Called(a.p.base # Null /\ a.sh.ids[a.p.base] = a.p.id /\ s # 0 /\ x \in s .. EndOf(a.sh, s),
             [Using(Idle(a), a.p, {x}, "point") EXCEPT !.ret.addr = x], a.sh)

alloca(a) ==
  ReturningNew(Called(TRUE,
    [Creates([a EXCEPT !.at = Stack], Idle(a), 1) EXCEPT !.ret.addr = Stack],
    incrementRegionTemporalID(addAllocation(Writing(a), Stack, 1), Stack)))

\* notifyFunctionEnd: the area of the function's variables is removed.
functionEnd(a) ==
  Called(TRUE, [Idle(a) EXCEPT !.obj = [g \in {x \in DOMAIN @ : @[x].start # Stack} |-> @[g]],
                               !.init = @ \ {Stack}],
         IF Stack \in DOMAIN a.sh.alloc THEN removeAllocation(Writing(a), Stack) ELSE Writing(a))
============================================================================
