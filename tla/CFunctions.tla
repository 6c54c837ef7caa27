----------------------------- MODULE CFunctions -----------------------------
(***************************************************************************)
(* What the wrapped C functions do, as far as the wrappers depend on it:   *)
(* the cells that are read and written through each pointer, and the       *)
(* memory afterwards.  The C library is not part of the repository; these  *)
(* definitions follow from how its functions are specified and used.       *)
(*                                                                         *)
(* An effect c is a record: mem, prov (the C object of a pointer that is   *)
(* stored in a cell), init (the cells that really are initialized), obj    *)
(* (the live C objects) and tok (what strtok remembers) after the call;    *)
(* uses, the cells that are read, copied (they may be uninitialized) or    *)
(* written through each pointer; apart, the cells that what is written may *)
(* not overlap; ret, the pointer returned; out, the number of characters   *)
(* written to a stream.                                                    *)
(***************************************************************************)
EXTENDS ShadowMemory

\* The address space: an array of characters, an array of two pointers, the
\* heap, a string, a structure and the lconv inside the C library, errno, a
\* string of the environment (name and value), and the addresses of a FILE, a
\* DIR and a standard stream.
Buffer  == 1
Array   == 4
Locale  == 11
Static  == 12
Record  == 14
Errno   == 15
Environ == 17
EnvValue == 18
File    == 21
Dir     == 22
StdStream == 23

A == 91             \* two characters
B == 92
Other(ch) == IF ch = A THEN B ELSE A

At(m, c) == IF c \in Cell THEN m[c] ELSE 0
StrCells(a, r)    == Cells(r.addr, Strlen(a.mem, r.addr) + 1)
LimCells(a, r, n) == Cells(r.addr, Min({Strlen(a.mem, r.addr) + 1, n}))

Idle(a) == [mem |-> a.mem, prov |-> a.prov, init |-> a.init, obj |-> a.obj, tok |-> a.tok,
            uses |-> {}, apart |-> {}, ret |-> a.p, out |-> 0]

Use(r, cells, how) == [r |-> r, cells |-> cells, how |-> how]
Using(c, r, cells, how) == [c EXCEPT !.uses = @ \cup {Use(r, cells, how)}]

\* w maps the cells that are written to their values.
Storing(c, w) ==
  [c EXCEPT !.mem  = [x \in Cell |-> IF x \in DOMAIN w THEN w[x] ELSE @[x]],
            !.prov = [x \in Cell |-> IF x \in DOMAIN w THEN 0 ELSE @[x]],
            !.init = @ \cup DOMAIN w]

ReadsOne(a, cp)  == Using(Idle(a), a.p, cp, "read")
Reads(a, cp, cq) == Using(Using(Idle(a), a.p, cp, "read"), a.q, cq, "read")
Writes(a, cq, w) == Storing(Using(Using(Idle(a), a.p, DOMAIN w, "write"), a.q, cq, "read"), w)
WritesOne(a, w)  == Storing(Using(Idle(a), a.p, DOMAIN w, "write"), w)
Fails(c)         == Storing(c, [x \in {Errno} |-> Other(c.mem[Errno])])

ShiftedTo(a, from, to, n) == [x \in Cells(to, n) |-> At(a.mem, x - to + from)]
Filled(x, n, v) == [y \in Cells(x, n) |-> v]
\* A string of k characters at x.
Text(x, k) == [y \in Cells(x, k + 1) |-> IF y = x + k THEN 0 ELSE B]

CopyString(a) ==
  [Writes(a, StrCells(a, a.q), ShiftedTo(a, a.q.addr, a.p.addr, Strlen(a.mem, a.q.addr) + 1))
     EXCEPT !.apart = StrCells(a, a.q)]

\* strncpy fills up with NULs.
CopyLimited(a) ==
  [Writes(a, LimCells(a, a.q, a.n),
          [x \in Cells(a.p.addr, a.n) |->
             IF x - a.p.addr <= Strlen(a.mem, a.q.addr) THEN At(a.mem, x - a.p.addr + a.q.addr) ELSE 0])
     EXCEPT !.apart = LimCells(a, a.q, a.n)]

AppendTo(a, k, cq) ==
  LET e == a.p.addr + Strlen(a.mem, a.p.addr)
  IN  Using([Writes(a, cq, [x \in Cells(e, k + 1) |->
                              IF x = e + k THEN 0 ELSE At(a.mem, x - e + a.q.addr)])
               EXCEPT !.apart = cq], a.p, StrCells(a, a.p), "read")
AppendString(a)  == AppendTo(a, Strlen(a.mem, a.q.addr), StrCells(a, a.q))
AppendLimited(a) == AppendTo(a, Min({Strlen(a.mem, a.q.addr), a.n}), LimCells(a, a.q, a.n))

\* Pointers keep the object they belong to, uninitialized cells stay so.
CopyCells(a, from, to, n) ==
  LET c == Storing(Idle(a), ShiftedTo(a, from, to, n))
  IN  [c EXCEPT !.prov = [x \in Cell |-> IF x \in Cells(to, n) THEN At(a.prov, x - to + from) ELSE a.prov[x]],
                !.init = (a.init \ Cells(to, n)) \cup {x \in Cells(to, n) : x - to + from \in a.init}]
Copies(a, how) == Using(Using(CopyCells(a, a.q.addr, a.p.addr, a.n),
                              a.p, Cells(a.p.addr, a.n), "write"), a.q, Cells(a.q.addr, a.n), how)
CopyMemory(a) == [Copies(a, "copy") EXCEPT !.apart = Cells(a.q.addr, a.n)]
MoveMemory(a) == Copies(a, "read")

\* The pointer r is stored at x, through the pointer by.
StoresPointer(c, by, x, r) ==
  [Storing(Using(c, by, {x}, "write"), [y \in {x} |-> r.addr]) EXCEPT !.prov[x] = r.gen]

\* A string and a structure inside the library, which a call changes.
Inside(x) == [addr |-> x, base |-> Null, id |-> 0, gen |-> x]
StringChanges(c) ==
  [Storing(c, [x \in Cells(Static, 2) |-> IF x = Static THEN Other(c.mem[x]) ELSE 0])
     EXCEPT !.ret = Inside(Static)]
RecordChanges(c) == [Storing(c, [x \in {Record} |-> Other(c.mem[x])]) EXCEPT !.ret = Inside(Record)]

\* strtok: a token has one character and the character after it separates.
Token(a, s) ==
  LET k == Strlen(a.mem, s.addr)
      c == Using(Using(Idle(a), s, StrCells(a, s), "read"), a.q, StrCells(a, a.q), "read")
  IN  IF k = 0 THEN [c EXCEPT !.ret.addr = 0]
      ELSE IF k = 1 THEN [c EXCEPT !.ret = s, !.tok = [s EXCEPT !.addr = @ + 1]]
      ELSE [Storing(c, [x \in {s.addr + 1} |-> 0]) EXCEPT
              !.ret = s, !.tok = [s EXCEPT !.addr = @ + 2]]

\* A new C object, whose cells are not initialized, and its pointer.
Creates(a, c, n) ==
  [c EXCEPT !.obj = With(@, a.gen, [start |-> a.at, len |-> n]),
            !.init = @ \ Cells(a.at, n),
            !.ret = [addr |-> a.at, base |-> Null, id |-> 0, gen |-> a.gen]]
Ends(c, r) == [c EXCEPT !.obj = Without(@, r.gen), !.init = @ \ Cells(c.obj[r.gen].start, c.obj[r.gen].len)]

NullPointer == [addr |-> Null, base |-> Null, id |-> 0, gen |-> 0]

\* The cells of the C object a pointer belongs to, while it exists.
Live(a, r) == IF r.gen \in DOMAIN a.obj
              THEN Cells(a.obj[r.gen].start, a.obj[r.gen].len) ELSE {}
=============================================================================
