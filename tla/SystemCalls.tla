---------------------------- MODULE SystemCalls ----------------------------
(***************************************************************************)
(* stdio.h and dirent.h, and the remaining wrappers: time.h, errno.h,      *)
(* fenv.h, locale.h, math.h, and POSIX sys/stat.h, sys/time.h, sys/wait.h, *)
(* unistd.h.  The C object of a FILE or DIR is one cell, and so is a       *)
(* structure; using a stream reads that cell.  out is the number of        *)
(* characters that are recorded as written to a stream; c.out is how many  *)
(* really were.                                                            *)
(***************************************************************************)
EXTENDS StringCalls

(***************************************************************************)
(* Streams and directories.                                                *)
(***************************************************************************)

\* The result of a SimpleWrapper call: errno is recorded when it has changed.
Simple(a, lock, c) ==
  IF c.mem[Errno] # a.mem[Errno] THEN recordErrno(Locking(a, lock), c.mem) ELSE Locking(a, lock)
Outputs(a, lock, c, x, n) ==
  IF a.ok THEN recordUntypedState(Simple(a, lock, c), c.mem, x, n) ELSE Simple(a, lock, c)
OrFails(a, c) == IF a.ok THEN c ELSE Fails(c)
SetsErrno(a, uses) == OrFails(a, [Idle(a) EXCEPT !.uses = uses])
PutsOut(r, n) == [r EXCEPT !.out = n]

Opens(a, c, f) == [Creates([a EXCEPT !.at = f], c, 1) EXCEPT !.ret.addr = f, !.init = c.init \cup {f}]
Stream(a, r) == Use(r, {r.addr}, "read")
Standard == Use(Inside(StdStream), {StdStream}, "read")
TextOf(a, r) == Use(r, StrCells(a, r), "read")

\* fopen: the file name is p, the mode a literal.  errno is not recorded.
fopen(a) ==
  LET c == [Idle(a) EXCEPT !.uses = {TextOf(a, a.p)}]
  IN  IF a.ok THEN ReturningNew(Called(checkCStringRead(a, a.p), Opens(a, c, File),
                      incrementRegionTemporalID(recordStreamOpen(Reading(a), File), File)))
      ELSE ReturningNull(Called(checkCStringRead(a, a.p), Fails(c), Reading(a)))

\* The FILE is reused, with the temporal ID it has.  When it cannot be opened
\* again it is closed, but the tracer takes it to be open.
freopen(a) ==
  LET c == [Idle(a) EXCEPT !.uses = {TextOf(a, a.p), Stream(a, a.q)}]
      ok == checkCStringRead(a, a.p) /\ checkStreamIsValid(a, a.q)
  IN  IF a.ok THEN ReturningNew(Called(ok, [c EXCEPT !.ret = a.q],
                      recordStreamOpen(recordStreamClose(Reading(a), a.q.addr), a.q.addr)))
      ELSE ReturningNull(Called(ok, Fails([c EXCEPT !.obj = Without(@, a.q.gen)]), Reading(a)))

Closes(a, c) == [c EXCEPT !.obj = Without(@, a.p.gen), !.init = @ \ {a.p.addr}]

\* The stream is recorded as closed whatever fclose returns; it is closed.
fclose(a) ==
  Called(checkStreamIsValid(a, a.p), Closes(a, SetsErrno(a, {Stream(a, a.p)})), recordStreamClose(a.sh, a.p.addr))

\* By-name calls that only use the stream.
OnStream(a) == Called(checkStreamIsValid(a, a.p), SetsErrno(a, {Stream(a, a.p)}), a.sh)
fflush(a) == IF a.p.addr = Null THEN Called(checkStreamIsValid(a, a.p), Idle(a), a.sh) ELSE OnStream(a)
fwide(a) == OnStream(a)
fgetc(a) == OnStream(a)
ungetc(a) == OnStream(a)
getchar(a) == Called(checkStandardStreamIsValid(a, StdStream), [Idle(a) EXCEPT !.uses = {Standard}], a.sh)

\* At the end of the file nothing is stored.
fgets(a) ==
  LET c == IF a.ok THEN Storing(Idle(a), Text(a.p.addr, a.n - 1)) ELSE Idle(a)
  IN  IF a.ok /\ a.n > 0
      THEN Called(checkStreamIsValid(a, a.q) /\ checkMemory(a.sh, a.p, a.n, "Write"),
                  [c EXCEPT !.uses = {Stream(a, a.q), Use(a.p, Cells(a.p.addr, a.n), "write")}],
                  recordUntypedState(Writing(a), c.mem, a.p.addr, Strlen(c.mem, a.p.addr) + 1))
      ELSE ReturningNull(Called(checkStreamIsValid(a, a.q) /\ checkMemory(a.sh, a.p, a.n, "Write"),
                  [Idle(a) EXCEPT !.uses = {Stream(a, a.q), Use(a.p, Cells(a.p.addr, a.n), "write")}], Writing(a)))

\* Recorded whether or not the character was written.
fputc(a) == PutsOut([OnStream(a) EXCEPT !.c.out = IF a.ok THEN 1 ELSE 0], 1)
putchar(a) == PutsOut(Called(checkStandardStreamIsValid(a, StdStream),
                             [SetsErrno(a, {Standard}) EXCEPT !.out = IF a.ok THEN 1 ELSE 0], a.sh), 1)

fputs(a) ==
  PutsOut(Called(checkCStringRead(a, a.p) /\ checkStreamIsValid(a, a.q),
                 [SetsErrno(a, {TextOf(a, a.p), Stream(a, a.q)}) EXCEPT
                    !.out = IF a.ok THEN Strlen(a.mem, a.p.addr) ELSE 0], Reading(a)),
          Strlen(a.mem, a.p.addr))
puts(a) ==
  PutsOut(Called(checkCStringRead(a, a.p) /\ checkStandardStreamIsValid(a, StdStream),
                 [SetsErrno(a, {TextOf(a, a.p), Standard}) EXCEPT
                    !.out = IF a.ok THEN Strlen(a.mem, a.p.addr) + 1 ELSE 0], Reading(a)),
          Strlen(a.mem, a.p.addr) + 1)

(***************************************************************************)
(* Wrappers.                                                               *)
(***************************************************************************)

\* k of the n objects are read, but all n are recorded.
freadSome(a, k) ==
  LET c == OrFails(a, IF a.ok THEN Storing(Idle(a), Filled(a.p.addr, k, B)) ELSE Idle(a))
  IN  Called(checkMemory(a.sh, a.p, a.n, "Write") /\ checkStreamIsValid(a, a.q),
             [c EXCEPT !.uses = {Stream(a, a.q), Use(a.p, Cells(a.p.addr, a.n), "write")}],
             Outputs(a, "write", c, a.p.addr, a.n))
fread(a) == freadSome(a, a.n)
freadShort(a) == freadSome(a, Min({1, a.n}))

fwrite(a) ==
  LET c == SetsErrno(a, {Stream(a, a.q), Use(a.p, Cells(a.p.addr, a.n), "copy")})
  IN  PutsOut(Called(checkMemory(a.sh, a.p, a.n, "Copy") /\ checkStreamIsValid(a, a.q),
                     [c EXCEPT !.out = IF a.ok THEN a.n ELSE 0], Simple(a, "read", c)), IF a.ok THEN a.n ELSE 0)

UsesStream(a, lock) == LET c == SetsErrno(a, {Stream(a, a.p)}) IN Called(checkStreamIsValid(a, a.p), c, Simple(a, lock, c))
getc(a) == UsesStream(a, "read")
putc(a) == PutsOut([UsesStream(a, "read") EXCEPT !.c.out = IF a.ok THEN 1 ELSE 0], IF a.ok THEN 1 ELSE 0)

\* No lock is requested: recording a change of errno asserts that there is one.
ftell(a) == UsesStream(a, "none")
fseek(a) == UsesStream(a, "none")
rewind(a) == UsesStream(a, "none")
clearerr(a) == UsesStream([a EXCEPT !.ok = TRUE], "none")
feof(a) == UsesStream([a EXCEPT !.ok = TRUE], "none")
ferror(a) == UsesStream([a EXCEPT !.ok = TRUE], "none")

\* The position is an object of one cell that q points to.
fgetpos(a) ==
  LET c == [OrFails(a, IF a.ok THEN Storing(Idle(a), Filled(a.q.addr, 1, B)) ELSE Idle(a))
              EXCEPT !.uses = {Stream(a, a.p), Use(a.q, {a.q.addr}, "write")}]
  IN  Called(checkStreamIsValid(a, a.p) /\ checkMemory(a.sh, a.q, 1, "Write"), c, Outputs(a, "write", c, a.q.addr, 1))
fsetpos(a) ==
  LET c == SetsErrno(a, {Stream(a, a.p), Use(a.q, {a.q.addr}, "read")})
  IN  Called(checkStreamIsValid(a, a.p) /\ checkMemory(a.sh, a.q, 1, "Read"), c, Simple(a, "read", c))

\* The format is a literal with one conversion; see checkPrintFormat.
Printed(a, r) == LET k == Strlen(a.mem, r.addr)
                 IN  IF a.n < 0 THEN Min({k, -a.n}) ELSE Max({k, a.n})
PrintedFrom(a, r) == Use(r, IF a.n < 0 THEN LimCells(a, r, -a.n) ELSE StrCells(a, r), "read")
printf(a) ==
  PutsOut(Called(checkStandardStreamIsValid(a, StdStream) /\ checkPrintFormat(a, a.p, a.n),
                 [Idle(a) EXCEPT !.uses = {PrintedFrom(a, a.p), Standard}, !.out = Printed(a, a.p)], Writing(a)),
          Printed(a, a.p))
fprintf(a) ==
  PutsOut(Called(checkStreamIsValid(a, a.q) /\ checkPrintFormat(a, a.p, a.n),
                 [Idle(a) EXCEPT !.uses = {PrintedFrom(a, a.p), Stream(a, a.q)}, !.out = Printed(a, a.p)], Writing(a)),
          Printed(a, a.p))

\* The buffer is the area around the address: the pointer's object is not
\* checked.  A longer text is cut and then reported.
sprintf(a) ==
  LET s == Area(a.sh, a.p.addr)
      k == Printed(a, a.q)
      c == [Storing(Idle(a), Text(a.p.addr, k)) EXCEPT
              !.uses = {PrintedFrom(a, a.q), Use(a.p, Cells(a.p.addr, k + 1), "write")}, !.apart = PrintedFrom(a, a.q).cells]
  IN  Called(checkPrintFormat(a, a.q, a.n) /\ s # 0 /\ a.p.addr + k < EndOf(a.sh, s),
             c, recordUntypedState(Writing(a), c.mem, a.p.addr, k + 1))

\* snprintf(p, n, "%s", q): recorded up to the first NUL in the buffer, even
\* when n = 0 and nothing was written.
snprintf(a) ==
  LET k == Min({Strlen(a.mem, a.q.addr), a.n - 1})
      c == IF a.n = 0 THEN [Idle(a) EXCEPT !.uses = {TextOf(a, a.q)}]
           ELSE [Storing(Idle(a), Text(a.p.addr, k)) EXCEPT
                   !.uses = {TextOf(a, a.q), Use(a.p, Cells(a.p.addr, a.n), "write")}, !.apart = StrCells(a, a.q)]
  IN  Called(checkCStringRead(a, a.q) /\ checkMemory(a.sh, a.p, a.n, "Write"),
             c, recordUntypedState(Writing(a), c.mem, a.p.addr, Strlen(c.mem, a.p.addr) + 1))

\* errno is recorded as if it were a known region.
OpensStream(a, ok, c) ==
  IF a.ok THEN ReturningNew(Called(ok, Opens(a, c, File),
                  incrementRegionTemporalID(recordStreamOpen(Writing(a), File), File)))
  ELSE ReturningNull(Called(ok, Fails(c), recordUntypedState(Writing(a), Fails(c).mem, Errno, 1)))
tmpfile(a) == OpensStream(a, TRUE, Idle(a))
fdopen(a) == OpensStream(a, checkCStringRead(a, a.p), [Idle(a) EXCEPT !.uses = {TextOf(a, a.p)}])

\* L_tmpnam is 2.
tmpnam(a) ==
  LET c == IF a.p.addr = Null THEN StringChanges(Idle(a)) ELSE WritesOne(a, Text(a.p.addr, 1))
  IN  IF a.p.addr = Null THEN ReturningNew(Called(TRUE, c, StaticString(a, "write", c)))
      ELSE Called(checkMemory(a.sh, a.p, 2, "Write"), c,
                  recordUntypedState(Writing(a), c.mem, a.p.addr, Strlen(c.mem, a.p.addr) + 1))

\* Calls that read one or two strings and may set errno.
Named(a) == LET c == SetsErrno(a, {TextOf(a, a.p)}) IN Called(checkCStringRead(a, a.p), c, Simple(a, "read", c))
\* The text goes to stderr, but is not recorded.
perror(a) == [Named([a EXCEPT !.ok = TRUE]) EXCEPT !.c.out = 1]
remove(a) == Named(a)
rename(a) == LET c == SetsErrno(a, {TextOf(a, a.p), TextOf(a, a.q)})
             IN  Called(checkCStringRead(a, a.p) /\ checkCStringRead(a, a.q), c, Simple(a, "read", c))
\* system: p may be NULL; errno is not recorded.
system(a) == IF a.p.addr = Null THEN Called(TRUE, Idle(a), Reading(a))
             ELSE Called(checkCStringRead(a, a.p), SetsErrno(a, {TextOf(a, a.p)}), Reading(a))

(***************************************************************************)
(* scanf: the wrapper itself reads the characters and stores them at p.    *)
(* n characters match; without a.ok the input ends in an error after them. *)
(* w is the width of the conversion, 0 if it has none.                     *)
(***************************************************************************)
Scans(a, ok, cells, kept) ==
  LET c == Storing(Idle(a), cells)
  IN  Called(ok, [c EXCEPT !.uses = {Use(a.p, DOMAIN cells \cup {a.p.addr}, "write")}],
             recordUntypedState(Writing(a), c.mem, a.p.addr, kept))
scanString(a, w) ==
  LET room == EndOf(a.sh, Area(a.sh, a.p.addr)) - a.p.addr
      k    == IF w > 0 THEN Min({a.n, w}) ELSE a.n
      ok   == checkMemory(a.sh, a.p, IF w > 0 THEN w + 1 ELSE 0, "Write")
  IN  IF k = 0 \/ ~a.ok THEN Scans(a, ok /\ k <= room, Filled(a.p.addr, k, B), 0)
      ELSE Scans(a, ok /\ k < room, Text(a.p.addr, k), k + 1)
scanSet(a, w) == scanString(a, w)
ScanObject(a) ==
  Scans(a, checkMemory(a.sh, a.p, 1, "Write"), Filled(a.p.addr, IF a.ok THEN 1 ELSE 0, B), IF a.ok THEN 1 ELSE 0)
scanChar(a) == ScanObject(a)
scanInt(a) == ScanObject(a)
scanCount(a) == ScanObject([a EXCEPT !.ok = TRUE])
scanFloat(a) == ScanObject(a)
scanPointer(a) == ScanObject(a)

FromStdin(a, r) == [r EXCEPT !.ok = checkStandardStreamIsValid(a, StdStream) /\ @, !.c.uses = @ \cup {Standard}]
FromStream(a, r) == [r EXCEPT !.ok = checkStreamIsValid(a, a.q) /\ @, !.c.uses = @ \cup {Stream(a, a.q)}]
\* A string has no read errors.
OfString(a) == [a EXCEPT !.n = IF a.ok THEN @ ELSE 0]
FromString(a, r) == [r EXCEPT !.ok = checkCStringRead(a, a.q) /\ @, !.c.uses = @ \cup {TextOf(a, a.q)}]
scanf(a) == FromStdin(a, scanString(a, 0))
fscanf(a) == FromStream(a, scanString(a, 2))

(***************************************************************************)
(* Directories: opendir does not change the temporal ID of the DIR, and    *)
(* only the address is checked.                                            *)
(***************************************************************************)
opendir(a) ==
  LET c == [Idle(a) EXCEPT !.uses = {TextOf(a, a.p)}]
  IN  IF a.ok THEN ReturningNew(Called(checkCStringRead(a, a.p), Opens(a, c, Dir), recordDirOpen(Reading(a), Dir)))
      ELSE ReturningNull(Called(checkCStringRead(a, a.p), Fails(c), Simple(a, "read", Fails(c))))
closedir(a) ==
  LET c == IF a.ok THEN Closes(a, SetsErrno(a, {Stream(a, a.p)})) ELSE SetsErrno(a, {Stream(a, a.p)})
  IN  Called(checkDIRIsValid(a, a.p), c,
             IF a.ok THEN recordDirClose(Simple(a, "none", c), a.p.addr) ELSE Simple(a, "none", c))
UsesDir(a) == Called(checkDIRIsValid(a, a.p), [Idle(a) EXCEPT !.uses = {Stream(a, a.p)}], a.sh)
rewinddir(a) == UsesDir(a)
seekdir(a) == UsesDir(a)
telldir(a) == UsesDir(a)

\* A static object is a known region; the test that it is covered fails even
\* when it is, so it is taken away and added again.
StaticObject(a, lock, c) ==
  LET sh == Simple(a, lock, c)
      x  == c.ret.addr
  IN  recordUntypedState(
        IF isKnownMemoryRegionCovering(sh, x, 1) THEN sh
        ELSE addKnownMemoryRegion(removeKnownMemoryRegion(sh, x), x, 1), c.mem, x, 1)

readdir(a) ==
  LET c == RecordChanges([Idle(a) EXCEPT !.uses = {Stream(a, a.p)}])
  IN  IF a.ok THEN ReturningNew(Called(checkDIRIsValid(a, a.p), c, StaticObject(a, "write", c)))
      ELSE ReturningNull(Called(checkDIRIsValid(a, a.p), [Idle(a) EXCEPT !.uses = c.uses], Writing(a)))

(***************************************************************************)
(* Time, locale, processes and files.                                      *)
(***************************************************************************)

\* An output pointer r; with NULL allowed nothing is stored or recorded.
Output(a, lock, r, n, nullOK) ==
  LET skip == nullOK /\ r.addr = Null
      c == IF skip THEN SetsErrno(a, {})
           ELSE [OrFails(a, IF a.ok THEN Storing(Idle(a), Filled(r.addr, n, B)) ELSE Idle(a))
                   EXCEPT !.uses = {Use(r, Cells(r.addr, n), "write")}]
  IN  Called(skip \/ checkMemory(a.sh, r, n, "Write"), c,
             IF skip THEN Simple(a, lock, c) ELSE Outputs(a, lock, c, r.addr, n))
Input(a, lock, r) ==
  LET c == SetsErrno(a, {Use(r, {r.addr}, "read")})
  IN  Called(checkMemory(a.sh, r, 1, "Read"), c, Simple(a, lock, c))
\* Another argument is checked and read as well.
And(r, check, use) == [r EXCEPT !.ok = @ /\ check, !.c.uses = @ \cup {use}]
AndText(a, r, s) == And(r, checkCStringRead(a, s), TextOf(a, s))
NoArgument(a, lock) == LET c == SetsErrno(a, {}) IN Called(TRUE, c, Simple(a, lock, c))

time(a) == Output(a, "write", a.p, 1, TRUE)
timespec_get(a) == Output(a, "write", a.p, 1, FALSE)

\* A pointer to something inside the library.
Internal(a, c, sh) == IF a.ok THEN ReturningNew(Called(checkMemory(a.sh, a.p, 1, "Read"), c, sh))
                      ELSE ReturningNull(Called(checkMemory(a.sh, a.p, 1, "Read"), Fails([Idle(a) EXCEPT !.uses = c.uses]),
                                                Simple(a, "write", Fails(Idle(a)))))
TimeAsText(a)   == LET c == StringChanges(ReadsOne(a, {a.p.addr})) IN Internal(a, c, StaticString(a, "write", c))
TimeAsRecord(a) == LET c == RecordChanges(ReadsOne(a, {a.p.addr})) IN Internal(a, c, StaticObject(a, "write", c))
asctime(a) == TimeAsText(a)
ctime(a) == TimeAsText(a)
gmtime(a) == TimeAsRecord(a)
localtime(a) == TimeAsRecord(a)

\* The text has n - 1 characters; nothing is recorded if it does not fit.
strftime(a) ==
  LET c == IF a.ok /\ a.n > 0 THEN Storing(Idle(a), Text(a.p.addr, a.n - 1)) ELSE Idle(a)
  IN  Called(checkMemory(a.sh, a.p, a.n, "Write") /\ checkMemory(a.sh, a.q, 1, "Read"),
             [c EXCEPT !.uses = {Use(a.p, Cells(a.p.addr, a.n), "write"), Use(a.q, {a.q.addr}, "read")}],
             IF a.ok /\ a.n > 0 THEN recordUntypedState(Writing(a), c.mem, a.p.addr, Strlen(c.mem, a.p.addr) + 1)
             ELSE Writing(a))

\* mktime normalises its argument, but is wrapped as if it only read it.
mktime(a) == LET r == Input(a, "read", a.p)
             IN  [r EXCEPT !.c = IF a.ok THEN Storing(@, Filled(a.p.addr, 1, B)) ELSE @]

errno_location(a) == LET c == [Idle(a) EXCEPT !.ret = Inside(Errno)]
                     IN  ReturningNew(Called(TRUE, c, StaticObject(a, "write", c)))

fegetexceptflag(a) == Output(a, "write", a.p, 1, FALSE)
fesetexceptflag(a) == Input(a, "read", a.p)
fegetenv(a) == Output(a, "write", a.p, 1, FALSE)
fesetenv(a) == Input(a, "read", a.p)
feholdexcept(a) == Output(a, "write", a.p, 1, FALSE)
feupdateenv(a) == Input(a, "read", a.p)
remquo(a) == Output([a EXCEPT !.ok = TRUE], "write", a.p, 1, FALSE)
nan(a) == OneString(a)
frexp(a) == Output([a EXCEPT !.ok = TRUE], "write", a.p, 1, FALSE)
modf(a) == Output([a EXCEPT !.ok = TRUE], "write", a.p, 1, FALSE)

\* The locale is a string, or NULL to ask for the current one.
setlocale(a) ==
  LET ok == a.p.addr = Null \/ checkCStringRead(a, a.p)
      u  == IF a.p.addr = Null THEN {} ELSE {TextOf(a, a.p)}
      c  == StringChanges([Idle(a) EXCEPT !.uses = u])
  IN  IF a.ok THEN ReturningNew(Called(ok, c, StaticString(a, "write", c)))
      ELSE ReturningNull(Called(ok, [Idle(a) EXCEPT !.uses = u], Writing(a)))
\* The structure, here of one pointer, and the string it points to.
localeconv(a) ==
  LET c   == [StringChanges(Idle(a)) EXCEPT !.ret = Inside(Locale)]
      sh1 == recordUntypedState(addKnownMemoryRegion(removeKnownMemoryRegion(Writing(a), Locale), Locale, 1), c.mem, Locale, 1)
      sh2 == StaticString([a EXCEPT !.sh = sh1], "write", [c EXCEPT !.ret = Inside(c.mem[Locale])])
  IN  ReturningNew(Called(TRUE, c, setInMemoryPointerObject(sh2, Locale, makePointerObject(sh2, c.mem[Locale]))))

\* The table is known once; its object is set where the table is, not where
\* the pointer to it is.
CtypeTable(a) ==
  LET c     == [Idle(a) EXCEPT !.ret = Inside(Locale)]
      Once(s, x, n) == IF isKnownMemoryRegionAt(s, x) THEN s
                       ELSE recordUntypedState(addKnownMemoryRegion(s, x, n), a.mem, x, n)
      sh == Once(Once(Writing(a), Locale, 1), Static, 2)
  IN  ReturningNew(Called(TRUE, c, setInMemoryPointerObject(sh, Static, makePointerObject(sh, Static))))
ctype_b_loc(a) == CtypeTable(a)
ctype_tolower_loc(a) == CtypeTable(a)
ctype_toupper_loc(a) == CtypeTable(a)

chmod(a) == Named(a)
mkdir(a) == Named(a)
mkfifo(a) == Named(a)
mknod(a) == Named(a)
access(a) == Named(a)
rmdir(a) == Named(a)
unlink(a) == Named(a)
fchmod(a) == NoArgument(a, "read")
fstat(a) == Output(a, "write", a.p, 1, FALSE)
lstat(a) == AndText(a, Output(a, "write", a.q, 1, FALSE), a.p)
stat(a) == AndText(a, Output(a, "write", a.q, 1, FALSE), a.p)
gettimeofday(a) == Output(a, "write", a.p, 1, TRUE)
\* Neither argument may be NULL, though the second one usually is.
settimeofday(a) ==
  LET r == Input(a, "write", a.p)
      ok == checkMemory(a.sh, a.q, 1, "Read")
  IN  IF a.q.addr = Null THEN [r EXCEPT !.ok = @ /\ ok] ELSE And(r, ok, Use(a.q, {a.q.addr}, "read"))
wait(a) == Output(a, "write", a.p, 1, TRUE)
waitpid(a) == Output(a, "write", a.p, 1, TRUE)

\* No lock is requested: recording a change of errno asserts that there is one.
close(a) == NoArgument(a, "none")
dup(a) == NoArgument(a, "none")
dup2(a) == NoArgument(a, "none")
dup3(a) == NoArgument(a, "none")

pipe(a) == Output(a, "write", a.p, 2, FALSE)
\* k of the n bytes are read, but all n are recorded.
readSome(a, k) ==
  LET r == Output(a, "write", a.p, a.n, FALSE)
  IN  IF a.ok THEN [r EXCEPT !.c = [Storing(Idle(a), Filled(a.p.addr, k, B)) EXCEPT !.uses = r.c.uses],
                             !.sh = recordUntypedState(Writing(a), Storing(Idle(a), Filled(a.p.addr, k, B)).mem, a.p.addr, a.n)]
      ELSE r
read(a) == readSome(a, a.n)
readShort(a) == readSome(a, Min({1, a.n}))

\* With NULL, which the check refuses, the library would allocate the buffer.
getcwd(a) ==
  LET c == IF a.ok /\ a.n > 1 THEN Using(WritesOne(a, Text(a.p.addr, 1)), a.p, Cells(a.p.addr, a.n), "write")
           ELSE Fails([Idle(a) EXCEPT !.uses = {Use(a.p, Cells(a.p.addr, a.n), "write")}])
      sh == Simple(a, "write", c)
      ok == checkMemory(a.sh, a.p, a.n, "Write")
  IN  IF a.ok /\ a.n > 1
      THEN Returning(Called(ok, c, recordUntypedState(sh, c.mem, a.p.addr, 2)), makePointerObject(sh, Area(sh, a.p.addr)))
      ELSE ReturningNull(Called(ok, c, sh))

\* The template is changed, but it is wrapped as a string that is only read.
MakesTemp(a) == LET r == Named(a)
                IN  [r EXCEPT !.c = IF a.ok THEN Storing(@, Filled(a.p.addr, IF Strlen(a.mem, a.p.addr) > 0 THEN 1 ELSE 0, B)) ELSE @]
mkstemp(a) == MakesTemp(a)
mkostemp(a) == MakesTemp(a)
mkstemps(a) == MakesTemp(a)
mkostemps(a) == MakesTemp(a)

\* The path is p, the argument q; only a failure returns.
Execs(a, checks, uses) ==
  LET c == Fails([Idle(a) EXCEPT !.uses = {TextOf(a, a.p)} \cup uses])
  IN  Called(checkCStringRead(a, a.p) /\ checks, c, recordErrno(Reading(a), c.mem))
\* A list of strings that ends with NULL, here of one string or none.
ExecList(a) == IF a.q.addr = Null THEN Execs(a, TRUE, {})
               ELSE Execs(a, checkCStringRead(a, a.q), {TextOf(a, a.q)})
ExecArray(a) == Execs(a, checkCStringArray(a, a.q), {TextOf(a, a.q)})
execl(a) == ExecList(a)
execlp(a) == ExecList(a)
execle(a) == ExecList(a)
execv(a) == ExecArray(a)
execvp(a) == ExecArray(a)
execve(a) == ExecArray(a)

\* No lock is taken: recording errno when it fails asserts that there is one.
fork(a) == LET c == SetsErrno(a, {}) IN Called(TRUE, c, Simple(a, "none", c))
=============================================================================
