---------------------------- MODULE LibraryCalls ----------------------------
(***************************************************************************)
(* A traced C program: it calls library functions, loads and stores, with  *)
(* two pointers p and q.  Before each call the tracer checks it against    *)
(* the shadow memory, and stops the program if the check fails; afterwards *)
(* it records what the call changed.                                       *)
(*                                                                         *)
(* The specification compares what the tracer decides and records with     *)
(* what C really does (CFunctions).  verdict is a history variable: the    *)
(* first call on which they disagree, after which the program is not       *)
(* followed any further:                                                   *)
(*   missed    the call was let through, but uses memory it may not use    *)
(*   wrong     the program was stopped, but the call is correct            *)
(*   lost      the call changed something that is not in the recording     *)
(*   surplus   memory is recorded as initialized that is not               *)
(*   asserts   an assertion of the tracer fails                            *)
(***************************************************************************)
EXTENDS SystemCalls

CONSTANTS HeapStarts,               \* where the allocator may place a block
          Profiles                  \* the programs: see MCLibraryCalls

VARIABLES mem, prov, init, obj, tok,    \* C: CFunctions says what they are
          p, q,                         \* the program's two pointers
          sh,                           \* the shadow memory
          loaded,                       \* the object of the value loaded last
          prof, steps, ended, verdict

vars == <<mem, prov, init, obj, tok, p, q, sh, loaded, prof, steps, ended, verdict>>

Heap == 6 .. 9
NoVerdict == [kind |-> "none", call |-> "none", why |-> "none"]
Verdict(kind, call, why) == [kind |-> kind, call |-> call, why |-> why]

\* Objects that exist from the start, named by their first cells.
Objects == [g \in {Buffer, Array, Locale, Static, Record, Errno, Environ, StdStream} |->
              [start |-> g, len |-> CASE g \in {Buffer, Environ} -> 3
                                      [] g \in {Array, Static} -> 2
                                      [] OTHER -> 1]]
PointerTo(x, g) == [addr |-> x, base |-> g, id |-> 0, gen |-> g]
StandardStream  == [PointerTo(StdStream, StdStream) EXCEPT !.base = Null]

\* The globals and the environment are known; Buffer as far as it is written.
InitialShadow(m, k) ==
  [alloc   |-> [g \in {Buffer, Array, Environ} |-> Objects[g].len],
   rec     |-> [c \in Cell |-> IF c \in Cells(Buffer, k) \cup Cells(Array, 2) \cup Cells(Environ, 3)
                               THEN m[c] ELSE Unknown],
   known   |-> [g \in {Environ} |-> 3],
   dyn     |-> {},
   ids     |-> [c \in Cell \cup {0} |-> 0],
   impo    |-> [c \in {Array} |-> [base |-> Environ, id |-> 0]],
   streams |-> {StdStream}, dirs |-> {}, lock |-> "none", failed |-> {}]

Init ==
  \E pr \in Profiles, k \in 0 .. 3, text \in [Cells(Buffer, 3) -> {0, A}] :
    /\ k \in pr.written
    /\ \A c \in DOMAIN text : text[c] = 0 => c \in pr.ends
    /\ prof = pr
    /\ mem = [c \in Cell |-> IF c \in DOMAIN text THEN text[c]
                             ELSE IF c = Array THEN Environ ELSE IF c = Locale THEN Static
                             ELSE IF c \in {Array + 1, Static + 1, Environ + 2} THEN 0 ELSE A]
    /\ prov = [c \in Cell |-> CASE c = Array -> Environ [] c = Locale -> Static [] OTHER -> 0]
    /\ init = Cells(Buffer, k) \cup Cells(Array, 2) \cup Cells(Environ, 3) \cup Cells(Static, 2) \cup {Locale, Record, Errno, StdStream}
    /\ obj = Objects
    /\ tok = NullPointer
    /\ p \in pr.p /\ q \in pr.q
    /\ sh = InitialShadow(mem, k) /\ loaded = NoObject
    /\ steps = 0 /\ ended = FALSE /\ verdict = NoVerdict

----------------------------------------------------------------------------
\* The call that is made: new objects are named by the number of the step.
TheCall(n, ok, at) ==
  [p |-> p, q |-> q, n |-> n, ok |-> ok, at |-> at, gen |-> 100 + steps, mem |-> mem, prov |-> prov,
   init |-> init, obj |-> obj, tok |-> tok, sh |-> sh, loaded |-> loaded]

(***************************************************************************)
(* What C allows.                                                          *)
(***************************************************************************)
\* A pointer that is used points to its object or, if no cell is used, past it.
End(a, r)   == a.obj[r.gen].start + a.obj[r.gen].len
Exists(a, r) == r.gen \in DOMAIN a.obj
Valid(a, u) ==
  /\ Exists(a, u.r)
  /\ u.r.addr \in Live(a, u.r) \cup {End(a, u.r)}
  /\ CASE u.how = "read"  -> u.cells \subseteq (Live(a, u.r) \cap a.init)
       [] u.how = "free"  -> a.obj[u.r.gen].start = u.r.addr /\ u.r.addr \in Heap
       [] u.how = "point" -> u.cells \subseteq (Live(a, u.r) \cup {End(a, u.r)})
       [] OTHER           -> u.cells \subseteq Live(a, u.r)

Reason(name, a, u) ==
  CASE name = "strtok" /\ u.r = a.tok /\ a.p.addr = Null -> "saved"
    [] u.r.addr = Null                          -> "null"
    [] u.r.addr \in {File, Dir, StdStream}       -> "closed"
    [] ~Exists(a, u.r)                          -> IF u.r.base = Null THEN "dead, no object" ELSE "dead"
    [] ~(u.cells \subseteq Live(a, u.r))        -> "bounds"
    [] OTHER                                    -> "uninitialized"

\* Why a correct call is refused, as far as its pointers tell.
Refusal(name, a, c) ==
  CASE \E u \in c.uses : Exists(a, u.r) /\ u.r.addr = End(a, u.r) -> "one past the end"
    [] \A u \in c.uses : u.r # a.p              -> "not used"
    [] a.p.base = Null                          -> "no object"
    [] \E u \in c.uses : u.r.base # Null /\ a.sh.ids[u.r.base] # u.r.id -> "outdated"
    [] OTHER                                    -> "other"

Overlaps(c) == \E u \in c.uses : u.how = "write" /\ u.cells \cap c.apart # {}
Bad(a, c)   == {u \in c.uses : ~Valid(a, u)}

\* New objects are placed where no other object is, those of the heap in it.
Placed(o) == /\ \A g, h \in DOMAIN o : g # h => Cells(o[g].start, o[g].len) \cap Cells(o[h].start, o[h].len) = {}
             /\ \A g \in DOMAIN o : o[g].start \in Heap => Cells(o[g].start, o[g].len) \subseteq Heap

\* What is known about memory that is there: is it what is in it?
Covered(s) == UNION {Cells(x, s.alloc[x]) : x \in DOMAIN s.alloc}
LostCells(s, m, i) == {x \in Covered(s) : \/ s.rec[x] # Unknown /\ s.rec[x] # m[x]
                                          \/ s.rec[x] = Unknown /\ x \in i}

Judge(a, r, name) ==
  LET bad == Bad(a, r.c)
      s   == r.sh
  IN  IF ~r.ok
      THEN IF bad # {} \/ Overlaps(r.c) THEN NoVerdict
           ELSE Verdict("wrong", name, Refusal(name, a, r.c))
      ELSE IF bad # {} THEN Verdict("missed", name, Reason(name, a, CHOOSE u \in bad : TRUE))
      ELSE IF Overlaps(r.c) THEN Verdict("missed", name, "overlap")
      ELSE IF s.failed # {} THEN Verdict("asserts", name, CHOOSE f \in s.failed : TRUE)
      ELSE IF LostCells(s, r.c.mem, r.c.init) # {}
           THEN Verdict("lost", name, IF LostCells(s, r.c.mem, r.c.init) = {Errno} THEN "errno" ELSE "memory")
      ELSE IF r.out # r.c.out THEN Verdict("lost", name, "text")
      ELSE IF \E x \in Covered(s) : s.rec[x] # Unknown /\ x \notin r.c.init THEN Verdict("surplus", name, "memory")
      ELSE NoVerdict

\* The call: checks, the C function, and what is recorded, under the lock.
CallResult(name, a, r) ==
  /\ r.ok => Bad(a, r.c) # {} \/ Placed(r.c.obj)
  /\ verdict' = Judge(a, r, name)
  /\ ended' = (~r.ok \/ verdict' # NoVerdict)
  /\ steps' = steps + 1
  /\ IF ended' THEN UNCHANGED <<mem, prov, init, obj, tok, p, q, sh, loaded>>
     ELSE /\ mem' = r.c.mem /\ prov' = r.c.prov /\ init' = r.c.init /\ obj' = r.c.obj /\ tok' = r.c.tok
          /\ sh' = [r.sh EXCEPT !.lock = "none"]
          /\ IF name = "loadPointer"
             THEN q' = r.ret /\ loaded' = [base |-> r.ret.base, id |-> r.ret.id] /\ UNCHANGED p
             ELSE p' = r.ret /\ UNCHANGED <<q, loaded>>
  /\ UNCHANGED prof

\* Functions with a size, a limit or a width; the others are called once.
TakesNumber ==
  {"calloc", "fgets", "fprintf", "fread", "freadShort", "fscanf", "fscanf %[", "fwrite", "getcwd", "malloc", "memchr",
   "memcmp", "memcpy", "memmove", "memset", "printf", "read", "readShort", "realloc", "scanf", "snprintf", "sprintf",
   "sscanf", "sscanf %2s", "sscanf %[", "strftime", "strncasecmp", "strncat", "strncmp", "strncpy", "strndup",
   "strnlen", "strxfrm"}

Call(name, a, result) ==
  /\ name \in prof.calls /\ (a.n = 0 \/ name \in TakesNumber)
  /\ \E r \in {result} : CallResult(name, a, r)

\* q = p
CopyPointer ==
  /\ "q = p" \in prof.calls /\ p # q
  /\ q' = p
  /\ steps' = steps + 1
  /\ UNCHANGED <<mem, prov, init, obj, tok, p, sh, loaded, prof, ended, verdict>>

\* p = q
RestorePointer ==
  /\ "p = q" \in prof.calls /\ p # q
  /\ p' = q
  /\ steps' = steps + 1
  /\ UNCHANGED <<mem, prov, init, obj, tok, q, sh, loaded, prof, ended, verdict>>

\* p = &global
AddressOf(g) ==
  /\ "p = &g" \in prof.calls
  /\ p' = [PointerTo(g, g) EXCEPT !.id = sh.ids[g]] /\ p' # p
  /\ steps' = steps + 1
  /\ UNCHANGED <<mem, prov, init, obj, tok, q, sh, loaded, prof, ended, verdict>>

(***************************************************************************)
(* The program is well typed: what p and q point to decides the functions  *)
(* they can be passed to.                                                  *)
(***************************************************************************)
IsFile(r) == r.addr \in {File, StdStream, Null}
IsDir(r)  == r.addr = Dir
IsArray(r) == r.gen \in {Array, Locale}
IsObject(r) == ~IsDir(r) /\ ~IsArray(r) /\ r.addr \notin {File, StdStream}
IsText(r) == IsObject(r) /\ r.gen \notin {Record, Errno}

\* Functions of one string or block p.
ReadText(a) ==
  \/ Call("atof", a, atof(a))
  \/ Call("atoi", a, atoi(a))
  \/ Call("atol", a, atol(a))
  \/ Call("atoll", a, atoll(a))
  \/ Call("strlen", a, strlen(a))
  \/ Call("strchr", a, strchr(a))
  \/ Call("strrchr", a, strrchr(a))
  \/ Call("memchr", a, memchr(a))
  \/ Call("memset", a, memset(a))
  \/ Call("strnlen", a, strnlen(a))
  \/ Call("nan", a, nan(a))
  \/ Call("getenv", a, getenv(a))
  \/ Call("remove", a, remove(a))
  \/ Call("perror", a, perror(a))
  \/ Call("system", a, system(a))
  \/ Call("chmod", a, chmod(a))
  \/ Call("mkdir", a, mkdir(a))
  \/ Call("mkfifo", a, mkfifo(a))
  \/ Call("mknod", a, mknod(a))
  \/ Call("access", a, access(a))
  \/ Call("rmdir", a, rmdir(a))
  \/ Call("unlink", a, unlink(a))
  \/ Call("mkstemp", a, mkstemp(a))
  \/ Call("mkostemp", a, mkostemp(a))
  \/ Call("mkstemps", a, mkstemps(a))
  \/ Call("mkostemps", a, mkostemps(a))
  \/ Call("tmpnam", a, tmpnam(a))
  \/ Call("getcwd", a, getcwd(a))
  \/ Call("puts", a, puts(a))
  \/ Call("setlocale", a, setlocale(a))

\* Functions of two strings or blocks.
TwoTexts(a) ==
  \/ Call("strcmp", a, strcmp(a))
  \/ Call("strcoll", a, strcoll(a))
  \/ Call("strcspn", a, strcspn(a))
  \/ Call("strspn", a, strspn(a))
  \/ Call("strncmp", a, strncmp(a))
  \/ Call("strstr", a, strstr(a))
  \/ Call("strpbrk", a, strpbrk(a))
  \/ Call("memcmp", a, memcmp(a))
  \/ Call("memcpy", a, memcpy(a))
  \/ Call("memmove", a, memmove(a))
  \/ Call("strcpy", a, strcpy(a))
  \/ Call("strncpy", a, strncpy(a))
  \/ Call("strcat", a, strcat(a))
  \/ Call("strncat", a, strncat(a))
  \/ Call("strxfrm", a, strxfrm(a))
  \/ Call("strcasecmp", a, strcasecmp(a))
  \/ Call("strncasecmp", a, strncasecmp(a))
  \/ Call("strcasestr", a, strcasestr(a))
  \/ Call("strtok", a, strtok(a))
  \/ Call("rename", a, rename(a))
  \/ Call("sprintf", a, sprintf(a))
  \/ Call("snprintf", a, snprintf(a))
  \/ Call("execl", a, execl(a))
  \/ Call("execlp", a, execlp(a))
  \/ Call("execle", a, execle(a))
  \/ Call("lstat", a, lstat(a))
  \/ Call("stat", a, stat(a))
  \/ Call("strftime", a, strftime(a))
  \/ Call("settimeofday", a, settimeofday(a))
  \/ Call("sscanf", a, FromString(a, scanString(OfString(a), 0)))
  \/ Call("sscanf %2s", a, FromString(a, scanString(OfString(a), 2)))
  \/ Call("sscanf %[", a, FromString(a, scanSet(OfString(a), 0)))
  \/ Call("sscanf %c", a, FromString(a, scanChar(OfString(a))))
  \/ Call("sscanf %d", a, FromString(a, scanInt(OfString(a))))
  \/ Call("sscanf %n", a, FromString(a, scanCount(OfString(a))))
  \/ Call("sscanf %f", a, FromString(a, scanFloat(OfString(a))))
  \/ Call("sscanf %p", a, FromString(a, scanPointer(OfString(a))))

\* Functions of a string p and an array of pointers q.
WithArray(a) ==
  \/ Call("strtol", a, strtol(a))
  \/ Call("strtoll", a, strtoll(a))
  \/ Call("strtoul", a, strtoul(a))
  \/ Call("strtoull", a, strtoull(a))
  \/ Call("strtof", a, strtof(a))
  \/ Call("strtod", a, strtod(a))
  \/ Call("strtold", a, strtold(a))
  \/ Call("strtoimax", a, strtoimax(a))
  \/ Call("strtoumax", a, strtoumax(a))
  \/ Call("execv", a, execv(a))
  \/ Call("execvp", a, execvp(a))
  \/ Call("execve", a, execve(a))

\* Functions that read or fill an object p.
OnObject(a) ==
  \/ Call("time", a, time(a))
  \/ Call("timespec_get", a, timespec_get(a))
  \/ Call("asctime", a, asctime(a))
  \/ Call("ctime", a, ctime(a))
  \/ Call("gmtime", a, gmtime(a))
  \/ Call("localtime", a, localtime(a))
  \/ Call("mktime", a, mktime(a))
  \/ Call("fegetexceptflag", a, fegetexceptflag(a))
  \/ Call("fesetexceptflag", a, fesetexceptflag(a))
  \/ Call("fegetenv", a, fegetenv(a))
  \/ Call("fesetenv", a, fesetenv(a))
  \/ Call("feholdexcept", a, feholdexcept(a))
  \/ Call("feupdateenv", a, feupdateenv(a))
  \/ Call("remquo", a, remquo(a))
  \/ Call("frexp", a, frexp(a))
  \/ Call("modf", a, modf(a))
  \/ Call("fstat", a, fstat(a))
  \/ Call("gettimeofday", a, gettimeofday(a))
  \/ Call("wait", a, wait(a))
  \/ Call("waitpid", a, waitpid(a))
  \/ Call("pipe", a, pipe(a))
  \/ Call("read", a, read(a))
  \/ Call("readShort", a, readShort(a))
  \/ Call("loadChar", a, loadChar(a))
  \/ Call("storeChar", a, storeChar(a))
  \/ Call("free", a, free(a))

\* Functions without a pointer argument.
NoPointer(a) ==
  \/ Call("strerror", a, strerror(a))
  \/ Call("errno_location", a, errno_location(a))
  \/ Call("localeconv", a, localeconv(a))
  \/ Call("ctype_b_loc", a, ctype_b_loc(a))
  \/ Call("ctype_tolower_loc", a, ctype_tolower_loc(a))
  \/ Call("ctype_toupper_loc", a, ctype_toupper_loc(a))
  \/ Call("fchmod", a, fchmod(a))
  \/ Call("close", a, close(a))
  \/ Call("dup", a, dup(a))
  \/ Call("dup2", a, dup2(a))
  \/ Call("dup3", a, dup3(a))
  \/ Call("fork", a, fork(a))
  \/ Call("getchar", a, getchar(a))
  \/ Call("putchar", a, putchar(a))
  \/ Call("tmpfile", a, tmpfile(a))
  \/ Call("alloca", a, alloca(a))
  \/ Call("functionEnd", a, functionEnd(a))

\* Functions that place a new block at a.at.
NewBlock(a) ==
  \/ Call("malloc", a, malloc(a))
  \/ Call("calloc", a, calloc(a))

\* The same, of a string or block p.
FromText(a) ==
  \/ a.n > 0 /\ Call("realloc", a, realloc(a))
  \/ Call("strdup", a, strdup(a))
  \/ a.n > 0 /\ Call("strndup", a, strndup(a))

\* Functions of a stream p.
OfFile(a) ==
  \/ Call("fclose", a, fclose(a))
  \/ Call("fflush", a, fflush(a))
  \/ Call("fwide", a, fwide(a))
  \/ Call("fgetc", a, fgetc(a))
  \/ Call("ungetc", a, ungetc(a))
  \/ Call("fputc", a, fputc(a))
  \/ Call("getc", a, getc(a))
  \/ Call("putc", a, putc(a))
  \/ Call("ftell", a, ftell(a))
  \/ Call("fseek", a, fseek(a))
  \/ Call("rewind", a, rewind(a))
  \/ Call("clearerr", a, clearerr(a))
  \/ Call("feof", a, feof(a))
  \/ Call("ferror", a, ferror(a))

\* Functions of a string or block p and a stream q.
TextAndFile(a) ==
  \/ Call("freopen", a, freopen(a))
  \/ Call("fgets", a, fgets(a))
  \/ Call("fputs", a, fputs(a))
  \/ Call("fread", a, fread(a))
  \/ Call("freadShort", a, freadShort(a))
  \/ Call("fwrite", a, fwrite(a))
  \/ Call("fscanf", a, fscanf(a))
  \/ Call("fscanf %[", a, FromStream(a, scanSet(a, 0)))
  \/ Call("fscanf %c", a, FromStream(a, scanChar(a)))
  \/ Call("fscanf %d", a, FromStream(a, scanInt(a)))
  \/ Call("fscanf %n", a, FromStream(a, scanCount(a)))
  \/ Call("fscanf %f", a, FromStream(a, scanFloat(a)))
  \/ Call("fscanf %p", a, FromStream(a, scanPointer(a)))

\* Functions of a stream p and an object q.
FileAndObject(a) ==
  \/ Call("fgetpos", a, fgetpos(a))
  \/ Call("fsetpos", a, fsetpos(a))

\* Functions of a directory p.
OfDir(a) ==
  \/ Call("closedir", a, closedir(a))
  \/ Call("readdir", a, readdir(a))
  \/ Call("rewinddir", a, rewinddir(a))
  \/ Call("seekdir", a, seekdir(a))
  \/ Call("telldir", a, telldir(a))

\* Functions with a format; n is the width or, negative, the precision.
Formatted(a) ==
  \/ Call("printf", a, printf(a))

MaxNumber == 3                      \* of a size, a limit, a width

Next ==
  /\ ~ended /\ steps < prof.steps
  /\ \/ \E n \in 0 .. MaxNumber, ok \in BOOLEAN : \E a \in {TheCall(n, ok, 0)} :
              \/ IsText(p) /\ ReadText(a)
              \/ IsText(p) /\ IsText(q) /\ TwoTexts(a)
              \/ IsText(p) /\ (IsArray(q) \/ q.addr = Null) /\ WithArray(a)
              \/ IsArray(p) /\ IsText(q) /\ Call("strsep", a, strsep(a))
              \/ IsObject(p) /\ OnObject(a)
              \/ IsText(p) /\ Call("fopen", a, fopen(a))
              \/ IsText(p) /\ Call("fdopen", a, fdopen(a))
              \/ IsText(p) /\ Call("opendir", a, opendir(a))
              \/ IsText(p) /\ Call("scanf", a, scanf(a))
              \/ NoPointer(a)
              \/ IsFile(p) /\ OfFile(a)
              \/ IsText(p) /\ IsFile(q) /\ TextAndFile(a)
              \/ IsFile(p) /\ IsText(q) /\ FileAndObject(a)
              \/ IsDir(p) /\ OfDir(a)
              \/ Call("getElementPtr", a, getElementPtr(a))
              \/ At(mem, p.addr) <= Top /\ Call("loadPointer", a, loadPointer(a))
              \/ Call("storePointer", a, storePointer(a))
     \/ \E n \in 0 .. 2, ok \in BOOLEAN, x \in HeapStarts : \E a \in {TheCall(n, ok, x)} :
              \/ n > 0 /\ NewBlock(a)
              \/ IsText(p) /\ FromText(a)
     \/ \E n \in -2 .. 2 : \E a \in {TheCall(n, TRUE, 0)} :
              \/ IsText(p) /\ Formatted(a)
              \/ IsText(p) /\ IsFile(q) /\ Call("fprintf", a, fprintf(a))
     \/ CopyPointer \/ RestorePointer
     \/ \E g \in {Buffer, Array} : AddressOf(g)

Spec == Init /\ [][Next]_vars

----------------------------------------------------------------------------
\* The values of the variables; between two calls no lock is held.
TypeOK ==
  /\ mem \in [Cell -> Nat] /\ prov \in [Cell -> Nat] /\ init \subseteq Cell
  /\ \A r \in {p, q, tok} : r.addr \in 0 .. Top + 1 /\ r.base \in 0 .. Top /\ r.id \in Nat /\ r.gen \in Nat
  /\ \A x \in DOMAIN sh.alloc : Cells(x, sh.alloc[x]) \subseteq Cell
  /\ sh.lock = "none" /\ sh.failed = {}
  /\ steps \in 0 .. prof.steps

\* A verdict is explained by a set of pairs: some calls and a reason.
Explained(kind, S) == verdict.kind = kind => \E s \in S : verdict.call \in s[1] /\ verdict.why = s[2]

(***************************************************************************)
(* The tracer catches every call that uses memory it may not use, with     *)
(* these exceptions:                                                       *)
(*   overlap   only memcpy, strcpy and strncpy compare their ranges        *)
(*   strncat   a limit of 0 skips the check of the destination, and the    *)
(*             room that is asked for is one short when the limit cuts     *)
(*   printf    the width is taken for a limit on what is read              *)
(*   sprintf   the object of the buffer's pointer is not looked at         *)
(*   strtok    what it continues with is not checked                       *)
(*   free      only the address is compared, so a stale pointer to a block *)
(*             whose place was taken by another one is accepted            *)
(*   closed    freopen leaves a stream open that it could not reopen; a    *)
(*             DIR has no temporal ID                                      *)
(***************************************************************************)
StreamUsers == {"fgets", "fprintf", "fputs", "fread", "freadShort", "freopen", "fscanf", "fscanf %[", "fscanf %c",
                "fscanf %d", "fscanf %f", "fscanf %n", "fscanf %p", "fwrite", "getchar", "printf", "putchar",
                "puts", "scanf"}
Gaps ==
  { <<{"strcat", "strncat", "strxfrm", "sprintf", "snprintf"}, "overlap">>,
    <<{"strncat"}, "bounds">>, <<{"strncat"}, "null">>, <<{"strncat"}, "uninitialized">>,
    <<{"printf", "fprintf", "sprintf"}, "bounds">>, <<{"printf", "fprintf", "sprintf"}, "uninitialized">>,
    <<{"strtok"}, "saved">>,
    <<{"free", "realloc"}, "dead">>,
    <<StreamUsers, "closed">>, <<{"closedir", "readdir"}, "closed">> }

\* Every call that is let through uses only memory that C lets it use, but for
\* the gaps: RuntimeErrorChecker, CStdLibChecker and CIOChecker are complete.
GapsAreKnown == Explained("missed", Gaps)

(***************************************************************************)
(* The tracer stops a program only for an error of it, with these          *)
(* exceptions:                                                             *)
(*   one past the end   a pointer just past an object, with size 0         *)
(*   not used           free(NULL), fflush(NULL), snprintf(p, 0, ...)      *)
(*   no object          arithmetic on what strndup or strcasestr returns   *)
(*   other              %.2s needs no NUL; %2s may store fewer characters; *)
(*                      strpbrk and strsep check a string with the object  *)
(*                      of another; settimeofday(p, NULL)                  *)
(*   outdated           errno and what gmtime returns are given a new ID   *)
(*                      by each call that records them                     *)
(***************************************************************************)
LimitUsers  == {"memchr", "memcmp", "memcpy", "memmove", "memset", "strncasecmp", "strncat", "strncmp", "strncpy",
                "strnlen", "strxfrm", "strftime", "getcwd", "read", "readShort", "fread", "freadShort", "fwrite", "fgets"}
FalseErrors ==
  { <<LimitUsers, "one past the end">>,
    <<{"free", "fflush", "snprintf"}, "not used">>,
    <<{"getElementPtr"}, "no object">>,
    <<{"printf", "fprintf", "sscanf %2s", "strpbrk", "strsep", "settimeofday"}, "other">>,
    <<{"asctime", "fstat", "gmtime", "localtime", "loadChar"}, "outdated">> }

\* Every call that raises a fatal run-time error is one that C does not allow,
\* but for these: the checks are sound.
FalseErrorsAreKnown == Explained("wrong", FalseErrors)

\* The tracer's checks stop exactly the calls that C does not allow, but for
\* these gaps and false errors.
ChecksAreExact == GapsAreKnown /\ FalseErrorsAreKnown

(***************************************************************************)
(* mkstemp, mktime and strxfrm are wrapped as if they only read; scanf     *)
(* drops a string when the input fails after it; output is recorded before *)
(* it is known whether it succeeds, and perror's is not; functions that    *)
(* are recognised by name never record errno.                              *)
(***************************************************************************)
Losses ==
  { <<{"mkstemp", "mkostemp", "mkstemps", "mkostemps", "mktime", "strxfrm", "scanf", "fscanf", "fscanf %["}, "memory">>,
    <<{"perror", "fputc", "fputs", "putchar", "puts"}, "text">>,
    <<{"fclose", "fflush", "fgetc", "fopen", "fputc", "fputs", "freopen", "fwide", "putchar", "puts", "ungetc"}, "errno">> }

\* After a call the recording shows the memory and the output that the program
\* has, but for these: a replayed state can be believed.
LossesAreKnown == Explained("lost", Losses)

\* A short read is recorded as a full one, snprintf(p, 0, ...) and strxfrm by
\* the length of a string that they did not write.
Surplus == { <<{"readShort", "freadShort", "snprintf", "strxfrm"}, "memory">> }

\* What the shadow memory calls initialized really is, but for these: otherwise
\* a later read of an indeterminate value is not noticed.
SurplusIsKnown == Explained("surplus", Surplus)

(***************************************************************************)
(* errno is recorded without the lock that recording asserts, or without   *)
(* the region that would hold it; snprintf and strxfrm may record past the *)
(* end of the buffer; getenv removes the allocation of the environment     *)
(* string by the address of the value inside it.                           *)
(***************************************************************************)
Assertions ==
  { <<{"close", "closedir", "dup", "dup2", "dup3", "fork", "fseek", "ftell", "rewind"}, "Global memory is not locked.">>,
    <<{"fdopen", "tmpfile", "snprintf", "strxfrm"}, "contains">>,
    <<{"getenv"}, "allocation doesn't exist?">> }

\* A correct program never makes an assertion of the tracer fail, but for these.
AssertionsAreKnown == Explained("asserts", Assertions)

\* What is recorded of a call is what it did, no less and no more, and recording
\* it breaks no assertion, but for the exceptions above.
RecordingIsExact == TypeOK /\ LossesAreKnown /\ SurplusIsKnown /\ AssertionsAreKnown

\* The shadow memory's areas are disjoint, and its dynamic allocations are the
\* blocks the program has: through malloc, calloc, realloc in place and to a
\* new place, strdup and free, with addresses that are used again.
BlocksAreTracked ==
  ~ended => /\ \A x, y \in DOMAIN sh.alloc : x # y => Cells(x, sh.alloc[x]) \cap Cells(y, sh.alloc[y]) = {}
            /\ LET live == {g \in DOMAIN obj : obj[g].start \in Heap}
               IN  /\ sh.dyn = {obj[g].start : g \in live}
                   /\ \A g \in live : sh.alloc[obj[g].start] = obj[g].len

\* The object that is remembered for a pointer in memory, while it is current,
\* is the one the pointer belongs to, if that exists: setInMemoryPointerObject
\* and copyInMemoryPointerObjects keep up with stores, copies and strtol.
PointersInMemory ==
  ~ended => \A x \in DOMAIN sh.impo :
              LET o == sh.impo[x]
              IN  (o.base # Null /\ o.id = sh.ids[o.base] /\ Area(sh, o.base) # 0)
                     => (prov[x] \in DOMAIN obj => obj[prov[x]].start = o.base)
=============================================================================
