--------------------------- MODULE MCLibraryCalls ---------------------------
EXTENDS LibraryCalls

MCTop == 23
AllStarts == {6, 8}

StartOf(g)   == PointerTo(g, g)
TextPointers == {StartOf(Buffer), PointerTo(Buffer + 1, Buffer), PointerTo(Buffer + 3, Buffer), StartOf(Environ), NullPointer}

\* One call, of any text in the buffer, partly or completely written.
TextProgram == [calls |-> {"access", "asctime", "atof", "atoi", "atol", "atoll", "chmod", "clearerr", "close",
                          "ctime", "dup", "dup2", "dup3", "errno_location", "execl", "execle", "execlp",
                          "execv", "execve", "execvp", "fchmod", "fclose", "fdopen", "fegetenv",
                          "fegetexceptflag", "feholdexcept", "feof", "ferror", "fesetenv", "fesetexceptflag",
                          "feupdateenv", "fflush", "fgetc", "fgetpos", "fgets", "fopen", "fork", "fprintf",
                          "fputc", "fputs", "fread", "freadShort", "free", "freopen", "frexp", "fscanf",
                          "fscanf %[", "fscanf %c", "fscanf %d", "fscanf %f", "fscanf %n", "fscanf %p",
                          "fseek", "fsetpos", "fstat", "ftell", "fwide", "fwrite", "getElementPtr", "getc",
                          "getchar", "getcwd", "getenv", "gettimeofday", "gmtime", "loadChar", "loadPointer",
                          "localeconv", "localtime", "lstat", "memchr", "memcmp", "memcpy", "memmove",
                          "memset", "mkdir", "mkfifo", "mknod", "mkostemp", "mkostemps", "mkstemp",
                          "mkstemps", "mktime", "modf", "nan", "perror", "pipe", "printf", "putc", "putchar",
                          "puts", "read", "readShort", "remove", "remquo", "rename", "rewind", "rmdir",
                          "scanf", "setlocale", "settimeofday", "snprintf", "sprintf", "sscanf", "sscanf %2s",
                          "sscanf %[", "sscanf %c", "sscanf %d", "sscanf %f", "sscanf %n", "sscanf %p",
                          "stat", "storeChar", "storePointer", "strcasecmp", "strcasestr", "strcat", "strchr",
                          "strcmp", "strcoll", "strcpy", "strcspn", "strerror", "strftime", "strlen",
                          "strncasecmp", "strncat", "strncmp", "strncpy", "strnlen", "strpbrk", "strrchr",
                          "strsep", "strspn", "strstr", "strtod", "strtof", "strtoimax", "strtok", "strtol",
                          "strtold", "strtoll", "strtoul", "strtoull", "strtoumax", "strxfrm", "system",
                          "time", "timespec_get", "tmpfile", "tmpnam", "ungetc", "unlink", "wait", "waitpid"},
                steps |-> 1, written |-> {0, 2, 3}, ends |-> Cells(Buffer + 1, 2),
                p |-> TextPointers, q |-> TextPointers \cup {StartOf(Array)}]

\* Dynamic memory, and pointers that are kept in it.
HeapProgram == [calls |-> {"malloc", "calloc", "free", "realloc", "loadChar", "storeChar", "storePointer",
                          "loadPointer", "memcpy", "getElementPtr"},
                steps |-> 4, written |-> {3}, ends |-> {Buffer + 2},
                p |-> {StartOf(Array)}, q |-> {StartOf(Buffer)}]

\* A local variable, and pointers to it that outlive it.
StackProgram == [calls |-> {"alloca", "functionEnd", "storePointer", "loadPointer", "loadChar", "storeChar",
                           "q = p", "p = q", "p = &g"},
                 steps |-> 5, written |-> {3}, ends |-> {Buffer + 2},
                 p |-> {StartOf(Array)}, q |-> {StartOf(Buffer)}]

\* A block, stream or directory is given back, and another takes its place.
ReuseProgram == [calls |-> {"calloc", "free", "realloc", "loadChar", "q = p", "p = q"},
                 steps |-> 5, written |-> {3}, ends |-> {Buffer + 2},
                 p |-> {StartOf(Buffer)}, q |-> {StartOf(Environ)}]
StaleProgram == [ReuseProgram EXCEPT !.calls = @ \ {"realloc"}, !.steps = 6]
ReopenProgram == [calls |-> {"fopen", "fclose", "fgetc", "opendir", "closedir", "readdir", "q = p", "p = q", "p = &g"},
                  steps |-> 7, written |-> {3}, ends |-> {Buffer + 2},
                  p |-> {StartOf(Buffer)}, q |-> {StartOf(Environ)}]

\* Tokens and copies of strings.
TokenProgram == [calls |-> {"strtok", "strdup", "strndup", "strtol", "loadPointer", "free",
                           "getElementPtr", "strsep", "q = p", "p = q"},
                 steps |-> 4, written |-> {3}, ends |-> {Buffer + 2},
                 p |-> {StartOf(Buffer), StartOf(Array), NullPointer}, q |-> {StartOf(Environ), StartOf(Array)}]

\* Objects inside the library.
StaticProgram == [calls |-> {"gmtime", "localtime", "asctime", "strerror", "setlocale", "localeconv", "errno_location",
                            "tmpnam", "loadChar", "loadPointer", "q = p", "p = q", "p = &g", "fstat", "getenv"},
                  steps |-> 4, written |-> {3}, ends |-> {Buffer + 2},
                  p |-> {StartOf(Buffer)}, q |-> {StartOf(Environ)}]

CtypeProgram == [StaticProgram EXCEPT !.calls = {"ctype_b_loc", "ctype_tolower_loc", "ctype_toupper_loc",
                                                "loadPointer", "loadChar", "p = q", "p = &g"}]

\* Streams.
StreamProgram == [calls |-> {"fopen", "freopen", "fdopen", "tmpfile", "fclose", "fflush", "fgetc", "fputs",
                            "fprintf", "fread", "freadShort", "fwrite", "getc", "putc", "fgetpos", "fsetpos",
                            "fscanf", "fscanf %[", "fscanf %c", "fscanf %d", "fscanf %f", "fscanf %n", "fscanf %p",
                            "q = p", "p = &g", "opendir", "closedir", "readdir", "fputc",
                            "printf", "puts", "getchar", "putchar", "rewinddir", "seekdir", "telldir", "scanf",
                            "ftell", "fseek", "rewind", "clearerr", "feof", "ferror", "fgets", "fwide", "ungetc"},
                  steps |-> 3, written |-> {0, 3}, ends |-> {Buffer + 2},
                  p |-> {StartOf(Buffer), StandardStream, NullPointer}, q |-> {StartOf(Buffer), StandardStream}]

\* Blocks so near to one another that one may start inside the place of a former.
NearStarts    == {6, 7}
StaleProfiles == {StaleProgram}

MCProfiles == {TextProgram, HeapProgram, StackProgram, ReuseProgram, StaleProgram, ReopenProgram, TokenProgram, StaticProgram, CtypeProgram, StreamProgram}
=============================================================================
