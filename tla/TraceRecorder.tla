--------------------------- MODULE TraceRecorder ---------------------------
(***************************************************************************)
(* Recording (lib/Trace/TraceThreadListener*.cpp and the wrappers of        *)
(* lib/Runtimes/Tracer): what the instrumented threads of a program do to   *)
(* the locks of the TraceProcessListener, to its process time and to their  *)
(* own event streams.                                                       *)
(*                                                                         *)
(* An instrumented instruction is surrounded by notifications, and a        *)
(* notification is a sequence of operations of the TraceThreadListener.     *)
(* The threads run such sequences, one operation at a time; only the order  *)
(* of the operations, the locks and the times are modelled, not the         *)
(* memory that is checked and recorded.                                     *)
(***************************************************************************)
EXTENDS TraceEvents, FiniteSets

CONSTANTS
  Threads,           \* the threads of the traced program
  Main,              \* the one that runs main()
  NoThread,          \* the owner of a free mutex
  Programs,          \* sets of the kinds of instructions that a program executes
  MaxInstructions    \* how many of them the threads execute at most, together

Mutexes == {"memory", "dynamic", "streams", "dirs"}

VARIABLES
  time,              \* TraceProcessListener::Time
  owner,             \* the owner of each mutex of the process listener
  view,              \* TraceThreadListener::ProcessTime
  ci,                \* CIProcessTime, or 0 if it is not assigned
  incremented,       \* the value a thread has for ++Time and not yet stored, or 0
  rec,               \* the events each thread has written
  todo,              \* the operations that are left of the current instruction
  count,             \* how many instructions have been begun
  phase,             \* whether a thread exists and has returned
  program            \* the kinds of instructions of the program that runs

vars == <<time, owner, view, ci, incremented, rec, todo, count, phase, program>>

-----------------------------------------------------------------------------
(***************************************************************************)
(* The operations that notifications consist of.                            *)
(***************************************************************************)
Enter       == [op |-> "enter"]
ExitPost    == [op |-> "exitPost"]
Acquire(m)  == [op |-> "acquire", mutex |-> m]
Lock(m)     == [op |-> "lock", mutex |-> m]
Unlock(m)   == [op |-> "unlock", mutex |-> m]
Write(ty)   == [op |-> "write", type |-> ty]
ThreadTime  == [op |-> "threadTime"]
\* Recording a change to what all threads share; mutex is the one that the
\* assertion or the documented precondition of the record function names.
Record(m)   == [op |-> "record", mutex |-> m]
\* The same for a change of memory that may have no bytes.
RecordArea  == [op |-> "recordArea", mutex |-> "memory"]
Create      == [op |-> "create"]
Join        == [op |-> "join"]

Operations ==
  {Enter, ExitPost, ThreadTime, RecordArea, Create, Join}
    \cup {Acquire(m) : m \in Mutexes} \cup {Lock(m) : m \in Mutexes}
    \cup {Unlock(m) : m \in Mutexes} \cup {Record(m) : m \in Mutexes}
    \cup {Write(ty) : ty \in EventType}

-----------------------------------------------------------------------------
(***************************************************************************)
(* The notifications of instrumented code.  A notification that ends an     *)
(* instruction has exitPostNotification for its exit.                       *)
(***************************************************************************)
\* setupEnvironTable, for a table with one string.
setupEnvironTable ==
  <<Write("KnownRegion"), Record("memory"), Write("KnownRegion"), Record("memory")>>

\* The first function of the process also records the environ table.
notifyFunctionBegin(t) ==
  <<Enter, Write("Instruction")>>
    \o (IF t = Main THEN <<Acquire("memory")>> \o setupEnvironTable ELSE <<>>)
    \o <<ExitPost>>

\* A function's by-value argument, copied from the caller's object.
notifyArgumentByVal ==
  <<Enter, Write("Alloca"), Acquire("memory"), RecordArea, Unlock("memory")>>

\* The arguments of main(): the table and one string.
notifyArgs ==
  <<Enter, Lock("memory"), Write("KnownRegion"), Record("memory"),
    Write("KnownRegion"), Record("memory"), Unlock("memory"), ExitPost>>

\* The areas are those of the function's allocas and by-value arguments.
notifyFunctionEnd(areas) ==
  <<Enter, Write("Instruction"), Acquire("memory")>>
    \o [a \in 1..areas |-> RecordArea]
    \o <<Unlock("memory")>>

\* A call that is not intercepted; detectPreCall and detectPostCall recognize
\* functions of the C standard library.
notifyPreCall(pre)   == <<Enter>> \o pre \o <<Write("Instruction")>>
notifyPostCall(post) == <<Enter>> \o post \o <<ExitPost>>

\* Mutant: the lock is taken after the check, when the store is recorded.
notifyPreStoreUnlocked == <<Enter>>

notifyPreLoad   == <<Enter, Lock("memory")>>
notifyPostLoad  == <<Enter, ExitPost>>
notifyPreStore  == <<Enter, Lock("memory")>>
notifyPostStore == <<Enter, Write("Instruction"), Record("memory"), ExitPost>>

notifyValue  == <<Enter, Write("Instruction")>>
notifyAlloca == <<Enter, Write("Instruction"), Write("Alloca"),
                  Acquire("memory"), Unlock("memory")>>

-----------------------------------------------------------------------------
(***************************************************************************)
(* The instructions of the program.  The calls succeed, and those that are  *)
(* detected or wrapped change what they are called for.                     *)
(***************************************************************************)
load   == notifyPreLoad \o notifyPostLoad \o notifyValue
store  == notifyPreStore \o notifyPostStore

\* A call of an instrumented function with one local variable, ...
call == notifyPreCall(<<>>) \o notifyFunctionBegin(NoThread) \o notifyAlloca
          \o notifyFunctionEnd(1) \o notifyValue \o notifyPostCall(<<>>)

\* ... and of one with a by-value argument, whose body begins with a store.
callByVal == notifyPreCall(<<>>) \o notifyFunctionBegin(NoThread)
               \o notifyArgumentByVal \o store
               \o notifyFunctionEnd(1) \o notifyValue \o notifyPostCall(<<>>)

\* A call of a function that is detected.
Detected(pre, post) == notifyPreCall(pre) \o notifyValue \o notifyPostCall(post)

ctype   == Detected(<<>>, <<Acquire("memory"), Write("KnownRegion"), Record("memory"),
                            Write("KnownRegion"), Record("memory")>>)
fopen   == Detected(<<Acquire("memory")>>, <<Acquire("streams"), Record("streams")>>)
freopen == Detected(<<Acquire("memory"), Acquire("streams")>>,
                    <<Acquire("streams"), Record("streams"),
                      Acquire("streams"), Record("streams")>>)
fclose  == Detected(<<Acquire("streams")>>, <<Acquire("streams"), Record("streams")>>)
fgetc   == Detected(<<Acquire("streams")>>, <<>>)
fgets   == Detected(<<Acquire("memory"), Acquire("streams")>>, <<Record("memory")>>)
fputc   == Detected(<<Acquire("streams")>>, <<Record("streams")>>)

\* Mutant: the streams are locked before the memory.
fputsReversed == Detected(<<Acquire("streams"), Acquire("memory")>>, <<Record("streams")>>)

fputs   == Detected(<<Acquire("memory"), Acquire("streams")>>, <<Record("streams")>>)
puts    == Detected(<<Acquire("memory"), Acquire("streams")>>,
                    <<Record("streams"), Record("streams")>>)
atof    == Detected(<<Acquire("memory")>>, <<>>)
strtol  == Detected(<<Acquire("memory")>>, <<Record("memory")>>)
calloc  == Detected(<<Acquire("memory"), Acquire("dynamic")>>,
                    <<Record("dynamic"), RecordArea>>)

free    == Detected(<<Acquire("memory"), Acquire("dynamic")>>,
                    <<Write("Instruction"), Record("dynamic"), RecordArea>>)
malloc  == Detected(<<Acquire("dynamic")>>, <<Record("dynamic")>>)
\* realloc() that moves the object.
realloc == Detected(<<Acquire("memory"), Acquire("dynamic")>>,
                    <<Record("dynamic"), RecordArea, Record("dynamic"), RecordArea>>)
getenv  == Detected(<<Acquire("memory")>>,
                    <<Write("KnownRegion"), Write("KnownRegion"), Record("memory")>>)
memcpy  == Detected(<<Acquire("memory")>>, <<RecordArea>>)

(***************************************************************************)
(* A call that is redirected to one of the wrappers: the locks, the checks   *)
(* of the arguments, the original function, and what it changed.            *)
(***************************************************************************)
Wrapped(locks, function, changes) ==
  <<Enter>> \o locks \o function \o notifyValue \o changes \o <<ExitPost>>

\* The check of a FILE * argument has the streams locked while it lasts.
CheckStream == <<Lock("streams"), Unlock("streams")>>

\* The first time that errno is recorded it becomes a known region.
recordErrno == <<Write("KnownRegion"), Record("memory")>>

fread    == Wrapped(<<Acquire("memory")>>, CheckStream, <<RecordArea>>)
fwrite   == Wrapped(<<Acquire("memory")>>, CheckStream, <<Record("streams")>>)
printf   == Wrapped(<<Acquire("memory"), Lock("streams")>>, <<>>,
                    <<Record("streams"), Unlock("streams")>>)
tmpfile  == Wrapped(<<Acquire("memory"), Acquire("streams")>>, <<>>,
                    <<Acquire("streams"), Record("streams")>>)
opendir  == Wrapped(<<Acquire("memory")>>, <<>>, <<Acquire("dirs"), Record("dirs")>>)
readdir  == Wrapped(<<Acquire("memory")>>, <<Acquire("dirs")>>,
                    <<Write("KnownRegion"), Record("memory")>>)
closedir == Wrapped(<<>>, <<Acquire("dirs")>>, <<Acquire("dirs"), Record("dirs")>>)
strdup   == Wrapped(<<Acquire("memory"), Acquire("dynamic")>>, <<>>,
                    <<Record("dynamic"), RecordArea>>)
\* close() of a bad file descriptor changes errno.
close    == Wrapped(<<>>, <<>>, recordErrno)

\* bsearch() and qsort() release the locks for the comparison function; here
\* there is one comparison.  Of two elements that are out of order qsort() moves
\* the pivot to the end before it, and nothing after it.
acquireMemory == <<Enter, Acquire("memory"), Acquire("dynamic")>>
swap          == <<ThreadTime, Record("memory"), Record("memory")>>
Compare       == notifyFunctionBegin(NoThread) \o notifyFunctionEnd(0)

bsearch == acquireMemory \o <<ExitPost>> \o Compare
             \o acquireMemory \o <<ExitPost>> \o notifyValue
qsort   == acquireMemory \o swap \o <<ExitPost>> \o Compare
             \o acquireMemory \o <<ExitPost>>

pthread_create == Wrapped(<<Acquire("memory")>>, <<Create>>, <<Record("memory")>>)
pthread_join   == Wrapped(<<Acquire("memory")>>, <<Join>>, <<Record("memory")>>)

Code == [
  load |-> load, store |-> store, call |-> call, callByVal |-> callByVal,
  ctype |-> ctype, fopen |-> fopen, freopen |-> freopen, fclose |-> fclose,
  fgetc |-> fgetc, fgets |-> fgets, fputc |-> fputc, fputs |-> fputs, puts |-> puts,
  atof |-> atof, strtol |-> strtol, calloc |-> calloc, free |-> free,
  malloc |-> malloc, realloc |-> realloc, getenv |-> getenv, memcpy |-> memcpy,
  fread |-> fread, fwrite |-> fwrite, printf |-> printf, tmpfile |-> tmpfile,
  opendir |-> opendir, readdir |-> readdir, closedir |-> closedir,
  strdup |-> strdup, close |-> close, bsearch |-> bsearch, qsort |-> qsort,
  pthread_create |-> pthread_create, pthread_join |-> pthread_join
]

ASSUME RecorderAssumption ==
  /\ Main \in Threads /\ NoThread \notin Threads
  /\ \A kinds \in Programs : kinds \subseteq DOMAIN Code
  /\ MaxInstructions \in Nat

-----------------------------------------------------------------------------
(***************************************************************************)
(* The operations.                                                          *)
(***************************************************************************)
At(t, op)  == todo[t] # <<>> /\ Head(todo[t]).op = op
AtRecord(t) == At(t, "record") \/ At(t, "recordArea")
Advance(t) == todo' = [todo EXCEPT ![t] = Tail(@)]
EventsOutWrite(t, e) == rec' = [rec EXCEPT ![t] = Append(@, e)]

\* synchronizeProcessTime reads the time without any lock.
enterNotification(t) ==
  /\ At(t, "enter")
  /\ view' = [view EXCEPT ![t] = time]
  /\ IF view[t] # time
     THEN EventsOutWrite(t, [type |-> "NewProcessTime", time |-> time])
     ELSE UNCHANGED rec
  /\ Advance(t)
  /\ UNCHANGED <<time, owner, ci, incremented, count, phase>>

\* Mutant: the time of the instruction is kept for the next one.
exitPostKeepsTime(t) ==
  /\ At(t, "exitPost")
  /\ owner' = [m \in Mutexes |-> IF owner[m] = t THEN NoThread ELSE owner[m]]
  /\ Advance(t)
  /\ UNCHANGED <<time, view, ci, incremented, rec, count, phase>>

\* Release every lock and forget the time of the instruction.
exitPostNotification(t) ==
  /\ At(t, "exitPost")
  /\ owner' = [m \in Mutexes |-> IF owner[m] = t THEN NoThread ELSE owner[m]]
  /\ ci' = [ci EXCEPT ![t] = 0]
  /\ Advance(t)
  /\ UNCHANGED <<time, view, incremented, rec, count, phase>>

\* acquireGlobalMemoryWriteLock and the like do nothing if the lock is owned;
\* GlobalMemoryLock = ProcessListener.lockMemory() locks it in any case.
acquireLock(t) ==
  /\ At(t, "acquire") \/ At(t, "lock")
  /\ LET m == Head(todo[t]).mutex
     IN  /\ owner[m] = NoThread \/ (owner[m] = t /\ At(t, "acquire"))
         /\ owner' = [owner EXCEPT ![m] = t]
  /\ Advance(t)
  /\ UNCHANGED <<time, view, ci, incremented, rec, count, phase>>

unlock(t) ==
  /\ At(t, "unlock")
  /\ owner' = [owner EXCEPT ![Head(todo[t]).mutex] = NoThread]
  /\ Advance(t)
  /\ UNCHANGED <<time, view, ci, incremented, rec, count, phase>>

writeEvent(t) ==
  /\ At(t, "write")
  /\ EventsOutWrite(t, [type |-> Head(todo[t]).type, time |-> 0])
  /\ Advance(t)
  /\ UNCHANGED <<time, owner, view, ci, incremented, count, phase>>

incrementThreadTime(t) ==
  /\ At(t, "threadTime")
  /\ EventsOutWrite(t, [type |-> "Instruction", time |-> 0])
  /\ ci' = [ci EXCEPT ![t] = 0]
  /\ Advance(t)
  /\ UNCHANGED <<time, owner, view, incremented, count, phase>>

\* The event of a change and the thread's view of its time.
RecordAt(t, n) ==
  /\ view' = [view EXCEPT ![t] = n]
  /\ EventsOutWrite(t, [type |-> "State", time |-> n])
  /\ Advance(t)

\* recordUntypedState and the other functions that write an event with a time:
\* getCIProcessTime has the time of the instruction already, ...
recordState(t) ==
  /\ AtRecord(t) /\ ci[t] # 0
  /\ RecordAt(t, ci[t])
  /\ UNCHANGED <<time, owner, ci, incremented, count, phase>>

\* ... or takes a new one.  The increment of the plain integer Time is a load ...
LoadTime(t) ==
  /\ AtRecord(t) /\ ci[t] = 0 /\ incremented[t] = 0
  /\ incremented' = [incremented EXCEPT ![t] = time + 1]
  /\ UNCHANGED <<time, owner, view, ci, rec, todo, count, phase>>

\* ... and a store, which other threads may come between.
StoreTime(t) ==
  /\ incremented[t] # 0
  /\ time' = incremented[t]
  /\ ci' = [ci EXCEPT ![t] = incremented[t]]
  /\ incremented' = [incremented EXCEPT ![t] = 0]
  /\ RecordAt(t, incremented[t])
  /\ UNCHANGED <<owner, count, phase>>

\* A change of no bytes is not recorded and takes no time.
recordNothing(t) ==
  /\ At(t, "recordArea") /\ incremented[t] = 0
  /\ Advance(t)
  /\ UNCHANGED <<time, owner, view, ci, incremented, rec, count, phase>>

-----------------------------------------------------------------------------
(***************************************************************************)
(* The threads of the program.                                              *)
(***************************************************************************)
createThread(t) ==
  /\ At(t, "create")
  /\ \E u \in Threads :
       /\ phase[u] = "none"
       /\ phase' = [phase EXCEPT ![u] = "running"]
       /\ todo' = [todo EXCEPT ![t] = Tail(@), ![u] = notifyFunctionBegin(u)]
  /\ UNCHANGED <<time, owner, view, ci, incremented, rec, count>>

\* The wrapped function returns when a thread has ended.
joinThread(t) ==
  /\ At(t, "join")
  /\ \E u \in Threads \ {t, Main} : phase[u] = "returned" /\ todo[u] = <<>>
  /\ Advance(t)
  /\ UNCHANGED <<time, owner, view, ci, incremented, rec, count, phase>>

\* The next instruction.  A program joins only threads that it has created,
\* and this one creates no more than there are.
BeginInstruction(t, k) ==
  /\ phase[t] = "running" /\ todo[t] = <<>>
  /\ count < MaxInstructions
  /\ k = "pthread_create" => \E u \in Threads : phase[u] = "none"
  /\ k = "pthread_join" => \E u \in Threads \ {t, Main} : phase[u] # "none"
  /\ todo' = [todo EXCEPT ![t] = Code[k]]
  /\ count' = count + 1
  /\ UNCHANGED <<time, owner, view, ci, incremented, rec, phase>>

\* The return from the thread's first function, which has one local variable.
Return(t) ==
  /\ phase[t] = "running" /\ todo[t] = <<>>
  /\ todo' = [todo EXCEPT ![t] = notifyFunctionEnd(1)]
  /\ phase' = [phase EXCEPT ![t] = "returned"]
  /\ UNCHANGED <<time, owner, view, ci, incremented, rec, count>>

-----------------------------------------------------------------------------
Init ==
  /\ time = 0
  /\ owner = [m \in Mutexes |-> NoThread]
  /\ view = [t \in Threads |-> 0]
  /\ ci = [t \in Threads |-> 0]
  /\ incremented = [t \in Threads |-> 0]
  /\ rec = [t \in Threads |-> <<>>]
  /\ todo = [t \in Threads |-> IF t = Main THEN notifyFunctionBegin(t) \o notifyArgs
                                            ELSE <<>>]
  /\ count = 0
  /\ phase = [t \in Threads |-> IF t = Main THEN "running" ELSE "none"]
  /\ program \in Programs

Operation(t) ==
  \/ enterNotification(t) \/ exitPostNotification(t)
  \/ acquireLock(t) \/ unlock(t) \/ writeEvent(t) \/ incrementThreadTime(t)
  \/ LoadTime(t) \/ StoreTime(t) \/ recordState(t) \/ recordNothing(t)
  \/ createThread(t) \/ joinThread(t)

ThreadStep(t) ==
  /\ Operation(t) \/ (\E k \in program : BeginInstruction(t, k)) \/ Return(t)
  /\ UNCHANGED program

\* The program ends when every thread that was created has returned.
Ended == /\ \A t \in Threads : phase[t] # "running" /\ todo[t] = <<>>
         /\ UNCHANGED vars

Next == (\E t \in Threads : ThreadStep(t)) \/ Ended

Spec == Init /\ [][Next]_vars

\* Threads are scheduled.
FairSpec == Spec /\ \A t \in Threads : WF_vars(ThreadStep(t))

-----------------------------------------------------------------------------
(***************************************************************************)
(* Properties.                                                              *)
(***************************************************************************)
TypeOK ==
  /\ time \in Nat
  /\ owner \in [Mutexes -> Threads \cup {NoThread}]
  /\ view \in [Threads -> Nat] /\ ci \in [Threads -> Nat]
  /\ incremented \in [Threads -> Nat]
  /\ rec \in [Threads -> Seq(Event)]
  /\ todo \in [Threads -> Seq(Operations)]
  /\ count \in 0..MaxInstructions
  /\ phase \in [Threads -> {"none", "running", "returned"}]

(***************************************************************************)
(* No process time is skipped: replay waits for each of them before it goes *)
(* on to the next, so every time up to the present one is that of an event. *)
(***************************************************************************)
NoTimeIsMissing ==
  \A n \in 1..time : \E t \in Threads : \E i \in 1..Len(rec[t]) :
    rec[t][i] = [type |-> "State", time |-> n]

(***************************************************************************)
(* "The new ProcessTime generated by the current Instruction": the times in *)
(* the recording of a thread never go back, as they would if an instruction *)
(* used the time of an earlier one.                                         *)
(***************************************************************************)
TimesDoNotDecrease ==
  \A t \in Threads :
    LET Timed == {i \in 1..Len(rec[t]) : hasProcessTime(rec[t][i])}
    IN  \A i, j \in Timed : i < j => rec[t][i].time <= rec[t][j].time

\* Calls that take a time without the memory lock: two threads may then take the
\* same one, and set the counter back.
UnlockedTimes == {"malloc", "fputc", "fclose", "closedir", "close"}

\* Calls that record in a block which may begin with a time that the thread saw
\* before it had the memory lock, or with the time of an earlier record.
LateTimes == {"callByVal", "ctype"}

\* Calls that record without the lock of what they change.
UnlockedRecords == {"fwrite", "close"}

(***************************************************************************)
(* The recording can be replayed: its shared events are in the order that   *)
(* the proof about replay assumes, no time is missing and no thread goes    *)
(* back in time.  This is not promised for programs with one of the calls   *)
(* above.                                                                   *)
(***************************************************************************)
TimesAreLocked == program \cap (UnlockedTimes \cup LateTimes) = {}

RecordedInOrder ==
  /\ TypeOK
  /\ TimesAreLocked => InOrder(Threads, rec) /\ NoTimeIsMissing /\ TimesDoNotDecrease

(***************************************************************************)
(* "Global memory is not locked", "pre: Own the StreamsLock": a change is   *)
(* recorded by a thread that holds the lock of what was changed.            *)
(***************************************************************************)
RecordsUnderLock ==
  program \cap UnlockedRecords = {} =>
    \A t \in Threads :
      /\ AtRecord(t) => owner[Head(todo[t]).mutex] = t
      /\ At(t, "write") /\ Head(todo[t]).type = "KnownRegion" => owner["memory"] = t

(***************************************************************************)
(* Every notification comes to its end: the locks are never waited for in   *)
(* a circle, nor by the thread that has them, whatever the threads do.      *)
(* This is so for programs that do not use pthread_join().                  *)
(***************************************************************************)
NotificationsEnd == \A t \in Threads : (todo[t] # <<>>) ~> (todo[t] = <<>>)

NotificationsEndWithoutJoin == "pthread_join" \notin program => NotificationsEnd

=============================================================================
