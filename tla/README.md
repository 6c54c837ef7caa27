# Verification of SeeC

SeeC instruments C programs at the LLVM level, records what every thread of the
program does into one trace file, and lets a viewer move a recreated state of the
process forward and backward through that trace, in terms of the program's
source.  This directory holds TLA+ models of the parts whose behaviour is hard to
test, TLC configurations that check them on small instances, and TLAPS proofs for
every instance.  Source paths below are relative to `src/`.

## 1. Inventory

| part | source | state | operations | what makes it correct |
|---|---|---|---|---|
| instrumentation | `lib/Transforms/RecordExternal` | LLVM IR | puts notifications around instructions | the order of the notifications |
| notifications | `lib/Trace/TraceThreadListener*.cpp`, `TraceProcessListener.cpp` | four mutexes, the process time, per thread its view of it and an event stream | one per instrumented instruction, detected or wrapped call | a time belongs to one instruction; times do not go back; none is missing; changes are recorded under their lock; notifications end |
| shadow memory, checks, calls | `lib/Trace/TraceMemory.cpp`, `TraceThreadMemCheck.cpp`, `TraceThreadListenerDetectCalls.cpp`, `lib/Runtimes/Tracer` | allocations, initialization, pointer objects, temporal identifiers, streams | check before, record after each call | no error is missed, none is invented; the recording shows what the call did |
| trace file output | `lib/Trace/TraceStorage.cpp`, `include/seec/Trace/TraceEventWriter.hpp` | an atomic file offset, a block per stream | reserve, write, retry, rewrite, close | writers do not destroy each other's output |
| trace file input | `lib/Trace/TraceReader.cpp` | none beyond the file | walk blocks and events both ways | what is accepted is what was written |
| recreated memory | `lib/Trace/MemoryState.cpp` | allocations, bytes, saved areas, removed allocations | add, remove, resize, block, copy, clear and their reversals | going back shows exactly what was there |
| recreated thread, function, process | `lib/Trace/ThreadState.cpp`, `FunctionState.cpp`, `BlockValueStore.cpp`, `ProcessState.cpp`, `StreamState.cpp` | call stacks, values, errors, dynamic allocations, known regions, streams | `addEvent`, `readdEvent`, `removeEvent` | the state at a position does not depend on how it was reached |
| movement | `lib/Trace/StateMovement.cpp` | a worker per recorded thread, a mutex, a condition variable, flags | `moveForward`, `moveBackward` and their forms | shared events are applied in recorded order; nothing is left half applied; the result is true; the movement ends |
| mapping to the source | `lib/Clang` | values by address and type, graph of a state, mapped call stack | searches, layout, movement between statements | edges lead to their object; movement ends where it says; variables in scope are shown |
| viewer | `tools/seec-view` | the open state and its token, the worker of the graph, pages, highlights, recordings of actions, archives | handlers of user input and of queued events, two worker threads | nothing that is gone is read; what is shown is current; nothing hangs; nothing is lost |
| source editor | `tools/seec-view/SourceEditor` | a buffer, files, a compiler process, questions | edit, save, compile, run, close | what runs is what is shown; no text is lost |

How the parts interact.  An instrumented thread calls the runtime, which calls
its `TraceThreadListener`: that takes locks of the shared `TraceProcessListener`,
checks the call against the shadow memory, gets process times, and writes events
to blocks of the shared file.  A process killed at any moment leaves a file that
the reader has to cope with.  The viewer recreates the state from the events:
each movement starts one worker per recorded thread, and the workers synchronize
on the process times in the events.  So replay relies on what recording
guarantees; the formula that both sides share is `InOrder` of `TraceEvents`.  The
viewer's views read the recreated state, one of them in another thread, under a
token that a movement invalidates first.

What is hard: threads with four mutexes and an unprotected counter; concurrent
reservation of blocks and processes that die between two writes; replay workers
that wait for each other's times, are interrupted and take back part of a block;
going back over what is not stored; pointers that outlive their objects; handlers
that run while another one waits for an answer or for a worker.  `PROJECT.json`
lists the hazards at their lines.

## 2. Modules

| module | models | built on |
|---|---|---|
| `TraceEvents` | traits of event types that order depends on, and `InOrder` | |
| `StateMovement` | `ThreadedStateMovementHelper`, the movement functions, positions and times | `TraceEvents` |
| `ReversibleMemory`, `MemoryState` | abstract: a map of bytes with a history; `MemoryAllocation` and `MemoryState`, which implement it | |
| `TraceStorage`, `TraceReader` | writers of one file; what a reader finds in it at any moment | |
| `TraceRecorder` | locks, times and event order of notifications and calls | `TraceEvents` |
| `FunctionState`, `ProcessState`, `ThreadState` | the three levels of recreated state; `ProcessState` uses `IntervalMapVector` | |
| `IntervalMapVector` | the sorted vector of intervals | |
| `ShadowMemory`, `CFunctions`, `StringCalls`, `SystemCalls`, `LibraryCalls` | what the tracer knows of memory, and its checks; what C does (external); the calls, of strings and memory, of streams and the system; a program that makes them | each on the one before |
| `MappedValue`, `GraphExpansion`, `GraphLayout` | types and their comparison, values, search for pointers, layout of the graph | each on the one before |
| `MappedMovement`, `MappedScope`, `ValueText` | movement between statements, visible variables, texts of scalars | |
| `GraphViewer` | the frame, `StateAccessToken`, the graph's worker, the evaluation tree | |
| `SourceViewer`, `ExplanationViewer`, `StreamPanel` | pages and highlights, links, writes of streams (`TextPositions`: bytes and characters) | |
| `ActionReplay`, `RecordingSubmitter`, `TraceArchive` | replaying and submitting recorded actions, annotated archives | |
| `SourceEditor` | the editor | |
| `MC*` | instances; modules whose constants a .cfg can write run without one | |
| `StateMovement_proofs` | theorems about replay | `StateMovement` |
| `TraceRecorder_proofs` | theorems about recording | `TraceRecorder` |
| `MemoryState_proofs` | theorems about recreated memory | `MemoryState` |
| `TraceStorage_proofs` | theorems about the file and its reader | `TraceReader` |
| `SourceEditor_proofs` | theorems about the editor | `SourceEditor` |
| `Viewer_proofs` | theorems about the viewer | `GraphViewer`, `ActionReplay`, `RecordingSubmitter`, `TraceArchive` |
| `Panels_proofs` | theorems about texts, the panels that show them, and intervals | `ExplanationViewer`, `StreamPanel`, `TextPositions`, `IntervalMapVector` |
| `Mapping_proofs` | theorems about shown variables and movement between statements | `MappedScope`, `MappedMovement` |

Records that several operations compose on (`sh`, `state`, `editor`) are one
variable, and an operation of the code is an operator that returns the next
value, so that an action is the whole handler with everything it calls.  Mutated
forms of definitions stand before them, marked `Mutant`.  The map in
`PROJECT.json` names for each piece of code the definition that stands for it;
helpers of a definition whose lines lie within its own are not repeated.

**StateMovement.**  One action is one stretch of code between points at which
another worker can interfere: handling an event, locking, testing the wait,
sleeping, waking (also spuriously), leaving the wait with the mutex, rewinding a
block, testing the completion flag, evaluating the predicate, notifying.
`addNextEventBlock` and `removePreviousEventBlock` have the same shape and share
their actions.  Predicates given by a caller are arbitrary.

**MemoryState.**  `clearArea` and `rewindArea` push to and pop from the three
vectors as the code does.  The order of `memcpy` on overlapping areas is
undefined behaviour and a choice over three orders.

**TraceStorage, TraceReader.**  The file is a function from offsets to cells.  A
write may fail or stop short.  The reader is a set of operators evaluated in
every state, so a crash at any moment is covered without a crash action.
`WellDefined` says where the reader's behaviour is defined.

**TraceRecorder.**  A notification is a sequence of operations (enter, acquire,
record, write, unlock, exit); threads run them an operation at a time.
`getNewTime` is a load and a store, because `++Time` on a plain integer is a data
race between threads that hold different locks.  One function stands for each
pattern of locks and records.

**FunctionState, ProcessState, ThreadState.**  All functions have the same code:
a loop with a block that may be left out.  Recordings are made by actions that
follow the code of a thread, up to `MaxEvents`; every step forward and back is
then possible at every moment.  What is compared when the state was reached by
another way (`GoingBackIsExact`): all of it (`View`), of the values those of blocks
that dominate the active one, because the code keeps stale values of the others.
Two lists do depend on the way, and are compared as far as they can be: going back
adds the errors since the previous instruction again, also those of a callee
(`ErrorsAreOfTheCall`: none that was seen is missing, and none was recorded outside
the call), and leaves the allocator of a `realloc` that was taken back
(`AllocatorsAreOfTheBlock`: it is the right one, or that of a later `realloc` of the
same block).  The code's own comments promise more; section 5 says what.

**Library calls.**  An address is a number, a cell holds a character, an object
or a pointer.  `LibraryCalls` compares each call with `CFunctions`, which says
what C allows and does; `verdict` is the first disagreement: an error *missed*, a
*wrong* error, a change *lost* or a *surplus* in the recording, an *assertion* of
the tracer that fails.  The exceptions (`Gaps`, `FalseErrors`, `Losses`,
`Surplus`, `Assertions`) list calls and reasons; any other disagreement violates
a property.

**Mapping.**  Programs of a few variables and blocks, with types of two
translation units; a pointer is one cell, an `int` two.  Layout tasks run in any
order.  The user chooses a layout or a reference once.  A variable's area has the
size of the type of its value, which for an array whose size is known at run time
only is none, as in `GraphLayout.cpp`.  `PointersHaveEdges` asks for an edge for each
pointer from one object of the graph to another, those arrays left out.  Floating
point is written in steps of which `Finer` make one of the sixth decimal:
`std::to_string` rounds to six decimals, `APFloat` does not, and `TextsAgree` allows
just that difference.

**Viewer.**  A pointer to something of a state is the number of that state.
Handlers run one at a time in the GUI thread and are split where they wait for
the worker; a popup menu runs the event loop, so that queued events are handled
while it is open.  Condition variables may wake by themselves in the profile
`spurious`.  `RecordingSubmitter`: whether cURL can be used (`curl`) is chosen at
each start, and without it the worker ends at once.  A transfer ends when the server
answers, when it fails, or when the application shuts down while it makes progress.
An answer may be a refusal, which the code takes for success and removes the file:
`NothingIsLost` names that exception (`refused`) and files that were sent while they
were written (`early`).  `FunctionStateViewer` and `ThreadStateViewer` are disabled in the
source (`#if 0`) and left out.

**SourceEditor.**  Message boxes run the event loop: operations that wait for an
answer are a stack.  Pending events are handled before user input.  Modification
times have a resolution of a second.

## 3. Runs

Deadlock is checked where the system may not stop: in `movement` and `memory`.

| run | states | properties |
|---|---|---|
| `movement` | 122 000 | `SharedEventsInOrder`, `RestsBetweenBlocks`, `MovementIsTruthful` (times follow positions, the result is true), `SeenTimeIsReached`; `MovementEnds` with one traced thread |
| `movement_hang` | | **violated** `WaitEnds` |
| `memory` | 746 000 | `LatestCanBeTakenBack`, `MemoryIsAsRecorded` (refinement of `ReversibleMemory`; copies copy) |
| `storage` | 533 000 | `ReadIsExact` (in both directions), `ReadableBetweenBlocks`, `NothingOverwritten` |
| `recorder` | 354 000 | `RecordedInOrder` (in order, no time missing, none decreasing), `RecordsUnderLock`, `NotificationsEndWithoutJoin` |
| `recorder_join` | | **violated** `NotificationsEnd` |
| `replay` | 420 000 | `NothingMismatches` (no assertion fails), `ShownIsRecorded`, `GoingBackIsExact`, `AreasAreFound` |
| `library` | 147 000 | `ChecksAreExact`, `RecordingIsExact`, `BlocksAreTracked`, `PointersInMemory` |
| `viewer` | 232 000 | `OnlyLiveStateIsRead`, `GraphIsCurrent`, `PagesAreCurrent`, `LinksAreFaithful`, `WritesAreFound`, `ReplayIsFaithful`, `NothingIsLost`, `ArchivesAreWhole`, `ViewerNeverHangs` |
| `editor` | 588 000 | `RunsWhatIsShown`, `ClosingIsClean`, `PendingRunEnds` |
| `mapping` | 46 000 | `EdgesAreTrue`, `LayoutFollowsPointers`, `ContentsAreShown`, `UnitsMatch`, `MovementsReachTheirPoint`, `VisibleIsScope`, `TextsAgree` |
| `mapping_allocation` | | **violated** `AnyAllocationIsFound` |

### Bounds

* `movement`: two workers suffice for every wait on another's time, an
  interrupted block and a spurious wake-up; the recordings have blocks with
  several timed events, with untimed events before the timed one, threads that
  only observe, and programs of one thread.
* `memory`: four events give an allocation, two overwrites with different
  initialization and a removal or resize; sizes of 2 give partly initialized
  areas.
* `storage`: a block of 6 cells holds the header and up to three cells, so that
  events fill blocks exactly, fall one short and overflow.  `OneHazardAtATime`:
  two threads and data with a disk that works, or one thread with up to three
  failing or short writes.
* `recorder`: three instructions make pairs of instructions of two threads, one
  of which was created by the other; deadlocks of two locks need no more.  Of the
  two programs one keeps all promises; the other has calls of `UnlockedTimes`, for
  which only the locks of the records are promised.  The proofs are for all.
* `replay`: up to 10 events of control flow (twice around the loop, with a call
  and two errors), 17 of the stack, 10 of the heap, 8 of files.  `MaxKept` = 2 bounds
  the lists that grow when going back: errors and allocators that are listed once
  too often are reached, and so is taking them away again.
* `library`: every function once, with every combination of short strings, array
  ends, NULL and sizes to 3; and sequences of 3 to 7 calls for dynamic memory,
  locals, streams, directories, tokens and static objects, which is what it takes
  to free or close, allocate again and use the old pointer.
* `viewer`: one profile for each part.  Three movements are needed to use a
  function of an earlier state (two for other nodes), two queued events for one
  overtaken by a movement, two starts for a recording that is sent again after a
  transfer that failed or was cut off.  Explanations have characters of one to three bytes, with an annotation
  before them and without; streams have up to three writes, of text and of binary
  data, the last of them an empty one.
* `editor`: one file, two edits, two seconds: enough for a text newer than its
  binary, one written in the same second, and one written while the compiler
  runs.
* `mapping`: twelve programs: lists, strings, several pointers into one block,
  flexible members, bit-fields, vectors, two units, streams, self-references,
  arrays of every kind; recordings with up to two calls; bytes of three bits, and
  four steps of floating point to a sixth decimal, so that numbers are below, at and above half of one.

### Fairness

`StateMovement!FairSpec` has weak fairness of each worker's step and of the
joining thread (the operating system schedules threads); a worker asleep on the
condition variable has no enabled step unless it is notified, and spurious
wake-ups are possible but not fair.  It also has strong fairness of taking the
state mutex, which the C++ standard does not promise of `std::mutex`: it is
assumed so that the hang of `movement_hang` is not the starvation of a worker.
`TraceRecorder!FairSpec` has weak fairness of every thread's step.  The viewer has
weak fairness of the GUI thread's handlers and of the workers, the editor of the
event loop (also that of a message box) and of the compiler.  Users need not do
anything, and disks and servers need not succeed.  The submitter's worker has
weak fairness of its own steps only (`SubmitWorker`); its transfer has no time limit,
and a server that never answers keeps it (`SubmitServer` is not fair).  So closing is
promised because libcurl goes on calling the progress callback, which aborts, and
that new recordings are taken only if the worker gets out of its transfers again and
again, and there is cURL.

## 4. Proofs

All theorems hold for every value of the constants.

* `StateMovement_proofs!TypeCorrect`: no worker runs off either end of a
  recording.  The invariant adds to `TypeOK` the ownership of the mutex
  (`LockInv`) and that what a worker has moved in its block lies before the event
  it is to move (`BlockInv`).  Nothing is assumed of the recordings.
* `StateMovement_proofs!WholeBlocks`: every movement leaves every thread between
  two blocks.  The property is about workers at rest; `RestInv` says the same of
  the place where a worker in a block began (`rewind`), to which it returns when
  it is interrupted.
* `StateMovement_proofs!SharedOrder`: `SharedEventsInOrder` for any number of
  threads and all recordings that satisfy `InOrder` (the hypothesis
  `RecordingsInOrder`).  The property is only about states with the mutex free and
  is not inductive; `IndInv` describes every state: before its wait is over a
  worker has moved no timed event (`WaitInv`); with the mutex the process time is
  that of the last timed event it moved, or the wait has just ended (`TimeInv`);
  and a shared event is applied exactly if its time is not after the process time,
  except for the rest of the block that the owner of the mutex is moving
  (`OrderInv`).  The weakest point of the code is visible in the hypothesis: replay
  waits only once in a block, so times in a block have to be consecutive.
* `StateMovement_proofs!TimeUnderLock`, `SeenTime`: the process time moves by one,
  in the hands of the owner of the mutex only; and a thread that moves forward
  never sees a time that the process has not reached.  From the same invariant.
* `StateMovement_proofs!TruthfulMovement`: `MovementIsTruthful` under the same
  hypothesis.  `Truth` adds to `IndInv` and `RestInv`: every view follows from its
  thread's position (`ViewInv`); the process time is the greatest one among the
  shared events passed, now and when the movement began (`BeginInv`); until a
  worker has moved, each stands, or will stand when it has rewound, where it began;
  the thread of a thread step moves one block and completes the movement itself
  (`ThreadStepInv`); and the time of a process step changes in one block of one
  owner of the mutex, who completes the movement before it gives the mutex away.
* `TraceRecorder_proofs!RecorderTypes`, `LockedRecords`: types, and
  `RecordsUnderLock` for any number of threads and every program, except for the
  calls of `UnlockedRecords`.  What a thread may assume in the middle of a
  notification is an abstract state; a *trail* (`Trail`) says that the operations
  of a notification are sound from one abstract state to another.  Trails
  concatenate, so that each notification and each shape of call (`Detected`,
  `Wrapped`) has its trail from those of its parts, and the invariant (`LockInv`)
  says that what a thread has still to do has one.
* `TraceRecorder_proofs!RecordingIsOrdered`: `RecordedInOrder` for any number of
  threads and every program without the calls of `UnlockedTimes` and `LateTimes`.
  Trails again, now through what a thread knows of its last block and of the
  process time (`Holds`): with the memory lock its next time follows the times of
  its block, and a time it has kept for its instruction is the process time and no
  other thread's.  `OrderInv` joins them with the order of what is recorded.  The
  order is `InOrder`, so the hypothesis of the theorems about replay is what
  recording guarantees for these programs: the recorder's formula and the one
  replay assumes are the same definition of `TraceEvents`.
* `TraceStorage_proofs!StorageTypes`, `WritersKeptApart`: types, and
  `NothingOverwritten` for any number of threads, sizes and failures.  `IndInv`:
  what a stream may still write to is unwritten (`FreeIsUnwritten`) and no other
  stream's (`FreeIsOwned`), everything lies below the atomic offset (`Reserved`),
  and records that can be rewritten are where the log says (`LogIsWritten`,
  `LogIsInjective`).  `ConstantsAssumption` says that an event fits into an empty
  block.
* `TraceStorage_proofs!ReadersFindWhatWasWritten`: `ReadIsExact`, both directions,
  for the same constants and without a further hypothesis.  It relates a recursive
  walk over a file that may have been abandoned in the middle of any write to a log
  that no part of the file repeats, so the proof has two parts.  `ReadInv` is the
  shape of the file in every state, torn records and unfinished blocks included:
  what a writer has in hand is an event of its thread or data (`HandsInv`); a block
  that may still be written to begins where its header says and no other block
  ends inside it (`BlocksInv`, `NextInv`), so that the chain of headers cannot
  lead into the middle of one; events of a thread lie in its blocks, do not overlap
  and never cover the place of a header (`EventsInv`), and follow one another from
  the place behind the ID, with nothing but zeros where one is missing
  (`ContentInv`); the log has the intact ones in the order of the file, each with
  the size of the one before (`LogOrder`).  The last one is why walking backward
  over the end of a block works: the size recorded there is of an event in another
  block, and leads out of this one or is not used.  The second part evaluates the
  reader's functions on such a file: if it is accepted, its blocks are a chain that
  covers the file (`BlocksAreChain`); the events of a block are listed in their order
  and none is missed; the blocks of a thread, put together, list all its events
  (`ForwardEnumerates`); what is intact among them and the log ascend over the same
  set and are the same sequence; and after `k` steps back the reader is `k` places
  before the last event (`WalkIs`).
* `TraceStorage_proofs!BlocksLeaveNoGap`: `ReadableBetweenBlocks`, for the same
  constants: once the set-up is over and as long as no `pwrite` has failed, the file
  can be read at every moment at which no thread is making a block.  `ReadInv` lets
  the chain of headers end early, so `WholeInv` adds what is true without failures:
  wherever the magic or a block ends another one begins, or is about to be written,
  or the file ends (`CoverInv`); no two blocks have the same end (`ApartInv`); a block
  has its type before its end is written (`TypedInv`), and a block of events its ID
  and an event, unless its thread is about to write them (`BegunInv`); no record is
  torn (`UntornInv`); and there is one block each of the module and of the process
  trace, which Main writes during the set-up (`SingleInv`).  Each step of a writer
  (type, end, ID, item, offset of the next block) has its lemma.  That the walk over
  the headers arrives at the end of the file follows from `CoverInv` and from the
  least offset it might not reach.
* `MemoryState_proofs!EventsCanBeTakenBack`: `LatestCanBeTakenBack` for any
  addresses, sizes, values and numbers of events, overlapping copies included: no
  assertion of a reversal fails, and the state keeps its type.  The
  property is about the latest event only and is not inductive, since after a
  reversal it is about the one before, whose saved bytes are no longer the last of
  the vectors.  `MemoryInv` therefore says that the events have a history
  (`History`): a state before each event, the last one the present, such that
  taking an event back (`BackA`, `BackP`) leads from the state after it to the
  state before it.  "The state before" cannot mean equality, because the code does
  not restore the data of bytes that were not initialized; states of a history are
  compared by `Same`, which ignores these data, and `SameBack` shows that no
  reversal tells such states apart.  The step for each event comes from lemmas
  about one allocation (`SavedIsRestored`, `ClearSaves`, `AddSaves`, `ShrinkSaves`,
  `GrownIsCut`): what `clearArea` saves in the three vectors is what `rewindArea`
  pops.
* `MemoryState_proofs!MemoryReversesExactly`: the refinement `MemoryIsAsRecorded`,
  by the same invariant: each event maps to the step of `ReversibleMemory` of its
  name, each reversal to `Rewind`.  Its hypothesis is `OverlappingCopies = FALSE`,
  which `memcpy` requires of the traced program; section 5 says what happens
  otherwise.
* `Panels_proofs`, intervals: in a vector of disjoint intervals of any length
  `find` is exact although it looks at one interval (`FindIsExact`); `insert`
  keeps it disjoint if the new interval does not reach the next one, which it does
  not look at (`InsertKeepsDisjoint`), and what was inserted is found at each of
  its keys (`InsertedIsFound`); after `erase` nothing contains the key
  (`ErasedIsGone`).  The order of neighbours is lifted to all pairs by the least
  counterexample instead of an induction.

* `Viewer_proofs!ViewsReadLiveState`, `GraphCatchesUp`: `OnlyLiveStateIsRead` and
  `GraphIsCurrent` of `GraphSpec`, for any number of movements, queued events and
  spurious wake-ups.  `GraphInv`: a token is counted by the worker only, while it
  lays out, and is valid from the present state on (`TokenInv`); the task is of no
  later state and called off while the state moves (`TaskInv`), so the worker can
  only begin with the present state, and a movement that finds it at work waits
  (`LayoutInv`); every pointer of an earlier state in the panel, the menu and the
  queue has a cause (`KeptInv`), which the handler of the movement has noted for
  what will outlive it (`MovingInv`); and between movements the worker has been
  asked for the present state (`AskedInv`) and the graph of it is on its way or
  shown, with no other rendered graph behind it (`ComingInv`).  The handlers of the
  user's input differ only in what they queue and read, and enter the proof through
  one summary (`AskStep`).
* `Viewer_proofs!ReplayFollowsRecording`, `SubmitterLosesNothing`,
  `ArchivesStayWhole`: `ReplayIsFaithful`, `NothingIsLost` and `ArchivesAreWhole` of
  `ReplaySpec`, `SubmitSpec` and `ArchiveSpec`, for any recordings, any number of
  archives and starts, and any texts and keys.  `SubmitInv`: what the worker is about
  to remove the server has got whole, unless it refused it, which the code does not
  look at, or it was sent while it was written; and what a transfer sends is what the
  file held when it began (`TransferInv`).  `ArchiveInv`: points are unique by key, a saved archive
  has its annotations in the one entry that is read, and directories are numbered as made.
* `Panels_proofs!CharacterRangesAreExact`: links are known by the numbers of their
  characters, the control highlights bytes; for a text of any length with characters
  of any widths, `getPositionsForCharacterRange` gives exactly the bytes of the
  characters, although it has only the steps of the control (a position after
  another, the number of characters between two).
* `Panels_proofs!LinksStayFaithful`: `LinksAreFaithful` of `ExplanationSpec`, for any
  annotations and explanations.  `ExplanationInv`: the text of the panel is that of
  the state it shows and what is marked are the bytes of all its links (`TextsInv`);
  what is highlighted are the bytes of the link under the pointer
  (`PointerInv`).  The assumption `ExplainedIsText` says of the texts that a link
  has one place in them and that an annotation and an explanation share no link.
* `Panels_proofs!WritesStayFound`: `WritesAreFound` of `StreamSpec`, for any streams
  and writes.  The positions of writes are lengths of sequences put together, and the
  lemma that carries the proof is that these grow with the number of writes
  (`JoinedGrows`).  The invariant adds the types of the pages (`PageInv`), and that
  the movers queued find their page and write unless a movement came between
  (`Found`).  The attempt showed what a mover does at the line of an empty write:
  nothing, since the stream has no write at its position (`Nowhere`).
* `Mapping_proofs!ShownIsTheScope`: `VisibleIsScope` of `ScopeSpec`, for functions of
  any size.  `getVarDeclsVisible` and the scope of C both go up the tree of the
  function; the lemma that joins them is `VisibleAbove`: what is found above a node
  is what each node around it adds before the child that the search came from.
  Inductions go over the numbers of nodes, which grow with their place in the text
  (`TreeInduction`, `UpwardExists`).  `BodiesAssumption` says where C allows
  declarations and that nodes are numbered as they begin.
* `Mapping_proofs!MovementsEndWhereTheyShould`: `MovementsReachTheirPoint` of
  `MovementSpec`, for recordings of any length.  `MovementInv` says where each kind of
  movement ended, as it is told by the recording alone; `EntryEnds` rests on a call
  keeping its place in the stack from the block that entered it (`Stacks`) and on
  nothing being called before the first statement (`PreludeIsActive`), `AllocationEnds`
  and `DeallocationEnds` on a change being preceded by its opposite (`FreeBefore`).
  `RecordingsAssumption` says what a recording is like: calls are entered from an
  instruction of the active function and left last in, first out; an object is
  allocated where none is; freeing, and `malloc`, take the process lock.  That the
  allocation of other objects does not is what finding 3 needs, and the theorem
  says nothing of them.
* `SourceEditor_proofs!RunIsOfTheText`, `ClosingLosesNothing`: `RunsWhatIsShown` and
  `ClosingIsClean` for any files, texts and times, and any stack of open questions.
  `EditorInv`: the save point is what the file of the window holds, but for a
  "save as" that failed and a scratch pad never written (`TextInv`); a binary that is
  not older than its source was compiled from it, or the source has raced with it
  (`BinaryInv`), and so will be the one that the compiler has yet to write
  (`ProcessInv`); and who could still write to a scratch pad that was removed is
  noted (`ScratchInv`).  Each operation is a function from a state to states, so
  there is a lemma for each of them; an operation that continues after a question
  keeps nothing of the state it began with, and the invariant alone is enough to
  continue it.  `EditorAssumption` says that a temporary file is none of the user's.

`MCViewer` runs each part in a profile of its own; the steps of a profile are steps
of that part's specification, so run and theorem are about the same behaviours.
The inductive invariants were model-checked before they were proved.

The induction theorems of the library take a predicate as a parameter, which the
provers cannot instantiate.  Where a proof needs an induction (lengths of texts and
of sequences put together), the predicate is the set of the numbers that have it,
and `SetInduction` of `Panels_proofs` and `Mapping_proofs` follows from the least counterexample; that a
function defined by recursion exists is proved in the same way, step by step.

Only model-checked: liveness, which needs fairness and `ENABLED`; which ranges of the
source are shown, and what types, values and layouts are, whose definitions use RECURSIVE
operators, folds over sets or choices among many nodes; replay of single events
(`ThreadState`) and library calls, whose handlers are compositions of dozens of such
operators.

## 5. Findings

Runs that TLC refutes (`PROJECT.json` quotes the line that says otherwise):

1. A replay worker that waits for a process time is not notified when the time is
   reached (`movement_hang`).
2. `pthread_join` waits with the memory lock held (`recorder_join`).
3. The movement to an allocation passes over the start and the end of calls, which
   take no lock, and may end at another variable (`mapping_allocation`).

Passing properties name their exceptions.  Each of these is reached in its run, or
shows as a violation when the constant named here is changed:

* `movement`: `Recordings <- LateTimeRecordings` (a block that began with
  `NewProcessTime` does not wait for a later time in it) violates
  `SharedEventsInOrder`.
* `memory`: `OverlappingCopies = TRUE`: `addCopy` clears its target before it reads
  an overlapping source.
* `storage`: a thread that has written before an older one (`EldersHaveWritten`):
  without this exception `NumThreads = 3` violates `ReadableBetweenBlocks`, since the
  reader expects blocks of every thread up to the greatest ID.  With two threads it
  says nothing, because the second is created by an event of the first.  What is
  outside `WellDefined`: a block without type, ID or event, when
  the process is killed between reservation and first event; a gap after a write
  that failed twice; a torn first record, which stops the backward walk.  The data
  offset that `recordData` returns counts records, not bytes of the file.
* `recorder`: the calls of `UnlockedTimes` (`malloc`, `fputc`, `fclose`, `closedir`,
  `close`) take a time without the memory lock, so that two threads may take the
  same one, and those of `LateTimes` (`ctype`, `callByVal`) record with a time taken
  late or kept: without these exceptions `RecordedInOrder` is violated.  `close` and
  `fwrite` (`UnlockedRecords`) record without the lock of what they change.
* `replay`: two stronger properties are violated when they are checked instead.
  `AllocatorCausedIt`: `removeEvent(Realloc)` never calls `popAllocator`, so after
  going back the block has the `realloc` that is still to come as its allocator, of
  which `include/seec/Trace/ProcessState.hpp:83` says "Get the llvm::Instruction that
  caused this allocation."  `OnlySeenErrors`: `makePreviousInstructionActive` adds
  the errors since the previous instruction to the top of the stack, those of a
  callee and those listed already too, while
  `include/seec/Trace/FunctionState.hpp:282` says "All runtime errors seen in this
  function."  And the program has no loop whose body is one recorded instruction: there
  the value of the first iteration would be kept, and `NothingMismatches` violated.
* `library`: the exceptions are explained above their definitions.
  `HeapStarts <- NearStarts`, `Profiles <- StaleProfiles`: a stale pointer passes
  when a larger block covers the old one's start.
* `viewer`: a state may be moved or freed while the graph's worker reads it, because
  `invalidate` waits only once and closing does not ask the token; graphs, queued
  events and menus may outlive their state; a notification that comes before the
  worker waits is missed; an archive that is sent before it was closed, or that the
  server refuses, is removed;
  temporary directories of archives that could not be opened stay.
* `editor`: a source written in the second of its binary, or after the compiler has
  read it, is taken for compiled; a scratch pad that could not be written is
  compiled as it was; "save as" that fails leaves the text marked as saved.
* `mapping`: bit-fields and vectors have no value, and a layout that meets one may
  fail; a call whose last variable has no value takes edges of other objects; the edges
  from and to an array whose size is known at run time only are left out where no
  variable of its call lies above it; floats and doubles in memory are shown with six
  decimals, small ones as zero.

## 6. Not modelled

* The rewriting of LLVM IR (`RecordInternal`, `BreakConstantGEPs`, intrinsics), the
  compilation and the index of the serialised AST (`MappedAST`, `MDNames`,
  `Compile`): their correctness is about the semantics of LLVM and Clang.
* A recording of actions without a root element, of which `LoadRecording` complains
  when the replay window is made, before there is anything to change.
* Text: explanations (`ClangEPV`), localisation (`ICU`), printing, descriptions of
  errors, DOT output, `PrintOnlinePythonTutorTrace`.
* Of the runtime: signals, `exec*`, process start, `getopt`, the callbacks of
  `qsort` and `bsearch`, and `exit` handlers, which are called with the handlers'
  mutex held.  Blocking reads hold the memory lock while they wait, as
  `pthread_join` does; the model has only the latter.
* Drivers (`seec-print`, `seec-cc`, `seec-ld`), preferences, windows and their
  arrangement, the editor's panes for compiler output and detected traces.
* Interleavings between parts: function ends, stack restores, allocas and known
  regions change the process's containers without a process time, so workers of
  different threads apply them without the mutex; `StateMovement` treats them as
  local.  At the size limit each thread stops recording at its own next write, and
  a time may stay without its event: recorder and storage are not composed.
* Memory beyond a buffer: the reader looks at one byte after the last block, and
  `StateMovement.cpp:109` reads the event after the last one before it compares;
  the comparison that follows gives the right answer whatever was read.

## 7. Further work

1. `StateMovement` composed with `ThreadState` for the untimed events above;
   recorder and storage composed at the size limit.
2. Proofs: going back over one event in `ThreadState`, with a history as in
   `MemoryState_proofs`.
3. The callbacks of `qsort` and `bsearch`, and `exec*`, as calls of the library.
