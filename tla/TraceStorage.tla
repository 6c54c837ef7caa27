---------------------------- MODULE TraceStorage ----------------------------
(***************************************************************************)
(* The trace file while it is written (lib/Trace/TraceStorage.cpp and       *)
(* EventWriter).  Writers reserve blocks of the file by adding to one       *)
(* atomic offset; a block is a header (its type, the offset of the next     *)
(* block, for the events of a thread its ID) and then what is written into  *)
(* it.  Every thread has a stream of blocks for its events; the streams of  *)
(* all threads share the file with the process data, which the threads      *)
(* write in turn, and with blocks made for one piece of data.               *)
(*                                                                          *)
(* The file is modelled in cells: the magic, each field of a header and the *)
(* start of an event record (its type and the size of the preceding event)  *)
(* take one.  A cell that was never written reads as zero: the blocks are   *)
(* holes in a truncated file.                                               *)
(***************************************************************************)
EXTENDS Integers, Sequences, FiniteSets

CONSTANTS
  NumThreads,             \* threads 1..NumThreads
  BlockSize,              \* cells in a block of a stream (getBlockSize)
  EventSizes,             \* the sizes of event records
  FunctionStartSize,      \* the size of the records that are written twice
  DataSizes,              \* the sizes of pieces of process data
  SingleBlockThreshold,   \* data of at least this size get a block of their own
  TraceSizeLimit,         \* file size at which tracing is stopped
  MaxEvents,              \* bound on the events a thread tries to write
  MaxData,                \* bound on the pieces of data that are recorded
  MaxFailures             \* bound on the pwrite calls that fail

Threads == 1..NumThreads
Main == 1
HeaderSize == 2
IDSize == 1

ASSUME ConstantsAssumption ==
  /\ NumThreads \in Nat \ {0} /\ BlockSize \in Nat
  /\ EventSizes \subseteq Nat \ {0} /\ DataSizes \subseteq Nat \ {0}
  /\ FunctionStartSize \in EventSizes
  /\ \A n \in EventSizes : n + HeaderSize + IDSize <= BlockSize
  /\ \A n \in DataSizes : n < SingleBlockThreshold => n + HeaderSize <= BlockSize
  /\ SingleBlockThreshold \in Nat /\ TraceSizeLimit \in Nat
  /\ MaxEvents \in Nat /\ MaxData \in Nat /\ MaxFailures \in Nat

(***************************************************************************)
(* Stream t > 0 is the event stream of thread t, stream 0 the process data; *)
(* -t is the block that thread t makes for a single piece of data.          *)
(***************************************************************************)
Streams == (-NumThreads)..NumThreads
ProcessData == 0

VARIABLES
  file,             \* offset -> cell, for the cells that were written
  m_TraceOffset,    \* the end of the blocks that are reserved
  m_Block,          \* stream -> its block: where it ends, where to write next
  writer,           \* thread -> the write it is in the middle of
  log,              \* thread -> the events whose writes succeeded, in order
  PreviousEventSize,
  Out,              \* thread -> is its event stream open?
  OutputEnabled,    \* is tracing enabled in the process?
  phase,            \* progress of the set-up of the process
  DataOutOffset,
  refs,             \* the data that were recorded, and the offset returned
  tried,            \* thread -> number of events it tried to write
  failures          \* number of failed calls of pwrite

vars == <<file, m_TraceOffset, m_Block, writer, log, PreviousEventSize, Out,
          OutputEnabled, phase, DataOutOffset, refs, tried, failures>>

NoBlock == [end |-> 0, next |-> 0]
HasBlock(s) == m_Block[s].end > 0

Idle == [pc |-> "idle", stream |-> 0, type |-> "none", again |-> FALSE, item |-> <<>>]

\* The cells of an event record: its start and the rest.
Event(t, n, size, prev) ==
  [i \in 1..size |-> IF i = 1
     THEN [kind |-> "event", by |-> t, n |-> n, size |-> size, prev |-> prev,
           version |-> 0, torn |-> FALSE]
     ELSE [kind |-> "rest", by |-> t, n |-> n]]

\* The cells of a piece of process data, of the bitcode or the process trace.
Piece(kind, n, size) == [i \in 1..size |-> [kind |-> kind, n |-> n, i |-> i]]

-----------------------------------------------------------------------------
\* A cell as it is in the file: a record whose rest is missing is torn.
Stored(cell, whole) ==
  IF cell.kind = "event" THEN [cell EXCEPT !.torn = ~whole] ELSE cell

\* pwrite of the first k of the cells at an offset.
Pwrite(cells, offset, k) ==
  [o \in DOMAIN file \cup offset..(offset + k - 1) |->
     IF o \in offset..(offset + k - 1)
     THEN Stored(cells[o - offset + 1], k = Len(cells))
     ELSE file[o]]

\* Mutant: any room is enough.
FitsAny(b, n) == b.next < b.end

\* Is there room for n more cells?
Fits(b, n) == b.next < b.end /\ n <= b.end - b.next

\* OutputBlock::write counts the cells even if they do not fit or fail.
Advanced(b, n) == IF b.next < b.end THEN [b EXCEPT !.next = @ + n] ELSE b

(***************************************************************************)
(* OutputBlock::write of cells to the block of stream s: k cells reach the  *)
(* file.  It succeeds if they are all of them.                              *)
(***************************************************************************)
OutputBlockWrite(s, cells, k) ==
  LET b == m_Block[s] IN
  /\ k \in 0..Len(cells)
  /\ Fits(b, Len(cells)) => k = Len(cells) \/ failures < MaxFailures
  /\ ~Fits(b, Len(cells)) => k = 0
  /\ m_Block' = [m_Block EXCEPT ![s] = Advanced(b, Len(cells))]
  /\ file' = Pwrite(cells, b.next, k)
  /\ failures' = IF Fits(b, Len(cells)) /\ k < Len(cells) THEN failures + 1 ELSE failures

-----------------------------------------------------------------------------
\* Set-up: the magic is written, main is about to write the module.
Init ==
  /\ file = [o \in {0} |-> [kind |-> "magic"]]
  /\ m_TraceOffset = 1
  /\ m_Block = [s \in Streams |-> NoBlock]
  /\ writer = [t \in Threads |-> Idle]
  /\ log = [t \in Threads |-> <<>>]
  /\ PreviousEventSize = [t \in Threads |-> 0]
  /\ Out = [t \in Threads |-> TRUE]
  /\ OutputEnabled = TRUE
  /\ phase = "module"
  /\ DataOutOffset = 0
  /\ refs = <<>>
  /\ tried = [t \in Threads |-> 0]
  /\ failures = 0

\* Thread t starts to write an item to a stream.
Start(t, stream, type, item) ==
  writer' = [writer EXCEPT ![t] =
    [pc |-> IF stream >= 0 /\ HasBlock(stream) THEN "item" ELSE "reserve",
     stream |-> stream, type |-> type, again |-> FALSE, item |-> item]]

\* writeModule: the bitcode, in a block of its own.
writeModule ==
  /\ phase = "module" /\ writer[Main].pc = "idle"
  /\ Start(Main, -Main, "ModuleBitcode", Piece("bitcode", 1, 1))
  /\ UNCHANGED <<file, m_TraceOffset, m_Block, log, PreviousEventSize, Out,
                 OutputEnabled, phase, DataOutOffset, refs, tried, failures>>

\* traceWriteProcessData, the last step of the set-up.
traceWriteProcessData ==
  /\ phase = "process" /\ writer[Main].pc = "idle"
  /\ Start(Main, -Main, "ProcessTrace", Piece("process", 1, 1))
  /\ UNCHANGED <<file, m_TraceOffset, m_Block, log, PreviousEventSize, Out,
                 OutputEnabled, phase, DataOutOffset, refs, tried, failures>>

\* The other threads are started by main, after it has entered a function.
Running(t) == /\ phase = "running"
              /\ writer[t].pc = "idle"
              /\ t # Main => log[Main] # <<>>

\* EventWriter::write of an event record of a size.
write(t, size) ==
  /\ Running(t) /\ Out[t] /\ tried[t] < MaxEvents
  /\ tried' = [tried EXCEPT ![t] = @ + 1]
  /\ Start(t, t, "ThreadEvents", Event(t, tried[t] + 1, size, PreviousEventSize[t]))
  /\ UNCHANGED <<file, m_TraceOffset, m_Block, log, PreviousEventSize, Out,
                 OutputEnabled, phase, DataOutOffset, refs, failures>>

\* No thread holds DataOutMutex.
DataFree == \A t \in Threads : writer[t].pc = "idle" \/ writer[t].type # "ProcessData"

\* recordData: by main during the set-up, by every thread later.
recordData(t, size) ==
  /\ Running(t) \/ (phase = "process" /\ t = Main /\ writer[t].pc = "idle")
  /\ DataFree /\ Len(refs) < MaxData
  /\ Start(t, IF size < SingleBlockThreshold THEN ProcessData ELSE -t,
           "ProcessData", Piece("data", Len(refs) + 1, size))
  /\ UNCHANGED <<file, m_TraceOffset, m_Block, log, PreviousEventSize, Out,
                 OutputEnabled, phase, DataOutOffset, refs, tried, failures>>

-----------------------------------------------------------------------------
(***************************************************************************)
(* getNewBlock: getOutputBlock reserves the block, then the constructor of  *)
(* OutputBlock and the header writer of the stream write the header.  The   *)
(* results of these writes are not used.                                    *)
(***************************************************************************)
At(t, pc) == writer[t].pc = pc
Goto(t, pc) == writer' = [writer EXCEPT ![t].pc = pc]

\* A block made for one piece of data has its size.
NBytes(w) == IF w.stream < 0 THEN HeaderSize + Len(w.item) ELSE BlockSize

\* Mutant: blocks are padded, but the offset of the next block is not.
getOutputBlockPadded(t) ==
  LET w == writer[t] IN
  /\ At(t, "reserve")
  /\ m_TraceOffset' = m_TraceOffset + NBytes(w) + 1
  /\ m_Block' = [m_Block EXCEPT ![w.stream] =
                   [end |-> m_TraceOffset + NBytes(w), next |-> m_TraceOffset]]
  /\ Goto(t, "type")
  /\ UNCHANGED <<file, log, PreviousEventSize, Out, OutputEnabled, phase,
                 DataOutOffset, refs, tried, failures>>

getOutputBlock(t) ==
  LET w == writer[t] IN
  /\ At(t, "reserve")
  /\ m_TraceOffset' = m_TraceOffset + NBytes(w)
  /\ m_Block' = [m_Block EXCEPT ![w.stream] =
                   [end |-> m_TraceOffset + NBytes(w), next |-> m_TraceOffset]]
  /\ Goto(t, "type")
  /\ UNCHANGED <<file, log, PreviousEventSize, Out, OutputEnabled, phase,
                 DataOutOffset, refs, tried, failures>>

WriteHeaderCell(t, pc, cell, next) ==
  /\ At(t, pc)
  /\ \E k \in 0..1 : OutputBlockWrite(writer[t].stream, <<cell>>, k)
  /\ Goto(t, next)
  /\ UNCHANGED <<m_TraceOffset, log, PreviousEventSize, Out, OutputEnabled, phase,
                 DataOutOffset, refs, tried>>

WriteType(t) ==
  WriteHeaderCell(t, "type", [kind |-> "type", type |-> writer[t].type], "next")

WriteNextBlock(t) ==
  WriteHeaderCell(t, "next", [kind |-> "next", end |-> m_Block[writer[t].stream].end],
                  IF writer[t].type = "ThreadEvents" THEN "id" ELSE "item")

writeHeader(t) == WriteHeaderCell(t, "id", [kind |-> "id", id |-> t], "item")

-----------------------------------------------------------------------------
(***************************************************************************)
(* The write of the item itself.  If it fails in a stream, it is tried once *)
(* more in a new block; if it fails there the item is lost.                 *)
(***************************************************************************)
Retries(w) == w.stream >= 0 /\ ~w.again

\* What follows a write that is over, successful or not.
Finished(t, success) ==
  LET w == writer[t] IN
  /\ writer' = [writer EXCEPT ![t] = Idle]
  /\ log' = IF success /\ w.type = "ThreadEvents"
            THEN [log EXCEPT ![t] = Append(@, [offset |-> m_Block[w.stream].next,
                                               event |-> w.item[1]])]
            ELSE log
  /\ PreviousEventSize' = IF success /\ w.type = "ThreadEvents"
                          THEN [PreviousEventSize EXCEPT ![t] = Len(w.item)]
                          ELSE PreviousEventSize
  /\ IF w.type = "ProcessData"
     THEN /\ refs' = Append(refs, [offset |-> DataOutOffset, item |-> w.item,
                                   written |-> success])
          /\ DataOutOffset' = DataOutOffset + Len(w.item)
     ELSE UNCHANGED <<refs, DataOutOffset>>
  /\ phase' = CASE w.type = "ModuleBitcode" -> "process"
                [] w.type = "ProcessTrace"  -> "running"
                [] OTHER                    -> phase

WriteItem(t) ==
  LET w == writer[t] IN
  /\ At(t, "item")
  /\ \E k \in 0..Len(w.item) :
       /\ OutputBlockWrite(w.stream, w.item, k)
       /\ IF k < Len(w.item) /\ Retries(w)
          THEN /\ writer' = [writer EXCEPT ![t].pc = "reserve", ![t].again = TRUE]
               /\ UNCHANGED <<log, PreviousEventSize, refs, DataOutOffset, phase>>
          ELSE Finished(t, k = Len(w.item))
  /\ UNCHANGED <<m_TraceOffset, Out, OutputEnabled, tried>>

(***************************************************************************)
(* EventWriter::rewrite: the start of a function is written again, with     *)
(* what is known when the function ends.  A failure leaves the record.      *)
(***************************************************************************)
rewrite(t, i) ==
  LET r == log[t][i] IN
  /\ Running(t) /\ Out[t]
  /\ r.event.size = FunctionStartSize /\ r.event.version = 0
  /\ file' = [file EXCEPT ![r.offset] = [r.event EXCEPT !.version = 1]]
  /\ log' = [log EXCEPT ![t][i].event.version = 1]
  /\ UNCHANGED <<m_TraceOffset, m_Block, writer, PreviousEventSize, Out,
                 OutputEnabled, phase, DataOutOffset, refs, tried, failures>>

\* checkOutputSize stops the tracing of the whole process ...
checkOutputSize(t) ==
  /\ Running(t) /\ Out[t] /\ OutputEnabled
  /\ m_TraceOffset > TraceSizeLimit
  /\ OutputEnabled' = FALSE
  /\ UNCHANGED <<file, m_TraceOffset, m_Block, writer, log, PreviousEventSize, Out,
                 phase, DataOutOffset, refs, tried, failures>>

\* ... and a thread closes its stream when it leaves a notification, or ends.
traceClose(t) ==
  /\ Running(t) /\ Out[t]
  /\ Out' = [Out EXCEPT ![t] = FALSE]
  /\ UNCHANGED <<file, m_TraceOffset, m_Block, writer, log, PreviousEventSize,
                 OutputEnabled, phase, DataOutOffset, refs, tried, failures>>

Next ==
  \/ writeModule
  \/ traceWriteProcessData
  \/ \E t \in Threads :
       \/ \E size \in EventSizes : write(t, size)
       \/ \E size \in DataSizes : recordData(t, size)
       \/ getOutputBlock(t)
       \/ WriteType(t)
       \/ WriteNextBlock(t)
       \/ writeHeader(t)
       \/ WriteItem(t)
       \/ \E i \in DOMAIN log[t] : rewrite(t, i)
       \/ checkOutputSize(t)
       \/ traceClose(t)

Spec == Init /\ [][Next]_vars
-----------------------------------------------------------------------------
EventCell  == [kind : {"event"}, by : Threads, n : Nat, size : Nat, prev : Nat,
               version : {0, 1}, torn : BOOLEAN]
RestCell   == [kind : {"rest"}, by : Threads, n : Nat]
PieceCell  == [kind : {"bitcode", "process", "data"}, n : Nat, i : Nat]
ItemCell   == EventCell \cup RestCell \cup PieceCell
BlockTypes == {"none", "ModuleBitcode", "ProcessTrace", "ProcessData", "ThreadEvents"}
HeaderCell == [kind : {"magic"}] \cup [kind : {"type"}, type : BlockTypes]
                \cup [kind : {"next"}, end : Nat] \cup [kind : {"id"}, id : Threads]

Writers == [pc : {"idle", "reserve", "type", "next", "id", "item"}, stream : Streams,
            type : BlockTypes, again : BOOLEAN, item : Seq(ItemCell)]

\* The type of every variable: what the cells, writers, logs and references hold.
TypeOK ==
  /\ \A o \in DOMAIN file : o \in Nat /\ file[o] \in ItemCell \cup HeaderCell
  /\ m_TraceOffset \in Nat
  /\ m_Block \in [Streams -> [end : Nat, next : Nat]]
  /\ writer \in [Threads -> Writers]
  /\ log \in [Threads -> Seq([offset : Nat, event : EventCell])]
  /\ PreviousEventSize \in [Threads -> Nat]
  /\ Out \in [Threads -> BOOLEAN]
  /\ OutputEnabled \in BOOLEAN
  /\ phase \in {"module", "process", "running"}
  /\ DataOutOffset \in Nat
  /\ refs \in Seq([offset : Nat, item : Seq(ItemCell), written : BOOLEAN])
  /\ tried \in [Threads -> Nat]
  /\ failures \in Nat

(***************************************************************************)
(* Why nothing is overwritten.  The part of its block that a stream has     *)
(* still to write to is not written yet and belongs to no other stream; the *)
(* records that can be rewritten are where the log says.                    *)
(***************************************************************************)
Free(s) == m_Block[s].next..(m_Block[s].end - 1)

Reserved == /\ \A o \in DOMAIN file : o < m_TraceOffset
            /\ \A s \in Streams : m_Block[s].end <= m_TraceOffset

FreeIsUnwritten == \A s \in Streams : Free(s) \cap DOMAIN file = {}

FreeIsOwned == \A s1, s2 \in Streams : s1 # s2 => Free(s1) \cap Free(s2) = {}

EventInHand(w) ==
  w.pc # "idle" /\ w.type = "ThreadEvents" =>
    w.item # <<>> /\ w.item[1] \in EventCell /\ ~w.item[1].torn

LogIsWritten ==
  /\ \A t \in Threads : EventInHand(writer[t])
  /\ \A t \in Threads : \A i \in DOMAIN log[t] :
       log[t][i].offset \in DOMAIN file /\ file[log[t][i].offset] = log[t][i].event

LogIsInjective ==
  \A t, u \in Threads : \A i \in DOMAIN log[t] : \A j \in DOMAIN log[u] :
    log[t][i].offset = log[u][j].offset => t = u /\ i = j

IndInv == /\ TypeOK /\ Reserved /\ FreeIsUnwritten /\ FreeIsOwned
          /\ LogIsWritten /\ LogIsInjective

\* Does a cell of a record stay one of that record?
SameRecord(c, d) ==
  /\ c.kind = d.kind
  /\ c.kind = "event" => c.by = d.by /\ c.n = d.n /\ c.torn = d.torn
  /\ c.kind # "event" => c = d

(***************************************************************************)
(* No write destroys what another one has written: the atomic offsets keep  *)
(* concurrent writers apart, a block is never left at its end, and a        *)
(* rewrite hits the record it is for.                                       *)
(***************************************************************************)
NothingOverwritten ==
  [][\A o \in DOMAIN file : o \in DOMAIN file' /\ SameRecord(file[o], file'[o])]_vars
=============================================================================
