----------------------------- MODULE TraceReader -----------------------------
(***************************************************************************)
(* How a trace file is read (lib/Trace/TraceReader.cpp): the blocks are     *)
(* found by following the offset of the next block, the blocks of a thread  *)
(* are put into a sequence in the order of the file, and the events of a    *)
(* thread are walked forward by their sizes and backward by the recorded    *)
(* size of the preceding event.  The file is read as it is in any state of  *)
(* TraceStorage: the writing process may have been killed there.            *)
(***************************************************************************)
EXTENDS TraceStorage, SequencesExt, FiniteSetsExt

\* The elements of s that are in S, in their order.
Picked(s, S) ==
  LET picked[n \in 0..Len(s)] ==
        IF n = 0 THEN <<>>
        ELSE LET before == picked[n - 1]
             IN  IF s[n] \in S THEN Append(before, s[n]) ELSE before
  IN  picked[Len(s)]

Zero == [kind |-> "zero"]
Cell(o) == IF o \in DOMAIN file THEN file[o] ELSE Zero
BufferEnd == Max(DOMAIN file) + 1

Malformed == <<[type |-> "malformed", start |-> 0, end |-> 0]>>
Offsets == 0..m_TraceOffset

\* The loop condition of createForFile.
MoreBlocks(o) == o < BufferEnd - HeaderSize

(***************************************************************************)
(* The blocks from offset 1 on, or Malformed: a type that is not known, as  *)
(* a block that is reserved but has no header yet.  A missing offset of the *)
(* next block leads to the magic, which is no type.                         *)
(***************************************************************************)
Blocks ==
  LET blocks[o \in Offsets] ==
        IF ~MoreBlocks(o) THEN <<>>
        ELSE IF Cell(o).kind # "type" \/ Cell(o + 1).kind # "next" THEN Malformed
        ELSE LET rest == blocks[Cell(o + 1).end]
             IN  IF rest = Malformed THEN Malformed
                 ELSE <<[type |-> Cell(o).type, start |-> o + HeaderSize,
                         end |-> Cell(o + 1).end]>> \o rest
  IN  blocks[1]

OfType(bs, type) == {i \in DOMAIN bs : bs[i].type = type}

\* createForFile accepts exactly one module and one process trace.
Accepted(bs) == /\ bs # Malformed
                /\ Cardinality(OfType(bs, "ModuleBitcode")) = 1
                /\ Cardinality(OfType(bs, "ProcessTrace")) = 1

\* The blocks of the events of thread t, in the order of the file.
BlocksThreadEvents(bs, t) ==
  Picked(bs, {b \in Range(bs) : /\ b.type = "ThreadEvents"
                                /\ Cell(b.start) = [kind |-> "id", id |-> t]})

NumberOfThreads(bs) ==
  LET ids == {t \in Threads : BlocksThreadEvents(bs, t) # <<>>}
  IN  IF ids = {} THEN 0 ELSE Max(ids)

(***************************************************************************)
(* The reader indexes a vector with the ID minus one, takes the size of the *)
(* first event of every block and the events of every thread below the      *)
(* greatest ID without looking: its behaviour is undefined if there is no   *)
(* ID, no event or no block.                                                *)
(***************************************************************************)
WellDefined(bs) ==
  /\ \A i \in DOMAIN bs : bs[i].type = "ThreadEvents" =>
       /\ Cell(bs[i].start).kind = "id"
       /\ Cell(bs[i].start + IDSize).kind = "event"
  /\ \A t \in 1..NumberOfThreads(bs) : BlocksThreadEvents(bs, t) # <<>>

\* Mutant: an event that takes the last cell of a block is not seen.
MoreEventsBeforeEnd(next, b) == next < b.end - 1 /\ Cell(next).kind # "zero"

\* The loop condition of ThreadEventBlockSequence; a record has at least one cell.
MoreEvents(next, b) == next <= b.end - 1 /\ Cell(next).kind # "zero"

EventOffsets == {o \in DOMAIN file : file[o].kind = "event"}

EventsInBlock(b) == {o \in EventOffsets : b.start < o /\ o < b.end}

\* The offsets of the events of a block, from its first one on.
EventsIn(b) ==
  LET events[o \in EventsInBlock(b)] ==
        LET next == o + Cell(o).size
        IN  <<o>> \o (IF MoreEvents(next, b) THEN events[next] ELSE <<>>)
  IN  events[b.start + IDSize]

\* The events of the blocks of a thread, as EventReference::operator++ meets them.
Forward(tbs) ==
  LET met[n \in 0..Len(tbs)] == IF n = 0 THEN <<>> ELSE met[n - 1] \o EventsIn(tbs[n])
  IN  met[Len(tbs)]

\* EventReference::operator--, at the event at offset o in block i.
Previous(tbs, i, o) ==
  IF o - Cell(o).prev >= tbs[i].start + IDSize
  THEN <<i, o - Cell(o).prev>>
  ELSE <<i - 1, Last(EventsIn(tbs[i - 1]))>>

\* The events of the blocks of a thread, from the last one back to the first.
Backward(tbs) ==
  LET first == tbs[1].start + IDSize
      walk[n \in Offsets] ==
        IF n = 0 THEN <<Len(tbs), Last(EventsIn(Last(tbs)))>>
        ELSE LET at == walk[n - 1]
             IN  IF at[2] = first THEN at ELSE Previous(tbs, at[1], at[2])
      steps == CHOOSE n \in Offsets : /\ walk[n][2] = first \/ n = m_TraceOffset
                                      /\ \A m \in 0..(n - 1) : walk[m][2] # first
  IN  IF tbs = <<>> THEN <<>> ELSE [n \in 1..(steps + 1) |-> walk[n - 1][2]]

-----------------------------------------------------------------------------
(***************************************************************************)
(* Whatever has been interrupted or has failed, a trace that the reader     *)
(* accepts gives for every thread exactly the events whose writes           *)
(* succeeded, each as it was last written and in their order; between them  *)
(* there can only be torn records.                                          *)
(***************************************************************************)
AcceptedIsExact ==
  LET bs == Blocks IN
  Accepted(bs) /\ WellDefined(bs) =>
    \A t \in Threads :
      LET events == Forward(BlocksThreadEvents(bs, t))
          whole  == Picked(events, {o \in Range(events) : ~Cell(o).torn})
      IN  /\ Len(whole) = Len(log[t])
          /\ \A i \in DOMAIN whole : /\ whole[i] = log[t][i].offset
                                     /\ Cell(whole[i]) = log[t][i].event

(***************************************************************************)
(* The events of a thread are met in the opposite order when they are       *)
(* walked backward, over the boundaries of blocks, where the size of the    *)
(* preceding event is that of an event in another block.  (If the first     *)
(* record of a thread is torn, the walk never gets past its successor: the  *)
(* size recorded there is zero.)                                            *)
(***************************************************************************)
BackwardIsReverse ==
  LET bs == Blocks IN
  Accepted(bs) /\ WellDefined(bs) =>
    \A t \in Threads :
      LET tbs    == BlocksThreadEvents(bs, t)
          events == Forward(tbs)
      IN  (\A o \in Range(events) : ~Cell(o).torn) => Backward(tbs) = Reverse(events)

\* What the reader gives is what was written, in both directions.
ReadIsExact == AcceptedIsExact /\ BackwardIsReverse

\* Thread t is making a block, or has not put its first event into it.
MakingBlock(t) ==
  \/ writer[t].pc \in {"type", "next", "id"}
  \/ /\ writer[t].pc = "item" /\ writer[t].type = "ThreadEvents"
     /\ Cell(m_Block[t].next - 1).kind = "id"

\* No thread has written an event before the threads that are older than it.
EldersHaveWritten ==
  \A t \in Threads : log[t] # <<>> => \A u \in 1..(t - 1) : log[u] # <<>>

(***************************************************************************)
(* Once the process is set up and as long as no write has failed, the trace *)
(* can be read at every moment at which no thread is in the middle of       *)
(* making a block: the blocks of concurrent writers leave no gap that the   *)
(* reader stumbles over.  (It does stumble over a thread without any event  *)
(* below one that has some, whose numbers are given before they write.)     *)
(***************************************************************************)
ReadableBetweenBlocks ==
  phase = "running" /\ failures = 0 /\ EldersHaveWritten /\ ~(\E t \in Threads : MakingBlock(t))
    => LET bs == Blocks IN Accepted(bs) /\ WellDefined(bs)

-----------------------------------------------------------------------------
\* For the model checker: two threads and data with a disk that works, or one
\* thread whose writes fail.
OneHazardAtATime ==
  \/ failures = 0 /\ \A t \in Threads : tried[t] <= 2
  \/ refs = <<>> /\ DataFree /\ \A t \in Threads \ {Main} : tried[t] = 0

\* The behaviours of Spec that stay within these bounds.
BoundedSpec == Init /\ [][Next /\ OneHazardAtATime']_vars
=============================================================================
