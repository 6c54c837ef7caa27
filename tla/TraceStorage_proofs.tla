------------------------ MODULE TraceStorage_proofs ------------------------
(***************************************************************************)
(* For every number of threads, block size and set of sizes, and whatever   *)
(* calls of pwrite fail: no write to the trace file destroys what another   *)
(* one has written, a reader that accepts the file finds in it exactly the  *)
(* events whose writes succeeded, and it can read the file between blocks.  *)
(*                                                                         *)
(* The first part keeps the writers apart.  The second one is the shape     *)
(* that the file has at any moment (ReadInv): blocks that do not overlap,   *)
(* events that follow one another in blocks of their threads, logs in the   *)
(* order of the file.  The third one adds what holds as long as no call of  *)
(* pwrite has failed (WholeInv): blocks without a gap between them.  In the *)
(* last one the reader's functions are evaluated on a file of that shape.   *)
(***************************************************************************)
EXTENDS TraceReader, SequenceTheorems, FiniteSetTheorems, TLAPS

\* What is written into a block: a field of its header or an item.
AnyCell == ItemCell \cup HeaderCell

\* The part of the invariant that is about the file and the blocks.
FileInv == /\ \A o \in DOMAIN file : o \in Nat /\ file[o] \in AnyCell
           /\ m_TraceOffset \in Nat
           /\ m_Block \in [Streams -> [end : Nat, next : Nat]]
           /\ failures \in Nat
           /\ Reserved /\ FreeIsUnwritten /\ FreeIsOwned

\* What is in the file stays there.
Kept == \A o \in DOMAIN file : o \in DOMAIN file' /\ file'[o] = file[o]

\* A cell in the file is a cell; a record that is not torn is as it was written.
LEMMA StoredCell ==
  ASSUME NEW c \in AnyCell, NEW b \in BOOLEAN
  PROVE  /\ Stored(c, b) \in AnyCell
         /\ c \in EventCell /\ ~c.torn => Stored(c, TRUE) = c
PROOF
<1>1. CASE c.kind = "event"
  <2>1. c \in EventCell
    BY <1>1 DEF AnyCell, ItemCell, RestCell, PieceCell, HeaderCell
  <2>2. [c EXCEPT !.torn = ~b] \in EventCell
    BY <2>1, Zenon DEF EventCell
  <2>3. c.torn = FALSE => [c EXCEPT !.torn = ~TRUE] = c
    BY <2>1, Zenon DEF EventCell
  <2> QED BY <1>1, <2>1, <2>2, <2>3, Zenon DEF Stored, AnyCell, ItemCell, EventCell
<1>2. CASE c.kind # "event"
  BY <1>2 DEF Stored, EventCell
<1> QED BY <1>1, <1>2

\* OutputBlock::write puts its cells into the free part of the block of its
\* stream, whether or not they fit and however many reach the file.
LEMMA WriteStep ==
  ASSUME FileInv, NEW s \in Streams, NEW cells \in Seq(AnyCell), NEW k \in Nat,
         OutputBlockWrite(s, cells, k), m_TraceOffset' = m_TraceOffset
  PROVE  /\ FileInv'
         /\ Kept
         /\ k = Len(cells) /\ cells # <<>> =>
              /\ m_Block[s].next \in DOMAIN file' /\ m_Block[s].next \notin DOMAIN file
              /\ file'[m_Block[s].next] = Stored(cells[1], TRUE)
PROOF
<1> DEFINE b == m_Block[s]
           n == Len(cells)
           here == b.next..(b.next + k - 1)
<1>1. /\ b \in [end : Nat, next : Nat] /\ b.end \in Nat /\ b.next \in Nat /\ n \in Nat
      /\ b.end <= m_TraceOffset /\ m_TraceOffset \in Nat
  BY DEF FileInv, Reserved
<1>2. /\ k \in 0..n
      /\ ~Fits(b, n) => k = 0
      /\ m_Block' = [m_Block EXCEPT ![s] = Advanced(b, n)]
      /\ file' = Pwrite(cells, b.next, k)
      /\ failures' = IF Fits(b, n) /\ k < n THEN failures + 1 ELSE failures
  BY DEF OutputBlockWrite
<1>3. here \subseteq Free(s)
  BY <1>1, <1>2 DEF Fits, Free
<1>4. here \cap DOMAIN file = {}
  BY <1>3 DEF FileInv, FreeIsUnwritten
<1>5. DOMAIN file' = DOMAIN file \cup here
  BY <1>2 DEF Pwrite
<1>6. \A o \in DOMAIN file : file'[o] = file[o]
  BY <1>2, <1>4, <1>5 DEF Pwrite
<1>7. Kept
  BY <1>5, <1>6 DEF Kept
<1>8. \A o \in here : /\ o \in Nat
                      /\ o - b.next + 1 \in DOMAIN cells
                      /\ cells[o - b.next + 1] \in AnyCell
                      /\ file'[o] = Stored(cells[o - b.next + 1], k = n)
  BY <1>1, <1>2, <1>5 DEF Pwrite
<1>9. \A o \in here : o \in Nat /\ file'[o] \in AnyCell
  BY <1>8, StoredCell
<1>10. Advanced(b, n) \in [end : Nat, next : Nat]
  BY <1>1 DEF Advanced
<1>11. /\ m_Block' \in [Streams -> [end : Nat, next : Nat]]
       /\ \A u \in Streams : u # s => m_Block'[u] = m_Block[u]
       /\ m_Block'[s] = Advanced(b, n)
  BY <1>2, <1>10 DEF FileInv
<1>12. /\ m_Block'[s].end = b.end
       /\ m_Block'[s].next = IF b.next < b.end THEN b.next + n ELSE b.next
  BY <1>11, <1>1 DEF Advanced
<1>13. \A u \in Streams : m_Block'[u].end = m_Block[u].end
  BY <1>11, <1>12
<1>14. Free(s)' \subseteq Free(s) /\ Free(s)' \cap here = {}
  <2>1. Free(s)' = m_Block'[s].next..(m_Block'[s].end - 1)
    BY DEF Free
  <2>2. Free(s) = b.next..(b.end - 1)
    BY DEF Free
  <2>3. CASE b.next < b.end
    <3>1. /\ m_Block'[s].next = b.next + n /\ m_Block'[s].end = b.end
          /\ b.next \in Nat /\ b.end \in Nat /\ n \in Nat /\ k \in 0..n
      BY <2>3, <1>1, <1>2, <1>12
    <3>2. Free(s)' = (b.next + n)..(b.end - 1)
      BY <3>1, <2>1
    <3> HIDE DEF b, n
    <3> QED BY <3>1, <3>2, <2>2
  <2>4. CASE ~(b.next < b.end)
    <3>1. /\ m_Block'[s].next = b.next /\ m_Block'[s].end = b.end
          /\ b.next \in Nat /\ b.end \in Nat
      BY <2>4, <1>1, <1>12
    <3>2. Free(s)' = {}
      BY <3>1, <2>1, <2>4
    <3> QED BY <3>2
  <2> QED BY <2>3, <2>4
<1>15. \A u \in Streams : u # s => Free(u)' = Free(u)
  BY <1>11 DEF Free
<1>16. FreeIsUnwritten'
  <2> SUFFICES ASSUME NEW u \in Streams PROVE Free(u)' \cap DOMAIN file' = {}
    BY DEF FreeIsUnwritten
  <2>1. Free(u) \cap DOMAIN file = {}
    BY DEF FileInv, FreeIsUnwritten
  <2>2. CASE u = s
    BY <2>1, <2>2, <1>14, <1>5
  <2>3. CASE u # s
    <3>1. Free(u) \cap Free(s) = {}
      BY <2>3 DEF FileInv, FreeIsOwned
    <3> QED BY <3>1, <2>1, <2>3, <1>15, <1>3, <1>5
  <2> QED BY <2>2, <2>3
<1>17. FreeIsOwned'
  <2> SUFFICES ASSUME NEW u \in Streams, NEW v \in Streams, u # v
               PROVE  Free(u)' \cap Free(v)' = {}
    BY DEF FreeIsOwned
  <2>1. Free(u) \cap Free(v) = {}
    BY DEF FileInv, FreeIsOwned
  <2>2. Free(u)' \subseteq Free(u) /\ Free(v)' \subseteq Free(v)
    BY <1>14, <1>15
  <2> QED BY <2>1, <2>2
<1>18. Reserved'
  <2>1. \A o \in here : o < m_TraceOffset
    BY <1>3, <1>1 DEF Free
  <2> QED BY <2>1, <1>5, <1>13 DEF FileInv, Reserved
<1>19. /\ \A o \in DOMAIN file' : o \in Nat /\ file'[o] \in AnyCell
       /\ failures' \in Nat
  BY <1>9, <1>6, <1>5, <1>2 DEF FileInv
<1>20. FileInv'
  BY <1>11, <1>16, <1>17, <1>18, <1>19, <1>1 DEF FileInv
<1>21. ASSUME k = Len(cells), cells # <<>>
       PROVE  /\ b.next \in DOMAIN file' /\ b.next \notin DOMAIN file
              /\ file'[b.next] = Stored(cells[1], TRUE)
  <2>1. n > 0
    BY <1>21
  <2>2. b.next \in here
    BY <2>1, <1>21, <1>1
  <2>3. b.next - b.next + 1 = 1 /\ (k = n) = TRUE
    BY <1>21, <1>1
  <2> QED BY <2>2, <2>3, <1>4, <1>5, <1>8
<1> QED BY <1>7, <1>20, <1>21

-----------------------------------------------------------------------------
\* The part of the invariant that is about the writers and their logs.
WriterInv == /\ writer \in [Threads -> Writers]
             /\ \A t \in Threads : EventInHand(writer[t])

\* The part of the invariant that is about the log.
LogInv == /\ log \in [Threads -> Seq([offset : Nat, event : EventCell])]
          /\ \A t \in Threads : \A i \in DOMAIN log[t] :
               log[t][i].offset \in DOMAIN file /\ file[log[t][i].offset] = log[t][i].event
          /\ LogIsInjective

\* The types of the variables that neither of them is about.
OtherTypes == /\ PreviousEventSize \in [Threads -> Nat]
              /\ Out \in [Threads -> BOOLEAN]
              /\ OutputEnabled \in BOOLEAN
              /\ phase \in {"module", "process", "running"}
              /\ DataOutOffset \in Nat
              /\ refs \in Seq([offset : Nat, item : Seq(ItemCell), written : BOOLEAN])
              /\ tried \in [Threads -> Nat]

\* The parts are the whole.
LEMMA Parts == IndInv <=> FileInv /\ WriterInv /\ LogInv /\ OtherTypes
  BY DEF IndInv, TypeOK, LogIsWritten, FileInv, AnyCell, WriterInv, LogInv, OtherTypes

\* What the set of streams contains.
LEMMA StreamsFacts ==
  /\ Main \in Threads
  /\ ProcessData \in Streams
  /\ \A t \in Threads : t \in Streams /\ -t \in Streams /\ t \in Nat \ {0}
  /\ Streams \subseteq Int
  BY ConstantsAssumption DEF ConstantsAssumption, Main, Threads, Streams, ProcessData

\* The cells of an event are a sequence that starts with its record.
LEMMA EventItem ==
  ASSUME NEW t \in Threads, NEW n \in Nat, NEW size \in Nat \ {0}, NEW prev \in Nat
  PROVE  /\ Event(t, n, size, prev) \in Seq(ItemCell)
         /\ Event(t, n, size, prev) # <<>>
         /\ Event(t, n, size, prev)[1] \in EventCell
         /\ ~Event(t, n, size, prev)[1].torn
PROOF
<1> DEFINE first == [kind |-> "event", by |-> t, n |-> n, size |-> size, prev |-> prev,
                     version |-> 0, torn |-> FALSE]
           rest  == [kind |-> "rest", by |-> t, n |-> n]
           e     == Event(t, n, size, prev)
<1>1. first \in EventCell /\ rest \in RestCell /\ ~first.torn
  BY DEF EventCell, RestCell
<1>2. first \in ItemCell /\ rest \in ItemCell
  BY <1>1 DEF ItemCell
<1>3. e = [i \in 1..size |-> IF i = 1 THEN first ELSE rest]
  BY DEF Event
<1> HIDE DEF first, rest, e
<1>4. e \in [1..size -> ItemCell]
  BY <1>2, <1>3
<1>5. e \in Seq(ItemCell)
  BY <1>4, SeqDef
<1>6. 1 \in DOMAIN e /\ e[1] = first
  BY <1>3
<1>7. e # <<>>
  BY <1>6, <1>5
<1> QED BY <1>1, <1>5, <1>6, <1>7 DEF e

\* So are the cells of a piece of data.
LEMMA PieceItem ==
  ASSUME NEW kind \in {"bitcode", "process", "data"}, NEW n \in Nat, NEW size \in Nat
  PROVE  Piece(kind, n, size) \in Seq(ItemCell)
PROOF
<1>1. \A i \in 1..size : [kind |-> kind, n |-> n, i |-> i] \in ItemCell
  BY DEF ItemCell, PieceCell
<1>2. Piece(kind, n, size) \in [1..size -> ItemCell]
  BY <1>1 DEF Piece
<1> QED BY <1>2, SeqDef

\* The start of a write of an item keeps the writers in order.
LEMMA StartStep ==
  ASSUME WriterInv, NEW t \in Threads, NEW s \in Streams, NEW type \in BlockTypes,
         NEW item \in Seq(ItemCell),
         type = "ThreadEvents" => item # <<>> /\ item[1] \in EventCell /\ ~item[1].torn,
         Start(t, s, type, item)
  PROVE  WriterInv'
PROOF
<1> DEFINE w == [pc |-> IF s >= 0 /\ HasBlock(s) THEN "item" ELSE "reserve",
                 stream |-> s, type |-> type, again |-> FALSE, item |-> item]
<1>1. writer' = [writer EXCEPT ![t] = w]
  BY DEF Start
<1>2. w \in Writers
  BY DEF Writers
<1>3. EventInHand(w)
  BY DEF EventInHand
<1> HIDE DEF w
<1> QED BY <1>1, <1>2, <1>3 DEF WriterInv

\* A step of a writer that keeps its item.
LEMMA GotoStep ==
  ASSUME WriterInv, NEW t \in Threads, writer[t].pc # "idle",
         NEW pc \in {"reserve", "type", "next", "id", "item"}, NEW again \in BOOLEAN,
         writer' = [writer EXCEPT ![t] = [writer[t] EXCEPT !.pc = pc, !.again = again]]
  PROVE  WriterInv'
PROOF
<1> DEFINE w == [writer[t] EXCEPT !.pc = pc, !.again = again]
<1>1. writer[t] \in Writers /\ EventInHand(writer[t])
  BY DEF WriterInv
<1>2. w \in Writers /\ w.item = writer[t].item /\ w.type = writer[t].type
  BY <1>1 DEF Writers
<1>3. EventInHand(w)
  BY <1>1, <1>2 DEF EventInHand
<1>4. writer' = [writer EXCEPT ![t] = w]
  OBVIOUS
<1> HIDE DEF w
<1> QED BY <1>2, <1>3, <1>4 DEF WriterInv

\* The log stays right if the file keeps what is in it.
LEMMA LogKept ==
  ASSUME LogInv, Kept, log' = log
  PROVE  LogInv'
PROOF
<1>1. log' \in [Threads -> Seq([offset : Nat, event : EventCell])]
  BY DEF LogInv
<1>2. ASSUME NEW t \in Threads, NEW i \in DOMAIN log'[t]
      PROVE  log'[t][i].offset \in DOMAIN file' /\ file'[log'[t][i].offset] = log'[t][i].event
  <2> DEFINE o == log[t][i].offset
  <2>1. o \in DOMAIN file /\ file[o] = log[t][i].event
    BY <1>2 DEF LogInv
  <2> HIDE DEF o
  <2>2. o \in DOMAIN file' /\ file'[o] = log[t][i].event
    BY <2>1 DEF Kept
  <2> QED BY <2>2 DEF o
<1>3. LogIsInjective'
  BY DEF LogInv, LogIsInjective
<1> QED BY <1>1, <1>2, <1>3 DEF LogInv

-----------------------------------------------------------------------------
\* A step may only rewrite a record in place.
NothingLost ==
  \A o \in DOMAIN file : o \in DOMAIN file' /\ SameRecord(file[o], file'[o])

LEMMA KeptIsNotLost == Kept => NothingLost
  BY DEF Kept, NothingLost, SameRecord

\* Steps that only start something leave the file, the blocks and the log.
LEMMA FileUnchanged ==
  ASSUME FileInv, LogInv, UNCHANGED <<file, m_TraceOffset, m_Block, failures, log>>
  PROVE  FileInv' /\ LogInv' /\ NothingLost
PROOF
<1>1. FileInv'
  BY DEF FileInv, Reserved, FreeIsUnwritten, FreeIsOwned, Free
<1>2. Kept
  BY DEF Kept
<1> QED BY <1>1, <1>2, LogKept, KeptIsNotLost

LEMMA writeModuleStep ==
  ASSUME FileInv, WriterInv, LogInv, OtherTypes, writeModule
  PROVE  FileInv' /\ WriterInv' /\ LogInv' /\ OtherTypes' /\ NothingLost
PROOF
<1>1. FileInv' /\ LogInv' /\ NothingLost
  BY FileUnchanged DEF writeModule
<1>2. WriterInv'
  BY StartStep, StreamsFacts, PieceItem DEF writeModule, BlockTypes
<1>3. OtherTypes'
  BY DEF writeModule, OtherTypes
<1> QED BY <1>1, <1>2, <1>3

LEMMA traceWriteProcessDataStep ==
  ASSUME FileInv, WriterInv, LogInv, OtherTypes, traceWriteProcessData
  PROVE  FileInv' /\ WriterInv' /\ LogInv' /\ OtherTypes' /\ NothingLost
PROOF
<1>1. FileInv' /\ LogInv' /\ NothingLost
  BY FileUnchanged DEF traceWriteProcessData
<1>2. WriterInv'
  BY StartStep, StreamsFacts, PieceItem DEF traceWriteProcessData, BlockTypes
<1>3. OtherTypes'
  BY DEF traceWriteProcessData, OtherTypes
<1> QED BY <1>1, <1>2, <1>3

LEMMA writeStep ==
  ASSUME FileInv, WriterInv, LogInv, OtherTypes,
         NEW t \in Threads, NEW size \in EventSizes, write(t, size)
  PROVE  FileInv' /\ WriterInv' /\ LogInv' /\ OtherTypes' /\ NothingLost
PROOF
<1>1. FileInv' /\ LogInv' /\ NothingLost
  BY FileUnchanged DEF write
<1>2. WriterInv'
  <2> DEFINE item == Event(t, tried[t] + 1, size, PreviousEventSize[t])
  <2>1. size \in Nat \ {0} /\ tried[t] + 1 \in Nat /\ PreviousEventSize[t] \in Nat
    BY ConstantsAssumption DEF ConstantsAssumption, OtherTypes
  <2>2. item \in Seq(ItemCell) /\ item # <<>> /\ item[1] \in EventCell /\ ~item[1].torn
    BY <2>1, EventItem
  <2>3. Start(t, t, "ThreadEvents", item)
    BY DEF write
  <2> HIDE DEF item
  <2> QED BY <2>2, <2>3, StartStep, StreamsFacts DEF BlockTypes
<1>3. OtherTypes'
  BY DEF write, OtherTypes
<1> QED BY <1>1, <1>2, <1>3

LEMMA recordDataStep ==
  ASSUME FileInv, WriterInv, LogInv, OtherTypes,
         NEW t \in Threads, NEW size \in DataSizes, recordData(t, size)
  PROVE  FileInv' /\ WriterInv' /\ LogInv' /\ OtherTypes' /\ NothingLost
PROOF
<1>1. FileInv' /\ LogInv' /\ NothingLost
  BY FileUnchanged DEF recordData
<1>2. WriterInv'
  <2> DEFINE item == Piece("data", Len(refs) + 1, size)
             s == IF size < SingleBlockThreshold THEN ProcessData ELSE -t
  <2>1. size \in Nat /\ Len(refs) + 1 \in Nat
    BY ConstantsAssumption DEF ConstantsAssumption, OtherTypes
  <2>2. item \in Seq(ItemCell)
    BY <2>1, PieceItem
  <2>3. s \in Streams
    BY StreamsFacts
  <2>4. Start(t, s, "ProcessData", item)
    BY DEF recordData
  <2> HIDE DEF item, s
  <2> QED BY <2>2, <2>3, <2>4, StartStep DEF BlockTypes
<1>3. OtherTypes'
  BY DEF recordData, OtherTypes
<1> QED BY <1>1, <1>2, <1>3

\* getOutputBlock: the new block is beyond everything that is reserved.
LEMMA getOutputBlockStep ==
  ASSUME FileInv, WriterInv, LogInv, OtherTypes, NEW t \in Threads, getOutputBlock(t)
  PROVE  FileInv' /\ WriterInv' /\ LogInv' /\ OtherTypes' /\ NothingLost
PROOF
<1> DEFINE w == writer[t]
           n == NBytes(w)
<1>0. PICK s \in Streams : s = w.stream
  BY DEF WriterInv, Writers
<1>1. /\ w \in Writers /\ n \in Nat /\ w.item \in Seq(ItemCell) /\ w.again \in BOOLEAN
  BY ConstantsAssumption DEF WriterInv, Writers, NBytes, HeaderSize, ConstantsAssumption
<1>2. /\ m_TraceOffset' = m_TraceOffset + n
      /\ m_Block' = [m_Block EXCEPT ![s] = [end |-> m_TraceOffset + n, next |-> m_TraceOffset]]
      /\ w.pc = "reserve"
      /\ writer' = [writer EXCEPT ![t].pc = "type"]
      /\ file' = file /\ failures' = failures /\ log' = log
  BY <1>0 DEF getOutputBlock, At, Goto
<1>3. m_TraceOffset \in Nat /\ m_Block \in [Streams -> [end : Nat, next : Nat]]
  BY DEF FileInv
<1>4. /\ m_Block' \in [Streams -> [end : Nat, next : Nat]]
      /\ m_Block'[s].end = m_TraceOffset + n /\ m_Block'[s].next = m_TraceOffset
      /\ \A u \in Streams : u # s => m_Block'[u] = m_Block[u]
  BY <1>1, <1>2, <1>3
<1>5. Reserved'
  <2>1. \A u \in Streams : m_Block[u].end \in Nat /\ m_Block[u].end <= m_TraceOffset
    BY <1>3 DEF FileInv, Reserved
  <2>2. \A u \in Streams : m_Block'[u].end <= m_TraceOffset'
    BY <2>1, <1>1, <1>2, <1>3, <1>4
  <2>3. \A o \in DOMAIN file : o \in Nat /\ o < m_TraceOffset
    BY DEF FileInv, Reserved
  <2>4. \A o \in DOMAIN file' : o < m_TraceOffset'
    BY <2>3, <1>1, <1>2, <1>3
  <2> QED BY <2>2, <2>4 DEF Reserved
<1>6. Free(s)' = m_TraceOffset..(m_TraceOffset + n - 1)
  <2>1. Free(s)' = m_Block'[s].next..(m_Block'[s].end - 1)
    BY DEF Free
  <2>2. m_Block'[s].next = m_TraceOffset /\ m_Block'[s].end - 1 = m_TraceOffset + n - 1
    BY <1>1, <1>3, <1>4
  <2> HIDE DEF n
  <2> QED BY <2>1, <2>2
<1>7. \A u \in Streams : u # s => Free(u)' = Free(u)
  BY <1>4 DEF Free
<1>8. FreeIsUnwritten'
  <2> SUFFICES ASSUME NEW u \in Streams PROVE Free(u)' \cap DOMAIN file' = {}
    BY DEF FreeIsUnwritten
  <2>1. CASE u = s
    BY <2>1, <1>6, <1>2, <1>3, <1>1 DEF FileInv, Reserved
  <2>2. CASE u # s
    BY <2>2, <1>7, <1>2 DEF FileInv, FreeIsUnwritten
  <2> QED BY <2>1, <2>2
<1>9. \A u \in Streams : u # s => Free(u)' \cap Free(s)' = {}
  <2> SUFFICES ASSUME NEW u \in Streams, u # s PROVE Free(u) \cap Free(s)' = {}
    BY <1>7
  <2>1. m_Block[u].end <= m_TraceOffset /\ m_Block[u].end \in Nat /\ m_Block[u].next \in Nat
    BY <1>3 DEF FileInv, Reserved
  <2>2. \A o \in Free(u) : o < m_TraceOffset
    BY <2>1, <1>3 DEF Free
  <2>3. \A o \in Free(s)' : ~(o < m_TraceOffset)
    BY <1>6, <1>1, <1>3
  <2> QED BY <2>2, <2>3
<1>10. FreeIsOwned'
  <2> SUFFICES ASSUME NEW u \in Streams, NEW v \in Streams, u # v
               PROVE  Free(u)' \cap Free(v)' = {}
    BY DEF FreeIsOwned
  <2>1. CASE u = s
    BY <2>1, <1>9
  <2>2. CASE v = s
    BY <2>2, <1>9
  <2>3. CASE u # s /\ v # s
    BY <2>3, <1>7 DEF FileInv, FreeIsOwned
  <2> QED BY <2>1, <2>2, <2>3
<1>11. FileInv'
  BY <1>1, <1>2, <1>4, <1>5, <1>8, <1>10 DEF FileInv
<1>12. WriterInv'
  <2>1. writer' = [writer EXCEPT ![t] = [writer[t] EXCEPT !.pc = "type", !.again = w.again]]
    BY <1>1, <1>2 DEF WriterInv, Writers
  <2> QED BY <2>1, <1>1, <1>2, GotoStep
<1>13. Kept
  BY <1>2 DEF Kept
<1>14. OtherTypes'
  BY DEF OtherTypes, getOutputBlock
<1> QED BY <1>2, <1>11, <1>12, <1>13, <1>14, LogKept, KeptIsNotLost

\* The writes of the header of a block: their results are not used.
LEMMA WriteHeaderCellStep ==
  ASSUME FileInv, WriterInv, LogInv, OtherTypes, NEW t \in Threads,
         NEW at \in {"type", "next", "id"}, NEW cell \in HeaderCell,
         NEW to \in {"next", "id", "item"}, WriteHeaderCell(t, at, cell, to)
  PROVE  FileInv' /\ WriterInv' /\ LogInv' /\ OtherTypes' /\ NothingLost
PROOF
<1> DEFINE w == writer[t]
<1>1. w \in Writers /\ w.stream \in Streams /\ w.again \in BOOLEAN
  BY DEF WriterInv, Writers
<1>2. /\ w.pc = at
      /\ writer' = [writer EXCEPT ![t].pc = to]
      /\ m_TraceOffset' = m_TraceOffset /\ log' = log
  BY DEF WriteHeaderCell, At, Goto
<1>3. PICK k \in 0..1 : OutputBlockWrite(w.stream, <<cell>>, k)
  BY DEF WriteHeaderCell
<1>4. <<cell>> \in Seq(AnyCell)
  BY DEF AnyCell
<1>5. FileInv' /\ Kept
  <2>1. PICK s \in Streams : s = w.stream
    BY <1>1
  <2>2. OutputBlockWrite(s, <<cell>>, k) /\ k \in Nat
    BY <2>1, <1>3
  <2> QED BY <2>2, <1>2, <1>4, WriteStep
<1>6. WriterInv'
  <2>1. writer' = [writer EXCEPT ![t] = [writer[t] EXCEPT !.pc = to, !.again = w.again]]
    BY <1>1, <1>2 DEF WriterInv, Writers
  <2> QED BY <2>1, <1>1, <1>2, GotoStep
<1>7. OtherTypes'
  BY DEF OtherTypes, WriteHeaderCell
<1> QED BY <1>2, <1>5, <1>6, <1>7, LogKept, KeptIsNotLost

\* The cells of a header are what a header consists of.
LEMMA HeaderStep ==
  ASSUME FileInv, WriterInv, LogInv, OtherTypes, NEW t \in Threads,
         WriteType(t) \/ WriteNextBlock(t) \/ writeHeader(t)
  PROVE  FileInv' /\ WriterInv' /\ LogInv' /\ OtherTypes' /\ NothingLost
PROOF
<1>1. writer[t].type \in BlockTypes /\ writer[t].stream \in Streams
  BY DEF WriterInv, Writers
<1>2. CASE WriteType(t)
  <2>1. [kind |-> "type", type |-> writer[t].type] \in HeaderCell
    BY <1>1 DEF HeaderCell
  <2> QED BY <2>1, <1>2, WriteHeaderCellStep DEF WriteType
<1>3. CASE WriteNextBlock(t)
  <2>1. m_Block[writer[t].stream].end \in Nat
    BY <1>1 DEF FileInv
  <2>2. [kind |-> "next", end |-> m_Block[writer[t].stream].end] \in HeaderCell
    BY <2>1 DEF HeaderCell
  <2>3. CASE writer[t].type = "ThreadEvents"
    BY <2>2, <2>3, <1>3, WriteHeaderCellStep DEF WriteNextBlock
  <2>4. CASE writer[t].type # "ThreadEvents"
    BY <2>2, <2>4, <1>3, WriteHeaderCellStep DEF WriteNextBlock
  <2> QED BY <2>3, <2>4
<1>4. CASE writeHeader(t)
  <2>1. [kind |-> "id", id |-> t] \in HeaderCell
    BY DEF HeaderCell
  <2> QED BY <2>1, <1>4, WriteHeaderCellStep DEF writeHeader
<1> QED BY <1>2, <1>3, <1>4

\* An event that was written is added to the log with the offset it is at.
LEMMA LogGrows ==
  ASSUME LogInv, Kept, NEW t \in Threads, NEW off \in Nat, NEW ev \in EventCell,
         off \in DOMAIN file', off \notin DOMAIN file, file'[off] = ev,
         log' = [log EXCEPT ![t] = Append(@, [offset |-> off, event |-> ev])]
  PROVE  LogInv'
PROOF
<1> DEFINE S == [offset : Nat, event : EventCell]
           r == [offset |-> off, event |-> ev]
<1>1. log \in [Threads -> Seq(S)] /\ r \in S /\ r.offset = off /\ r.event = ev
  BY DEF LogInv
<1>2. /\ log'[t] = Append(log[t], r)
      /\ \A u \in Threads : u # t => log'[u] = log[u]
      /\ log' \in [Threads -> Seq(S)]
  BY <1>1, AppendProperties
<1>3. /\ DOMAIN log[t] = 1..Len(log[t]) /\ Len(log[t]) \in Nat
      /\ DOMAIN log'[t] = 1..(Len(log[t]) + 1)
      /\ \A i \in DOMAIN log[t] : log'[t][i] = log[t][i]
      /\ log'[t][Len(log[t]) + 1] = r
  BY <1>1, <1>2, AppendProperties, LenProperties
<1> HIDE DEF r, S
<1>4. \A u \in Threads : \A i \in DOMAIN log'[u] :
        \/ i \in DOMAIN log[u] /\ log'[u][i] = log[u][i]
        \/ u = t /\ i = Len(log[t]) + 1 /\ log'[u][i] = r
  BY <1>2, <1>3
<1>5. \A u \in Threads : \A i \in DOMAIN log[u] :
        /\ log[u][i].offset \in DOMAIN file /\ file[log[u][i].offset] = log[u][i].event
        /\ log[u][i].offset \in DOMAIN file' /\ file'[log[u][i].offset] = log[u][i].event
        /\ log[u][i].offset # off
  BY DEF LogInv, Kept
<1>6. \A u \in Threads : \A i \in DOMAIN log'[u] :
        log'[u][i].offset \in DOMAIN file' /\ file'[log'[u][i].offset] = log'[u][i].event
  BY <1>1, <1>4, <1>5
<1>7. LogIsInjective'
  <2> SUFFICES ASSUME NEW u \in Threads, NEW v \in Threads,
                      NEW i \in DOMAIN log'[u], NEW j \in DOMAIN log'[v],
                      log'[u][i].offset = log'[v][j].offset
               PROVE  u = v /\ i = j
    BY DEF LogIsInjective
  <2> QED BY <1>1, <1>4, <1>5 DEF LogInv, LogIsInjective
<1> QED BY <1>2, <1>6, <1>7 DEF LogInv, S

\* The write of an item: it is logged if it succeeds, lost or tried again if not.
LEMMA WriteItemStep ==
  ASSUME FileInv, WriterInv, LogInv, OtherTypes, NEW t \in Threads, WriteItem(t)
  PROVE  FileInv' /\ WriterInv' /\ LogInv' /\ OtherTypes' /\ NothingLost
PROOF
<1> DEFINE w == writer[t]
           S == [offset : Nat, item : Seq(ItemCell), written : BOOLEAN]
<1>1. /\ w \in Writers /\ w.stream \in Streams /\ w.again \in BOOLEAN
      /\ w.item \in Seq(ItemCell) /\ Len(w.item) \in Nat /\ EventInHand(w)
  BY DEF WriterInv, Writers
<1>2. w.pc = "item" /\ m_TraceOffset' = m_TraceOffset
  BY DEF WriteItem, At
<1>3. PICK k \in 0..Len(w.item) :
        /\ OutputBlockWrite(w.stream, w.item, k)
        /\ IF k < Len(w.item) /\ Retries(w)
           THEN /\ writer' = [writer EXCEPT ![t].pc = "reserve", ![t].again = TRUE]
                /\ UNCHANGED <<log, PreviousEventSize, refs, DataOutOffset, phase>>
           ELSE Finished(t, k = Len(w.item))
  BY DEF WriteItem
<1>4. w.item \in Seq(AnyCell)
  BY <1>1, SeqMonotonic DEF AnyCell
<1>5. PICK s \in Streams : s = w.stream
  BY <1>1
<1>6. k \in Nat
  BY <1>1
<1>7. /\ FileInv' /\ Kept
      /\ k = Len(w.item) /\ w.item # <<>> =>
           /\ m_Block[s].next \in DOMAIN file' /\ m_Block[s].next \notin DOMAIN file
           /\ file'[m_Block[s].next] = Stored(w.item[1], TRUE)
  BY <1>2, <1>3, <1>4, <1>5, <1>6, WriteStep
<1>8. Out' = Out /\ OutputEnabled' = OutputEnabled /\ tried' = tried
  BY DEF WriteItem
<1>9. CASE k < Len(w.item) /\ Retries(w)
  <2>1. /\ writer' = [writer EXCEPT ![t].pc = "reserve", ![t].again = TRUE]
        /\ UNCHANGED <<log, PreviousEventSize, refs, DataOutOffset, phase>>
    BY <1>3, <1>9
  <2>2. writer' = [writer EXCEPT ![t] = [writer[t] EXCEPT !.pc = "reserve", !.again = TRUE]]
    BY <2>1, <1>1 DEF WriterInv, Writers
  <2>3. WriterInv'
    BY <2>2, <1>2, GotoStep
  <2>4. OtherTypes'
    BY <2>1, <1>8 DEF OtherTypes
  <2> QED BY <2>1, <2>3, <2>4, <1>7, LogKept, KeptIsNotLost
<1>10. CASE ~(k < Len(w.item) /\ Retries(w))
  <2>1. Finished(t, k = Len(w.item))
    BY <1>3, <1>10
  <2>2. WriterInv'
    <3>1. Idle \in Writers /\ EventInHand(Idle)
      BY StreamsFacts DEF Idle, Writers, BlockTypes, EventInHand, ProcessData
    <3>2. writer' = [writer EXCEPT ![t] = Idle]
      BY <2>1 DEF Finished
    <3> QED BY <3>1, <3>2 DEF WriterInv
  <2>3. CASE k = Len(w.item) /\ w.type = "ThreadEvents"
    <3>1. w.item # <<>> /\ w.item[1] \in EventCell /\ ~w.item[1].torn
      BY <1>1, <1>2, <2>3 DEF EventInHand
    <3>2. Stored(w.item[1], TRUE) = w.item[1]
      BY <3>1, StoredCell DEF AnyCell, ItemCell
    <3>3. m_Block[s].next \in Nat
      BY DEF FileInv
    <3>4. log' = [log EXCEPT ![t] = Append(@, [offset |-> m_Block[s].next, event |-> w.item[1]])]
      BY <2>1, <2>3, <1>5 DEF Finished
    <3>5. LogInv'
      BY <3>1, <3>2, <3>3, <3>4, <1>7, <2>3, LogGrows
    <3>6. /\ PreviousEventSize' = [PreviousEventSize EXCEPT ![t] = Len(w.item)]
          /\ UNCHANGED <<refs, DataOutOffset, phase>>
      BY <2>1, <2>3 DEF Finished
    <3>7. OtherTypes'
      BY <3>6, <1>1, <1>8 DEF OtherTypes
    <3> QED BY <3>5, <3>7, <2>2, <1>7, KeptIsNotLost
  <2>4. CASE ~(k = Len(w.item) /\ w.type = "ThreadEvents")
    <3>1. log' = log /\ PreviousEventSize' = PreviousEventSize
      BY <2>1, <2>4 DEF Finished
    <3>2. phase' \in {"module", "process", "running"}
      BY <2>1 DEF Finished, OtherTypes
    <3>3. refs' \in Seq(S) /\ DataOutOffset' \in Nat
      <4>1. CASE w.type = "ProcessData"
        <5>1. [offset |-> DataOutOffset, item |-> w.item, written |-> (k = Len(w.item))] \in S
          BY <1>1 DEF OtherTypes
        <5>2. refs' = Append(refs, [offset |-> DataOutOffset, item |-> w.item,
                                    written |-> (k = Len(w.item))])
          BY <4>1, <2>1 DEF Finished
        <5>3. DataOutOffset' = DataOutOffset + Len(w.item)
          BY <4>1, <2>1 DEF Finished
        <5>4. refs \in Seq(S)
          BY DEF OtherTypes
        <5>5. refs' \in Seq(S)
          BY <5>1, <5>2, <5>4, AppendProperties
        <5> QED BY <5>3, <5>5, <1>1 DEF OtherTypes
      <4>2. CASE w.type # "ProcessData"
        BY <4>2, <2>1 DEF Finished, OtherTypes
      <4> QED BY <4>1, <4>2
    <3>4. OtherTypes'
      BY <3>1, <3>2, <3>3, <1>8 DEF OtherTypes
    <3> QED BY <3>1, <3>4, <2>2, <1>7, LogKept, KeptIsNotLost
  <2> QED BY <2>3, <2>4
<1> QED BY <1>9, <1>10

\* A rewrite replaces the record it is for by another version of that record.
LEMMA rewriteStep ==
  ASSUME FileInv, WriterInv, LogInv, OtherTypes,
         NEW t \in Threads, NEW i \in DOMAIN log[t], rewrite(t, i)
  PROVE  FileInv' /\ WriterInv' /\ LogInv' /\ OtherTypes' /\ NothingLost
PROOF
<1> DEFINE S   == [offset : Nat, event : EventCell]
           r   == log[t][i]
           new == [r.event EXCEPT !.version = 1]
<1>1. log \in [Threads -> Seq(S)] /\ log[t] \in Seq(S) /\ r \in S
  <2>1. log \in [Threads -> Seq(S)]
    BY DEF LogInv
  <2>2. log[t] \in Seq(S)
    BY <2>1
  <2> HIDE DEF S
  <2> QED BY <2>1, <2>2
<1>2. r.offset \in DOMAIN file /\ file[r.offset] = r.event /\ r.event \in EventCell
  BY <1>1 DEF LogInv
<1>3. new \in EventCell /\ SameRecord(r.event, new)
  BY <1>2 DEF EventCell, SameRecord
<1>4. /\ file' = [file EXCEPT ![r.offset] = new]
      /\ log' = [log EXCEPT ![t][i].event.version = 1]
      /\ UNCHANGED <<m_TraceOffset, m_Block, writer, PreviousEventSize, Out,
                     OutputEnabled, phase, DataOutOffset, refs, tried, failures>>
  BY DEF rewrite
<1>5. PICK off : off = r.offset
  OBVIOUS
<1>6. PICK ev : ev = new
  OBVIOUS
<1>7. /\ DOMAIN file' = DOMAIN file
      /\ \A o \in DOMAIN file : file'[o] = IF o = off THEN ev ELSE file[o]
  BY <1>4, <1>5, <1>6
<1>8. NothingLost
  <2>1. \A o \in DOMAIN file : SameRecord(file[o], file[o])
    BY DEF SameRecord
  <2> QED BY <2>1, <1>2, <1>3, <1>5, <1>6, <1>7 DEF NothingLost
<1>9. FileInv'
  <2>1. ev \in AnyCell
    BY <1>3, <1>6 DEF AnyCell, ItemCell
  <2>2. \A o \in DOMAIN file' : o \in Nat /\ file'[o] \in AnyCell
    BY <2>1, <1>7 DEF FileInv
  <2>3. Reserved' /\ FreeIsUnwritten' /\ FreeIsOwned'
    BY <1>4, <1>7 DEF FileInv, Reserved, FreeIsUnwritten, FreeIsOwned, Free
  <2> QED BY <2>2, <2>3, <1>4 DEF FileInv
<1>10. LogInv'
  <2>1. log[t][i].event.version \in {0, 1}
    BY <1>2 DEF EventCell
  <2>2. log' = [log EXCEPT ![t] = [log[t] EXCEPT ![i] = [log[t][i] EXCEPT !.event = new]]]
    BY <1>4, <1>1, <1>2 DEF EventCell
  <2>3. [log[t][i] EXCEPT !.event = new] = [offset |-> off, event |-> ev]
    <3>1. \A x \in S : [x EXCEPT !.event = ev] = [offset |-> x.offset, event |-> ev]
      OBVIOUS
    <3> HIDE DEF S, new
    <3> QED BY <3>1, <1>1, <1>5, <1>6
  <2>4. log' = [log EXCEPT ![t] = [log[t] EXCEPT ![i] = [offset |-> off, event |-> ev]]]
    BY <2>2, <2>3
  <2>5. [offset |-> off, event |-> ev] \in S
    BY <1>1, <1>3, <1>5, <1>6
  <2>6. [log[t] EXCEPT ![i] = [offset |-> off, event |-> ev]] \in Seq(S)
    BY <1>1, <2>5, ExceptSeq
  <2>7. log' \in [Threads -> Seq(S)]
    BY <1>1, <2>4, <2>6
  <2>8. \A u \in Threads : DOMAIN log'[u] = DOMAIN log[u]
    BY <1>1, <2>4
  <2>9. \A u \in Threads : \A j \in DOMAIN log[u] :
          log'[u][j] = IF u = t /\ j = i THEN [offset |-> off, event |-> ev] ELSE log[u][j]
    BY <1>1, <2>4
  <2>10. \A u \in Threads : \A j \in DOMAIN log[u] : log'[u][j].offset = log[u][j].offset
    BY <2>9, <1>5
  <2>11. LogIsInjective'
    BY <2>8, <2>10 DEF LogInv, LogIsInjective
  <2>12. ASSUME NEW u \in Threads, NEW j \in DOMAIN log[u]
         PROVE  log'[u][j].offset \in DOMAIN file' /\ file'[log'[u][j].offset] = log'[u][j].event
    <3>1. log[u][j].offset \in DOMAIN file /\ file[log[u][j].offset] = log[u][j].event
      BY DEF LogInv
    <3>2. CASE u = t /\ j = i
      BY <3>1, <3>2, <2>9, <1>5, <1>7
    <3>3. CASE ~(u = t /\ j = i)
      <4>1. log[u][j].offset # off
        BY <3>3, <1>5 DEF LogInv, LogIsInjective
      <4> QED BY <4>1, <3>1, <3>3, <2>9, <1>7
    <3> QED BY <3>2, <3>3
  <2> QED BY <2>7, <2>8, <2>11, <2>12 DEF LogInv
<1>11. WriterInv' /\ OtherTypes'
  BY <1>4 DEF WriterInv, OtherTypes
<1> QED BY <1>8, <1>9, <1>10, <1>11

\* Closing, and stopping because the file is large, leave the file alone.
LEMMA closeStep ==
  ASSUME FileInv, WriterInv, LogInv, OtherTypes, NEW t \in Threads,
         checkOutputSize(t) \/ traceClose(t)
  PROVE  FileInv' /\ WriterInv' /\ LogInv' /\ OtherTypes' /\ NothingLost
PROOF
<1>1. FileInv' /\ LogInv' /\ NothingLost
  BY FileUnchanged DEF checkOutputSize, traceClose
<1>2. WriterInv'
  BY DEF checkOutputSize, traceClose, WriterInv
<1>3. OtherTypes'
  BY DEF checkOutputSize, traceClose, OtherTypes
<1> QED BY <1>1, <1>2, <1>3

-----------------------------------------------------------------------------
LEMMA InitStep == Init => IndInv
PROOF
<1> SUFFICES ASSUME Init PROVE FileInv /\ WriterInv /\ LogInv /\ OtherTypes
  BY Parts
<1>1. \A s \in Streams : Free(s) = {} /\ m_Block[s].end = 0
  <2> SUFFICES ASSUME NEW s \in Streams PROVE Free(s) = {} /\ m_Block[s].end = 0
    OBVIOUS
  <2>1. m_Block[s].next = 0 /\ m_Block[s].end = 0
    BY DEF Init, NoBlock
  <2> QED BY <2>1 DEF Free
<1>2. [kind |-> "magic"] \in AnyCell
  BY DEF AnyCell, HeaderCell
<1>3. FileInv
  BY <1>1, <1>2 DEF FileInv, Init, NoBlock, Reserved, FreeIsUnwritten, FreeIsOwned
<1>4. Idle \in Writers /\ EventInHand(Idle)
  BY StreamsFacts DEF Idle, Writers, BlockTypes, EventInHand, ProcessData
<1>5. WriterInv
  BY <1>4 DEF WriterInv, Init
<1>6. LogInv
  BY DEF LogInv, Init, LogIsInjective
<1>7. OtherTypes
  BY DEF OtherTypes, Init
<1> QED BY <1>3, <1>5, <1>6, <1>7

LEMMA NextStep ==
  ASSUME IndInv, [Next]_vars
  PROVE  IndInv' /\ NothingLost
PROOF
<1>1. FileInv /\ WriterInv /\ LogInv /\ OtherTypes
  BY Parts
<1>2. CASE UNCHANGED vars
  <2>1. FileInv' /\ LogInv' /\ NothingLost
    BY <1>1, <1>2, FileUnchanged DEF vars
  <2>2. WriterInv' /\ OtherTypes'
    BY <1>1, <1>2 DEF vars, WriterInv, OtherTypes
  <2>3. IndInv'
    BY <2>1, <2>2, Parts, PTL
  <2> QED BY <2>1, <2>3
<1>3. CASE Next
  <2>1. FileInv' /\ WriterInv' /\ LogInv' /\ OtherTypes' /\ NothingLost
    <3>1. CASE writeModule
      BY <1>1, <3>1, writeModuleStep
    <3>2. CASE traceWriteProcessData
      BY <1>1, <3>2, traceWriteProcessDataStep
    <3>3. ASSUME NEW t \in Threads, NEW size \in EventSizes, write(t, size)
          PROVE  FileInv' /\ WriterInv' /\ LogInv' /\ OtherTypes' /\ NothingLost
      BY <1>1, <3>3, writeStep
    <3>4. ASSUME NEW t \in Threads, NEW size \in DataSizes, recordData(t, size)
          PROVE  FileInv' /\ WriterInv' /\ LogInv' /\ OtherTypes' /\ NothingLost
      BY <1>1, <3>4, recordDataStep
    <3>5. ASSUME NEW t \in Threads, getOutputBlock(t)
          PROVE  FileInv' /\ WriterInv' /\ LogInv' /\ OtherTypes' /\ NothingLost
      BY <1>1, <3>5, getOutputBlockStep
    <3>6. ASSUME NEW t \in Threads, WriteType(t) \/ WriteNextBlock(t) \/ writeHeader(t)
          PROVE  FileInv' /\ WriterInv' /\ LogInv' /\ OtherTypes' /\ NothingLost
      BY <1>1, <3>6, HeaderStep
    <3>7. ASSUME NEW t \in Threads, WriteItem(t)
          PROVE  FileInv' /\ WriterInv' /\ LogInv' /\ OtherTypes' /\ NothingLost
      BY <1>1, <3>7, WriteItemStep
    <3>8. ASSUME NEW t \in Threads, NEW i \in DOMAIN log[t], rewrite(t, i)
          PROVE  FileInv' /\ WriterInv' /\ LogInv' /\ OtherTypes' /\ NothingLost
      BY <1>1, <3>8, rewriteStep
    <3>9. ASSUME NEW t \in Threads, checkOutputSize(t) \/ traceClose(t)
          PROVE  FileInv' /\ WriterInv' /\ LogInv' /\ OtherTypes' /\ NothingLost
      BY <1>1, <3>9, closeStep
    <3> QED BY <1>3, <3>1, <3>2, <3>3, <3>4, <3>5, <3>6, <3>7, <3>8, <3>9 DEF Next
  <2>2. IndInv'
    BY <2>1, Parts, PTL
  <2> QED BY <2>1, <2>2
<1> QED BY <1>2, <1>3

\* The invariant holds throughout, however the writers are interleaved.
LEMMA StorageInvariant == Spec => []IndInv
PROOF
<1>1. IndInv /\ [Next]_vars => IndInv'
  BY NextStep
<1> QED BY <1>1, InitStep, PTL DEF Spec

(***************************************************************************)
(* Every variable of the writers of a trace file keeps its type.            *)
(***************************************************************************)
THEOREM StorageTypes == Spec => []TypeOK
PROOF
<1>1. IndInv => TypeOK
  BY DEF IndInv
<1> QED BY <1>1, StorageInvariant, PTL

(***************************************************************************)
(* No write destroys what another one has written, for any number of        *)
(* threads, any sizes and any pattern of failing writes: the offset of      *)
(* OutputStreamAllocator and the end of OutputBlock keep writers apart.     *)
(***************************************************************************)
THEOREM WritersKeptApart == Spec => NothingOverwritten
PROOF
<1>1. IndInv /\ [Next]_vars =>
        [\A o \in DOMAIN file : o \in DOMAIN file' /\ SameRecord(file[o], file'[o])]_vars
  BY NextStep DEF NothingLost
<1> QED BY <1>1, StorageInvariant, PTL DEF Spec, NothingOverwritten

-----------------------------------------------------------------------------
(***************************************************************************)
(* The shape of the file: the blocks that streams have reserved, their     *)
(* headers and the events in them, and the order of the logs.              *)
(***************************************************************************)

\* The cells that tell where the next block is.
NextOffsets == {p \in DOMAIN file : file[p].kind = "next"}

\* No block ends between x and y, as far as the file or a stream tells.
Outside(x, y) ==
  /\ \A p \in NextOffsets : file[p].end <= x \/ y <= file[p].end
  /\ \A s \in Streams : m_Block[s].end <= x \/ y <= m_Block[s].end

\* Thread t is writing to stream s.
WritesTo(t, s) == writer[t].pc # "idle" /\ writer[t].stream = s
\* A cell that neither the reader of blocks nor that of events looks for.
Plain(c) == c.kind \notin {"event", "type", "next", "id"}

\* What a thread writes.
EventHand(t, w) ==
  /\ w.stream = t /\ w.type = "ThreadEvents" /\ Len(w.item) >= 1 /\ Len(w.item) + HeaderSize + IDSize <= BlockSize
  /\ w.item[1].kind = "event" /\ w.item[1].by = t /\ w.item[1].size = Len(w.item)
  /\ w.item[1].prev = PreviousEventSize[t]
  /\ \A i \in 2..Len(w.item) : Plain(w.item[i])

\* What a thread writes to the process data or to a block for one piece of it.
DataHand(t, w) ==
  /\ w.stream \in {ProcessData, -t} /\ w.type # "ThreadEvents" /\ w.pc # "id"
  /\ w.stream = ProcessData => w.type = "ProcessData" /\ Len(w.item) + HeaderSize <= BlockSize
  /\ \A i \in 1..Len(w.item) : Plain(w.item[i])

\* Every thread writes such things, the process data in turn.
HandsInv ==
  /\ \A t \in Threads : writer[t].pc # "idle" =>
       /\ EventHand(t, writer[t]) \/ DataHand(t, writer[t])
       /\ writer[t].pc # "reserve" => HasBlock(writer[t].stream)
  /\ \A t, u \in Threads : WritesTo(t, ProcessData) /\ WritesTo(u, ProcessData) => t = u

\* A block of a stream that may still be written to begins here.
Open(s) == HasBlock(s) /\ (s < 0 => WritesTo(-s, s) /\ writer[-s].pc # "reserve")
\* Where the block of a stream begins.
Base(s) == m_Block[s].end - (IF s < 0 THEN HeaderSize + Len(writer[-s].item) ELSE BlockSize)

\* The block lies between others, and the events in it are of its stream.
PlaceInv(s) ==
  /\ Base(s) >= 1 /\ Base(s) + HeaderSize <= m_Block[s].end
  /\ s > 0 => Base(s) + HeaderSize + IDSize <= m_Block[s].end
  /\ Outside(Base(s), m_Block[s].end)
  /\ \A p \in NextOffsets : file[p].end = m_Block[s].end => p = Base(s) + 1
  /\ \A q \in EventOffsets : Base(s) <= q /\ q < m_Block[s].end => file[q].by = s /\ q >= Base(s) + 3

\* The header is written cell by cell, in front of everything else.
HeaderInv(s) ==
  /\ \A t \in Threads : WritesTo(t, s) =>
       /\ writer[t].pc = "type" => m_Block[s].next = Base(s)
       /\ writer[t].pc = "next" => m_Block[s].next = Base(s) + 1
       /\ writer[t].pc = "id" => m_Block[s].next = Base(s) + 2
  /\ \/ \E t \in Threads : WritesTo(t, s) /\ writer[t].pc \in {"type", "next", "id"}
     \/ m_Block[s].next >= Base(s) + HeaderSize + (IF s > 0 THEN IDSize ELSE 0)

\* The block of the events of thread t.
ThreadInv(t) ==
  LET b == Base(t) IN
  /\ b \in DOMAIN file /\ file[b].kind = "type" => file[b].type = "ThreadEvents"
  /\ b + 2 \in DOMAIN file => file[b + 2] = [kind |-> "id", id |-> t]
  /\ WritesTo(t, t) /\ writer[t].pc = "item" /\ writer[t].again => m_Block[t].next = b + 3
  /\ b + 3 \in DOMAIN file /\ ~(WritesTo(t, t) /\ writer[t].pc # "item") =>
       \E o \in EventOffsets : b + 3 <= o /\ o + file[o].size = m_Block[t].next

\* All open blocks are like that, and all of the threads.
BlocksInv ==
  /\ \A s \in Streams : Open(s) => PlaceInv(s) /\ HeaderInv(s)
  /\ \A t \in Threads : HasBlock(t) => ThreadInv(t)
  /\ \A s, u \in Streams : HasBlock(s) /\ s # u => m_Block[s].end # m_Block[u].end

\* A block begins before it ends, within the file and not over the end of another.
NextInv ==
  \A p \in NextOffsets :
    p >= 2 /\ p < file[p].end /\ file[p].end <= m_TraceOffset /\ Outside(p - 1, file[p].end)

Away(q, B) == q < B \/ q >= B + 2

\* An event is in the block of its thread, away from every start of a block, and
\* no event overlaps another of its thread.
EventsInv ==
  \A q \in EventOffsets :
    /\ q >= 3
    /\ file[q].size >= 1 /\ HasBlock(file[q].by) /\ q + file[q].size <= m_Block[file[q].by].next
    /\ q + file[q].size <= m_TraceOffset
    /\ \A p \in NextOffsets : Away(q, file[p].end)
    /\ \A s \in Streams : Away(q, m_Block[s].end)
    /\ \A o \in EventOffsets : o < q /\ file[o].by = file[q].by => o + file[o].size <= q

\* What is at the start of the block of p, before event q in it and behind that.
ContentOf(p, q) ==
  /\ q >= p + 2
  /\ p - 1 \in DOMAIN file /\ file[p - 1].kind = "type" => file[p - 1].type = "ThreadEvents"
  /\ p + 1 \in DOMAIN file => file[p + 1] = [kind |-> "id", id |-> file[q].by]
  /\ LET next == q + file[q].size IN
     next < file[p].end /\ next \in DOMAIN file => file[next].kind = "event"
  /\ q # p + 2 /\ p + 2 \in DOMAIN file =>
       \E o \in EventOffsets : p + 2 <= o /\ o + file[o].size = q

\* That holds of every event behind a header.
ContentInv ==
  \A p \in NextOffsets : \A q \in EventOffsets : p < q /\ q < file[p].end => ContentOf(p, q)

\* The log has the intact records in the order of the file, with the sizes before them.
LogOrder ==
  \A t \in Threads :
    /\ \A i, j \in DOMAIN log[t] : i < j => log[t][i].offset < log[t][j].offset
    /\ \A i \in DOMAIN log[t] :
         /\ log[t][i].event.by = t /\ ~log[t][i].event.torn
         /\ log[t][i].event.prev = IF i = 1 THEN 0 ELSE log[t][i - 1].event.size
    /\ PreviousEventSize[t] = IF log[t] = <<>> THEN 0 ELSE log[t][Len(log[t])].event.size
    /\ \A q \in EventOffsets : file[q].by = t /\ ~file[q].torn => \E i \in DOMAIN log[t] : log[t][i].offset = q

-----------------------------------------------------------------------------
\* The offsets that are written.
Here(s, k) == m_Block[s].next..(m_Block[s].next + k - 1)

\* What OutputBlock::write does to the file and the blocks.
Wrote(s, cells, k) ==
  /\ k \in 0..Len(cells)
  /\ m_TraceOffset' = m_TraceOffset
  /\ DOMAIN file' = DOMAIN file \cup Here(s, k)
  /\ \A o \in DOMAIN file : file'[o] = file[o]
  /\ \A o \in Here(s, k) : /\ o - m_Block[s].next + 1 \in 1..Len(cells)
                           /\ file'[o] = Stored(cells[o - m_Block[s].next + 1], k = Len(cells))
  /\ Here(s, k) \subseteq Free(s)
  /\ \A u \in Streams : m_Block'[u].end = m_Block[u].end
  /\ \A u \in Streams : u # s => m_Block'[u].next = m_Block[u].next
  /\ m_Block'[s].next = IF m_Block[s].next < m_Block[s].end
                        THEN m_Block[s].next + Len(cells) ELSE m_Block[s].next
  /\ k > 0 => m_Block[s].next + Len(cells) <= m_Block[s].end

\* OutputBlock::write does that.
LEMMA WriteEffect ==
  ASSUME FileInv, NEW s \in Streams, NEW cells \in Seq(AnyCell), NEW k \in Nat,
         OutputBlockWrite(s, cells, k), m_TraceOffset' = m_TraceOffset
  PROVE  Wrote(s, cells, k)
PROOF
<1> DEFINE b == m_Block[s]
           n == Len(cells)
           here == b.next..(b.next + k - 1)
<1>1. /\ b \in [end : Nat, next : Nat] /\ b.end \in Nat /\ b.next \in Nat /\ n \in Nat
      /\ b.end <= m_TraceOffset /\ m_TraceOffset \in Nat
  BY DEF FileInv, Reserved
<1>2. /\ k \in 0..n
      /\ ~Fits(b, n) => k = 0
      /\ m_Block' = [m_Block EXCEPT ![s] = Advanced(b, n)]
      /\ file' = Pwrite(cells, b.next, k)
  BY DEF OutputBlockWrite
<1>3. here \subseteq Free(s) /\ (k > 0 => b.next + n <= b.end)
  BY <1>1, <1>2 DEF Fits, Free
<1>4. here \cap DOMAIN file = {}
  BY <1>3 DEF FileInv, FreeIsUnwritten
<1>5. DOMAIN file' = DOMAIN file \cup here
  BY <1>2 DEF Pwrite
<1>6. \A o \in DOMAIN file : file'[o] = file[o]
  BY <1>2, <1>4, <1>5 DEF Pwrite
<1>8. \A o \in here : /\ o - b.next + 1 \in 1..n
                      /\ file'[o] = Stored(cells[o - b.next + 1], k = n)
  <2>1. \A o \in here : file'[o] = Stored(cells[o - b.next + 1], k = n)
    BY <1>2, <1>5 DEF Pwrite
  <2>2. \A o \in here : o - b.next + 1 \in 1..n
    <3> HIDE DEF b, n
    <3> QED BY <1>1, <1>2 DEF here
  <2> QED BY <2>1, <2>2
<1>10. Advanced(b, n) \in [end : Nat, next : Nat]
  BY <1>1 DEF Advanced
<1>11. /\ \A u \in Streams : u # s => m_Block'[u] = m_Block[u]
       /\ m_Block'[s] = Advanced(b, n)
  BY <1>2, <1>10 DEF FileInv
<1>12. /\ m_Block'[s].end = b.end
       /\ m_Block'[s].next = IF b.next < b.end THEN b.next + n ELSE b.next
  BY <1>11, <1>1 DEF Advanced
<1>13. \A u \in Streams : m_Block'[u].end = m_Block[u].end
  BY <1>11, <1>12
<1>14. \A u \in Streams : u # s => m_Block'[u].next = m_Block[u].next
  BY <1>11
<1> HIDE DEF b, n
<1>15. here = Here(s, k)
  BY DEF b, Here
<1> QED BY <1>2, <1>3, <1>5, <1>6, <1>8, <1>12, <1>13, <1>14, <1>15 DEF Wrote, b, n

\* The types that the lemmas below need.
LEMMA Numbers ==
  ASSUME FileInv
  PROVE  /\ m_TraceOffset \in Nat
         /\ \A o \in DOMAIN file : o \in Nat /\ file[o] \in AnyCell /\ o < m_TraceOffset
         /\ \A s \in Streams : /\ m_Block[s].end \in Nat /\ m_Block[s].next \in Nat
                               /\ m_Block[s].end <= m_TraceOffset
         /\ \A p \in NextOffsets : p \in DOMAIN file /\ p \in Nat /\ file[p].end \in Nat /\ file[p].kind = "next"
         /\ \A q \in EventOffsets : /\ q \in DOMAIN file /\ q \in Nat /\ file[q].size \in Nat
                                    /\ file[q].by \in Threads /\ file[q].by \in Streams
                                    /\ file[q].kind = "event" /\ file[q] \in EventCell
PROOF
<1>1. \A o \in DOMAIN file : o \in Nat /\ file[o] \in AnyCell /\ o < m_TraceOffset
  BY DEF FileInv, Reserved
<1>2. \A c \in AnyCell : c.kind = "next" => c.end \in Nat
  BY DEF AnyCell, ItemCell, HeaderCell, EventCell, RestCell, PieceCell
<1>3. \A c \in AnyCell : c.kind = "event" => c \in EventCell
  BY DEF AnyCell, ItemCell, HeaderCell, EventCell, RestCell, PieceCell
<1>4. \A c \in EventCell : c.size \in Nat /\ c.by \in Threads
  BY DEF EventCell
<1>5. \A p \in NextOffsets : p \in DOMAIN file /\ p \in Nat /\ file[p].end \in Nat /\ file[p].kind = "next"
  BY <1>1, <1>2 DEF NextOffsets
<1>6. \A q \in EventOffsets : /\ q \in DOMAIN file /\ q \in Nat /\ file[q].kind = "event"
                              /\ file[q] \in EventCell
  BY <1>1, <1>3 DEF EventOffsets
<1>7. \A q \in EventOffsets : file[q].size \in Nat /\ file[q].by \in Threads /\ file[q].by \in Streams
  BY <1>4, <1>6, StreamsFacts
<1>8. \A s \in Streams : /\ m_Block[s].end \in Nat /\ m_Block[s].next \in Nat
                         /\ m_Block[s].end <= m_TraceOffset
  BY DEF FileInv, Reserved
<1> QED BY <1>1, <1>5, <1>6, <1>7, <1>8 DEF FileInv

\* A thread writes to a stream of its own, or alone to the process data.
LEMMA OneWriter ==
  ASSUME HandsInv, NEW t \in Threads, NEW u \in Threads, NEW s \in Streams,
         WritesTo(t, s), WritesTo(u, s)
  PROVE  t = u
PROOF
<1>1. /\ s = t \/ s \in {0, -t}
      /\ s = u \/ s \in {0, -u}
  BY DEF HandsInv, WritesTo, EventHand, DataHand, ProcessData
<1>2. s = 0 => t = u
  BY DEF HandsInv, ProcessData
<1>3. t \in Nat \ {0} /\ u \in Nat \ {0}
  BY StreamsFacts
<1> QED BY <1>1, <1>2, <1>3

\* The size of a block and where it begins.
LEMMA BaseFacts ==
  ASSUME FileInv, WriterInv, NEW s \in Streams, Open(s), PlaceInv(s)
  PROVE  /\ Base(s) \in Nat \ {0} /\ m_Block[s].end \in Nat /\ m_Block[s].next \in Nat
         /\ Base(s) + 2 <= m_Block[s].end
         /\ s > 0 => Base(s) + 3 <= m_Block[s].end
PROOF
<1>1. s < 0 => -s \in Threads
  BY ConstantsAssumption DEF Streams, Threads, ConstantsAssumption
<1>2. s < 0 => Len(writer[-s].item) \in Nat
  BY <1>1 DEF WriterInv, Writers
<1>3. m_Block[s].end \in Nat /\ m_Block[s].next \in Nat /\ BlockSize \in Nat
  BY Numbers, ConstantsAssumption DEF ConstantsAssumption
<1>4. Base(s) \in Int
  BY <1>2, <1>3 DEF Base, HeaderSize
<1> QED BY <1>3, <1>4 DEF PlaceInv, HeaderSize, IDSize

\* A block in the file that has a cell of an open block is that block.
LEMMA Inside ==
  ASSUME FileInv, WriterInv, NextInv, NEW s \in Streams, Open(s), PlaceInv(s),
         NEW p \in NextOffsets, NEW o \in Nat, Base(s) <= o, o < m_Block[s].end,
         p - 1 <= o, o < file[p].end
  PROVE  p = Base(s) + 1 /\ file[p].end = m_Block[s].end
PROOF
<1>1. Outside(Base(s), m_Block[s].end) /\ Outside(p - 1, file[p].end)
  BY DEF PlaceInv, NextInv
<1>2. /\ file[p].end <= Base(s) \/ m_Block[s].end <= file[p].end
      /\ m_Block[s].end <= p - 1 \/ file[p].end <= m_Block[s].end
  BY <1>1 DEF Outside
<1>3. p \in Nat /\ file[p].end \in Nat /\ Base(s) \in Nat /\ m_Block[s].end \in Nat
  BY Numbers, BaseFacts
<1>4. file[p].end = m_Block[s].end
  BY <1>2, <1>3
<1> QED BY <1>4 DEF PlaceInv

\* Open blocks are apart.
LEMMA OpenApart ==
  ASSUME FileInv, WriterInv, BlocksInv, NEW s \in Streams, NEW u \in Streams, s # u,
         Open(s), Open(u), NEW o \in Nat, Base(s) <= o, o < m_Block[s].end
  PROVE  ~(Base(u) <= o /\ o < m_Block[u].end)
PROOF
<1>1. PlaceInv(s) /\ PlaceInv(u) /\ m_Block[s].end # m_Block[u].end
  BY DEF BlocksInv, Open
<1>2. /\ m_Block[u].end <= Base(s) \/ m_Block[s].end <= m_Block[u].end
      /\ m_Block[s].end <= Base(u) \/ m_Block[u].end <= m_Block[s].end
  BY <1>1 DEF PlaceInv, Outside
<1>3. /\ Base(s) \in Nat /\ Base(u) \in Nat /\ m_Block[s].end \in Nat /\ m_Block[u].end \in Nat
  BY <1>1, BaseFacts
<1> QED BY <1>1, <1>2, <1>3

\* What is still to be written lies in the block, past what is written.
LEMMA NextInBlock ==
  ASSUME FileInv, WriterInv, HandsInv, BlocksInv, NEW s \in Streams, Open(s)
  PROVE  /\ m_Block[s].next >= Base(s)
         /\ \A o \in DOMAIN file : Base(s) <= o /\ o < m_Block[s].end => o < m_Block[s].next
PROOF
<1>1. PlaceInv(s) /\ HeaderInv(s)
  BY DEF BlocksInv
<1>2. Base(s) \in Nat /\ m_Block[s].end \in Nat /\ m_Block[s].next \in Nat
  BY <1>1, BaseFacts
<1>3. m_Block[s].next >= Base(s)
  <2>1. CASE \E t \in Threads : WritesTo(t, s) /\ writer[t].pc \in {"type", "next", "id"}
    BY <2>1, <1>1, <1>2 DEF HeaderInv
  <2>2. CASE m_Block[s].next >= Base(s) + HeaderSize + (IF s > 0 THEN IDSize ELSE 0)
    BY <2>2, <1>2 DEF HeaderSize, IDSize
  <2> QED BY <2>1, <2>2, <1>1 DEF HeaderInv
<1>4. ASSUME NEW o \in DOMAIN file, Base(s) <= o, o < m_Block[s].end PROVE o < m_Block[s].next
  <2>1. o \in Nat /\ o \notin Free(s)
    BY Numbers DEF FileInv, FreeIsUnwritten
  <2> QED BY <2>1, <1>2, <1>4 DEF Free
<1> QED BY <1>3, <1>4

\* Of the cells of a write only the first can be more than data.
LEMMA WroteShape ==
  ASSUME FileInv, NEW s \in Streams, NEW cells \in Seq(AnyCell), NEW k \in Nat, Wrote(s, cells, k),
         \A i \in 2..Len(cells) : Plain(cells[i])
  PROVE  /\ k > 0 => /\ m_Block[s].next \in Here(s, k) /\ m_Block[s].next \in DOMAIN file'
                     /\ m_Block[s].next \notin DOMAIN file /\ m_Block[s].next < m_Block[s].end
                     /\ file'[m_Block[s].next] = Stored(cells[1], k = Len(cells))
                     /\ file'[m_Block[s].next].kind = cells[1].kind
         /\ \A o \in Here(s, k) : /\ o \notin DOMAIN file /\ o \in Nat /\ o < m_Block[s].end
                                  /\ m_Block[s].next <= o /\ k > 0
                                  /\ o # m_Block[s].next => Plain(file'[o])
         /\ NextOffsets' = NextOffsets \cup (IF k > 0 /\ cells[1].kind = "next" THEN {m_Block[s].next} ELSE {})
         /\ EventOffsets' = EventOffsets \cup (IF k > 0 /\ cells[1].kind = "event" THEN {m_Block[s].next} ELSE {})
PROOF
<1> DEFINE x == m_Block[s].next
           n == Len(cells)
<1>1. /\ x \in Nat /\ m_Block[s].end \in Nat /\ n \in Nat /\ k \in 0..n
      /\ DOMAIN file' = DOMAIN file \cup Here(s, k)
      /\ \A o \in DOMAIN file : file'[o] = file[o]
      /\ \A o \in Here(s, k) : /\ o - x + 1 \in 1..n
                               /\ file'[o] = Stored(cells[o - x + 1], k = n)
      /\ Here(s, k) \subseteq Free(s)
      /\ Free(s) = x..(m_Block[s].end - 1)
      /\ Here(s, k) = x..(x + k - 1)
      /\ Free(s) \cap DOMAIN file = {}
  BY Numbers DEF Wrote, Here, Free, FileInv, FreeIsUnwritten
<1>2. \A o \in Here(s, k) : /\ o \notin DOMAIN file /\ o \in Nat /\ o < m_Block[s].end /\ x <= o /\ k > 0
  BY <1>1
<1>3. \A c \in AnyCell, w \in BOOLEAN : Stored(c, w).kind = c.kind
  <2> SUFFICES ASSUME NEW c \in AnyCell, NEW w \in BOOLEAN PROVE Stored(c, w).kind = c.kind
    OBVIOUS
  <2>1. CASE c.kind = "event"
    <3>1. c \in EventCell
      BY <2>1 DEF AnyCell, ItemCell, RestCell, PieceCell, HeaderCell
    <3>2. [c EXCEPT !.torn = ~w].kind = "event"
      BY <3>1 DEF EventCell
    <3> QED BY <2>1, <3>2 DEF Stored
  <2>2. CASE c.kind # "event"
    BY <2>2 DEF Stored
  <2> QED BY <2>1, <2>2
<1>4. \A i \in 1..n : cells[i] \in AnyCell
  OBVIOUS
<1>5. \A o \in Here(s, k) : file'[o].kind = cells[o - x + 1].kind
  BY <1>1, <1>3, <1>4
<1>6. \A o \in Here(s, k) : o # x => o - x + 1 \in 2..n
  BY <1>1, <1>2
<1>7. \A o \in Here(s, k) : o # x => Plain(file'[o])
  BY <1>5, <1>6 DEF Plain
<1>8. k > 0 => /\ x \in Here(s, k) /\ x \in DOMAIN file' /\ x \notin DOMAIN file /\ x < m_Block[s].end
               /\ file'[x] = Stored(cells[1], k = n) /\ file'[x].kind = cells[1].kind
  <2> HAVE k > 0
  <2>1. x \in Here(s, k) /\ x - x + 1 = 1
    BY <1>1
  <2> QED BY <2>1, <1>1, <1>2, <1>5
<1>9. NextOffsets' = NextOffsets \cup (IF k > 0 /\ cells[1].kind = "next" THEN {x} ELSE {})
  <2>1. NextOffsets' = {o \in DOMAIN file' : file'[o].kind = "next"}
    BY DEF NextOffsets
  <2>2. \A o \in DOMAIN file' : file'[o].kind = "next" <=> o \in NextOffsets \/ (k > 0 /\ o = x /\ cells[1].kind = "next")
    <3> SUFFICES ASSUME NEW o \in DOMAIN file'
                 PROVE  file'[o].kind = "next" <=> o \in NextOffsets \/ (k > 0 /\ o = x /\ cells[1].kind = "next")
      OBVIOUS
    <3>1. CASE o \in DOMAIN file
      BY <3>1, <1>1, <1>8 DEF NextOffsets
    <3>2. CASE o \in Here(s, k)
      <4>1. o \notin NextOffsets /\ k > 0
        BY <3>2, <1>2 DEF NextOffsets
      <4>2. o # x => file'[o].kind # "next"
        BY <3>2, <1>7 DEF Plain
      <4> QED BY <4>1, <4>2, <1>8
    <3> QED BY <3>1, <3>2, <1>1
  <2>3. NextOffsets \subseteq DOMAIN file'
    BY <1>1 DEF NextOffsets
  <2> HIDE DEF x
  <2> QED BY <2>1, <2>2, <2>3, <1>8
<1>10. EventOffsets' = EventOffsets \cup (IF k > 0 /\ cells[1].kind = "event" THEN {x} ELSE {})
  <2>1. EventOffsets' = {o \in DOMAIN file' : file'[o].kind = "event"}
    BY DEF EventOffsets
  <2>2. \A o \in DOMAIN file' : file'[o].kind = "event" <=> o \in EventOffsets \/ (k > 0 /\ o = x /\ cells[1].kind = "event")
    <3> SUFFICES ASSUME NEW o \in DOMAIN file'
                 PROVE  file'[o].kind = "event" <=> o \in EventOffsets \/ (k > 0 /\ o = x /\ cells[1].kind = "event")
      OBVIOUS
    <3>1. CASE o \in DOMAIN file
      BY <3>1, <1>1, <1>8 DEF EventOffsets
    <3>2. CASE o \in Here(s, k)
      <4>1. o \notin EventOffsets /\ k > 0
        BY <3>2, <1>2 DEF EventOffsets
      <4>2. o # x => file'[o].kind # "event"
        BY <3>2, <1>7 DEF Plain
      <4> QED BY <4>1, <4>2, <1>8
    <3> QED BY <3>1, <3>2, <1>1
  <2>3. EventOffsets \subseteq DOMAIN file'
    BY <1>1 DEF EventOffsets
  <2> HIDE DEF x
  <2> QED BY <2>1, <2>2, <2>3, <1>8
<1> QED BY <1>2, <1>7, <1>8, <1>9, <1>10

\* What a write leaves as it is.
LEMMA WroteKeeps ==
  ASSUME FileInv, NEW s \in Streams, NEW cells, NEW k, Wrote(s, cells, k)
  PROVE  /\ m_TraceOffset' = m_TraceOffset
         /\ DOMAIN file \subseteq DOMAIN file'
         /\ \A o \in DOMAIN file : file'[o] = file[o]
         /\ \A p \in NextOffsets : file'[p] = file[p]
         /\ \A q \in EventOffsets : file'[q] = file[q]
         /\ \A u \in Streams : m_Block'[u].end = m_Block[u].end /\ (HasBlock(u)' <=> HasBlock(u))
         /\ \A u \in Streams : u # s => m_Block'[u].next = m_Block[u].next
  BY DEF Wrote, NextOffsets, EventOffsets, HasBlock

\* Boundaries of blocks stay what they are.
LEMMA OutsideKept ==
  ASSUME FileInv, NEW s \in Streams, NEW cells, NEW k, Wrote(s, cells, k),
         \A p \in NextOffsets' : p \in NextOffsets \/ file'[p].end = m_Block[s].end,
         NEW x \in Nat, NEW y \in Nat, Outside(x, y)
  PROVE  Outside(x, y)'
PROOF
<1>1. /\ \A p \in NextOffsets : file[p].end <= x \/ y <= file[p].end
      /\ \A u \in Streams : m_Block[u].end <= x \/ y <= m_Block[u].end
  BY DEF Outside
<1>2. \A p \in NextOffsets' : file'[p].end <= x \/ y <= file'[p].end
  BY <1>1, WroteKeeps
<1>3. \A u \in Streams : m_Block'[u].end <= x \/ y <= m_Block'[u].end
  BY <1>1, WroteKeeps
<1> QED BY <1>2, <1>3 DEF Outside

\* Thread t goes on with a block of its stream, leaves it or has finished.
Continues(t) ==
  /\ \A v \in Threads : v # t => writer'[v] = writer[v]
  /\ \/ writer'[t] = Idle
     \/ /\ writer'[t].stream = writer[t].stream /\ writer'[t].item = writer[t].item
        /\ writer'[t].pc # "idle" /\ writer[t].pc # "idle"
        /\ writer[t].stream < 0 => writer[t].pc # "reserve"

\* No block is opened by a write, and those that stay open are where they were.
LEMMA BaseKept ==
  ASSUME FileInv, WriterInv, NEW t \in Threads, Continues(t),
         \A u \in Streams : m_Block'[u].end = m_Block[u].end,
         NEW u \in Streams, Open(u)'
  PROVE  Open(u) /\ Base(u)' = Base(u)
PROOF
<1>1. HasBlock(u)
  BY DEF Open, HasBlock
<1>2. CASE u >= 0
  <2>1. ~(u < 0)
    BY <1>2, StreamsFacts
  <2> QED BY <1>1, <2>1 DEF Open, Base
<1>3. CASE u < 0
  <2>1. -u \in Threads /\ u = -(-u)
    BY <1>3, ConstantsAssumption DEF Streams, Threads, ConstantsAssumption
  <2>2. WritesTo(-u, u)' /\ writer'[-u].pc # "reserve"
    BY <1>3 DEF Open
  <2>3. WritesTo(-u, u) /\ writer[-u].pc # "reserve" /\ writer'[-u].item = writer[-u].item
    <3>1. CASE -u # t
      BY <3>1, <2>1, <2>2 DEF Continues, WritesTo
    <3>2. CASE -u = t
      <4>1. writer'[t] # Idle
        BY <2>2, <3>2 DEF WritesTo, Idle
      <4> QED BY <4>1, <2>1, <2>2, <3>2, <1>3 DEF Continues, WritesTo
    <3> QED BY <3>1, <3>2
  <2> QED BY <1>1, <1>3, <2>3 DEF Open, Base
<1> QED BY <1>2, <1>3, StreamsFacts

-----------------------------------------------------------------------------
\* Thread t writes the next cell of a header, or its item.
InHand(t, s, cells) ==
  \/ writer[t].pc = "type" /\ cells = <<[kind |-> "type", type |-> writer[t].type]>>
  \/ writer[t].pc = "next" /\ cells = <<[kind |-> "next", end |-> m_Block[s].end]>>
  \/ writer[t].pc = "id" /\ cells = <<[kind |-> "id", id |-> t]>>
  \/ writer[t].pc = "item" /\ cells = writer[t].item

\* A thread puts what it has in hand into the file.
Puts(t, s, cells, k) == WritesTo(t, s) /\ InHand(t, s, cells) /\ Wrote(s, cells, k)

\* All that is known before a step.
Known == FileInv /\ WriterInv /\ HandsInv /\ BlocksInv /\ NextInv /\ EventsInv /\ ContentInv

\* A thread that writes has a block, of which the invariant tells.
LEMMA OpenWhenWriting ==
  ASSUME Known, NEW t \in Threads, NEW s \in Streams, WritesTo(t, s), writer[t].pc # "reserve"
  PROVE  /\ Open(s) /\ PlaceInv(s) /\ HeaderInv(s)
         /\ Base(s) \in Nat \ {0} /\ m_Block[s].end \in Nat /\ m_Block[s].next \in Nat
         /\ Base(s) + 2 <= m_Block[s].end /\ (s > 0 => Base(s) + 3 <= m_Block[s].end)
         /\ s \in {0, t, -t} /\ (s > 0 => s = t) /\ (s < 0 => s = -t)
         /\ s > 0 => EventHand(t, writer[t])
         /\ s <= 0 => DataHand(t, writer[t])
PROOF
<1>1. writer[t].stream = s /\ writer[t].pc # "idle"
  BY DEF WritesTo
<1>2. /\ EventHand(t, writer[t]) \/ DataHand(t, writer[t])
      /\ HasBlock(s)
  BY <1>1 DEF HandsInv, Known
<1>3. t \in Nat \ {0} /\ s \in Int
  BY StreamsFacts
<1>4. EventHand(t, writer[t]) => s = t
  BY <1>1 DEF EventHand
<1>5. DataHand(t, writer[t]) => s \in {0, -t}
  BY <1>1 DEF DataHand, ProcessData
<1>6. /\ s \in {0, t, -t} /\ (s > 0 => s = t) /\ (s < 0 => s = -t)
      /\ s > 0 => EventHand(t, writer[t])
      /\ s <= 0 => DataHand(t, writer[t])
  BY <1>2, <1>3, <1>4, <1>5
<1>7. Open(s)
  <2>1. s < 0 => -s = t
    BY <1>6, <1>3
  <2> QED BY <2>1, <1>2 DEF Open
<1>8. PlaceInv(s) /\ HeaderInv(s)
  BY <1>7 DEF Known, BlocksInv
<1>9. /\ Base(s) \in Nat \ {0} /\ m_Block[s].end \in Nat /\ m_Block[s].next \in Nat
      /\ Base(s) + 2 <= m_Block[s].end /\ (s > 0 => Base(s) + 3 <= m_Block[s].end)
  BY <1>7, <1>8, BaseFacts DEF Known
<1> QED BY <1>6, <1>7, <1>8, <1>9

\* Where a thread writes, and what.
LEMMA InHandFacts ==
  ASSUME Known, NEW t \in Threads, NEW s \in Streams, NEW cells \in Seq(AnyCell),
         WritesTo(t, s), InHand(t, s, cells)
  PROVE  /\ \A i \in 2..Len(cells) : Plain(cells[i])
         /\ writer[t].pc = "type" => m_Block[s].next = Base(s) /\ cells[1].kind = "type"
         /\ writer[t].pc = "next" => m_Block[s].next = Base(s) + 1 /\ cells[1].kind = "next" /\ cells[1].end = m_Block[s].end
         /\ writer[t].pc = "id" => m_Block[s].next = Base(s) + 2 /\ cells[1] = [kind |-> "id", id |-> t] /\ s = t /\ cells[1].kind = "id"
         /\ writer[t].pc = "item" => m_Block[s].next >= Base(s) + 2 /\ (s > 0 => m_Block[s].next >= Base(s) + 3)
         /\ writer[t].pc # "item" => Len(cells) = 1
         /\ writer[t].pc = "item" /\ s > 0 =>
              /\ s = t /\ Len(cells) >= 1 /\ cells[1].kind = "event" /\ cells[1].by = t
              /\ cells[1].size = Len(cells) /\ cells[1].prev = PreviousEventSize[t]
         /\ writer[t].pc = "item" /\ s <= 0 => \A i \in 1..Len(cells) : Plain(cells[i])
         /\ writer[t].pc \in {"type", "next", "id", "item"}
PROOF
<1>1. /\ Open(s) /\ HeaderInv(s) /\ Base(s) \in Nat /\ m_Block[s].next \in Nat
      /\ s > 0 => s = t /\ EventHand(t, writer[t])
      /\ s <= 0 => DataHand(t, writer[t])
  <2>1. writer[t].pc # "reserve"
    BY DEF InHand
  <2> QED BY <2>1, OpenWhenWriting
<1>2. /\ writer[t].pc = "type" => m_Block[s].next = Base(s)
      /\ writer[t].pc = "next" => m_Block[s].next = Base(s) + 1
      /\ writer[t].pc = "id" => m_Block[s].next = Base(s) + 2
  BY <1>1 DEF HeaderInv
<1>3. writer[t].pc = "item" => m_Block[s].next >= Base(s) + 2 /\ (s > 0 => m_Block[s].next >= Base(s) + 3)
  <2> HAVE writer[t].pc = "item"
  <2>1. ~ \E u \in Threads : WritesTo(u, s) /\ writer[u].pc \in {"type", "next", "id"}
    <3> SUFFICES ASSUME NEW u \in Threads, WritesTo(u, s), writer[u].pc \in {"type", "next", "id"} PROVE FALSE
      OBVIOUS
    <3>1. u = t
      BY OneWriter DEF Known
    <3> QED BY <3>1
  <2>2. m_Block[s].next >= Base(s) + 2 + (IF s > 0 THEN 1 ELSE 0)
    BY <2>1, <1>1 DEF HeaderInv, HeaderSize, IDSize
  <2> QED BY <2>2, <1>1
<1>4. s \in Int
  BY StreamsFacts
<1>5. CASE writer[t].pc = "item"
  <2>1. cells = writer[t].item
    BY <1>5 DEF InHand
  <2>2. s > 0 => /\ s = t /\ Len(cells) >= 1 /\ cells[1].kind = "event" /\ cells[1].by = t
                 /\ cells[1].size = Len(cells) /\ cells[1].prev = PreviousEventSize[t]
                 /\ \A i \in 2..Len(cells) : Plain(cells[i])
    BY <2>1, <1>1 DEF EventHand
  <2>3. s <= 0 => \A i \in 1..Len(cells) : Plain(cells[i])
    BY <2>1, <1>1 DEF DataHand
  <2>4. 2..Len(cells) \subseteq 1..Len(cells)
    BY LenProperties
  <2> QED BY <1>5, <2>2, <2>3, <2>4, <1>3, <1>4
<1>6. CASE writer[t].pc # "item"
  <2>0. PICK c : cells = <<c>>
    BY <1>6 DEF InHand
  <2>1. Len(cells) = 1
    BY <2>0
  <2>2. writer[t].pc = "id" => s = t
    BY <1>1, <1>4 DEF DataHand
  <2>3. /\ writer[t].pc = "type" => cells[1].kind = "type"
        /\ writer[t].pc = "next" => cells[1].kind = "next" /\ cells[1].end = m_Block[s].end
        /\ writer[t].pc = "id" => cells[1] = [kind |-> "id", id |-> t] /\ cells[1].kind = "id"
        /\ writer[t].pc \in {"type", "next", "id"}
    BY <1>6 DEF InHand
  <2>4. 2..Len(cells) = {}
    BY <2>1
  <2> QED BY <1>6, <1>2, <2>1, <2>2, <2>3, <2>4
<1> QED BY <1>5, <1>6

\* What is known of the cell that a write puts first, if it puts any.
FirstIs(t, s, cells, k) ==
  /\ cells[1].kind = "next" => m_Block[s].next = Base(s) + 1 /\ file'[m_Block[s].next].end = m_Block[s].end
  /\ cells[1].kind = "event" =>
       /\ s = t /\ s > 0 /\ m_Block[s].next >= Base(s) + 3
       /\ m_Block[s].next + Len(cells) <= m_Block[s].end
       /\ file'[m_Block[s].next].by = t /\ file'[m_Block[s].next].size = Len(cells)
       /\ file'[m_Block[s].next].prev = PreviousEventSize[t]
       /\ k # Len(cells) => file'[m_Block[s].next].torn = TRUE
       /\ Len(cells) >= 1
  /\ s > 0 /\ m_Block[s].next >= Base(s) + 3 => cells[1].kind = "event"
  /\ m_Block[s].next = Base(s) + 2 /\ s > 0 => s = t /\ file'[Base(s) + 2] = [kind |-> "id", id |-> t]
  /\ m_Block[s].next >= Base(s)

\* Where the first cell of a write goes.
LEMMA FirstCell ==
  ASSUME Known, NEW t \in Threads, NEW s \in Streams, NEW cells \in Seq(AnyCell), NEW k \in Nat,
         Puts(t, s, cells, k), k > 0
  PROVE  FirstIs(t, s, cells, k)
PROOF
<1> DEFINE x == m_Block[s].next
<1>1. /\ Base(s) \in Nat \ {0} /\ x \in Nat /\ m_Block[s].end \in Nat /\ (s > 0 => s = t)
  <2>1. writer[t].pc # "reserve" /\ WritesTo(t, s)
    BY DEF Puts, InHand
  <2> QED BY <2>1, OpenWhenWriting
<1>2. /\ writer[t].pc = "type" => x = Base(s) /\ cells[1].kind = "type"
      /\ writer[t].pc = "next" => x = Base(s) + 1 /\ cells[1].kind = "next" /\ cells[1].end = m_Block[s].end
      /\ writer[t].pc = "id" => x = Base(s) + 2 /\ cells[1] = [kind |-> "id", id |-> t] /\ s = t /\ cells[1].kind = "id"
      /\ writer[t].pc = "item" => x >= Base(s) + 2 /\ (s > 0 => x >= Base(s) + 3)
      /\ writer[t].pc = "item" /\ s > 0 =>
              /\ s = t /\ Len(cells) >= 1 /\ cells[1].kind = "event" /\ cells[1].by = t
              /\ cells[1].size = Len(cells) /\ cells[1].prev = PreviousEventSize[t]
      /\ writer[t].pc = "item" /\ s <= 0 => \A i \in 1..Len(cells) : Plain(cells[i])
      /\ writer[t].pc \in {"type", "next", "id", "item"}
      /\ \A i \in 2..Len(cells) : Plain(cells[i])
  BY InHandFacts DEF Puts
<1>3. s \in Int /\ Len(cells) \in Nat /\ 1 \in 1..Len(cells) /\ cells[1] \in AnyCell
  BY StreamsFacts DEF Puts, Wrote
<1>4. /\ file'[x] = Stored(cells[1], k = Len(cells))
      /\ x + Len(cells) <= m_Block[s].end
  BY <1>2, WroteShape DEF Puts, Known, Wrote
<1>5. writer[t].pc = "item" /\ s <= 0 => Plain(cells[1])
  BY <1>2, <1>3
<1> HIDE DEF x
<1>6. cells[1].kind = "next" => x = Base(s) + 1 /\ file'[x].end = m_Block[s].end
  <2> HAVE cells[1].kind = "next"
  <2>1. writer[t].pc = "next"
    BY <1>2, <1>5, <1>3 DEF Plain
  <2> QED BY <2>1, <1>2, <1>4 DEF Stored
<1>7. cells[1].kind = "event" => writer[t].pc = "item" /\ s > 0
  BY <1>2, <1>5, <1>3 DEF Plain
<1>8. ASSUME cells[1].kind = "event"
      PROVE  /\ file'[x].by = cells[1].by /\ file'[x].size = cells[1].size /\ file'[x].prev = cells[1].prev
             /\ k # Len(cells) => file'[x].torn = TRUE
  <2>1. cells[1] \in EventCell
    BY <1>3, <1>8 DEF AnyCell, ItemCell, RestCell, PieceCell, HeaderCell
  <2>2. \A c \in EventCell : /\ Stored(c, TRUE).by = c.by /\ Stored(c, TRUE).size = c.size
                             /\ Stored(c, TRUE).prev = c.prev
                             /\ Stored(c, FALSE).by = c.by /\ Stored(c, FALSE).size = c.size
                             /\ Stored(c, FALSE).prev = c.prev /\ Stored(c, FALSE).torn = TRUE
    BY DEF EventCell, Stored
  <2>3. CASE k = Len(cells)
    <3>1. file'[x] = Stored(cells[1], TRUE)
      BY <1>4, <2>3
    <3> QED BY <2>1, <2>2, <2>3, <3>1
  <2>4. CASE k # Len(cells)
    <3>1. file'[x] = Stored(cells[1], FALSE)
      BY <1>4, <2>4
    <3> QED BY <2>1, <2>2, <3>1
  <2> QED BY <2>3, <2>4
<1>9. s > 0 /\ x >= Base(s) + 3 => cells[1].kind = "event"
  BY <1>1, <1>2
<1>10. ASSUME x = Base(s) + 2, s > 0 PROVE s = t /\ file'[Base(s) + 2] = [kind |-> "id", id |-> t]
  <2>1. writer[t].pc = "id"
    BY <1>1, <1>2, <1>10
  <2> QED BY <2>1, <1>2, <1>4, <1>10 DEF Stored
<1>11. x >= Base(s)
  BY <1>1, <1>2
<1>12. cells[1].kind = "event" =>
         /\ s = t /\ s > 0 /\ x >= Base(s) + 3 /\ x + Len(cells) <= m_Block[s].end
         /\ file'[x].by = t /\ file'[x].size = Len(cells) /\ file'[x].prev = PreviousEventSize[t]
         /\ k # Len(cells) => file'[x].torn = TRUE
         /\ Len(cells) >= 1
  BY <1>2, <1>4, <1>7, <1>8
<1> QED BY <1>6, <1>9, <1>10, <1>11, <1>12 DEF x, FirstIs

-----------------------------------------------------------------------------
\* A write leaves the blocks that the file tells of apart.
LEMMA PutsNext ==
  ASSUME Known, NEW t \in Threads, NEW s \in Streams, NEW cells \in Seq(AnyCell), NEW k \in Nat,
         Puts(t, s, cells, k)
  PROVE  /\ NextInv'
         /\ \A p \in NextOffsets' : p \in NextOffsets \/ (k > 0 /\ p = Base(s) + 1 /\ p = m_Block[s].next /\ file'[p].end = m_Block[s].end)
         /\ \A x, y \in Nat : Outside(x, y) => Outside(x, y)'
PROOF
<1>1. /\ Open(s) /\ PlaceInv(s)
      /\ Base(s) \in Nat \ {0} /\ m_Block[s].end \in Nat /\ m_Block[s].next \in Nat
      /\ Base(s) + 2 <= m_Block[s].end
  <2>1. writer[t].pc # "reserve" /\ WritesTo(t, s)
    BY DEF Puts, InHand
  <2> QED BY <2>1, OpenWhenWriting
<1>2. \A i \in 2..Len(cells) : Plain(cells[i])
  BY InHandFacts DEF Puts
<1>3. \A p \in NextOffsets' : p \in NextOffsets \/ (k > 0 /\ p = Base(s) + 1 /\ p = m_Block[s].next /\ file'[p].end = m_Block[s].end)
  <2> SUFFICES ASSUME NEW p \in NextOffsets', p \notin NextOffsets
               PROVE  k > 0 /\ p = Base(s) + 1 /\ p = m_Block[s].next /\ file'[p].end = m_Block[s].end
    OBVIOUS
  <2>1. k > 0 /\ cells[1].kind = "next" /\ p = m_Block[s].next
    BY <1>2, WroteShape DEF Puts, Known
  <2>fc. FirstIs(t, s, cells, k)
    BY <2>1, FirstCell
  <2> QED BY <2>1, <2>fc DEF FirstIs
<1>4. \A x, y \in Nat : Outside(x, y) => Outside(x, y)'
  BY <1>3, OutsideKept DEF Puts, Known
<1>5. NextInv'
  <2> SUFFICES ASSUME NEW p \in NextOffsets'
               PROVE  /\ p >= 2 /\ p < file'[p].end /\ file'[p].end <= m_TraceOffset'
                      /\ Outside(p - 1, file[p].end)'
    BY DEF NextInv
  <2>0. m_TraceOffset' = m_TraceOffset
    BY WroteKeeps DEF Puts, Known
  <2>1. CASE p \in NextOffsets
    <3>1. p \in Nat /\ file[p].end \in Nat /\ file'[p].end = file[p].end
      BY <2>1, Numbers, WroteKeeps DEF Puts, Known
    <3>2. p >= 2 /\ p < file[p].end /\ file[p].end <= m_TraceOffset /\ Outside(p - 1, file[p].end)
      BY <2>1 DEF Known, NextInv
    <3>3. p - 1 \in Nat
      BY <3>1, <3>2
    <3>4. PICK y \in Nat : y = file[p].end
      BY <3>1
    <3>5. PICK x \in Nat : x = p - 1
      BY <3>3
    <3>6. Outside(x, y)'
      BY <3>2, <3>4, <3>5, <1>4
    <3>7. file'[p].end = y
      BY <3>1, <3>4
    <3>8. Outside(p - 1, file[p].end)'
      BY <3>5, <3>6, <3>7 DEF Outside
    <3> QED BY <3>1, <3>2, <3>8, <2>0
  <2>2. CASE p \notin NextOffsets
    <3>1. p = Base(s) + 1 /\ file'[p].end = m_Block[s].end
      BY <2>2, <1>3
    <3>2. m_Block[s].end <= m_TraceOffset
      BY Numbers DEF Known
    <3>3. Outside(Base(s), m_Block[s].end)
      BY <1>1 DEF PlaceInv
    <3>4. PICK x \in Nat : x = Base(s)
      BY <1>1
    <3>5. PICK y \in Nat : y = m_Block[s].end
      BY <1>1
    <3>6. Outside(x, y)'
      BY <3>3, <3>4, <3>5, <1>4
    <3>7. p - 1 = x /\ file'[p].end = y
      BY <3>1, <3>4, <3>5
    <3>8. Outside(p - 1, file[p].end)'
      BY <3>6, <3>7 DEF Outside
    <3> QED BY <3>1, <3>2, <3>8, <1>1, <2>0
  <2> QED BY <2>1, <2>2
<1> QED BY <1>3, <1>4, <1>5

\* A cell that is put is in the free part of one block.
LEMMA PutWhere ==
  ASSUME Known, NEW t \in Threads, NEW s \in Streams, NEW cells \in Seq(AnyCell), NEW k \in Nat,
         Puts(t, s, cells, k)
  PROVE  \A o \in DOMAIN file' : o \in DOMAIN file \/
            (/\ o \in Nat /\ k > 0 /\ Base(s) <= o /\ o < m_Block[s].end /\ m_Block[s].next <= o
             /\ o \notin DOMAIN file /\ (o # m_Block[s].next => Plain(file'[o])))
PROOF
<1>1. \A i \in 2..Len(cells) : Plain(cells[i])
  BY InHandFacts DEF Puts
<1> SUFFICES ASSUME NEW o \in DOMAIN file', o \notin DOMAIN file
             PROVE  /\ o \in Nat /\ k > 0 /\ Base(s) <= o /\ o < m_Block[s].end /\ m_Block[s].next <= o
                    /\ (o # m_Block[s].next => Plain(file'[o]))
  OBVIOUS
<1>2. o \in Here(s, k)
  BY DEF Puts, Wrote
<1>3. /\ o \in Nat /\ k > 0 /\ o < m_Block[s].end /\ m_Block[s].next <= o
      /\ (o # m_Block[s].next => Plain(file'[o]))
  BY <1>1, <1>2, WroteShape DEF Puts, Known
<1>4. m_Block[s].next >= Base(s)
  <2>1. FirstIs(t, s, cells, k)
    BY <1>3, FirstCell
  <2> QED BY <1>3, <2>1 DEF FirstIs
<1>5. m_Block[s].next \in Nat /\ Base(s) \in Nat
  <2>1. writer[t].pc # "reserve" /\ WritesTo(t, s)
    BY DEF Puts, InHand
  <2> QED BY <2>1, OpenWhenWriting
<1> QED BY <1>3, <1>4, <1>5

\* The blocks that are open stay apart from each other and from the others.
LEMMA PutsPlace ==
  ASSUME Known, NEW t \in Threads, NEW s \in Streams, NEW cells \in Seq(AnyCell), NEW k \in Nat,
         Puts(t, s, cells, k), Continues(t), NEW u \in Streams, Open(u)'
  PROVE  PlaceInv(u)' /\ Open(u) /\ Base(u)' = Base(u)
PROOF
<1>1. /\ \A v \in Streams : m_Block'[v].end = m_Block[v].end
      /\ \A p \in NextOffsets : file'[p] = file[p]
      /\ \A q \in EventOffsets : file'[q] = file[q]
  BY WroteKeeps DEF Puts, Known
<1>2. Open(u) /\ Base(u)' = Base(u)
  BY <1>1, BaseKept DEF Known
<1>3. PlaceInv(u) /\ Base(u) \in Nat /\ m_Block[u].end \in Nat
  BY <1>2, BaseFacts DEF Known, BlocksInv
<1>4. /\ Open(s) /\ Base(s) \in Nat \ {0} /\ m_Block[s].end \in Nat /\ m_Block[s].next \in Nat
  <2>1. writer[t].pc # "reserve" /\ WritesTo(t, s)
    BY DEF Puts, InHand
  <2> QED BY <2>1, OpenWhenWriting
<1>5. Outside(Base(u), m_Block[u].end)'
  <2>1. Outside(Base(u), m_Block[u].end)
    BY <1>3 DEF PlaceInv
  <2>2. PICK x \in Nat : x = Base(u)
    BY <1>3
  <2>3. PICK y \in Nat : y = m_Block[u].end
    BY <1>3
  <2>4. Outside(x, y)'
    BY <2>1, <2>2, <2>3, PutsNext
  <2>5. Base(u)' = x /\ m_Block'[u].end = y
    BY <2>2, <2>3, <1>1, <1>2
  <2> QED BY <2>4, <2>5 DEF Outside
<1>6. \A p \in NextOffsets' : file'[p].end = m_Block[u].end => p = Base(u) + 1
  <2> SUFFICES ASSUME NEW p \in NextOffsets', file'[p].end = m_Block[u].end PROVE p = Base(u) + 1
    OBVIOUS
  <2>1. CASE p \in NextOffsets
    BY <2>1, <1>1, <1>3 DEF PlaceInv
  <2>2. CASE p \notin NextOffsets
    <3>1. p = Base(s) + 1 /\ file'[p].end = m_Block[s].end
      BY <2>2, PutsNext
    <3>2. u = s
      BY <3>1, <1>4 DEF Known, BlocksInv, Open
    <3> QED BY <3>1, <3>2
  <2> QED BY <2>1, <2>2
<1>7. \A q \in EventOffsets' : Base(u) <= q /\ q < m_Block[u].end => file'[q].by = u /\ q >= Base(u) + 3
  <2> SUFFICES ASSUME NEW q \in EventOffsets', Base(u) <= q, q < m_Block[u].end
               PROVE  file'[q].by = u /\ q >= Base(u) + 3
    OBVIOUS
  <2>1. CASE q \in EventOffsets
    BY <2>1, <1>1, <1>3 DEF PlaceInv
  <2>2. CASE q \notin EventOffsets
    <3>0. \A i \in 2..Len(cells) : Plain(cells[i])
      BY InHandFacts DEF Puts
    <3>1. k > 0 /\ cells[1].kind = "event" /\ q = m_Block[s].next
      BY <2>2, <3>0, WroteShape DEF Puts, Known
    <3>2. s = t /\ q >= Base(s) + 3 /\ q < m_Block[s].end /\ file'[q].by = t
      <4>1. q < m_Block[s].end
        BY <3>0, <3>1, WroteShape DEF Puts, Known
      <4>2. k > 0 /\ cells[1].kind = "event"
        BY <3>1
      <4>3. s = t /\ m_Block[s].next >= Base(s) + 3 /\ file'[m_Block[s].next].by = t
        <5>1. FirstIs(t, s, cells, k)
          BY <4>2, FirstCell
        <5> QED BY <4>2, <5>1 DEF FirstIs
      <4> QED BY <3>1, <4>1, <4>3
    <3>3. q \in Nat /\ Base(s) <= q
      BY <3>1, <3>2, <1>4
    <3>4. u = s
      BY <3>2, <3>3, <1>2, <1>4, OpenApart DEF Known
    <3> QED BY <3>2, <3>4
  <2> QED BY <2>1, <2>2
<1>8. PlaceInv(u)'
  BY <1>1, <1>2, <1>3, <1>5, <1>6, <1>7 DEF PlaceInv
<1> QED BY <1>2, <1>8

\* The event that a write puts is a record at the place where it writes.
PutsEvent(t, s, cells, k) ==
  /\ k > 0 /\ cells[1].kind = "event" /\ s = t /\ s > 0
  /\ m_Block[s].next >= Base(s) + 3 /\ m_Block[s].next < m_Block[s].end
  /\ file'[m_Block[s].next].by = t /\ file'[m_Block[s].next].size = Len(cells)
  /\ file'[m_Block[s].next].prev = PreviousEventSize[t]
  /\ k # Len(cells) => file'[m_Block[s].next].torn = TRUE
  /\ Len(cells) >= 1 /\ m_Block[s].next + Len(cells) <= m_Block[s].end
  /\ m_Block'[s].next = m_Block[s].next + Len(cells)
  /\ k <= Len(cells)

\* The only new event is the one that is written.
LEMMA NewEvent ==
  ASSUME Known, NEW t \in Threads, NEW s \in Streams, NEW cells \in Seq(AnyCell), NEW k \in Nat,
         Puts(t, s, cells, k)
  PROVE  /\ EventOffsets' \subseteq EventOffsets \cup {m_Block[s].next}
         /\ EventOffsets \subseteq EventOffsets'
         /\ EventOffsets' # EventOffsets => PutsEvent(t, s, cells, k)
         /\ m_Block[s].next \in Nat /\ Len(cells) \in Nat
PROOF
<1>1. \A i \in 2..Len(cells) : Plain(cells[i])
  BY InHandFacts DEF Puts
<1>2. EventOffsets' = EventOffsets \cup (IF k > 0 /\ cells[1].kind = "event" THEN {m_Block[s].next} ELSE {})
  BY <1>1, WroteShape DEF Puts, Known
<1>3. m_Block[s].next \in Nat /\ Len(cells) \in Nat
  BY Numbers DEF Known
<1>4. ASSUME EventOffsets' # EventOffsets PROVE PutsEvent(t, s, cells, k)
  <2>1. k > 0 /\ cells[1].kind = "event"
    BY <1>2, <1>4
  <2>2. m_Block[s].next < m_Block[s].end
    BY <1>1, <2>1, WroteShape DEF Puts, Known
  <2>3. /\ s = t /\ s > 0 /\ m_Block[s].next >= Base(s) + 3
        /\ m_Block[s].next + Len(cells) <= m_Block[s].end
        /\ file'[m_Block[s].next].by = t /\ file'[m_Block[s].next].size = Len(cells)
        /\ file'[m_Block[s].next].prev = PreviousEventSize[t]
        /\ k # Len(cells) => file'[m_Block[s].next].torn = TRUE
        /\ Len(cells) >= 1
    <3>1. FirstIs(t, s, cells, k)
      BY <2>1, FirstCell
    <3> QED BY <2>1, <3>1 DEF FirstIs
  <2>4. m_Block'[s].next = m_Block[s].next + Len(cells) /\ k <= Len(cells)
    BY <2>2, <1>3 DEF Puts, Wrote
  <2> QED BY <2>1, <2>2, <2>3, <2>4 DEF PutsEvent
<1> QED BY <1>2, <1>3, <1>4

\* Records stay apart and within their blocks.
LEMMA PutsEvents ==
  ASSUME Known, NEW t \in Threads, NEW s \in Streams, NEW cells \in Seq(AnyCell), NEW k \in Nat,
         Puts(t, s, cells, k)
  PROVE  EventsInv'
PROOF
<1>1. /\ Open(s) /\ PlaceInv(s)
      /\ Base(s) \in Nat \ {0} /\ m_Block[s].end \in Nat /\ m_Block[s].next \in Nat
      /\ m_Block[s].end <= m_TraceOffset /\ m_TraceOffset \in Nat
  <2>1. writer[t].pc # "reserve" /\ WritesTo(t, s)
    BY DEF Puts, InHand
  <2> QED BY <2>1, OpenWhenWriting, Numbers DEF Known
<1>2. /\ \A v \in Streams : m_Block'[v].end = m_Block[v].end /\ (HasBlock(v)' <=> HasBlock(v))
      /\ \A v \in Streams : v # s => m_Block'[v].next = m_Block[v].next
      /\ \A p \in NextOffsets : file'[p] = file[p]
      /\ \A q \in EventOffsets : file'[q] = file[q]
      /\ m_TraceOffset' = m_TraceOffset
  BY WroteKeeps DEF Puts, Known
<1>3. \A v \in Streams : m_Block'[v].next >= m_Block[v].next
  <2>1. m_Block'[s].next >= m_Block[s].next
    BY <1>1 DEF Puts, Wrote
  <2>2. \A v \in Streams : m_Block[v].next \in Nat
    BY Numbers DEF Known
  <2> QED BY <2>1, <2>2, <1>2
<1>4. \A p \in NextOffsets' : p \in NextOffsets \/ file'[p].end = m_Block[s].end
  BY PutsNext
<1>5. \A q \in EventOffsets :
        /\ q \in Nat /\ file[q].size \in Nat /\ file[q].by \in Streams /\ file[q].by \in Threads
        /\ q >= 3
        /\ file[q].size >= 1 /\ HasBlock(file[q].by) /\ q + file[q].size <= m_Block[file[q].by].next
        /\ q + file[q].size <= m_TraceOffset
        /\ \A p \in NextOffsets : Away(q, file[p].end)
        /\ \A v \in Streams : Away(q, m_Block[v].end)
        /\ \A o \in EventOffsets : o < q /\ file[o].by = file[q].by => o + file[o].size <= q
  BY Numbers DEF Known, EventsInv
<1>7. EventOffsets' \subseteq EventOffsets \cup {m_Block[s].next}
  BY NewEvent
<1>8. EventOffsets' # EventOffsets =>
        /\ s = t
        /\ m_Block[s].next >= Base(s) + 3 /\ m_Block[s].next < m_Block[s].end
        /\ file'[m_Block[s].next].by = t /\ file'[m_Block[s].next].size = Len(cells)
        /\ Len(cells) >= 1 /\ m_Block[s].next + Len(cells) <= m_Block[s].end
        /\ m_Block'[s].next = m_Block[s].next + Len(cells)
  <2>1. EventOffsets' # EventOffsets => PutsEvent(t, s, cells, k)
    BY NewEvent
  <2> QED BY <2>1 DEF PutsEvent
<1>6. ASSUME NEW q \in EventOffsets'
      PROVE  /\ q >= 3
             /\ file'[q].size >= 1 /\ m_Block'[file'[q].by].end > 0 /\ q + file'[q].size <= m_Block'[file'[q].by].next
             /\ q + file'[q].size <= m_TraceOffset'
             /\ \A p \in NextOffsets' : Away(q, file'[p].end)
             /\ \A v \in Streams : Away(q, m_Block'[v].end)
             /\ \A o \in EventOffsets' : o < q /\ file'[o].by = file'[q].by => o + file'[o].size <= q
  <2>1. CASE q \in EventOffsets
    <3>1. file'[q] = file[q] /\ q \in Nat /\ file[q].size \in Nat
      BY <2>1, <1>2, <1>5
    <3>2. q + file'[q].size <= m_Block'[file'[q].by].next
      <4>1. q + file[q].size <= m_Block[file[q].by].next /\ m_Block'[file[q].by].next >= m_Block[file[q].by].next
        BY <2>1, <1>3, <1>5
      <4>2. m_Block[file[q].by].next \in Nat
        BY <2>1, <1>5, Numbers DEF Known
      <4>3. m_Block'[file[q].by].next \in Nat
        <5>1. Len(cells) \in Nat
          OBVIOUS
        <5>2. m_Block'[s].next \in Nat
          BY <5>1, <1>1 DEF Puts, Wrote
        <5> QED BY <5>2, <4>2, <1>2, <1>5, <2>1
      <4> QED BY <4>1, <4>2, <4>3, <3>1
    <3>3. \A p \in NextOffsets' : Away(q, file'[p].end)
      BY <2>1, <1>1, <1>2, <1>4, <1>5
    <3>4. \A o \in EventOffsets' : o < q /\ file'[o].by = file'[q].by => o + file'[o].size <= q
      <4> SUFFICES ASSUME NEW o \in EventOffsets', o < q, file'[o].by = file'[q].by
                   PROVE  o + file'[o].size <= q
        OBVIOUS
      <4>1. CASE o \in EventOffsets
        BY <4>1, <2>1, <1>2, <1>5
      <4>2. CASE o \notin EventOffsets
        <5>0. o = m_Block[s].next
          BY <4>2, <1>7
        <5>1. o = m_Block[s].next /\ file'[m_Block[s].next].by = s /\ m_Block[s].next \in Nat
          BY <4>2, <5>0, <1>8, <1>1
        <5>2. q + file[q].size <= o
          BY <5>1, <2>1, <1>5, <3>1
        <5>3. FALSE
          BY <5>1, <5>2, <3>1
        <5> QED BY <5>3
      <4> QED BY <4>1, <4>2
    <3>5. q >= 3 /\ file'[q].size >= 1 /\ q + file'[q].size <= m_TraceOffset'
      BY <2>1, <1>2, <1>5, <3>1
    <3>6. m_Block'[file'[q].by].end > 0
      BY <2>1, <1>2, <1>5, <3>1 DEF HasBlock
    <3>7. \A v \in Streams : Away(q, m_Block'[v].end)
      BY <2>1, <1>2, <1>5
    <3> QED BY <3>2, <3>3, <3>4, <3>5, <3>6, <3>7
  <2>2. CASE q \notin EventOffsets
    <3>0. /\ s = t
          /\ m_Block[s].next >= Base(s) + 3 /\ m_Block[s].next < m_Block[s].end
          /\ file'[m_Block[s].next].by = t /\ file'[m_Block[s].next].size = Len(cells)
          /\ Len(cells) >= 1 /\ Len(cells) \in Nat /\ m_Block[s].next + Len(cells) <= m_Block[s].end
          /\ m_Block'[s].next = m_Block[s].next + Len(cells)
          /\ m_Block[s].next \in Nat
      BY <2>2, <1>8, <1>1
    <3>1. /\ q = m_Block[s].next /\ q \in Nat /\ s = t
          /\ q >= Base(s) + 3 /\ q < m_Block[s].end
          /\ file'[q].by = t /\ file'[q].size = Len(cells)
          /\ Len(cells) >= 1 /\ Len(cells) \in Nat /\ q + Len(cells) <= m_Block[s].end
          /\ m_Block'[s].next = q + Len(cells)
      <4>1. q = m_Block[s].next
        BY <2>2, <1>7
      <4> QED BY <4>1, <3>0
    <3>2. m_Block'[s].end > 0
      BY <1>1, <1>2 DEF Open, HasBlock
    <3>10. PICK base \in Nat, end \in Nat :
             /\ base = Base(s) /\ end = m_Block[s].end
             /\ base >= 1 /\ q >= base + 3 /\ q < end /\ q \in Nat
      BY <1>1, <3>1
    <3>3. \A v \in Streams : Away(q, m_Block[v].end)
      <4> SUFFICES ASSUME NEW v \in Streams PROVE Away(q, m_Block[v].end)
        OBVIOUS
      <4>1. m_Block[v].end <= Base(s) \/ m_Block[s].end <= m_Block[v].end
        BY <1>1 DEF PlaceInv, Outside
      <4>2. m_Block[v].end \in Nat
        BY Numbers DEF Known
      <4>3. PICK z \in Nat : z = m_Block[v].end
        BY <4>2
      <4>4. z <= base \/ end <= z
        BY <4>1, <4>3, <3>10
      <4>5. q < z \/ q >= z + 2
        BY <4>4, <3>10
      <4> QED BY <4>3, <4>5 DEF Away
    <3>4. \A p \in NextOffsets' : Away(q, file'[p].end)
      <4> SUFFICES ASSUME NEW p \in NextOffsets' PROVE Away(q, file'[p].end)
        OBVIOUS
      <4>1. CASE p \in NextOffsets
        <5>1. file[p].end <= Base(s) \/ m_Block[s].end <= file[p].end
          BY <4>1, <1>1 DEF PlaceInv, Outside
        <5>2. file[p].end \in Nat
          BY <4>1, Numbers DEF Known
        <5>3. Away(q, file[p].end)
          <6>1. PICK z \in Nat : z = file[p].end
            BY <5>2
          <6>2. z <= base \/ end <= z
            BY <5>1, <6>1, <3>10
          <6>3. q < z \/ q >= z + 2
            BY <6>2, <3>10
          <6> QED BY <6>1, <6>3 DEF Away
        <5> QED BY <5>3, <4>1, <1>2
      <4>2. CASE p \notin NextOffsets
        BY <4>2, <1>1, <1>4, <3>3
      <4> QED BY <4>1, <4>2
    <3>5. \A o \in EventOffsets' : o < q /\ file'[o].by = file'[q].by => o + file'[o].size <= q
      <4> SUFFICES ASSUME NEW o \in EventOffsets', o < q, file'[o].by = file'[q].by
                   PROVE  o + file'[o].size <= q
        OBVIOUS
      <4>1. CASE o \in EventOffsets
        <5>1. file'[o] = file[o] /\ file[o].by = s
          BY <4>1, <1>2, <3>1
        <5> QED BY <5>1, <4>1, <1>5, <3>1
      <4>2. CASE o \notin EventOffsets
        <5>1. o = m_Block[s].next
          BY <4>2, <1>7
        <5> QED BY <5>1, <3>1
      <4> QED BY <4>1, <4>2
    <3>6. q >= 3 /\ q + file'[q].size <= m_TraceOffset'
      <4>1. PICK n \in Nat : n = Len(cells) /\ q + n <= end
        BY <3>1, <3>10
      <4>2. q >= 3
        BY <3>10, <3>1
      <4>3. PICK last \in Nat : last = m_TraceOffset /\ end <= last
        BY <1>1, <3>10
      <4>4. q + n <= last
        BY <4>1, <4>3, <3>1
      <4>5. file'[q].size = n /\ m_TraceOffset' = last
        BY <4>1, <4>3, <3>1, <1>2
      <4> QED BY <4>2, <4>4, <4>5
    <3>7. \A v \in Streams : Away(q, m_Block'[v].end)
      BY <3>3, <1>2
    <3>8. m_Block'[file'[q].by].end > 0
      BY <3>1, <3>2
    <3>9. q + file'[q].size <= m_Block'[file'[q].by].next /\ file'[q].size >= 1
      <4>1. PICK n \in Nat : n = Len(cells)
        BY <3>1
      <4>2. file'[q].size = n /\ file'[q].by = s /\ m_Block'[s].next = q + n
        BY <4>1, <3>1
      <4>3. q + n <= q + n /\ n >= 1
        BY <4>1, <3>1
      <4> QED BY <4>2, <4>3
    <3> QED BY <3>4, <3>5, <3>6, <3>7, <3>8, <3>9
  <2> QED BY <2>1, <2>2
<1> QED BY <1>6 DEF EventsInv, HasBlock

\* A write does not reach into what follows a record, unless it is the next one.
LEMMA PutsAfterEvent ==
  ASSUME Known, NEW t \in Threads, NEW s \in Streams, NEW cells \in Seq(AnyCell), NEW k \in Nat,
         Puts(t, s, cells, k), NEW p \in NextOffsets, NEW q \in EventOffsets, p < q, q < file[p].end,
         NEW a \in DOMAIN file', a \notin DOMAIN file, p - 1 <= a, a < file[p].end
  PROVE  /\ p = Base(s) + 1 /\ a > q /\ file[q].by = s
         /\ a = q + file[q].size => file'[a].kind = "event"
PROOF
<1>1. /\ Open(s) /\ PlaceInv(s)
      /\ Base(s) \in Nat \ {0} /\ m_Block[s].end \in Nat /\ m_Block[s].next \in Nat
  <2>1. writer[t].pc # "reserve" /\ WritesTo(t, s)
    BY DEF Puts, InHand
  <2> QED BY <2>1, OpenWhenWriting
<1>2. /\ a \in Nat /\ k > 0 /\ Base(s) <= a /\ a < m_Block[s].end /\ m_Block[s].next <= a
      /\ a # m_Block[s].next => Plain(file'[a])
  BY PutWhere
<1>3. p = Base(s) + 1 /\ file[p].end = m_Block[s].end
  BY <1>1, <1>2, Inside DEF Known
<1>4. q \in Nat /\ q \in DOMAIN file /\ file[q].by \in Threads /\ file[q].size \in Nat
  BY Numbers DEF Known
<1>5. Base(s) <= q /\ q < m_Block[s].end
  BY <1>1, <1>3, <1>4
<1>6. file[q].by = s /\ q >= Base(s) + 3
  BY <1>1, <1>5 DEF PlaceInv
<1>7. q < m_Block[s].next
  BY <1>1, <1>4, <1>5, NextInBlock DEF Known
<1>8. a > q
  BY <1>1, <1>2, <1>4, <1>7
<1>9. ASSUME a = q + file[q].size PROVE file'[a].kind = "event"
  <2>1. q + file[q].size <= m_Block[s].next
    BY <1>6 DEF Known, EventsInv
  <2>2. a = m_Block[s].next
    BY <2>1, <1>1, <1>2, <1>4, <1>9
  <2>3. s > 0
    BY <1>4, <1>6, StreamsFacts
  <2>4. m_Block[s].next >= Base(s) + 3
    BY <1>1, <1>4, <1>6, <1>7
  <2>5. cells[1].kind = "event"
    <3>1. k > 0
      BY <1>2
    <3>2. s > 0 /\ m_Block[s].next >= Base(s) + 3 => cells[1].kind = "event"
      <4>1. FirstIs(t, s, cells, k)
        BY <3>1, FirstCell
      <4> QED BY <3>1, <4>1 DEF FirstIs
    <3> QED BY <3>2, <2>3, <2>4
  <2>6. \A i \in 2..Len(cells) : Plain(cells[i])
    BY InHandFacts DEF Puts
  <2>7. file'[m_Block[s].next].kind = cells[1].kind
    BY <2>6, <1>2, WroteShape DEF Puts, Known
  <2> QED BY <2>2, <2>5, <2>7
<1> QED BY <1>3, <1>6, <1>8, <1>9

\* What a block of the file holds stays in order.
LEMMA PutsContent ==
  ASSUME Known, NEW t \in Threads, NEW s \in Streams, NEW cells \in Seq(AnyCell), NEW k \in Nat,
         Puts(t, s, cells, k), \A u \in Threads : HasBlock(u) => ThreadInv(u)
  PROVE  ContentInv'
PROOF
<1>1. /\ Open(s) /\ PlaceInv(s) /\ WritesTo(t, s) /\ writer[t].pc # "reserve"
      /\ Base(s) \in Nat \ {0} /\ m_Block[s].end \in Nat /\ m_Block[s].next \in Nat
  <2>1. writer[t].pc # "reserve" /\ WritesTo(t, s)
    BY DEF Puts, InHand
  <2> QED BY <2>1, OpenWhenWriting
<1>2. /\ DOMAIN file \subseteq DOMAIN file'
      /\ \A o \in DOMAIN file : file'[o] = file[o]
      /\ \A p \in NextOffsets : file'[p] = file[p]
      /\ \A q \in EventOffsets : file'[q] = file[q]
  BY WroteKeeps DEF Puts, Known
<1>3. EventOffsets' \subseteq EventOffsets \cup {m_Block[s].next} /\ EventOffsets \subseteq EventOffsets'
  BY NewEvent
<1>4. \A p \in NextOffsets' : p \in NextOffsets \/ (k > 0 /\ p = Base(s) + 1 /\ p = m_Block[s].next /\ file'[p].end = m_Block[s].end)
  BY PutsNext
<1>5. EventOffsets' # EventOffsets => PutsEvent(t, s, cells, k)
  BY NewEvent
<1> SUFFICES ASSUME NEW p \in NextOffsets', NEW q \in EventOffsets', p < q, q < file'[p].end
             PROVE  ContentOf(p, q)'
  BY DEF ContentInv
<1>6. CASE p \notin NextOffsets
  <2>1. p = Base(s) + 1 /\ p = m_Block[s].next /\ file'[p].end = m_Block[s].end
    BY <1>4, <1>6
  <2>2. q \in EventOffsets /\ q \in Nat /\ q \in DOMAIN file
    <3>1. q # m_Block[s].next
      BY <2>1, <1>1
    <3> QED BY <3>1, <1>3, Numbers DEF Known
  <2>3. Base(s) <= q /\ q < m_Block[s].end
    BY <2>1, <2>2, <1>1
  <2>4. q < m_Block[s].next
    BY <2>2, <2>3, <1>1, NextInBlock DEF Known
  <2> QED BY <2>1, <2>2, <2>4, <1>1
<1>7. CASE p \in NextOffsets /\ q \in EventOffsets
  <2>1. p < q /\ q < file[p].end /\ file'[p] = file[p] /\ file'[q] = file[q]
    BY <1>2, <1>7
  <2>2. ContentOf(p, q)
    BY <2>1, <1>7 DEF Known, ContentInv
  <2>3. p \in Nat /\ q \in Nat /\ file[p].end \in Nat /\ file[q].size \in Nat /\ file[q].size >= 1
    BY <1>7, Numbers DEF Known, EventsInv
  <2>4. \A a \in DOMAIN file' : a \notin DOMAIN file /\ p - 1 <= a /\ a < file[p].end =>
           a > q /\ (a = q + file[q].size => file'[a].kind = "event")
    BY <2>1, <1>7, PutsAfterEvent
  <2>5. q >= p + 2
    BY <2>2 DEF ContentOf
  <2>6. \A a \in {p - 1, p + 1, p + 2} : a \in DOMAIN file' => a \in DOMAIN file /\ file'[a] = file[a]
    <3> SUFFICES ASSUME NEW a \in {p - 1, p + 1, p + 2}, a \in DOMAIN file'
                 PROVE  a \in DOMAIN file /\ file'[a] = file[a]
      OBVIOUS
    <3>1. p - 1 <= a /\ a <= q /\ a < file[p].end
      BY <2>1, <2>3, <2>5
    <3>2. a \in DOMAIN file
      BY <3>1, <2>3, <2>4
    <3> QED BY <3>2, <1>2
  <2>7. p - 1 \in DOMAIN file' /\ file'[p - 1].kind = "type" => file'[p - 1].type = "ThreadEvents"
    BY <2>2, <2>6 DEF ContentOf
  <2>8. p + 1 \in DOMAIN file' => file'[p + 1] = [kind |-> "id", id |-> file'[q].by]
    BY <2>1, <2>2, <2>6 DEF ContentOf
  <2>9. q + file'[q].size < file'[p].end /\ q + file'[q].size \in DOMAIN file' => file'[q + file'[q].size].kind = "event"
    <3> DEFINE a == q + file[q].size
    <3>1. a < file[p].end /\ a \in DOMAIN file => file[a].kind = "event"
      BY <2>2 DEF ContentOf
    <3>2. p - 1 <= a
      BY <2>1, <2>3
    <3> HIDE DEF a
    <3>3. a < file[p].end /\ a \in DOMAIN file' => file'[a].kind = "event"
      <4>1. CASE a \in DOMAIN file
        BY <3>1, <4>1, <1>2
      <4>2. CASE a \notin DOMAIN file
        BY <3>2, <4>2, <2>4 DEF a
      <4> QED BY <4>1, <4>2
    <3>4. a = q + file'[q].size /\ file'[p].end = file[p].end
      BY <2>1 DEF a
    <3> QED BY <3>3, <3>4
  <2>10. q # p + 2 /\ p + 2 \in DOMAIN file' => \E o \in EventOffsets' : p + 2 <= o /\ o + file'[o].size = q
    <3> HAVE q # p + 2 /\ p + 2 \in DOMAIN file'
    <3>1. PICK o \in EventOffsets : p + 2 <= o /\ o + file[o].size = q
      BY <2>2, <2>6 DEF ContentOf
    <3>2. o \in EventOffsets' /\ file'[o] = file[o]
      BY <1>2, <1>3
    <3> QED BY <3>1, <3>2
  <2> QED BY <2>5, <2>7, <2>8, <2>9, <2>10 DEF ContentOf
<1>8. CASE p \in NextOffsets /\ q \notin EventOffsets
  <2>1. q = m_Block[s].next /\ PutsEvent(t, s, cells, k)
    BY <1>3, <1>5, <1>8
  <2>2. /\ k > 0 /\ s = t /\ s > 0
        /\ m_Block[s].next >= Base(s) + 3 /\ m_Block[s].next < m_Block[s].end
        /\ file'[m_Block[s].next].by = t /\ file'[m_Block[s].next].size = Len(cells)
        /\ Len(cells) >= 1 /\ m_Block[s].next + Len(cells) <= m_Block[s].end
        /\ k <= Len(cells)
    BY <2>1 DEF PutsEvent
  <2>3. q \in Nat /\ q >= Base(s) + 3 /\ q < m_Block[s].end /\ file'[q].by = t /\ file'[q].size = Len(cells)
    BY <2>1, <2>2, <1>1
  <2>4. p \in Nat /\ file'[p].end = file[p].end /\ file[p].end \in Nat
    BY <1>2, <1>8, Numbers DEF Known
  <2>5. p = Base(s) + 1 /\ file[p].end = m_Block[s].end
    BY <2>3, <2>4, <1>1, <1>8, Inside DEF Known
  <2>6. \A a \in DOMAIN file' : a < q => a \in DOMAIN file /\ file'[a] = file[a]
    <3> SUFFICES ASSUME NEW a \in DOMAIN file', a < q PROVE a \in DOMAIN file /\ file'[a] = file[a]
      OBVIOUS
    <3>1. a \in DOMAIN file
      BY <2>1, <1>1, PutWhere
    <3> QED BY <3>1, <1>2
  <2>7. HasBlock(t) /\ ThreadInv(t)
    BY <2>2, <1>1 DEF Open
  <2>8. q >= p + 2
    BY <2>3, <2>5, <1>1
  <2>9. p - 1 \in DOMAIN file' /\ file'[p - 1].kind = "type" => file'[p - 1].type = "ThreadEvents"
    <3>1. p - 1 = Base(t) /\ p - 1 < q
      BY <2>2, <2>3, <2>5, <1>1
    <3> QED BY <3>1, <2>6, <2>7 DEF ThreadInv
  <2>10. p + 1 \in DOMAIN file' => file'[p + 1] = [kind |-> "id", id |-> file'[q].by]
    <3>1. p + 1 = Base(t) + 2 /\ p + 1 < q
      BY <2>2, <2>3, <2>5, <1>1
    <3> QED BY <3>1, <2>3, <2>6, <2>7 DEF ThreadInv
  <2>11. ~(q + file'[q].size < file'[p].end /\ q + file'[q].size \in DOMAIN file')
    <3> SUFFICES ASSUME q + file'[q].size < file'[p].end, q + file'[q].size \in DOMAIN file' PROVE FALSE
      OBVIOUS
    <3>1. PICK a \in Nat : a = q + Len(cells)
      BY <2>3
    <3>2. a \in DOMAIN file' /\ a < m_Block[s].end /\ a > q
      BY <3>1, <2>2, <2>3, <2>4, <2>5
    <3>3. a \in DOMAIN file
      <4>1. CASE a \in Here(s, k)
        <5>1. a <= m_Block[s].next + k - 1
          BY <4>1 DEF Here
        <5>2. Len(cells) \in Nat
          OBVIOUS
        <5> QED BY <5>1, <5>2, <3>1, <2>1, <2>2, <1>1
      <4>2. CASE a \notin Here(s, k)
        BY <4>2, <3>2 DEF Puts, Wrote
      <4> QED BY <4>1, <4>2
    <3>4. a < m_Block[s].next
      BY <3>2, <3>3, <2>3, <1>1, NextInBlock DEF Known
    <3> QED BY <3>2, <3>4, <2>1, <1>1
  <2>12. q # p + 2 /\ p + 2 \in DOMAIN file' => \E o \in EventOffsets' : p + 2 <= o /\ o + file'[o].size = q
    <3> HAVE q # p + 2 /\ p + 2 \in DOMAIN file'
    <3>1. p + 2 = Base(t) + 3 /\ p + 2 < q
      BY <2>2, <2>3, <2>5, <2>8, <1>1
    <3>2. Base(t) + 3 \in DOMAIN file
      BY <3>1, <2>6
    <3>3. writer[t].pc = "item"
      <4>1. writer[t].pc = "item" \/ writer[t].pc \in {"type", "next", "id"}
        BY DEF Puts, InHand
      <4>2. writer[t].pc \in {"type", "next", "id"} => m_Block[s].next < Base(s) + 3
        <5>1. /\ writer[t].pc = "type" => m_Block[s].next = Base(s)
              /\ writer[t].pc = "next" => m_Block[s].next = Base(s) + 1
              /\ writer[t].pc = "id" => m_Block[s].next = Base(s) + 2
          BY InHandFacts DEF Puts
        <5> QED BY <5>1, <1>1
      <4> QED BY <4>1, <4>2, <2>2, <1>1
    <3>4. PICK o \in EventOffsets : Base(t) + 3 <= o /\ o + file[o].size = m_Block[t].next
      BY <3>2, <3>3, <2>7 DEF ThreadInv
    <3>5. o \in EventOffsets' /\ file'[o] = file[o]
      BY <1>2, <1>3
    <3> QED BY <3>1, <3>4, <3>5, <2>1, <2>2
  <2> QED BY <2>8, <2>9, <2>10, <2>11, <2>12 DEF ContentOf
<1> QED BY <1>6, <1>7, <1>8

-----------------------------------------------------------------------------
\* The kinds of the cells and what they tell of records stay as they are.
Alike ==
  /\ DOMAIN file' = DOMAIN file /\ m_Block' = m_Block /\ m_TraceOffset' = m_TraceOffset
  /\ \A o \in DOMAIN file :
       \/ file'[o] = file[o]
       \/ /\ file[o].kind = "event" /\ file'[o].kind = "event"
          /\ file'[o].by = file[o].by /\ file'[o].size = file[o].size

\* The order of blocks and events does not depend on what a record contains.
LEMMA AlikeFile ==
  ASSUME Known, Alike
  PROVE  /\ EventOffsets' = EventOffsets /\ NextOffsets' = NextOffsets
         /\ \A q \in EventOffsets : file'[q].by = file[q].by /\ file'[q].size = file[q].size
         /\ \A p \in NextOffsets : file'[p] = file[p]
         /\ NextInv' /\ EventsInv' /\ ContentInv'
PROOF
<1>1. \A o \in DOMAIN file : /\ file'[o].kind = file[o].kind
                             /\ file[o].kind # "event" => file'[o] = file[o]
  BY DEF Alike
<1>2. EventOffsets' = EventOffsets /\ NextOffsets' = NextOffsets
  BY <1>1 DEF Alike, EventOffsets, NextOffsets
<1>3. \A q \in EventOffsets : file'[q].by = file[q].by /\ file'[q].size = file[q].size
  BY DEF Alike, EventOffsets
<1>4. \A p \in NextOffsets : file'[p] = file[p]
  BY <1>1 DEF NextOffsets
<1>5. m_Block' = m_Block /\ m_TraceOffset' = m_TraceOffset /\ DOMAIN file' = DOMAIN file
  BY DEF Alike
<1>6. NextInv'
  BY <1>2, <1>4, <1>5 DEF Known, NextInv, Outside
<1>7. EventsInv'
  <2> SUFFICES ASSUME NEW q \in EventOffsets
               PROVE  /\ q >= 3
                      /\ file'[q].size >= 1 /\ m_Block[file'[q].by].end > 0 /\ q + file'[q].size <= m_Block[file'[q].by].next
                      /\ q + file'[q].size <= m_TraceOffset
                      /\ \A p \in NextOffsets : Away(q, file'[p].end)
                      /\ \A s \in Streams : Away(q, m_Block[s].end)
                      /\ \A o \in EventOffsets : o < q /\ file'[o].by = file'[q].by => o + file'[o].size <= q
    BY <1>2, <1>5 DEF EventsInv, HasBlock
  <2>1. /\ q >= 3
        /\ file[q].size >= 1 /\ m_Block[file[q].by].end > 0 /\ q + file[q].size <= m_Block[file[q].by].next
        /\ q + file[q].size <= m_TraceOffset
        /\ \A p \in NextOffsets : Away(q, file[p].end)
        /\ \A s \in Streams : Away(q, m_Block[s].end)
        /\ \A o \in EventOffsets : o < q /\ file[o].by = file[q].by => o + file[o].size <= q
    BY DEF Known, EventsInv, HasBlock
  <2>2. \A o \in EventOffsets : o < q /\ file'[o].by = file'[q].by => o + file'[o].size <= q
    BY <2>1, <1>3
  <2> QED BY <2>1, <2>2, <1>3, <1>4
<1>8. ContentInv'
  <2> SUFFICES ASSUME NEW p \in NextOffsets, NEW q \in EventOffsets, p < q, q < file[p].end
               PROVE  ContentOf(p, q)'
    BY <1>2, <1>4 DEF ContentInv
  <2>1. ContentOf(p, q)
    BY DEF Known, ContentInv
  <2>2. p - 1 \in DOMAIN file /\ file'[p - 1].kind = "type" => file'[p - 1].type = "ThreadEvents"
    BY <2>1, <1>1 DEF ContentOf
  <2>3. p + 1 \in DOMAIN file => file'[p + 1] = [kind |-> "id", id |-> file'[q].by]
    BY <2>1, <1>1, <1>3 DEF ContentOf
  <2>4. q + file[q].size < file[p].end /\ q + file[q].size \in DOMAIN file => file'[q + file[q].size].kind = "event"
    BY <2>1, <1>1 DEF ContentOf
  <2>5. q # p + 2 /\ p + 2 \in DOMAIN file =>
           \E o \in EventOffsets : p + 2 <= o /\ o + file'[o].size = q
    BY <2>1, <1>3 DEF ContentOf
  <2>6. file'[p].end = file[p].end /\ file'[q].size = file[q].size /\ q >= p + 2
    BY <2>1, <1>3, <1>4 DEF ContentOf
  <2> QED BY <2>2, <2>3, <2>4, <2>5, <2>6, <1>2, <1>5 DEF ContentOf
<1> QED BY <1>2, <1>3, <1>4, <1>6, <1>7, <1>8

\* Blocks that were open stay where they are if the file stays alike.
LEMMA AlikePlace ==
  ASSUME Known, Alike, NEW u \in Streams, Open(u), Base(u)' = Base(u)
  PROVE  PlaceInv(u)'
PROOF
<1>1. PlaceInv(u)
  BY DEF Known, BlocksInv
<1>2. /\ EventOffsets' = EventOffsets /\ NextOffsets' = NextOffsets
      /\ \A q \in EventOffsets : file'[q].by = file[q].by /\ file'[q].size = file[q].size
      /\ \A p \in NextOffsets : file'[p] = file[p]
      /\ m_Block' = m_Block
  BY AlikeFile DEF Alike
<1>3. Outside(Base(u), m_Block[u].end)'
  BY <1>1, <1>2 DEF PlaceInv, Outside
<1> QED BY <1>1, <1>2, <1>3 DEF PlaceInv

\* So do the blocks of threads whose writers do not change.
LEMMA AlikeThread ==
  ASSUME Known, Alike, NEW u \in Threads, HasBlock(u),
         WritesTo(u, u)' /\ writer'[u].pc = "item" /\ writer'[u].again => WritesTo(u, u) /\ writer[u].pc = "item" /\ writer[u].again,
         WritesTo(u, u) /\ writer[u].pc # "item" => WritesTo(u, u)' /\ writer'[u].pc # "item"
  PROVE  ThreadInv(u)'
PROOF
<1>1. ThreadInv(u)
  BY DEF Known, BlocksInv
<1>2. u \in Nat /\ ~(u < 0) /\ u \in Streams
  BY StreamsFacts
<1>3. /\ m_Block' = m_Block /\ Base(u)' = Base(u) /\ DOMAIN file' = DOMAIN file
      /\ EventOffsets' = EventOffsets
      /\ \A q \in EventOffsets : file'[q].size = file[q].size
      /\ \A o \in DOMAIN file : file'[o].kind = file[o].kind /\ (file[o].kind # "event" => file'[o] = file[o])
  BY <1>2, AlikeFile DEF Alike, Base
<1>4. Base(u) \in DOMAIN file /\ file'[Base(u)].kind = "type" => file'[Base(u)].type = "ThreadEvents"
  BY <1>1, <1>3 DEF ThreadInv
<1>5. Base(u) + 2 \in DOMAIN file => file'[Base(u) + 2] = [kind |-> "id", id |-> u]
  BY <1>1, <1>3 DEF ThreadInv
<1>6. WritesTo(u, u)' /\ writer'[u].pc = "item" /\ writer'[u].again => m_Block[u].next = Base(u) + 3
  BY <1>1 DEF ThreadInv
<1>7. Base(u) + 3 \in DOMAIN file /\ ~(WritesTo(u, u)' /\ writer'[u].pc # "item") =>
         \E o \in EventOffsets : Base(u) + 3 <= o /\ o + file'[o].size = m_Block[u].next
  <2> HAVE Base(u) + 3 \in DOMAIN file /\ ~(WritesTo(u, u)' /\ writer'[u].pc # "item")
  <2>1. PICK o \in EventOffsets : Base(u) + 3 <= o /\ o + file[o].size = m_Block[u].next
    BY <1>1 DEF ThreadInv
  <2> QED BY <2>1, <1>3
<1> QED BY <1>3, <1>4, <1>5, <1>6, <1>7 DEF ThreadInv

-----------------------------------------------------------------------------
\* A step that leaves the writers leaves the blocks as they are, too.
LEMMA QuietBlocks ==
  ASSUME Known, Alike, writer' = writer, PreviousEventSize' = PreviousEventSize
  PROVE  HandsInv' /\ BlocksInv'
PROOF
<1>1. m_Block' = m_Block
  BY DEF Alike
<1>2. HandsInv'
  BY <1>1 DEF Known, HandsInv, WritesTo, EventHand, DataHand, HasBlock
<1>3. \A u \in Streams : Base(u)' = Base(u) /\ (Open(u)' <=> Open(u)) /\ (HeaderInv(u)' <=> HeaderInv(u))
  BY <1>1 DEF Base, Open, HasBlock, WritesTo, HeaderInv
<1>4. \A u \in Streams : Open(u)' => PlaceInv(u)' /\ HeaderInv(u)'
  BY <1>3, AlikePlace DEF Known, BlocksInv
<1>5. \A u \in Threads : HasBlock(u)' => ThreadInv(u)'
  BY <1>1, AlikeThread DEF WritesTo, HasBlock
<1>6. \A s, u \in Streams : HasBlock(s)' /\ s # u => m_Block'[s].end # m_Block'[u].end
  BY <1>1 DEF Known, BlocksInv, HasBlock
<1> QED BY <1>2, <1>4, <1>5, <1>6 DEF BlocksInv, HasBlock

\* The start of a write to a stream that no other thread writes to.
LEMMA StartBlocks ==
  ASSUME Known, Alike, PreviousEventSize' = PreviousEventSize,
         NEW t \in Threads, writer[t].pc = "idle", NEW s \in Streams, NEW type, NEW item,
         Start(t, s, type, item), s \in {ProcessData, t, -t},
         EventHand(t, writer'[t]) \/ DataHand(t, writer'[t]),
         s = ProcessData => \A u \in Threads : ~WritesTo(u, ProcessData)
  PROVE  HandsInv' /\ BlocksInv'
PROOF
<1>1. m_Block' = m_Block /\ \A u \in Streams : HasBlock(u)' <=> HasBlock(u)
  BY DEF Alike, HasBlock
<1>2. /\ \A v \in Threads : v # t => writer'[v] = writer[v]
      /\ writer'[t] = [pc |-> IF s >= 0 /\ HasBlock(s) THEN "item" ELSE "reserve",
                       stream |-> s, type |-> type, again |-> FALSE, item |-> item]
  BY DEF Start, Known, WriterInv
<1>3. /\ writer'[t].stream = s /\ writer'[t].again = FALSE /\ writer'[t].pc \in {"item", "reserve"}
      /\ writer'[t].pc = "item" => s >= 0 /\ HasBlock(s)
      /\ s >= 0 /\ HasBlock(s) => writer'[t].pc = "item"
  BY <1>2
<1>4. t \in Nat \ {0} /\ s \in Int /\ (s < 0 => s = -t /\ -s = t) /\ (s > 0 => s = t)
  BY StreamsFacts DEF ProcessData
<1>5. /\ \A v \in Threads : \A u \in Streams : v # t => (WritesTo(v, u)' <=> WritesTo(v, u))
      /\ \A u \in Streams : ~WritesTo(t, u)
      /\ \A u \in Streams : WritesTo(t, u)' <=> u = s
  <2>1. \A u \in Streams : WritesTo(t, u)' <=> u = s
    BY <1>3 DEF WritesTo
  <2> QED BY <2>1, <1>2 DEF WritesTo
<1>6. \A v \in Threads : ~WritesTo(v, s)
  <2> SUFFICES ASSUME NEW v \in Threads, WritesTo(v, s) PROVE FALSE
    OBVIOUS
  <2>1. v # t
    BY DEF WritesTo
  <2>2. s # ProcessData
    OBVIOUS
  <2>3. s \in {v, -v}
    BY <2>2 DEF Known, HandsInv, WritesTo, EventHand, DataHand, ProcessData
  <2>4. v \in Nat \ {0}
    BY StreamsFacts
  <2> QED BY <2>1, <2>2, <2>3, <2>4, <1>4 DEF ProcessData
<1>7. HandsInv'
  <2>1. ASSUME NEW v \in Threads, writer'[v].pc # "idle"
        PROVE  /\ EventHand(v, writer[v])' \/ DataHand(v, writer[v])'
               /\ writer'[v].pc # "reserve" => HasBlock(writer[v].stream)'
    <3>1. CASE v = t
      <4>1. EventHand(t, writer[t])' \/ DataHand(t, writer[t])'
        BY DEF EventHand, DataHand
      <4>2. writer'[t].pc # "reserve" => HasBlock(writer[t].stream)'
        BY <1>1, <1>3 DEF HasBlock
      <4> QED BY <3>1, <4>1, <4>2
    <3>2. CASE v # t
      BY <2>1, <3>2, <1>1, <1>2 DEF Known, HandsInv, EventHand, DataHand, HasBlock
    <3> QED BY <3>1, <3>2
  <2>2. \A v, u \in Threads : WritesTo(v, ProcessData)' /\ WritesTo(u, ProcessData)' => v = u
    BY <1>5, StreamsFacts DEF Known, HandsInv
  <2> QED BY <2>1, <2>2 DEF HandsInv
<1>8. ASSUME NEW u \in Streams, Open(u)' PROVE Open(u) /\ Base(u)' = Base(u)
  <2>1. HasBlock(u)
    BY <1>1, <1>8 DEF Open
  <2>2. CASE u >= 0
    <3>0. u \in Int
      BY StreamsFacts
    <3>1. ~(u < 0)
      BY <2>2, <3>0
    <3> QED BY <3>1, <2>1, <1>1 DEF Open, Base
  <2>3. CASE u < 0
    <3>1. -u \in Threads /\ u = -(-u)
      BY <2>3, ConstantsAssumption DEF Streams, Threads, ConstantsAssumption
    <3>2. WritesTo(-u, u)' /\ writer'[-u].pc # "reserve"
      BY <1>8, <2>3 DEF Open
    <3>3. -u # t
      <4> SUFFICES ASSUME -u = t PROVE FALSE
        OBVIOUS
      <4>1. u = s
        BY <3>2, <1>5
      <4> QED BY <4>1, <3>2, <2>3, <1>3, <1>4
    <3>4. WritesTo(-u, u) /\ writer[-u] = writer'[-u]
      BY <3>1, <3>2, <3>3, <1>2, <1>5
    <3> QED BY <2>1, <2>3, <3>2, <3>4, <1>1 DEF Open, Base
  <2> QED BY <2>2, <2>3, StreamsFacts
<1>9. ASSUME NEW u \in Streams, Open(u)' PROVE HeaderInv(u)'
  <2>1. HeaderInv(u) /\ Base(u)' = Base(u)
    BY <1>8, <1>9 DEF Known, BlocksInv
  <2>2. CASE u # s
    <3>1. \A v \in Threads : WritesTo(v, u)' <=> WritesTo(v, u)
      BY <1>5, <2>2
    <3>2. \A v \in Threads : WritesTo(v, u)' => writer'[v] = writer[v]
      BY <1>2, <1>5, <2>2
    <3>3. \A v \in Threads : WritesTo(v, u)' =>
            /\ writer'[v].pc = "type" => m_Block[u].next = Base(u)
            /\ writer'[v].pc = "next" => m_Block[u].next = Base(u) + 1
            /\ writer'[v].pc = "id" => m_Block[u].next = Base(u) + 2
      BY <2>1, <3>1, <3>2 DEF HeaderInv
    <3>4. \/ \E v \in Threads : WritesTo(v, u)' /\ writer'[v].pc \in {"type", "next", "id"}
          \/ m_Block[u].next >= Base(u) + HeaderSize + (IF u > 0 THEN IDSize ELSE 0)
      BY <2>1, <3>1, <3>2 DEF HeaderInv
    <3> QED BY <2>1, <3>3, <3>4, <1>1 DEF HeaderInv
  <2>3. CASE u = s
    <3>1. m_Block[s].next >= Base(s) + HeaderSize + (IF s > 0 THEN IDSize ELSE 0)
      BY <2>1, <2>3, <1>6 DEF HeaderInv
    <3>2. \A v \in Threads : WritesTo(v, s)' => v = t
      BY <1>5, <1>6
    <3>3. writer'[t].pc \notin {"type", "next", "id"}
      BY <1>3
    <3> QED BY <2>1, <2>3, <3>1, <3>2, <3>3, <1>1 DEF HeaderInv
  <2> QED BY <2>2, <2>3
<1>10. \A u \in Streams : Open(u)' => PlaceInv(u)' /\ HeaderInv(u)'
  BY <1>8, <1>9, AlikePlace
<1>11. ASSUME NEW u \in Threads, HasBlock(u)' PROVE ThreadInv(u)'
  <2>0. u \in Streams /\ HasBlock(u)
    BY <1>1, <1>11, StreamsFacts
  <2>1. CASE u # t
    <3>1. writer'[u] = writer[u] /\ (WritesTo(u, u)' <=> WritesTo(u, u))
      BY <2>0, <2>1, <1>2, <1>5
    <3> QED BY <2>0, <3>1, AlikeThread
  <2>2. CASE u = t
    <3>1. ~WritesTo(u, u) /\ writer'[u].again = FALSE
      BY <2>0, <2>2, <1>3, <1>5
    <3> QED BY <2>0, <3>1, AlikeThread
  <2> QED BY <2>1, <2>2
<1>12. \A v, u \in Streams : HasBlock(v)' /\ v # u => m_Block'[v].end # m_Block'[u].end
  BY <1>1 DEF Known, BlocksInv
<1> QED BY <1>7, <1>10, <1>11, <1>12 DEF BlocksInv

\* What a reader relies on.
ReadInv == /\ HandsInv /\ BlocksInv /\ NextInv /\ EventsInv /\ ContentInv /\ LogOrder
           /\ 0 \in DOMAIN file

\* The log stays as ordered as it is if all new records are torn.
LEMMA LogOrderKept ==
  ASSUME LogOrder, log' = log, PreviousEventSize' = PreviousEventSize,
         \A q \in EventOffsets' : \/ q \in EventOffsets /\ file'[q] = file[q]
                                  \/ file'[q].torn = TRUE
  PROVE  LogOrder'
PROOF
<1>1. ASSUME NEW t \in Threads, NEW q \in EventOffsets', file'[q].by = t, ~file'[q].torn
      PROVE  \E i \in DOMAIN log[t] : log[t][i].offset = q
  <2>1. q \in EventOffsets /\ file'[q] = file[q]
    BY <1>1
  <2> QED BY <2>1, <1>1 DEF LogOrder
<1> QED BY <1>1 DEF LogOrder

\* The items that threads start to write.
LEMMA EventIsHand ==
  ASSUME NEW t \in Threads, NEW n \in Nat, NEW size \in EventSizes, NEW w,
         w.stream = t, w.type = "ThreadEvents", w.item = Event(t, n, size, PreviousEventSize[t])
  PROVE  EventHand(t, w)
PROOF
<1>1. size \in Nat \ {0} /\ size + HeaderSize + IDSize <= BlockSize
  BY ConstantsAssumption DEF ConstantsAssumption
<1>2. Len(w.item) = size
  BY <1>1 DEF Event
<1>3. w.item[1] = [kind |-> "event", by |-> t, n |-> n, size |-> size, prev |-> PreviousEventSize[t],
                   version |-> 0, torn |-> FALSE]
  BY <1>1 DEF Event
<1>4. \A i \in 2..size : w.item[i] = [kind |-> "rest", by |-> t, n |-> n]
  BY <1>1 DEF Event
<1>5. \A i \in 2..size : Plain(w.item[i])
  BY <1>4 DEF Plain
<1> QED BY <1>1, <1>2, <1>3, <1>5 DEF EventHand

\* The cells of data are what a thread may write.
LEMMA PieceIsHand ==
  ASSUME NEW t \in Threads, NEW kind \in {"bitcode", "process", "data"}, NEW n \in Nat,
         NEW size \in Nat, NEW w, w.stream \in {ProcessData, -t}, w.type # "ThreadEvents",
         w.pc # "id", w.item = Piece(kind, n, size),
         w.stream = ProcessData => w.type = "ProcessData" /\ size + HeaderSize <= BlockSize
  PROVE  DataHand(t, w)
PROOF
<1>1. Len(w.item) = size
  BY DEF Piece
<1>2. \A j \in 1..size : w.item[j] = [kind |-> kind, n |-> n, i |-> j]
  BY DEF Piece
<1>3. ASSUME NEW j \in 1..size PROVE Plain(w.item[j])
  <2>1. PICK c : c = [kind |-> kind, n |-> n, i |-> j]
    OBVIOUS
  <2>2. c.kind = kind
    BY <2>1
  <2>3. w.item[j] = c
    BY <1>2, <2>1, Zenon
  <2> QED BY <2>2, <2>3 DEF Plain
<1> QED BY <1>1, <1>3 DEF DataHand

\* Steps that leave the file, the blocks and the log.
LEMMA StillFile ==
  ASSUME Known, LogOrder, 0 \in DOMAIN file,
         UNCHANGED <<file, m_Block, m_TraceOffset, log, PreviousEventSize>>
  PROVE  Alike /\ NextInv' /\ EventsInv' /\ ContentInv' /\ LogOrder' /\ 0 \in DOMAIN file'
PROOF
<1>1. Alike
  BY DEF Alike
<1>2. LogOrder'
  BY DEF LogOrder, EventOffsets
<1> QED BY <1>1, <1>2, AlikeFile

\* Starting a write changes neither the file nor the blocks.
LEMMA StartRead ==
  ASSUME FileInv, WriterInv, LogInv, OtherTypes, ReadInv, NEW t \in Threads,
         \/ t = Main /\ (writeModule \/ traceWriteProcessData)
         \/ \E size \in EventSizes : write(t, size)
         \/ \E size \in DataSizes : recordData(t, size)
  PROVE  ReadInv'
PROOF
<1>0. Known /\ LogOrder /\ 0 \in DOMAIN file
  BY DEF ReadInv, Known
<1>1. UNCHANGED <<file, m_Block, m_TraceOffset, log, PreviousEventSize>>
  BY DEF writeModule, traceWriteProcessData, write, recordData
<1>2. Alike /\ NextInv' /\ EventsInv' /\ ContentInv' /\ LogOrder' /\ 0 \in DOMAIN file'
  BY <1>0, <1>1, StillFile
<1>3. t \in Streams /\ -t \in Streams /\ ProcessData \in Streams /\ t \in Nat \ {0} /\ -t # ProcessData
  BY StreamsFacts DEF ProcessData
<1>4. ASSUME NEW s \in Streams, NEW type, NEW item, Start(t, s, type, item)
      PROVE  writer'[t].stream = s /\ writer'[t].type = type /\ writer'[t].item = item /\ writer'[t].pc # "id"
  BY <1>4 DEF Start, WriterInv
<1>5. CASE t = Main /\ (writeModule \/ traceWriteProcessData)
  <2>1. PICK type \in {"ModuleBitcode", "ProcessTrace"}, kind \in {"bitcode", "process"} :
          Start(t, -t, type, Piece(kind, 1, 1))
    BY <1>5 DEF writeModule, traceWriteProcessData
  <2>2. DataHand(t, writer'[t])
    <3>1. /\ writer'[t].stream = -t /\ writer'[t].type = type
          /\ writer'[t].item = Piece(kind, 1, 1) /\ writer'[t].pc # "id"
      BY <2>1, <1>3, <1>4
    <3>2. type # "ThreadEvents" /\ kind \in {"bitcode", "process", "data"} /\ 1 \in Nat
      OBVIOUS
    <3> QED BY <3>1, <3>2, <1>3, PieceIsHand
  <2>3. writer[t].pc = "idle"
    BY <1>5 DEF writeModule, traceWriteProcessData
  <2>4. HandsInv' /\ BlocksInv'
    BY <2>1, <2>2, <2>3, <1>0, <1>1, <1>2, <1>3, StartBlocks
  <2> QED BY <2>4, <1>2 DEF ReadInv
<1>6. CASE \E size \in EventSizes : write(t, size)
  <2>1. PICK size \in EventSizes : write(t, size)
    BY <1>6
  <2>2. PICK n \in Nat : n = tried[t] + 1
    BY DEF OtherTypes
  <2>3. Start(t, t, "ThreadEvents", Event(t, n, size, PreviousEventSize[t])) /\ writer[t].pc = "idle"
    BY <2>1, <2>2 DEF write, Running
  <2>4. EventHand(t, writer'[t])
    BY <2>3, <1>3, <1>4, EventIsHand
  <2>5. HandsInv' /\ BlocksInv'
    BY <2>3, <2>4, <1>0, <1>1, <1>2, <1>3, StartBlocks DEF ProcessData
  <2> QED BY <2>5, <1>2 DEF ReadInv
<1>7. CASE \E size \in DataSizes : recordData(t, size)
  <2>1. PICK size \in DataSizes : recordData(t, size)
    BY <1>7
  <2>2. PICK n \in Nat : n = Len(refs) + 1
    BY DEF OtherTypes
  <2>3. PICK s \in Streams : s = IF size < SingleBlockThreshold THEN ProcessData ELSE -t
    BY <1>3
  <2>4. Start(t, s, "ProcessData", Piece("data", n, size)) /\ writer[t].pc = "idle" /\ DataFree
    BY <2>1, <2>2, <2>3 DEF recordData, Running
  <2>5. size \in Nat /\ s \in {ProcessData, -t} /\ (s = ProcessData => size + HeaderSize <= BlockSize)
    BY <2>3, <1>3, ConstantsAssumption DEF ConstantsAssumption
  <2>6. DataHand(t, writer'[t])
    BY <2>4, <2>5, <1>4, PieceIsHand
  <2>7. \A u \in Threads : ~WritesTo(u, ProcessData)
    <3> SUFFICES ASSUME NEW u \in Threads, WritesTo(u, ProcessData) PROVE FALSE
      OBVIOUS
    <3>1. u # ProcessData
      BY StreamsFacts DEF ProcessData
    <3>2. writer[u].type # "ProcessData" /\ writer[u].stream = ProcessData /\ writer[u].pc # "idle"
      BY <2>4 DEF DataFree, WritesTo
    <3>3. EventHand(u, writer[u]) \/ DataHand(u, writer[u])
      BY <3>2 DEF ReadInv, HandsInv
    <3> QED BY <3>1, <3>2, <3>3 DEF EventHand, DataHand
  <2>8. HandsInv' /\ BlocksInv'
    BY <2>4, <2>5, <2>6, <2>7, <1>0, <1>1, <1>2, StartBlocks
  <2> QED BY <2>8, <1>2 DEF ReadInv
<1> QED BY <1>5, <1>6, <1>7

\* Tracing is stopped, or nothing happens.
LEMMA QuietRead ==
  ASSUME FileInv, WriterInv, ReadInv,
         UNCHANGED <<file, m_Block, m_TraceOffset, writer, log, PreviousEventSize>>
  PROVE  ReadInv'
PROOF
<1>1. Known /\ LogOrder /\ 0 \in DOMAIN file
  BY DEF ReadInv, Known
<1>2. Alike /\ NextInv' /\ EventsInv' /\ ContentInv' /\ LogOrder' /\ 0 \in DOMAIN file'
  BY <1>1, StillFile
<1> QED BY <1>1, <1>2, QuietBlocks DEF ReadInv

\* A record that is written again stays where it is.
LEMMA RewriteRead ==
  ASSUME FileInv, WriterInv, LogInv, ReadInv, NEW t \in Threads, NEW i \in DOMAIN log[t], rewrite(t, i)
  PROVE  ReadInv'
PROOF
<1> DEFINE r == log[t][i]
           e == [r.event EXCEPT !.version = 1]
<1>0. Known /\ LogOrder /\ 0 \in DOMAIN file
  BY DEF ReadInv, Known
<1>1. /\ file' = [file EXCEPT ![r.offset] = e]
      /\ log' = [log EXCEPT ![t][i].event.version = 1]
      /\ UNCHANGED <<m_TraceOffset, m_Block, writer, PreviousEventSize>>
  BY DEF rewrite
<1>2. r.event \in EventCell /\ r.offset \in DOMAIN file /\ file[r.offset] = r.event
  <2>1. log[t] \in Seq([offset : Nat, event : EventCell])
    BY DEF LogInv
  <2>2. i \in 1..Len(log[t])
    BY <2>1, LenProperties
  <2>3. r \in [offset : Nat, event : EventCell]
    BY <2>1, <2>2, ElementOfSeq
  <2> QED BY <2>3 DEF LogInv
<1>3. /\ e.kind = "event" /\ e.by = r.event.by /\ e.size = r.event.size /\ e.prev = r.event.prev
      /\ e.torn = r.event.torn /\ r.event.kind = "event" /\ e \in EventCell
  BY <1>2 DEF EventCell
<1>4. DOMAIN file' = DOMAIN file /\ file'[r.offset] = e /\ \A o \in DOMAIN file : o # r.offset => file'[o] = file[o]
  BY <1>1, <1>2
<1> HIDE DEF e
<1>5. Alike
  BY <1>1, <1>2, <1>3, <1>4 DEF Alike
<1>6. NextInv' /\ EventsInv' /\ ContentInv' /\ EventOffsets' = EventOffsets
  BY <1>0, <1>5, AlikeFile
<1>7. HandsInv' /\ BlocksInv'
  BY <1>0, <1>1, <1>5, QuietBlocks
<1>8. \A u \in Threads : /\ DOMAIN log'[u] = DOMAIN log[u] /\ Len(log'[u]) = Len(log[u])
                         /\ (log'[u] = <<>> <=> log[u] = <<>>)
                         /\ \A j \in DOMAIN log[u] : /\ log'[u][j].offset = log[u][j].offset
                                                     /\ log'[u][j].event.by = log[u][j].event.by
                                                     /\ log'[u][j].event.torn = log[u][j].event.torn
                                                     /\ log'[u][j].event.prev = log[u][j].event.prev
                                                     /\ log'[u][j].event.size = log[u][j].event.size
  <2> DEFINE x == [log[t] EXCEPT ![i] = [r EXCEPT !.event = [r.event EXCEPT !.version = 1]]]
  <2>1. log \in [Threads -> Seq([offset : Nat, event : EventCell])]
    BY DEF LogInv
  <2>2. log' = [log EXCEPT ![t] = x]
    BY DEF rewrite
  <2>3. log[t] \in Seq([offset : Nat, event : EventCell]) /\ r \in [offset : Nat, event : EventCell]
    <3>1. log[t] \in Seq([offset : Nat, event : EventCell])
      BY <2>1
    <3>2. i \in 1..Len(log[t])
      BY <3>1, LenProperties
    <3> QED BY <3>1, <3>2, ElementOfSeq
  <2>4. [r EXCEPT !.event = [r.event EXCEPT !.version = 1]].event = e /\ [r EXCEPT !.event = [r.event EXCEPT !.version = 1]].offset = r.offset
        /\ [r EXCEPT !.event = [r.event EXCEPT !.version = 1]] \in [offset : Nat, event : EventCell]
    BY <2>3, <1>3 DEF e
  <2>5. DOMAIN x = DOMAIN log[t] /\ (\A j \in DOMAIN log[t] : j # i => x[j] = log[t][j])
        /\ x[i].event = e /\ x[i].offset = r.offset /\ Len(x) = Len(log[t]) /\ (x = <<>> <=> log[t] = <<>>)
    BY <2>3, <2>4
  <2> HIDE DEF x
  <2>6. log'[t] = x /\ \A u \in Threads : u # t => log'[u] = log[u]
    BY <2>1, <2>2
  <2>7. \A j \in DOMAIN log[t] : /\ x[j].offset = log[t][j].offset
                                 /\ x[j].event.by = log[t][j].event.by
                                 /\ x[j].event.torn = log[t][j].event.torn
                                 /\ x[j].event.prev = log[t][j].event.prev
                                 /\ x[j].event.size = log[t][j].event.size
    BY <2>5, <1>3
  <2> QED BY <2>5, <2>6, <2>7
<1>9. \A q \in EventOffsets : file'[q].by = file[q].by /\ file'[q].torn = file[q].torn
  BY <1>2, <1>3, <1>4 DEF EventOffsets
<1>10. LogOrder'
  <2> SUFFICES ASSUME NEW u \in Threads
               PROVE  /\ \A j, l \in DOMAIN log'[u] : j < l => log'[u][j].offset < log'[u][l].offset
                      /\ \A j \in DOMAIN log'[u] :
                           /\ log'[u][j].event.by = u /\ ~log'[u][j].event.torn
                           /\ log'[u][j].event.prev = IF j = 1 THEN 0 ELSE log'[u][j - 1].event.size
                      /\ PreviousEventSize[u] = IF log'[u] = <<>> THEN 0 ELSE log'[u][Len(log'[u])].event.size
                      /\ \A q \in EventOffsets : file'[q].by = u /\ ~file'[q].torn => \E j \in DOMAIN log'[u] : log'[u][j].offset = q
    BY <1>1, <1>6 DEF LogOrder
  <2>1. /\ \A j, l \in DOMAIN log[u] : j < l => log[u][j].offset < log[u][l].offset
        /\ \A j \in DOMAIN log[u] :
             /\ log[u][j].event.by = u /\ ~log[u][j].event.torn
             /\ log[u][j].event.prev = IF j = 1 THEN 0 ELSE log[u][j - 1].event.size
        /\ PreviousEventSize[u] = IF log[u] = <<>> THEN 0 ELSE log[u][Len(log[u])].event.size
        /\ \A q \in EventOffsets : file[q].by = u /\ ~file[q].torn => \E j \in DOMAIN log[u] : log[u][j].offset = q
    BY DEF ReadInv, LogOrder
  <2>2. /\ DOMAIN log[u] = 1..Len(log[u]) /\ Len(log[u]) \in Nat /\ (log[u] = <<>> <=> Len(log[u]) = 0)
    BY DEF LogInv
  <2>3. \A j \in DOMAIN log'[u] : /\ j \in DOMAIN log[u]
                                  /\ log'[u][j].offset = log[u][j].offset
                                  /\ log'[u][j].event.by = log[u][j].event.by
                                  /\ log'[u][j].event.torn = log[u][j].event.torn
                                  /\ log'[u][j].event.prev = log[u][j].event.prev
                                  /\ log'[u][j].event.size = log[u][j].event.size
    BY <1>8
  <2>4. \A j \in DOMAIN log'[u] : j = 1 \/ (j - 1 \in DOMAIN log'[u])
    BY <1>8, <2>2
  <2>5. \A j, l \in DOMAIN log'[u] : j < l => log'[u][j].offset < log'[u][l].offset
    BY <2>1, <2>3
  <2>6. \A j \in DOMAIN log'[u] :
           /\ log'[u][j].event.by = u /\ ~log'[u][j].event.torn
           /\ log'[u][j].event.prev = IF j = 1 THEN 0 ELSE log'[u][j - 1].event.size
    BY <2>1, <2>3, <2>4
  <2>7. PreviousEventSize[u] = IF log'[u] = <<>> THEN 0 ELSE log'[u][Len(log'[u])].event.size
    <3>1. CASE log[u] = <<>>
      BY <3>1, <2>1, <1>8
    <3>2. CASE log[u] # <<>>
      <4>1. Len(log[u]) \in DOMAIN log[u]
        BY <3>2, <2>2
      <4> QED BY <4>1, <3>2, <2>1, <1>8
    <3> QED BY <3>1, <3>2
  <2>8. \A q \in EventOffsets : file'[q].by = u /\ ~file'[q].torn => \E j \in DOMAIN log'[u] : log'[u][j].offset = q
    <3> SUFFICES ASSUME NEW q \in EventOffsets, file'[q].by = u, ~file'[q].torn
                 PROVE  \E j \in DOMAIN log'[u] : log'[u][j].offset = q
      OBVIOUS
    <3>1. file[q].by = u /\ ~file[q].torn
      BY <1>9
    <3>2. PICK j \in DOMAIN log[u] : log[u][j].offset = q
      BY <2>1, <3>1
    <3>3. j \in DOMAIN log'[u]
      BY <1>8
    <3>4. log'[u][j].offset = q
      BY <3>2, <3>3, <2>3
    <3> QED BY <3>3, <3>4
  <2> QED BY <2>5, <2>6, <2>7, <2>8
<1> QED BY <1>0, <1>4, <1>6, <1>7, <1>10 DEF ReadInv

-----------------------------------------------------------------------------
\* What getOutputBlock does: the block of stream s goes from x to y.
Reserves(t, s, x, y) ==
  /\ s = writer[t].stream /\ writer[t].pc = "reserve" /\ writer'[t].pc = "type"
  /\ writer'[t].stream = s /\ writer'[t].item = writer[t].item
  /\ writer'[t].type = writer[t].type /\ writer'[t].again = writer[t].again
  /\ \A v \in Threads : v # t => writer'[v] = writer[v]
  /\ \A v \in Threads : \A u \in Streams : WritesTo(v, u)' <=> WritesTo(v, u)
  /\ x = m_TraceOffset /\ y = m_TraceOffset' /\ x >= 1 /\ x + 2 <= y /\ (s > 0 => x + 3 <= y)
  /\ m_Block'[s].end = y /\ m_Block'[s].next = x /\ \A u \in Streams : u # s => m_Block'[u] = m_Block[u]
  /\ Base(s)' = x
  /\ s \in {0, t, -t} /\ (s > 0 => s = t) /\ (s < 0 => -s = t)
  /\ file' = file /\ log' = log /\ PreviousEventSize' = PreviousEventSize

\* getOutputBlock reserves a block.
LEMMA ReserveEffect ==
  ASSUME Known, 0 \in DOMAIN file, NEW t \in Threads, getOutputBlock(t)
  PROVE  \E s \in Streams, x, y \in Nat : Reserves(t, s, x, y)
PROOF
<1> DEFINE w == writer[t]
<1>0. PICK s \in Streams : s = w.stream
  BY DEF Known, WriterInv, Writers
<1>1. w \in Writers /\ Len(w.item) \in Nat /\ BlockSize \in Nat /\ w.pc = "reserve"
  BY ConstantsAssumption DEF Known, WriterInv, Writers, ConstantsAssumption, getOutputBlock, At
<1>2. m_TraceOffset \in Nat /\ m_TraceOffset >= 1
  BY Numbers DEF Known
<1>3. t \in Nat \ {0} /\ s \in Int
  BY StreamsFacts
<1>4. EventHand(t, w) \/ DataHand(t, w)
  BY <1>1 DEF Known, HandsInv
<1>5. /\ s \in {0, t, -t} /\ (s > 0 => s = t) /\ (s < 0 => -s = t)
      /\ s > 0 => BlockSize >= 3
      /\ s = 0 => BlockSize >= 2
  <2>1. CASE EventHand(t, w)
    <3>1. s = t /\ Len(w.item) >= 1 /\ Len(w.item) + 2 + 1 <= BlockSize
      BY <2>1, <1>0 DEF EventHand, HeaderSize, IDSize
    <3> QED BY <3>1, <1>1, <1>3
  <2>2. CASE DataHand(t, w)
    <3>1. s \in {0, -t} /\ (s = 0 => Len(w.item) + 2 <= BlockSize)
      BY <2>2, <1>0 DEF DataHand, ProcessData, HeaderSize
    <3> QED BY <3>1, <1>1, <1>3
  <2> QED BY <2>1, <2>2, <1>4
<1>6. PICK n \in Nat : n = NBytes(w) /\ n >= 2 /\ (s > 0 => n >= 3)
  <2>1. CASE s < 0
    <3>1. NBytes(w) = 2 + Len(w.item)
      BY <2>1, <1>0 DEF NBytes, HeaderSize
    <3> QED BY <3>1, <2>1, <1>1, <1>3
  <2>2. CASE ~(s < 0)
    <3>1. NBytes(w) = BlockSize
      BY <2>2, <1>0 DEF NBytes
    <3> QED BY <3>1, <2>2, <1>1, <1>3, <1>5
  <2> QED BY <2>1, <2>2
<1>7. /\ m_TraceOffset' = m_TraceOffset + n
      /\ m_Block' = [m_Block EXCEPT ![s] = [end |-> m_TraceOffset + n, next |-> m_TraceOffset]]
      /\ writer' = [writer EXCEPT ![t].pc = "type"]
      /\ file' = file /\ log' = log /\ PreviousEventSize' = PreviousEventSize
  BY <1>0, <1>6 DEF getOutputBlock, At, Goto
<1>8. PICK y \in Nat : y = m_TraceOffset + n
  BY <1>2
<1>9. PICK x \in Nat : x = m_TraceOffset
  BY <1>2
<1>10. /\ m_Block'[s] = [end |-> y, next |-> x]
       /\ \A u \in Streams : u # s => m_Block'[u] = m_Block[u]
  BY <1>7, <1>8, <1>9 DEF Known, FileInv
<1>11. m_Block'[s].end = y /\ m_Block'[s].next = x
  BY <1>10
<1>12. /\ writer'[t].pc = "type" /\ writer'[t].stream = s /\ writer'[t].item = w.item
       /\ writer'[t].type = w.type /\ writer'[t].again = w.again
       /\ \A v \in Threads : v # t => writer'[v] = writer[v]
  BY <1>0, <1>1, <1>7 DEF Known, WriterInv, Writers
<1>13. \A v \in Threads : \A u \in Streams : WritesTo(v, u)' <=> WritesTo(v, u)
  BY <1>0, <1>1, <1>12 DEF WritesTo
<1>14. Base(s)' = x
  <2>1. Base(s)' = y - (IF s < 0 THEN 2 + Len(writer'[-s].item) ELSE BlockSize)
    BY <1>11 DEF Base, HeaderSize
  <2>2. CASE s < 0
    <3>1. n = 2 + Len(w.item) /\ -s = t
      BY <2>2, <1>0, <1>5, <1>6 DEF NBytes, HeaderSize
    <3>2. Base(s)' = y - (2 + Len(w.item))
      BY <2>1, <2>2, <3>1, <1>12
    <3> QED BY <3>1, <3>2, <1>1, <1>8, <1>9
  <2>3. CASE ~(s < 0)
    <3>1. n = BlockSize
      BY <2>3, <1>0, <1>6 DEF NBytes
    <3>2. Base(s)' = y - BlockSize
      BY <2>1, <2>3
    <3> QED BY <3>1, <3>2, <1>1, <1>8, <1>9
  <2> QED BY <2>2, <2>3
<1>15. y = m_TraceOffset' /\ x >= 1 /\ x + 2 <= y /\ (s > 0 => x + 3 <= y)
  BY <1>2, <1>6, <1>7, <1>8, <1>9
<1>16. Reserves(t, s, x, y)
  BY <1>0, <1>1, <1>5, <1>7, <1>9, <1>10, <1>11, <1>12, <1>13, <1>14, <1>15 DEF Reserves
<1> QED BY <1>16

\* A reserved block keeps the shape of the file.
LEMMA ReserveRead ==
  ASSUME FileInv, WriterInv, ReadInv, NEW t \in Threads, getOutputBlock(t)
  PROVE  ReadInv'
PROOF
<1>0. Known /\ LogOrder /\ 0 \in DOMAIN file
  BY DEF ReadInv, Known
<1>1. PICK s \in Streams, x \in Nat, y \in Nat : Reserves(t, s, x, y)
  BY <1>0, ReserveEffect
<1>2. /\ x = m_TraceOffset /\ y = m_TraceOffset' /\ x >= 1 /\ x + 2 <= y /\ (s > 0 => x + 3 <= y)
      /\ m_Block'[s].end = y /\ m_Block'[s].next = x /\ \A u \in Streams : u # s => m_Block'[u] = m_Block[u]
      /\ Base(s)' = x
      /\ s = writer[t].stream /\ writer[t].pc = "reserve" /\ writer'[t].pc = "type"
      /\ writer'[t].stream = s /\ writer'[t].item = writer[t].item
      /\ writer'[t].type = writer[t].type /\ writer'[t].again = writer[t].again
      /\ \A v \in Threads : v # t => writer'[v] = writer[v]
      /\ \A v \in Threads : \A u \in Streams : WritesTo(v, u)' <=> WritesTo(v, u)
      /\ s \in {0, t, -t} /\ (s > 0 => s = t) /\ (s < 0 => -s = t)
      /\ file' = file /\ log' = log /\ PreviousEventSize' = PreviousEventSize
  BY <1>1 DEF Reserves
<1>3. /\ NextOffsets' = NextOffsets /\ EventOffsets' = EventOffsets
      /\ \A o \in DOMAIN file : o \in Nat /\ o < x
      /\ \A p \in NextOffsets : p \in Nat /\ file[p].end \in Nat /\ file[p].end <= x
      /\ \A q \in EventOffsets : q \in Nat /\ file[q].size \in Nat /\ file[q].by \in Streams /\ q + file[q].size <= x
                                 /\ file[q].size >= 1
      /\ \A u \in Streams : m_Block[u].end \in Nat /\ m_Block[u].next \in Nat /\ m_Block[u].end <= x
  BY <1>0, <1>2, Numbers DEF Known, NextInv, EventsInv, NextOffsets, EventOffsets
<1>4. WritesTo(t, s) /\ \A u \in Streams : WritesTo(t, u) => u = s
  BY <1>2 DEF WritesTo
<1>5. \A u \in Streams : HasBlock(u) => HasBlock(u)'
  BY <1>2, <1>3 DEF HasBlock
<1>6. HasBlock(s)'
  BY <1>2 DEF HasBlock
<1>7. HandsInv'
  <2>1. ASSUME NEW v \in Threads, writer'[v].pc # "idle"
        PROVE  /\ EventHand(v, writer[v])' \/ DataHand(v, writer[v])'
               /\ writer'[v].pc # "reserve" => HasBlock(writer[v].stream)'
    <3>1. CASE v = t
      <4>1. EventHand(t, writer[t]) \/ DataHand(t, writer[t])
        BY <1>0, <1>2 DEF Known, HandsInv
      <4>2. EventHand(t, writer[t])' \/ DataHand(t, writer[t])'
        BY <4>1, <1>2 DEF EventHand, DataHand
      <4>3. HasBlock(writer[t].stream)'
        BY <1>2, <1>6 DEF HasBlock
      <4> QED BY <3>1, <4>2, <4>3
    <3>2. CASE v # t
      <4>1. /\ EventHand(v, writer[v]) \/ DataHand(v, writer[v])
            /\ writer[v].pc # "reserve" => HasBlock(writer[v].stream)
        BY <2>1, <3>2, <1>0, <1>2 DEF Known, HandsInv
      <4>2. EventHand(v, writer[v])' \/ DataHand(v, writer[v])'
        BY <3>2, <4>1, <1>2 DEF EventHand, DataHand
      <4>3. writer[v].stream \in Streams
        BY DEF WriterInv, Writers
      <4>4. writer'[v].pc # "reserve" => HasBlock(writer[v].stream)'
        BY <3>2, <4>1, <4>3, <1>2, <1>5 DEF HasBlock
      <4> QED BY <4>2, <4>4
    <3> QED BY <3>1, <3>2
  <2>2. \A v, u \in Threads : WritesTo(v, ProcessData)' /\ WritesTo(u, ProcessData)' => v = u
    BY <1>0, <1>2, StreamsFacts DEF Known, HandsInv
  <2> QED BY <2>1, <2>2 DEF HandsInv
<1>8. \A u \in Streams : u # s /\ Open(u)' => Open(u) /\ Base(u)' = Base(u)
  <2> SUFFICES ASSUME NEW u \in Streams, u # s, Open(u)' PROVE Open(u) /\ Base(u)' = Base(u)
    OBVIOUS
  <2>0. m_Block'[u] = m_Block[u] /\ HasBlock(u)
    BY <1>2 DEF Open, HasBlock
  <2>1. CASE u < 0
    <3>1. -u \in Threads
      BY <2>1, ConstantsAssumption DEF Streams, Threads, ConstantsAssumption
    <3>2. WritesTo(-u, u) /\ writer'[-u].pc # "reserve"
      BY <2>1, <3>1, <1>2 DEF Open
    <3>3. -u # t
      BY <3>2, <1>4
    <3>4. writer'[-u] = writer[-u]
      BY <3>1, <3>3, <1>2
    <3> QED BY <2>0, <2>1, <3>2, <3>4 DEF Open, Base
  <2>2. CASE ~(u < 0)
    BY <2>0, <2>2 DEF Open, Base
  <2> QED BY <2>1, <2>2
<1>9. \A a, b \in Nat : Outside(a, b) /\ b <= y => Outside(a, b)'
  <2> SUFFICES ASSUME NEW a \in Nat, NEW b \in Nat, Outside(a, b), b <= y PROVE Outside(a, b)'
    OBVIOUS
  <2>1. \A p \in NextOffsets : file'[p].end <= a \/ b <= file'[p].end
    BY <1>2 DEF Outside
  <2>2. \A u \in Streams : m_Block'[u].end <= a \/ b <= m_Block'[u].end
    BY <1>2 DEF Outside
  <2> QED BY <2>1, <2>2, <1>3 DEF Outside
<1>10. PlaceInv(s)'
  <2>1. Outside(x, y)'
    <3>1. \A p \in NextOffsets : file'[p].end <= x
      BY <1>2, <1>3
    <3>2. \A u \in Streams : m_Block'[u].end <= x \/ y <= m_Block'[u].end
      BY <1>2, <1>3
    <3> QED BY <3>1, <3>2, <1>3 DEF Outside
  <2>2. Outside(Base(s), m_Block[s].end)'
    BY <2>1, <1>2 DEF Outside
  <2>3. \A p \in NextOffsets' : file'[p].end = m_Block'[s].end => p = Base(s)' + 1
    BY <1>2, <1>3
  <2>4. \A q \in EventOffsets' : Base(s)' <= q /\ q < m_Block'[s].end => file'[q].by = s /\ q >= Base(s)' + 3
    <3> SUFFICES ASSUME NEW q \in EventOffsets, x <= q PROVE FALSE
      BY <1>2, <1>3
    <3> QED BY <1>3
  <2>5. /\ Base(s)' >= 1 /\ Base(s)' + HeaderSize <= m_Block'[s].end
        /\ s > 0 => Base(s)' + HeaderSize + IDSize <= m_Block'[s].end
    BY <1>2 DEF HeaderSize, IDSize
  <2> QED BY <2>2, <2>3, <2>4, <2>5 DEF PlaceInv
<1>11. HeaderInv(s)'
  <2>1. \A v \in Threads : WritesTo(v, s)' => v = t
    BY <1>0, <1>2, <1>4, OneWriter DEF Known
  <2> QED BY <2>1, <1>2, <1>4 DEF HeaderInv
<1>12. \A u \in Streams : u # s /\ Open(u)' => PlaceInv(u)' /\ HeaderInv(u)'
  <2> SUFFICES ASSUME NEW u \in Streams, u # s, Open(u)' PROVE PlaceInv(u)' /\ HeaderInv(u)'
    OBVIOUS
  <2>1. Open(u) /\ Base(u)' = Base(u) /\ PlaceInv(u) /\ HeaderInv(u) /\ m_Block'[u] = m_Block[u]
    BY <1>0, <1>2, <1>8 DEF Known, BlocksInv
  <2>2. PICK a \in Nat : a = Base(u)
    BY <2>1, BaseFacts
  <2>3. PICK b \in Nat : b = m_Block[u].end
    BY <1>3
  <2>4. Outside(a, b)'
    BY <2>1, <2>2, <2>3, <1>2, <1>3, <1>9 DEF PlaceInv
  <2>5. Outside(Base(u), m_Block[u].end)'
    BY <2>1, <2>2, <2>3, <2>4 DEF Outside
  <2>6. PlaceInv(u)'
    BY <2>1, <2>5, <1>2, <1>3 DEF PlaceInv
  <2>7. \A v \in Threads : WritesTo(v, u) => writer'[v] = writer[v]
    BY <1>2, <1>4
  <2>8. HeaderInv(u)'
    BY <2>1, <2>7, <1>2 DEF HeaderInv
  <2> QED BY <2>6, <2>8
<1>13. ASSUME NEW u \in Threads, HasBlock(u)' PROVE ThreadInv(u)'
  <2>0. u \in Streams
    BY StreamsFacts
  <2>1. CASE u = s
    <3>1. u = t
      BY <2>1, <1>2, StreamsFacts
    <3>2. Base(u)' \notin DOMAIN file' /\ Base(u)' + 2 \notin DOMAIN file' /\ Base(u)' + 3 \notin DOMAIN file'
      BY <2>1, <1>2, <1>3
    <3>3. writer'[u].pc # "item"
      BY <3>1, <1>2
    <3> QED BY <3>2, <3>3 DEF ThreadInv
  <2>2. CASE u # s
    <3>1. /\ HasBlock(u) /\ ThreadInv(u) /\ Base(u)' = Base(u) /\ m_Block'[u] = m_Block[u]
      <4>1. m_Block'[u] = m_Block[u] /\ ~(u < 0)
        BY <2>0, <2>2, <1>2, StreamsFacts
      <4>2. HasBlock(u)
        BY <4>1, <1>13 DEF HasBlock
      <4> QED BY <4>1, <4>2, <1>0 DEF Base, Known, BlocksInv
    <3>2. /\ WritesTo(u, u)' <=> WritesTo(u, u)
          /\ WritesTo(u, u) => writer'[u] = writer[u]
      BY <2>0, <2>2, <1>2, <1>4
    <3> QED BY <3>1, <3>2, <1>2, <1>3 DEF ThreadInv
  <2> QED BY <2>1, <2>2
<1>14. \A v, u \in Streams : HasBlock(v)' /\ v # u => m_Block'[v].end # m_Block'[u].end
  <2> SUFFICES ASSUME NEW v \in Streams, NEW u \in Streams, HasBlock(v)', v # u
               PROVE  m_Block'[v].end # m_Block'[u].end
    OBVIOUS
  <2>1. CASE v = s
    BY <2>1, <1>2, <1>3
  <2>2. CASE u = s
    BY <2>2, <1>2, <1>3
  <2>3. CASE v # s /\ u # s
    BY <2>3, <1>0, <1>2 DEF Known, BlocksInv, HasBlock
  <2> QED BY <2>1, <2>2, <2>3
<1>15. BlocksInv'
  BY <1>10, <1>11, <1>12, <1>13, <1>14 DEF BlocksInv
<1>16. NextInv'
  <2> SUFFICES ASSUME NEW p \in NextOffsets
               PROVE  /\ p >= 2 /\ p < file'[p].end /\ file'[p].end <= m_TraceOffset'
                      /\ Outside(p - 1, file[p].end)'
    BY <1>3 DEF NextInv
  <2>1. /\ p >= 2 /\ p < file[p].end /\ file[p].end <= x
        /\ Outside(p - 1, file[p].end) /\ p \in Nat /\ file[p].end \in Nat
    BY <1>0, <1>2, <1>3 DEF Known, NextInv
  <2>2. PICK a \in Nat : a = p - 1
    BY <2>1
  <2>3. PICK b \in Nat : b = file[p].end
    BY <2>1
  <2>4. Outside(a, b)'
    BY <2>1, <2>2, <2>3, <1>2, <1>9
  <2>5. Outside(p - 1, file[p].end)'
    BY <2>2, <2>3, <2>4, <1>2 DEF Outside
  <2> QED BY <2>1, <2>5, <1>2
<1>17. EventsInv'
  <2> SUFFICES ASSUME NEW q \in EventOffsets
               PROVE  /\ q >= 3
                      /\ file[q].size >= 1 /\ HasBlock(file[q].by)' /\ q + file[q].size <= m_Block'[file[q].by].next
                      /\ q + file[q].size <= m_TraceOffset'
                      /\ \A p \in NextOffsets : Away(q, file[p].end)
                      /\ \A u \in Streams : Away(q, m_Block'[u].end)
                      /\ \A o \in EventOffsets : o < q /\ file[o].by = file[q].by => o + file[o].size <= q
    BY <1>2, <1>3 DEF EventsInv, HasBlock
  <2>1. /\ q >= 3
        /\ file[q].size >= 1 /\ HasBlock(file[q].by) /\ q + file[q].size <= m_Block[file[q].by].next
        /\ \A p \in NextOffsets : Away(q, file[p].end)
        /\ \A u \in Streams : Away(q, m_Block[u].end)
        /\ \A o \in EventOffsets : o < q /\ file[o].by = file[q].by => o + file[o].size <= q
    BY <1>0 DEF Known, EventsInv
  <2>2. q \in Nat /\ file[q].size \in Nat /\ file[q].by \in Streams /\ q + file[q].size <= x
    BY <1>3
  <2>3. q + file[q].size <= m_Block'[file[q].by].next
    BY <2>1, <2>2, <1>2
  <2>4. q + file[q].size <= m_TraceOffset'
    BY <2>2, <1>2
  <2>5. HasBlock(file[q].by)'
    BY <2>1, <2>2, <1>2, <1>5 DEF HasBlock
  <2>6. Away(q, y)
    BY <2>1, <2>2, <1>2 DEF Away
  <2>7. \A u \in Streams : Away(q, m_Block'[u].end)
    BY <2>1, <2>6, <1>2
  <2> QED BY <2>1, <2>3, <2>4, <2>5, <2>7
<1>18. ContentInv'
  BY <1>0, <1>2, <1>3 DEF Known, ContentInv, ContentOf
<1>19. LogOrder'
  BY <1>0, <1>2, <1>3 DEF LogOrder
<1> QED BY <1>0, <1>2, <1>7, <1>15, <1>16, <1>17, <1>18, <1>19 DEF ReadInv

-----------------------------------------------------------------------------
\* A block of a thread has room for an event.
LEMMA RoomForEvents ==
  ASSUME NEW t \in Threads, FileInv
  PROVE  Base(t) + 3 < m_Block[t].end /\ m_Block[t].end \in Nat /\ Base(t) \in Int
PROOF
<1>1. FunctionStartSize \in Nat \ {0} /\ FunctionStartSize + 2 + 1 <= BlockSize /\ BlockSize \in Nat
  BY ConstantsAssumption DEF ConstantsAssumption, HeaderSize, IDSize
<1>2. t \in Streams /\ ~(t < 0)
  BY StreamsFacts
<1>3. m_Block[t].end \in Nat /\ Base(t) = m_Block[t].end - BlockSize
  BY <1>2, Numbers DEF Base
<1> QED BY <1>1, <1>3

\* What a write does apart from the writers and the log.
LEMMA PutsFile ==
  ASSUME Known, 0 \in DOMAIN file,
         NEW t \in Threads, NEW s \in Streams, NEW cells \in Seq(AnyCell), NEW k \in Nat,
         Puts(t, s, cells, k), Continues(t)
  PROVE  /\ NextInv' /\ EventsInv' /\ ContentInv' /\ 0 \in DOMAIN file'
         /\ \A u \in Streams : Open(u)' => PlaceInv(u)' /\ Open(u) /\ Base(u)' = Base(u)
         /\ \A v, u \in Streams : HasBlock(v)' /\ v # u => m_Block'[v].end # m_Block'[u].end
PROOF
<1>1. \A u \in Streams : m_Block'[u].end = m_Block[u].end /\ (HasBlock(u)' <=> HasBlock(u))
  BY WroteKeeps DEF Puts, Known
<1>2. \A v, u \in Streams : HasBlock(v)' /\ v # u => m_Block'[v].end # m_Block'[u].end
  BY <1>1 DEF Known, BlocksInv
<1>3. 0 \in DOMAIN file'
  BY WroteKeeps DEF Puts, Known
<1>4. \A u \in Threads : HasBlock(u) => ThreadInv(u)
  BY DEF Known, BlocksInv
<1> QED BY <1>2, <1>3, <1>4, PutsNext, PutsEvents, PutsContent, PutsPlace

\* The other streams do not notice.
LEMMA PutsOtherStreams ==
  ASSUME Known, NEW t \in Threads, NEW s \in Streams, NEW cells \in Seq(AnyCell), NEW k \in Nat,
         Puts(t, s, cells, k), Continues(t), NEW u \in Streams, u # s
  PROVE  /\ \A v \in Threads : /\ WritesTo(v, u)' <=> WritesTo(v, u)
                               /\ WritesTo(v, u) => writer'[v] = writer[v]
         /\ Open(u)' => HeaderInv(u)'
PROOF
<1>1. ASSUME NEW v \in Threads
      PROVE  /\ WritesTo(v, u)' <=> WritesTo(v, u)
             /\ WritesTo(v, u) => writer'[v] = writer[v]
  <2>1. CASE v # t
    BY <2>1 DEF Continues, WritesTo
  <2>2. CASE v = t
    <3>1. writer[t].stream = s
      BY DEF Puts, WritesTo
    <3>2. writer'[t].pc = "idle" \/ writer'[t].stream = s
      BY <3>1 DEF Continues, Idle
    <3> QED BY <2>2, <3>1, <3>2 DEF WritesTo
  <2> QED BY <2>1, <2>2
<1>2. ASSUME Open(u)' PROVE HeaderInv(u)'
  <2>1. /\ \A v \in Streams : m_Block'[v].end = m_Block[v].end
        /\ m_Block'[u].next = m_Block[u].next
    BY WroteKeeps DEF Puts, Known
  <2>2. Open(u) /\ Base(u)' = Base(u)
    BY <1>2, <2>1, BaseKept DEF Known
  <2>3. HeaderInv(u)
    BY <2>2 DEF Known, BlocksInv
  <2> QED BY <1>1, <2>1, <2>2, <2>3 DEF HeaderInv
<1> QED BY <1>1, <1>2

\* A write leaves the blocks of other threads alone.
LEMMA PutsOtherThreads ==
  ASSUME Known, NEW t \in Threads, NEW s \in Streams, NEW cells \in Seq(AnyCell), NEW k \in Nat,
         Puts(t, s, cells, k), Continues(t), NEW u \in Threads, u # s, HasBlock(u)'
  PROVE  ThreadInv(u)'
PROOF
<1>0. u \in Streams /\ u \in Nat /\ ~(u < 0)
  BY StreamsFacts
<1>1. /\ \A o \in DOMAIN file : o \in DOMAIN file' /\ file'[o] = file[o]
      /\ \A q \in EventOffsets : file'[q] = file[q]
      /\ m_Block'[u].end = m_Block[u].end /\ m_Block'[u].next = m_Block[u].next
      /\ HasBlock(u)
  BY <1>0, WroteKeeps DEF Puts, Known, HasBlock
<1>2. Open(u) /\ Base(u)' = Base(u) /\ PlaceInv(u) /\ ThreadInv(u)
  BY <1>0, <1>1 DEF Open, Base, Known, BlocksInv
<1>3. Base(u) \in Nat /\ m_Block[u].end \in Nat /\ Base(u) + 3 < m_Block[u].end
  BY <1>0, <1>2, BaseFacts, RoomForEvents DEF Known
<1>4. Open(s)
  <2>1. writer[t].pc # "reserve" /\ WritesTo(t, s)
    BY DEF Puts, InHand
  <2> QED BY <2>1, OpenWhenWriting
<1>5. ASSUME NEW a \in Nat, Base(u) <= a, a < m_Block[u].end, a \in DOMAIN file'
      PROVE  a \in DOMAIN file /\ file'[a] = file[a]
  <2>1. ~(Base(s) <= a /\ a < m_Block[s].end)
    BY <1>0, <1>2, <1>4, <1>5, OpenApart DEF Known
  <2>2. a \in DOMAIN file
    BY <2>1, <1>5, PutWhere
  <2> QED BY <2>2, <1>1
<1>6. Base(u) + 2 \in Nat /\ Base(u) + 3 \in Nat /\ Base(u) <= Base(u) + 2 /\ Base(u) + 2 < m_Block[u].end
      /\ Base(u) < m_Block[u].end /\ Base(u) <= Base(u) + 3 /\ Base(u) <= Base(u)
  BY <1>3
<1>7. /\ WritesTo(u, u)' <=> WritesTo(u, u)
      /\ WritesTo(u, u) => writer'[u] = writer[u]
  BY <1>0, PutsOtherStreams
<1>8. Base(u) \in DOMAIN file' /\ file'[Base(u)].kind = "type" => file'[Base(u)].type = "ThreadEvents"
  BY <1>2, <1>3, <1>5, <1>6 DEF ThreadInv
<1>9. Base(u) + 2 \in DOMAIN file' => file'[Base(u) + 2] = [kind |-> "id", id |-> u]
  BY <1>2, <1>3, <1>5, <1>6 DEF ThreadInv
<1>10. WritesTo(u, u)' /\ writer'[u].pc = "item" /\ writer'[u].again => m_Block'[u].next = Base(u) + 3
  BY <1>1, <1>2, <1>7 DEF ThreadInv
<1>11. Base(u) + 3 \in DOMAIN file' /\ ~(WritesTo(u, u)' /\ writer'[u].pc # "item") =>
         \E o \in EventOffsets' : Base(u) + 3 <= o /\ o + file'[o].size = m_Block'[u].next
  <2> HAVE Base(u) + 3 \in DOMAIN file' /\ ~(WritesTo(u, u)' /\ writer'[u].pc # "item")
  <2>1. Base(u) + 3 \in DOMAIN file
    BY <1>3, <1>5, <1>6
  <2>2. PICK o \in EventOffsets : Base(u) + 3 <= o /\ o + file[o].size = m_Block[u].next
    BY <2>1, <1>2, <1>7 DEF ThreadInv
  <2>3. o \in EventOffsets'
    BY NewEvent
  <2> QED BY <2>2, <2>3, <1>1
<1> QED BY <1>2, <1>8, <1>9, <1>10, <1>11 DEF ThreadInv

-----------------------------------------------------------------------------
\* Thread t writes one cell of the header of the block of stream s.
Heads(t, s, cell, k) ==
  /\ writer[t].pc \in {"type", "next", "id"} /\ Puts(t, s, <<cell>>, k) /\ Continues(t)
  /\ writer'[t].stream = s /\ writer'[t].item = writer[t].item /\ writer'[t].type = writer[t].type
  /\ writer'[t].again = writer[t].again
  /\ writer[t].pc = "type" => writer'[t].pc = "next"
  /\ writer[t].pc = "next" => writer'[t].pc = IF writer[t].type = "ThreadEvents" THEN "id" ELSE "item"
  /\ writer[t].pc = "id" => writer'[t].pc = "item"
  /\ log' = log /\ PreviousEventSize' = PreviousEventSize

\* The three writers of the header put one cell each.
LEMMA HeaderEffect ==
  ASSUME Known, NEW t \in Threads, WriteType(t) \/ WriteNextBlock(t) \/ writeHeader(t)
  PROVE  \E s \in Streams, cell \in AnyCell, k \in Nat : Heads(t, s, cell, k) /\ OutputBlockWrite(s, <<cell>>, k)
PROOF
<1>1. PICK s \in Streams : s = writer[t].stream
  BY DEF Known, WriterInv, Writers
<1>2. writer[t].type \in BlockTypes /\ m_Block[s].end \in Nat /\ writer[t] \in Writers
  BY DEF Known, WriterInv, Writers, FileInv
<1> DEFINE OneOf(at, cell, to) ==
        \/ at = "type" /\ to = "next" /\ cell = [kind |-> "type", type |-> writer[t].type]
        \/ /\ at = "next" /\ to = IF writer[t].type = "ThreadEvents" THEN "id" ELSE "item"
           /\ cell = [kind |-> "next", end |-> m_Block[s].end]
        \/ at = "id" /\ to = "item" /\ cell = [kind |-> "id", id |-> t]
<1>3. PICK at \in {"type", "next", "id"}, cell \in AnyCell, to \in {"next", "id", "item"} : WriteHeaderCell(t, at, cell, to) /\ OneOf(at, cell, to)
  <2>1. CASE WriteType(t)
    <3>0. PICK c : c = [kind |-> "type", type |-> writer[t].type]
      OBVIOUS
    <3>1. c \in AnyCell
      BY <3>0, <1>2 DEF AnyCell, HeaderCell
    <3>2. PICK to \in {"next", "id", "item"} : to = "next"
      OBVIOUS
    <3>3. WriteHeaderCell(t, "type", c, to)
      BY <2>1, <3>0, <3>2 DEF WriteType
    <3>4. OneOf("type", c, to)
      BY <3>0, <3>2
    <3> HIDE DEF OneOf
    <3> QED BY <3>1, <3>3, <3>4
  <2>2. CASE WriteNextBlock(t)
    <3>0. PICK c : c = [kind |-> "next", end |-> m_Block[s].end]
      OBVIOUS
    <3>1. c \in AnyCell
      BY <3>0, <1>2 DEF AnyCell, HeaderCell
    <3>2. PICK to \in {"next", "id", "item"} : to = IF writer[t].type = "ThreadEvents" THEN "id" ELSE "item"
      OBVIOUS
    <3>3. WriteHeaderCell(t, "next", c, to)
      BY <2>2, <3>0, <3>2, <1>1 DEF WriteNextBlock
    <3>4. OneOf("next", c, to)
      BY <3>0, <3>2
    <3> HIDE DEF OneOf
    <3> QED BY <3>1, <3>3, <3>4
  <2>3. CASE writeHeader(t)
    <3>0. PICK c : c = [kind |-> "id", id |-> t]
      OBVIOUS
    <3>1. c \in AnyCell
      BY <3>0, <1>2 DEF AnyCell, HeaderCell
    <3>2. PICK to \in {"next", "id", "item"} : to = "item"
      OBVIOUS
    <3>3. WriteHeaderCell(t, "id", c, to)
      BY <2>3, <3>0, <3>2 DEF writeHeader
    <3>4. OneOf("id", c, to)
      BY <3>0, <3>2
    <3> HIDE DEF OneOf
    <3> QED BY <3>1, <3>3, <3>4
  <2> QED BY <2>1, <2>2, <2>3
<1>4. /\ writer[t].pc = at /\ writer' = [writer EXCEPT ![t].pc = to]
      /\ m_TraceOffset' = m_TraceOffset /\ log' = log /\ PreviousEventSize' = PreviousEventSize
  BY <1>3 DEF WriteHeaderCell, At, Goto
<1>5. PICK k \in 0..1 : OutputBlockWrite(s, <<cell>>, k)
  BY <1>1, <1>3 DEF WriteHeaderCell
<1>6. k \in Nat /\ <<cell>> \in Seq(AnyCell)
  BY <1>5
<1>7. Wrote(s, <<cell>>, k)
  BY <1>4, <1>5, <1>6, WriteEffect DEF Known
<1>8. InHand(t, s, <<cell>>)
  BY <1>3, <1>4 DEF InHand
<1>9. WritesTo(t, s)
  BY <1>1, <1>3, <1>4 DEF WritesTo
<1>10. /\ writer'[t].pc = to /\ writer'[t].stream = s /\ writer'[t].item = writer[t].item
       /\ writer'[t].type = writer[t].type /\ writer'[t].again = writer[t].again
       /\ \A v \in Threads : v # t => writer'[v] = writer[v]
  BY <1>1, <1>2, <1>4 DEF Known, WriterInv, Writers
<1>11. Continues(t)
  BY <1>1, <1>3, <1>4, <1>10 DEF Continues
<1>12. Heads(t, s, cell, k)
  BY <1>3, <1>4, <1>7, <1>8, <1>9, <1>10, <1>11 DEF Heads, Puts
<1> QED BY <1>5, <1>6, <1>12

\* Writing the header, whether or not it fails, keeps the shape of the file.
LEMMA HeaderRead ==
  ASSUME FileInv, WriterInv, ReadInv, NEW t \in Threads,
         WriteType(t) \/ WriteNextBlock(t) \/ writeHeader(t)
  PROVE  ReadInv'
PROOF
<1>0. Known /\ LogOrder /\ 0 \in DOMAIN file
  BY DEF ReadInv, Known
<1>1. PICK s \in Streams, cell \in AnyCell, k \in Nat : Heads(t, s, cell, k)
  BY <1>0, HeaderEffect
<1>2. PICK cells \in Seq(AnyCell) : cells = <<cell>>
  <2>1. <<cell>> \in Seq(AnyCell)
    BY <1>1
  <2> QED BY <2>1
<1>3. /\ writer[t].pc \in {"type", "next", "id"} /\ Puts(t, s, cells, k) /\ Continues(t)
      /\ writer'[t].stream = s /\ writer'[t].item = writer[t].item /\ writer'[t].type = writer[t].type
      /\ writer'[t].again = writer[t].again
      /\ writer[t].pc = "type" => writer'[t].pc = "next"
      /\ writer[t].pc = "next" => writer'[t].pc = IF writer[t].type = "ThreadEvents" THEN "id" ELSE "item"
      /\ writer[t].pc = "id" => writer'[t].pc = "item"
      /\ log' = log /\ PreviousEventSize' = PreviousEventSize
  BY <1>1, <1>2 DEF Heads
<1>4. /\ NextInv' /\ EventsInv' /\ ContentInv' /\ 0 \in DOMAIN file'
      /\ \A u \in Streams : Open(u)' => PlaceInv(u)' /\ Open(u) /\ Base(u)' = Base(u)
      /\ \A v, u \in Streams : HasBlock(v)' /\ v # u => m_Block'[v].end # m_Block'[u].end
  BY <1>0, <1>3, PutsFile
<1>5. WritesTo(t, s) /\ writer[t].pc # "reserve" /\ writer[t].stream = s
  BY <1>3 DEF Puts, WritesTo
<1>6. /\ Open(s) /\ Base(s) \in Nat \ {0} /\ m_Block[s].end \in Nat /\ m_Block[s].next \in Nat
      /\ Base(s) + 2 <= m_Block[s].end /\ (s > 0 => Base(s) + 3 <= m_Block[s].end)
      /\ s \in {0, t, -t} /\ (s > 0 => s = t)
      /\ s > 0 => EventHand(t, writer[t])
      /\ s <= 0 => DataHand(t, writer[t])
  BY <1>0, <1>5, OpenWhenWriting
<1>7. /\ writer[t].pc = "type" => m_Block[s].next = Base(s) /\ cells[1].kind = "type"
      /\ writer[t].pc = "next" => m_Block[s].next = Base(s) + 1 /\ cells[1].kind = "next"
      /\ writer[t].pc = "id" => m_Block[s].next = Base(s) + 2 /\ s = t /\ cells[1].kind = "id" /\ cells[1] = [kind |-> "id", id |-> t]
      /\ Len(cells) = 1
      /\ \A i \in 2..Len(cells) : Plain(cells[i])
  BY <1>0, <1>3, InHandFacts DEF Puts
<1>8. s \in Int /\ t \in Nat \ {0} /\ t \in Streams
  BY StreamsFacts
<1>9. m_Block[s].next < m_Block[s].end /\ m_Block'[s].next = m_Block[s].next + 1
  <2>1. m_Block[s].next < m_Block[s].end
    <3>1. PICK base \in Nat, end \in Nat, next \in Nat :
            base = Base(s) /\ end = m_Block[s].end /\ next = m_Block[s].next
      BY <1>6
    <3>2. writer[t].pc = "id" => s > 0
      BY <1>7, <1>8
    <3>3. base + 2 <= end /\ (writer[t].pc = "id" => base + 3 <= end)
      BY <3>1, <3>2, <1>6
    <3>4. \/ next = base \/ next = base + 1
          \/ writer[t].pc = "id" /\ next = base + 2
      BY <3>1, <1>3, <1>7
    <3>5. next < end
      BY <3>3, <3>4
    <3> QED BY <3>1, <3>5
  <2>2. m_Block'[s].next = m_Block[s].next + Len(cells)
    BY <2>1, <1>3 DEF Puts, Wrote
  <2> QED BY <2>1, <2>2, <1>7
<1>10. /\ \A u \in Streams : m_Block'[u].end = m_Block[u].end /\ (HasBlock(u)' <=> HasBlock(u))
       /\ \A o \in DOMAIN file : file'[o] = file[o]
       /\ \A q \in EventOffsets : file'[q] = file[q]
  BY <1>0, <1>3, WroteKeeps DEF Puts, Known
<1>11. HandsInv'
  <2>1. ASSUME NEW v \in Threads, writer'[v].pc # "idle"
        PROVE  /\ EventHand(v, writer[v])' \/ DataHand(v, writer[v])'
               /\ writer'[v].pc # "reserve" => HasBlock(writer[v].stream)'
    <3>1. CASE v = t
      <4>1. s > 0 => EventHand(t, writer[t])'
        BY <1>3, <1>5, <1>6 DEF EventHand
      <4>2. s <= 0 => DataHand(t, writer[t])'
        <5> HAVE s <= 0
        <5>1. DataHand(t, writer[t])
          BY <1>6
        <5>2. writer'[t].pc # "id"
          BY <1>3, <5>1 DEF DataHand
        <5> QED BY <5>1, <5>2, <1>3, <1>5 DEF DataHand
      <4>3. HasBlock(s)'
        BY <1>6, <1>10 DEF Open
      <4>4. HasBlock(writer[t].stream)'
        BY <4>3, <1>3 DEF HasBlock
      <4> QED BY <3>1, <4>1, <4>2, <4>4, <1>8
    <3>2. CASE v # t
      <4>1. writer'[v] = writer[v]
        BY <3>2, <1>3 DEF Continues
      <4>2. /\ EventHand(v, writer[v]) \/ DataHand(v, writer[v])
            /\ writer[v].pc # "reserve" => HasBlock(writer[v].stream)
        BY <2>1, <4>1, <1>0 DEF Known, HandsInv
      <4>3. EventHand(v, writer[v])' \/ DataHand(v, writer[v])'
        BY <4>1, <4>2, <1>3 DEF EventHand, DataHand
      <4>4. writer[v].stream \in Streams
        BY DEF WriterInv, Writers
      <4>5. writer'[v].pc # "reserve" => HasBlock(writer[v].stream)'
        BY <4>1, <4>2, <4>4, <1>10 DEF HasBlock
      <4> QED BY <4>3, <4>5
    <3> QED BY <3>1, <3>2
  <2>2. \A v \in Threads : WritesTo(v, ProcessData)' => WritesTo(v, ProcessData)
    BY <1>3, <1>5 DEF WritesTo, Continues
  <2>3. \A v, u \in Threads : WritesTo(v, ProcessData)' /\ WritesTo(u, ProcessData)' => v = u
    BY <2>2, <1>0 DEF Known, HandsInv
  <2> QED BY <2>1, <2>3 DEF HandsInv
<1>12. ASSUME Open(s)' PROVE HeaderInv(s)'
  <2>1. Base(s)' = Base(s)
    BY <1>4, <1>12
  <2>2. \A v \in Threads : WritesTo(v, s)' => v = t
    <3> SUFFICES ASSUME NEW v \in Threads, WritesTo(v, s)', v # t PROVE FALSE
      OBVIOUS
    <3>1. WritesTo(v, s)
      BY <1>3 DEF WritesTo, Continues
    <3> QED BY <3>1, <1>0, <1>5, OneWriter DEF Known
  <2>3. WritesTo(t, s)'
    BY <1>3 DEF WritesTo
  <2>4. /\ writer'[t].pc = "next" => m_Block'[s].next = Base(s) + 1
        /\ writer'[t].pc = "id" => m_Block'[s].next = Base(s) + 2
        /\ writer'[t].pc # "type"
    <3>1. /\ writer'[t].pc = "next" => writer[t].pc = "type"
          /\ writer'[t].pc = "id" => writer[t].pc = "next"
          /\ writer'[t].pc # "type"
      BY <1>3
    <3> QED BY <3>1, <1>6, <1>7, <1>9
  <2>5. \/ writer'[t].pc \in {"type", "next", "id"}
        \/ m_Block'[s].next >= Base(s) + HeaderSize + (IF s > 0 THEN IDSize ELSE 0)
    <3>1. CASE writer[t].pc = "type"
      BY <3>1, <1>3
    <3>2. CASE writer[t].pc = "next"
      <4>1. CASE s > 0
        BY <3>2, <4>1, <1>3, <1>6 DEF EventHand
      <4>2. CASE ~(s > 0)
        BY <3>2, <4>2, <1>6, <1>7, <1>9 DEF HeaderSize, IDSize
      <4> QED BY <4>1, <4>2
    <3>3. CASE writer[t].pc = "id"
      BY <3>3, <1>6, <1>7, <1>9 DEF HeaderSize, IDSize
    <3> QED BY <3>1, <3>2, <3>3, <1>3
  <2> QED BY <2>1, <2>2, <2>3, <2>4, <2>5 DEF HeaderInv
<1>13. ASSUME s = t PROVE ThreadInv(t)'
  <2>1. Base(t)' = Base(t)
    BY <1>8, <1>10 DEF Base
  <2>2. ThreadInv(t) /\ EventHand(t, writer[t]) /\ WritesTo(t, t)
    BY <1>0, <1>5, <1>6, <1>8, <1>13 DEF Known, BlocksInv, Open
  <2>3. \A a \in DOMAIN file' : a \in DOMAIN file \/ (a = m_Block[t].next /\ k > 0)
    <3>1. k \in 0..1 /\ DOMAIN file' = DOMAIN file \cup Here(s, k)
      BY <1>3, <1>7 DEF Puts, Wrote
    <3>2. \A a \in Here(s, k) : a = m_Block[s].next /\ k > 0
      BY <3>1, <1>6 DEF Here
    <3> QED BY <3>1, <3>2, <1>13
  <2>4. m_Block[t].next \in DOMAIN file' /\ m_Block[t].next \notin DOMAIN file => file'[m_Block[t].next] = Stored(cells[1], k = Len(cells))
    <3> HAVE m_Block[t].next \in DOMAIN file' /\ m_Block[t].next \notin DOMAIN file
    <3>1. k > 0
      BY <2>3
    <3>2. file'[m_Block[s].next] = Stored(cells[1], k = Len(cells))
      <4>1. Wrote(s, cells, k)
        BY <1>3 DEF Puts
      <4>2. \A i \in 2..Len(cells) : Plain(cells[i])
        BY <1>7
      <4> QED BY ONLY <3>1, <4>1, <4>2, FileInv, s \in Streams, cells \in Seq(AnyCell), k \in Nat, WroteShape
    <3>3. m_Block[s].next = m_Block[t].next
      BY <1>13
    <3> QED BY <3>2, <3>3, Zenon
  <2>5. Base(t) \in DOMAIN file' /\ file'[Base(t)].kind = "type" => file'[Base(t)].type = "ThreadEvents"
    <3>1. CASE Base(t) \in DOMAIN file
      BY <3>1, <2>2, <1>10 DEF ThreadInv
    <3>2. CASE Base(t) \notin DOMAIN file /\ Base(t) \in DOMAIN file'
      <4>1. Base(t) = m_Block[t].next
        BY <2>3, <3>2
      <4>2. writer[t].pc = "type"
        BY <4>1, <1>3, <1>6, <1>7, <1>13
      <4>3. cells = <<[kind |-> "type", type |-> "ThreadEvents"]>>
        BY <4>2, <1>3, <2>2 DEF Puts, InHand, EventHand
      <4>4. file'[Base(t)] = [kind |-> "type", type |-> "ThreadEvents"]
        BY <2>4, <3>2, <4>1, <4>3 DEF Stored
      <4> QED BY <4>4
    <3> QED BY <3>1, <3>2
  <2>6. Base(t) + 2 \in DOMAIN file' => file'[Base(t) + 2] = [kind |-> "id", id |-> t]
    <3>1. CASE Base(t) + 2 \in DOMAIN file
      BY <3>1, <2>2, <1>10 DEF ThreadInv
    <3>2. CASE Base(t) + 2 \notin DOMAIN file /\ Base(t) + 2 \in DOMAIN file'
      <4>1. Base(t) + 2 = m_Block[t].next
        BY <2>3, <3>2
      <4>2. writer[t].pc = "id"
        BY <4>1, <1>3, <1>6, <1>7, <1>13
      <4>3. cells[1] = [kind |-> "id", id |-> t]
        BY <4>2, <1>7
      <4> QED BY <2>4, <3>2, <4>1, <4>3 DEF Stored
    <3> QED BY <3>1, <3>2
  <2>7. writer'[t].pc = "item" => m_Block'[t].next = Base(t) + 3
    <3> HAVE writer'[t].pc = "item"
    <3>1. writer[t].pc = "id"
      BY <1>3, <2>2 DEF EventHand
    <3> QED BY <3>1, <1>6, <1>7, <1>9, <1>13
  <2>8. Base(t) + 3 \notin DOMAIN file'
    <3>1. Base(t) + 3 < m_Block[t].end /\ Base(t) \in Nat
      BY <1>6, <1>13, RoomForEvents
    <3>2. m_Block[t].next < Base(t) + 3
      BY <1>3, <1>6, <1>7, <1>13
    <3>3. Base(t) + 3 \notin DOMAIN file
      <4> SUFFICES ASSUME Base(t) + 3 \in DOMAIN file PROVE FALSE
        OBVIOUS
      <4>1. Base(t) + 3 < m_Block[t].next
        <5>1. PICK a \in Nat : a = Base(t) + 3
          BY <3>1
        <5>2. Base(t) <= a /\ a < m_Block[t].end /\ a \in DOMAIN file
          BY <3>1, <5>1
        <5>3. a < m_Block[t].next
          BY <5>2, <1>0, <1>6, <1>8, <1>13, NextInBlock DEF Known
        <5> QED BY <5>1, <5>3
      <4> QED BY <4>1, <3>1, <3>2, <1>6, <1>13
    <3> QED BY <3>1, <3>2, <3>3, <2>3, <1>6, <1>13
  <2> QED BY <2>1, <2>5, <2>6, <2>7, <2>8 DEF ThreadInv
<1>14. \A u \in Streams : Open(u)' => PlaceInv(u)' /\ HeaderInv(u)'
  <2> SUFFICES ASSUME NEW u \in Streams, Open(u)' PROVE PlaceInv(u)' /\ HeaderInv(u)'
    OBVIOUS
  <2>1. CASE u = s
    BY <2>1, <1>4, <1>12
  <2>2. CASE u # s
    BY <2>2, <1>0, <1>3, <1>4, PutsOtherStreams
  <2> QED BY <2>1, <2>2
<1>15. \A u \in Threads : HasBlock(u)' => ThreadInv(u)'
  <2> SUFFICES ASSUME NEW u \in Threads, HasBlock(u)' PROVE ThreadInv(u)'
    OBVIOUS
  <2>1. CASE u = s
    <3>1. u = t
      BY <2>1, <1>6, <1>8, StreamsFacts
    <3> QED BY <2>1, <3>1, <1>13
  <2>2. CASE u # s
    BY <2>2, <1>0, <1>3, PutsOtherThreads
  <2> QED BY <2>1, <2>2
<1>16. LogOrder'
  <2>1. EventOffsets' = EventOffsets
    <3>1. EventOffsets' # EventOffsets => PutsEvent(t, s, cells, k)
      BY <1>0, <1>3, NewEvent
    <3>2. cells[1].kind # "event"
      BY <1>3, <1>7
    <3> QED BY <3>1, <3>2 DEF PutsEvent
  <2> QED BY <2>1, <1>0, <1>3, <1>10, LogOrderKept
<1>17. BlocksInv'
  BY <1>4, <1>14, <1>15 DEF BlocksInv
<1> QED BY <1>4, <1>11, <1>16, <1>17 DEF ReadInv

-----------------------------------------------------------------------------
\* Thread t writes its item to stream s: it goes on in a new block, or is done.
GoesOn(t, s, k) ==
  /\ k < Len(writer[t].item) /\ writer'[t].pc = "reserve" /\ writer'[t].stream = s
  /\ writer'[t].item = writer[t].item /\ writer'[t].type = writer[t].type
  /\ log' = log /\ PreviousEventSize' = PreviousEventSize

\* The item is written, or given up.
IsDone(t, s, k) ==
  /\ writer'[t] = Idle
  /\ k < Len(writer[t].item) => s < 0 \/ writer[t].again
  /\ k = Len(writer[t].item) /\ writer[t].type = "ThreadEvents" =>
       /\ log' = [log EXCEPT ![t] = Append(@, [offset |-> m_Block[s].next, event |-> writer[t].item[1]])]
       /\ PreviousEventSize' = [PreviousEventSize EXCEPT ![t] = Len(writer[t].item)]
  /\ ~(k = Len(writer[t].item) /\ writer[t].type = "ThreadEvents") =>
       log' = log /\ PreviousEventSize' = PreviousEventSize

\* What WriteItem does.
Items(t, s, k) ==
  /\ writer[t].pc = "item" /\ Puts(t, s, writer[t].item, k) /\ Continues(t)
  /\ GoesOn(t, s, k) \/ IsDone(t, s, k)

\* The phase that follows a write of thread t, and when.
PhaseAfter(t) == CASE writer[t].type = "ModuleBitcode" -> "process"
                   [] writer[t].type = "ProcessTrace"  -> "running"
                   [] OTHER                            -> phase
PhaseMoves(t) == phase' = IF writer'[t].pc = "idle" THEN PhaseAfter(t) ELSE phase

\* The writer of an item is done with it or goes on to another block.
LEMMA ItemEffect ==
  ASSUME Known, NEW t \in Threads, WriteItem(t)
  PROVE  /\ writer[t].item \in Seq(AnyCell)
         /\ \E s \in Streams, k \in Nat :
              Items(t, s, k) /\ OutputBlockWrite(s, writer[t].item, k) /\ PhaseMoves(t)
PROOF
<1> DEFINE w == writer[t]
<1>1. PICK s \in Streams : s = w.stream
  BY DEF Known, WriterInv, Writers
<1>2. w \in Writers /\ w.item \in Seq(ItemCell) /\ Len(w.item) \in Nat
  BY DEF Known, WriterInv, Writers
<1>3. w.pc = "item" /\ m_TraceOffset' = m_TraceOffset
  BY DEF WriteItem, At
<1>4. PICK k \in 0..Len(w.item) :
        /\ OutputBlockWrite(w.stream, w.item, k)
        /\ IF k < Len(w.item) /\ Retries(w)
           THEN /\ writer' = [writer EXCEPT ![t].pc = "reserve", ![t].again = TRUE]
                /\ UNCHANGED <<log, PreviousEventSize, refs, DataOutOffset, phase>>
           ELSE Finished(t, k = Len(w.item))
  BY DEF WriteItem
<1>5. w.item \in Seq(AnyCell)
  BY <1>2, SeqMonotonic DEF AnyCell
<1>6. k \in Nat
  BY <1>2
<1>7. Puts(t, s, w.item, k)
  <2>1. Wrote(s, w.item, k)
    BY <1>1, <1>3, <1>4, <1>5, <1>6, WriteEffect DEF Known
  <2>2. InHand(t, s, w.item)
    BY <1>3 DEF InHand
  <2>3. WritesTo(t, s)
    BY <1>1, <1>3 DEF WritesTo
  <2> QED BY <2>1, <2>2, <2>3 DEF Puts
<1>8. CASE k < Len(w.item) /\ Retries(w)
  <2>1. /\ writer' = [writer EXCEPT ![t].pc = "reserve", ![t].again = TRUE]
        /\ log' = log /\ PreviousEventSize' = PreviousEventSize
    BY <1>4, <1>8
  <2>2. /\ writer'[t].pc = "reserve" /\ writer'[t].stream = s /\ writer'[t].item = w.item
        /\ writer'[t].type = w.type
        /\ \A v \in Threads : v # t => writer'[v] = writer[v]
    BY <2>1, <1>1, <1>2 DEF Known, WriterInv, Writers
  <2>3. Continues(t)
    BY <2>2, <1>1, <1>3 DEF Continues
  <2>4. GoesOn(t, s, k)
    BY <2>1, <2>2, <1>8 DEF GoesOn
  <2>5. PhaseMoves(t)
    BY <1>4, <1>8, <2>2 DEF PhaseMoves
  <2> QED BY <2>3, <2>4, <2>5, <1>1, <1>3, <1>4, <1>5, <1>6, <1>7 DEF Items
<1>9. CASE ~(k < Len(w.item) /\ Retries(w))
  <2>1. Finished(t, k = Len(w.item))
    BY <1>4, <1>9
  <2>2. writer' = [writer EXCEPT ![t] = Idle]
    BY <2>1 DEF Finished
  <2>3. writer'[t] = Idle /\ \A v \in Threads : v # t => writer'[v] = writer[v]
    BY <2>2 DEF Known, WriterInv
  <2>4. Continues(t)
    BY <2>3 DEF Continues
  <2>5. k < Len(w.item) => s < 0 \/ w.again
    BY <1>1, <1>9, StreamsFacts DEF Retries
  <2>6. k = Len(w.item) /\ w.type = "ThreadEvents" =>
          /\ log' = [log EXCEPT ![t] = Append(@, [offset |-> m_Block[s].next, event |-> w.item[1]])]
          /\ PreviousEventSize' = [PreviousEventSize EXCEPT ![t] = Len(w.item)]
    BY <2>1, <1>1 DEF Finished
  <2>7. ~(k = Len(w.item) /\ w.type = "ThreadEvents") => log' = log /\ PreviousEventSize' = PreviousEventSize
    BY <2>1 DEF Finished
  <2>8. IsDone(t, s, k)
    BY <2>3, <2>5, <2>6, <2>7 DEF IsDone
  <2>9. PhaseMoves(t)
    BY <2>1, <2>3 DEF PhaseMoves, PhaseAfter, Finished, Idle
  <2> QED BY <2>4, <2>8, <2>9, <1>1, <1>3, <1>4, <1>5, <1>6, <1>7 DEF Items
<1> QED BY <1>8, <1>9

\* The log grows by the event that was written, behind all others.
LEMMA LogOrderGrows ==
  ASSUME Known, LogInv, OtherTypes, LogOrder, NEW t \in Threads, NEW x \in Nat, NEW e \in EventCell,
         log' = [log EXCEPT ![t] = Append(@, [offset |-> x, event |-> e])],
         PreviousEventSize' = [PreviousEventSize EXCEPT ![t] = e.size],
         e.by = t, ~e.torn, e.prev = PreviousEventSize[t], x >= m_Block[t].next,
         \A q \in EventOffsets' : \/ q \in EventOffsets /\ file'[q] = file[q]
                                  \/ q = x /\ file'[q].by = t
  PROVE  LogOrder'
PROOF
<1> DEFINE S == [offset : Nat, event : EventCell]
           r == [offset |-> x, event |-> e]
<1>1. log \in [Threads -> Seq(S)] /\ r \in S /\ r.offset = x /\ r.event = e
  BY DEF LogInv
<1>2. /\ log'[t] = Append(log[t], r)
      /\ \A u \in Threads : u # t => log'[u] = log[u]
  BY <1>1
<1>3. /\ DOMAIN log[t] = 1..Len(log[t]) /\ Len(log[t]) \in Nat
      /\ DOMAIN log'[t] = 1..(Len(log[t]) + 1) /\ Len(log'[t]) = Len(log[t]) + 1
      /\ \A i \in DOMAIN log[t] : log'[t][i] = log[t][i]
      /\ log'[t][Len(log[t]) + 1] = r
      /\ log[t] = <<>> <=> Len(log[t]) = 0
      /\ log'[t] # <<>>
  BY <1>1, <1>2, AppendProperties, LenProperties
<1>4. /\ PreviousEventSize'[t] = e.size
      /\ \A u \in Threads : u # t => PreviousEventSize'[u] = PreviousEventSize[u]
  BY DEF OtherTypes
<1> HIDE DEF r, S
<1>5. \A u \in Threads :
        /\ \A i, j \in DOMAIN log[u] : i < j => log[u][i].offset < log[u][j].offset
        /\ \A i \in DOMAIN log[u] :
             /\ log[u][i].event.by = u /\ ~log[u][i].event.torn
             /\ log[u][i].event.prev = IF i = 1 THEN 0 ELSE log[u][i - 1].event.size
        /\ PreviousEventSize[u] = IF log[u] = <<>> THEN 0 ELSE log[u][Len(log[u])].event.size
        /\ \A q \in EventOffsets : file[q].by = u /\ ~file[q].torn => \E i \in DOMAIN log[u] : log[u][i].offset = q
  BY DEF LogOrder
<1>6. \A i \in DOMAIN log[t] : log[t][i].offset \in Nat /\ log[t][i].offset < x
  <2> SUFFICES ASSUME NEW i \in DOMAIN log[t] PROVE log[t][i].offset \in Nat /\ log[t][i].offset < x
    OBVIOUS
  <2>1. log[t][i].offset \in DOMAIN file /\ file[log[t][i].offset] = log[t][i].event /\ log[t][i].event.by = t
    BY <1>5 DEF LogInv
  <2>2. log[t] \in Seq(S) /\ i \in 1..Len(log[t])
    BY <1>1, <1>3
  <2>3. log[t][i] \in S
    BY <2>2, ElementOfSeq
  <2>4. log[t][i].event.kind = "event"
    BY <2>3 DEF S, EventCell
  <2>5. PICK q \in EventOffsets : q = log[t][i].offset /\ file[q].by = t
    BY <2>1, <2>4 DEF EventOffsets
  <2>6. q \in Nat /\ file[q].size \in Nat /\ file[q].size >= 1 /\ q + file[q].size <= m_Block[t].next
    BY <2>5, Numbers DEF Known, EventsInv
  <2>7. m_Block[t].next \in Nat
    BY Numbers, StreamsFacts DEF Known
  <2> QED BY <2>5, <2>6, <2>7
<1> DEFINE P(u) == /\ \A i, j \in DOMAIN log'[u] : i < j => log'[u][i].offset < log'[u][j].offset
                   /\ \A i \in DOMAIN log'[u] :
                        /\ log'[u][i].event.by = u /\ ~log'[u][i].event.torn
                        /\ log'[u][i].event.prev = IF i = 1 THEN 0 ELSE log'[u][i - 1].event.size
                   /\ PreviousEventSize'[u] = IF log'[u] = <<>> THEN 0 ELSE log'[u][Len(log'[u])].event.size
                   /\ \A q \in EventOffsets' : file'[q].by = u /\ ~file'[q].torn => \E i \in DOMAIN log'[u] : log'[u][i].offset = q
<1> SUFFICES ASSUME NEW u \in Threads PROVE P(u)
  BY DEF LogOrder
<1>7. CASE u # t
  <2>1. log'[u] = log[u] /\ PreviousEventSize'[u] = PreviousEventSize[u]
    BY <1>2, <1>4, <1>7
  <2>2. \A q \in EventOffsets' : file'[q].by = u /\ ~file'[q].torn => \E i \in DOMAIN log[u] : log[u][i].offset = q
    <3> SUFFICES ASSUME NEW q \in EventOffsets', file'[q].by = u, ~file'[q].torn
                 PROVE  \E i \in DOMAIN log[u] : log[u][i].offset = q
      OBVIOUS
    <3>1. q \in EventOffsets /\ file'[q] = file[q]
      BY <1>7
    <3>2. file[q].by = u /\ ~file[q].torn
      BY <3>1, Zenon
    <3> QED BY <3>1, <3>2, <1>5
  <2>0. /\ \A i \in DOMAIN log[u] :
             /\ log[u][i].event.by = u /\ ~log[u][i].event.torn
             /\ log[u][i].event.prev = IF i = 1 THEN 0 ELSE log[u][i - 1].event.size
        /\ PreviousEventSize[u] = IF log[u] = <<>> THEN 0 ELSE log[u][Len(log[u])].event.size
    BY <1>5
  <2>3. \A i, j \in DOMAIN log'[u] : i < j => log'[u][i].offset < log'[u][j].offset
    BY <2>1, <1>5
  <2>4. \A i \in DOMAIN log'[u] :
           /\ log'[u][i].event.by = u /\ ~log'[u][i].event.torn
           /\ log'[u][i].event.prev = IF i = 1 THEN 0 ELSE log'[u][i - 1].event.size
    BY ONLY <2>0, <2>1, Zenon
  <2>5. PreviousEventSize'[u] = IF log'[u] = <<>> THEN 0 ELSE log'[u][Len(log'[u])].event.size
    BY ONLY <2>0, <2>1, Zenon
  <2>6. \A q \in EventOffsets' : file'[q].by = u /\ ~file'[q].torn => \E i \in DOMAIN log'[u] : log'[u][i].offset = q
    BY <2>1, <2>2, Zenon
  <2> QED BY <2>3, <2>4, <2>5, <2>6
<1>8. CASE u = t
  <2>1. \A i, j \in DOMAIN log'[t] : i < j => log'[t][i].offset < log'[t][j].offset
    <3> SUFFICES ASSUME NEW i \in DOMAIN log'[t], NEW j \in DOMAIN log'[t], i < j
                 PROVE  log'[t][i].offset < log'[t][j].offset
      OBVIOUS
    <3>1. i \in DOMAIN log[t]
      BY <1>3
    <3>2. CASE j \in DOMAIN log[t]
      BY <3>1, <3>2, <1>3, <1>5
    <3>3. CASE j \notin DOMAIN log[t]
      <4>1. j = Len(log[t]) + 1
        BY <3>3, <1>3
      <4> QED BY <4>1, <3>1, <1>1, <1>3, <1>6
    <3> QED BY <3>2, <3>3
  <2>2. ASSUME NEW i \in DOMAIN log'[t]
        PROVE  /\ log'[t][i].event.by = t /\ ~log'[t][i].event.torn
               /\ log'[t][i].event.prev = IF i = 1 THEN 0 ELSE log'[t][i - 1].event.size
    <3>1. CASE i \in DOMAIN log[t]
      <4>1. i = 1 \/ i - 1 \in DOMAIN log[t]
        BY <3>1, <1>3
      <4> QED BY <3>1, <4>1, <1>3, <1>5
    <3>2. CASE i \notin DOMAIN log[t]
      <4>1. i = Len(log[t]) + 1 /\ log'[t][i].event = e
        BY <3>2, <1>1, <1>3
      <4>2. log'[t][i].event.prev = PreviousEventSize[t] /\ log'[t][i].event.by = t
        BY <4>1
      <4>3. ~log'[t][i].event.torn
        BY <4>1, Zenon
      <4>4. PreviousEventSize[t] = IF i = 1 THEN 0 ELSE log'[t][i - 1].event.size
        <5>1. CASE log[t] = <<>>
          BY <5>1, <4>1, <1>3, <1>5
        <5>2. CASE log[t] # <<>>
          <6>1. i - 1 = Len(log[t]) /\ i # 1 /\ Len(log[t]) \in DOMAIN log[t]
            BY <4>1, <5>2, <1>3
          <6>2. log'[t][i - 1] = log[t][Len(log[t])]
            BY <6>1, <1>3
          <6> QED BY <5>2, <6>1, <6>2, <1>5
        <5> QED BY <5>1, <5>2
      <4> QED BY <4>2, <4>3, <4>4
    <3> QED BY <3>1, <3>2
  <2>3. PreviousEventSize'[t] = IF log'[t] = <<>> THEN 0 ELSE log'[t][Len(log'[t])].event.size
    BY <1>1, <1>3, <1>4
  <2>4. ASSUME NEW q \in EventOffsets', file'[q].by = t, ~file'[q].torn
        PROVE  \E i \in DOMAIN log'[t] : log'[t][i].offset = q
    <3>1. CASE q \in EventOffsets /\ file'[q] = file[q]
      <4>0. file[q].by = t /\ ~file[q].torn
        BY <3>1, <2>4, Zenon
      <4>1. PICK i \in DOMAIN log[t] : log[t][i].offset = q
        BY <3>1, <4>0, <1>5
      <4> QED BY <4>1, <1>3
    <3>2. CASE q = x
      <4>1. Len(log[t]) + 1 \in DOMAIN log'[t]
        BY <1>3
      <4> QED BY <4>1, <3>2, <1>1, <1>3
    <3> QED BY <3>1, <3>2
  <2>5. P(t)
    BY <2>1, <2>2, <2>3, <2>4
  <2> HIDE DEF P
  <2> QED BY <2>5, <1>8
<1> QED BY <1>7, <1>8

\* Writing an item, whether or not it fails, keeps the shape of the file.
LEMMA ItemRead ==
  ASSUME FileInv, WriterInv, LogInv, OtherTypes, ReadInv, NEW t \in Threads, WriteItem(t)
  PROVE  ReadInv'
PROOF
<1>0. Known /\ LogOrder /\ 0 \in DOMAIN file
  BY DEF ReadInv, Known
<1>1. PICK s \in Streams, k \in Nat : Items(t, s, k)
  BY <1>0, ItemEffect
<1>2. PICK cells \in Seq(AnyCell) : cells = writer[t].item
  BY <1>0, ItemEffect
<1>3. /\ writer[t].pc = "item" /\ Puts(t, s, cells, k) /\ Continues(t)
      /\ GoesOn(t, s, k) \/ IsDone(t, s, k)
  BY <1>1, <1>2 DEF Items
<1>4. /\ NextInv' /\ EventsInv' /\ ContentInv' /\ 0 \in DOMAIN file'
      /\ \A u \in Streams : Open(u)' => PlaceInv(u)' /\ Open(u) /\ Base(u)' = Base(u)
      /\ \A v, u \in Streams : HasBlock(v)' /\ v # u => m_Block'[v].end # m_Block'[u].end
  BY <1>0, <1>3, PutsFile
<1>5. WritesTo(t, s) /\ writer[t].stream = s
  BY <1>3 DEF Puts, WritesTo
<1>6. /\ Open(s) /\ Base(s) \in Nat \ {0} /\ m_Block[s].end \in Nat /\ m_Block[s].next \in Nat
      /\ s \in {0, t, -t} /\ (s > 0 => s = t)
      /\ s > 0 => EventHand(t, writer[t])
      /\ s <= 0 => DataHand(t, writer[t])
  BY <1>0, <1>3, <1>5, OpenWhenWriting
<1>7. /\ m_Block[s].next >= Base(s) + 2 /\ (s > 0 => m_Block[s].next >= Base(s) + 3)
      /\ \A i \in 2..Len(cells) : Plain(cells[i])
  BY <1>0, <1>3, InHandFacts DEF Puts
<1>8. s \in Int /\ t \in Nat \ {0} /\ t \in Streams
  BY StreamsFacts
<1>9. /\ \A u \in Streams : m_Block'[u].end = m_Block[u].end /\ (HasBlock(u)' <=> HasBlock(u))
      /\ \A o \in DOMAIN file : o \in DOMAIN file' /\ file'[o] = file[o]
      /\ \A q \in EventOffsets : file'[q] = file[q]
  BY <1>0, <1>3, WroteKeeps DEF Puts, Known
<1>10. Len(cells) \in Nat /\ k \in 0..Len(cells) /\ m_Block'[s].next \in Nat /\ m_Block'[s].next >= m_Block[s].next
       /\ (k > 0 => m_Block'[s].next = m_Block[s].next + Len(cells))
  <2>1. /\ Len(cells) \in Nat /\ k \in 0..Len(cells)
        /\ m_Block'[s].next = IF m_Block[s].next < m_Block[s].end
                              THEN m_Block[s].next + Len(cells) ELSE m_Block[s].next
        /\ k > 0 => m_Block[s].next + Len(cells) <= m_Block[s].end
    BY <1>3 DEF Puts, Wrote
  <2> QED BY <2>1, <1>6
<1>11. /\ \A v \in Threads : v # t => writer'[v] = writer[v] /\ PreviousEventSize'[v] = PreviousEventSize[v]
       /\ writer'[t].pc \in {"idle", "reserve"}
       /\ writer'[t].pc # "idle" => GoesOn(t, s, k)
  <2>1. \A v \in Threads : v # t => writer'[v] = writer[v]
    BY <1>3 DEF Continues
  <2>2. CASE GoesOn(t, s, k)
    BY <2>1, <2>2 DEF GoesOn
  <2>3. CASE IsDone(t, s, k)
    <3>1. \A v \in Threads : v # t => PreviousEventSize'[v] = PreviousEventSize[v]
      BY <2>3 DEF IsDone, OtherTypes
    <3> QED BY <2>1, <2>3, <3>1 DEF IsDone, Idle
  <2> QED BY <2>2, <2>3, <1>3
<1>12. \A v \in Threads : \A u \in Streams : WritesTo(v, u)' => WritesTo(v, u)
  <2> SUFFICES ASSUME NEW v \in Threads, NEW u \in Streams, WritesTo(v, u)' PROVE WritesTo(v, u)
    OBVIOUS
  <2>1. CASE v # t
    BY <2>1, <1>11 DEF WritesTo
  <2>2. CASE v = t
    <3>1. writer'[t].stream = s
      BY <2>2, <1>11 DEF WritesTo, GoesOn
    <3> QED BY <2>2, <3>1, <1>5 DEF WritesTo
  <2> QED BY <2>1, <2>2
<1>13. HandsInv'
  <2>1. ASSUME NEW v \in Threads, writer'[v].pc # "idle"
        PROVE  /\ EventHand(v, writer[v])' \/ DataHand(v, writer[v])'
               /\ writer'[v].pc # "reserve" => HasBlock(writer[v].stream)'
    <3>1. CASE v = t
      <4>1. GoesOn(t, s, k)
        BY <2>1, <3>1, <1>11
      <4>2. EventHand(t, writer[t]) \/ DataHand(t, writer[t])
        BY <1>6, <1>8
      <4>3. EventHand(t, writer[t])' \/ DataHand(t, writer[t])'
        BY <4>1, <4>2, <1>5 DEF GoesOn, EventHand, DataHand
      <4> QED BY <3>1, <4>3, <1>11, <2>1
    <3>2. CASE v # t
      <4>1. writer'[v] = writer[v] /\ PreviousEventSize'[v] = PreviousEventSize[v]
        BY <3>2, <1>11
      <4>2. /\ EventHand(v, writer[v]) \/ DataHand(v, writer[v])
            /\ writer[v].pc # "reserve" => HasBlock(writer[v].stream)
        BY <2>1, <4>1, <1>0 DEF Known, HandsInv
      <4>3. EventHand(v, writer[v])' \/ DataHand(v, writer[v])'
        BY <4>1, <4>2 DEF EventHand, DataHand
      <4>4. writer[v].stream \in Streams
        BY DEF WriterInv, Writers
      <4>5. writer'[v].pc # "reserve" => HasBlock(writer[v].stream)'
        BY <4>1, <4>2, <4>4, <1>9 DEF HasBlock
      <4> QED BY <4>3, <4>5
    <3> QED BY <3>1, <3>2
  <2>2. \A v, u \in Threads : WritesTo(v, ProcessData)' /\ WritesTo(u, ProcessData)' => v = u
    BY <1>0, <1>12, StreamsFacts DEF Known, HandsInv
  <2> QED BY <2>1, <2>2 DEF HandsInv
<1>14. ASSUME Open(s)' PROVE HeaderInv(s)'
  <2>1. Base(s)' = Base(s)
    BY <1>4, <1>14
  <2>2. \A v \in Threads : WritesTo(v, s)' => v = t
    BY <1>0, <1>5, <1>12, OneWriter DEF Known
  <2>3. writer'[t].pc \notin {"type", "next", "id"}
    BY <1>11
  <2>4. m_Block'[s].next >= Base(s) + HeaderSize + (IF s > 0 THEN IDSize ELSE 0)
    BY <1>6, <1>7, <1>8, <1>10 DEF HeaderSize, IDSize
  <2> QED BY <2>1, <2>2, <2>3, <2>4 DEF HeaderInv
<1>15. ASSUME s = t PROVE ThreadInv(t)'
  <2>1. Base(t)' = Base(t)
    BY <1>8, <1>9 DEF Base
  <2>2. ThreadInv(t) /\ EventHand(t, writer[t]) /\ WritesTo(t, t)
    BY <1>0, <1>5, <1>6, <1>8, <1>15 DEF Known, BlocksInv, Open
  <2>3. Base(t) \in Nat /\ m_Block[t].next \in Nat /\ m_Block[t].next >= Base(t) + 3
        /\ Base(t) + 3 < m_Block[t].end
    BY <1>6, <1>7, <1>8, <1>15, RoomForEvents
  <2>4. \A a \in DOMAIN file' : a < m_Block[t].next => a \in DOMAIN file /\ file'[a] = file[a]
    <3> SUFFICES ASSUME NEW a \in DOMAIN file', a < m_Block[t].next PROVE a \in DOMAIN file
      BY <1>9
    <3>1. a \in DOMAIN file \/ (a \in Nat /\ m_Block[t].next <= a)
      BY <1>0, <1>3, <1>15, PutWhere
    <3> QED BY <3>1, <2>3
  <2>5. Base(t) \in DOMAIN file' /\ file'[Base(t)].kind = "type" => file'[Base(t)].type = "ThreadEvents"
    BY <2>2, <2>3, <2>4 DEF ThreadInv
  <2>6. Base(t) + 2 \in DOMAIN file' => file'[Base(t) + 2] = [kind |-> "id", id |-> t]
    BY <2>2, <2>3, <2>4 DEF ThreadInv
  <2>7. Base(t) + 3 \in DOMAIN file' /\ ~(WritesTo(t, t)' /\ writer'[t].pc # "item") =>
           \E o \in EventOffsets' : Base(t) + 3 <= o /\ o + file'[o].size = m_Block'[t].next
    <3> HAVE Base(t) + 3 \in DOMAIN file' /\ ~(WritesTo(t, t)' /\ writer'[t].pc # "item")
    <3>1. IsDone(t, s, k)
      <4>1. ~GoesOn(t, s, k)
        <5>1. GoesOn(t, s, k) => WritesTo(t, t)' /\ writer'[t].pc # "item"
          BY <1>15 DEF GoesOn, WritesTo
        <5> QED BY <5>1
      <4> QED BY <4>1, <1>3
    <3>2. CASE k = 0
      <4>1. Len(cells) >= 1
        BY <2>2, <1>2 DEF EventHand
      <4>2. writer[t].again
        BY <3>1, <3>2, <4>1, <1>2, <1>8, <1>15 DEF IsDone
      <4>3. m_Block[t].next = Base(t) + 3
        BY <2>2, <4>2, <1>3 DEF ThreadInv
      <4>4. Base(t) + 3 \in DOMAIN file
        BY <3>2, <1>3, <1>15, <1>6 DEF Puts, Wrote, Here
      <4>5. PICK a \in Nat : a = Base(t) + 3
        BY <2>3
      <4>6. Base(t) <= a /\ a < m_Block[t].end /\ a \in DOMAIN file
        BY <4>4, <4>5, <2>3
      <4>7. a < m_Block[t].next
        BY <4>6, <1>0, <1>6, <1>8, <1>15, NextInBlock DEF Known
      <4> QED BY <4>3, <4>5, <4>7, <2>3
    <3>3. CASE k > 0
      <4>1. FirstIs(t, s, cells, k)
        BY <3>3, <1>0, <1>3, FirstCell
      <4>2. cells[1].kind = "event"
        BY <2>2, <1>2 DEF EventHand
      <4>3. file'[m_Block[s].next].size = Len(cells)
        BY <4>1, <4>2 DEF FirstIs
      <4>4. EventOffsets' = EventOffsets \cup {m_Block[s].next}
        BY <3>3, <4>2, <1>0, <1>3, <1>7, WroteShape DEF Puts, Known
      <4>5. m_Block[s].next \in EventOffsets'
        BY <4>4
      <4>6. m_Block'[s].next = m_Block[s].next + Len(cells)
        BY <3>3, <1>10
      <4> QED BY <4>3, <4>5, <4>6, <2>3, <1>15
    <3> QED BY <3>2, <3>3, <1>10
  <2>8. ~(WritesTo(t, t)' /\ writer'[t].pc = "item")
    BY <1>11
  <2> QED BY <2>1, <2>5, <2>6, <2>7, <2>8 DEF ThreadInv
<1>16. \A u \in Streams : Open(u)' => PlaceInv(u)' /\ HeaderInv(u)'
  <2> SUFFICES ASSUME NEW u \in Streams, Open(u)' PROVE PlaceInv(u)' /\ HeaderInv(u)'
    OBVIOUS
  <2>1. CASE u = s
    BY <2>1, <1>4, <1>14
  <2>2. CASE u # s
    BY <2>2, <1>0, <1>3, <1>4, PutsOtherStreams
  <2> QED BY <2>1, <2>2
<1>17. \A u \in Threads : HasBlock(u)' => ThreadInv(u)'
  <2> SUFFICES ASSUME NEW u \in Threads, HasBlock(u)' PROVE ThreadInv(u)'
    OBVIOUS
  <2>1. CASE u = s
    <3>1. u = t
      BY <2>1, <1>6, <1>8, StreamsFacts
    <3> QED BY <2>1, <3>1, <1>15
  <2>2. CASE u # s
    BY <2>2, <1>0, <1>3, PutsOtherThreads
  <2> QED BY <2>1, <2>2
<1>18. LogOrder'
  <2>1. /\ EventOffsets' \subseteq EventOffsets \cup {m_Block[s].next}
        /\ EventOffsets' # EventOffsets => PutsEvent(t, s, cells, k)
    BY <1>0, <1>3, NewEvent
  <2>2. CASE IsDone(t, s, k) /\ k = Len(writer[t].item) /\ writer[t].type = "ThreadEvents"
    <3>1. EventHand(t, writer[t]) /\ s = t
      BY <2>2, <1>6, <1>8 DEF DataHand
    <3>2. PICK e \in EventCell : e = writer[t].item[1] /\ ~e.torn
      BY <2>2, <1>3 DEF WriterInv, EventInHand
    <3>3. e.by = t /\ e.prev = PreviousEventSize[t] /\ e.size = Len(writer[t].item)
      BY <3>1, <3>2 DEF EventHand
    <3>4. PICK x \in Nat : x = m_Block[s].next
      BY <1>6
    <3>5. log' = [log EXCEPT ![t] = Append(@, [offset |-> x, event |-> e])]
      BY <2>2, <3>2, <3>4 DEF IsDone
    <3>6. PreviousEventSize' = [PreviousEventSize EXCEPT ![t] = e.size]
      BY <2>2, <3>3 DEF IsDone
    <3>7. \A q \in EventOffsets' : \/ q \in EventOffsets /\ file'[q] = file[q]
                                   \/ q = x /\ file'[q].by = t
      <4> SUFFICES ASSUME NEW q \in EventOffsets', q \notin EventOffsets PROVE q = x /\ file'[q].by = t
        BY <1>9
      <4>1. PutsEvent(t, s, cells, k) /\ q = m_Block[s].next
        BY <2>1
      <4> QED BY <4>1, <3>4 DEF PutsEvent
    <3>8. x >= m_Block[t].next
      BY <3>1, <3>4
    <3> QED BY <3>2, <3>3, <3>5, <3>6, <3>7, <3>8, <1>0, LogOrderGrows
  <2>3. CASE ~(IsDone(t, s, k) /\ k = Len(writer[t].item) /\ writer[t].type = "ThreadEvents")
    <3>1. log' = log /\ PreviousEventSize' = PreviousEventSize
      BY <2>3, <1>3 DEF IsDone, GoesOn
    <3>2. \A q \in EventOffsets' : \/ q \in EventOffsets /\ file'[q] = file[q]
                                   \/ file'[q].torn = TRUE
      <4> SUFFICES ASSUME NEW q \in EventOffsets', q \notin EventOffsets PROVE file'[q].torn = TRUE
        BY <1>9
      <4>1. PutsEvent(t, s, cells, k) /\ q = m_Block[s].next
        BY <2>1
      <4>2. s > 0
        BY <4>1 DEF PutsEvent
      <4>3. writer[t].type = "ThreadEvents"
        BY <4>2, <1>6 DEF EventHand
      <4>4. k # Len(cells)
        BY <4>3, <2>3, <1>2, <1>3 DEF GoesOn
      <4> QED BY <4>1, <4>4 DEF PutsEvent
    <3> QED BY <3>1, <3>2, <1>0, LogOrderKept
  <2> QED BY <2>2, <2>3
<1>19. BlocksInv'
  BY <1>4, <1>16, <1>17 DEF BlocksInv
<1> QED BY <1>4, <1>13, <1>18, <1>19 DEF ReadInv

-----------------------------------------------------------------------------
\* The shape of the file at first, and after each step.
LEMMA InitRead == Init => ReadInv
PROOF
<1> SUFFICES ASSUME Init PROVE ReadInv
  OBVIOUS
<1>1. DOMAIN file = {0} /\ file[0].kind = "magic" /\ 0 \in DOMAIN file
  BY DEF Init
<1>2. NextOffsets = {} /\ EventOffsets = {}
  BY <1>1 DEF NextOffsets, EventOffsets
<1>3. \A s \in Streams : ~HasBlock(s)
  BY DEF Init, NoBlock, HasBlock
<1>4. \A t \in Threads : writer[t].pc = "idle" /\ log[t] = <<>> /\ PreviousEventSize[t] = 0
  BY DEF Init, Idle
<1>5. HandsInv
  BY <1>4 DEF HandsInv, WritesTo
<1>6. BlocksInv
  BY <1>3, StreamsFacts DEF BlocksInv, Open
<1>7. NextInv /\ EventsInv /\ ContentInv
  BY <1>2 DEF NextInv, EventsInv, ContentInv
<1>8. LogOrder
  BY <1>2, <1>4 DEF LogOrder
<1> QED BY <1>1, <1>5, <1>6, <1>7, <1>8 DEF ReadInv

\* Every step keeps the shape of the file.
LEMMA NextRead ==
  ASSUME IndInv, ReadInv, [Next]_vars
  PROVE  ReadInv'
PROOF
<1>1. FileInv /\ WriterInv /\ LogInv /\ OtherTypes
  BY Parts
<1>2. CASE writeModule \/ traceWriteProcessData
  BY <1>1, <1>2, StartRead, StreamsFacts
<1>3. ASSUME NEW t \in Threads,
             \/ \E size \in EventSizes : write(t, size)
             \/ \E size \in DataSizes : recordData(t, size)
      PROVE  ReadInv'
  BY <1>1, <1>3, StartRead
<1>4. ASSUME NEW t \in Threads, getOutputBlock(t) PROVE ReadInv'
  BY <1>1, <1>4, ReserveRead
<1>5. ASSUME NEW t \in Threads, WriteType(t) \/ WriteNextBlock(t) \/ writeHeader(t) PROVE ReadInv'
  BY <1>1, <1>5, HeaderRead
<1>6. ASSUME NEW t \in Threads, WriteItem(t) PROVE ReadInv'
  BY <1>1, <1>6, ItemRead
<1>7. ASSUME NEW t \in Threads, NEW i \in DOMAIN log[t], rewrite(t, i) PROVE ReadInv'
  BY <1>1, <1>7, RewriteRead
<1>8. ASSUME NEW t \in Threads, checkOutputSize(t) \/ traceClose(t) PROVE ReadInv'
  <2>1. UNCHANGED <<file, m_Block, m_TraceOffset, writer, log, PreviousEventSize>>
    BY <1>8 DEF checkOutputSize, traceClose
  <2> QED BY <2>1, <1>1, QuietRead
<1>9. CASE UNCHANGED vars
  <2>1. UNCHANGED <<file, m_Block, m_TraceOffset, writer, log, PreviousEventSize>>
    BY <1>9 DEF vars
  <2> QED BY <2>1, <1>1, QuietRead
<1> QED BY <1>2, <1>3, <1>4, <1>5, <1>6, <1>7, <1>8, <1>9 DEF Next

\* The file has that shape in every state.
LEMMA ReadInvariant == Spec => []ReadInv
PROOF
<1>1. IndInv /\ ReadInv /\ [Next]_vars => ReadInv'
  BY NextRead
<1> QED BY <1>1, InitRead, StorageInvariant, PTL DEF Spec

-----------------------------------------------------------------------------
(***************************************************************************)
(* What holds as long as no call of pwrite has failed: the blocks follow    *)
(* one another, and each has its header and, if it is one of events, an ID  *)
(* and an event, or a thread that is about to write them.                   *)
(***************************************************************************)

\* The streams whose block is reserved, without the place of its end in the file.
Unnamed == {s \in Streams : \E t \in Threads : WritesTo(t, s) /\ writer[t].pc \in {"type", "next"}}

\* Where blocks begin, and where the next one will.
Beginnings == {p - 1 : p \in NextOffsets} \cup {Base(s) : s \in Unnamed} \cup {m_TraceOffset}
\* Where the magic and the blocks end.
Ends == {1} \cup {file[p].end : p \in NextOffsets} \cup {m_Block[s].end : s \in Unnamed}

\* There is no gap between blocks.
CoverInv == Ends \subseteq Beginnings

\* Every block has a type, from before its end is written.
TypedInv ==
  /\ \A p \in NextOffsets : p - 1 \in DOMAIN file /\ file[p - 1].kind = "type"
  /\ \A t \in Threads : \A s \in Streams : WritesTo(t, s) /\ writer[t].pc = "next" =>
       /\ Base(s) \in DOMAIN file
       /\ file[Base(s)].kind = "type" /\ file[Base(s)].type = writer[t].type

\* No two blocks have the same end.
ApartInv == \A p, q \in NextOffsets : file[p].end = file[q].end => p = q

\* The ID is in the block that has its end at p, and an event behind it.
Begun(p) == p + 1 \in DOMAIN file /\ file[p + 1].kind = "id" /\ p + 2 \in EventOffsets
\* Thread t is about to write them.
Begins(t, p) ==
  /\ WritesTo(t, t) /\ p = Base(t) + 1
  /\ \/ writer[t].pc = "id"
     \/ /\ writer[t].pc = "item" /\ m_Block[t].next = p + 2
        /\ p + 1 \in DOMAIN file /\ file[p + 1].kind = "id"
BegunInv ==
  \A p \in NextOffsets : file[p - 1].type = "ThreadEvents" =>
    Begun(p) \/ \E t \in Threads : Begins(t, p)

\* No record is torn.
UntornInv == \A q \in EventOffsets : ~file[q].torn

\* The blocks of a type.
Named(type) == {p \in NextOffsets : file[p - 1].type = type}
\* Main is writing the only block of a type.
Makes(type) == writer[Main].pc # "idle" /\ writer[Main].type = type
\* Main is writing what is in it.
Fills(type) == Makes(type) /\ writer[Main].pc = "item"
\* It has been written.
Over(type) == phase = "running" \/ (phase = "process" /\ type = "ModuleBitcode")
\* Main writes the one block of a type in a phase of the set-up.
Single(type, during) ==
  /\ \A t \in Threads : writer[t].pc # "idle" /\ writer[t].type = type =>
       t = Main /\ phase = during /\ writer[t].stream = -Main /\ Len(writer[t].item) = 1
  /\ \A p, q \in Named(type) : p = q
  /\ Over(type) => \E p \in Named(type) : p + 1 \in DOMAIN file
  /\ Fills(type) => Base(-Main) + 1 \in Named(type) /\ m_Block[-Main].next = Base(-Main) + 2
  /\ ~Over(type) /\ ~Fills(type) => Named(type) = {}
SingleInv == Single("ModuleBitcode", "module") /\ Single("ProcessTrace", "process")

\* What the file is like as long as no write has failed.
Whole == CoverInv /\ TypedInv /\ ApartInv /\ BegunInv /\ UntornInv /\ SingleInv
WholeInv == failures = 0 => Whole

\* The file grows, and only records of events are rewritten.
Grown ==
  \A o \in DOMAIN file : /\ o \in DOMAIN file' /\ file'[o].kind = file[o].kind
                         /\ file[o].kind # "event" => file'[o] = file[o]

\* What does not change when the file grows.
LEMMA GrownFacts ==
  ASSUME Grown
  PROVE  /\ NextOffsets \subseteq NextOffsets' /\ EventOffsets \subseteq EventOffsets'
         /\ \A p \in NextOffsets : file'[p] = file[p]
         /\ \A o \in DOMAIN file : file[o].kind \in {"type", "id"} => o \in DOMAIN file' /\ file'[o] = file[o]
BY DEF Grown, NextOffsets, EventOffsets

\* Blocks keep their ends.
LEMMA ApartKept ==
  ASSUME ApartInv, Grown, NextOffsets' = NextOffsets
  PROVE  ApartInv'
BY GrownFacts DEF ApartInv

\* Blocks still follow one another if none of their beginnings is lost, and new
\* ones end where the reserved part of the file ends.
LEMMA CoverKept ==
  ASSUME CoverInv, Grown, m_TraceOffset \in Beginnings',
         \A s \in Unnamed : Base(s) \in Beginnings',
         \A p \in NextOffsets' : p \in NextOffsets \/ file'[p].end \in Ends,
         \A s \in Unnamed' : m_Block'[s].end = m_TraceOffset' \/ (s \in Unnamed /\ m_Block'[s].end = m_Block[s].end)
  PROVE  CoverInv'
PROOF
<1>1. NextOffsets \subseteq NextOffsets' /\ \A p \in NextOffsets : file'[p] = file[p]
  BY GrownFacts
<1>2. \A p \in NextOffsets' : p - 1 \in Beginnings'
  BY DEF Beginnings
<1>3. \A o \in Beginnings : o \in Beginnings'
  <2> TAKE o \in Beginnings
  <2>1. CASE \E p \in NextOffsets : o = p - 1
    BY <2>1, <1>1, <1>2
  <2>2. CASE \E s \in Unnamed : o = Base(s)
    BY <2>2
  <2>3. CASE o = m_TraceOffset
    BY <2>3
  <2> QED BY <2>1, <2>2, <2>3 DEF Beginnings
<1>4. \A o \in Ends : o \in Beginnings'
  BY <1>3 DEF CoverInv
<1>5. m_TraceOffset' \in Beginnings'
  BY DEF Beginnings
<1>6. \A s \in Unnamed : m_Block[s].end \in Ends
  BY DEF Ends
<1>7. 1 \in Ends /\ \A p \in NextOffsets : file[p].end \in Ends
  BY DEF Ends
<1>8. \A p \in NextOffsets' : file'[p].end \in Beginnings'
  BY <1>1, <1>4, <1>7
<1>9. \A s \in Unnamed' : m_Block'[s].end \in Beginnings'
  BY <1>4, <1>5, <1>6
<1>10. \A o \in Ends' : o \in Beginnings'
  <2> SUFFICES ASSUME NEW o \in Ends' PROVE o \in Beginnings'
    OBVIOUS
  <2>1. o = 1 \/ (\E p \in NextOffsets' : o = file'[p].end) \/ (\E s \in Unnamed' : o = m_Block'[s].end)
    BY DEF Ends
  <2> QED BY <2>1, <1>4, <1>7, <1>8, <1>9
<1> QED BY <1>10 DEF CoverInv

\* A block that is written to stays where it is.
LEMMA StillBase ==
  ASSUME Known, NEW v \in Threads, NEW s \in Streams, WritesTo(v, s), writer[v].pc # "reserve",
         writer'[v].item = writer[v].item, m_Block'[s].end = m_Block[s].end
  PROVE  Base(s)' = Base(s)
PROOF
<1>1. s < 0 => s = -v
  BY OpenWhenWriting
<1>2. s \in Int /\ v \in Nat
  BY StreamsFacts
<1>3. s < 0 => -s = v
  BY <1>1, <1>2
<1> QED BY <1>3 DEF Base

\* The stream that a thread reserves a block for, or has one of.
LEMMA UnnamedHas ==
  ASSUME NEW s
  PROVE  s \in Unnamed <=> s \in Streams /\ \E t \in Threads : WritesTo(t, s) /\ writer[t].pc \in {"type", "next"}
BY DEF Unnamed

\* Steps that start something, or rewrite a record in place.
Settled(t) ==
  /\ \A v \in Threads : v # t => writer'[v] = writer[v]
  /\ writer'[t] = writer[t] \/ (writer[t].pc = "idle" /\ writer'[t].pc \in {"reserve", "item"})

\* They leave the blocks alone.
LEMMA SettledShape ==
  ASSUME Known, Alike, NEW t \in Threads, Settled(t), CoverInv, TypedInv, BegunInv
  PROVE  Grown /\ CoverInv' /\ TypedInv' /\ BegunInv' /\ NextOffsets' = NextOffsets
PROOF
<1>1. EventOffsets' = EventOffsets /\ NextOffsets' = NextOffsets
  BY AlikeFile
<1>2. Grown
  BY DEF Alike, Grown
<1>3. /\ \A p \in NextOffsets : file'[p] = file[p]
      /\ \A o \in DOMAIN file : file[o].kind \in {"type", "id"} => o \in DOMAIN file' /\ file'[o] = file[o]
  BY <1>2, GrownFacts
<1>4. m_Block' = m_Block /\ m_TraceOffset' = m_TraceOffset /\ DOMAIN file' = DOMAIN file
  BY DEF Alike
<1>5. \A v \in Threads : writer[v].pc \in {"type", "next", "id"} \/ writer'[v].pc \in {"type", "next", "id"} => writer'[v] = writer[v]
  BY DEF Settled
<1>6. \A v \in Threads : \A s \in Streams : writer'[v] = writer[v] => (WritesTo(v, s)' <=> WritesTo(v, s))
  BY DEF WritesTo
<1>7. Unnamed' = Unnamed
  BY <1>5, <1>6 DEF Unnamed
<1>8. ASSUME NEW v \in Threads, NEW s \in Streams, WritesTo(v, s), writer[v].pc # "reserve", writer'[v] = writer[v]
      PROVE  Base(s)' = Base(s)
  BY <1>4, <1>8, StillBase
<1>9. \A s \in Unnamed : Base(s)' = Base(s)
  BY <1>5, <1>8 DEF Unnamed
<1>10. CoverInv'
  <2>1. m_TraceOffset \in Beginnings'
    BY <1>4 DEF Beginnings
  <2>2. \A s \in Unnamed' : Base(s)' \in Beginnings'
    BY DEF Beginnings
  <2>3. \A s \in Unnamed : Base(s) \in Beginnings'
    BY <2>2, <1>7, <1>9
  <2> QED BY <2>1, <2>3, <1>1, <1>2, <1>4, <1>7, CoverKept
<1>11. TypedInv'
  <2>1. \A p \in NextOffsets' : p - 1 \in DOMAIN file' /\ file'[p - 1].kind = "type"
    BY <1>1, <1>3 DEF TypedInv
  <2>2. ASSUME NEW v \in Threads, NEW s \in Streams, WritesTo(v, s)', writer'[v].pc = "next"
        PROVE  Base(s)' \in DOMAIN file' /\ file'[Base(s)'].kind = "type" /\ file'[Base(s)'].type = writer'[v].type
    <3>1. writer'[v] = writer[v]
      BY <2>2, <1>5
    <3>2. WritesTo(v, s) /\ writer[v].pc = "next"
      BY <2>2, <3>1, <1>6
    <3>3. Base(s)' = Base(s)
      BY <3>1, <3>2, <1>8
    <3>4. Base(s) \in DOMAIN file /\ file[Base(s)].kind = "type" /\ file[Base(s)].type = writer[v].type
      BY <3>2 DEF TypedInv
    <3> QED BY <3>1, <3>3, <3>4, <1>3
  <2> QED BY <2>1, <2>2 DEF TypedInv
<1>12. BegunInv'
  <2> SUFFICES ASSUME NEW p \in NextOffsets', file'[p - 1].type = "ThreadEvents"
               PROVE  Begun(p)' \/ \E v \in Threads : Begins(v, p)'
    BY DEF BegunInv
  <2>1. p \in NextOffsets /\ file[p - 1].type = "ThreadEvents"
    BY <1>1, <1>3 DEF TypedInv
  <2>2. CASE Begun(p)
    BY <2>2, <1>1, <1>3 DEF Begun
  <2>3. ASSUME NEW v \in Threads, Begins(v, p) PROVE Begins(v, p)'
    <3>1. WritesTo(v, v) /\ p = Base(v) + 1 /\ writer[v].pc \in {"id", "item"} /\ v \in Streams
      BY <2>3, StreamsFacts DEF Begins
    <3>2. writer[v].pc # "idle" /\ writer'[v] = writer[v]
      BY <3>1 DEF WritesTo, Settled
    <3>3. WritesTo(v, v)' /\ Base(v)' = Base(v)
      BY <3>1, <3>2, <1>6, <1>8
    <3>4. p + 1 \in DOMAIN file /\ file[p + 1].kind = "id" => p + 1 \in DOMAIN file' /\ file'[p + 1].kind = "id"
      BY <1>3
    <3> QED BY <2>3, <3>1, <3>2, <3>3, <3>4, <1>4 DEF Begins
  <2> QED BY <2>1, <2>2, <2>3 DEF BegunInv
<1> QED BY <1>1, <1>2, <1>10, <1>11, <1>12

\* The types of blocks do not change.
LEMMA NamedKept ==
  ASSUME Grown, TypedInv, NEW type
  PROVE  \A p \in NextOffsets : p \in Named(type)' <=> p \in Named(type)
PROOF
<1>1. NextOffsets \subseteq NextOffsets' /\ \A p \in NextOffsets : file'[p - 1] = file[p - 1]
  BY GrownFacts DEF TypedInv
<1> QED BY <1>1 DEF Named

\* The one block of a type stays the only one, and starts with the write of main.
LEMMA SettledSingle ==
  ASSUME Known, Alike, NEW t \in Threads, Settled(t), CoverInv, TypedInv, BegunInv,
         NEW type, NEW during, Single(type, during), phase' = phase,
         writer'[t] # writer[t] /\ writer'[t].type = type =>
           /\ t = Main /\ phase = during /\ writer'[t].stream = -Main /\ Len(writer'[t].item) = 1
           /\ writer'[t].pc = "reserve"
  PROVE  Single(type, during)'
PROOF
<1>1. Grown /\ NextOffsets' = NextOffsets
  BY SettledShape
<1>2. Named(type)' = Named(type)
  <2>1. Named(type)' \subseteq NextOffsets /\ Named(type) \subseteq NextOffsets
    BY <1>1 DEF Named
  <2>2. \A p \in NextOffsets : p \in Named(type)' <=> p \in Named(type)
    BY <1>1, NamedKept
  <2> QED BY <2>1, <2>2
<1>3. Over(type)' <=> Over(type)
  BY DEF Over
<1>4. \A v \in Threads : v # t => writer'[v] = writer[v]
  BY DEF Settled
<1>5. Main \in Threads /\ -Main \in Streams
  BY StreamsFacts
<1>6. ASSUME NEW v \in Threads, writer'[v].pc # "idle", writer'[v].type = type
      PROVE  v = Main /\ phase = during /\ writer'[v].stream = -Main /\ Len(writer'[v].item) = 1
  <2>1. CASE writer'[v] = writer[v]
    <3>1. writer[v].pc # "idle" /\ writer[v].type = type
      BY <1>6, <2>1
    <3>2. v = Main /\ phase = during /\ writer[v].stream = -Main /\ Len(writer[v].item) = 1
      BY <3>1 DEF Single
    <3> QED BY <3>2, <2>1
  <2>2. CASE writer'[v] # writer[v]
    <3>1. v = t
      BY <1>4, <2>2
    <3> QED BY <3>1, <2>2, <1>6
  <2> QED BY <2>1, <2>2
<1>7. Fills(type) => Fills(type)'
  <2> SUFFICES ASSUME Fills(type) PROVE Fills(type)'
    OBVIOUS
  <2>1. writer[Main].pc = "item" /\ writer[Main].type = type
    BY DEF Fills, Makes
  <2>2. writer'[Main] = writer[Main]
    BY <2>1, <1>5 DEF Settled
  <2> QED BY <2>1, <2>2 DEF Fills, Makes
<1>8. Fills(type)' => /\ Fills(type) /\ Base(-Main)' = Base(-Main)
                      /\ m_Block' = m_Block
  <2> SUFFICES ASSUME Fills(type)' PROVE Fills(type) /\ Base(-Main)' = Base(-Main) /\ m_Block' = m_Block
    OBVIOUS
  <2>1. writer'[Main].pc = "item" /\ writer'[Main].type = type
    BY DEF Fills, Makes
  <2>2. writer'[Main] = writer[Main]
    BY <2>1, <1>5 DEF Settled
  <2>3. writer[Main].pc = "item" /\ writer[Main].type = type
    BY <2>1, <2>2
  <2>4. WritesTo(Main, -Main)
    BY <2>3, <1>5 DEF Single, WritesTo
  <2>5. Base(-Main)' = Base(-Main)
    BY <2>2, <2>3, <2>4, <1>5, StillBase DEF Alike
  <2> QED BY <2>3, <2>5 DEF Fills, Makes, Alike
<1>9. \A p \in Named(type) : p + 1 \in DOMAIN file => p + 1 \in DOMAIN file'
  BY <1>1 DEF Grown
<1>10. Fills(type)' => Base(-Main)' + 1 \in Named(type)' /\ m_Block'[-Main].next = Base(-Main)' + 2
  BY <1>2, <1>8 DEF Single
<1>11. /\ \A p, q \in Named(type)' : p = q
       /\ Over(type)' => \E p \in Named(type)' : p + 1 \in DOMAIN file'
       /\ ~Over(type)' /\ ~Fills(type)' => Named(type)' = {}
  BY <1>2, <1>3, <1>7, <1>9 DEF Single
<1> QED BY <1>6, <1>10, <1>11 DEF Single

\* The writer of a thread that starts to write.
LEMMA StartIs ==
  ASSUME WriterInv, NEW t \in Threads, writer[t].pc = "idle", NEW s \in Streams, NEW type, NEW item,
         Start(t, s, type, item)
  PROVE  /\ Settled(t)
         /\ writer'[t].type = type /\ writer'[t].stream = s /\ writer'[t].item = item
         /\ s < 0 => writer'[t].pc = "reserve"
PROOF
<1>1. writer \in [Threads -> Writers]
  BY DEF WriterInv
<1>2. s \in Int
  BY StreamsFacts
<1>3. PICK pc \in {"reserve", "item"} : pc = IF s >= 0 /\ HasBlock(s) THEN "item" ELSE "reserve"
  OBVIOUS
<1>4. writer' = [writer EXCEPT ![t] = [pc |-> pc, stream |-> s, type |-> type, again |-> FALSE, item |-> item]]
  BY <1>3 DEF Start
<1>5. /\ writer'[t] = [pc |-> pc, stream |-> s, type |-> type, again |-> FALSE, item |-> item]
      /\ \A v \in Threads : v # t => writer'[v] = writer[v]
  BY <1>1, <1>4
<1>6. s < 0 => pc = "reserve"
  BY <1>2, <1>3
<1> QED BY <1>5, <1>6 DEF Settled

\* The start of a write leaves the file as it is.
LEMMA StartWhole ==
  ASSUME Known, LogOrder, 0 \in DOMAIN file, Whole, NEW t \in Threads,
         \/ t = Main /\ (writeModule \/ traceWriteProcessData)
         \/ \E size \in EventSizes : write(t, size)
         \/ \E size \in DataSizes : recordData(t, size)
  PROVE  Whole'
PROOF
<1>0. /\ UNCHANGED <<file, m_Block, m_TraceOffset, log, PreviousEventSize>> /\ phase' = phase
      /\ writer[t].pc = "idle"
  BY DEF writeModule, traceWriteProcessData, write, recordData, Running
<1>1. Alike
  BY <1>0, StillFile
<1>2. WriterInv /\ t \in Streams /\ -t \in Streams /\ ProcessData \in Streams
  BY StreamsFacts DEF Known
<1> DEFINE Ok(s, type, item) ==
       /\ type = "ModuleBitcode" => t = Main /\ phase = "module" /\ s = -Main /\ Len(item) = 1
       /\ type = "ProcessTrace" => t = Main /\ phase = "process" /\ s = -Main /\ Len(item) = 1
<1>3. \A kind : Len(Piece(kind, 1, 1)) = 1
  BY DEF Piece
<1>4. \E s \in Streams : \E type, item : Start(t, s, type, item) /\ Ok(s, type, item)
  <2>1. CASE t = Main /\ writeModule
    <3>1. Start(t, -t, "ModuleBitcode", Piece("bitcode", 1, 1)) /\ phase = "module"
      BY <2>1 DEF writeModule
    <3>2. Ok(-t, "ModuleBitcode", Piece("bitcode", 1, 1))
      BY <3>1, <2>1, <1>3
    <3> HIDE DEF Ok
    <3> QED BY <3>1, <3>2, <1>2
  <2>2. CASE t = Main /\ traceWriteProcessData
    <3>1. Start(t, -t, "ProcessTrace", Piece("process", 1, 1)) /\ phase = "process"
      BY <2>2 DEF traceWriteProcessData
    <3>2. Ok(-t, "ProcessTrace", Piece("process", 1, 1))
      BY <3>1, <2>2, <1>3
    <3> HIDE DEF Ok
    <3> QED BY <3>1, <3>2, <1>2
  <2>3. CASE \E size \in EventSizes : write(t, size)
    <3>1. PICK item : Start(t, t, "ThreadEvents", item)
      BY <2>3 DEF write
    <3>2. Ok(t, "ThreadEvents", item)
      OBVIOUS
    <3> HIDE DEF Ok
    <3> QED BY <3>1, <3>2, <1>2
  <2>4. CASE \E size \in DataSizes : recordData(t, size)
    <3>1. PICK size \in DataSizes : recordData(t, size)
      BY <2>4
    <3>2. PICK s \in Streams : s = IF size < SingleBlockThreshold THEN ProcessData ELSE -t
      BY <1>2
    <3>3. Start(t, s, "ProcessData", Piece("data", Len(refs) + 1, size))
      BY <3>1, <3>2 DEF recordData
    <3>4. Ok(s, "ProcessData", Piece("data", Len(refs) + 1, size))
      OBVIOUS
    <3> HIDE DEF Ok
    <3> QED BY <3>3, <3>4
  <2> QED BY <2>1, <2>2, <2>3, <2>4
<1>s. PICK s \in Streams : \E type, item : Start(t, s, type, item) /\ Ok(s, type, item)
  BY <1>4
<1>5. PICK type, item : Start(t, s, type, item) /\ Ok(s, type, item)
  BY <1>s
<1>6. /\ Settled(t)
      /\ writer'[t].type = type /\ writer'[t].stream = s /\ writer'[t].item = item
      /\ s < 0 => writer'[t].pc = "reserve"
  BY <1>0, <1>2, <1>5, StartIs
<1>7. CoverInv' /\ TypedInv' /\ ApartInv' /\ BegunInv'
  BY <1>1, <1>6, SettledShape, ApartKept DEF Whole
<1>8. UntornInv'
  BY <1>0 DEF Whole, UntornInv, EventOffsets
<1>9. -Main < 0
  BY DEF Main
<1>10. Single("ModuleBitcode", "module")'
  BY <1>0, <1>1, <1>5, <1>6, <1>9, SettledSingle DEF Whole, SingleInv
<1>11. Single("ProcessTrace", "process")'
  BY <1>0, <1>1, <1>5, <1>6, <1>9, SettledSingle DEF Whole, SingleInv
<1> QED BY <1>7, <1>8, <1>10, <1>11 DEF Whole, SingleInv

\* Nothing happens to the blocks.
LEMMA QuietWhole ==
  ASSUME Known, Whole, Alike, writer' = writer, phase' = phase, UntornInv'
  PROVE  Whole'
PROOF
<1>1. Main \in Threads /\ Settled(Main)
  BY StreamsFacts DEF Settled
<1>2. CoverInv' /\ TypedInv' /\ ApartInv' /\ BegunInv'
  BY <1>1, SettledShape, ApartKept DEF Whole
<1>3. Single("ModuleBitcode", "module")' /\ Single("ProcessTrace", "process")'
  BY <1>1, SettledSingle DEF Whole, SingleInv
<1> QED BY <1>2, <1>3 DEF Whole, SingleInv

\* Nothing happens to the file.
LEMMA StillWhole ==
  ASSUME Known, Whole, UNCHANGED <<file, m_Block, m_TraceOffset, writer, phase>>
  PROVE  Whole'
PROOF
<1>1. Alike
  BY DEF Alike
<1>2. UntornInv'
  BY DEF Whole, UntornInv, EventOffsets
<1> QED BY <1>1, <1>2, QuietWhole

\* A record that is written again is not torn.
LEMMA RewriteWhole ==
  ASSUME Known, LogInv, Whole, NEW t \in Threads, NEW i \in DOMAIN log[t], rewrite(t, i)
  PROVE  Whole'
PROOF
<1> DEFINE r == log[t][i]
           e == [r.event EXCEPT !.version = 1]
<1>1. /\ file' = [file EXCEPT ![r.offset] = e]
      /\ UNCHANGED <<m_TraceOffset, m_Block, writer, phase>>
  BY DEF rewrite
<1>2. r.event \in EventCell /\ r.offset \in DOMAIN file /\ file[r.offset] = r.event
  <2>1. log[t] \in Seq([offset : Nat, event : EventCell])
    BY DEF LogInv
  <2>2. i \in 1..Len(log[t])
    BY <2>1, LenProperties
  <2>3. r \in [offset : Nat, event : EventCell]
    BY <2>1, <2>2, ElementOfSeq
  <2> QED BY <2>3 DEF LogInv
<1>3. /\ e.kind = "event" /\ e.by = r.event.by /\ e.size = r.event.size
      /\ e.torn = r.event.torn /\ r.event.kind = "event"
  BY <1>2 DEF EventCell
<1>4. DOMAIN file' = DOMAIN file /\ file'[r.offset] = e /\ \A o \in DOMAIN file : o # r.offset => file'[o] = file[o]
  BY <1>1, <1>2
<1> HIDE DEF e
<1>5. Alike
  BY <1>1, <1>2, <1>3, <1>4 DEF Alike
<1>6. EventOffsets' = EventOffsets
  BY <1>5, AlikeFile
<1>7. \A q \in EventOffsets : file'[q].torn = file[q].torn
  BY <1>2, <1>3, <1>4 DEF EventOffsets
<1>8. UntornInv'
  BY <1>6, <1>7 DEF Whole, UntornInv
<1> QED BY <1>1, <1>5, <1>8, QuietWhole

\* What a thread is about to write into a new block, it still is.
LEMMA BeginsKept ==
  ASSUME Known, Grown, NEW v \in Threads, writer'[v] = writer[v],
         m_Block'[v].end = m_Block[v].end, m_Block'[v].next = m_Block[v].next, NEW p, Begins(v, p)
  PROVE  Begins(v, p)'
PROOF
<1>1. WritesTo(v, v) /\ p = Base(v) + 1 /\ writer[v].pc \in {"id", "item"} /\ v \in Streams
  BY StreamsFacts DEF Begins
<1>2. WritesTo(v, v)'
  BY <1>1 DEF WritesTo
<1>3. Base(v)' = Base(v)
  BY <1>1, StillBase
<1>4. p + 1 \in DOMAIN file /\ file[p + 1].kind = "id" => p + 1 \in DOMAIN file' /\ file'[p + 1].kind = "id"
  BY GrownFacts
<1> QED BY <1>1, <1>2, <1>3, <1>4 DEF Begins

\* The one block of a type is left alone.
LEMMA SingleKept ==
  ASSUME Grown, NEW type, NEW during, Single(type, during), Named(type)' = Named(type),
         Over(type)' <=> Over(type),
         \A v \in Threads : writer'[v].pc # "idle" /\ writer'[v].type = type =>
           v = Main /\ phase' = during /\ writer'[v].stream = -Main /\ Len(writer'[v].item) = 1,
         Fills(type) => Fills(type)',
         Fills(type)' => Fills(type) /\ Base(-Main)' = Base(-Main) /\ m_Block'[-Main].next = m_Block[-Main].next
  PROVE  Single(type, during)'
PROOF
<1>1. \A p \in Named(type) : p + 1 \in DOMAIN file => p + 1 \in DOMAIN file'
  BY DEF Grown
<1>2. Fills(type)' => Base(-Main)' + 1 \in Named(type)' /\ m_Block'[-Main].next = Base(-Main)' + 2
  BY DEF Single
<1>3. /\ \A p, q \in Named(type)' : p = q
      /\ Over(type)' => \E p \in Named(type)' : p + 1 \in DOMAIN file'
      /\ ~Over(type)' /\ ~Fills(type)' => Named(type)' = {}
  BY <1>1 DEF Single
<1> QED BY <1>2, <1>3 DEF Single

\* A reserved block begins where the reserved part of the file ended.
LEMMA ReserveWhole ==
  ASSUME Known, 0 \in DOMAIN file, Whole, NEW t \in Threads, getOutputBlock(t)
  PROVE  Whole'
PROOF
<1>1. PICK s \in Streams, x \in Nat, y \in Nat : Reserves(t, s, x, y)
  BY ReserveEffect
<1>2. /\ s = writer[t].stream /\ writer[t].pc = "reserve" /\ writer'[t].pc = "type"
      /\ writer'[t].stream = s /\ writer'[t].item = writer[t].item /\ writer'[t].type = writer[t].type
      /\ \A v \in Threads : v # t => writer'[v] = writer[v]
      /\ \A v \in Threads : \A u \in Streams : WritesTo(v, u)' <=> WritesTo(v, u)
      /\ x = m_TraceOffset /\ y = m_TraceOffset' /\ Base(s)' = x
      /\ m_Block'[s].end = y /\ \A u \in Streams : u # s => m_Block'[u] = m_Block[u]
      /\ (s > 0 => s = t) /\ (s < 0 => -s = t)
      /\ file' = file
  BY <1>1 DEF Reserves
<1>3. phase' = phase
  BY DEF getOutputBlock
<1>4. Grown /\ NextOffsets' = NextOffsets /\ EventOffsets' = EventOffsets
  BY <1>2 DEF Grown, NextOffsets, EventOffsets
<1>5. WritesTo(t, s) /\ HandsInv
  BY <1>2 DEF WritesTo, Known
<1>6. \A v \in Threads : \A u \in Streams : v # t /\ WritesTo(v, u) => u # s
  BY <1>5, OneWriter
<1>7. ASSUME NEW v \in Threads, NEW u \in Streams, v # t, WritesTo(v, u), writer[v].pc # "reserve"
      PROVE  Base(u)' = Base(u)
  <2>1. writer'[v].item = writer[v].item /\ m_Block'[u].end = m_Block[u].end
    BY <1>2, <1>6, <1>7
  <2> QED BY <1>7, <2>1, StillBase
<1>8. CoverInv'
  <2>1. s \in Unnamed'
    BY <1>2, <1>5 DEF Unnamed
  <2>2. \A u \in Unnamed' : Base(u)' \in Beginnings'
    BY DEF Beginnings
  <2>3. m_TraceOffset \in Beginnings'
    BY <1>2, <2>1, <2>2
  <2>4. ASSUME NEW u \in Unnamed PROVE u \in Unnamed' /\ Base(u)' = Base(u)
    <3>1. PICK v \in Threads : u \in Streams /\ WritesTo(v, u) /\ writer[v].pc \in {"type", "next"}
      BY UnnamedHas
    <3>2. v # t /\ writer'[v] = writer[v]
      BY <1>2, <3>1
    <3>3. u \in Unnamed'
      BY <1>2, <3>1, <3>2 DEF Unnamed
    <3> QED BY <1>7, <3>1, <3>2, <3>3
  <2>5. \A u \in Unnamed : Base(u) \in Beginnings'
    BY <2>2, <2>4
  <2>6. ASSUME NEW u \in Unnamed' PROVE m_Block'[u].end = m_TraceOffset' \/ (u \in Unnamed /\ m_Block'[u].end = m_Block[u].end)
    <3>1. PICK v \in Threads : u \in Streams /\ WritesTo(v, u)' /\ writer'[v].pc \in {"type", "next"}
      BY DEF Unnamed
    <3>2. CASE v = t
      <4>1. u = s
        BY <1>2, <3>1, <3>2 DEF WritesTo
      <4> QED BY <4>1, <1>2
    <3>3. CASE v # t
      <4>1. WritesTo(v, u) /\ writer[v].pc \in {"type", "next"} /\ u # s
        BY <1>2, <1>6, <3>1, <3>3
      <4>2. u \in Unnamed
        BY <3>1, <4>1 DEF Unnamed
      <4> QED BY <1>2, <3>1, <4>1, <4>2
    <3> QED BY <3>2, <3>3
  <2> QED BY <1>4, <2>3, <2>5, <2>6, CoverKept DEF Whole
<1>9. TypedInv'
  <2>1. \A p \in NextOffsets' : p - 1 \in DOMAIN file' /\ file'[p - 1].kind = "type"
    BY <1>2, <1>4 DEF Whole, TypedInv
  <2>2. ASSUME NEW v \in Threads, NEW u \in Streams, WritesTo(v, u)', writer'[v].pc = "next"
        PROVE  Base(u)' \in DOMAIN file' /\ file'[Base(u)'].kind = "type" /\ file'[Base(u)'].type = writer'[v].type
    <3>1. v # t /\ writer'[v] = writer[v]
      BY <1>2, <2>2
    <3>2. WritesTo(v, u) /\ writer[v].pc = "next"
      BY <1>2, <2>2, <3>1
    <3>3. Base(u)' = Base(u)
      BY <3>1, <3>2, <1>7
    <3>4. Base(u) \in DOMAIN file /\ file[Base(u)].kind = "type" /\ file[Base(u)].type = writer[v].type
      BY <3>2 DEF Whole, TypedInv
    <3> QED BY <1>2, <3>1, <3>3, <3>4
  <2> QED BY <2>1, <2>2 DEF TypedInv
<1>10. BegunInv'
  <2> SUFFICES ASSUME NEW p \in NextOffsets', file'[p - 1].type = "ThreadEvents"
               PROVE  Begun(p)' \/ \E v \in Threads : Begins(v, p)'
    BY DEF BegunInv
  <2>1. p \in NextOffsets /\ file[p - 1].type = "ThreadEvents"
    BY <1>2, <1>4
  <2>2. CASE Begun(p)
    BY <2>2, <1>2, <1>4 DEF Begun
  <2>3. ASSUME NEW v \in Threads, Begins(v, p) PROVE Begins(v, p)'
    <3>1. writer[v].pc \in {"id", "item"} /\ v \in Streams /\ v > 0
      BY <2>3, StreamsFacts DEF Begins
    <3>2. v # t /\ writer'[v] = writer[v]
      BY <1>2, <3>1
    <3>3. v # s
      BY <1>2, <3>1, <3>2
    <3>4. m_Block'[v] = m_Block[v]
      BY <1>2, <3>1, <3>3
    <3> QED BY <1>4, <2>3, <3>2, <3>4, BeginsKept
  <2> QED BY <2>1, <2>2, <2>3 DEF Whole, BegunInv
<1>11. UntornInv'
  BY <1>2, <1>4 DEF Whole, UntornInv
<1>12. ASSUME NEW type, NEW during, Single(type, during) PROVE Single(type, during)'
  <2>1. Named(type)' = Named(type)
    BY <1>2, <1>4 DEF Named
  <2>2. Over(type)' <=> Over(type)
    BY <1>3 DEF Over
  <2>3. ASSUME NEW v \in Threads, writer'[v].pc # "idle", writer'[v].type = type
        PROVE  v = Main /\ phase' = during /\ writer'[v].stream = -Main /\ Len(writer'[v].item) = 1
    <3>1. /\ writer[v].pc # "idle" /\ writer[v].type = type
          /\ writer'[v].stream = writer[v].stream /\ writer'[v].item = writer[v].item
      BY <1>2, <2>3
    <3> QED BY <3>1, <1>3, <1>12 DEF Single
  <2>4. Main \in Threads /\ -Main \in Streams
    BY StreamsFacts
  <2>5. Fills(type) => Fills(type)'
    BY <1>2, <2>4 DEF Fills, Makes
  <2>6. Fills(type)' => Fills(type) /\ Base(-Main)' = Base(-Main) /\ m_Block'[-Main].next = m_Block[-Main].next
    <3> SUFFICES ASSUME Fills(type)'
                 PROVE  Fills(type) /\ Base(-Main)' = Base(-Main) /\ m_Block'[-Main].next = m_Block[-Main].next
      OBVIOUS
    <3>1. Main # t /\ writer'[Main] = writer[Main] /\ Fills(type)
      BY <1>2, <2>4 DEF Fills, Makes
    <3>2. WritesTo(Main, -Main) /\ writer[Main].pc = "item"
      BY <3>1, <2>4, <1>12 DEF Fills, Makes, Single, WritesTo
    <3>3. -Main # s
      BY <3>1, <3>2, <2>4, <1>6
    <3>4. Base(-Main)' = Base(-Main)
      BY <3>1, <3>2, <2>4, <1>7
    <3> QED BY <3>1, <3>3, <3>4, <2>4, <1>2
  <2> QED BY <1>4, <1>12, <2>1, <2>2, <2>3, <2>5, <2>6, SingleKept
<1>13. ApartInv'
  BY <1>4, ApartKept DEF Whole
<1> QED BY <1>8, <1>9, <1>10, <1>11, <1>12, <1>13 DEF Whole, SingleInv

\* A write that succeeds is whole, and it succeeds if there is room.
LEMMA WholePut ==
  ASSUME FileInv, NEW s \in Streams, NEW cells \in Seq(AnyCell), NEW k \in Nat,
         OutputBlockWrite(s, cells, k), failures' = 0
  PROVE  /\ failures = 0
         /\ k > 0 => k = Len(cells)
         /\ m_Block[s].next < m_Block[s].end /\ m_Block[s].next + Len(cells) <= m_Block[s].end => k = Len(cells)
PROOF
<1>1. failures \in Nat /\ m_Block[s].next \in Nat /\ m_Block[s].end \in Nat /\ Len(cells) \in Nat
  BY DEF FileInv
<1>2. /\ k \in 0..Len(cells)
      /\ ~Fits(m_Block[s], Len(cells)) => k = 0
      /\ failures' = IF Fits(m_Block[s], Len(cells)) /\ k < Len(cells) THEN failures + 1 ELSE failures
  BY DEF OutputBlockWrite
<1>3. ~(Fits(m_Block[s], Len(cells)) /\ k < Len(cells))
  BY <1>1, <1>2
<1> QED BY <1>1, <1>2, <1>3 DEF Fits

\* Nobody else is disturbed by a write of thread t to stream s.
Beside(t, s) ==
  /\ Grown /\ WritesTo(t, s) /\ m_TraceOffset' = m_TraceOffset
  /\ \A v \in Threads : v # t => writer'[v] = writer[v]
  /\ \A u \in Streams : m_Block'[u].end = m_Block[u].end
  /\ \A u \in Streams : u # s => m_Block'[u].next = m_Block[u].next
  /\ \A v \in Threads : \A u \in Streams : v # t /\ WritesTo(v, u) => u # s
  /\ \A v \in Threads : \A u \in Streams : v # t => (WritesTo(v, u)' <=> WritesTo(v, u))
  /\ \A v \in Threads : \A u \in Streams :
       v # t /\ WritesTo(v, u) /\ writer[v].pc # "reserve" => Base(u)' = Base(u)

\* A write disturbs nobody else.
LEMMA PutsBeside ==
  ASSUME Known, NEW t \in Threads, NEW s \in Streams, NEW cells \in Seq(AnyCell), NEW k \in Nat,
         Puts(t, s, cells, k), Continues(t)
  PROVE  Beside(t, s)
PROOF
<1>1. WritesTo(t, s) /\ Wrote(s, cells, k) /\ FileInv /\ HandsInv
  BY DEF Puts, Known
<1>2. /\ m_TraceOffset' = m_TraceOffset
      /\ DOMAIN file \subseteq DOMAIN file'
      /\ \A o \in DOMAIN file : file'[o] = file[o]
      /\ \A u \in Streams : m_Block'[u].end = m_Block[u].end
      /\ \A u \in Streams : u # s => m_Block'[u].next = m_Block[u].next
  BY <1>1, WroteKeeps
<1>3. Grown
  BY <1>2 DEF Grown
<1>4. \A v \in Threads : v # t => writer'[v] = writer[v]
  BY DEF Continues
<1>5. \A v \in Threads : \A u \in Streams : v # t /\ WritesTo(v, u) => u # s
  BY <1>1, OneWriter
<1>6. \A v \in Threads : \A u \in Streams : v # t => (WritesTo(v, u)' <=> WritesTo(v, u))
  BY <1>4 DEF WritesTo
<1>7. ASSUME NEW v \in Threads, NEW u \in Streams, v # t, WritesTo(v, u), writer[v].pc # "reserve"
      PROVE  Base(u)' = Base(u)
  BY <1>2, <1>4, <1>7, StillBase
<1> QED BY <1>1, <1>2, <1>3, <1>4, <1>5, <1>6, <1>7 DEF Beside

\* A field of the header of the block of stream s has been written.
HeaderPut(t, s) ==
  /\ Beside(t, s)
  /\ writer'[t].stream = s /\ writer'[t].item = writer[t].item /\ writer'[t].type = writer[t].type
  /\ writer'[t].pc # "idle" /\ WritesTo(t, s)' /\ Base(s)' = Base(s) /\ Base(s) \in Nat
  /\ EventOffsets' = EventOffsets /\ \A q \in EventOffsets : file'[q] = file[q]
  /\ s > 0 => s = t
  /\ IF s > 0 THEN writer[t].type = "ThreadEvents" ELSE writer[t].type # "ThreadEvents"
  /\ \/ /\ writer[t].pc = "type" /\ writer'[t].pc = "next" /\ NextOffsets' = NextOffsets
        /\ Base(s) \in DOMAIN file' /\ file'[Base(s)] = [kind |-> "type", type |-> writer[t].type]
     \/ /\ writer[t].pc = "next" /\ writer'[t].pc = IF writer[t].type = "ThreadEvents" THEN "id" ELSE "item"
        /\ NextOffsets' = NextOffsets \cup {Base(s) + 1}
        /\ file'[Base(s) + 1].end = m_Block[s].end /\ m_Block'[s].next = Base(s) + 2
     \/ /\ writer[t].pc = "id" /\ writer'[t].pc = "item" /\ NextOffsets' = NextOffsets /\ s = t
        /\ Base(s) + 2 \in DOMAIN file' /\ file'[Base(s) + 2].kind = "id" /\ m_Block'[s].next = Base(s) + 3

\* There is room for every field, in its place.
LEMMA HeaderPuts ==
  ASSUME Known, 0 \in DOMAIN file, NEW t \in Threads, failures' = 0,
         WriteType(t) \/ WriteNextBlock(t) \/ writeHeader(t)
  PROVE  failures = 0 /\ \E s \in Streams : HeaderPut(t, s)
PROOF
<1>1. PICK s \in Streams, cell \in AnyCell, k \in Nat : Heads(t, s, cell, k) /\ OutputBlockWrite(s, <<cell>>, k)
  BY HeaderEffect
<1>2. PICK cells \in Seq(AnyCell) : cells = <<cell>>
  <2>1. <<cell>> \in Seq(AnyCell)
    BY <1>1
  <2> QED BY <2>1
<1>3. /\ writer[t].pc \in {"type", "next", "id"} /\ Puts(t, s, cells, k) /\ Continues(t)
      /\ writer'[t].stream = s /\ writer'[t].item = writer[t].item /\ writer'[t].type = writer[t].type
      /\ writer[t].pc = "type" => writer'[t].pc = "next"
      /\ writer[t].pc = "next" => writer'[t].pc = IF writer[t].type = "ThreadEvents" THEN "id" ELSE "item"
      /\ writer[t].pc = "id" => writer'[t].pc = "item"
      /\ OutputBlockWrite(s, cells, k)
  BY <1>1, <1>2 DEF Heads
<1>4. WritesTo(t, s) /\ writer[t].pc # "reserve" /\ Wrote(s, cells, k) /\ InHand(t, s, cells) /\ FileInv
  BY <1>3 DEF Puts, Known
<1>5. /\ Base(s) \in Nat \ {0} /\ m_Block[s].end \in Nat /\ m_Block[s].next \in Nat
      /\ Base(s) + 2 <= m_Block[s].end /\ (s > 0 => Base(s) + 3 <= m_Block[s].end)
      /\ (s > 0 => s = t)
      /\ s > 0 => EventHand(t, writer[t])
      /\ s <= 0 => DataHand(t, writer[t])
  BY <1>4, OpenWhenWriting
<1>6. /\ writer[t].pc = "type" => m_Block[s].next = Base(s) /\ cells[1].kind = "type"
      /\ writer[t].pc = "next" => m_Block[s].next = Base(s) + 1 /\ cells[1].kind = "next" /\ cells[1].end = m_Block[s].end
      /\ writer[t].pc = "id" => m_Block[s].next = Base(s) + 2 /\ s = t /\ cells[1].kind = "id"
      /\ Len(cells) = 1
      /\ \A i \in 2..Len(cells) : Plain(cells[i])
  BY <1>3, <1>4, InHandFacts
<1>7. writer[t].pc = "type" => cells[1] = [kind |-> "type", type |-> writer[t].type]
  BY <1>4 DEF InHand
<1>8. m_Block[s].next < m_Block[s].end /\ m_Block[s].next + 1 <= m_Block[s].end
  <2>1. t > 0 /\ t \in Nat
    BY StreamsFacts
  <2>2. writer[t].pc = "id" => s > 0
    BY <1>6, <2>1
  <2> QED BY <1>3, <1>5, <1>6, <2>2
<1>9. failures = 0 /\ k = 1
  BY <1>3, <1>4, <1>6, <1>8, WholePut
<1>10. /\ m_Block[s].next \in DOMAIN file'
       /\ \E whole \in BOOLEAN : file'[m_Block[s].next] = Stored(cells[1], whole)
       /\ NextOffsets' = NextOffsets \cup (IF k > 0 /\ cells[1].kind = "next" THEN {m_Block[s].next} ELSE {})
       /\ EventOffsets' = EventOffsets \cup (IF k > 0 /\ cells[1].kind = "event" THEN {m_Block[s].next} ELSE {})
  <2>1. k > 0
    BY <1>9
  <2>2. /\ m_Block[s].next \in DOMAIN file'
        /\ NextOffsets' = NextOffsets \cup (IF k > 0 /\ cells[1].kind = "next" THEN {m_Block[s].next} ELSE {})
        /\ EventOffsets' = EventOffsets \cup (IF k > 0 /\ cells[1].kind = "event" THEN {m_Block[s].next} ELSE {})
    BY <2>1, <1>4, <1>6, WroteShape
  <2>3. file'[m_Block[s].next] = Stored(cells[1], k = Len(cells))
    BY <2>1, <1>4, <1>6, WroteShape
  <2>4. (k = Len(cells)) \in BOOLEAN
    OBVIOUS
  <2> QED BY <2>2, <2>3, <2>4, Zenon
<1>11. cells[1].kind \in {"type", "next", "id"} /\ cells[1].kind = writer[t].pc
  BY <1>3, <1>6
<1>12. file'[m_Block[s].next] = cells[1] /\ EventOffsets' = EventOffsets
       /\ NextOffsets' = IF writer[t].pc = "next" THEN NextOffsets \cup {m_Block[s].next} ELSE NextOffsets
  BY <1>9, <1>10, <1>11 DEF Stored
<1>13. m_Block'[s].next = m_Block[s].next + 1
  BY <1>4, <1>6, <1>8 DEF Wrote
<1>14. \A q \in EventOffsets : file'[q] = file[q]
  BY <1>4, WroteKeeps
<1>15. Beside(t, s)
  BY <1>3, PutsBeside
<1>16. writer'[t].pc # "idle" /\ WritesTo(t, s)'
  BY <1>3 DEF WritesTo
<1>17. Base(s)' = Base(s)
  BY <1>3, <1>4, <1>15, StillBase DEF Beside
<1>18. IF s > 0 THEN writer[t].type = "ThreadEvents" ELSE writer[t].type # "ThreadEvents"
  BY <1>5, StreamsFacts DEF EventHand, DataHand
<1>19. \/ /\ writer[t].pc = "type" /\ writer'[t].pc = "next" /\ NextOffsets' = NextOffsets
          /\ Base(s) \in DOMAIN file' /\ file'[Base(s)] = [kind |-> "type", type |-> writer[t].type]
       \/ /\ writer[t].pc = "next" /\ writer'[t].pc = IF writer[t].type = "ThreadEvents" THEN "id" ELSE "item"
          /\ NextOffsets' = NextOffsets \cup {Base(s) + 1}
          /\ file'[Base(s) + 1].end = m_Block[s].end /\ m_Block'[s].next = Base(s) + 2
       \/ /\ writer[t].pc = "id" /\ writer'[t].pc = "item" /\ NextOffsets' = NextOffsets /\ s = t
          /\ Base(s) + 2 \in DOMAIN file' /\ file'[Base(s) + 2].kind = "id" /\ m_Block'[s].next = Base(s) + 3
  <2>1. CASE writer[t].pc = "type"
    BY <2>1, <1>3, <1>6, <1>7, <1>10, <1>12
  <2>2. CASE writer[t].pc = "next"
    BY <2>2, <1>3, <1>5, <1>6, <1>12, <1>13
  <2>3. CASE writer[t].pc = "id"
    BY <2>3, <1>3, <1>5, <1>6, <1>10, <1>12, <1>13
  <2> QED BY <1>3, <2>1, <2>2, <2>3
<1>20. Base(s) \in Nat /\ (s > 0 => s = t)
  BY <1>5
<1>21. HeaderPut(t, s)
  BY <1>3, <1>12, <1>14, <1>15, <1>16, <1>17, <1>18, <1>19, <1>20 DEF HeaderPut
<1> QED BY <1>9, <1>21

\* The blocks still follow one another when the header of one is written.
LEMMA HeaderCover ==
  ASSUME Known, Whole, NEW t \in Threads, NEW s \in Streams, HeaderPut(t, s)
  PROVE  CoverInv'
PROOF
<1>1. Beside(t, s) /\ Base(s)' = Base(s) /\ Base(s) \in Nat /\ WritesTo(t, s) /\ WritesTo(t, s)' /\ Grown
  BY DEF HeaderPut, Beside
<1>2. \A p \in NextOffsets' : p \in NextOffsets \/ (p = Base(s) + 1 /\ writer[t].pc = "next" /\ file'[p].end = m_Block[s].end)
  BY DEF HeaderPut
<1>3. writer[t].pc = "next" => s \in Unnamed
  BY <1>1 DEF Unnamed
<1>4. \A p \in NextOffsets' : p \in NextOffsets \/ file'[p].end \in Ends
  BY <1>2, <1>3 DEF Ends
<1>5. m_TraceOffset \in Beginnings'
  BY <1>1 DEF Beginnings, Beside
<1>6. (\A u \in Unnamed' : Base(u)' \in Beginnings') /\ \A p \in NextOffsets' : p - 1 \in Beginnings'
  BY DEF Beginnings
<1>7. ASSUME NEW u \in Unnamed PROVE Base(u) \in Beginnings'
  <2>1. PICK v \in Threads : u \in Streams /\ WritesTo(v, u) /\ writer[v].pc \in {"type", "next"}
    BY UnnamedHas
  <2>2. CASE v # t
    <3>1. WritesTo(v, u)' /\ writer'[v].pc \in {"type", "next"} /\ Base(u)' = Base(u)
      BY <1>1, <2>1, <2>2 DEF Beside
    <3>2. u \in Unnamed'
      BY <2>1, <3>1 DEF Unnamed
    <3> QED BY <3>1, <3>2, <1>6
  <2>3. CASE v = t
    <3>1. u = s
      BY <1>1, <2>1, <2>3 DEF WritesTo
    <3>2. CASE writer[t].pc = "type"
      <4>1. writer'[t].pc = "next"
        BY <3>2 DEF HeaderPut
      <4>2. s \in Unnamed'
        BY <1>1, <4>1 DEF Unnamed
      <4> QED BY <3>1, <4>2, <1>1, <1>6
    <3>3. CASE writer[t].pc = "next"
      <4>1. Base(s) + 1 \in NextOffsets'
        BY <3>3 DEF HeaderPut
      <4>2. (Base(s) + 1) - 1 = Base(s)
        BY <1>1
      <4>3. (Base(s) + 1) - 1 \in Beginnings'
        BY <4>1, <1>6
      <4> QED BY <3>1, <4>2, <4>3
    <3> QED BY <2>1, <2>3, <3>2, <3>3
  <2> QED BY <2>2, <2>3
<1>8. ASSUME NEW u \in Unnamed' PROVE u \in Unnamed /\ m_Block'[u].end = m_Block[u].end
  <2>1. PICK v \in Threads : u \in Streams /\ WritesTo(v, u)' /\ writer'[v].pc \in {"type", "next"}
    BY DEF Unnamed
  <2>2. CASE v # t
    <3>1. WritesTo(v, u) /\ writer[v].pc \in {"type", "next"}
      BY <1>1, <2>1, <2>2 DEF Beside
    <3> QED BY <1>1, <2>1, <3>1 DEF Unnamed, Beside
  <2>3. CASE v = t
    <3>1. u = s
      BY <1>1, <2>1, <2>3 DEF WritesTo
    <3>2. writer[t].pc \in {"type", "next"}
      BY <2>1, <2>3 DEF HeaderPut
    <3> QED BY <1>1, <2>1, <3>1, <3>2 DEF Unnamed, Beside
  <2> QED BY <2>2, <2>3
<1> QED BY <1>1, <1>4, <1>5, <1>7, <1>8, CoverKept DEF Whole

\* The type is written before the end.
LEMMA HeaderTyped ==
  ASSUME Known, Whole, NEW t \in Threads, NEW s \in Streams, HeaderPut(t, s)
  PROVE  TypedInv' /\ \A p \in NextOffsets' : p \in NextOffsets \/
                        (/\ p = Base(s) + 1 /\ writer[t].pc = "next"
                         /\ file'[p - 1].kind = "type" /\ file'[p - 1].type = writer[t].type)
PROOF
<1>1. Beside(t, s) /\ Base(s)' = Base(s) /\ Base(s) \in Nat /\ WritesTo(t, s) /\ WritesTo(t, s)' /\ Grown
  BY DEF HeaderPut, Beside
<1>2. /\ \A p \in NextOffsets : file'[p] = file[p]
      /\ \A o \in DOMAIN file : file[o].kind \in {"type", "id"} => o \in DOMAIN file' /\ file'[o] = file[o]
  BY <1>1, GrownFacts
<1>3. writer[t].pc = "next" => Base(s) \in DOMAIN file /\ file[Base(s)].kind = "type" /\ file[Base(s)].type = writer[t].type
  BY <1>1 DEF Whole, TypedInv
<1>4. ASSUME NEW p \in NextOffsets', p \notin NextOffsets
      PROVE  /\ p = Base(s) + 1 /\ writer[t].pc = "next" /\ p - 1 \in DOMAIN file'
             /\ file'[p - 1].kind = "type" /\ file'[p - 1].type = writer[t].type
  <2>1. p = Base(s) + 1 /\ writer[t].pc = "next"
    BY <1>4 DEF HeaderPut
  <2>2. p - 1 = Base(s)
    BY <1>1, <2>1
  <2> QED BY <2>1, <2>2, <1>2, <1>3
<1>5. ASSUME NEW p \in NextOffsets' PROVE p - 1 \in DOMAIN file' /\ file'[p - 1].kind = "type"
  <2>1. CASE p \in NextOffsets
    BY <2>1, <1>2 DEF Whole, TypedInv
  <2>2. CASE p \notin NextOffsets
    BY <2>2, <1>4
  <2> QED BY <2>1, <2>2
<1>6. ASSUME NEW v \in Threads, NEW u \in Streams, WritesTo(v, u)', writer'[v].pc = "next"
      PROVE  Base(u)' \in DOMAIN file' /\ file'[Base(u)'].kind = "type" /\ file'[Base(u)'].type = writer'[v].type
  <2>1. CASE v # t
    <3>1. WritesTo(v, u) /\ writer'[v] = writer[v] /\ writer[v].pc = "next"
      BY <1>1, <1>6, <2>1 DEF Beside
    <3>2. Base(u)' = Base(u)
      BY <1>1, <2>1, <3>1 DEF Beside
    <3>3. Base(u) \in DOMAIN file /\ file[Base(u)].kind = "type" /\ file[Base(u)].type = writer[v].type
      BY <3>1 DEF Whole, TypedInv
    <3> QED BY <3>1, <3>2, <3>3, <1>2
  <2>2. CASE v = t
    <3>1. u = s
      BY <1>1, <1>6, <2>2 DEF WritesTo
    <3>2. writer[t].pc = "type" /\ Base(s) \in DOMAIN file' /\ file'[Base(s)] = [kind |-> "type", type |-> writer[t].type]
      BY <1>6, <2>2 DEF HeaderPut
    <3>3. writer'[t].type = writer[t].type
      BY DEF HeaderPut
    <3> QED BY <1>1, <2>2, <3>1, <3>2, <3>3
  <2> QED BY <2>1, <2>2
<1>7. TypedInv'
  BY <1>5, <1>6 DEF TypedInv
<1> QED BY <1>4, <1>7

\* A block that is made for events will have its ID and the first of them.
LEMMA HeaderBegun ==
  ASSUME Known, Whole, NEW t \in Threads, NEW s \in Streams, HeaderPut(t, s)
  PROVE  BegunInv'
PROOF
<1>1. Beside(t, s) /\ Base(s)' = Base(s) /\ Base(s) \in Nat /\ WritesTo(t, s) /\ WritesTo(t, s)' /\ Grown
  BY DEF HeaderPut, Beside
<1>2. /\ \A o \in DOMAIN file : file[o].kind \in {"type", "id"} => o \in DOMAIN file' /\ file'[o] = file[o]
      /\ EventOffsets \subseteq EventOffsets'
  BY <1>1, GrownFacts
<1> SUFFICES ASSUME NEW p \in NextOffsets', file'[p - 1].type = "ThreadEvents"
             PROVE  Begun(p)' \/ \E v \in Threads : Begins(v, p)'
  BY DEF BegunInv
<1>3. CASE p \notin NextOffsets
  <2>1. p = Base(s) + 1 /\ writer[t].pc = "next" /\ writer[t].type = "ThreadEvents"
    BY <1>3, HeaderTyped
  <2>2. s = t /\ writer'[t].pc = "id"
    BY <2>1 DEF HeaderPut
  <2>3. Begins(t, p)'
    BY <1>1, <2>1, <2>2 DEF Begins
  <2> QED BY <2>3
<1>4. CASE p \in NextOffsets
  <2>1. file[p - 1].type = "ThreadEvents"
    BY <1>2, <1>4 DEF Whole, TypedInv
  <2>2. CASE Begun(p)
    BY <2>2, <1>2 DEF Begun
  <2>3. ASSUME NEW v \in Threads, Begins(v, p) PROVE Begins(v, p)'
    <3>1. v \in Streams /\ v > 0 /\ WritesTo(v, v)
      BY <2>3, StreamsFacts DEF Begins
    <3>2. CASE v # t
      <4>1. writer'[v] = writer[v] /\ v # s
        BY <1>1, <3>1, <3>2 DEF Beside
      <4>2. m_Block'[v].end = m_Block[v].end /\ m_Block'[v].next = m_Block[v].next
        BY <1>1, <3>1, <4>1 DEF Beside
      <4> QED BY <1>1, <2>3, <4>1, <4>2, BeginsKept
    <3>3. CASE v = t
      <4>1. s = t
        BY <1>1, <3>1, <3>3 DEF WritesTo
      <4>2. writer[t].pc = "id" /\ p = Base(t) + 1
        BY <2>3, <3>3 DEF Begins, HeaderPut
      <4>3. /\ writer'[t].pc = "item" /\ Base(t) + 2 \in DOMAIN file' /\ file'[Base(t) + 2].kind = "id"
            /\ m_Block'[t].next = Base(t) + 3
        BY <4>1, <4>2 DEF HeaderPut
      <4>4. p + 1 = Base(t) + 2 /\ p + 2 = Base(t) + 3
        BY <1>1, <4>1, <4>2
      <4> QED BY <1>1, <3>3, <4>1, <4>2, <4>3, <4>4 DEF Begins
    <3> QED BY <3>2, <3>3
  <2> QED BY <2>1, <2>2, <2>3, <1>4 DEF Whole, BegunInv
<1> QED BY <1>3, <1>4

\* The block that gets its end is the only one that ends there.
LEMMA HeaderApart ==
  ASSUME Known, Whole, NEW t \in Threads, NEW s \in Streams, HeaderPut(t, s)
  PROVE  ApartInv'
PROOF
<1>1. Grown /\ WritesTo(t, s) /\ writer[t].pc # "reserve"
  BY DEF HeaderPut, Beside
<1>2. NextOffsets \subseteq NextOffsets' /\ \A p \in NextOffsets : file'[p] = file[p]
  BY <1>1, GrownFacts
<1>3. \A p \in NextOffsets' : p \in NextOffsets \/ (p = Base(s) + 1 /\ file'[p].end = m_Block[s].end)
  BY DEF HeaderPut
<1>4. \A p \in NextOffsets : file[p].end = m_Block[s].end => p = Base(s) + 1
  BY <1>1, OpenWhenWriting DEF PlaceInv
<1> QED BY <1>2, <1>3, <1>4 DEF ApartInv, Whole

\* The phase in which main writes the block of a type.
During(type, during) ==
  \/ type = "ModuleBitcode" /\ during = "module"
  \/ type = "ProcessTrace" /\ during = "process"

\* The header of the one block of a type is written once.
LEMMA HeaderSingle ==
  ASSUME Known, Whole, NEW t \in Threads, NEW s \in Streams, HeaderPut(t, s), phase' = phase,
         NEW type, NEW during, During(type, during), Single(type, during)
  PROVE  Single(type, during)'
PROOF
<1>1. Beside(t, s) /\ Base(s)' = Base(s) /\ Base(s) \in Nat /\ WritesTo(t, s) /\ Grown /\ TypedInv
  BY DEF HeaderPut, Beside, Whole
<1>2. Main \in Threads /\ -Main \in Streams
  BY StreamsFacts
<1>3. type # "ThreadEvents"
  BY DEF During
<1>4. /\ writer[t].pc \in {"type", "next", "id"} /\ writer'[t].pc # "idle"
      /\ writer'[t].stream = s /\ writer'[t].item = writer[t].item /\ writer'[t].type = writer[t].type
      /\ writer'[t].pc = "item" /\ writer[t].type # "ThreadEvents" => writer[t].pc = "next"
      /\ writer[t].stream = s /\ \A v \in Threads : v # t => writer'[v] = writer[v]
  <2>1. t > 0
    BY StreamsFacts
  <2> QED BY <1>1, <2>1 DEF HeaderPut, Beside, WritesTo
<1>5. Over(type)' <=> Over(type)
  BY DEF Over
<1>6. ASSUME NEW v \in Threads, writer'[v].pc # "idle", writer'[v].type = type
      PROVE  v = Main /\ phase' = during /\ writer'[v].stream = -Main /\ Len(writer'[v].item) = 1
  <2>1. /\ writer[v].pc # "idle" /\ writer[v].type = type
        /\ writer'[v].stream = writer[v].stream /\ writer'[v].item = writer[v].item
    BY <1>4, <1>6
  <2> QED BY <2>1 DEF Single
<1>7. CASE writer[t].pc = "next" /\ writer[t].type = type
  <2>1. t = Main /\ s = -Main /\ phase = during
    BY <1>4, <1>7 DEF Single
  <2>2. ~Over(type) /\ ~Fills(type)
    BY <1>7, <2>1 DEF Over, During, Fills, Makes
  <2>3. Named(type) = {}
    BY <2>2 DEF Single
  <2>4. /\ NextOffsets' = NextOffsets \cup {Base(s) + 1} /\ writer'[t].pc = "item"
        /\ m_Block'[s].next = Base(s) + 2
    BY <1>3, <1>7 DEF HeaderPut
  <2>5. Base(s) \in DOMAIN file /\ file[Base(s)].kind = "type" /\ file[Base(s)].type = type
    BY <1>1, <1>7 DEF TypedInv
  <2>6. file'[Base(s)] = file[Base(s)] /\ (Base(s) + 1) - 1 = Base(s)
    BY <1>1, <2>5, GrownFacts
  <2>7. Base(s) + 1 \in Named(type)'
    BY <2>4, <2>5, <2>6 DEF Named
  <2>8. \A p \in NextOffsets : p \notin Named(type)'
    BY <1>1, <2>3, NamedKept
  <2>9. \A p \in Named(type)' : p = Base(s) + 1
    BY <2>4, <2>8 DEF Named
  <2>10. Fills(type)' /\ ~Over(type)'
    BY <1>4, <1>5, <1>7, <2>1, <2>2, <2>4 DEF Fills, Makes
  <2>11. Base(-Main)' + 1 \in Named(type)' /\ m_Block'[-Main].next = Base(-Main)' + 2
    BY <1>1, <2>1, <2>4, <2>7
  <2> QED BY <1>6, <2>9, <2>10, <2>11 DEF Single
<1>8. CASE ~(writer[t].pc = "next" /\ writer[t].type = type)
  <2>1. Named(type)' = Named(type)
    <3>1. \A p \in NextOffsets' : p \in NextOffsets \/ file'[p - 1].type # type
      BY <1>8, HeaderTyped
    <3>2. NextOffsets \subseteq NextOffsets'
      BY <1>1, GrownFacts
    <3>3. \A p \in Named(type)' : p \in NextOffsets
      BY <3>1 DEF Named
    <3>4. \A p \in Named(type) : p \in NextOffsets
      BY DEF Named
    <3> QED BY <1>1, <3>3, <3>4, NamedKept
  <2>2. Fills(type) => Main # t
    BY <1>4 DEF Fills, Makes
  <2>3. Fills(type)' => Main # t
    BY <1>3, <1>4, <1>8 DEF Fills, Makes
  <2>4. Main # t => writer'[Main] = writer[Main]
    BY <1>2, <1>4
  <2>5. Fills(type) => Fills(type)'
    BY <2>2, <2>4 DEF Fills, Makes
  <2>6. Fills(type)' => Fills(type) /\ Base(-Main)' = Base(-Main) /\ m_Block'[-Main].next = m_Block[-Main].next
    <3> SUFFICES ASSUME Fills(type)'
                 PROVE  Fills(type) /\ Base(-Main)' = Base(-Main) /\ m_Block'[-Main].next = m_Block[-Main].next
      OBVIOUS
    <3>1. Main # t /\ Fills(type)
      BY <2>3, <2>4 DEF Fills, Makes
    <3>2. WritesTo(Main, -Main) /\ writer[Main].pc = "item"
      BY <3>1, <1>2 DEF Fills, Makes, Single, WritesTo
    <3>3. -Main # s /\ Base(-Main)' = Base(-Main)
      BY <1>1, <1>2, <3>1, <3>2 DEF Beside
    <3> QED BY <1>1, <1>2, <3>1, <3>3 DEF Beside
  <2> QED BY <1>1, <1>5, <1>6, <2>1, <2>5, <2>6, SingleKept
<1> QED BY <1>7, <1>8

\* As long as no write fails, headers are complete.
LEMMA HeaderWhole ==
  ASSUME Known, 0 \in DOMAIN file, failures = 0 => Whole, failures' = 0, NEW t \in Threads,
         WriteType(t) \/ WriteNextBlock(t) \/ writeHeader(t)
  PROVE  Whole'
PROOF
<1>1. PICK s \in Streams : failures = 0 /\ HeaderPut(t, s)
  BY HeaderPuts
<1>2. Whole
  BY <1>1
<1>3. phase' = phase
  BY DEF WriteType, WriteNextBlock, writeHeader, WriteHeaderCell
<1>4. UntornInv'
  BY <1>1, <1>2 DEF Whole, UntornInv, HeaderPut
<1>5. CoverInv' /\ TypedInv' /\ ApartInv' /\ BegunInv'
  BY <1>1, <1>2, HeaderCover, HeaderTyped, HeaderApart, HeaderBegun
<1>6. During("ModuleBitcode", "module") /\ During("ProcessTrace", "process")
  BY DEF During
<1>7. Single("ModuleBitcode", "module")' /\ Single("ProcessTrace", "process")'
  BY <1>1, <1>2, <1>3, <1>6, HeaderSingle DEF Whole, SingleInv
<1> QED BY <1>4, <1>5, <1>7 DEF Whole, SingleInv

\* Thread t has written its item to stream s, or there was no room for it.
ItemPut(t, s) ==
  /\ Beside(t, s) /\ writer[t].pc = "item" /\ writer[t].stream = s /\ PhaseMoves(t)
  /\ \/ writer'[t] = Idle
     \/ /\ writer'[t].pc = "reserve" /\ writer'[t].stream = s
        /\ writer'[t].item = writer[t].item /\ writer'[t].type = writer[t].type
  /\ NextOffsets' = NextOffsets
  /\ \A q \in EventOffsets' : (q \in EventOffsets /\ file'[q] = file[q]) \/ ~file'[q].torn
  /\ s > 0 /\ m_Block[s].next = Base(s) + 3 => Base(s) + 3 \in EventOffsets'
  /\ s < 0 /\ Len(writer[t].item) = 1 /\ m_Block[s].next = Base(s) + 2 =>
       writer'[t] = Idle /\ Base(s) + 2 \in DOMAIN file'
  /\ Base(s) \in Nat

\* What begins three places into a block and is three shorter than the block ends in it.
LEMMA RoomAfterBase ==
  ASSUME NEW x \in Nat, NEW y \in Nat, NEW z \in Nat, NEW l \in Nat, NEW n \in Nat,
         z = x + 3 /\ l >= 1 /\ l + 3 <= n /\ x = y - n
  PROVE  z < y /\ z + l <= y
PROOF OBVIOUS

\* There is room in a new block for an event, and for the piece of data it is for.
LEMMA ItemPuts ==
  ASSUME Known, 0 \in DOMAIN file, NEW t \in Threads, failures' = 0, WriteItem(t)
  PROVE  failures = 0 /\ \E s \in Streams : ItemPut(t, s)
PROOF
<1>1. PICK cells \in Seq(AnyCell) : cells = writer[t].item
  BY ItemEffect
<1>2. PICK s \in Streams, k \in Nat : Items(t, s, k) /\ OutputBlockWrite(s, cells, k) /\ PhaseMoves(t)
  BY <1>1, ItemEffect
<1>3. /\ writer[t].pc = "item" /\ Puts(t, s, cells, k) /\ Continues(t)
      /\ GoesOn(t, s, k) \/ IsDone(t, s, k)
  BY <1>1, <1>2 DEF Items
<1>4. WritesTo(t, s) /\ writer[t].pc # "reserve" /\ Wrote(s, cells, k) /\ InHand(t, s, cells) /\ FileInv
  BY <1>3 DEF Puts, Known
<1>5. /\ Base(s) \in Nat \ {0} /\ m_Block[s].end \in Nat /\ m_Block[s].next \in Nat
      /\ (s > 0 => s = t) /\ (s < 0 => s = -t)
      /\ s > 0 => EventHand(t, writer[t])
  BY <1>4, OpenWhenWriting
<1>6. /\ \A i \in 2..Len(cells) : Plain(cells[i])
      /\ s > 0 => cells[1].kind = "event" /\ Len(cells) >= 1
      /\ s <= 0 => \A i \in 1..Len(cells) : Plain(cells[i])
  BY <1>3, <1>4, InHandFacts
<1>7. /\ failures = 0 /\ (k > 0 => k = Len(cells))
      /\ m_Block[s].next < m_Block[s].end /\ m_Block[s].next + Len(cells) <= m_Block[s].end => k = Len(cells)
  BY <1>2, <1>4, WholePut
<1>8. s \in Int /\ t \in Nat \ {0} /\ Len(cells) \in Nat
  BY StreamsFacts
<1>9. Beside(t, s)
  BY <1>3, PutsBeside
<1>10. writer[t].stream = s
  BY <1>4 DEF WritesTo
<1>11. \/ writer'[t] = Idle
       \/ /\ writer'[t].pc = "reserve" /\ writer'[t].stream = s
          /\ writer'[t].item = writer[t].item /\ writer'[t].type = writer[t].type
  BY <1>3 DEF GoesOn, IsDone
<1>12. k > 0 => m_Block[s].next \in DOMAIN file'
  BY <1>4, <1>6, WroteShape
<1>13. /\ NextOffsets' = NextOffsets \cup (IF k > 0 /\ cells[1].kind = "next" THEN {m_Block[s].next} ELSE {})
       /\ EventOffsets' = EventOffsets \cup (IF k > 0 /\ cells[1].kind = "event" THEN {m_Block[s].next} ELSE {})
  BY <1>4, <1>6, WroteShape
<1>14. NextOffsets' = NextOffsets
  <2>1. CASE s > 0
    BY <2>1, <1>6, <1>13
  <2>2. CASE s <= 0
    <3>1. k > 0 => 1 \in 1..Len(cells)
      BY <1>7, <1>8
    <3>2. k > 0 => cells[1].kind # "next"
      BY <2>2, <3>1, <1>6 DEF Plain
    <3> QED BY <3>2, <1>13
  <2> QED BY <2>1, <2>2, <1>8
<1>15. ASSUME NEW q \in EventOffsets' PROVE (q \in EventOffsets /\ file'[q] = file[q]) \/ ~file'[q].torn
  <2>1. CASE q \in EventOffsets
    BY <2>1, <1>4, WroteKeeps
  <2>2. CASE q \notin EventOffsets
    <3>1. q = m_Block[s].next /\ k > 0 /\ cells[1].kind = "event"
      BY <2>2, <1>13
    <3>2. k = Len(cells)
      BY <3>1, <1>7
    <3>3. file'[q] = Stored(cells[1], TRUE)
      <4>1. file'[q] = Stored(cells[1], k = Len(cells))
        BY <3>1, <1>4, <1>6, WroteShape
      <4>2. (k = Len(cells)) = TRUE
        BY <3>2
      <4> QED BY <4>1, <4>2, Zenon
    <3>4. cells[1] \in EventCell
      <4>1. 1 \in 1..Len(cells)
        BY <3>1, <3>2, <1>8
      <4>2. cells[1] \in AnyCell
        BY <4>1
      <4>3. \A c \in AnyCell : c.kind = "event" => c \in EventCell
        BY DEF AnyCell, ItemCell, HeaderCell, EventCell, RestCell, PieceCell
      <4> QED BY <4>2, <4>3, <3>1
    <3>5. Stored(cells[1], TRUE).torn = FALSE
      BY <3>1, <3>4 DEF Stored, EventCell
    <3> QED BY <3>3, <3>5
  <2> QED BY <2>1, <2>2
<1>16. s > 0 /\ m_Block[s].next = Base(s) + 3 => Base(s) + 3 \in EventOffsets'
  <2> SUFFICES ASSUME s > 0, m_Block[s].next = Base(s) + 3 PROVE Base(s) + 3 \in EventOffsets'
    OBVIOUS
  <2>1. Len(cells) >= 1 /\ Len(cells) + 3 <= BlockSize /\ cells[1].kind = "event"
    BY <1>1, <1>5, <1>6, <1>8, ConstantsAssumption DEF EventHand, HeaderSize, IDSize
  <2>2. Base(s) = m_Block[s].end - BlockSize /\ BlockSize \in Nat
    <3>1. ~(s < 0)
      BY <1>8
    <3> QED BY <3>1, ConstantsAssumption DEF Base
  <2>3. m_Block[s].next < m_Block[s].end /\ m_Block[s].next + Len(cells) <= m_Block[s].end
    <3> PICK x \in Nat, y \in Nat, z \in Nat, l \in Nat :
          x = Base(s) /\ y = m_Block[s].end /\ z = m_Block[s].next /\ l = Len(cells)
      BY <1>5, <1>8
    <3>1. z = x + 3 /\ l >= 1 /\ l + 3 <= BlockSize /\ x = y - BlockSize
      BY <2>1, <2>2
    <3>2. PICK n \in Nat : n = BlockSize
      BY <2>2
    <3>3. z = x + 3 /\ l >= 1 /\ l + 3 <= n /\ x = y - n
      BY <3>1, <3>2
    <3>4. z < y /\ z + l <= y
      BY <3>3, RoomAfterBase
    <3> QED BY <3>4
  <2>4. k > 0
    BY <2>1, <2>3, <1>7
  <2> QED BY <2>1, <2>4, <1>13
<1>17. s < 0 /\ Len(writer[t].item) = 1 /\ m_Block[s].next = Base(s) + 2 =>
         writer'[t] = Idle /\ Base(s) + 2 \in DOMAIN file'
  <2> SUFFICES ASSUME s < 0, Len(writer[t].item) = 1, m_Block[s].next = Base(s) + 2
               PROVE  writer'[t] = Idle /\ Base(s) + 2 \in DOMAIN file'
    OBVIOUS
  <2>1. Len(cells) = 1 /\ -s = t
    BY <1>1, <1>5, <1>8
  <2>2. Base(s) = m_Block[s].end - 3
    <3>1. Len(writer[-s].item) = 1
      BY <2>1
    <3> QED BY <3>1 DEF Base, HeaderSize
  <2>3. k = 1
    BY <2>1, <2>2, <1>5, <1>7
  <2>4. ~GoesOn(t, s, k)
    BY <2>1, <2>3, <1>1 DEF GoesOn
  <2> QED BY <2>3, <2>4, <1>3, <1>12 DEF IsDone
<1>18. Base(s) \in Nat
  BY <1>5
<1>19. ItemPut(t, s)
  BY <1>2, <1>3, <1>9, <1>10, <1>11, <1>14, <1>15, <1>16, <1>17, <1>18 DEF ItemPut
<1> QED BY <1>7, <1>19

\* A block for events gets the first of them, and no block loses anything.
LEMMA ItemShape ==
  ASSUME Known, Whole, NEW t \in Threads, NEW s \in Streams, ItemPut(t, s)
  PROVE  CoverInv' /\ TypedInv' /\ ApartInv' /\ BegunInv' /\ UntornInv'
PROOF
<1>1. Beside(t, s) /\ WritesTo(t, s) /\ Grown /\ NextOffsets' = NextOffsets
  BY DEF ItemPut, Beside
<1>2. writer[t].pc = "item" /\ writer'[t].pc \in {"idle", "reserve"}
  BY DEF ItemPut, Idle
<1>3. /\ \A p \in NextOffsets : file'[p] = file[p]
      /\ \A o \in DOMAIN file : file[o].kind \in {"type", "id"} => o \in DOMAIN file' /\ file'[o] = file[o]
      /\ EventOffsets \subseteq EventOffsets'
  BY <1>1, GrownFacts
<1>4. \A v \in Threads : writer[v].pc \in {"type", "next"} \/ writer'[v].pc \in {"type", "next"} =>
        v # t /\ writer'[v] = writer[v]
  BY <1>1, <1>2 DEF Beside
<1>5. \A v \in Threads : \A u \in Streams : v # t => (WritesTo(v, u)' <=> WritesTo(v, u))
  BY <1>1 DEF Beside
<1>6. \A v \in Threads : \A u \in Streams : v # t /\ WritesTo(v, u) /\ writer[v].pc # "reserve" => Base(u)' = Base(u)
  BY <1>1 DEF Beside
<1>7. Unnamed' = Unnamed
  BY <1>4, <1>5 DEF Unnamed
<1>8. \A u \in Unnamed : Base(u)' = Base(u) /\ m_Block'[u].end = m_Block[u].end
  BY <1>1, <1>4, <1>6 DEF Unnamed, Beside
<1>9. CoverInv'
  <2>1. m_TraceOffset \in Beginnings'
    BY <1>1 DEF Beginnings, Beside
  <2>2. \A u \in Unnamed' : Base(u)' \in Beginnings'
    BY DEF Beginnings
  <2>3. \A u \in Unnamed : Base(u) \in Beginnings'
    BY <2>2, <1>7, <1>8
  <2> QED BY <1>1, <1>7, <1>8, <2>1, <2>3, CoverKept DEF Whole
<1>10. TypedInv'
  <2>1. \A p \in NextOffsets' : p - 1 \in DOMAIN file' /\ file'[p - 1].kind = "type"
    BY <1>1, <1>3 DEF Whole, TypedInv
  <2>2. ASSUME NEW v \in Threads, NEW u \in Streams, WritesTo(v, u)', writer'[v].pc = "next"
        PROVE  Base(u)' \in DOMAIN file' /\ file'[Base(u)'].kind = "type" /\ file'[Base(u)'].type = writer'[v].type
    <3>1. v # t /\ writer'[v] = writer[v]
      BY <1>4, <2>2
    <3>2. WritesTo(v, u) /\ writer[v].pc = "next"
      BY <1>5, <2>2, <3>1
    <3>3. Base(u)' = Base(u)
      BY <1>6, <3>1, <3>2
    <3>4. Base(u) \in DOMAIN file /\ file[Base(u)].kind = "type" /\ file[Base(u)].type = writer[v].type
      BY <3>2 DEF Whole, TypedInv
    <3> QED BY <1>3, <3>1, <3>3, <3>4
  <2> QED BY <2>1, <2>2 DEF TypedInv
<1>11. BegunInv'
  <2> SUFFICES ASSUME NEW p \in NextOffsets', file'[p - 1].type = "ThreadEvents"
               PROVE  Begun(p)' \/ \E v \in Threads : Begins(v, p)'
    BY DEF BegunInv
  <2>1. p \in NextOffsets /\ file[p - 1].type = "ThreadEvents"
    BY <1>1, <1>3 DEF Whole, TypedInv
  <2>2. CASE Begun(p)
    BY <2>2, <1>3 DEF Begun
  <2>3. ASSUME NEW v \in Threads, Begins(v, p) PROVE Begun(p)' \/ Begins(v, p)'
    <3>1. v \in Streams /\ v > 0 /\ v \in Nat /\ WritesTo(v, v)
      BY <2>3, StreamsFacts DEF Begins
    <3>2. CASE v # t
      <4>1. writer'[v] = writer[v] /\ v # s
        BY <1>1, <3>1, <3>2 DEF Beside
      <4>2. m_Block'[v].end = m_Block[v].end /\ m_Block'[v].next = m_Block[v].next
        BY <1>1, <3>1, <4>1 DEF Beside
      <4> QED BY <1>1, <2>3, <4>1, <4>2, BeginsKept
    <3>3. CASE v = t
      <4>1. s = t
        BY <1>1, <3>1, <3>3 DEF WritesTo
      <4>2. p = Base(t) + 1 /\ m_Block[t].next = p + 2 /\ p + 1 \in DOMAIN file /\ file[p + 1].kind = "id"
        BY <2>3, <3>3, <1>2 DEF Begins
      <4>3. p + 2 = Base(t) + 3
        BY <4>1, <4>2 DEF ItemPut
      <4>4. p + 2 \in EventOffsets'
        BY <3>1, <3>3, <4>1, <4>2, <4>3 DEF ItemPut
      <4> QED BY <1>3, <4>2, <4>4 DEF Begun
    <3> QED BY <3>2, <3>3
  <2> QED BY <2>1, <2>2, <2>3 DEF Whole, BegunInv
<1>12. UntornInv'
  BY DEF ItemPut, Whole, UntornInv
<1>13. ApartInv'
  BY <1>1, ApartKept DEF Whole
<1> QED BY <1>9, <1>10, <1>11, <1>12, <1>13

\* The one block of a type is complete when main is done with it.
LEMMA ItemSingle ==
  ASSUME Known, Whole, NEW t \in Threads, NEW s \in Streams, ItemPut(t, s),
         NEW type, NEW during, During(type, during), Single(type, during)
  PROVE  Single(type, during)'
PROOF
<1>1. Beside(t, s) /\ WritesTo(t, s) /\ Grown /\ NextOffsets' = NextOffsets /\ TypedInv /\ Base(s) \in Nat
  BY DEF ItemPut, Beside, Whole
<1>2. Main \in Threads /\ -Main \in Streams
  BY StreamsFacts
<1>3. /\ writer[t].pc = "item" /\ writer[t].stream = s /\ writer'[t].pc \in {"idle", "reserve"}
      /\ writer'[t].pc # "idle" => writer'[t].type = writer[t].type
      /\ \A v \in Threads : v # t => writer'[v] = writer[v]
  BY DEF ItemPut, Idle, Beside
<1>4. Named(type)' = Named(type)
  <2>1. Named(type)' \subseteq NextOffsets /\ Named(type) \subseteq NextOffsets
    BY <1>1 DEF Named
  <2>2. \A p \in NextOffsets : p \in Named(type)' <=> p \in Named(type)
    BY <1>1, NamedKept
  <2> QED BY <2>1, <2>2
<1>5. CASE writer[t].type = type
  <2>1. t = Main /\ s = -Main /\ phase = during /\ Len(writer[t].item) = 1
    BY <1>3, <1>5 DEF Single
  <2>2. Fills(type)
    BY <1>3, <1>5, <2>1 DEF Fills, Makes
  <2>3. Base(s) + 1 \in Named(type) /\ m_Block[s].next = Base(s) + 2
    BY <2>1, <2>2 DEF Single
  <2>4. writer'[t] = Idle /\ Base(s) + 2 \in DOMAIN file'
    <3>1. s < 0
      BY <2>1 DEF Main
    <3> QED BY <2>1, <2>3, <3>1 DEF ItemPut
  <2>5. (Base(s) + 1) + 1 = Base(s) + 2
    BY <1>1
  <2>6. \E p \in Named(type)' : p + 1 \in DOMAIN file'
    BY <1>4, <2>3, <2>4, <2>5
  <2>7. writer'[t].pc = "idle"
    BY <2>4 DEF Idle
  <2>8. phase' = PhaseAfter(t)
    BY <2>7 DEF ItemPut, PhaseMoves
  <2>9. Over(type)' /\ ~Fills(type)'
    BY <1>5, <2>1, <2>7, <2>8 DEF During, PhaseAfter, Over, Fills, Makes
  <2>10. \A v \in Threads : ~(writer'[v].pc # "idle" /\ writer'[v].type = type)
    BY <1>3, <2>1, <2>7 DEF Single
  <2> QED BY <1>4, <2>6, <2>9, <2>10 DEF Single
<1>6. CASE writer[t].type # type
  <2>1. phase' = phase \/ phase' = PhaseAfter(t)
    BY DEF ItemPut, PhaseMoves
  <2>2. /\ writer[t].type = "ModuleBitcode" => phase = "module"
        /\ writer[t].type = "ProcessTrace" => phase = "process"
    BY <1>3 DEF Whole, SingleInv, Single
  <2>3. Over(type)' <=> Over(type)
    BY <1>6, <2>1, <2>2 DEF PhaseAfter, Over, During
  <2>4. phase = during => phase' = during
    BY <1>6, <2>1, <2>2 DEF PhaseAfter, During
  <2>5. ASSUME NEW v \in Threads, writer'[v].pc # "idle", writer'[v].type = type
        PROVE  v = Main /\ phase' = during /\ writer'[v].stream = -Main /\ Len(writer'[v].item) = 1
    <3>1. writer'[v] = writer[v]
      BY <1>3, <1>6, <2>5
    <3>2. writer[v].pc # "idle" /\ writer[v].type = type
      BY <2>5, <3>1
    <3>3. v = Main /\ phase = during /\ writer[v].stream = -Main /\ Len(writer[v].item) = 1
      BY <3>2 DEF Single
    <3> QED BY <3>1, <3>3, <2>4
  <2>6. (Fills(type) => Main # t) /\ (Fills(type)' => Main # t) /\ (Main # t => writer'[Main] = writer[Main])
    BY <1>2, <1>3, <1>6 DEF Fills, Makes
  <2>7. Fills(type) => Fills(type)'
    BY <2>6 DEF Fills, Makes
  <2>8. Fills(type)' => Fills(type) /\ Base(-Main)' = Base(-Main) /\ m_Block'[-Main].next = m_Block[-Main].next
    <3> SUFFICES ASSUME Fills(type)'
                 PROVE  Fills(type) /\ Base(-Main)' = Base(-Main) /\ m_Block'[-Main].next = m_Block[-Main].next
      OBVIOUS
    <3>1. Main # t /\ Fills(type)
      BY <2>6 DEF Fills, Makes
    <3>2. WritesTo(Main, -Main) /\ writer[Main].pc = "item"
      BY <3>1, <1>2 DEF Fills, Makes, Single, WritesTo
    <3>3. -Main # s /\ Base(-Main)' = Base(-Main)
      BY <1>1, <1>2, <3>1, <3>2 DEF Beside
    <3> QED BY <1>1, <1>2, <3>1, <3>3 DEF Beside
  <2> QED BY <1>1, <1>4, <2>3, <2>5, <2>7, <2>8, SingleKept
<1> QED BY <1>5, <1>6

\* As long as no write fails, items are complete.
LEMMA ItemWhole ==
  ASSUME Known, 0 \in DOMAIN file, failures = 0 => Whole, failures' = 0, NEW t \in Threads, WriteItem(t)
  PROVE  Whole'
PROOF
<1>1. PICK s \in Streams : failures = 0 /\ ItemPut(t, s)
  BY ItemPuts
<1>2. Whole
  BY <1>1
<1>3. CoverInv' /\ TypedInv' /\ ApartInv' /\ BegunInv' /\ UntornInv'
  BY <1>1, <1>2, ItemShape
<1>4. During("ModuleBitcode", "module") /\ During("ProcessTrace", "process")
  BY DEF During
<1>5. Single("ModuleBitcode", "module")' /\ Single("ProcessTrace", "process")'
  BY <1>1, <1>2, <1>4, ItemSingle DEF Whole, SingleInv
<1> QED BY <1>3, <1>5 DEF Whole, SingleInv

\* At first there is no block, and no thread writes.
LEMMA InitWhole == Init => Whole
PROOF
<1> SUFFICES ASSUME Init PROVE Whole
  OBVIOUS
<1>1. DOMAIN file = {0} /\ file[0].kind = "magic"
  BY DEF Init
<1>2. NextOffsets = {} /\ EventOffsets = {}
  BY <1>1 DEF NextOffsets, EventOffsets
<1>3. \A t \in Threads : writer[t].pc = "idle"
  BY DEF Init, Idle
<1>4. Unnamed = {}
  BY <1>3 DEF Unnamed
<1>5. CoverInv
  BY <1>2, <1>4 DEF CoverInv, Ends, Beginnings, Init
<1>6. TypedInv /\ ApartInv /\ BegunInv /\ UntornInv
  BY <1>2, <1>3 DEF TypedInv, ApartInv, BegunInv, UntornInv
<1>7. phase = "module" /\ Main \in Threads
  BY StreamsFacts DEF Init
<1>8. Single("ModuleBitcode", "module") /\ Single("ProcessTrace", "process")
  BY <1>2, <1>3, <1>7 DEF Single, Over, Fills, Makes, Named
<1> QED BY <1>5, <1>6, <1>8 DEF Whole, SingleInv

\* Every step that does not fail keeps the blocks whole.
LEMMA NextWhole ==
  ASSUME IndInv, ReadInv, WholeInv, [Next]_vars
  PROVE  WholeInv'
PROOF
<1>1. FileInv /\ WriterInv /\ LogInv /\ OtherTypes
  BY Parts
<1>2. Known /\ LogOrder /\ 0 \in DOMAIN file
  BY <1>1 DEF ReadInv, Known
<1> SUFFICES ASSUME failures' = 0 PROVE Whole'
  BY DEF WholeInv
<1>3. failures = 0 => Whole
  BY DEF WholeInv
<1>4. CASE writeModule \/ traceWriteProcessData
  <2>1. failures = 0
    BY <1>4 DEF writeModule, traceWriteProcessData
  <2> QED BY <2>1, <1>2, <1>3, <1>4, StartWhole, StreamsFacts
<1>5. ASSUME NEW t \in Threads,
             \/ \E size \in EventSizes : write(t, size)
             \/ \E size \in DataSizes : recordData(t, size)
      PROVE  Whole'
  <2>1. failures = 0
    BY <1>5 DEF write, recordData
  <2> QED BY <2>1, <1>2, <1>3, <1>5, StartWhole
<1>6. ASSUME NEW t \in Threads, getOutputBlock(t) PROVE Whole'
  <2>1. failures = 0
    BY <1>6 DEF getOutputBlock
  <2> QED BY <2>1, <1>2, <1>3, <1>6, ReserveWhole
<1>7. ASSUME NEW t \in Threads, WriteType(t) \/ WriteNextBlock(t) \/ writeHeader(t) PROVE Whole'
  BY <1>2, <1>3, <1>7, HeaderWhole
<1>8. ASSUME NEW t \in Threads, WriteItem(t) PROVE Whole'
  BY <1>2, <1>3, <1>8, ItemWhole
<1>9. ASSUME NEW t \in Threads, NEW i \in DOMAIN log[t], rewrite(t, i) PROVE Whole'
  <2>1. failures = 0
    BY <1>9 DEF rewrite
  <2> QED BY <2>1, <1>1, <1>2, <1>3, <1>9, RewriteWhole
<1>10. ASSUME NEW t \in Threads, checkOutputSize(t) \/ traceClose(t) PROVE Whole'
  <2>1. failures = 0 /\ UNCHANGED <<file, m_Block, m_TraceOffset, writer, phase>>
    BY <1>10 DEF checkOutputSize, traceClose
  <2> QED BY <2>1, <1>2, <1>3, StillWhole
<1>11. CASE UNCHANGED vars
  <2>1. failures = 0 /\ UNCHANGED <<file, m_Block, m_TraceOffset, writer, phase>>
    BY <1>11 DEF vars
  <2> QED BY <2>1, <1>2, <1>3, StillWhole
<1> QED BY <1>4, <1>5, <1>6, <1>7, <1>8, <1>9, <1>10, <1>11 DEF Next

\* The blocks are whole in every state before the first failure.
LEMMA WholeInvariant == Spec => []WholeInv
PROOF
<1>1. IndInv /\ ReadInv /\ WholeInv /\ [Next]_vars => WholeInv'
  BY NextWhole
<1>2. Init => WholeInv
  BY InitWhole DEF WholeInv
<1> QED BY <1>1, <1>2, StorageInvariant, ReadInvariant, PTL DEF Spec

-----------------------------------------------------------------------------
(***************************************************************************)
(* The reader on a file of that shape.  Its recursive functions exist, by  *)
(* induction on sets of numbers (the induction theorems of the library have*)
(* a predicate as a parameter), and enumerate the events of a thread.      *)
(***************************************************************************)

\* A set of natural numbers that is not empty has a smallest element.
LEMMA SmallestNumber ==
  ASSUME NEW T \in SUBSET Nat, T # {}
  PROVE  \E x \in T : \A y \in T : x <= y
<1> DEFINE R == OpToRel(<, Nat)
<1>1. IsWellFoundedOn(R, Nat)
  BY NatLessThanWellFounded, Zenon
<1>2. ASSUME NEW x \in Nat, NEW y \in Nat, y < x
      PROVE  <<y, x>> \in R
  BY <1>2, Zenon DEF OpToRel
<1> HIDE DEF R
<1>3. \E x \in T : \A y \in T : ~(<<y, x>> \in R)
  BY <1>1, WFMin, Zenon
<1>4. PICK x \in T : \A y \in T : ~(<<y, x>> \in R)
  BY <1>3, Zenon
<1>5. ASSUME NEW y \in T PROVE x <= y
  <2>1. x \in Nat /\ y \in Nat
    OBVIOUS
  <2>2. ~(y < x)
    BY <1>2, <1>4, <2>1, Zenon
  <2> QED BY <2>1, <2>2
<1> QED BY <1>5

\* A set of numbers that has 0, and n + 1 for each n it has, has all of them.
LEMMA SetInduction ==
  ASSUME NEW T, T \subseteq Nat, 0 \in T, \A n \in T : n + 1 \in T
  PROVE  \A n \in Nat : n \in T
<1> SUFFICES ASSUME NEW a \in Nat, a \notin T PROVE FALSE
  OBVIOUS
<1> DEFINE U == {n \in Nat : n \notin T}
<1>1. U \subseteq Nat /\ U # {}
  OBVIOUS
<1> HIDE DEF U
<1>2. PICK m \in U : \A k \in U : m <= k
  BY <1>1, SmallestNumber
<1>3. m \in Nat /\ m \notin T /\ m # 0
  BY <1>2 DEF U
<1>4. m - 1 \in Nat /\ m - 1 \notin U
  BY <1>3, <1>2, <1>1
<1>5. m - 1 \in T
  BY <1>4 DEF U
<1> QED
  BY <1>5, <1>3

\* The greatest number of a set that has a bound.
LEMMA GreatestNumber ==
  ASSUME NEW T \in SUBSET Nat, T # {}, NEW n \in Nat, \A x \in T : x <= n
  PROVE  Max(T) \in T /\ Max(T) \in Nat /\ \A x \in T : x <= Max(T)
PROOF
<1> DEFINE U == {b \in Nat : \A x \in T : x <= b}
<1>1. n \in U
  OBVIOUS
<1>2. U \in SUBSET Nat
  OBVIOUS
<1> HIDE DEF U
<1>3. PICK m \in U : \A b \in U : m <= b
  BY <1>1, <1>2, SmallestNumber
<1>4. m \in Nat /\ \A x \in T : x <= m
  BY DEF U
<1>5. m \in T
  <2> SUFFICES ASSUME m \notin T PROVE FALSE
    OBVIOUS
  <2>1. PICK y \in T : y \in Nat
    OBVIOUS
  <2>2. \A x \in T : x <= m - 1
    BY <1>4
  <2>3. m - 1 \in Nat
    BY <1>4, <2>1, <2>2
  <2>4. m - 1 \in U
    BY <2>2, <2>3 DEF U
  <2> QED BY <2>4, <1>3, <1>4
<1>6. \A x \in T : m >= x
  BY <1>4
<1>7. Max(T) \in T /\ \A x \in T : Max(T) >= x
  BY <1>5, <1>6 DEF Max
<1> QED BY <1>7

-----------------------------------------------------------------------------
\* The numbers of a set in ascending order.
Enumerates(s, S) ==
  /\ s \in Seq(Nat)
  /\ \A i, j \in 1..Len(s) : i < j => s[i] < s[j]
  /\ \A i \in 1..Len(s) : s[i] \in S
  /\ \A x \in S : \E i \in 1..Len(s) : s[i] = x

\* What enumerates a set is the start of whatever enumerates it.
LEMMA EnumerationStarts ==
  ASSUME NEW S, NEW a, NEW b, Enumerates(a, S), Enumerates(b, S)
  PROVE  Len(a) <= Len(b) /\ \A i \in 1..Len(a) : a[i] = b[i]
PROOF
<1>1. /\ Len(a) \in Nat /\ \A i \in 1..Len(a) : a[i] \in Nat
      /\ Len(b) \in Nat /\ \A i \in 1..Len(b) : b[i] \in Nat
  <2>1. a \in Seq(Nat) /\ b \in Seq(Nat)
    BY DEF Enumerates
  <2> QED BY <2>1
<1> DEFINE T == {k \in Nat : k <= Len(a) => k <= Len(b) /\ \A i \in 1..k : a[i] = b[i]}
<1>2. 0 \in T
  BY <1>1
<1>3. ASSUME NEW k \in T PROVE k + 1 \in T
  <2>1. k \in Nat
    OBVIOUS
  <2> SUFFICES ASSUME k + 1 <= Len(a)
               PROVE  k + 1 <= Len(b) /\ a[k + 1] = b[k + 1]
    BY <2>1, <1>1
  <2>2. k <= Len(b) /\ \A i \in 1..k : a[i] = b[i]
    BY <2>1, <1>1
  <2>3. k + 1 \in 1..Len(a)
    BY <2>1, <1>1
  <2>4. PICK j \in 1..Len(b) : b[j] = a[k + 1]
    BY <2>3 DEF Enumerates
  <2>5. k < j
    <3> SUFFICES ASSUME j <= k PROVE FALSE
      BY <2>1, <1>1
    <3>1. j \in 1..k /\ j \in 1..Len(a) /\ j < k + 1
      BY <2>1, <1>1
    <3>2. a[j] < a[k + 1] /\ b[j] = a[j]
      BY <3>1, <2>2, <2>3 DEF Enumerates
    <3> QED BY <3>1, <3>2, <2>4, <1>1
  <2>6. k + 1 \in 1..Len(b)
    BY <2>1, <2>5, <1>1
  <2>7. PICK i \in 1..Len(a) : a[i] = b[k + 1]
    BY <2>6 DEF Enumerates
  <2>8. k < i
    <3> SUFFICES ASSUME i <= k PROVE FALSE
      BY <2>1, <1>1
    <3>1. i \in 1..k /\ i \in 1..Len(b) /\ i < k + 1
      BY <2>1, <2>2, <1>1
    <3>2. b[i] < b[k + 1] /\ b[i] = a[i]
      BY <3>1, <2>2, <2>6 DEF Enumerates
    <3> QED BY <3>1, <3>2, <2>7, <1>1
  <2>9. a[k + 1] <= a[i]
    <3>1. k + 1 < i => a[k + 1] < a[i]
      BY <2>3 DEF Enumerates
    <3> QED BY <3>1, <2>1, <2>3, <2>8, <1>1
  <2>10. b[k + 1] <= b[j]
    <3>1. k + 1 < j => b[k + 1] < b[j]
      BY <2>6 DEF Enumerates
    <3> QED BY <3>1, <2>1, <2>6, <2>5, <1>1
  <2> QED BY <2>3, <2>4, <2>6, <2>7, <2>9, <2>10, <1>1
<1> HIDE DEF T
<1>4. T \subseteq Nat
  BY DEF T
<1>5. Len(a) \in T
  BY <1>1, <1>2, <1>3, <1>4, SetInduction
<1> QED BY <1>1, <1>5 DEF T

\* There is one such sequence.
LEMMA EnumerationIsUnique ==
  ASSUME NEW S, NEW a, NEW b, Enumerates(a, S), Enumerates(b, S)
  PROVE  Len(a) = Len(b) /\ \A i \in 1..Len(a) : a[i] = b[i]
PROOF
<1>1. Len(a) \in Nat /\ Len(b) \in Nat
  BY DEF Enumerates
<1>2. Len(a) <= Len(b) /\ \A i \in 1..Len(a) : a[i] = b[i]
  BY EnumerationStarts
<1>3. Len(b) <= Len(a)
  BY EnumerationStarts
<1> QED BY <1>1, <1>2, <1>3

\* One sequence after another.
LEMMA EnumerationGoesOn ==
  ASSUME NEW S, NEW U, NEW a, NEW b, Enumerates(a, S), Enumerates(b, U),
         \A x \in S, y \in U : x < y
  PROVE  Enumerates(a \o b, S \cup U)
PROOF
<1> DEFINE c == a \o b
           m == Len(a)
<1>1. /\ a \in Seq(Nat) /\ b \in Seq(Nat) /\ m \in Nat /\ Len(b) \in Nat
  BY DEF Enumerates
<1>2. /\ c \in Seq(Nat) /\ Len(c) = m + Len(b)
      /\ \A i \in 1..(m + Len(b)) : c[i] = IF i <= m THEN a[i] ELSE b[i - m]
  BY <1>1
<1>3. ASSUME NEW i \in 1..Len(c)
      PROVE  \/ i \in 1..m /\ c[i] = a[i] /\ c[i] \in S
             \/ i - m \in 1..Len(b) /\ c[i] = b[i - m] /\ c[i] \in U /\ i > m
  <2> HIDE DEF c, m
  <2>1. CASE i <= m
    <3>1. i \in 1..m /\ c[i] = a[i]
      BY <2>1, <1>1, <1>2
    <3> QED BY <3>1 DEF Enumerates, m
  <2>2. CASE i > m
    <3>1. i - m \in 1..Len(b) /\ c[i] = b[i - m]
      BY <2>2, <1>1, <1>2
    <3> QED BY <3>1, <2>2 DEF Enumerates
  <2> QED BY <2>1, <2>2, <1>1, <1>2
<1>4. ASSUME NEW i \in 1..Len(c), NEW j \in 1..Len(c), i < j
      PROVE  c[i] < c[j]
  <2>1. CASE j \in 1..m /\ c[j] = a[j]
    <3>1. i \in 1..m /\ c[i] = a[i]
      BY <2>1, <1>1, <1>2, <1>3, <1>4
    <3> QED BY <3>1, <2>1, <1>4 DEF Enumerates
  <2>2. CASE j - m \in 1..Len(b) /\ c[j] = b[j - m] /\ c[j] \in U /\ j > m
    <3>1. CASE c[i] \in S
      BY <3>1, <2>2
    <3>2. CASE i - m \in 1..Len(b) /\ c[i] = b[i - m]
      <4>1. i - m < j - m
        BY <1>1, <1>2, <1>4
      <4> QED BY <4>1, <3>2, <2>2 DEF Enumerates
    <3> QED BY <3>1, <3>2, <1>3
  <2> QED BY <2>1, <2>2, <1>3
<1>5. ASSUME NEW x \in S \cup U
      PROVE  \E i \in 1..Len(c) : c[i] = x
  <2>1. CASE x \in S
    <3>1. PICK i \in 1..Len(a) : a[i] = x
      BY <2>1 DEF Enumerates
    <3>2. i \in 1..Len(c) /\ c[i] = a[i]
      <4> HIDE DEF c
      <4> QED BY <1>1, <1>2
    <3> QED BY <3>1, <3>2
  <2>2. CASE x \in U
    <3>1. PICK i \in 1..Len(b) : b[i] = x
      BY <2>2 DEF Enumerates
    <3>2. m + i \in 1..Len(c) /\ c[m + i] = b[i]
      <4> HIDE DEF c, m
      <4>1. m + i \in 1..(m + Len(b)) /\ ~(m + i <= m) /\ (m + i) - m = i
        BY <1>1
      <4> QED BY <4>1, <1>2
    <3> QED BY <3>1, <3>2
  <2> QED BY <2>1, <2>2
<1> HIDE DEF c
<1>6. Enumerates(c, S \cup U)
  BY <1>2, <1>3, <1>4, <1>5 DEF Enumerates
<1> QED BY <1>6 DEF c

-----------------------------------------------------------------------------
\* The elements that are picked, with their places in the sequence.
IsPicked(f, s, S, n) ==
  f = [k \in 0..n |->
         IF k = 0 THEN <<>>
         ELSE LET before == f[k - 1]
              IN  IF s[k] \in S THEN Append(before, s[k]) ELSE before]
PickedTo(s, S, n) == CHOOSE f : IsPicked(f, s, S, n)

\* Picked is defined by the last value of a function.
LEMMA PickedIsTo == ASSUME NEW s, NEW S PROVE Picked(s, S) = PickedTo(s, S, Len(s))[Len(s)]
BY DEF Picked, PickedTo, IsPicked

\* There is such a function.
LEMMA PickedExists ==
  ASSUME NEW s, NEW S PROVE \A n \in Nat : \E f : IsPicked(f, s, S, n)
PROOF
<1> DEFINE T == {n \in Nat : \E f : IsPicked(f, s, S, n)}
<1>1. 0 \in T
  <2> DEFINE g == [k \in 0..0 |-> <<>>]
  <2>1. IsPicked(g, s, S, 0)
    BY DEF IsPicked
  <2> QED BY <2>1
<1>2. ASSUME NEW n \in T PROVE n + 1 \in T
  <2>1. PICK f : IsPicked(f, s, S, n)
    BY <1>2
  <2> DEFINE last == IF s[n + 1] \in S THEN Append(f[n], s[n + 1]) ELSE f[n]
             g == [k \in 0..(n + 1) |-> IF k = n + 1 THEN last ELSE f[k]]
             step(h, k) == IF s[k] \in S THEN Append(h[k - 1], s[k]) ELSE h[k - 1]
  <2>2. n \in Nat /\ n + 1 \in Nat
    BY <1>2
  <2>3. ASSUME NEW k \in 0..(n + 1) PROVE g[k] = IF k = 0 THEN <<>> ELSE step(g, k)
    <3>1. CASE k = n + 1
      <4>1. g[k] = last /\ g[k - 1] = f[n] /\ k # 0
        BY <3>1, <2>2
      <4> HIDE DEF g
      <4> QED BY <4>1, <3>1
    <3>2. CASE k # n + 1
      <4>1. k \in 0..n
        BY <3>2, <2>2
      <4>2. g[k] = f[k] /\ (k # 0 => g[k - 1] = f[k - 1])
        BY <4>1, <2>2
      <4>3. f[k] = IF k = 0 THEN <<>> ELSE step(f, k)
        <5> HIDE DEF g, last
        <5> QED BY <2>1, <4>1 DEF IsPicked
      <4> HIDE DEF g
      <4> QED BY <4>2, <4>3
    <3> QED BY <3>1, <3>2
  <2>4. IsPicked(g, s, S, n + 1)
    <3>1. g = [k \in 0..(n + 1) |-> g[k]]
      OBVIOUS
    <3> HIDE DEF g
    <3> QED BY <2>3, <3>1 DEF IsPicked
  <2>5. \E h : IsPicked(h, s, S, n + 1)
    <3> HIDE DEF g
    <3> QED BY <2>4
  <2> QED BY <2>5, <2>2
<1> HIDE DEF T
<1>3. T \subseteq Nat
  BY DEF T
<1>4. \A n \in Nat : n \in T
  BY <1>1, <1>2, <1>3, SetInduction
<1> QED BY <1>4 DEF T

\* The places in m are those of the elements of r among the first n of s.
Places(m, r, s, S, n, A) ==
  /\ Enumerates(m, {i \in 1..n : s[i] \in S})
  /\ r \in Seq(A) /\ Len(r) = Len(m)
  /\ \A k \in 1..Len(m) : r[k] = s[m[k]]

\* One more element is picked.
LEMMA PlacesGoOn ==
  ASSUME NEW A, NEW s \in Seq(A), NEW S, NEW n \in Nat, n + 1 \in 1..Len(s), NEW m, NEW r,
         Places(m, r, s, S, n, A), s[n + 1] \in S
  PROVE  Places(m \o <<n + 1>>, Append(r, s[n + 1]), s, S, n + 1, A)
PROOF
<1> DEFINE P == {i \in 1..n : s[i] \in S}
           Q == {i \in 1..(n + 1) : s[i] \in S}
           v == m \o <<n + 1>>
           w == Append(r, s[n + 1])
<1>1. Enumerates(<<n + 1>>, {n + 1})
  <2>1. <<n + 1>> \in Seq(Nat) /\ Len(<<n + 1>>) = 1 /\ <<n + 1>>[1] = n + 1
    OBVIOUS
  <2> DEFINE c == <<n + 1>>
  <2>2. \A i \in 1..Len(c) : i = 1 /\ c[i] = n + 1
    BY <2>1
  <2> HIDE DEF c
  <2> QED BY <2>1, <2>2 DEF Enumerates, c
<1>2. Q = P \cup {n + 1}
  OBVIOUS
<1>3. Enumerates(m, P) /\ r \in Seq(A) /\ Len(r) = Len(m) /\ \A k \in 1..Len(m) : r[k] = s[m[k]]
  BY DEF Places
<1>4. \A x \in P, y \in {n + 1} : x < y
  OBVIOUS
<1> HIDE DEF P, Q
<1>5. Enumerates(v, Q)
  BY <1>1, <1>2, <1>3, <1>4, EnumerationGoesOn
<1>6. m \in Seq(Nat) /\ Len(m) \in Nat /\ Len(v) = Len(m) + 1
  BY <1>3 DEF Enumerates
<1>7. w \in Seq(A) /\ Len(w) = Len(m) + 1 /\ w[Len(m) + 1] = s[n + 1]
      /\ \A k \in 1..Len(m) : w[k] = r[k]
  BY <1>3, <1>6
<1>8. v[Len(m) + 1] = n + 1 /\ \A k \in 1..Len(m) : v[k] = m[k]
  BY <1>6
<1> HIDE DEF v, w
<1>9. ASSUME NEW k \in 1..Len(v) PROVE w[k] = s[v[k]]
  <2>1. k \in 1..Len(m) \/ k = Len(m) + 1
    BY <1>6
  <2> QED BY <2>1, <1>3, <1>7, <1>8
<1>10. Places(v, w, s, S, n + 1, A)
  BY <1>5, <1>6, <1>7, <1>9 DEF Places, Q
<1> QED BY <1>10 DEF v, w

\* Picked elements keep their order, and none is missed.
LEMMA PickedPlaces ==
  ASSUME NEW A, NEW s \in Seq(A), NEW S
  PROVE  \E m : Places(m, Picked(s, S), s, S, Len(s), A)
PROOF
<1> DEFINE f == PickedTo(s, S, Len(s))
           T == {n \in Nat : n <= Len(s) => \E m : Places(m, f[n], s, S, n, A)}
<1>0. Len(s) \in Nat
  OBVIOUS
<1>1. IsPicked(f, s, S, Len(s))
  BY <1>0, PickedExists DEF PickedTo
<1> HIDE DEF f
<1>2. f[0] = <<>>
  BY <1>0, <1>1 DEF IsPicked
<1>3. ASSUME NEW k \in Nat, k + 1 <= Len(s)
      PROVE  f[k + 1] = IF s[k + 1] \in S THEN Append(f[k], s[k + 1]) ELSE f[k]
  <2>1. k + 1 \in 0..Len(s) /\ k + 1 # 0 /\ (k + 1) - 1 = k
    BY <1>0, <1>3
  <2> QED BY <2>1, <1>1 DEF IsPicked
<1>4. 0 \in T
  <2>1. {i \in 1..0 : s[i] \in S} = {}
    OBVIOUS
  <2>2. <<>> \in Seq(Nat) /\ <<>> \in Seq(A) /\ Len(<<>>) = 0 /\ 1..0 = {}
    OBVIOUS
  <2>3. Enumerates(<<>>, {})
    BY <2>2 DEF Enumerates
  <2>4. Places(<<>>, <<>>, s, S, 0, A)
    BY <2>1, <2>2, <2>3 DEF Places
  <2> QED BY <2>4, <1>2
<1>5. ASSUME NEW n \in T PROVE n + 1 \in T
  <2>1. n \in Nat /\ n + 1 \in Nat
    OBVIOUS
  <2> SUFFICES ASSUME n + 1 <= Len(s)
               PROVE  \E m : Places(m, f[n + 1], s, S, n + 1, A)
    BY <2>1
  <2>2. PICK m : Places(m, f[n], s, S, n, A)
    BY <2>1, <1>0
  <2>3. n + 1 \in 1..Len(s)
    BY <2>1, <1>0
  <2>4. CASE s[n + 1] \in S
    <3>1. f[n + 1] = Append(f[n], s[n + 1])
      BY <2>1, <2>4, <1>3
    <3>2. Places(m \o <<n + 1>>, Append(f[n], s[n + 1]), s, S, n + 1, A)
      BY <2>1, <2>2, <2>3, <2>4, PlacesGoOn
    <3> QED BY <3>1, <3>2
  <2>5. CASE s[n + 1] \notin S
    <3>1. {i \in 1..n : s[i] \in S} = {i \in 1..(n + 1) : s[i] \in S}
      BY <2>1, <2>5
    <3>2. f[n + 1] = f[n]
      BY <2>1, <2>5, <1>3
    <3>3. Places(m, f[n], s, S, n + 1, A) <=> Places(m, f[n], s, S, n, A)
      BY <3>1 DEF Places
    <3> QED BY <3>2, <3>3, <2>2
  <2> QED BY <2>4, <2>5
<1> HIDE DEF T
<1>6. T \subseteq Nat
  BY DEF T
<1>7. Len(s) \in T
  BY <1>0, <1>4, <1>5, <1>6, SetInduction
<1> QED BY <1>0, <1>7, PickedIsTo DEF T, f

\* What is picked from the numbers of a set in ascending order.
LEMMA PickedEnumerates ==
  ASSUME NEW U, NEW s, Enumerates(s, U), NEW S
  PROVE  Enumerates(Picked(s, S), U \cap S)
PROOF
<1> DEFINE r == Picked(s, S)
<1>1. s \in Seq(Nat) /\ Len(s) \in Nat
  BY DEF Enumerates
<1>2. PICK m : Places(m, r, s, S, Len(s), Nat)
  BY <1>1, PickedPlaces
<1> HIDE DEF r
<1>3. /\ r \in Seq(Nat) /\ Len(r) = Len(m) /\ Len(m) \in Nat
      /\ \A k \in 1..Len(m) : r[k] = s[m[k]] /\ m[k] \in 1..Len(s) /\ s[m[k]] \in S
      /\ \A i, j \in 1..Len(m) : i < j => m[i] < m[j]
      /\ \A x \in 1..Len(s) : s[x] \in S => \E k \in 1..Len(m) : m[k] = x
  BY <1>2 DEF Places, Enumerates
<1>4. ASSUME NEW i \in 1..Len(r), NEW j \in 1..Len(r), i < j PROVE r[i] < r[j]
  <2>1. m[i] < m[j] /\ m[i] \in 1..Len(s) /\ m[j] \in 1..Len(s)
    BY <1>3, <1>4
  <2>2. s[m[i]] < s[m[j]]
    BY <2>1 DEF Enumerates
  <2> QED BY <2>2, <1>3
<1>5. \A i \in 1..Len(r) : r[i] \in U \cap S
  BY <1>3 DEF Enumerates
<1>6. ASSUME NEW x \in U \cap S PROVE \E i \in 1..Len(r) : r[i] = x
  <2>1. PICK j \in 1..Len(s) : s[j] = x
    BY DEF Enumerates
  <2>2. PICK k \in 1..Len(m) : m[k] = j
    BY <2>1, <1>3
  <2> QED BY <2>1, <2>2, <1>3
<1>7. Enumerates(r, U \cap S)
  BY <1>3, <1>4, <1>5, <1>6 DEF Enumerates
<1> QED BY <1>7 DEF r

-----------------------------------------------------------------------------
\* What holds of the file at any moment, as far as the reader is concerned.
SoundFile == FileInv /\ LogInv /\ NextInv /\ EventsInv /\ ContentInv /\ LogOrder /\ 0 \in DOMAIN file

\* Induction from the end of the file.
LEMMA DownInduction ==
  ASSUME NEW N \in Nat, NEW T,
         \A o \in 0..N : (\A k \in 0..N : o < k => k \in T) => o \in T
  PROVE  \A o \in 0..N : o \in T
PROOF
<1> DEFINE Q == {n \in Nat : \A o \in 0..N : N - n < o => o \in T}
<1>1. 0 \in Q
  OBVIOUS
<1>2. ASSUME NEW n \in Q PROVE n + 1 \in Q
  <2>1. n \in Nat /\ \A o \in 0..N : N - n < o => o \in T
    OBVIOUS
  <2>2. ASSUME NEW o \in 0..N, N - (n + 1) < o PROVE o \in T
    <3>1. \A k \in 0..N : o < k => k \in T
      BY <2>1, <2>2
    <3> QED BY <3>1
  <2> QED BY <2>1, <2>2
<1> HIDE DEF Q
<1>3. Q \subseteq Nat
  BY DEF Q
<1>4. N + 1 \in Q
  BY <1>1, <1>2, <1>3, SetInduction
<1> QED BY <1>4 DEF Q

\* A block as it is in the file.
BlockSet == [type : BlockTypes, start : Nat, end : Nat]
\* A block of which the header is in the file.
IsBlock(b) ==
  /\ b \in BlockSet /\ b.start - 1 \in NextOffsets /\ file[b.start - 1].end = b.end
  /\ b.start - 2 \in DOMAIN file /\ file[b.start - 2] = [kind |-> "type", type |-> b.type]

\* What the reader takes for a block, and when.
BlockAt(o) == [type |-> Cell(o).type, start |-> o + HeaderSize, end |-> Cell(o + 1).end]
HeaderAt(o) == Cell(o).kind = "type" /\ Cell(o + 1).kind = "next"

\* A header in the file is that of a block, which ends behind it.
LEMMA BlockIs ==
  ASSUME SoundFile, NEW o \in Nat, HeaderAt(o)
  PROVE  /\ IsBlock(BlockAt(o)) /\ BlockAt(o).start = o + 2 /\ BlockAt(o).end = Cell(o + 1).end
         /\ o + 1 < Cell(o + 1).end /\ Cell(o + 1).end \in Offsets
PROOF
<1>0. m_TraceOffset \in Nat /\ FileInv
  BY Numbers DEF SoundFile
<1>1. o \in DOMAIN file /\ file[o].kind = "type" /\ Cell(o) = file[o]
  BY DEF HeaderAt, Cell, Zero
<1>2. o + 1 \in DOMAIN file /\ file[o + 1].kind = "next" /\ Cell(o + 1) = file[o + 1]
  BY DEF HeaderAt, Cell, Zero
<1>3. o + 1 \in NextOffsets
  BY <1>2 DEF NextOffsets
<1>4. file[o + 1].end \in Nat /\ o + 1 < file[o + 1].end /\ file[o + 1].end <= m_TraceOffset
  BY <1>0, <1>3, Numbers DEF SoundFile, NextInv
<1>5. \A c \in AnyCell : c.kind = "type" => c.type \in BlockTypes /\ c = [kind |-> "type", type |-> c.type]
  BY DEF AnyCell, ItemCell, HeaderCell, EventCell, RestCell, PieceCell
<1>6. file[o].type \in BlockTypes /\ file[o] = [kind |-> "type", type |-> file[o].type]
  BY <1>0, <1>1, <1>5 DEF FileInv
<1>7. PICK b : b = BlockAt(o)
  OBVIOUS
<1>8. b.type = file[o].type /\ b.start = o + 2 /\ b.end = file[o + 1].end /\ b \in BlockSet
  BY <1>7, <1>1, <1>2, <1>4, <1>6 DEF BlockAt, BlockSet, HeaderSize
<1>9. b.start - 1 = o + 1 /\ b.start - 2 = o
  BY <1>8
<1>10. IsBlock(b)
  BY <1>1, <1>3, <1>6, <1>8, <1>9 DEF IsBlock
<1> QED BY <1>0, <1>2, <1>4, <1>7, <1>8, <1>10 DEF Offsets

\* The blocks from an offset on, given those from later offsets on.
BlocksAt(f, o) ==
  IF ~MoreBlocks(o) THEN <<>>
  ELSE IF ~HeaderAt(o) THEN Malformed
  ELSE LET rest == f[Cell(o + 1).end]
       IN  IF rest = Malformed THEN Malformed ELSE <<BlockAt(o)>> \o rest
IsBlocks(f, D) == f = [o \in D |-> BlocksAt(f, o)]

\* Blocks is defined by a function on offsets.
LEMMA BlocksIsChosen == Blocks = (CHOOSE f : IsBlocks(f, Offsets))[1]
BY DEF Blocks, IsBlocks, BlocksAt, BlockAt, HeaderAt

\* There is such a function, as every block ends behind its header.
LEMMA BlocksExist ==
  ASSUME SoundFile
  PROVE  \E f : IsBlocks(f, Offsets)
PROOF
<1>0. m_TraceOffset \in Nat
  BY Numbers DEF SoundFile
<1> DEFINE From(n) == {o \in Offsets : m_TraceOffset - n < o}
           T == {n \in Nat : \E f : IsBlocks(f, From(n))}
<1>1. 0 \in T
  <2>1. From(0) = {}
    BY <1>0 DEF Offsets
  <2> DEFINE g == [o \in {} |-> <<>>]
  <2>2. IsBlocks(g, {})
    BY DEF IsBlocks
  <2>3. \E f : IsBlocks(f, {})
    BY <2>2
  <2> QED BY <2>1, <2>3
<1>2. ASSUME NEW n \in T PROVE n + 1 \in T
  <2>1. PICK f : IsBlocks(f, From(n))
    OBVIOUS
  <2>2. n \in Nat
    OBVIOUS
  <2> DEFINE g == [o \in From(n + 1) |-> IF o \in From(n) THEN f[o] ELSE BlocksAt(f, o)]
  <2>3. ASSUME NEW o \in From(n + 1) PROVE g[o] = BlocksAt(g, o)
    <3>1. g[o] = BlocksAt(f, o)
      <4>1. CASE o \in From(n)
        <5>1. g[o] = f[o]
          BY <4>1
        <5>2. f[o] = BlocksAt(f, o)
          <6> HIDE DEF g, From
          <6> QED BY <2>1, <4>1 DEF IsBlocks
        <5> QED BY <5>1, <5>2
      <4>2. CASE o \notin From(n)
        BY <4>2
      <4> QED BY <4>1, <4>2
    <3>2. HeaderAt(o) => g[Cell(o + 1).end] = f[Cell(o + 1).end]
      <4> SUFFICES ASSUME HeaderAt(o) PROVE g[Cell(o + 1).end] = f[Cell(o + 1).end]
        OBVIOUS
      <4> DEFINE e == Cell(o + 1).end
      <4>1. o + 1 < e /\ e \in Offsets /\ o \in Nat
        BY <1>0, BlockIs DEF Offsets
      <4> HIDE DEF e
      <4>2. e \in From(n) /\ e \in From(n + 1)
        BY <4>1, <2>2, <1>0 DEF Offsets
      <4>3. g[e] = f[e]
        BY <4>2
      <4> QED BY <4>3 DEF e
    <3> HIDE DEF g, From
    <3> QED BY <3>1, <3>2 DEF BlocksAt
  <2>4. IsBlocks(g, From(n + 1))
    <3>1. g = [o \in From(n + 1) |-> g[o]]
      OBVIOUS
    <3> HIDE DEF g, From
    <3> QED BY <3>1, <2>3 DEF IsBlocks
  <2>5. \E h : IsBlocks(h, From(n + 1))
    <3> HIDE DEF g, From
    <3> QED BY <2>4
  <2> QED BY <2>5, <2>2
<1> HIDE DEF T
<1>3. T \subseteq Nat
  BY DEF T
<1>4. m_TraceOffset + 1 \in T
  BY <1>0, <1>1, <1>2, <1>3, SetInduction
<1>5. From(m_TraceOffset + 1) = Offsets
  BY <1>0 DEF Offsets
<1> QED BY <1>4, <1>5 DEF T

\* The blocks follow one another from offset o on, to the end of the file.
Chain(bs, o) ==
  /\ bs \in Seq(BlockSet)
  /\ \A i \in 1..Len(bs) : IsBlock(bs[i]) /\ bs[i].start = (IF i = 1 THEN o ELSE bs[i - 1].end) + 2
  /\ ~MoreBlocks(IF Len(bs) = 0 THEN o ELSE bs[Len(bs)].end)

\* A block in front of the blocks that follow it.
LEMMA ChainGrows ==
  ASSUME NEW o \in Nat, NEW b, NEW bs, IsBlock(b), b.start = o + 2, Chain(bs, b.end)
  PROVE  Chain(<<b>> \o bs, o)
PROOF
<1> DEFINE c == <<b>> \o bs
<1>1. bs \in Seq(BlockSet) /\ Len(bs) \in Nat /\ b \in BlockSet
  BY DEF Chain, IsBlock
<1>2. /\ c \in Seq(BlockSet) /\ Len(c) = Len(bs) + 1 /\ c[1] = b
      /\ \A i \in 1..Len(bs) : c[i + 1] = bs[i]
  <2>1. <<b>> \in Seq(BlockSet) /\ Len(<<b>>) = 1 /\ <<b>>[1] = b
    BY <1>1
  <2> QED BY <1>1, <2>1
<1> HIDE DEF c
<1>3. ASSUME NEW i \in 1..Len(c)
      PROVE  IsBlock(c[i]) /\ c[i].start = (IF i = 1 THEN o ELSE c[i - 1].end) + 2
  <2>1. CASE i = 1
    BY <2>1, <1>2
  <2>2. CASE i # 1
    <3>1. PICK j \in Nat : j = i - 1
      BY <1>1, <1>2, <2>2
    <3>2. j \in 1..Len(bs) /\ i = j + 1
      BY <3>1, <1>1, <1>2, <2>2
    <3>3. c[i] = bs[j] /\ IsBlock(bs[j]) /\ bs[j].start = (IF j = 1 THEN b.end ELSE bs[j - 1].end) + 2
      BY <3>2, <1>2 DEF Chain
    <3>4. j = 1 => c[j] = b
      BY <1>2
    <3>5. j # 1 => c[j] = bs[j - 1]
      <4>1. j # 1 => j - 1 \in 1..Len(bs) /\ (j - 1) + 1 = j
        BY <3>2, <1>1
      <4> QED BY <4>1, <1>2
    <3> QED BY <3>1, <3>3, <3>4, <3>5, <2>2
  <2> QED BY <2>1, <2>2
<1>4. ~MoreBlocks(IF Len(c) = 0 THEN o ELSE c[Len(c)].end)
  <2>1. Len(bs) = 0 => c[Len(c)] = b
    BY <1>2
  <2>2. Len(bs) # 0 => c[Len(c)] = bs[Len(bs)]
    <3>1. Len(bs) # 0 => Len(bs) \in 1..Len(bs)
      BY <1>1
    <3> QED BY <3>1, <1>2
  <2>3. Len(c) # 0
    BY <1>1, <1>2
  <2> QED BY <2>1, <2>2, <2>3 DEF Chain
<1>5. Chain(c, o)
  BY <1>2, <1>3, <1>4 DEF Chain
<1> QED BY <1>5 DEF c

\* The blocks that the reader finds, unless it refuses the file.
LEMMA BlocksAreChain ==
  ASSUME SoundFile, Blocks # Malformed
  PROVE  Chain(Blocks, 1)
PROOF
<1>0. m_TraceOffset \in Nat /\ m_TraceOffset >= 1
  BY Numbers DEF SoundFile
<1> DEFINE f == CHOOSE g : IsBlocks(g, Offsets)
           T == {o \in Offsets : f[o] = Malformed \/ Chain(f[o], o)}
<1>1. IsBlocks(f, Offsets) /\ Blocks = f[1]
  BY BlocksExist, BlocksIsChosen
<1> HIDE DEF f
<1>2. ASSUME NEW o \in Offsets, \A k \in Offsets : o < k => k \in T
      PROVE  o \in T
  <2>1. f[o] = BlocksAt(f, o) /\ o \in Nat
    BY <1>0, <1>1 DEF IsBlocks, Offsets
  <2>2. CASE ~MoreBlocks(o)
    <3>1. f[o] = <<>>
      BY <2>1, <2>2 DEF BlocksAt
    <3>2. <<>> \in Seq(BlockSet) /\ Len(<<>>) = 0 /\ 1..0 = {}
      OBVIOUS
    <3> QED BY <3>1, <3>2, <2>2 DEF Chain
  <2>3. CASE MoreBlocks(o) /\ ~HeaderAt(o)
    BY <2>1, <2>3 DEF BlocksAt
  <2>4. CASE MoreBlocks(o) /\ HeaderAt(o)
    <3> DEFINE e == Cell(o + 1).end
    <3>1. /\ IsBlock(BlockAt(o)) /\ BlockAt(o).start = o + 2 /\ BlockAt(o).end = e
          /\ o < e /\ e \in Offsets
      BY <2>1, <2>4, <1>0, BlockIs DEF Offsets
    <3>2. f[o] = IF f[e] = Malformed THEN Malformed ELSE <<BlockAt(o)>> \o f[e]
      BY <2>1, <2>4 DEF BlocksAt
    <3>3. f[e] = Malformed \/ Chain(f[e], e)
      BY <1>2, <3>1
    <3> HIDE DEF e
    <3> QED BY <2>1, <3>1, <3>2, <3>3, ChainGrows
  <2> QED BY <2>2, <2>3, <2>4
<1>3. \A o \in 0..m_TraceOffset : o \in T
  <2> HIDE DEF T
  <2> QED BY <1>0, <1>2, DownInduction DEF Offsets
<1>4. 1 \in 0..m_TraceOffset
  BY <1>0
<1> QED BY <1>1, <1>3, <1>4

-----------------------------------------------------------------------------
\* The events of a thread, wherever they are.
EventsOf(t) == {q \in EventOffsets : file[q].by = t}

\* The last cell that is written is the last one of the buffer.
LEMMA LastCell ==
  ASSUME SoundFile
  PROVE  /\ BufferEnd \in Nat /\ BufferEnd <= m_TraceOffset /\ m_TraceOffset \in Nat
         /\ \A x \in DOMAIN file : x < BufferEnd
PROOF
<1>1. /\ m_TraceOffset \in Nat /\ DOMAIN file \in SUBSET Nat /\ 0 \in DOMAIN file
      /\ \A x \in DOMAIN file : x \in Nat /\ x < m_TraceOffset
  BY Numbers DEF SoundFile
<1>2. \A x \in DOMAIN file : x <= m_TraceOffset
  BY <1>1
<1>3. Max(DOMAIN file) \in DOMAIN file /\ Max(DOMAIN file) \in Nat /\ \A x \in DOMAIN file : x <= Max(DOMAIN file)
  BY <1>1, <1>2, GreatestNumber
<1> PICK m \in Nat : m = Max(DOMAIN file)
  BY <1>3
<1>4. BufferEnd = m + 1 /\ m < m_TraceOffset
  BY <1>1, <1>3 DEF BufferEnd
<1> QED BY <1>1, <1>3, <1>4

\* No event lies outside of the blocks that the reader finds.
LEMMA ChainCovers ==
  ASSUME SoundFile, NEW bs, Chain(bs, 1), NEW q \in EventOffsets
  PROVE  \E i \in 1..Len(bs) : q \in EventsInBlock(bs[i])
PROOF
<1> DEFINE edge(i) == IF i = 0 THEN 1 ELSE bs[i].end
           T == {i \in Nat : i <= Len(bs) =>
                   \/ \E j \in 1..i : q \in EventsInBlock(bs[j])
                   \/ edge(i) + 2 <= q}
<1>0. q \in Nat /\ q >= 3 /\ q \in DOMAIN file
  BY Numbers DEF SoundFile, EventsInv
<1>1. bs \in Seq(BlockSet) /\ Len(bs) \in Nat
      /\ \A i \in 1..Len(bs) : bs[i].start \in Nat /\ bs[i].end \in Nat
  <2>1. bs \in Seq(BlockSet) /\ Len(bs) \in Nat
    BY DEF Chain
  <2>2. \A b \in BlockSet : b.start \in Nat /\ b.end \in Nat
    BY DEF BlockSet
  <2>3. \A i \in 1..Len(bs) : bs[i] \in BlockSet
    BY <2>1
  <2> QED BY <2>1, <2>2, <2>3
<1>2. 0 \in T
  BY <1>0
<1>3. ASSUME NEW i \in T PROVE i + 1 \in T
  <2>1. i \in Nat
    OBVIOUS
  <2> SUFFICES ASSUME i + 1 <= Len(bs), ~(\E j \in 1..(i + 1) : q \in EventsInBlock(bs[j]))
               PROVE  edge(i + 1) + 2 <= q
    BY <2>1
  <2>2. edge(i) + 2 <= q
    BY <2>1, <1>1
  <2>3. i + 1 \in 1..Len(bs) /\ i + 1 # 0
    BY <2>1, <1>1
  <2>4. bs[i + 1].start = edge(i) + 2
    <3>1. i + 1 = 1 <=> i = 0
      BY <2>1
    <3>2. (i + 1) - 1 = i
      BY <2>1
    <3> QED BY <2>3, <3>1, <3>2 DEF Chain
  <2> PICK b : b = bs[i + 1]
    OBVIOUS
  <2>5. IsBlock(b) /\ b.start \in Nat /\ b.end \in Nat /\ b.start <= q
    BY <2>2, <2>3, <2>4, <1>1 DEF Chain
  <2>6. edge(i + 1) = b.end /\ q \notin EventsInBlock(b)
    BY <2>1, <2>3
  <2> HIDE DEF edge, T
  <2>7. q >= b.end
    <3> SUFFICES ASSUME q < b.end PROVE FALSE
      BY <1>0, <2>5
    <3>1. b.start - 1 \in NextOffsets /\ file[b.start - 1].end = b.end
      BY <2>5 DEF IsBlock
    <3>2. b.start - 1 < q
      BY <2>5, <1>0
    <3>3. q >= (b.start - 1) + 2
      BY <3>1, <3>2 DEF SoundFile, ContentInv, ContentOf
    <3>4. b.start < q
      BY <3>3, <2>5, <1>0
    <3> QED BY <3>4, <2>6 DEF EventsInBlock
  <2>8. Away(q, b.end)
    BY <2>5 DEF IsBlock, SoundFile, EventsInv
  <2> QED BY <2>5, <2>6, <2>7, <2>8, <1>0 DEF Away
<1> HIDE DEF T
<1>4. T \subseteq Nat
  BY DEF T
<1>5. Len(bs) \in T
  BY <1>1, <1>2, <1>3, <1>4, SetInduction
<1>6. CASE edge(Len(bs)) + 2 <= q
  <2>1. BufferEnd \in Nat /\ q < BufferEnd
    BY <1>0, LastCell
  <2>2. ~MoreBlocks(edge(Len(bs)))
    BY DEF Chain
  <2>3. edge(Len(bs)) \in Nat
    BY <1>1
  <2> HIDE DEF edge
  <2>4. ~(edge(Len(bs)) < BufferEnd - 2)
    BY <2>2 DEF MoreBlocks, HeaderSize
  <2> HIDE <1>6
  <2> QED BY <2>1, <2>3, <2>4, <1>0, <1>6
<1> QED BY <1>1, <1>5, <1>6 DEF T

\* A block of the events of a thread with its ID and its first event.
Starts(b) == IsBlock(b) /\ Cell(b.start).kind = "id" /\ Cell(b.start + 1).kind = "event"

\* The block that holds an event is one of its thread.
LEMMA InBlockFacts ==
  ASSUME SoundFile, NEW b, IsBlock(b), NEW q \in EventsInBlock(b)
  PROVE  /\ b.start \in Nat /\ b.end \in Nat /\ q \in Nat /\ b.start < q /\ q < b.end
         /\ q \in EventOffsets /\ file[q].size \in Nat \ {0} /\ Cell(q) = file[q]
         /\ b.start - 1 \in NextOffsets /\ file[b.start - 1].end = b.end
         /\ ContentOf(b.start - 1, q)
         /\ b.type = "ThreadEvents"
         /\ b.start \in DOMAIN file => file[b.start] = [kind |-> "id", id |-> file[q].by]
PROOF
<1>1. b.start \in Nat /\ b.end \in Nat /\ b.start - 1 \in NextOffsets /\ file[b.start - 1].end = b.end
  BY DEF IsBlock, BlockSet
<1>2. q \in EventOffsets /\ b.start < q /\ q < b.end /\ q \in Nat /\ q \in DOMAIN file /\ file[q].size \in Nat
  BY Numbers DEF EventsInBlock, SoundFile
<1>3. file[q].size \in Nat \ {0}
  BY <1>2 DEF SoundFile, EventsInv
<1>4. b.start - 1 < q
  BY <1>1, <1>2
<1>5. ContentOf(b.start - 1, q)
  BY <1>1, <1>2, <1>4 DEF SoundFile, ContentInv
<1>6. b.type = "ThreadEvents"
  <2>1. (b.start - 1) - 1 = b.start - 2
    BY <1>1
  <2>2. file[b.start - 2].kind = "type" => file[b.start - 2].type = "ThreadEvents"
    BY <2>1, <1>5 DEF ContentOf, IsBlock
  <2>3. PICK c : c = [kind |-> "type", type |-> b.type]
    OBVIOUS
  <2> QED BY <2>2, <2>3 DEF IsBlock
<1>7. b.start \in DOMAIN file => file[b.start] = [kind |-> "id", id |-> file[q].by]
  <2>1. (b.start - 1) + 1 = b.start
    BY <1>1
  <2> QED BY <2>1, <1>5 DEF ContentOf
<1>8. Cell(q) = file[q]
  BY <1>2 DEF Cell
<1> QED BY <1>1, <1>2, <1>3, <1>5, <1>6, <1>7, <1>8

\* The events of a block are of one thread and do not overlap.
LEMMA InBlockOrder ==
  ASSUME SoundFile, NEW b, Starts(b), NEW q \in EventsInBlock(b), NEW x \in EventsInBlock(b)
  PROVE  file[q].by = Cell(b.start).id /\ (q < x => q + file[q].size <= x)
PROOF
<1>1. IsBlock(b) /\ b.start \in DOMAIN file /\ Cell(b.start) = file[b.start]
  BY DEF Starts, Cell, Zero
<1>2. \A y \in EventsInBlock(b) : file[y].by = file[b.start].id
  <2> TAKE y \in EventsInBlock(b)
  <2>1. PICK c : c = [kind |-> "id", id |-> file[y].by]
    OBVIOUS
  <2>2. file[b.start] = c
    BY <1>1, <2>1, InBlockFacts
  <2> QED BY <2>1, <2>2
<1>3. q \in EventOffsets /\ x \in EventOffsets
  BY DEF EventsInBlock
<1> QED BY <1>1, <1>2, <1>3 DEF SoundFile, EventsInv

\* The event behind the ID is the first one of the block.
LEMMA FirstEvent ==
  ASSUME SoundFile, NEW b, Starts(b)
  PROVE  /\ b.start + 1 \in EventsInBlock(b) /\ b.start \in Nat /\ b.end \in Nat
         /\ \A q \in EventsInBlock(b) : b.start + 1 <= q
PROOF
<1>1. IsBlock(b) /\ b.start \in Nat /\ b.end \in Nat
  BY DEF Starts, IsBlock, BlockSet
<1>2. b.start + 1 \in EventOffsets
  BY DEF Starts, Cell, Zero, EventOffsets
<1>3. b.start + 1 < b.end
  <2>1. b.start - 1 \in NextOffsets /\ file[b.start - 1].end = b.end
    BY <1>1 DEF IsBlock
  <2>2. b.start - 1 < b.end
    BY <2>1 DEF SoundFile, NextInv
  <2>3. Away(b.start + 1, b.end)
    BY <1>2, <2>1 DEF SoundFile, EventsInv
  <2> QED BY <1>1, <2>2, <2>3 DEF Away
<1>4. b.start + 1 \in EventsInBlock(b)
  BY <1>1, <1>2, <1>3 DEF EventsInBlock
<1>5. ASSUME NEW q \in EventsInBlock(b) PROVE b.start + 1 <= q
  <2>1. b.start < q /\ q \in Nat
    BY <1>1, InBlockFacts
  <2> QED BY <1>1, <2>1
<1> QED BY <1>1, <1>4, <1>5

\* Every event of a block but the first one follows another.
LEMMA Predecessor ==
  ASSUME SoundFile, NEW b, Starts(b), NEW z \in EventsInBlock(b), z # b.start + 1
  PROVE  \E o \in EventsInBlock(b) : o + file[o].size = z /\ o < z
PROOF
<1>1. IsBlock(b)
  BY DEF Starts
<1>2. /\ b.start \in Nat /\ ContentOf(b.start - 1, z) /\ z < b.end /\ b.end \in Nat /\ z \in Nat
  BY <1>1, InBlockFacts
<1>3. b.start + 1 \in DOMAIN file
  BY FirstEvent DEF EventsInBlock, EventOffsets
<1>4. PICK o \in EventOffsets : b.start + 1 <= o /\ o + file[o].size = z
  <2>1. (b.start - 1) + 2 = b.start + 1
    BY <1>2
  <2>2. \E o \in EventOffsets : (b.start - 1) + 2 <= o /\ o + file[o].size = z
    BY <1>2, <1>3, <2>1 DEF ContentOf
  <2> QED BY <2>1, <2>2
<1>5. o \in Nat /\ file[o].size \in Nat /\ file[o].size >= 1
  BY Numbers DEF SoundFile, EventsInv
<1>6. o < z /\ b.start < o /\ o < b.end
  BY <1>2, <1>4, <1>5
<1> QED BY <1>4, <1>6 DEF EventsInBlock

\* Where another event follows in a block, the reader sees it.
LEMMA EventsFollow ==
  ASSUME SoundFile, NEW b, Starts(b), NEW q \in EventsInBlock(b), NEW x \in EventsInBlock(b), q < x
  PROVE  MoreEvents(q + file[q].size, b)
PROOF
<1> DEFINE U == {y \in EventsInBlock(b) : q < y}
<1>1. IsBlock(b) /\ \A y \in EventsInBlock(b) : y \in Nat
  BY InBlockFacts DEF Starts
<1>2. U \in SUBSET Nat /\ x \in U
  BY <1>1
<1> HIDE DEF U
<1>3. PICK z \in U : \A y \in U : z <= y
  BY <1>2, SmallestNumber
<1>4. z \in EventsInBlock(b) /\ q < z /\ z \in Nat /\ q \in Nat
  BY <1>1 DEF U
<1>5. b.start \in Nat /\ z < b.end /\ b.end \in Nat /\ z \in EventOffsets /\ Cell(z) = file[z]
  BY <1>1, <1>4, InBlockFacts
<1>6. z # b.start + 1
  BY <1>4, <1>5, FirstEvent
<1>7. PICK o \in EventsInBlock(b) : o + file[o].size = z /\ o < z
  BY <1>4, <1>6, Predecessor
<1>8. o \in Nat
  BY <1>1
<1>9. ~(q < o)
  <2>1. o \notin U
    BY <1>3, <1>4, <1>7, <1>8
  <2> QED BY <2>1, <1>8 DEF U
<1>10. ~(o < q)
  <2>1. o < q => o + file[o].size <= q
    BY <1>8, InBlockOrder
  <2> QED BY <2>1, <1>4, <1>7
<1>11. o = q
  BY <1>4, <1>8, <1>9, <1>10
<1>12. Cell(z).kind # "zero"
  BY <1>5 DEF EventOffsets
<1> QED BY <1>4, <1>5, <1>7, <1>11, <1>12 DEF MoreEvents

\* What the reader takes for another event is one.
LEMMA MoreIsEvent ==
  ASSUME SoundFile, NEW b, Starts(b), NEW q \in EventsInBlock(b), MoreEvents(q + file[q].size, b)
  PROVE  q + file[q].size \in EventsInBlock(b) /\ q < q + file[q].size
PROOF
<1> DEFINE next == q + file[q].size
<1>1. IsBlock(b)
  BY DEF Starts
<1>2. /\ b.start \in Nat /\ b.end \in Nat /\ q \in Nat /\ b.start < q
      /\ file[q].size \in Nat \ {0}
      /\ b.start - 1 \in NextOffsets /\ file[b.start - 1].end = b.end
      /\ ContentOf(b.start - 1, q)
  BY <1>1, InBlockFacts
<1>3. next \in Nat /\ q < next /\ b.start < next
  BY <1>2
<1>4. next < b.end /\ next \in DOMAIN file
  BY <1>2, <1>3 DEF MoreEvents, Cell, Zero
<1>5. file[next].kind = "event"
  BY <1>2, <1>4 DEF ContentOf
<1> QED BY <1>3, <1>4, <1>5 DEF EventsInBlock, EventOffsets

\* The events from an offset on, given those from later offsets on.
EventsAt(f, o, b) ==
  LET next == o + Cell(o).size
  IN  <<o>> \o (IF MoreEvents(next, b) THEN f[next] ELSE <<>>)
IsEvents(f, b, D) == f = [o \in D |-> EventsAt(f, o, b)]

\* EventsIn is defined by a function on the events of the block.
LEMMA EventsIsChosen ==
  ASSUME NEW b
  PROVE  EventsIn(b) = (CHOOSE f : IsEvents(f, b, EventsInBlock(b)))[b.start + 1]
BY DEF EventsIn, IsEvents, EventsAt, IDSize

\* There is such a function, as every event ends behind its offset.
LEMMA EventsExist ==
  ASSUME SoundFile, NEW b, Starts(b)
  PROVE  \E f : IsEvents(f, b, EventsInBlock(b))
PROOF
<1>0. /\ m_TraceOffset \in Nat
      /\ \A o \in EventsInBlock(b) : o \in Nat /\ o < m_TraceOffset /\ Cell(o) = file[o]
  BY Numbers DEF SoundFile, EventsInBlock, EventOffsets, Cell
<1> DEFINE From(n) == {o \in EventsInBlock(b) : m_TraceOffset - n < o}
           T == {n \in Nat : \E f : IsEvents(f, b, From(n))}
<1>1. 0 \in T
  <2>1. From(0) = {}
    BY <1>0
  <2> DEFINE g == [o \in {} |-> <<>>]
  <2>2. IsEvents(g, b, {})
    BY DEF IsEvents
  <2>3. \E f : IsEvents(f, b, {})
    BY <2>2
  <2> QED BY <2>1, <2>3
<1>2. ASSUME NEW n \in T PROVE n + 1 \in T
  <2>1. PICK f : IsEvents(f, b, From(n))
    OBVIOUS
  <2>2. n \in Nat
    OBVIOUS
  <2> DEFINE g == [o \in From(n + 1) |-> IF o \in From(n) THEN f[o] ELSE EventsAt(f, o, b)]
  <2>3. ASSUME NEW o \in From(n + 1) PROVE g[o] = EventsAt(g, o, b)
    <3>1. g[o] = EventsAt(f, o, b)
      <4>1. CASE o \in From(n)
        <5>1. g[o] = f[o]
          BY <4>1
        <5>2. f[o] = EventsAt(f, o, b)
          <6> HIDE DEF g, From
          <6> QED BY <2>1, <4>1 DEF IsEvents
        <5> QED BY <5>1, <5>2
      <4>2. CASE o \notin From(n)
        BY <4>2
      <4> QED BY <4>1, <4>2
    <3> DEFINE e == o + Cell(o).size
    <3>2. MoreEvents(e, b) => g[e] = f[e]
      <4> SUFFICES ASSUME MoreEvents(e, b) PROVE g[e] = f[e]
        OBVIOUS
      <4>1. o < e /\ e \in EventsInBlock(b) /\ o \in Nat /\ m_TraceOffset - (n + 1) < o
        BY <1>0, MoreIsEvent
      <4> HIDE DEF e
      <4>2. e \in From(n) /\ e \in From(n + 1)
        BY <4>1, <2>2, <1>0
      <4>3. g[e] = f[e]
        BY <4>2
      <4> QED BY <4>3
    <3> HIDE DEF g, From
    <3> QED BY <3>1, <3>2 DEF EventsAt
  <2>4. IsEvents(g, b, From(n + 1))
    <3>1. g = [o \in From(n + 1) |-> g[o]]
      OBVIOUS
    <3> HIDE DEF g, From
    <3> QED BY <3>1, <2>3 DEF IsEvents
  <2>5. \E h : IsEvents(h, b, From(n + 1))
    <3> HIDE DEF g, From
    <3> QED BY <2>4
  <2> QED BY <2>5, <2>2
<1> HIDE DEF T
<1>3. T \subseteq Nat
  BY DEF T
<1>4. m_TraceOffset + 1 \in T
  BY <1>0, <1>1, <1>2, <1>3, SetInduction
<1>5. From(m_TraceOffset + 1) = EventsInBlock(b)
  BY <1>0
<1> QED BY <1>4, <1>5 DEF T

\* Nothing, and one number.
LEMMA SmallEnumerations ==
  /\ Enumerates(<<>>, {})
  /\ \A n \in Nat : Enumerates(<<n>>, {n})
PROOF
<1>1. Enumerates(<<>>, {})
  <2>1. <<>> \in Seq(Nat) /\ Len(<<>>) = 0 /\ 1..0 = {}
    OBVIOUS
  <2> QED BY <2>1 DEF Enumerates
<1>2. ASSUME NEW n \in Nat PROVE Enumerates(<<n>>, {n})
  <2> DEFINE c == <<n>>
  <2>1. c \in Seq(Nat) /\ Len(c) = 1 /\ c[1] = n /\ \A i \in 1..Len(c) : i = 1
    OBVIOUS
  <2> HIDE DEF c
  <2>2. Enumerates(c, {n})
    BY <2>1 DEF Enumerates
  <2> QED BY <2>2 DEF c
<1> QED BY <1>1, <1>2

\* The reader meets exactly the events of a block.
LEMMA EventsEnumerate ==
  ASSUME SoundFile, NEW b, Starts(b)
  PROVE  Enumerates(EventsIn(b), EventsInBlock(b))
PROOF
<1> DEFINE f == CHOOSE g : IsEvents(g, b, EventsInBlock(b))
           rest(o) == {q \in EventsInBlock(b) : o <= q}
           T == {o \in Offsets : o \in EventsInBlock(b) => Enumerates(f[o], rest(o))}
<1>0. /\ m_TraceOffset \in Nat
      /\ \A o \in EventsInBlock(b) : o \in Nat /\ o < m_TraceOffset /\ Cell(o) = file[o]
  BY Numbers DEF SoundFile, EventsInBlock, EventOffsets, Cell
<1>1. IsEvents(f, b, EventsInBlock(b)) /\ EventsIn(b) = f[b.start + 1]
  BY EventsExist, EventsIsChosen
<1> HIDE DEF f
<1>2. ASSUME NEW o \in Offsets, \A k \in Offsets : o < k => k \in T
      PROVE  o \in T
  <2> SUFFICES ASSUME o \in EventsInBlock(b) PROVE Enumerates(f[o], rest(o))
    OBVIOUS
  <2>1. o \in Nat /\ Enumerates(<<o>>, {o})
    BY <1>0, SmallEnumerations
  <2> DEFINE e == o + file[o].size
  <2>2. f[o] = <<o>> \o (IF MoreEvents(e, b) THEN f[e] ELSE <<>>)
    BY <1>0, <1>1 DEF IsEvents, EventsAt
  <2>3. CASE MoreEvents(e, b)
    <3>1. e \in EventsInBlock(b) /\ o < e
      BY <2>3, MoreIsEvent
    <3>2. \A q \in EventsInBlock(b) : o < q => e <= q
      BY InBlockOrder
    <3> HIDE DEF e
    <3>3. e \in Nat /\ e \in Offsets
      BY <3>1, <1>0 DEF Offsets
    <3>4. rest(o) = {o} \cup rest(e)
      <4>1. ASSUME NEW q \in EventsInBlock(b) PROVE o <= q <=> (q = o \/ e <= q)
        <5>1. q \in Nat /\ (o < q => e <= q)
          BY <1>0, <3>2
        <5> QED BY <5>1, <3>1, <3>3, <2>1
      <4> QED BY <4>1
    <3>5. Enumerates(f[e], rest(e))
      BY <1>2, <3>1, <3>3
    <3>6. \A x \in {o}, y \in rest(e) : x < y
      <4> SUFFICES ASSUME NEW y \in EventsInBlock(b), e <= y PROVE o < y
        OBVIOUS
      <4> QED BY <1>0, <3>1, <3>3, <2>1
    <3> HIDE DEF rest
    <3>7. Enumerates(<<o>> \o f[e], {o} \cup rest(e))
      BY <2>1, <3>5, <3>6, EnumerationGoesOn
    <3> QED BY <3>4, <3>7, <2>2, <2>3
  <2>4. CASE ~MoreEvents(e, b)
    <3>1. \A q \in EventsInBlock(b) : ~(o < q)
      BY <2>4, EventsFollow
    <3>2. rest(o) = {o} \cup {}
      <4>1. ASSUME NEW q \in EventsInBlock(b) PROVE o <= q <=> q = o
        BY <3>1, <1>0, <2>1
      <4> QED BY <4>1
    <3>3. f[o] = <<o>> \o <<>>
      BY <2>2, <2>4
    <3> HIDE DEF rest, e
    <3>4. Enumerates(<<o>> \o <<>>, {o} \cup {})
      BY <2>1, SmallEnumerations, EnumerationGoesOn
    <3> QED BY <3>2, <3>3, <3>4
  <2> QED BY <2>3, <2>4
<1>3. \A o \in 0..m_TraceOffset : o \in T
  <2> HIDE DEF T
  <2> QED BY <1>0, <1>2, DownInduction DEF Offsets
<1>4. b.start + 1 \in EventsInBlock(b) /\ rest(b.start + 1) = EventsInBlock(b)
  BY FirstEvent
<1>5. b.start + 1 \in Offsets
  BY <1>4, <1>0 DEF Offsets
<1> HIDE DEF rest
<1> DEFINE s == b.start + 1
<1>6. Enumerates(f[s], rest(s))
  <2> HIDE DEF s
  <2>1. s \in T /\ s \in EventsInBlock(b)
    BY <1>3, <1>4, <1>5 DEF Offsets, s
  <2> QED BY <2>1
<1> QED BY <1>1, <1>4, <1>6

-----------------------------------------------------------------------------
\* The blocks of a chain are in the order of the file.
LEMMA ChainOrder ==
  ASSUME SoundFile, NEW bs, Chain(bs, 1)
  PROVE  /\ bs \in Seq(BlockSet) /\ Len(bs) \in Nat
         /\ \A i, j \in 1..Len(bs) : i < j => bs[i].end < bs[j].start
PROOF
<1>1. bs \in Seq(BlockSet) /\ Len(bs) \in Nat
  BY DEF Chain
<1>2. ASSUME NEW i \in 1..Len(bs)
      PROVE  bs[i].start \in Nat /\ bs[i].end \in Nat /\ bs[i].start <= bs[i].end
  <2>1. IsBlock(bs[i])
    BY DEF Chain
  <2> PICK b : b = bs[i]
    OBVIOUS
  <2>2. b.start \in Nat /\ b.end \in Nat /\ b.start - 1 \in NextOffsets /\ file[b.start - 1].end = b.end
    BY <2>1 DEF IsBlock, BlockSet
  <2>3. b.start - 1 < b.end
    BY <2>2 DEF SoundFile, NextInv
  <2> QED BY <2>2, <2>3
<1> DEFINE T == {j \in Nat : j <= Len(bs) => \A i \in 1..Len(bs) : i < j => bs[i].end < bs[j].start}
<1>3. 0 \in T
  OBVIOUS
<1>4. ASSUME NEW j \in T PROVE j + 1 \in T
  <2>1. j \in Nat
    OBVIOUS
  <2> SUFFICES ASSUME j + 1 <= Len(bs), NEW i \in 1..Len(bs), i < j + 1
               PROVE  bs[i].end < bs[j + 1].start
    BY <2>1
  <2>2. j \in 1..Len(bs) /\ j + 1 \in 1..Len(bs) /\ j + 1 # 1 /\ (j + 1) - 1 = j
    BY <2>1, <1>1
  <2>3. bs[j + 1].start = bs[j].end + 2
    BY <2>2 DEF Chain
  <2>4. i = j \/ bs[i].end < bs[j].start
    BY <2>1, <2>2
  <2> HIDE DEF T
  <2>5. /\ bs[j].start \in Nat /\ bs[j].end \in Nat /\ bs[j].start <= bs[j].end
        /\ bs[i].end \in Nat
    BY <1>2, <2>2
  <2>6. PICK x \in Nat, y \in Nat, z \in Nat : x = bs[j].start /\ y = bs[j].end /\ z = bs[i].end
    BY <2>5
  <2>7. x <= y /\ (i = j \/ z < x) /\ (i = j => z = y)
    BY <2>4, <2>5, <2>6
  <2>8. z < y + 2
    BY <2>7
  <2> QED BY <2>3, <2>6, <2>8
<1> HIDE DEF T
<1>5. T \subseteq Nat
  BY DEF T
<1>6. \A j \in Nat : j \in T
  BY <1>3, <1>4, <1>5, SetInduction
<1>7. ASSUME NEW i \in 1..Len(bs), NEW j \in 1..Len(bs), i < j
      PROVE  bs[i].end < bs[j].start
  <2>1. j \in T /\ j <= Len(bs)
    BY <1>1, <1>6
  <2> QED BY <2>1, <1>7 DEF T
<1> QED BY <1>1, <1>7

\* The blocks of thread t, in their order, hold its events and no others.
ThreadSequence(tbs, t) ==
  /\ tbs \in Seq(BlockSet) /\ Len(tbs) \in Nat
  /\ \A i \in 1..Len(tbs) : Starts(tbs[i])
  /\ \A i, j \in 1..Len(tbs) : i < j => tbs[i].end < tbs[j].start
  /\ \A i \in 1..Len(tbs) : EventsInBlock(tbs[i]) \subseteq EventsOf(t)
  /\ \A q \in EventsOf(t) : \E i \in 1..Len(tbs) : q \in EventsInBlock(tbs[i])

\* Every block of events has an ID and an event behind it.
WellStarted(bs) ==
  \A i \in DOMAIN bs : bs[i].type = "ThreadEvents" =>
    Cell(bs[i].start).kind = "id" /\ Cell(bs[i].start + 1).kind = "event"

\* The reader assigns the blocks to the threads as they were made.
LEMMA ThreadBlocks ==
  ASSUME SoundFile, NEW bs, Chain(bs, 1), WellStarted(bs), NEW t \in Threads
  PROVE  ThreadSequence(BlocksThreadEvents(bs, t), t)
PROOF
<1> DEFINE S == {b \in Range(bs) : b.type = "ThreadEvents" /\ Cell(b.start) = [kind |-> "id", id |-> t]}
           tbs == BlocksThreadEvents(bs, t)
<1>1. /\ bs \in Seq(BlockSet) /\ Len(bs) \in Nat /\ DOMAIN bs = 1..Len(bs)
      /\ \A i, j \in 1..Len(bs) : i < j => bs[i].end < bs[j].start
      /\ \A i \in 1..Len(bs) : IsBlock(bs[i]) /\ bs[i] \in Range(bs)
  BY ChainOrder DEF Chain, Range
<1>2. tbs = Picked(bs, S)
  BY DEF BlocksThreadEvents
<1> HIDE DEF tbs, S
<1>3. PICK m : Places(m, tbs, bs, S, Len(bs), BlockSet)
  BY <1>1, <1>2, PickedPlaces
<1>4. /\ tbs \in Seq(BlockSet) /\ Len(tbs) = Len(m) /\ Len(m) \in Nat
      /\ \A k \in 1..Len(m) : tbs[k] = bs[m[k]] /\ m[k] \in 1..Len(bs) /\ bs[m[k]] \in S
      /\ \A i, j \in 1..Len(m) : i < j => m[i] < m[j]
      /\ \A i \in 1..Len(bs) : bs[i] \in S => \E k \in 1..Len(m) : m[k] = i
  BY <1>3 DEF Places, Enumerates
<1>5. ASSUME NEW i \in 1..Len(tbs) PROVE Starts(tbs[i])
  <2>1. m[i] \in 1..Len(bs) /\ tbs[i] = bs[m[i]] /\ bs[m[i]] \in S
    BY <1>4
  <2>2. bs[m[i]].type = "ThreadEvents"
    BY <2>1 DEF S
  <2>3. IsBlock(bs[m[i]]) /\ Cell(bs[m[i]].start).kind = "id" /\ Cell(bs[m[i]].start + 1).kind = "event"
    BY <2>1, <2>2, <1>1 DEF WellStarted
  <2> QED BY <2>1, <2>3 DEF Starts
<1>6. ASSUME NEW i \in 1..Len(tbs), NEW j \in 1..Len(tbs), i < j PROVE tbs[i].end < tbs[j].start
  <2>1. PICK x \in 1..Len(bs), y \in 1..Len(bs) : x = m[i] /\ y = m[j] /\ x < y
    BY <1>4, <1>6
  <2>2. tbs[i] = bs[x] /\ tbs[j] = bs[y]
    BY <1>4, <2>1
  <2>3. bs[x].end < bs[y].start
    BY <1>1, <2>1
  <2> QED BY <2>2, <2>3
<1>7. ASSUME NEW i \in 1..Len(tbs), NEW q \in EventsInBlock(tbs[i]) PROVE q \in EventsOf(t)
  <2>1. PICK b : b = tbs[i]
    OBVIOUS
  <2>2. Starts(b) /\ b \in S /\ q \in EventsInBlock(b)
    BY <1>4, <1>5, <2>1
  <2>3. PICK c : c = [kind |-> "id", id |-> t]
    OBVIOUS
  <2>4. Cell(b.start) = c
    BY <2>2, <2>3 DEF S
  <2>5. file[q].by = t
    BY <2>2, <2>3, <2>4, InBlockOrder
  <2> QED BY <2>2, <2>5 DEF EventsOf, EventsInBlock
<1>8. ASSUME NEW q \in EventsOf(t) PROVE \E i \in 1..Len(tbs) : q \in EventsInBlock(tbs[i])
  <2>1. q \in EventOffsets /\ file[q].by = t
    BY DEF EventsOf
  <2>2. PICK i \in 1..Len(bs) : q \in EventsInBlock(bs[i])
    BY <2>1, ChainCovers
  <2>3. PICK b : b = bs[i]
    OBVIOUS
  <2>4. b \in Range(bs) /\ IsBlock(b)
    BY <1>1, <2>3
  <2>5. b.type = "ThreadEvents" /\ (b.start \in DOMAIN file => file[b.start] = [kind |-> "id", id |-> t])
    BY <2>1, <2>2, <2>3, <2>4, InBlockFacts
  <2>6. Cell(b.start).kind = "id"
    BY <1>1, <2>3, <2>5 DEF WellStarted
  <2>7. Cell(b.start) = [kind |-> "id", id |-> t]
    BY <2>5, <2>6 DEF Cell, Zero
  <2>8. b \in S
    BY <2>4, <2>5, <2>7 DEF S
  <2>9. PICK k \in 1..Len(m) : m[k] = i
    BY <1>4, <2>3, <2>8
  <2>10. tbs[k] = b /\ k \in 1..Len(tbs)
    BY <1>4, <2>9, <2>3
  <2> QED BY <2>2, <2>3, <2>10
<1>9. Len(tbs) \in Nat
  BY <1>4
<1>10. ThreadSequence(tbs, t)
  BY <1>4, <1>5, <1>6, <1>7, <1>8, <1>9 DEF ThreadSequence
<1> QED BY <1>10 DEF tbs

\* The events of the first blocks.
IsMet(f, tbs, n) == f = [k \in 0..n |-> IF k = 0 THEN <<>> ELSE f[k - 1] \o EventsIn(tbs[k])]

\* Forward is defined by the last value of a function.
LEMMA ForwardIsChosen ==
  ASSUME NEW tbs
  PROVE  Forward(tbs) = (CHOOSE f : IsMet(f, tbs, Len(tbs)))[Len(tbs)]
BY DEF Forward, IsMet

\* There is such a function.
LEMMA MetExists ==
  ASSUME NEW tbs PROVE \A n \in Nat : \E f : IsMet(f, tbs, n)
PROOF
<1> DEFINE T == {n \in Nat : \E f : IsMet(f, tbs, n)}
<1>1. 0 \in T
  <2> DEFINE g == [k \in 0..0 |-> <<>>]
  <2>1. IsMet(g, tbs, 0)
    BY DEF IsMet
  <2> QED BY <2>1
<1>2. ASSUME NEW n \in T PROVE n + 1 \in T
  <2>1. PICK f : IsMet(f, tbs, n)
    OBVIOUS
  <2> DEFINE last == f[n] \o EventsIn(tbs[n + 1])
             g == [k \in 0..(n + 1) |-> IF k = n + 1 THEN last ELSE f[k]]
  <2>2. n \in Nat /\ n + 1 \in Nat
    OBVIOUS
  <2>3. ASSUME NEW k \in 0..(n + 1)
        PROVE  g[k] = IF k = 0 THEN <<>> ELSE g[k - 1] \o EventsIn(tbs[k])
    <3>1. CASE k = n + 1
      <4>1. g[k] = last /\ g[k - 1] = f[n] /\ k # 0
        BY <3>1, <2>2
      <4> HIDE DEF g
      <4> QED BY <4>1, <3>1
    <3>2. CASE k # n + 1
      <4>1. k \in 0..n
        BY <3>2, <2>2
      <4>2. g[k] = f[k] /\ (k # 0 => g[k - 1] = f[k - 1])
        BY <4>1, <2>2
      <4>3. f[k] = IF k = 0 THEN <<>> ELSE f[k - 1] \o EventsIn(tbs[k])
        <5> HIDE DEF g, last
        <5> QED BY <2>1, <4>1 DEF IsMet
      <4> HIDE DEF g
      <4> QED BY <4>2, <4>3
    <3> QED BY <3>1, <3>2
  <2>4. IsMet(g, tbs, n + 1)
    <3>1. g = [k \in 0..(n + 1) |-> g[k]]
      OBVIOUS
    <3> HIDE DEF g
    <3> QED BY <2>3, <3>1 DEF IsMet
  <2>5. \E h : IsMet(h, tbs, n + 1)
    <3> HIDE DEF g
    <3> QED BY <2>4
  <2> QED BY <2>5, <2>2
<1> HIDE DEF T
<1>3. T \subseteq Nat
  BY DEF T
<1>4. \A n \in Nat : n \in T
  BY <1>1, <1>2, <1>3, SetInduction
<1> QED BY <1>4 DEF T

\* The reader meets exactly the events of a thread, in the order of the file.
LEMMA ForwardEnumerates ==
  ASSUME SoundFile, NEW t \in Threads, NEW tbs, ThreadSequence(tbs, t)
  PROVE  Enumerates(Forward(tbs), EventsOf(t))
PROOF
<1> DEFINE f == CHOOSE g : IsMet(g, tbs, Len(tbs))
           Upto(n) == {q \in EventsOf(t) : \E i \in 1..n : q \in EventsInBlock(tbs[i])}
           T == {n \in Nat : n <= Len(tbs) => Enumerates(f[n], Upto(n))}
<1>0. Len(tbs) \in Nat
  BY DEF ThreadSequence
<1>1. IsMet(f, tbs, Len(tbs)) /\ Forward(tbs) = f[Len(tbs)]
  BY <1>0, MetExists, ForwardIsChosen
<1> HIDE DEF f
<1>2. 0 \in T
  <2>1. f[0] = <<>>
    BY <1>0, <1>1 DEF IsMet
  <2>2. Upto(0) = {}
    OBVIOUS
  <2> HIDE DEF Upto
  <2> QED BY <2>1, <2>2, SmallEnumerations
<1>3. ASSUME NEW n \in T PROVE n + 1 \in T
  <2>1. n \in Nat
    OBVIOUS
  <2> SUFFICES ASSUME n + 1 <= Len(tbs)
               PROVE  Enumerates(f[n + 1], Upto(n + 1))
    BY <2>1
  <2>2. Enumerates(f[n], Upto(n))
    BY <2>1, <1>0
  <2>3. n + 1 \in 1..Len(tbs) /\ n + 1 \in 0..Len(tbs) /\ n + 1 # 0 /\ (n + 1) - 1 = n
    BY <2>1, <1>0
  <2>4. f[n + 1] = f[n] \o EventsIn(tbs[n + 1])
    BY <1>1, <2>3 DEF IsMet
  <2> PICK b : b = tbs[n + 1]
    OBVIOUS
  <2>5. Starts(b) /\ EventsInBlock(b) \subseteq EventsOf(t)
    BY <2>3 DEF ThreadSequence
  <2>6. Enumerates(EventsIn(b), EventsInBlock(b))
    BY <2>5, EventsEnumerate
  <2>7. Upto(n + 1) = Upto(n) \cup EventsInBlock(b)
    <3>1. \A i \in 1..(n + 1) : i \in 1..n \/ i = n + 1
      BY <2>1
    <3>2. \A i \in 1..n : i \in 1..(n + 1)
      BY <2>1
    <3>3. n + 1 \in 1..(n + 1)
      BY <2>1
    <3>4. ASSUME NEW q \in EventsOf(t)
          PROVE  (\E i \in 1..(n + 1) : q \in EventsInBlock(tbs[i])) <=>
                    (\E i \in 1..n : q \in EventsInBlock(tbs[i])) \/ q \in EventsInBlock(b)
      BY <3>1, <3>2, <3>3
    <3> QED BY <3>4, <2>5
  <2>8. \A x \in Upto(n), y \in EventsInBlock(b) : x < y
    <3> SUFFICES ASSUME NEW i \in 1..n, NEW x \in EventsInBlock(tbs[i]), NEW y \in EventsInBlock(b)
                 PROVE  x < y
      OBVIOUS
    <3>1. i \in 1..Len(tbs) /\ i < n + 1
      BY <2>1, <2>3, <1>0
    <3> PICK a : a = tbs[i]
      OBVIOUS
    <3>2. Starts(a) /\ a.end < b.start
      BY <3>1, <2>3 DEF ThreadSequence
    <3>3. x < a.end /\ x \in Nat /\ a.end \in Nat
      BY <3>2, InBlockFacts DEF Starts
    <3>4. b.start < y /\ y \in Nat /\ b.start \in Nat
      BY <2>5, InBlockFacts DEF Starts
    <3> QED BY <3>2, <3>3, <3>4
  <2> HIDE DEF Upto
  <2>9. Enumerates(f[n] \o EventsIn(b), Upto(n) \cup EventsInBlock(b))
    BY <2>2, <2>6, <2>8, EnumerationGoesOn
  <2> QED BY <2>4, <2>7, <2>9
<1>4. Upto(Len(tbs)) = EventsOf(t)
  BY DEF ThreadSequence
<1> HIDE DEF T, Upto
<1>5. T \subseteq Nat
  BY DEF T
<1>6. Len(tbs) \in T
  BY <1>0, <1>2, <1>3, <1>5, SetInduction
<1> QED BY <1>0, <1>1, <1>4, <1>6 DEF T

-----------------------------------------------------------------------------
\* The events of a thread that are not torn.
Untorn(t) == {q \in EventsOf(t) : ~file[q].torn}

\* The log of a thread lists its records that are not torn.
LEMMA LogEnumerates ==
  ASSUME SoundFile, NEW t \in Threads
  PROVE  /\ log[t] \in Seq([offset : Nat, event : EventCell]) /\ Len(log[t]) \in Nat
         /\ DOMAIN log[t] = 1..Len(log[t])
         /\ \A i \in 1..Len(log[t]) : /\ log[t][i].offset \in EventsOf(t)
                                      /\ file[log[t][i].offset] = log[t][i].event
         /\ Enumerates([i \in 1..Len(log[t]) |-> log[t][i].offset], Untorn(t))
PROOF
<1> DEFINE a == [i \in 1..Len(log[t]) |-> log[t][i].offset]
<1>1. /\ log[t] \in Seq([offset : Nat, event : EventCell]) /\ Len(log[t]) \in Nat
      /\ DOMAIN log[t] = 1..Len(log[t])
      /\ \A i \in 1..Len(log[t]) : log[t][i] \in [offset : Nat, event : EventCell]
  <2> DEFINE R == [offset : Nat, event : EventCell]
  <2>1. log \in [Threads -> Seq(R)]
    BY DEF SoundFile, LogInv
  <2> HIDE DEF R
  <2>2. PICK l \in Seq(R) : l = log[t]
    BY <2>1
  <2>3. Len(l) \in Nat /\ DOMAIN l = 1..Len(l) /\ \A i \in 1..Len(l) : l[i] \in R
    BY <2>2
  <2> QED BY <2>2, <2>3 DEF R
<1>3. ASSUME NEW i \in 1..Len(log[t])
      PROVE  /\ log[t][i].offset \in Nat /\ log[t][i].offset \in Untorn(t)
             /\ file[log[t][i].offset] = log[t][i].event
  <2>1. PICK r \in [offset : Nat, event : EventCell] : r = log[t][i]
    BY <1>1
  <2>2. r.offset \in DOMAIN file /\ file[r.offset] = r.event
    BY <1>1, <2>1 DEF SoundFile, LogInv
  <2>3. r.event.by = t /\ ~r.event.torn
    BY <1>1, <2>1 DEF SoundFile, LogOrder
  <2>4. r.event \in EventCell /\ r.offset \in Nat
    OBVIOUS
  <2>5. r.event.kind = "event"
    BY <2>4 DEF EventCell
  <2>6. r.offset \in EventsOf(t)
    BY <2>2, <2>3, <2>5 DEF EventsOf, EventOffsets
  <2> QED BY <2>1, <2>2, <2>3, <2>4, <2>6 DEF Untorn
<1>4. a \in Seq(Nat) /\ Len(a) = Len(log[t]) /\ \A i \in 1..Len(log[t]) : a[i] = log[t][i].offset
  BY <1>1, <1>3
<1> HIDE DEF a
<1>5. \A i, j \in 1..Len(a) : i < j => a[i] < a[j]
  <2>1. \A i, j \in DOMAIN log[t] : i < j => log[t][i].offset < log[t][j].offset
    BY DEF SoundFile, LogOrder
  <2> QED BY <2>1, <1>1, <1>4
<1>6. \A i \in 1..Len(a) : a[i] \in Untorn(t)
  BY <1>3, <1>4
<1>7. ASSUME NEW q \in Untorn(t) PROVE \E i \in 1..Len(a) : a[i] = q
  <2>1. q \in EventOffsets /\ file[q].by = t /\ ~file[q].torn
    BY DEF Untorn, EventsOf
  <2>2. PICK i \in DOMAIN log[t] : log[t][i].offset = q
    BY <2>1 DEF SoundFile, LogOrder
  <2> QED BY <2>2, <1>1, <1>4
<1>8. Enumerates(a, Untorn(t))
  BY <1>4, <1>5, <1>6, <1>7 DEF Enumerates
<1> QED BY <1>1, <1>3, <1>8 DEF a, Untorn

\* The range of what enumerates a set is the set.
LEMMA EnumerationRange ==
  ASSUME NEW s, NEW S, Enumerates(s, S)
  PROVE  Range(s) = S /\ DOMAIN s = 1..Len(s) /\ Len(s) \in Nat
PROOF
<1>1. s \in Seq(Nat) /\ DOMAIN s = 1..Len(s) /\ Len(s) \in Nat
  BY DEF Enumerates
<1> QED BY <1>1 DEF Range, Enumerates

\* An event that is met is a cell of the file.
LEMMA TornCells ==
  ASSUME NEW t, NEW q \in EventsOf(t)
  PROVE  Cell(q) = file[q]
BY DEF EventsOf, EventOffsets, Cell

\* The part of the invariant that is about an accepted file.
LEMMA AcceptedRead ==
  ASSUME SoundFile
  PROVE  AcceptedIsExact
PROOF
<1> SUFFICES ASSUME Accepted(Blocks), WellDefined(Blocks), NEW t \in Threads
             PROVE  LET events == Forward(BlocksThreadEvents(Blocks, t))
                        whole  == Picked(events, {o \in Range(events) : ~Cell(o).torn})
                    IN  /\ Len(whole) = Len(log[t])
                        /\ \A i \in DOMAIN whole : /\ whole[i] = log[t][i].offset
                                                   /\ Cell(whole[i]) = log[t][i].event
  BY DEF AcceptedIsExact
<1> DEFINE events == Forward(BlocksThreadEvents(Blocks, t))
           intact == {o \in Range(events) : ~Cell(o).torn}
           whole == Picked(events, intact)
           logged == [i \in 1..Len(log[t]) |-> log[t][i].offset]
<1>1. Chain(Blocks, 1)
  BY BlocksAreChain DEF Accepted
<1>2. Enumerates(events, EventsOf(t))
  <2>1. WellStarted(Blocks)
    BY DEF WellDefined, WellStarted, IDSize
  <2> QED BY <1>1, <2>1, ThreadBlocks, ForwardEnumerates
<1> HIDE DEF events
<1>3. EventsOf(t) \cap intact = Untorn(t)
  <2>1. Range(events) = EventsOf(t)
    BY <1>2, EnumerationRange
  <2>2. \A q \in EventsOf(t) : Cell(q) = file[q]
    BY TornCells
  <2> QED BY <2>1, <2>2 DEF Untorn
<1> HIDE DEF intact
<1>4. Enumerates(whole, Untorn(t))
  BY <1>2, <1>3, PickedEnumerates
<1> HIDE DEF whole
<1>5. /\ Len(log[t]) \in Nat /\ Enumerates(logged, Untorn(t))
      /\ \A i \in 1..Len(log[t]) : /\ log[t][i].offset \in EventsOf(t)
                                   /\ file[log[t][i].offset] = log[t][i].event
  BY LogEnumerates
<1>6. Len(logged) = Len(log[t]) /\ \A i \in 1..Len(log[t]) : logged[i] = log[t][i].offset
  BY <1>5
<1> HIDE DEF logged
<1>7. Len(whole) = Len(log[t]) /\ DOMAIN whole = 1..Len(log[t])
      /\ \A i \in 1..Len(log[t]) : whole[i] = log[t][i].offset
  BY <1>4, <1>5, <1>6, EnumerationIsUnique, EnumerationRange
<1>8. \A i \in DOMAIN whole : whole[i] = log[t][i].offset /\ Cell(whole[i]) = log[t][i].event
  BY <1>5, <1>7, TornCells
<1> QED BY <1>7, <1>8 DEF whole, intact, events

-----------------------------------------------------------------------------
\* An ascending sequence of numbers below N has at most N elements.
LEMMA EnumerationBounded ==
  ASSUME NEW S, NEW e, Enumerates(e, S), NEW N \in Nat, \A x \in S : x < N
  PROVE  Len(e) <= N
PROOF
<1>1. Len(e) \in Nat /\ \A i \in 1..Len(e) : e[i] \in Nat /\ e[i] < N
  BY DEF Enumerates
<1> DEFINE T == {k \in Nat : 1 <= k /\ k <= Len(e) => k <= e[k] + 1}
<1>2. 0 \in T
  OBVIOUS
<1>3. ASSUME NEW k \in T PROVE k + 1 \in T
  <2>1. k \in Nat /\ k + 1 \in Nat
    OBVIOUS
  <2> SUFFICES ASSUME k + 1 <= Len(e) PROVE k + 1 <= e[k + 1] + 1
    BY <2>1
  <2>2. k + 1 \in 1..Len(e)
    BY <2>1, <1>1
  <2>3. CASE k = 0
    BY <2>2, <2>3, <1>1
  <2>4. CASE k # 0
    <3>1. k \in 1..Len(e) /\ k < k + 1
      BY <2>1, <2>4, <1>1
    <3>2. e[k] < e[k + 1]
      BY <2>2, <3>1 DEF Enumerates
    <3>3. k <= e[k] + 1
      BY <2>1, <3>1, <1>1
    <3> QED BY <3>1, <3>2, <3>3, <2>2, <1>1
  <2> QED BY <2>3, <2>4
<1> HIDE DEF T
<1>4. T \subseteq Nat
  BY DEF T
<1>5. Len(e) \in T
  BY <1>1, <1>2, <1>3, <1>4, SetInduction
<1>6. CASE Len(e) = 0
  BY <1>6
<1>7. CASE Len(e) # 0
  <2>1. Len(e) \in 1..Len(e) /\ Len(e) <= e[Len(e)] + 1
    BY <1>1, <1>5, <1>7 DEF T
  <2> QED BY <2>1, <1>1
<1> QED BY <1>6, <1>7

\* The events e of a thread, in the order of the file, that are in the blocks
\* tbs of the thread and none of which is torn.
IntactThread(t, tbs, e) ==
  /\ t \in Threads /\ ThreadSequence(tbs, t) /\ Enumerates(e, EventsOf(t))
  /\ \A q \in EventsOf(t) : ~file[q].torn

\* Every record has the size of the preceding event of its thread.
LEMMA PrevIs ==
  ASSUME SoundFile, NEW t, NEW tbs, NEW e, IntactThread(t, tbs, e),
         NEW m \in 1..Len(e), m # 1
  PROVE  /\ m - 1 \in 1..Len(e) /\ e[m] \in EventsOf(t) /\ e[m - 1] \in EventsOf(t)
         /\ e[m] \in Nat /\ e[m - 1] \in Nat /\ e[m - 1] < e[m]
         /\ Cell(e[m]).prev = file[e[m - 1]].size /\ file[e[m - 1]].size \in Nat \ {0}
         /\ \A q \in EventsOf(t) : q < e[m] => q <= e[m - 1]
PROOF
<1> DEFINE logged == [i \in 1..Len(log[t]) |-> log[t][i].offset]
<1>0. t \in Threads /\ Enumerates(e, EventsOf(t)) /\ Untorn(t) = EventsOf(t)
  BY DEF IntactThread, Untorn
<1>1. /\ Len(log[t]) \in Nat /\ Enumerates(logged, EventsOf(t)) /\ DOMAIN log[t] = 1..Len(log[t])
      /\ \A i \in 1..Len(log[t]) : file[log[t][i].offset] = log[t][i].event
  BY <1>0, LogEnumerates
<1>2. Len(logged) = Len(log[t]) /\ \A i \in 1..Len(log[t]) : logged[i] = log[t][i].offset
  BY <1>1
<1> HIDE DEF logged
<1>3. Len(e) = Len(log[t]) /\ \A i \in 1..Len(e) : e[i] = log[t][i].offset
  BY <1>0, <1>1, <1>2, EnumerationIsUnique
<1>4. /\ Len(e) \in Nat /\ \A i \in 1..Len(e) : e[i] \in Nat /\ e[i] \in EventsOf(t)
  BY <1>0 DEF Enumerates
<1>5. m - 1 \in 1..Len(e) /\ m - 1 < m
  BY <1>4
<1>6. e[m - 1] < e[m]
  BY <1>0, <1>5 DEF Enumerates
<1>7. file[e[m]] = log[t][m].event /\ file[e[m - 1]] = log[t][m - 1].event
  BY <1>1, <1>3, <1>5
<1>8. log[t][m].event.prev = log[t][m - 1].event.size
  <2>1. m \in DOMAIN log[t] /\ t \in Threads
    BY <1>0, <1>1, <1>3
  <2>2. log[t][m].event.prev = IF m = 1 THEN 0 ELSE log[t][m - 1].event.size
    BY <2>1 DEF SoundFile, LogOrder
  <2> QED BY <2>2
<1>9. Cell(e[m]) = file[e[m]]
  BY <1>4, TornCells
<1>10. file[e[m - 1]].size \in Nat \ {0}
  <2>1. e[m - 1] \in EventOffsets
    BY <1>4, <1>5 DEF EventsOf
  <2>2. file[e[m - 1]].size \in Nat /\ file[e[m - 1]].size >= 1
    BY <2>1, Numbers DEF SoundFile, EventsInv
  <2> QED BY <2>2
<1>11. ASSUME NEW q \in EventsOf(t), q < e[m] PROVE q <= e[m - 1]
  <2>1. PICK k \in 1..Len(e) : e[k] = q
    BY <1>0 DEF Enumerates
  <2>2. k < m
    <3> SUFFICES ASSUME m <= k PROVE FALSE
      BY <1>4
    <3>1. m < k => e[m] < e[k]
      BY <1>0 DEF Enumerates
    <3> QED BY <3>1, <2>1, <1>4, <1>11
  <2>3. k < m - 1 => e[k] < e[m - 1]
    BY <1>0, <1>5 DEF Enumerates
  <2> QED BY <2>1, <2>2, <2>3, <1>4, <1>5
<1> QED BY <1>4, <1>5, <1>6, <1>7, <1>8, <1>9, <1>10, <1>11

\* The last event of a block.
LEMMA LastEvent ==
  ASSUME SoundFile, NEW b, Starts(b)
  PROVE  /\ Last(EventsIn(b)) \in EventsInBlock(b)
         /\ \A q \in EventsInBlock(b) : q <= Last(EventsIn(b))
PROOF
<1> DEFINE e == EventsIn(b)
<1>1. Enumerates(e, EventsInBlock(b)) /\ b.start + 1 \in EventsInBlock(b)
  BY EventsEnumerate, FirstEvent
<1>2. Last(e) = e[Len(e)]
  BY DEF Last
<1> HIDE DEF e
<1>3. Len(e) \in Nat /\ \A i \in 1..Len(e) : e[i] \in Nat /\ e[i] \in EventsInBlock(b)
  BY <1>1 DEF Enumerates
<1>4. Len(e) \in 1..Len(e)
  <2>1. PICK i \in 1..Len(e) : e[i] = b.start + 1
    BY <1>1 DEF Enumerates
  <2> QED BY <2>1, <1>3
<1>5. ASSUME NEW q \in EventsInBlock(b) PROVE q <= e[Len(e)]
  <2>1. PICK i \in 1..Len(e) : e[i] = q
    BY <1>1 DEF Enumerates
  <2>2. i < Len(e) => e[i] < e[Len(e)]
    BY <1>1, <1>4 DEF Enumerates
  <2> QED BY <2>1, <2>2, <1>3, <1>4
<1> QED BY <1>2, <1>3, <1>4, <1>5 DEF e

\* Where the blocks of a thread and the events in them are.
LEMMA BlocksApart ==
  ASSUME SoundFile, NEW t, NEW tbs, ThreadSequence(tbs, t),
         NEW i \in 1..Len(tbs), NEW x \in EventsInBlock(tbs[i])
  PROVE  /\ x \in EventsOf(t) /\ x \in Nat /\ Starts(tbs[i]) /\ tbs[i].start \in Nat
         /\ tbs[i].start + 1 <= x
         /\ \A j \in 1..Len(tbs) : \A y \in EventsInBlock(tbs[j]) : i < j => x < y
PROOF
<1>1. \A j \in 1..Len(tbs) : Starts(tbs[j]) /\ IsBlock(tbs[j])
  BY DEF ThreadSequence, Starts
<1>2. \A j \in 1..Len(tbs) : \A y \in EventsInBlock(tbs[j]) :
         tbs[j].start \in Nat /\ tbs[j].end \in Nat /\ y \in Nat /\ tbs[j].start < y /\ y < tbs[j].end
  BY <1>1, InBlockFacts
<1>3. x \in EventsOf(t)
  BY DEF ThreadSequence
<1>4. tbs[i].start + 1 <= x
  <2>1. tbs[i].start \in Nat /\ x \in Nat /\ tbs[i].start < x
    BY <1>2
  <2> QED BY <2>1
<1>5. ASSUME NEW j \in 1..Len(tbs), NEW y \in EventsInBlock(tbs[j]), i < j PROVE x < y
  <2>1. tbs[i].end < tbs[j].start
    BY <1>5 DEF ThreadSequence
  <2>2. tbs[i].end \in Nat /\ x \in Nat /\ x < tbs[i].end /\ tbs[j].start \in Nat /\ y \in Nat /\ tbs[j].start < y
    BY <1>2
  <2> QED BY <2>1, <2>2
<1> QED BY <1>1, <1>2, <1>3, <1>4, <1>5

\* The events of an earlier block of a thread come before those of a later one.
LEMMA BlocksInOrder ==
  ASSUME SoundFile, NEW t, NEW tbs, ThreadSequence(tbs, t)
  PROVE  \A i, j \in 1..Len(tbs) :
           \A x \in EventsInBlock(tbs[i]), y \in EventsInBlock(tbs[j]) : i < j => x < y
PROOF
<1> SUFFICES ASSUME NEW i \in 1..Len(tbs), NEW j \in 1..Len(tbs),
                    NEW x \in EventsInBlock(tbs[i]), NEW y \in EventsInBlock(tbs[j]), i < j
             PROVE  x < y
  OBVIOUS
<1>1. \A q \in 1..Len(tbs) : \A z \in EventsInBlock(tbs[q]) : i < q => x < z
  BY BlocksApart
<1> QED BY <1>1

\* A step backward leads to the preceding event of the thread.
LEMMA PreviousIs ==
  ASSUME SoundFile, NEW t, NEW tbs, NEW e, IntactThread(t, tbs, e),
         NEW i \in 1..Len(tbs), NEW m \in 1..Len(e), m # 1, e[m] \in EventsInBlock(tbs[i])
  PROVE  \E j \in 1..Len(tbs) : Previous(tbs, i, e[m]) = <<j, e[m - 1]>> /\ e[m - 1] \in EventsInBlock(tbs[j])
PROOF
<1> PICK o, d, b : o = e[m] /\ d = e[m - 1] /\ b = tbs[i]
  OBVIOUS
<1>1. /\ o \in EventsOf(t) /\ d \in EventsOf(t) /\ o \in Nat /\ d \in Nat /\ d < o
      /\ Cell(o).prev = file[d].size /\ file[d].size \in Nat \ {0}
      /\ \A q \in EventsOf(t) : q < o => q <= d
  BY PrevIs
<1>2. /\ ThreadSequence(tbs, t) /\ Len(tbs) \in Nat
      /\ \A q \in EventsOf(t) : \E k \in 1..Len(tbs) : q \in EventsInBlock(tbs[k])
  BY DEF IntactThread, ThreadSequence
<1>3. Starts(b) /\ b.start \in Nat /\ b.start + 1 <= o /\ o \in EventsInBlock(b)
  BY <1>2, BlocksApart
<1>4. Previous(tbs, i, o) = IF o - file[d].size >= b.start + 1
                            THEN <<i, o - file[d].size>>
                            ELSE <<i - 1, Last(EventsIn(tbs[i - 1]))>>
  BY <1>1 DEF Previous, IDSize
<1>5. CASE o # b.start + 1
  <2>1. PICK x \in EventsInBlock(b) : x + file[x].size = o /\ x < o
    BY <1>3, <1>5, Predecessor
  <2>2. x \in EventsOf(t) /\ x \in Nat /\ b.start + 1 <= x
    BY <1>2, <2>1, BlocksApart
  <2>3. x <= d
    BY <1>1, <2>1, <2>2
  <2>4. ~(x < d)
    <3>1. x < d => x + file[x].size <= d
      BY <1>1, <2>2 DEF SoundFile, EventsInv, EventsOf
    <3> QED BY <3>1, <2>1, <1>1
  <2>5. x = d
    BY <2>2, <2>3, <2>4, <1>1
  <2>6. o - file[d].size = d
    BY <2>1, <2>5, <1>1
  <2>7. Previous(tbs, i, o) = <<i, d>>
    BY <1>4, <2>2, <2>5, <2>6
  <2> QED BY <2>1, <2>5, <2>7
<1>6. CASE o = b.start + 1
  <2>1. PICK k \in 1..Len(tbs) : d \in EventsInBlock(tbs[k])
    BY <1>1, <1>2
  <2>2. ~(i < k)
    <3>1. i < k => o < d
      BY <1>2, <1>3, <2>1, BlocksApart
    <3> QED BY <3>1, <1>1
  <2>3. k # i
    <3>1. k = i => b.start + 1 <= d
      BY <1>2, <2>1, BlocksApart
    <3> QED BY <3>1, <1>1, <1>6
  <2>0. k < i /\ i - 1 \in 1..Len(tbs)
    BY <2>2, <2>3, <1>2
  <2>4. PICK h \in 1..Len(tbs) : h = i - 1
    BY <2>0
  <2> PICK c, l : c = tbs[h] /\ l = Last(EventsIn(c))
    OBVIOUS
  <2>5. Starts(c)
    BY <1>2, <2>4 DEF ThreadSequence
  <2>6. l \in EventsInBlock(c) /\ \A q \in EventsInBlock(c) : q <= l
    BY <2>5, LastEvent
  <2>7. l \in EventsOf(t) /\ l \in Nat /\ l < o
    <3>1. h < i
      BY <2>4
    <3>2. l \in EventsInBlock(tbs[h]) /\ o \in EventsInBlock(tbs[i])
      BY <1>3, <2>6
    <3>3. /\ l \in EventsOf(t) /\ l \in Nat
          /\ \A j \in 1..Len(tbs) : \A y \in EventsInBlock(tbs[j]) : h < j => l < y
      BY <1>2, <3>2, BlocksApart
    <3> QED BY <3>1, <3>2, <3>3
  <2>8. l <= d
    BY <1>1, <2>7
  <2>9. ~(k < h)
    <3>1. k < h => d < l
      <4>1. k \in 1..Len(tbs) /\ d \in EventsInBlock(tbs[k])
        BY <2>1
      <4>2. ThreadSequence(tbs, t)
        BY <1>2
      <4>3. \A f, g \in 1..Len(tbs) : \A x \in EventsInBlock(tbs[f]), y \in EventsInBlock(tbs[g]) : f < g => x < y
        BY <4>2, BlocksInOrder
      <4>4. l \in EventsInBlock(tbs[h])
        BY <2>6
      <4> QED BY <4>1, <4>3, <4>4
    <3> QED BY <3>1, <2>7, <2>8, <1>1
  <2>10. k = h
    BY <2>0, <2>4, <2>9
  <2>11. d <= l
    BY <2>1, <2>6, <2>10
  <2>12. l = d
    BY <2>7, <2>8, <2>11, <1>1
  <2>13. ~(o - file[d].size >= b.start + 1)
    <3>1. PICK z \in Nat \ {0} : z = file[d].size
      BY <1>1
    <3>2. o \in Nat
      BY <1>1
    <3>3. ~(o - z >= o)
      BY <3>2
    <3> QED BY <3>1, <3>3, <1>6
  <2>14. Previous(tbs, i, o) = <<h, d>>
    BY <1>4, <2>4, <2>12, <2>13
  <2> QED BY <2>1, <2>10, <2>14
<1> QED BY <1>5, <1>6

\* Where the events of a thread begin and end.
LEMMA EndsOfThread ==
  ASSUME SoundFile, NEW t, NEW tbs, NEW e, IntactThread(t, tbs, e), Len(tbs) # 0
  PROVE  /\ Len(e) \in Nat \ {0} /\ Len(e) <= m_TraceOffset /\ e[1] = tbs[1].start + 1
         /\ Last(EventsIn(Last(tbs))) = e[Len(e)]
         /\ Len(tbs) \in 1..Len(tbs) /\ e[Len(e)] \in EventsInBlock(tbs[Len(tbs)])
         /\ \A m \in 1..Len(e) : m # 1 => e[m] # e[1]
PROOF
<1>1. /\ ThreadSequence(tbs, t) /\ Len(tbs) \in Nat
      /\ \A q \in EventsOf(t) : \E k \in 1..Len(tbs) : q \in EventsInBlock(tbs[k])
  BY DEF IntactThread, ThreadSequence
<1>2. 1 \in 1..Len(tbs) /\ Len(tbs) \in 1..Len(tbs)
  BY <1>1
<1>3. /\ Enumerates(e, EventsOf(t)) /\ Len(e) \in Nat
      /\ \A i \in 1..Len(e) : e[i] \in Nat /\ e[i] \in EventsOf(t)
      /\ \A i, j \in 1..Len(e) : i < j => e[i] < e[j]
      /\ \A q \in EventsOf(t) : \E i \in 1..Len(e) : e[i] = q
  BY DEF IntactThread, Enumerates
<1> PICK b, c, l : b = tbs[1] /\ c = tbs[Len(tbs)] /\ l = Last(EventsIn(c))
  OBVIOUS
<1>4. Starts(b) /\ Starts(c)
  BY <1>1, <1>2 DEF ThreadSequence
<1>5. b.start + 1 \in EventsInBlock(b) /\ l \in EventsInBlock(c) /\ (\A q \in EventsInBlock(c) : q <= l)
  BY <1>4, FirstEvent, LastEvent
<1>6. b.start + 1 \in EventsOf(t) /\ l \in EventsOf(t)
  BY <1>1, <1>2, <1>5 DEF ThreadSequence
<1>7. PICK f \in 1..Len(e), g \in 1..Len(e) : e[f] = b.start + 1 /\ e[g] = l
  BY <1>3, <1>6
<1>8. Len(e) \in Nat \ {0} /\ 1 \in 1..Len(e) /\ Len(e) \in 1..Len(e)
  BY <1>3, <1>7
<1>9. e[1] <= b.start + 1
  <2>1. 1 < f => e[1] < e[f]
    BY <1>3, <1>8
  <2> QED BY <2>1, <1>3, <1>7, <1>8
<1>10. b.start + 1 <= e[1]
  <2>1. e[1] \in EventsOf(t)
    BY <1>3, <1>8
  <2>2. PICK k \in 1..Len(tbs) : e[1] \in EventsInBlock(tbs[k])
    BY <1>1, <2>1
  <2>3. CASE k = 1
    BY <1>1, <2>2, <2>3, BlocksApart
  <2>4. CASE 1 < k
    <3>1. b.start + 1 < e[1]
      <4> DEFINE x == b.start + 1
      <4>1. x \in EventsInBlock(tbs[1])
        BY <1>5
      <4> HIDE DEF x
      <4>2. \A j \in 1..Len(tbs) : \A y \in EventsInBlock(tbs[j]) : 1 < j => x < y
        BY <1>1, <1>2, <4>1, BlocksApart
      <4>3. x < e[1]
        BY <4>2, <2>2, <2>4
      <4> QED BY <4>3 DEF x
    <3> QED BY <3>1, <1>3, <1>7, <1>8
  <2> QED BY <2>3, <2>4
<1>11. e[1] = b.start + 1
  BY <1>3, <1>7, <1>8, <1>9, <1>10
<1>12. l <= e[Len(e)]
  <2>1. g < Len(e) => e[g] < e[Len(e)]
    BY <1>3, <1>8
  <2> QED BY <2>1, <1>3, <1>7, <1>8
<1>13. e[Len(e)] \in EventsInBlock(c)
  <2>1. e[Len(e)] \in EventsOf(t)
    BY <1>3, <1>8
  <2>2. PICK k \in 1..Len(tbs) : e[Len(e)] \in EventsInBlock(tbs[k])
    BY <1>1, <2>1
  <2>3. k < Len(tbs) => e[Len(e)] < l
    <3>1. \A j \in 1..Len(tbs) : \A y \in EventsInBlock(tbs[j]) : k < j => e[Len(e)] < y
      BY <1>1, <2>2, BlocksApart
    <3> QED BY <3>1, <1>2, <1>5
  <2>5. l \in Nat /\ e[Len(e)] \in Nat
    BY <1>3, <1>7, <1>8
  <2>4. ~(k < Len(tbs))
    BY <2>3, <2>5, <1>12
  <2> QED BY <2>2, <2>4, <1>1
<1>14. e[Len(e)] <= l
  BY <1>5, <1>13
<1>15. l = e[Len(e)]
  BY <1>3, <1>7, <1>8, <1>12, <1>14
<1>16. Len(e) <= m_TraceOffset
  <2>1. m_TraceOffset \in Nat /\ \A q \in EventsOf(t) : q < m_TraceOffset
    BY Numbers DEF SoundFile, EventsOf
  <2> QED BY <2>1, <1>3, EnumerationBounded
<1>17. \A m \in 1..Len(e) : m # 1 => e[m] # e[1]
  <2> TAKE m \in 1..Len(e)
  <2>1. m # 1 => e[1] < e[m]
    BY <1>3, <1>8
  <2> QED BY <2>1, <1>3, <1>8
<1> QED BY <1>2, <1>8, <1>11, <1>13, <1>15, <1>16, <1>17 DEF Last

\* Where the reader is after k steps backward, given where it was before.
WalkAt(f, tbs, k) ==
  IF k = 0 THEN <<Len(tbs), Last(EventsIn(Last(tbs)))>>
  ELSE LET at == f[k - 1]
       IN  IF at[2] = tbs[1].start + 1 THEN at ELSE Previous(tbs, at[1], at[2])
IsWalk(f, tbs, n) == f = [k \in 0..n |-> WalkAt(f, tbs, k)]
WalkOf(tbs) == CHOOSE f : IsWalk(f, tbs, m_TraceOffset)
\* After n steps the reader is at the first event, and no sooner.
IsLast(tbs, n) == /\ WalkOf(tbs)[n][2] = tbs[1].start + 1 \/ n = m_TraceOffset
                  /\ \A m \in 0..(n - 1) : WalkOf(tbs)[m][2] # tbs[1].start + 1
StepsOf(tbs) == CHOOSE n \in Offsets : IsLast(tbs, n)

\* Backward is defined by a function on the number of steps.
LEMMA BackwardIsChosen ==
  ASSUME NEW tbs
  PROVE  Backward(tbs) = IF tbs = <<>> THEN <<>>
                         ELSE [n \in 1..(StepsOf(tbs) + 1) |-> WalkOf(tbs)[n - 1][2]]
BY DEF Backward, StepsOf, IsLast, WalkOf, IsWalk, WalkAt, Offsets, IDSize

\* There is such a function.
LEMMA WalkExists ==
  ASSUME NEW tbs PROVE \A n \in Nat : \E f : IsWalk(f, tbs, n)
PROOF
<1> DEFINE T == {n \in Nat : \E f : IsWalk(f, tbs, n)}
<1>1. 0 \in T
  <2> DEFINE g == [k \in 0..0 |-> WalkAt(<<>>, tbs, k)]
  <2>1. IsWalk(g, tbs, 0)
    BY DEF IsWalk, WalkAt
  <2> QED BY <2>1
<1>2. ASSUME NEW n \in T PROVE n + 1 \in T
  <2>1. PICK f : IsWalk(f, tbs, n)
    OBVIOUS
  <2> DEFINE last == WalkAt(f, tbs, n + 1)
             g == [k \in 0..(n + 1) |-> IF k = n + 1 THEN last ELSE f[k]]
  <2>2. n \in Nat /\ n + 1 \in Nat
    OBVIOUS
  <2>3. ASSUME NEW k \in 0..(n + 1) PROVE g[k] = WalkAt(g, tbs, k)
    <3>1. g[k] = WalkAt(f, tbs, k)
      <4>1. CASE k = n + 1
        BY <4>1
      <4>2. CASE k # n + 1
        <5>1. k \in 0..n
          BY <4>2, <2>2
        <5>2. f[k] = WalkAt(f, tbs, k)
          <6> HIDE DEF g, last
          <6> QED BY <2>1, <5>1 DEF IsWalk
        <5>3. g[k] = f[k]
          BY <4>2
        <5> QED BY <5>2, <5>3
      <4> QED BY <4>1, <4>2
    <3>2. k # 0 => g[k - 1] = f[k - 1]
      <4>1. k # 0 => k - 1 \in 0..(n + 1) /\ k - 1 # n + 1
        BY <2>2
      <4> QED BY <4>1
    <3> HIDE DEF g, last
    <3> QED BY <3>1, <3>2 DEF WalkAt
  <2>4. IsWalk(g, tbs, n + 1)
    <3>1. g = [k \in 0..(n + 1) |-> g[k]]
      OBVIOUS
    <3> HIDE DEF g
    <3> QED BY <2>3, <3>1 DEF IsWalk
  <2>5. \E h : IsWalk(h, tbs, n + 1)
    <3> HIDE DEF g
    <3> QED BY <2>4
  <2> QED BY <2>5, <2>2
<1> HIDE DEF T
<1>3. T \subseteq Nat
  BY DEF T
<1>4. \A n \in Nat : n \in T
  BY <1>1, <1>2, <1>3, SetInduction
<1> QED BY <1>4 DEF T

\* After k steps the reader is at the event k places before the last one.
LEMMA WalkIs ==
  ASSUME SoundFile, NEW t, NEW tbs, NEW e, IntactThread(t, tbs, e), Len(tbs) # 0,
         NEW n \in Nat, n < Len(e)
  PROVE  WalkOf(tbs)[n][2] = e[Len(e) - n]
PROOF
<1> DEFINE w == WalkOf(tbs)
           N == Len(e)
           T == {k \in Nat : k < N => \E j \in 1..Len(tbs) : /\ w[k] = <<j, e[N - k]>>
                                                             /\ e[N - k] \in EventsInBlock(tbs[j])}
<1>1. /\ N \in Nat \ {0} /\ N <= m_TraceOffset /\ e[1] = tbs[1].start + 1
      /\ Last(EventsIn(Last(tbs))) = e[N]
      /\ Len(tbs) \in 1..Len(tbs) /\ e[N] \in EventsInBlock(tbs[Len(tbs)])
      /\ \A m \in 1..N : m # 1 => e[m] # e[1]
  BY EndsOfThread
<1>2. m_TraceOffset \in Nat
  BY Numbers DEF SoundFile
<1>3. IsWalk(w, tbs, m_TraceOffset)
  BY <1>2, WalkExists DEF WalkOf
<1> HIDE DEF w, N
<1>4. \A k \in 0..m_TraceOffset : w[k] = WalkAt(w, tbs, k)
  BY <1>3 DEF IsWalk
<1>5. 0 \in T
  <2>1. w[0] = <<Len(tbs), e[N]>>
    BY <1>1, <1>2, <1>4 DEF WalkAt
  <2>2. N - 0 = N
    BY <1>1
  <2> QED BY <1>1, <2>1, <2>2
<1>6. ASSUME NEW k \in T PROVE k + 1 \in T
  <2>1. k \in Nat
    OBVIOUS
  <2> SUFFICES ASSUME k + 1 < N
               PROVE  \E j \in 1..Len(tbs) : /\ w[k + 1] = <<j, e[N - (k + 1)]>>
                                             /\ e[N - (k + 1)] \in EventsInBlock(tbs[j])
    BY <2>1
  <2>8. k < N
    BY <2>1, <1>1
  <2>2. PICK j \in 1..Len(tbs) : w[k] = <<j, e[N - k]>> /\ e[N - k] \in EventsInBlock(tbs[j])
    BY <2>8
  <2> HIDE DEF T
  <2>3. PICK m \in 1..N : m = N - k /\ m # 1 /\ m - 1 = N - (k + 1)
    <3>1. N - k \in 1..N /\ N - k # 1 /\ (N - k) - 1 = N - (k + 1)
      BY <2>1, <1>1
    <3> QED BY <3>1
  <2>4. k + 1 \in 0..m_TraceOffset /\ k + 1 # 0 /\ (k + 1) - 1 = k
    BY <2>1, <1>1, <1>2
  <2>5. w[k] = <<j, e[m]>> /\ e[m] \in EventsInBlock(tbs[j]) /\ e[m] # tbs[1].start + 1
    BY <2>2, <2>3, <1>1
  <2>6. w[k + 1] = Previous(tbs, j, e[m])
    <3>1. w[k + 1] = IF w[k][2] = tbs[1].start + 1 THEN w[k] ELSE Previous(tbs, w[k][1], w[k][2])
      BY <1>4, <2>4 DEF WalkAt
    <3>2. w[k][1] = j /\ w[k][2] = e[m]
      BY <2>5
    <3> QED BY <3>1, <3>2, <2>5
  <2>7. PICK i \in 1..Len(tbs) : Previous(tbs, j, e[m]) = <<i, e[m - 1]>> /\ e[m - 1] \in EventsInBlock(tbs[i])
    BY <2>3, <2>5, PreviousIs DEF N
  <2> QED BY <2>3, <2>6, <2>7
<1> HIDE DEF T
<1>7. T \subseteq Nat
  BY DEF T
<1>8. n \in T
  BY <1>5, <1>6, <1>7, SetInduction
<1>9. PICK j \in 1..Len(tbs) : w[n] = <<j, e[N - n]>>
  BY <1>8 DEF T, N
<1> QED BY <1>9 DEF w, N

\* Walking back from the last event gives the events reversed.
LEMMA BackwardReverses ==
  ASSUME SoundFile, NEW t, NEW tbs, NEW e, IntactThread(t, tbs, e)
  PROVE  Backward(tbs) = Reverse(e)
PROOF
<1>1. /\ tbs \in Seq(BlockSet) /\ Len(tbs) \in Nat /\ e \in Seq(Nat) /\ Len(e) \in Nat
      /\ \A i \in 1..Len(e) : e[i] \in EventsOf(t)
      /\ \A q \in EventsOf(t) : \E k \in 1..Len(tbs) : q \in EventsInBlock(tbs[k])
  BY DEF IntactThread, ThreadSequence, Enumerates
<1>2. CASE Len(tbs) = 0
  <2>1. tbs = <<>>
    BY <1>1, <1>2
  <2>2. Len(e) = 0
    <3> SUFFICES ASSUME Len(e) # 0 PROVE FALSE
      OBVIOUS
    <3>1. 1 \in 1..Len(e)
      BY <1>1
    <3>2. PICK k \in 1..Len(tbs) : e[1] \in EventsInBlock(tbs[k])
      BY <1>1, <3>1
    <3> QED BY <3>2, <1>2
  <2>3. Reverse(e) = <<>>
    BY <1>1, <2>2 DEF Reverse
  <2> QED BY <2>1, <2>3, BackwardIsChosen
<1>3. CASE Len(tbs) # 0
  <2> DEFINE w == WalkOf(tbs)
             N == Len(e)
             first == tbs[1].start + 1
             steps == StepsOf(tbs)
  <2>1. /\ N \in Nat \ {0} /\ N <= m_TraceOffset /\ e[1] = first
        /\ \A m \in 1..N : m # 1 => e[m] # first
    BY <1>3, EndsOfThread
  <2>2. \A n \in Nat : n < N => w[n][2] = e[N - n]
    BY <1>3, WalkIs
  <2>3. m_TraceOffset \in Nat
    BY Numbers DEF SoundFile
  <2>4. Backward(tbs) = [n \in 1..(steps + 1) |-> w[n - 1][2]]
    BY <1>3, BackwardIsChosen
  <2>5. \A n : IsLast(tbs, n) <=> /\ w[n][2] = first \/ n = m_TraceOffset
                                 /\ \A m \in 0..(n - 1) : w[m][2] # first
    BY DEF IsLast
  <2>6. steps = CHOOSE n \in Offsets : IsLast(tbs, n)
    BY DEF StepsOf
  <2> HIDE DEF w, N, first, steps
  <2>7. N - 1 \in Offsets /\ w[N - 1][2] = first /\ IsLast(tbs, N - 1)
    <3>1. N - 1 \in Nat /\ N - 1 < N /\ N - (N - 1) = 1 /\ N - 1 \in Offsets
      BY <2>1, <2>3 DEF Offsets
    <3>2. w[N - 1][2] = e[N - (N - 1)]
      BY <2>2, <3>1
    <3>3. w[N - 1][2] = first
      BY <2>1, <3>1, <3>2
    <3>4. ASSUME NEW m \in 0..((N - 1) - 1) PROVE w[m][2] # first
      <4>1. m \in Nat /\ m < N /\ N - m \in 1..N /\ N - m # 1
        BY <2>1
      <4>2. w[m][2] = e[N - m]
        BY <2>2, <4>1
      <4> QED BY <2>1, <4>1, <4>2
    <3> QED BY <2>5, <3>1, <3>3, <3>4
  <2>8. steps = N - 1 /\ steps + 1 = N
    <3>1. steps \in Offsets /\ IsLast(tbs, steps)
      BY <2>6, <2>7
    <3>2. steps \in Nat
      BY <2>3, <3>1 DEF Offsets
    <3>3. w[steps][2] = first \/ steps = m_TraceOffset
      BY <2>5, <3>1
    <3>4. \A m \in 0..(steps - 1) : w[m][2] # first
      BY <2>5, <3>1
    <3>5. ~(N - 1 < steps)
      <4> SUFFICES ASSUME N - 1 < steps PROVE FALSE
        OBVIOUS
      <4>1. N - 1 \in 0..(steps - 1)
        BY <2>1, <3>2
      <4> QED BY <3>4, <2>7, <4>1
    <3>6. ~(steps < N - 1)
      <4> SUFFICES ASSUME steps < N - 1 PROVE FALSE
        OBVIOUS
      <4>1. steps < N /\ N - steps \in 1..N /\ N - steps # 1 /\ steps # m_TraceOffset
        BY <3>2, <2>1, <2>3
      <4>2. w[steps][2] = e[N - steps]
        BY <2>2, <3>2, <4>1
      <4> QED BY <2>1, <3>3, <4>1, <4>2
    <3> QED BY <3>2, <3>5, <3>6, <2>1
  <2>9. ASSUME NEW n \in 1..N PROVE w[n - 1][2] = e[(N - n) + 1]
    <3>1. n - 1 \in Nat /\ n - 1 < N /\ N - (n - 1) = (N - n) + 1
      BY <2>1
    <3>2. w[n - 1][2] = e[N - (n - 1)]
      BY <2>2, <3>1
    <3> QED BY <3>1, <3>2
  <2>10. Reverse(e) = [n \in 1..N |-> e[(N - n) + 1]]
    BY DEF Reverse, N
  <2> QED BY <2>4, <2>8, <2>9, <2>10
<1> QED BY <1>2, <1>3

\* The part of the property that is about walking backward.
LEMMA BackwardRead ==
  ASSUME SoundFile
  PROVE  BackwardIsReverse
PROOF
<1> SUFFICES ASSUME Accepted(Blocks), WellDefined(Blocks), NEW t \in Threads
             PROVE  LET tbs    == BlocksThreadEvents(Blocks, t)
                        events == Forward(tbs)
                    IN  (\A o \in Range(events) : ~Cell(o).torn) => Backward(tbs) = Reverse(events)
  BY DEF BackwardIsReverse
<1> DEFINE tbs == BlocksThreadEvents(Blocks, t)
           events == Forward(tbs)
<1>1. Chain(Blocks, 1)
  BY BlocksAreChain DEF Accepted
<1>2. ThreadSequence(tbs, t)
  <2>1. WellStarted(Blocks)
    BY DEF WellDefined, WellStarted, IDSize
  <2> QED BY <1>1, <2>1, ThreadBlocks
<1> HIDE DEF tbs
<1>3. Enumerates(events, EventsOf(t))
  BY <1>2, ForwardEnumerates
<1> HIDE DEF events
<1>4. Range(events) = EventsOf(t)
  BY <1>3, EnumerationRange
<1>5. (\A o \in Range(events) : ~Cell(o).torn) => Backward(tbs) = Reverse(events)
  <2> SUFFICES ASSUME \A o \in Range(events) : ~Cell(o).torn
               PROVE  Backward(tbs) = Reverse(events)
    OBVIOUS
  <2>1. \A q \in EventsOf(t) : ~file[q].torn
    BY <1>4, TornCells
  <2>2. IntactThread(t, tbs, events)
    BY <1>2, <1>3, <2>1 DEF IntactThread
  <2> QED BY <2>2, BackwardReverses
<1> QED BY <1>5 DEF events, tbs

\* What the reader gives follows from the shape of the file.
LEMMA SoundRead == SoundFile => ReadIsExact
  BY AcceptedRead, BackwardRead DEF ReadIsExact

(***************************************************************************)
(* Whenever the writing is interrupted, and whatever calls of pwrite have   *)
(* failed by then: a file that the reader accepts gives every thread the    *)
(* events that were logged for it, each as it was last written, in their    *)
(* order, with nothing but torn records between them; walking backward by   *)
(* the recorded sizes gives the same events from the last one to the first. *)
(***************************************************************************)
THEOREM ReadersFindWhatWasWritten == Spec => []ReadIsExact
PROOF
<1>1. IndInv /\ ReadInv => ReadIsExact
  BY Parts, SoundRead DEF ReadInv, SoundFile
<1> QED BY <1>1, StorageInvariant, ReadInvariant, PTL

-----------------------------------------------------------------------------
\* A moment at which no block is being made.
Still == SoundFile /\ Known /\ Whole /\ ~(\E t \in Threads : MakingBlock(t))

\* Where a block begins, there is its header, and where it ends begins another one.
LEMMA NoGaps ==
  ASSUME Still, NEW o \in Beginnings
  PROVE  o = m_TraceOffset \/ (HeaderAt(o) /\ Cell(o + 1).end \in Beginnings)
PROOF
<1>1. Unnamed = {}
  BY DEF Still, Unnamed, MakingBlock
<1>2. SUFFICES ASSUME NEW p \in NextOffsets, o = p - 1
               PROVE  HeaderAt(o) /\ Cell(o + 1).end \in Beginnings
  BY <1>1 DEF Beginnings
<1>3. p \in DOMAIN file /\ file[p].kind = "next" /\ p \in Nat
  BY Numbers DEF Still, SoundFile
<1>4. o + 1 = p
  BY <1>2, <1>3
<1>5. o \in DOMAIN file /\ file[o].kind = "type"
  BY <1>2 DEF Still, Whole, TypedInv
<1>6. Cell(o) = file[o] /\ Cell(o + 1) = file[p]
  BY <1>3, <1>4, <1>5 DEF Cell
<1>7. file[p].end \in Beginnings
  BY DEF Still, Whole, CoverInv, Ends
<1> QED BY <1>3, <1>5, <1>6, <1>7 DEF HeaderAt

\* The reader finds blocks, and no malformed one.
LEMMA StillBlocks ==
  ASSUME Still
  PROVE  Blocks # Malformed /\ Chain(Blocks, 1)
PROOF
<1>0. m_TraceOffset \in Nat /\ m_TraceOffset >= 1 /\ SoundFile
  BY Numbers DEF Still, SoundFile
<1> DEFINE f == CHOOSE g : IsBlocks(g, Offsets)
           T == {o \in Offsets : o \in Beginnings => f[o] \in Seq(BlockSet)}
<1>1. IsBlocks(f, Offsets) /\ Blocks = f[1]
  BY <1>0, BlocksExist, BlocksIsChosen
<1> HIDE DEF f
<1>2. Malformed \notin Seq(BlockSet)
  <2>1. \A b \in BlockSet : b.type # "malformed"
    BY DEF BlockSet, BlockTypes
  <2>2. Malformed[1].type = "malformed" /\ Len(Malformed) = 1
    BY DEF Malformed
  <2>3. Malformed \in Seq(BlockSet) => Malformed[1] \in BlockSet
    <3>1. 1 \in 1..Len(Malformed)
      BY <2>2
    <3> QED BY <3>1, ElementOfSeq
  <2> QED BY <2>1, <2>2, <2>3
<1>3. ASSUME NEW o \in Offsets, \A k \in Offsets : o < k => k \in T
      PROVE  o \in T
  <2> SUFFICES ASSUME o \in Beginnings PROVE f[o] \in Seq(BlockSet)
    OBVIOUS
  <2>1. f[o] = BlocksAt(f, o) /\ o \in Nat
    BY <1>0, <1>1 DEF IsBlocks, Offsets
  <2>2. CASE ~MoreBlocks(o)
    <3>1. f[o] = <<>>
      BY <2>1, <2>2 DEF BlocksAt
    <3> QED BY <3>1
  <2>3. CASE MoreBlocks(o)
    <3>1. o # m_TraceOffset
      <4>1. BufferEnd \in Nat /\ BufferEnd <= m_TraceOffset
        BY <1>0, LastCell
      <4>2. o < BufferEnd - 2
        BY <2>3 DEF MoreBlocks, HeaderSize
      <4> QED BY <4>1, <4>2, <2>1, <1>0
    <3>2. HeaderAt(o) /\ Cell(o + 1).end \in Beginnings
      BY <3>1, NoGaps
    <3> DEFINE e == Cell(o + 1).end
    <3>3. IsBlock(BlockAt(o)) /\ o + 1 < e /\ e \in Offsets
      BY <1>0, <2>1, <3>2, BlockIs
    <3>4. o < e
      <4>1. e \in Nat
        BY <3>3, <1>0 DEF Offsets
      <4> HIDE DEF e
      <4> QED BY <3>3, <4>1, <2>1
    <3>5. f[e] \in Seq(BlockSet)
      BY <3>2, <3>3, <3>4, <1>3
    <3>6. BlockAt(o) \in BlockSet
      BY <3>3 DEF IsBlock
    <3>7. f[o] = IF f[e] = Malformed THEN Malformed ELSE <<BlockAt(o)>> \o f[e]
      BY <2>1, <2>3, <3>2 DEF BlocksAt
    <3> HIDE DEF e
    <3>8. <<BlockAt(o)>> \in Seq(BlockSet)
      BY <3>6
    <3>9. <<BlockAt(o)>> \o f[e] \in Seq(BlockSet)
      BY <3>5, <3>8
    <3> QED BY <3>5, <3>7, <3>9, <1>2
  <2> QED BY <2>2, <2>3
<1>4. \A o \in 0..m_TraceOffset : o \in T
  <2> HIDE DEF T
  <2> QED BY <1>0, <1>3, DownInduction DEF Offsets
<1>5. 1 \in Beginnings
  BY DEF Still, Whole, CoverInv, Ends
<1>6. Blocks \in Seq(BlockSet)
  BY <1>0, <1>1, <1>4, <1>5
<1>7. Blocks # Malformed
  BY <1>2, <1>6
<1> QED BY <1>0, <1>7, BlocksAreChain

\* A block that has a cell behind its header is found.
LEMMA ChainHas ==
  ASSUME SoundFile, ApartInv, NEW bs, Chain(bs, 1), NEW p \in NextOffsets, p + 1 \in DOMAIN file
  PROVE  \E i \in 1..Len(bs) : bs[i].start = p + 1
PROOF
<1> DEFINE edge(i) == IF i = 0 THEN 1 ELSE bs[i].end
           T == {i \in Nat : i <= Len(bs) =>
                   (\E j \in 1..i : bs[j].start = p + 1) \/ edge(i) + 1 <= p}
<1>0. p \in Nat /\ p >= 2 /\ file[p].end \in Nat /\ p < file[p].end
  BY Numbers DEF SoundFile, NextInv
<1>1. bs \in Seq(BlockSet) /\ Len(bs) \in Nat
      /\ \A i \in 1..Len(bs) : bs[i].start \in Nat /\ bs[i].end \in Nat
  <2>1. bs \in Seq(BlockSet) /\ Len(bs) \in Nat
    BY DEF Chain
  <2>2. \A b \in BlockSet : b.start \in Nat /\ b.end \in Nat
    BY DEF BlockSet
  <2>3. \A i \in 1..Len(bs) : bs[i] \in BlockSet
    BY <2>1
  <2> QED BY <2>1, <2>2, <2>3
<1>2. 0 \in T
  BY <1>0
<1>3. ASSUME NEW i \in T PROVE i + 1 \in T
  <2>1. i \in Nat
    OBVIOUS
  <2> SUFFICES ASSUME i + 1 <= Len(bs), ~(\E j \in 1..(i + 1) : bs[j].start = p + 1)
               PROVE  edge(i + 1) + 1 <= p
    BY <2>1
  <2>2. edge(i) + 1 <= p
    BY <2>1, <1>1
  <2>3. i + 1 \in 1..Len(bs) /\ i + 1 # 0 /\ i + 1 \in 1..(i + 1)
    BY <2>1, <1>1
  <2>4. bs[i + 1].start = edge(i) + 2
    <3>1. i + 1 = 1 <=> i = 0
      BY <2>1
    <3>2. (i + 1) - 1 = i
      BY <2>1
    <3> QED BY <2>3, <3>1, <3>2 DEF Chain
  <2>5. edge(i) \in Nat
    BY <2>1, <1>1
  <2> PICK b : b = bs[i + 1]
    OBVIOUS
  <2>6. IsBlock(b) /\ b.start \in Nat /\ b.end \in Nat /\ b.start # p + 1 /\ b.start = edge(i) + 2
    BY <2>3, <2>4, <1>1 DEF Chain
  <2>7. edge(i + 1) = b.end
    BY <2>1, <2>3
  <2> HIDE DEF edge, T
  <2> PICK q \in NextOffsets : q = b.start - 1 /\ file[q].end = b.end
    BY <2>6 DEF IsBlock
  <2>8. q < p /\ q \in Nat
    BY <2>2, <2>5, <2>6, <1>0
  <2>9. file[q].end # file[p].end
    BY <2>8, <1>0 DEF ApartInv
  <2>10. file[q].end <= p - 1 \/ file[p].end <= file[q].end
    BY DEF SoundFile, NextInv, Outside
  <2>11. file[p].end <= q - 1 \/ file[q].end <= file[p].end
    BY DEF SoundFile, NextInv, Outside
  <2>12. b.end <= p - 1
    BY <2>6, <2>8, <2>9, <2>10, <2>11, <1>0
  <2> QED BY <2>6, <2>7, <2>12, <1>0
<1> HIDE DEF T
<1>4. T \subseteq Nat
  BY DEF T
<1>5. Len(bs) \in T
  BY <1>1, <1>2, <1>3, <1>4, SetInduction
<1>6. ~(edge(Len(bs)) + 1 <= p)
  <2> SUFFICES ASSUME edge(Len(bs)) + 1 <= p PROVE FALSE
    OBVIOUS
  <2>1. ~MoreBlocks(edge(Len(bs)))
    BY DEF Chain
  <2>2. edge(Len(bs)) \in Nat
    BY <1>1
  <2> HIDE DEF edge
  <2>3. BufferEnd \in Nat /\ p + 1 < BufferEnd
    BY LastCell
  <2>4. ~(edge(Len(bs)) < BufferEnd - 2)
    BY <2>1 DEF MoreBlocks, HeaderSize
  <2> QED BY <2>2, <2>3, <2>4, <1>0
<1> QED BY <1>1, <1>5, <1>6 DEF T

\* The reader finds the one block of a type.
LEMMA OneOfType ==
  ASSUME SoundFile, Whole, NEW bs, Chain(bs, 1), NEW type, NEW during, Single(type, during), Over(type)
  PROVE  Cardinality(OfType(bs, type)) = 1
PROOF
<1>1. PICK p \in Named(type) : p + 1 \in DOMAIN file
  BY DEF Single
<1>2. p \in NextOffsets /\ file[p - 1].type = type /\ p \in Nat /\ ApartInv
  BY Numbers DEF Named, SoundFile, Whole
<1>3. PICK i \in 1..Len(bs) : bs[i].start = p + 1
  BY <1>1, <1>2, ChainHas
<1>4. /\ bs \in Seq(BlockSet) /\ Len(bs) \in Nat /\ DOMAIN bs = 1..Len(bs)
      /\ \A x, y \in 1..Len(bs) : x < y => bs[x].end < bs[y].start
  BY ChainOrder
<1>5. ASSUME NEW j \in 1..Len(bs)
      PROVE  /\ bs[j].start \in Nat /\ bs[j].end \in Nat /\ bs[j].start <= bs[j].end
             /\ bs[j].start - 1 \in NextOffsets /\ bs[j].type = file[(bs[j].start - 1) - 1].type
  <2> PICK b : b = bs[j]
    OBVIOUS
  <2>1. IsBlock(b)
    BY DEF Chain
  <2>2. /\ b.start \in Nat /\ b.end \in Nat /\ b.start - 1 \in NextOffsets /\ file[b.start - 1].end = b.end
        /\ file[b.start - 2].type = b.type
    BY <2>1 DEF IsBlock, BlockSet
  <2>3. b.start - 1 < b.end /\ (b.start - 1) - 1 = b.start - 2
    BY <2>2 DEF SoundFile, NextInv
  <2> QED BY <2>2, <2>3
<1>6. bs[i].type = type
  <2>1. bs[i].start - 1 = p
    BY <1>2, <1>3
  <2> QED BY <2>1, <1>2, <1>5
<1>7. ASSUME NEW j \in 1..Len(bs), bs[j].type = type PROVE j = i
  <2>1. bs[j].start - 1 \in Named(type)
    BY <1>5, <1>7 DEF Named
  <2>2. bs[j].start - 1 = p
    BY <2>1 DEF Single
  <2>3. bs[j].start = bs[i].start
    BY <2>2, <1>2, <1>3, <1>5
  <2>4. PICK x \in Nat, y \in Nat, z \in Nat : x = bs[j].start /\ y = bs[j].end /\ z = bs[i].end
    BY <1>5
  <2>5. x <= y /\ x <= z /\ ~(y < x) /\ ~(z < x)
    BY <2>3, <2>4, <1>5
  <2>6. ~(j < i) /\ ~(i < j)
    BY <2>3, <2>4, <2>5, <1>4
  <2> QED BY <2>6, <1>4
<1>8. OfType(bs, type) = {i}
  BY <1>4, <1>6, <1>7 DEF OfType
<1> QED BY <1>8, FS_Singleton

\* Every block of events has its ID and an event.
LEMMA StillStarted ==
  ASSUME Still, NEW bs, Chain(bs, 1)
  PROVE  WellStarted(bs)
PROOF
<1> SUFFICES ASSUME NEW i \in 1..Len(bs), bs[i].type = "ThreadEvents"
             PROVE  Cell(bs[i].start).kind = "id" /\ Cell(bs[i].start + 1).kind = "event"
  <2>1. DOMAIN bs = 1..Len(bs)
    BY DEF Chain
  <2> QED BY <2>1 DEF WellStarted
<1> PICK b : b = bs[i]
  OBVIOUS
<1>1. IsBlock(b)
  BY DEF Chain
<1> PICK p \in NextOffsets : p = b.start - 1
  BY <1>1 DEF IsBlock
<1>2. p + 1 = b.start /\ p + 2 = b.start + 1 /\ p - 1 = b.start - 2
  BY <1>1 DEF IsBlock, BlockSet
<1>3. file[p - 1].type = "ThreadEvents"
  BY <1>1, <1>2 DEF IsBlock
<1>4. Begun(p) \/ \E t \in Threads : Begins(t, p)
  BY <1>3 DEF Still, Whole, BegunInv
<1>5. ASSUME NEW t \in Threads, Begins(t, p) PROVE MakingBlock(t)
  <2>1. CASE writer[t].pc = "id"
    BY <2>1 DEF MakingBlock
  <2>2. CASE writer[t].pc # "id"
    <3>1. /\ WritesTo(t, t) /\ writer[t].pc = "item" /\ m_Block[t].next = p + 2
          /\ p + 1 \in DOMAIN file /\ file[p + 1].kind = "id"
      BY <1>5, <2>2 DEF Begins
    <3>2. t > 0 /\ t \in Streams
      BY StreamsFacts
    <3>3. writer[t].type = "ThreadEvents"
      BY <3>1, <3>2, OpenWhenWriting DEF Still, EventHand
    <3>4. m_Block[t].next - 1 = p + 1
      BY <3>1, Numbers DEF Still, Known
    <3>5. Cell(m_Block[t].next - 1).kind = "id"
      BY <3>1, <3>4 DEF Cell
    <3> QED BY <3>1, <3>3, <3>5 DEF MakingBlock
  <2> QED BY <2>1, <2>2
<1>6. Begun(p)
  BY <1>4, <1>5 DEF Still
<1> QED BY <1>2, <1>6 DEF Begun, Cell, EventOffsets

\* A thread has blocks in the file if it has events.
LEMMA HasBlocks ==
  ASSUME SoundFile, NEW bs, Chain(bs, 1), WellStarted(bs), NEW t \in Threads
  PROVE  BlocksThreadEvents(bs, t) # <<>> <=> EventsOf(t) # {}
PROOF
<1> DEFINE tbs == BlocksThreadEvents(bs, t)
<1>1. ThreadSequence(tbs, t)
  BY ThreadBlocks
<1> HIDE DEF tbs
<1>2. tbs \in Seq(BlockSet) /\ Len(tbs) \in Nat /\ (tbs # <<>> <=> Len(tbs) >= 1)
  BY <1>1 DEF ThreadSequence
<1>3. ASSUME Len(tbs) >= 1 PROVE EventsOf(t) # {}
  <2>1. 1 \in 1..Len(tbs)
    BY <1>2, <1>3
  <2>2. Starts(tbs[1]) /\ EventsInBlock(tbs[1]) \subseteq EventsOf(t)
    BY <1>1, <2>1 DEF ThreadSequence
  <2>3. tbs[1].start + 1 \in EventsInBlock(tbs[1])
    BY <2>2, FirstEvent
  <2> QED BY <2>2, <2>3
<1>4. ASSUME NEW q \in EventsOf(t) PROVE Len(tbs) >= 1
  <2>1. PICK i \in 1..Len(tbs) : q \in EventsInBlock(tbs[i])
    BY <1>1 DEF ThreadSequence
  <2> QED BY <2>1, <1>2
<1> QED BY <1>2, <1>3, <1>4 DEF tbs

\* No thread below the greatest one that the reader finds is without blocks.
LEMMA StillThreads ==
  ASSUME Still, EldersHaveWritten, NEW bs, Chain(bs, 1), NEW t \in 1..NumberOfThreads(bs)
  PROVE  BlocksThreadEvents(bs, t) # <<>>
PROOF
<1>0. SoundFile /\ WellStarted(bs)
  BY StillStarted DEF Still
<1> DEFINE ids == {u \in Threads : BlocksThreadEvents(bs, u) # <<>>}
<1>1. NumThreads \in Nat /\ Threads = 1..NumThreads
  BY ConstantsAssumption DEF Threads
<1>2. NumberOfThreads(bs) = IF ids = {} THEN 0 ELSE Max(ids)
  BY DEF NumberOfThreads
<1>3. ids \in SUBSET Nat /\ \A u \in ids : u <= NumThreads
  BY <1>1
<1>4. ids # {}
  <2> SUFFICES ASSUME ids = {} PROVE FALSE
    OBVIOUS
  <2>1. NumberOfThreads(bs) = 0
    BY <1>2
  <2> QED BY <2>1
<1> HIDE DEF ids
<1>5. Max(ids) \in ids /\ Max(ids) \in Nat
  BY <1>1, <1>3, <1>4, GreatestNumber
<1> PICK m \in ids : m = Max(ids) /\ m \in Nat
  BY <1>5
<1>6. m \in Threads /\ BlocksThreadEvents(bs, m) # <<>>
  BY DEF ids
<1>7. t \in 1..m
  BY <1>2, <1>4
<1>8. PICK q \in EventsOf(m) : TRUE
  BY <1>0, <1>6, HasBlocks
<1>9. log[m] # <<>>
  <2>1. q \in EventOffsets /\ file[q].by = m /\ ~file[q].torn
    BY DEF EventsOf, Still, Whole, UntornInv
  <2>2. \E i \in DOMAIN log[m] : log[m][i].offset = q
    BY <1>6, <2>1 DEF Still, SoundFile, LogOrder
  <2> QED BY <2>2
<1>10. CASE t = m
  BY <1>6, <1>10
<1>11. CASE t # m
  <2>1. t \in 1..(m - 1) /\ t \in Threads
    BY <1>1, <1>6, <1>7, <1>11
  <2>2. log[t] # <<>>
    BY <1>6, <1>9, <2>1 DEF EldersHaveWritten
  <2>3. /\ log[t] \in Seq([offset : Nat, event : EventCell]) /\ Len(log[t]) \in Nat
        /\ \A i \in 1..Len(log[t]) : log[t][i].offset \in EventsOf(t)
    BY <1>0, <2>1, LogEnumerates
  <2>4. 1 \in 1..Len(log[t])
    BY <2>2, <2>3
  <2>5. EventsOf(t) # {}
    BY <2>3, <2>4
  <2> QED BY <1>0, <2>1, <2>5, HasBlocks
<1> QED BY <1>10, <1>11

\* A file whose blocks are whole can be read.
LEMMA StillReadable ==
  ASSUME Still, EldersHaveWritten, phase = "running"
  PROVE  Accepted(Blocks) /\ WellDefined(Blocks)
PROOF
<1>1. Blocks # Malformed /\ Chain(Blocks, 1)
  BY StillBlocks
<1>2. SoundFile /\ Whole /\ Over("ModuleBitcode") /\ Over("ProcessTrace")
  BY DEF Still, Over
<1>3. Single("ModuleBitcode", "module") /\ Single("ProcessTrace", "process")
  BY <1>2 DEF Whole, SingleInv
<1>4. Accepted(Blocks)
  BY <1>1, <1>2, <1>3, OneOfType DEF Accepted
<1>5. WellStarted(Blocks)
  BY <1>1, StillStarted
<1>6. \A t \in 1..NumberOfThreads(Blocks) : BlocksThreadEvents(Blocks, t) # <<>>
  BY <1>1, StillThreads
<1> QED BY <1>4, <1>5, <1>6 DEF WellDefined, WellStarted, IDSize

(***************************************************************************)
(* However many threads write at the same time: once the set-up is over and *)
(* as long as no pwrite has failed, the file can be read at every moment at *)
(* which no thread is making a block, unless a thread has written before an *)
(* older one.  The blocks that OutputStreamAllocator hands out leave no gap *)
(* that the offsets of the next blocks would lead into, every block has its *)
(* header, every block of events an ID and an event, and there is one       *)
(* module and one process trace.                                            *)
(***************************************************************************)
THEOREM BlocksLeaveNoGap == Spec => []ReadableBetweenBlocks
PROOF
<1>1. IndInv /\ ReadInv /\ WholeInv => ReadableBetweenBlocks
  <2> SUFFICES ASSUME IndInv, ReadInv, WholeInv, phase = "running", failures = 0, EldersHaveWritten,
                      ~(\E t \in Threads : MakingBlock(t))
               PROVE  Accepted(Blocks) /\ WellDefined(Blocks)
    BY DEF ReadableBetweenBlocks
  <2>1. Still
    BY Parts DEF Still, Known, SoundFile, ReadInv, WholeInv
  <2> QED BY <2>1, StillReadable
<1> QED BY <1>1, StorageInvariant, ReadInvariant, WholeInvariant, PTL

=============================================================================
