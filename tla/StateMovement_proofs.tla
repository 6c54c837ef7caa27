------------------------ MODULE StateMovement_proofs ------------------------
(***************************************************************************)
(* Proofs about StateMovement, for any number of workers and any recording. *)
(***************************************************************************)
EXTENDS StateMovement, TLAPS

Base == TypeOK /\ LockInv /\ BlockInv

-----------------------------------------------------------------------------
LEMMA TraceType ==
  ASSUME TypeOK, NEW w \in Workers
  PROVE  /\ trace[w] \in Seq(Event)
         /\ Len(trace[w]) \in Nat
         /\ \A i \in 1..Len(trace[w]) :
              /\ trace[w][i] \in Event
              /\ trace[w][i].time \in Nat
              /\ trace[w][i].type = "State" => trace[w][i].time - 1 \in Nat
<1>1. trace[w] \in Seq(Event)
  BY RecordingsAssumption DEF TypeOK
<1>2. \A i \in 1..Len(trace[w]) : trace[w][i] \in Event
  BY <1>1
<1>3. \A i \in 1..Len(trace[w]) :
        trace[w][i].type = "State" => trace[w][i].time >= 1
  BY RecordingsAssumption DEF TypeOK, hasProcessTime
<1> QED
  BY <1>1, <1>2, <1>3 DEF Event

\* The positions of a worker are numbers within its recording.
LEMMA Bounds ==
  ASSUME TypeOK, NEW w \in Workers
  PROVE  /\ next[w] \in Nat /\ rewind[w] \in Nat /\ Len(trace[w]) \in Nat
         /\ next[w] <= Len(trace[w])
BY TraceType DEF TypeOK

LEMMA ViewType ==
  ASSUME TypeOK, NEW w \in Workers, NEW n \in Nat, n <= Len(trace[w])
  PROVE  ViewAfter(trace[w], n) \in Nat
<1> DEFINE P(i) == IsLastTimed(trace[w], n, i)
<1> DEFINE c == CHOOSE i \in 1..n : P(i)
<1>1. CASE \E i \in 1..n : P(i)
  <2>1. c \in 1..n
    BY <1>1
  <2>2. c \in 1..Len(trace[w])
    BY <2>1, TraceType
  <2>3. trace[w][c].time \in Nat
    BY <2>2, TraceType
  <2> QED
    BY <1>1, <2>3 DEF ViewAfter
<1>2. CASE ~\E i \in 1..n : P(i)
  BY <1>2 DEF ViewAfter
<1> QED
  BY <1>1, <1>2

\* Adding and removing an event keeps the types of the process state.
LEMMA AddType ==
  ASSUME TypeOK, NEW w \in Workers, next[w] < Len(trace[w]), addNextEvent(w)
  PROVE  /\ next' = [next EXCEPT ![w] = next[w] + 1]
         /\ next' \in [Workers -> Nat] /\ ptime' \in Nat /\ view' \in [Workers -> Nat]
<1>1. next[w] + 1 \in 1..Len(trace[w])
  BY TraceType DEF TypeOK
<1>2. trace[w][next[w] + 1].time \in Nat
  BY <1>1, TraceType
<1> QED
  BY <1>2 DEF TypeOK, addNextEvent

LEMMA RemoveType ==
  ASSUME TypeOK, NEW w \in Workers, 1 <= next[w], removePreviousEvent(w)
  PROVE  /\ next' = [next EXCEPT ![w] = next[w] - 1]
         /\ next' \in [Workers -> Nat] /\ ptime' \in Nat /\ view' \in [Workers -> Nat]
<1>1. next[w] \in 1..Len(trace[w])
  BY TraceType DEF TypeOK
<1>2. trace[w][next[w]].type = "State" => trace[w][next[w]].time - 1 \in Nat
  BY <1>1, TraceType
<1>3. next[w] - 1 \in Nat /\ next[w] - 1 <= Len(trace[w])
  BY <1>1, TraceType
<1>4. ViewAfter(trace[w], next[w] - 1) \in Nat
  BY <1>3, ViewType
<1> QED
  BY <1>2, <1>3, <1>4 DEF TypeOK, removePreviousEvent

-----------------------------------------------------------------------------
LEMMA BaseInit == Init => Base
<1> SUFFICES ASSUME Init PROVE Base
  OBVIOUS
<1>1. \A w \in Workers : Len(trace[w]) \in Nat
  BY RecordingsAssumption DEF Init
<1>2. TypeOK
  <2>1. req \in Request
    BY DEF Init, Request, Direction
  <2>2. begin \in [next : [Workers -> Nat], ptime : Nat]
    BY DEF Init
  <2>3. complete \in BOOLEAN /\ moved \in BOOLEAN /\ satisfied \in BOOLEAN
    BY Zenon DEF Init
  <2> QED
    BY <1>1, <2>1, <2>2, <2>3 DEF Init, TypeOK, PC, Result
<1>3. LockInv
  BY WorkersAssumption DEF Init, LockInv
<1>4. BlockInv
  BY DEF Init, BlockInv, InBlock
<1> QED
  BY <1>2, <1>3, <1>4 DEF Base

\* The steps that leave the positions, the request and the recording alone.
LEMMA ControlType ==
  ASSUME TypeOK, UNCHANGED <<trace, next, ptime, view, req, begin>>,
         pc' \in [Workers -> PC], rewind' \in [Workers -> Nat],
         owner' \in Workers \cup {NoWorker},
         complete' \in BOOLEAN, moved' \in BOOLEAN, satisfied' \in BOOLEAN,
         result' \in Result
  PROVE  TypeOK'
BY DEF TypeOK

\* The steps that keep the positions and bring no worker into a block.
LEMMA BlockKept ==
  ASSUME BlockInv, UNCHANGED <<trace, next, req, rewind>>,
         \A v \in Workers : InBlock(v)' => InBlock(v)
  PROVE  BlockInv'
BY DEF BlockInv, Forward

LEMMA BaseNext == Base /\ [Next]_vars => Base'
<1> SUFFICES ASSUME Base, [Next]_vars PROVE Base'
  OBVIOUS
<1> USE DEF Base
<1> USE DEF Goto, Release
<1>1. ASSUME NEW w \in Workers, LoopTest(w) PROVE Base'
  <2>1. TypeOK'
    BY <1>1, ControlType DEF LoopTest, TypeOK, PC, procState, movement
  <2>2. LockInv'
    BY <1>1 DEF LoopTest, LockInv, TypeOK
  <2>3. BlockInv'
    <3> USE DEF LoopTest, BlockInv, InBlock, TypeOK, procState, movement
    <3> SUFFICES ASSUME NEW v \in Workers, InBlock(v)'
                 PROVE  IF Forward'
                        THEN /\ rewind'[v] <= next'[v] /\ next'[v] < Len(trace'[v])
                             /\ \A k \in (rewind'[v] + 2)..(next'[v] + 1) :
                                  ~isBlockStart(trace'[v][k])
                        ELSE /\ 1 <= next'[v] /\ next'[v] <= rewind'[v]
                             /\ rewind'[v] <= Len(trace'[v])
                             /\ \A k \in (next'[v] + 1)..rewind'[v] :
                                  ~isBlockStart(trace'[v][k])
      OBVIOUS
    <3>1. CASE v = w
      <4>1. /\ ~AtLimit(w)
            /\ rewind'[w] = next[w] /\ UNCHANGED <<next, trace, req>>
        BY <1>1, <3>1 DEF AtLimit
      <4>2. next[w] # IF Forward THEN Len(trace[w]) ELSE 0
        BY <4>1 DEF AtLimit
      <4>3. Forward' = Forward
        BY <4>1 DEF Forward
      <4> QED
        BY <3>1, <4>1, <4>2, <4>3, Bounds
    <3>2. CASE v # w
      BY <1>1, <3>2 DEF Forward
    <3> QED
      BY <3>1, <3>2
  <2> QED
    BY <2>1, <2>2, <2>3
<1>2. ASSUME NEW w \in Workers, HandleEvent(w) PROVE Base'
  <2> USE <1>2
  <2>0. pc[w] = "event" /\ InBlock(w)
    BY DEF HandleEvent, InBlock
  <2>1. next' = [next EXCEPT ![w] = IF Forward THEN next[w] + 1 ELSE next[w] - 1]
        /\ next' \in [Workers -> Nat] /\ ptime' \in Nat /\ view' \in [Workers -> Nat]
        /\ next'[w] <= Len(trace[w])
    <3>1. CASE Forward
      <4>1. next[w] < Len(trace[w]) /\ addNextEvent(w)
        BY <2>0, <3>1 DEF HandleEvent, MoveEvent, BlockInv
      <4> QED
        BY <3>1, <4>1, AddType, Bounds
    <3>2. CASE ~Forward
      <4>1. 1 <= next[w] /\ removePreviousEvent(w)
        BY <2>0, <3>2 DEF HandleEvent, MoveEvent, BlockInv
      <4> QED
        BY <3>2, <4>1, RemoveType, Bounds
    <3> QED
      BY <3>1, <3>2
  <2>2. TypeOK'
    <3>1. moved' \in BOOLEAN
      BY Zenon DEF HandleEvent, EndsBlock
    <3>2. pc' \in [Workers -> PC]
      BY DEF HandleEvent, TypeOK, PC
    <3>3. \A v \in Workers : next'[v] <= Len(trace'[v])
      BY <2>1 DEF HandleEvent, TypeOK
    <3> QED
      BY <2>1, <3>1, <3>2, <3>3 DEF HandleEvent, TypeOK
  <2>3. LockInv'
    BY <2>0 DEF HandleEvent, LockInv, TypeOK
  <2>4. BlockInv'
    <3> SUFFICES ASSUME NEW v \in Workers, InBlock(v)'
                 PROVE  IF Forward
                        THEN /\ rewind[v] <= next'[v] /\ next'[v] < Len(trace[v])
                             /\ \A k \in (rewind[v] + 2)..(next'[v] + 1) :
                                  ~isBlockStart(trace[v][k])
                        ELSE /\ 1 <= next'[v] /\ next'[v] <= rewind[v]
                             /\ rewind[v] <= Len(trace[v])
                             /\ \A k \in (next'[v] + 1)..rewind[v] :
                                  ~isBlockStart(trace[v][k])
      BY DEF HandleEvent, BlockInv, Forward
    <3>1. CASE v # w
      BY <3>1, <2>1 DEF HandleEvent, BlockInv, InBlock, TypeOK
    <3>2. CASE v = w /\ Forward
      <4>1. ~EndsBlock(w)
        BY <3>2 DEF HandleEvent, InBlock, TypeOK
      <4> QED
        <5>1. next'[w] = next[w] + 1
          BY <3>2, <2>1 DEF TypeOK
        <5>2. next[w] + 1 # Len(trace[w]) /\ ~isBlockStart(trace[w][next[w] + 2])
          BY <4>1, <3>2 DEF EndsBlock
        <5>3. /\ rewind[w] <= next[w] /\ next[w] < Len(trace[w])
              /\ \A k \in (rewind[w] + 2)..(next[w] + 1) : ~isBlockStart(trace[w][k])
          BY <3>2, <2>0 DEF BlockInv
        <5>4. ASSUME NEW k \in (rewind[w] + 2)..(next[w] + 2)
              PROVE  ~isBlockStart(trace[w][k])
          <6>1. k = next[w] + 2 \/ k \in (rewind[w] + 2)..(next[w] + 1)
            BY Bounds
          <6> QED
            BY <6>1, <5>2, <5>3
        <5> QED
          BY <3>2, <5>1, <5>2, <5>3, <5>4, Bounds
    <3>3. CASE v = w /\ ~Forward
      <4>1. ~EndsBlock(w)
        BY <3>3 DEF HandleEvent, InBlock, TypeOK
      <4> QED
        <5>1. next'[w] = next[w] - 1
          BY <3>3, <2>1 DEF TypeOK
        <5>2. next[w] # 1 /\ ~isBlockStart(trace[w][next[w]])
          BY <4>1, <3>3 DEF EndsBlock
        <5>3. /\ 1 <= next[w] /\ next[w] <= rewind[w] /\ rewind[w] <= Len(trace[w])
              /\ \A k \in (next[w] + 1)..rewind[w] : ~isBlockStart(trace[w][k])
          BY <3>3, <2>0 DEF BlockInv
        <5>4. ASSUME NEW k \in next[w]..rewind[w]
              PROVE  ~isBlockStart(trace[w][k])
          <6>1. k = next[w] \/ k \in (next[w] + 1)..rewind[w]
            BY Bounds
          <6> QED
            BY <6>1, <5>2, <5>3
        <5>5. (next'[w] + 1)..rewind[w] = next[w]..rewind[w]
          BY <5>1, Bounds
        <5> QED
          BY <3>3, <5>1, <5>2, <5>3, <5>4, <5>5, Bounds
    <3> QED
      BY <3>1, <3>2, <3>3
  <2> QED
    BY <2>2, <2>3, <2>4
<1>3. ASSUME NEW w \in Workers, Lock(w) PROVE Base'
  <2>1. TypeOK'
    BY <1>3, ControlType DEF Lock, TypeOK, PC, procState, movement
  <2>2. LockInv'
    BY <1>3, WorkersAssumption DEF Lock, LockInv, TypeOK
  <2>3. BlockInv'
    BY <1>3, BlockKept DEF Lock, InBlock, TypeOK, procState, movement
  <2> QED
    BY <2>1, <2>2, <2>3
<1>4. ASSUME NEW w \in Workers, TestWait(w) PROVE Base'
  <2>1. TypeOK'
    BY <1>4, ControlType DEF TestWait, TypeOK, PC, procState, movement
  <2>2. LockInv'
    BY <1>4 DEF TestWait, LockInv, TypeOK
  <2>3. BlockInv'
    BY <1>4, BlockKept DEF TestWait, InBlock, TypeOK, procState, movement
  <2> QED
    BY <2>1, <2>2, <2>3
<1>5. ASSUME NEW w \in Workers, Block(w) PROVE Base'
  <2>1. TypeOK'
    BY <1>5, ControlType DEF Block, TypeOK, PC, procState, movement
  <2>2. LockInv'
    BY <1>5, WorkersAssumption DEF Block, LockInv, TypeOK
  <2>3. BlockInv'
    BY <1>5, BlockKept DEF Block, InBlock, TypeOK, procState, movement
  <2> QED
    BY <2>1, <2>2, <2>3
<1>6. ASSUME NEW w \in Workers, WakeSpuriously(w) PROVE Base'
  <2>1. TypeOK'
    BY <1>6, ControlType DEF WakeSpuriously, TypeOK, PC, procState, movement
  <2>2. LockInv'
    BY <1>6 DEF WakeSpuriously, LockInv, TypeOK
  <2>3. BlockInv'
    BY <1>6, BlockKept DEF WakeSpuriously, InBlock, TypeOK, procState, movement
  <2> QED
    BY <2>1, <2>2, <2>3
<1>7. ASSUME NEW w \in Workers, WaitReturns(w) PROVE Base'
  <2>1. TypeOK'
    BY <1>7, ControlType DEF WaitReturns, TypeOK, PC, procState, movement
  <2>2. LockInv'
    BY <1>7, WorkersAssumption DEF WaitReturns, LockInv, TypeOK
  <2>3. BlockInv'
    BY <1>7, BlockKept DEF WaitReturns, InBlock, TypeOK, procState, movement
  <2> QED
    BY <2>1, <2>2, <2>3
<1>8. ASSUME NEW w \in Workers, RewindBlock(w) PROVE Base'
  <2> USE <1>8
  <2>0. pc[w] = "rewinding" /\ InBlock(w)
    BY DEF RewindBlock, InBlock
  <2>1. CASE next[w] = rewind[w]
    <3>1. TypeOK'
      BY <2>1, ControlType DEF RewindBlock, TypeOK, PC, procState, movement
    <3>2. LockInv'
      BY <2>1 DEF RewindBlock, LockInv, TypeOK
    <3>3. BlockInv'
      BY <2>1, BlockKept DEF RewindBlock, InBlock, TypeOK, procState, movement
    <3> QED
      BY <3>1, <3>2, <3>3
  <2>2. CASE next[w] # rewind[w]
    <3>1. /\ next' = [next EXCEPT ![w] = IF Forward THEN next[w] - 1 ELSE next[w] + 1]
          /\ next' \in [Workers -> Nat] /\ ptime' \in Nat /\ view' \in [Workers -> Nat]
          /\ next'[w] <= Len(trace[w])
          /\ UNCHANGED <<trace, pc, rewind, owner, movement>>
      <4>1. CASE Forward
        <5>1. rewind[w] <= next[w] /\ removePreviousEvent(w)
          BY <2>0, <2>2, <4>1 DEF RewindBlock, UndoEvent, BlockInv
        <5>2. 1 <= next[w]
          BY <5>1, <2>2, Bounds
        <5>3. UNCHANGED <<trace, pc, rewind, owner, movement>>
          BY <2>2 DEF RewindBlock
        <5> QED
          BY <4>1, <5>1, <5>2, <5>3, RemoveType, Bounds
      <4>2. CASE ~Forward
        <5>1. next[w] <= rewind[w] /\ rewind[w] <= Len(trace[w]) /\ addNextEvent(w)
          BY <2>0, <2>2, <4>2 DEF RewindBlock, UndoEvent, BlockInv
        <5>2. next[w] < Len(trace[w])
          BY <5>1, <2>2, Bounds
        <5>3. UNCHANGED <<trace, pc, rewind, owner, movement>>
          BY <2>2 DEF RewindBlock
        <5> QED
          BY <4>2, <5>1, <5>2, <5>3, AddType, Bounds
      <4> QED
        BY <4>1, <4>2
    <3>2. TypeOK'
      BY <3>1 DEF TypeOK, movement
    <3>3. LockInv'
      BY <3>1 DEF LockInv
    <3>4. BlockInv'
      <4> SUFFICES ASSUME NEW v \in Workers, InBlock(v)
                   PROVE  IF Forward
                          THEN /\ rewind[v] <= next'[v] /\ next'[v] < Len(trace[v])
                               /\ \A k \in (rewind[v] + 2)..(next'[v] + 1) :
                                    ~isBlockStart(trace[v][k])
                          ELSE /\ 1 <= next'[v] /\ next'[v] <= rewind[v]
                               /\ rewind[v] <= Len(trace[v])
                               /\ \A k \in (next'[v] + 1)..rewind[v] :
                                    ~isBlockStart(trace[v][k])
        BY <3>1 DEF BlockInv, Forward, InBlock, movement
      <4>1. CASE v # w
        BY <4>1, <3>1 DEF BlockInv, TypeOK
      <4>2. CASE v = w
        <5>1. CASE Forward
          <6>1. next'[w] = next[w] - 1
            BY <5>1, <3>1 DEF TypeOK
          <6>2. /\ rewind[w] <= next[w] /\ next[w] < Len(trace[w])
                /\ \A k \in (rewind[w] + 2)..(next[w] + 1) : ~isBlockStart(trace[w][k])
            BY <5>1, <2>0 DEF BlockInv
          <6>3. \A k \in (rewind[w] + 2)..(next'[w] + 1) :
                  k \in (rewind[w] + 2)..(next[w] + 1)
            BY <6>1, Bounds
          <6> QED
            BY <4>2, <5>1, <2>2, <6>1, <6>2, <6>3, Bounds
        <5>2. CASE ~Forward
          <6>1. next'[w] = next[w] + 1
            BY <5>2, <3>1 DEF TypeOK
          <6>2. /\ 1 <= next[w] /\ next[w] <= rewind[w] /\ rewind[w] <= Len(trace[w])
                /\ \A k \in (next[w] + 1)..rewind[w] : ~isBlockStart(trace[w][k])
            BY <5>2, <2>0 DEF BlockInv
          <6>3. \A k \in (next'[w] + 1)..rewind[w] : k \in (next[w] + 1)..rewind[w]
            BY <6>1, Bounds
          <6> QED
            BY <4>2, <5>2, <2>2, <6>1, <6>2, <6>3, Bounds
        <5> QED
          BY <5>1, <5>2
      <4> QED
        BY <4>1, <4>2
    <3> QED
      BY <3>2, <3>3, <3>4
  <2> QED
    BY <2>1, <2>2
<1>9. ASSUME NEW w \in Workers, TestComplete(w) PROVE Base'
  <2>1. TypeOK'
    BY <1>9, ControlType DEF TestComplete, TypeOK, PC, procState, movement
  <2>2. LockInv'
    BY <1>9 DEF TestComplete, LockInv, TypeOK
  <2>3. BlockInv'
    BY <1>9, BlockKept DEF TestComplete, InBlock, TypeOK, procState, movement
  <2> QED
    BY <2>1, <2>2, <2>3
<1>10. ASSUME NEW w \in Workers, SatisfyPredicate(w) PROVE Base'
  <2>1. TypeOK'
    BY <1>10, ControlType DEF SatisfyPredicate, TypeOK, PC, procState, movement
  <2>2. LockInv'
    BY <1>10 DEF SatisfyPredicate, LockInv, TypeOK
  <2>3. BlockInv'
    BY <1>10, BlockKept DEF SatisfyPredicate, InBlock, TypeOK, procState, movement
  <2> QED
    BY <2>1, <2>2, <2>3
<1>11. ASSUME NEW w \in Workers, FailPredicate(w) PROVE Base'
  <2>1. TypeOK'
    BY <1>11, ControlType DEF FailPredicate, TypeOK, PC, procState, movement
  <2>2. LockInv'
    BY <1>11 DEF FailPredicate, LockInv, TypeOK
  <2>3. BlockInv'
    BY <1>11, BlockKept DEF FailPredicate, InBlock, TypeOK, procState, movement
  <2> QED
    BY <2>1, <2>2, <2>3
<1>12. ASSUME NEW w \in Workers, NotifyAll(w) PROVE Base'
  <2>0. /\ pc' \in [Workers -> PC]
        /\ pc[w] = "notify" /\ pc'[w] = "break"
        /\ \A v \in Workers : v # w /\ pc[v] # "waiting" => pc'[v] = pc[v]
        /\ \A v \in Workers : v # w /\ pc[v] = "waiting" => pc'[v] = "woken"
    BY <1>12 DEF NotifyAll, TypeOK, PC
  <2>1. TypeOK'
    BY <1>12, <2>0, ControlType DEF NotifyAll, TypeOK, procState, movement
  <2>2. LockInv'
    BY <1>12, <2>0 DEF NotifyAll, LockInv, TypeOK
  <2>3. BlockInv'
    BY <1>12, <2>0, BlockKept DEF NotifyAll, InBlock, TypeOK, procState, movement
  <2> QED
    BY <2>1, <2>2, <2>3
<1>13. ASSUME NEW w \in Workers, EndIteration(w) PROVE Base'
  <2>1. TypeOK'
    BY <1>13, ControlType DEF EndIteration, TypeOK, PC, procState, movement
  <2>2. LockInv'
    BY <1>13, WorkersAssumption DEF EndIteration, LockInv, TypeOK
  <2>3. BlockInv'
    BY <1>13, BlockKept DEF EndIteration, InBlock, TypeOK, procState, movement
  <2> QED
    BY <2>1, <2>2, <2>3
<1>14. ASSUME NEW r \in Request, Begin(r) PROVE Base'
  <2>1. TypeOK'
    <3>1. begin' \in [next : [Workers -> Nat], ptime : Nat]
      BY <1>14 DEF Begin, TypeOK
    <3>2. complete' \in BOOLEAN /\ moved' \in BOOLEAN /\ satisfied' \in BOOLEAN
      BY <1>14, Zenon DEF Begin
    <3> QED
      BY <1>14, <3>1, <3>2 DEF Begin, TypeOK, PC, Result, procState
  <2>2. LockInv'
    BY <1>14 DEF Begin, LockInv, TypeOK
  <2>3. BlockInv'
    BY <1>14 DEF Begin, BlockInv, InBlock
  <2> QED
    BY <2>1, <2>2, <2>3
<1>15. ASSUME NEW r \in Request, Refuse(r) PROVE Base'
  <2>1. TypeOK'
    <3>1. begin' \in [next : [Workers -> Nat], ptime : Nat]
      BY <1>15 DEF Refuse, TypeOK
    <3> QED
      BY <1>15, <3>1 DEF Refuse, TypeOK, PC, Result, procState
  <2>2. LockInv'
    BY <1>15 DEF Refuse, LockInv, TypeOK
  <2>3. BlockInv'
    BY <1>15 DEF Refuse, BlockInv, InBlock
  <2> QED
    BY <2>1, <2>2, <2>3
<1>16. ASSUME Join PROVE Base'
  <2>1. result' \in Result
    BY <1>16 DEF Join, Result
  <2>2. TypeOK'
    BY <1>16, <2>1 DEF Join, TypeOK, PC, procState
  <2>3. LockInv'
    BY <1>16 DEF Join, LockInv, TypeOK
  <2>4. BlockInv'
    BY <1>16 DEF Join, BlockInv, InBlock
  <2> QED
    BY <2>2, <2>3, <2>4
<1>17. CASE UNCHANGED vars
  BY <1>17 DEF vars, procState, movement, TypeOK, LockInv, BlockInv, InBlock, Forward
<1> QED
  BY <1>1, <1>2, <1>3, <1>4, <1>5, <1>6, <1>7, <1>8, <1>9, <1>10, <1>11, <1>12,
     <1>13, <1>14, <1>15, <1>16, <1>17 DEF Next, WorkerStep

(***************************************************************************)
(* The state of a movement keeps its type; in particular no worker runs off *)
(* either end of the recording of its thread.                               *)
(***************************************************************************)
THEOREM TypeCorrect == Spec => []TypeOK
<1>1. Spec => []Base
  BY BaseInit, BaseNext, PTL DEF Spec
<1>2. Base => TypeOK
  BY DEF Base
<1> QED
  BY <1>1, <1>2, PTL

-----------------------------------------------------------------------------
\* Where a worker stands does not change with the other workers' steps.
LEMMA RestKept ==
  ASSUME NEW v \in Workers, RestPart(v), trace' = trace, next'[v] = next[v],
         rewind'[v] = rewind[v], InBlock(v)' <=> InBlock(v)
  PROVE  RestPart(v)'
BY DEF RestPart, BetweenBlocks

LEMMA RestNext == Base /\ RestInv /\ [Next]_vars => RestInv'
<1> SUFFICES ASSUME Base, RestInv, [Next]_vars, NEW v \in Workers PROVE RestPart(v)'
  BY DEF RestInv
<1>0. TypeOK /\ BlockInv /\ RestPart(v)
  BY DEF Base, RestInv
<1>1. ASSUME NEW w \in Workers, LoopTest(w) PROVE RestPart(v)'
  <2>1. /\ UNCHANGED <<trace, next>> /\ pc[w] = "loop"
        /\ \A u \in Workers : u # w => pc'[u] = pc[u] /\ rewind'[u] = rewind[u]
        /\ pc'[w] = "done" \/ (pc'[w] = "event" /\ rewind'[w] = next[w])
    BY <1>0, <1>1 DEF LoopTest, Goto, TypeOK, procState
  <2>2. CASE v # w
    BY <1>0, <2>1, <2>2, RestKept DEF InBlock
  <2>3. CASE v = w
    BY <1>0, <2>1, <2>3 DEF RestPart, BetweenBlocks, InBlock
  <2> QED
    BY <2>2, <2>3
<1>2. ASSUME NEW w \in Workers, HandleEvent(w) PROVE RestPart(v)'
  <2>1. /\ UNCHANGED <<trace, rewind>> /\ pc[w] = "event" /\ InBlock(w)
        /\ pc' = [pc EXCEPT ![w] = IF EndsBlock(w) THEN "after" ELSE "event"]
        /\ next' = [next EXCEPT ![w] = IF Forward THEN @ + 1 ELSE @ - 1]
    BY <1>0, <1>2 DEF HandleEvent, MoveEvent, addNextEvent, removePreviousEvent, Goto, InBlock
  <2>2. CASE v # w
    <3>1. pc'[v] = pc[v] /\ next'[v] = next[v]
      BY <1>0, <2>1, <2>2 DEF TypeOK
    <3> QED
      BY <1>0, <2>1, <3>1, RestKept DEF InBlock
  <2>3. CASE v = w /\ ~EndsBlock(w)
    BY <1>0, <2>1, <2>3 DEF RestPart, BetweenBlocks, InBlock, TypeOK
  <2>4. CASE v = w /\ EndsBlock(w)
    <3>1. pc'[w] = "after" /\ next'[w] = IF Forward THEN next[w] + 1 ELSE next[w] - 1
      BY <1>0, <2>1, <2>4 DEF TypeOK
    <3>2. next[w] \in Nat /\ Len(trace[w]) \in Nat
      BY <1>0, Bounds
    <3>3. BetweenBlocks(w, next[w] + 1) \/ ~Forward
      BY <2>4, <3>2 DEF EndsBlock, BetweenBlocks
    <3>4. BetweenBlocks(w, next[w] - 1) \/ Forward
      BY <2>4, <3>2 DEF EndsBlock, BetweenBlocks
    <3> QED
      BY <2>1, <2>4, <3>1, <3>3, <3>4 DEF RestPart, BetweenBlocks, InBlock
  <2> QED
    BY <2>2, <2>3, <2>4
<1>3. ASSUME NEW w \in Workers, RewindBlock(w) PROVE RestPart(v)'
  <2>1. /\ UNCHANGED <<trace, rewind>> /\ pc[w] = "rewinding"
        /\ \A u \in Workers : u # w => pc'[u] = pc[u] /\ next'[u] = next[u]
        /\ \/ pc'[w] = "rewinding"
           \/ pc'[w] = "after" /\ next'[w] = next[w] /\ next[w] = rewind[w]
    BY <1>0, <1>3 DEF RewindBlock, UndoEvent, addNextEvent, removePreviousEvent, Goto,
                      TypeOK, procState
  <2>2. CASE v # w
    BY <1>0, <2>1, <2>2, RestKept DEF InBlock
  <2>3. CASE v = w
    BY <1>0, <2>1, <2>3 DEF RestPart, BetweenBlocks, InBlock
  <2> QED
    BY <2>2, <2>3
<1>4. ASSUME NEW w \in Workers,
             \/ Lock(w) \/ TestWait(w) \/ Block(w) \/ WaitReturns(w) \/ TestComplete(w)
             \/ SatisfyPredicate(w) \/ FailPredicate(w) \/ NotifyAll(w)
             \/ EndIteration(w) \/ WakeSpuriously(w)
      PROVE  RestPart(v)'
  <2>1. UNCHANGED <<trace, next, rewind>>
    BY <1>4 DEF Lock, TestWait, Block, WaitReturns, TestComplete, SatisfyPredicate,
                FailPredicate, NotifyAll, EndIteration, WakeSpuriously, procState
  <2>2. InBlock(v)' <=> InBlock(v)
    BY <1>0, <1>4 DEF Lock, TestWait, Block, WaitReturns, TestComplete, SatisfyPredicate,
                FailPredicate, NotifyAll, EndIteration, WakeSpuriously, Goto, InBlock, TypeOK
  <2> QED
    BY <1>0, <2>1, <2>2, RestKept
<1>5. ASSUME NEW r \in Request, Begin(r) \/ Refuse(r) PROVE RestPart(v)'
  BY <1>0, <1>5, RestKept DEF Begin, Refuse, procState, InBlock
<1>6. ASSUME Join PROVE RestPart(v)'
  BY <1>0, <1>6, RestKept DEF Join, procState, InBlock
<1>7. CASE UNCHANGED vars
  BY <1>0, <1>7, RestKept DEF vars, procState, InBlock
<1> QED
  BY <1>1, <1>2, <1>3, <1>4, <1>5, <1>6, <1>7 DEF Next, WorkerStep

(***************************************************************************)
(* addNextEventBlock and removePreviousEventBlock move whole blocks or      *)
(* nothing: wherever a worker is interrupted, by whichever predicate of     *)
(* whichever thread, the movement leaves every thread between two blocks.   *)
(* Nothing is assumed of the times in the recordings.                       *)
(***************************************************************************)
THEOREM WholeBlocks == Spec => []RestsBetweenBlocks
<1>1. Init => RestInv
  BY DEF Init, RestInv, RestPart, BetweenBlocks, InBlock
<1>2. Base /\ RestInv => RestsBetweenBlocks
  BY DEF RestInv, RestPart, InBlock, RestsBetweenBlocks
<1> QED
  BY <1>1, <1>2, BaseInit, BaseNext, RestNext, PTL DEF Spec

-----------------------------------------------------------------------------
(***************************************************************************)
(* Replay applies shared events in recorded order: the proof, for any       *)
(* number of workers and any recordings that satisfy RecordingsInOrder.     *)
(***************************************************************************)

LEMMA RecordingInOrder ==
  ASSUME TypeOK, RecordingsInOrder
  PROVE  SharedTimesUnique(Workers, trace) /\ OneWaitPerBlock(Workers, trace)
BY DEF TypeOK, RecordingsInOrder, InOrder

LEMMA MovedType ==
  ASSUME TypeOK, BlockInv, NEW w \in Workers, InBlock(w), NEW i \in MovedPart(w)
  PROVE  /\ i \in 1..Len(trace[w])
         /\ Forward  => i <= next[w] /\ SameBlock(trace[w], i, next[w] + 1)
         /\ ~Forward => next[w] < i /\ SameBlock(trace[w], next[w], i)
<1>1. CASE Forward
  <2>1. /\ rewind[w] <= next[w] /\ next[w] < Len(trace[w])
        /\ \A k \in (rewind[w] + 2)..(next[w] + 1) : ~isBlockStart(trace[w][k])
    BY <1>1 DEF BlockInv
  <2>2. i \in (rewind[w] + 1)..next[w]
    BY <1>1 DEF MovedPart
  <2>3. i \in 1..Len(trace[w]) /\ i <= next[w]
    BY <2>1, <2>2, Bounds
  <2>4. \A k \in (i + 1)..(next[w] + 1) : k \in (rewind[w] + 2)..(next[w] + 1)
    BY <2>2, Bounds
  <2> QED
    BY <1>1, <2>1, <2>3, <2>4 DEF SameBlock
<1>2. CASE ~Forward
  <2>1. /\ 1 <= next[w] /\ next[w] <= rewind[w] /\ rewind[w] <= Len(trace[w])
        /\ \A k \in (next[w] + 1)..rewind[w] : ~isBlockStart(trace[w][k])
    BY <1>2 DEF BlockInv
  <2>2. i \in (next[w] + 1)..rewind[w]
    BY <1>2 DEF MovedPart
  <2>3. i \in 1..Len(trace[w]) /\ next[w] < i
    BY <2>1, <2>2, Bounds
  <2>4. \A k \in (next[w] + 1)..i : k \in (next[w] + 1)..rewind[w]
    BY <2>2, Bounds
  <2> QED
    BY <1>2, <2>1, <2>3, <2>4 DEF SameBlock
<1> QED
  BY <1>1, <1>2

-----------------------------------------------------------------------------
\* The parts of the invariant that concern a worker which a step leaves alone.
LEMMA OthersKept ==
  ASSUME NEW v \in Workers, WaitPart(v), TimePart(v),
         UNCHANGED <<trace, ptime, req>>, complete => complete',
         next'[v] = next[v], rewind'[v] = rewind[v], pc'[v] = pc[v],
         (owner' = v) <=> (owner = v)
  PROVE  WaitPart(v)' /\ TimePart(v)'
<1>1. /\ Forward' = Forward /\ MovedPart(v)' = MovedPart(v)
      /\ EventToMove(v)' = EventToMove(v) /\ InBlock(v)' = InBlock(v)
  BY DEF Forward, MovedPart, EventToMove, InBlock
<1>2. Holding(v)' = Holding(v)
  BY DEF Holding
<1>3. NoneTimedMoved(v)' = NoneTimedMoved(v)
  BY <1>1 DEF NoneTimedMoved
<1>4. TimeReached(v)' = TimeReached(v)
  BY <1>1 DEF TimeReached
<1>5. TimedMoved(v)' = TimedMoved(v)
  BY <1>1 DEF TimedMoved, IsShared
<1> QED
  BY <1>1, <1>2, <1>3, <1>4, <1>5 DEF WaitPart, TimePart, WaitJustOver

\* A step that moves no event and ends the block of no owner of the mutex.
LEMMA OrderKept ==
  ASSUME OrderInv, UNCHANGED <<trace, next, ptime, req>>,
         \A v \in Workers : Holding(v) => Holding(v)' /\ rewind'[v] = rewind[v]
  PROVE  OrderInv'
<1> SUFFICES ASSUME NEW v \in Workers, NEW i \in 1..Len(trace[v])
             PROVE  OrderPart(v, i)'
  BY DEF OrderInv
<1>1. OrderPart(v, i)
  BY DEF OrderInv
<1>2. Pending(v, i) => Pending(v, i)'
  BY DEF Pending, MovedPart, Forward, IsShared
<1> QED
  BY <1>1, <1>2 DEF OrderPart, IsShared, Added, Forward

\* Without an owner in its block, the added shared events are those up to ptime.
LEMMA OrderAtRest ==
  ASSUME OrderInv, \A v \in Workers : ~Holding(v),
         NEW w \in Workers, NEW i \in 1..Len(trace[w]), IsShared(w, i)
  PROVE  Added(w, i) <=> trace[w][i].time <= ptime
BY DEF OrderInv, OrderPart, Pending

-----------------------------------------------------------------------------
LEMMA OrderInit == Init => WaitInv /\ TimeInv /\ OrderInv
<1> SUFFICES ASSUME Init PROVE WaitInv /\ TimeInv /\ OrderInv
  OBVIOUS
<1>0. TypeOK
  BY BaseInit DEF Base
<1>1. WaitInv /\ TimeInv
  BY DEF Init, WaitInv, TimeInv, WaitPart, TimePart, InBlock, Holding
<1>2. ASSUME NEW w \in Workers, NEW i \in 1..Len(trace[w]) PROVE OrderPart(w, i)
  <2>1. next[w] = 0 /\ ptime = 0
    BY DEF Init
  <2>2. IsShared(w, i) => trace[w][i].time >= 1
    BY <1>0, RecordingsAssumption DEF TypeOK, IsShared, hasProcessTime
  <2>3. trace[w][i].time \in Nat
    BY <1>0, TraceType
  <2>4. ~Added(w, i)
    BY <2>1, <1>0, TraceType DEF Added
  <2> QED
    BY <2>1, <2>2, <2>3, <2>4 DEF OrderPart
<1> QED
  BY <1>1, <1>2 DEF OrderInv

-----------------------------------------------------------------------------
(***************************************************************************)
(* The time of a shared event, when its worker comes to move it.            *)
(***************************************************************************)
LEMMA ForwardTime ==
  ASSUME IndInv, RecordingsInOrder, NEW w \in Workers, Holding(w), Forward,
         IsShared(w, next[w] + 1)
  PROVE  trace[w][next[w] + 1].time \in {ptime, ptime + 1}
<1> DEFINE p == next[w] + 1
           t == trace[w][p].time
<1>0. TypeOK /\ BlockInv /\ InBlock(w) /\ TimePart(w) /\ next[w] < Len(trace[w])
  BY DEF IndInv, TimeInv, Holding, InBlock, BlockInv
<1>1. p \in 1..Len(trace[w]) /\ ~Added(w, p)
  BY <1>0, Bounds DEF Added
<1>2. t \in Nat /\ ptime \in Nat
  BY <1>0, <1>1, TraceType DEF TypeOK
<1>3. t <= ptime => Pending(w, p)
  BY <1>1 DEF IndInv, OrderInv, OrderPart
<1>4. CASE WaitJustOver(w)
  <2>1. t - 1 <= ptime
    BY <1>4, <1>2 DEF WaitJustOver, TimeReached, EventToMove, IsShared,
                      modifiesSharedState
  <2>2. \A j \in MovedPart(w) : ~IsShared(w, j)
    BY <1>4 DEF WaitJustOver, NoneTimedMoved, IsShared, hasProcessTime
  <2>3. ~Pending(w, p)
    BY <2>2 DEF Pending
  <2> QED
    BY <2>1, <2>3, <1>2, <1>3
<1>5. CASE TimedMoved(w)
  <2>1. PICK i \in MovedPart(w) :
          /\ hasProcessTime(trace[w][i])
          /\ \A k \in MovedPart(w) : i < k => ~hasProcessTime(trace[w][k])
          /\ IF IsShared(w, i) THEN trace[w][i].time = ptime
                               ELSE ptime >= trace[w][i].time
    BY <1>5 DEF TimedMoved
  <2>2. i \in 1..Len(trace[w]) /\ i < p /\ SameBlock(trace[w], i, p)
    BY <1>0, MovedType, Bounds
  <2>3. trace[w][i].time \in Nat
    BY <2>2, <1>0, TraceType
  <2>4. \A k \in (i + 1)..(p - 1) : k \in MovedPart(w) /\ i < k
    BY <2>2, <1>0, Bounds DEF MovedPart
  <2>5. /\ t >= IF IsShared(w, i) THEN trace[w][i].time ELSE trace[w][i].time + 1
        /\ t <= trace[w][i].time + 1
    BY <2>1, <2>2, <2>4, <1>0, <1>1, RecordingInOrder DEF OneWaitPerBlock, IsShared
  <2>6. CASE IsShared(w, i)
    BY <2>1, <2>3, <2>5, <2>6, <1>2
  <2>7. CASE ~IsShared(w, i)
    <3>1. isBlockStart(trace[w][i])
      BY <2>1, <2>7 DEF IsShared, hasProcessTime, isBlockStart
    <3>2. \A j \in MovedPart(w) : ~IsShared(w, j)
      <4> SUFFICES ASSUME NEW j \in MovedPart(w), IsShared(w, j) PROVE FALSE
        OBVIOUS
      <4>1. j \in 1..Len(trace[w]) /\ SameBlock(trace[w], j, p)
        BY <1>0, MovedType
      <4>2. ~(i < j)
        BY <2>1 DEF IsShared, hasProcessTime
      <4>3. i # j
        BY <2>7
      <4>4. i \in (j + 1)..p
        BY <2>2, <4>1, <4>2, <4>3, <1>0, Bounds
      <4> QED
        BY <3>1, <4>1, <4>4 DEF SameBlock
    <3>3. ~(t <= ptime)
      BY <1>3, <3>2 DEF Pending
    <3> QED
      BY <2>1, <2>3, <2>5, <2>7, <3>3, <1>2
  <2> QED
    BY <2>6, <2>7
<1> QED
  BY <1>0, <1>4, <1>5 DEF TimePart

LEMMA BackwardTime ==
  ASSUME IndInv, RecordingsInOrder, NEW w \in Workers, Holding(w), ~Forward,
         IsShared(w, next[w])
  PROVE  trace[w][next[w]].time \in {ptime, ptime + 1}
<1> DEFINE p == next[w]
           t == trace[w][p].time
<1>0. TypeOK /\ BlockInv /\ InBlock(w) /\ TimePart(w) /\ 1 <= next[w]
  BY DEF IndInv, TimeInv, Holding, InBlock, BlockInv
<1>1. p \in 1..Len(trace[w]) /\ Added(w, p)
  BY <1>0, Bounds DEF Added
<1>2. t \in Nat /\ ptime \in Nat
  BY <1>0, <1>1, TraceType DEF TypeOK
<1>3. t <= ptime \/ Pending(w, p)
  BY <1>1 DEF IndInv, OrderInv, OrderPart
<1>4. CASE WaitJustOver(w)
  <2>1. ptime <= t
    BY <1>4, <1>2 DEF WaitJustOver, TimeReached, EventToMove, IsShared,
                      modifiesSharedState
  <2>2. \A j \in MovedPart(w) : ~IsShared(w, j)
    BY <1>4 DEF WaitJustOver, NoneTimedMoved, IsShared, hasProcessTime
  <2>3. ~Pending(w, p)
    BY <2>2 DEF Pending
  <2> QED
    BY <2>1, <2>3, <1>2, <1>3
<1>5. CASE TimedMoved(w)
  <2>1. PICK i \in MovedPart(w) :
          /\ hasProcessTime(trace[w][i]) /\ IsShared(w, i)
          /\ \A k \in MovedPart(w) : k < i => ~hasProcessTime(trace[w][k])
          /\ trace[w][i].time = ptime + 1
    BY <1>5 DEF TimedMoved
  <2>2. i \in 1..Len(trace[w]) /\ p < i /\ SameBlock(trace[w], p, i)
    BY <1>0, MovedType
  <2>3. \A k \in (p + 1)..(i - 1) : k \in MovedPart(w) /\ k < i
    BY <2>2, <1>0, Bounds DEF MovedPart
  <2>4. trace[w][i].time >= t /\ trace[w][i].time <= t + 1
    BY <2>1, <2>2, <2>3, <1>0, <1>1, RecordingInOrder
       DEF OneWaitPerBlock, IsShared, hasProcessTime
  <2> QED
    BY <2>1, <2>4, <1>2
<1> QED
  BY <1>0, <1>4, <1>5 DEF TimePart

\* When the move of the next event ends a block, no event that is still to be
\* moved shares the time of one that the block has moved.
LEMMA BlockEnd ==
  ASSUME TypeOK, RecordingsInOrder, NEW w \in Workers, EndsBlock(w),
         NEW i \in 1..Len(trace[w]), NEW j \in 1..Len(trace[w]),
         IsShared(w, i), IsShared(w, j), trace[w][i].time = trace[w][j].time
  PROVE  /\ Forward  => ~(j <= next[w] + 1 /\ next[w] + 1 < i)
         /\ ~Forward => ~(i < next[w] /\ next[w] <= j)
<1>1. i < j => SameBlock(trace[w], i, j)
  BY RecordingInOrder DEF SharedTimesUnique, IsShared
<1>2. j < i => SameBlock(trace[w], j, i)
  BY RecordingInOrder DEF SharedTimesUnique, IsShared
<1>3. ASSUME Forward, j <= next[w] + 1, next[w] + 1 < i PROVE FALSE
  <2>1. isBlockStart(trace[w][next[w] + 2])
    BY <1>3, Bounds DEF EndsBlock
  <2>2. next[w] + 2 \in (j + 1)..i /\ j < i
    BY <1>3, Bounds
  <2> QED
    BY <1>2, <2>1, <2>2 DEF SameBlock
<1>4. ASSUME ~Forward, i < next[w], next[w] <= j PROVE FALSE
  <2>1. isBlockStart(trace[w][next[w]])
    BY <1>4, Bounds DEF EndsBlock
  <2>2. next[w] \in (i + 1)..j /\ i < j
    BY <1>4, Bounds
  <2> QED
    BY <1>1, <2>1, <2>2 DEF SameBlock
<1> QED
  BY <1>3, <1>4

-----------------------------------------------------------------------------
(***************************************************************************)
(* Moving one event.                                                        *)
(***************************************************************************)
MovedPosition(w) == IF Forward THEN next[w] + 1 ELSE next[w]

LEMMA HandleFacts ==
  ASSUME TypeOK, BlockInv, NEW w \in Workers, HandleEvent(w)
  PROVE  /\ UNCHANGED <<trace, req, rewind, owner, complete>>
         /\ \A v \in Workers : v # w => next'[v] = next[v] /\ pc'[v] = pc[v]
         /\ pc[w] = "event" /\ pc'[w] = IF EndsBlock(w) THEN "after" ELSE "event"
         /\ MovedPosition(w) \in 1..Len(trace[w])
         /\ MovedPart(w)' = MovedPart(w) \cup {MovedPosition(w)}
         /\ \A i \in 1..Len(trace[w]) :
              Added(w, i)' <=> IF Forward THEN Added(w, i) \/ i = MovedPosition(w)
                                          ELSE Added(w, i) /\ i # MovedPosition(w)
         /\ IsShared(w, MovedPosition(w)) =>
              /\ owner = w
              /\ ptime' = IF Forward THEN trace[w][MovedPosition(w)].time
                                     ELSE trace[w][MovedPosition(w)].time - 1
         /\ ~IsShared(w, MovedPosition(w)) => ptime' = ptime
<1>1. /\ UNCHANGED <<trace, req, rewind, owner, complete>>
      /\ pc[w] = "event" /\ InBlock(w)
      /\ pc' = [pc EXCEPT ![w] = IF EndsBlock(w) THEN "after" ELSE "event"]
  BY DEF HandleEvent, Goto, InBlock
<1>2. pc'[w] = IF EndsBlock(w) THEN "after" ELSE "event"
  BY <1>1 DEF TypeOK
<1>3. next' = [next EXCEPT ![w] = IF Forward THEN next[w] + 1 ELSE next[w] - 1]
  BY DEF HandleEvent, MoveEvent, addNextEvent, removePreviousEvent
<1>4. \A v \in Workers : v # w => next'[v] = next[v] /\ pc'[v] = pc[v]
  BY <1>1, <1>3 DEF TypeOK
<1>5. next'[w] = IF Forward THEN next[w] + 1 ELSE next[w] - 1
  BY <1>3 DEF TypeOK
<1>6. IF Forward THEN rewind[w] <= next[w] /\ next[w] < Len(trace[w])
                 ELSE 1 <= next[w] /\ next[w] <= rewind[w]
  BY <1>1 DEF BlockInv
<1>7. MovedPosition(w) \in 1..Len(trace[w])
  BY <1>6, Bounds DEF MovedPosition
<1>8. MovedPart(w)' = MovedPart(w) \cup {MovedPosition(w)}
  <2>1. CASE Forward
    <3>1. MovedPart(w)' = (rewind[w] + 1)..(next[w] + 1)
      BY <2>1, <1>1, <1>5 DEF MovedPart, Forward
    <3>2. MovedPart(w) = (rewind[w] + 1)..next[w] /\ MovedPosition(w) = next[w] + 1
      BY <2>1 DEF MovedPart, MovedPosition
    <3> QED
      BY <2>1, <3>1, <3>2, <1>6, Bounds
  <2>2. CASE ~Forward
    <3>1. MovedPart(w)' = ((next[w] - 1) + 1)..rewind[w]
      BY <2>2, <1>1, <1>5 DEF MovedPart, Forward
    <3>2. MovedPart(w) = (next[w] + 1)..rewind[w] /\ MovedPosition(w) = next[w]
      BY <2>2 DEF MovedPart, MovedPosition
    <3> QED
      BY <2>2, <3>1, <3>2, <1>6, Bounds
  <2> QED
    BY <2>1, <2>2
<1>9. \A i \in 1..Len(trace[w]) :
         Added(w, i)' <=> IF Forward THEN Added(w, i) \/ i = MovedPosition(w)
                                     ELSE Added(w, i) /\ i # MovedPosition(w)
  BY <1>5, Bounds DEF Added, MovedPosition
<1>10. IsShared(w, MovedPosition(w)) => owner = w
  BY DEF HandleEvent, NeedsNoLock, EventToMove, MovedPosition, IsShared, hasProcessTime
<1>11. ptime' = IF IsShared(w, MovedPosition(w))
                THEN IF Forward THEN trace[w][MovedPosition(w)].time
                                ELSE trace[w][MovedPosition(w)].time - 1
                ELSE ptime
  BY DEF HandleEvent, MoveEvent, addNextEvent, removePreviousEvent, MovedPosition, IsShared
<1> QED
  BY <1>1, <1>2, <1>4, <1>7, <1>8, <1>9, <1>10, <1>11

\* Moving an event that is not shared keeps the order; at the end of a block
\* nothing is pending any more.
LEMMA HandleLocalOrder ==
  ASSUME IndInv, RecordingsInOrder, NEW w \in Workers, HandleEvent(w),
         ~IsShared(w, MovedPosition(w))
  PROVE  OrderInv'
<1> DEFINE p == MovedPosition(w)
<1>0. TypeOK /\ BlockInv /\ LockInv /\ pc[w] = "event" /\ InBlock(w)
  BY DEF IndInv, HandleEvent, InBlock
<1>1. /\ UNCHANGED <<trace, req, rewind, owner, ptime>>
      /\ \A v \in Workers : v # w => next'[v] = next[v] /\ pc'[v] = pc[v]
      /\ pc'[w] = IF EndsBlock(w) THEN "after" ELSE "event"
      /\ p \in 1..Len(trace[w])
      /\ MovedPart(w)' = MovedPart(w) \cup {p}
      /\ \A i \in 1..Len(trace[w]) : i # p => (Added(w, i)' <=> Added(w, i))
  BY <1>0, HandleFacts
<1> SUFFICES ASSUME NEW v \in Workers, NEW i \in 1..Len(trace[v])
             PROVE  OrderPart(v, i)'
  BY <1>1 DEF OrderInv
<1>2. OrderPart(v, i)
  BY DEF IndInv, OrderInv
<1>3. IsShared(v, i)' = IsShared(v, i) /\ Forward' = Forward
  BY <1>1 DEF IsShared, Forward
<1>4. CASE v # w
  <2>1. Pending(v, i)' = Pending(v, i) /\ Added(v, i)' = Added(v, i)
    BY <1>1, <1>4 DEF Pending, Holding, MovedPart, Forward, IsShared, Added
  <2> QED
    BY <1>1, <1>2, <1>3, <2>1 DEF OrderPart
<1>5. CASE v = w /\ ~EndsBlock(w)
  <2>1. Pending(v, i) => Pending(v, i)'
    BY <1>0, <1>1, <1>5 DEF Pending, Holding, IsShared
  <2>2. IsShared(v, i) => (Added(v, i)' <=> Added(v, i))
    BY <1>1, <1>5
  <2> QED
    BY <1>1, <1>2, <1>3, <2>1, <2>2 DEF OrderPart
<1>6. CASE v = w /\ EndsBlock(w)
  <2>1. ASSUME IsShared(w, i), Pending(w, i), Forward, ~Added(w, i) PROVE FALSE
    <3>1. PICK j \in MovedPart(w) : IsShared(w, j) /\ trace[w][j].time = trace[w][i].time
      BY <2>1 DEF Pending
    <3>2. j \in 1..Len(trace[w]) /\ j <= next[w]
      BY <1>0, <2>1, MovedType
    <3>3. i > next[w] /\ i # next[w] + 1
      BY <2>1, <1>0, <1>6, Bounds DEF Added, MovedPosition
    <3>4. j <= next[w] + 1 /\ next[w] + 1 < i
      BY <3>2, <3>3, <1>0, <1>6, Bounds
    <3> QED
      BY <1>0, <1>6, <2>1, <3>1, <3>2, <3>4, BlockEnd
  <2>2. ASSUME IsShared(w, i), Pending(w, i), ~Forward, Added(w, i) PROVE FALSE
    <3>1. PICK j \in MovedPart(w) : IsShared(w, j) /\ trace[w][j].time = trace[w][i].time
      BY <2>2 DEF Pending
    <3>2. j \in 1..Len(trace[w]) /\ next[w] < j
      BY <1>0, <2>2, MovedType
    <3>3. i <= next[w] /\ i # next[w]
      BY <2>2 DEF Added, MovedPosition
    <3>4. i < next[w] /\ next[w] <= j
      BY <3>2, <3>3, <1>0, <1>6, Bounds
    <3> QED
      BY <1>0, <1>6, <2>2, <3>1, <3>2, <3>4, BlockEnd
  <2>3. IsShared(v, i) => (Added(v, i)' <=> Added(v, i))
    BY <1>1, <1>6
  <2> QED
    BY <1>1, <1>2, <1>3, <1>6, <2>1, <2>2, <2>3 DEF OrderPart
<1> QED
  BY <1>4, <1>5, <1>6

\* An event that waits for the rest of its block is on the other side of the
\* event to be moved than the one of its time, and so is its time.
LEMMA PendingTime ==
  ASSUME TypeOK, BlockInv, RecordingsInOrder, NEW w \in Workers, InBlock(w),
         MovedPosition(w) \in 1..Len(trace[w]), IsShared(w, MovedPosition(w)),
         NEW i \in 1..Len(trace[w]), IsShared(w, i), Pending(w, i),
         i # MovedPosition(w), Forward <=> ~Added(w, i)
  PROVE  /\ Forward  => trace[w][MovedPosition(w)].time <= trace[w][i].time
         /\ ~Forward => trace[w][i].time <= trace[w][MovedPosition(w)].time
<1> DEFINE p == MovedPosition(w)
<1>1. PICK j \in MovedPart(w) : IsShared(w, j) /\ trace[w][j].time = trace[w][i].time
  BY DEF Pending
<1>2. j \in 1..Len(trace[w])
  BY MovedType
<1>3. /\ i < j => SameBlock(trace[w], i, j)
      /\ j < i => SameBlock(trace[w], j, i)
  BY <1>1, <1>2, RecordingInOrder DEF SharedTimesUnique, IsShared
<1>4. CASE Forward
  <2>1. j < p /\ p < i
    BY <1>2, <1>4, MovedType, Bounds DEF Added, MovedPosition
  <2>2. \A k \in (p + 1)..i : k \in (j + 1)..i
    BY <2>1, <1>2
  <2>3. SameBlock(trace[w], p, i)
    BY <1>2, <1>3, <2>1, <2>2 DEF SameBlock
  <2> QED
    BY <1>4, <2>1, <2>3, RecordingInOrder DEF OneWaitPerBlock, IsShared, hasProcessTime
<1>5. CASE ~Forward
  <2>1. i < p /\ p < j
    BY <1>2, <1>5, MovedType, Bounds DEF Added, MovedPosition
  <2>2. \A k \in (i + 1)..p : k \in (i + 1)..j
    BY <2>1, <1>2
  <2>3. SameBlock(trace[w], i, p)
    BY <1>2, <1>3, <2>1, <2>2 DEF SameBlock
  <2> QED
    BY <1>5, <2>1, <2>3, RecordingInOrder DEF OneWaitPerBlock, IsShared, hasProcessTime
<1> QED
  BY <1>4, <1>5

LEMMA HandleSharedOrder ==
  ASSUME IndInv, RecordingsInOrder, NEW w \in Workers, HandleEvent(w),
         IsShared(w, MovedPosition(w))
  PROVE  OrderInv'
<1> DEFINE p == MovedPosition(w)
           t == trace[w][p].time
<1>0. TypeOK /\ BlockInv /\ LockInv /\ pc[w] = "event" /\ InBlock(w)
  BY DEF IndInv, HandleEvent, InBlock
<1>1. /\ UNCHANGED <<trace, req, rewind, owner>>
      /\ owner = w
      /\ \A v \in Workers : v # w => next'[v] = next[v] /\ pc'[v] = pc[v]
      /\ pc'[w] = IF EndsBlock(w) THEN "after" ELSE "event"
      /\ p \in 1..Len(trace[w])
      /\ MovedPart(w)' = MovedPart(w) \cup {p}
      /\ ptime' = IF Forward THEN t ELSE t - 1
  BY <1>0, HandleFacts
<1>2. \A i \in 1..Len(trace[w]) :
         Added(w, i)' <=> IF Forward THEN Added(w, i) \/ i = p
                                     ELSE Added(w, i) /\ i # p
  BY <1>0, HandleFacts
<1>3. Holding(w) /\ t \in Nat /\ ptime \in Nat
  BY <1>0, <1>1, TraceType DEF Holding, TypeOK
<1> SUFFICES ASSUME NEW v \in Workers, NEW i \in 1..Len(trace[v]), IsShared(v, i)
             PROVE  OrderPart(v, i)'
  BY <1>1 DEF OrderInv, OrderPart, IsShared
<1> DEFINE ti == trace[v][i].time
<1>4. OrderPart(v, i) /\ ti \in Nat
  BY <1>0, TraceType DEF IndInv, OrderInv
<1>5. Pending(v, i) => v = w
  BY <1>1 DEF Pending, Holding
<1>6. ti = t => v = w
  BY <1>0, <1>1, RecordingInOrder DEF SharedTimesUnique, IsShared
<1>7. v # w => Added(v, i)' = Added(v, i)
  BY <1>1 DEF Added
<1>8. v = w /\ ti = t /\ ~EndsBlock(w) => Pending(v, i)'
  <2> SUFFICES ASSUME v = w, ti = t, ~EndsBlock(w) PROVE Pending(v, i)'
    OBVIOUS
  <2>1. Holding(v)'
    BY <1>1 DEF Holding
  <2>2. p \in MovedPart(w)'
    BY <1>1
  <2>3. trace'[v] = trace[w]
    BY <1>1
  <2> QED
    BY <2>1, <2>2, <2>3 DEF Pending, IsShared
<1>9. CASE Forward
  <2>1. t = ptime \/ t = ptime + 1
    BY <1>3, <1>9, ForwardTime DEF MovedPosition
  <2>2. Added(v, i)' => ti <= ptime'
    <3>1. Added(v, i) => ti <= ptime
      BY <1>4, <1>9 DEF OrderPart
    <3>2. v = w => (Added(v, i)' <=> Added(v, i) \/ i = p)
      BY <1>2, <1>9
    <3>3. v = w /\ i = p => ti = t
      OBVIOUS
    <3>4. ptime' = t
      BY <1>1, <1>9
    <3>5. ti <= ptime => ti <= ptime'
      BY <1>3, <1>4, <2>1, <3>4
    <3>6. ti = t => ti <= ptime'
      BY <1>3, <3>4
    <3> QED
      BY <1>7, <3>1, <3>2, <3>3, <3>5, <3>6
  <2>3. ASSUME ti <= ptime', ~Added(v, i)' PROVE Pending(v, i)'
    <3>1. CASE ti = t
      <4>1. v = w
        BY <3>1, <1>6
      <4>2. ~Added(w, i) /\ i # p
        BY <4>1, <1>2, <1>9, <2>3
      <4>3. next[w] + 1 < i /\ p <= next[w] + 1
        BY <4>1, <4>2, <1>0, <1>9, Bounds DEF Added, MovedPosition
      <4>4. ~EndsBlock(w)
        BY <4>1, <4>3, <3>1, <1>0, <1>1, <1>9, BlockEnd
      <4> QED
        BY <3>1, <4>1, <4>4, <1>8
    <3>2. CASE ti # t
      <4>1. ti <= ptime /\ ti < t
        BY <3>2, <2>1, <2>3, <1>1, <1>3, <1>4, <1>9
      <4>2. Added(v, i)
        <5> SUFFICES ASSUME ~Added(v, i) PROVE FALSE
          OBVIOUS
        <5>1. Pending(v, i) /\ v = w
          BY <4>1, <1>4, <1>5 DEF OrderPart
        <5>2. i # p
          BY <5>1, <3>2
        <5>3. t <= ti
          BY <5>1, <5>2, <1>0, <1>1, <1>9, PendingTime
        <5> QED
          BY <4>1, <5>3, <1>3, <1>4
      <4>3. Added(v, i)'
        BY <4>2, <1>2, <1>7, <1>9
      <4> QED
        BY <4>3, <2>3
    <3> QED
      BY <3>1, <3>2
  <2>4. Forward' /\ trace' = trace
    BY <1>1, <1>9 DEF Forward
  <2> QED
    BY <2>2, <2>3, <2>4 DEF OrderPart
<1>10. CASE ~Forward
  <2>1. t = ptime \/ t = ptime + 1
    BY <1>3, <1>10, BackwardTime DEF MovedPosition
  <2>2. ASSUME ti <= ptime' PROVE Added(v, i)'
    <3>1. ti <= ptime /\ ti # t
      BY <2>1, <2>2, <1>1, <1>3, <1>4, <1>10
    <3>2. Added(v, i)
      BY <3>1, <1>4, <1>10 DEF OrderPart
    <3> QED
      BY <3>1, <3>2, <1>2, <1>7, <1>10
  <2>3. ASSUME Added(v, i)', ~(ti <= ptime') PROVE Pending(v, i)'
    <3>1. Added(v, i) /\ (v = w => i # p)
      BY <2>3, <1>2, <1>7, <1>10
    <3>2. ti <= ptime \/ Pending(v, i)
      BY <3>1, <1>4, <1>10 DEF OrderPart
    <3>3. ti = t
      <4>1. CASE Pending(v, i)
        <5>1. v = w
          BY <4>1, <1>5
        <5>2. ti <= t
          BY <4>1, <5>1, <3>1, <1>0, <1>1, <1>10, PendingTime
        <5> QED
          BY <5>2, <2>3, <1>1, <1>3, <1>4, <1>10
      <4>2. CASE ti <= ptime
        <5>1. ptime' = t - 1
          BY <1>1, <1>10
        <5>2. t = ptime \/ t = ptime + 1
          BY <2>1
        <5>3. ~(ti <= t - 1)
          BY <2>3, <5>1
        <5> QED
          BY <4>2, <5>2, <5>3, <1>3, <1>4
      <4> QED
        BY <3>2, <4>1, <4>2
    <3>4. v = w
      BY <3>3, <1>6
    <3>5. i < next[w] /\ next[w] <= p
      BY <3>1, <3>4, <1>0, <1>10, Bounds DEF Added, MovedPosition
    <3>6. ~EndsBlock(w)
      BY <3>3, <3>4, <3>5, <1>0, <1>1, <1>10, BlockEnd
    <3> QED
      BY <3>3, <3>4, <3>6, <1>8
  <2>4. ~Forward' /\ trace' = trace
    BY <1>1, <1>10 DEF Forward
  <2> QED
    BY <2>2, <2>3, <2>4 DEF OrderPart
<1> QED
  BY <1>9, <1>10

\* What moving an event leaves behind for the rest of the block.
LEMMA HandleTime ==
  ASSUME IndInv, RecordingsInOrder, NEW w \in Workers, HandleEvent(w)
  PROVE  WaitInv' /\ TimeInv'
<1> DEFINE p == MovedPosition(w)
           t == trace[w][p].time
<1>0. TypeOK /\ BlockInv /\ LockInv /\ pc[w] = "event" /\ InBlock(w)
  BY DEF IndInv, HandleEvent, InBlock
<1>1. /\ UNCHANGED <<trace, req, rewind, owner, complete>>
      /\ \A v \in Workers : v # w => next'[v] = next[v] /\ pc'[v] = pc[v]
      /\ pc'[w] = IF EndsBlock(w) THEN "after" ELSE "event"
      /\ p \in 1..Len(trace[w])
      /\ MovedPart(w)' = MovedPart(w) \cup {p}
      /\ IsShared(w, p) => owner = w /\ ptime' = IF Forward THEN t ELSE t - 1
      /\ ~IsShared(w, p) => ptime' = ptime
  BY <1>0, HandleFacts
<1>2. WaitPart(w) /\ TimePart(w) /\ Forward' = Forward
  BY <1>1 DEF IndInv, WaitInv, TimeInv, Forward
<1>3. EventToMove(w) = trace[w][p]
  BY DEF EventToMove, MovedPosition
<1>3a. \A k \in MovedPart(w) : k \in Int /\ IF Forward THEN k < p ELSE p < k
  BY <1>0, <1>1, MovedType, Bounds DEF MovedPosition
<1>4. WaitPart(w)'
  <2>1. CASE owner = w
    BY <2>1, <1>1 DEF WaitPart, InBlock, Holding
  <2>2. CASE owner # w
    <3>1. ~hasProcessTime(trace[w][p])
      BY <2>2, <1>3 DEF HandleEvent, NeedsNoLock
    <3>2. NoneTimedMoved(w)
      BY <2>2, <1>0, <1>2 DEF WaitPart, Holding
    <3>3. NoneTimedMoved(w)'
      BY <3>1, <3>2, <1>1 DEF NoneTimedMoved
    <3> QED
      BY <3>3, <1>1 DEF WaitPart
  <2> QED
    BY <2>1, <2>2
<1>5. TimePart(w)'
  <2> SUFFICES ASSUME owner = w, ~EndsBlock(w) PROVE TimedMoved(w)'
    BY <1>1 DEF TimePart, Holding
  <2>0. Holding(w)
    BY <1>0 DEF Holding
  <2>1. CASE IsShared(w, p)
    <3>1. \A k \in MovedPart(w)' : ~(IF Forward THEN p < k ELSE k < p)
      BY <1>1, <1>3a
    <3>2. t \in Nat
      BY <1>0, <1>1, TraceType
    <3>3. t = IF Forward THEN ptime' ELSE ptime' + 1
      BY <2>1, <1>1, <3>2
    <3>4. hasProcessTime(trace[w][p])
      BY <2>1 DEF IsShared, hasProcessTime
    <3> QED
      BY <1>1, <1>2, <2>1, <3>1, <3>3, <3>4 DEF TimedMoved, IsShared
  <2>2. CASE ~hasProcessTime(trace[w][p]) /\ TimedMoved(w)
    <3>1. ~IsShared(w, p)
      BY <2>2 DEF IsShared, hasProcessTime
    <3> QED
      BY <2>2, <3>1, <1>1, <1>2 DEF TimedMoved, IsShared
  <2>3. CASE trace[w][p].type = "NewProcessTime"
    <3>1. Forward
      BY <2>3, <1>0, <1>1 DEF EndsBlock, isBlockStart, MovedPosition
    <3>2. hasProcessTime(trace[w][p]) /\ ~IsShared(w, p)
      BY <2>3 DEF hasProcessTime, IsShared
    <3>3. ~TimedMoved(w)
      <4>1. MovedPart(w) = {}
        <5> SUFFICES ASSUME NEW j \in MovedPart(w) PROVE FALSE
          OBVIOUS
        <5>1. j \in 1..Len(trace[w]) /\ j < p /\ SameBlock(trace[w], j, p)
          BY <1>0, <3>1, MovedType, Bounds DEF MovedPosition
        <5>2. p \in (j + 1)..p
          BY <5>1, <1>1
        <5> QED
          BY <5>1, <5>2, <2>3 DEF SameBlock, isBlockStart
      <4> QED
        BY <4>1 DEF TimedMoved
    <3>4. WaitJustOver(w)
      BY <2>0, <3>3, <1>2 DEF TimePart
    <3>5. ptime >= t
      BY <2>3, <3>1, <3>4, <1>3 DEF WaitJustOver, TimeReached, modifiesSharedState
    <3>6. \A k \in MovedPart(w)' : ~(p < k)
      BY <1>1, <1>3a, <3>1
    <3> QED
      BY <1>1, <1>2, <3>1, <3>2, <3>5, <3>6 DEF TimedMoved, IsShared
  <2> QED
    BY <1>2, <1>3, <2>0, <2>1, <2>2, <2>3 DEF TimePart, WaitJustOver, hasProcessTime, IsShared
<1>6. ASSUME NEW v \in Workers, v # w PROVE WaitPart(v)' /\ TimePart(v)'
  <2>0. WaitPart(v) /\ TimePart(v)
    BY DEF IndInv, WaitInv, TimeInv
  <2>1. CASE owner # w
    <3>1. ptime' = ptime
      BY <1>1, <2>1
    <3> QED
      BY <1>1, <1>6, <2>0, <3>1, OthersKept
  <2>2. CASE owner = w
    <3>1. ~Holding(v) /\ ~Holding(v)' /\ pc[v] # "locked"
      BY <1>0, <1>1, <1>6, <2>2 DEF Holding, LockInv
    <3>2. /\ MovedPart(v)' = MovedPart(v) /\ EventToMove(v)' = EventToMove(v)
          /\ InBlock(v)' = InBlock(v)
      BY <1>1, <1>6 DEF MovedPart, EventToMove, InBlock, Forward
    <3>3. NoneTimedMoved(v)' = NoneTimedMoved(v)
      BY <1>1, <3>2 DEF NoneTimedMoved
    <3> QED
      BY <1>1, <1>6, <2>0, <3>1, <3>2, <3>3 DEF WaitPart, TimePart
  <2> QED
    BY <2>1, <2>2
<1> QED
  BY <1>4, <1>5, <1>6 DEF WaitInv, TimeInv

-----------------------------------------------------------------------------
\* Taking back an event of a block whose wait was given up.
LEMMA RewindOrder ==
  ASSUME IndInv, NEW w \in Workers, RewindBlock(w)
  PROVE  ptime' = ptime /\ WaitInv' /\ TimeInv' /\ OrderInv'
<1>0. /\ TypeOK /\ BlockInv /\ LockInv /\ pc[w] = "rewinding" /\ InBlock(w)
      /\ owner # w /\ WaitPart(w) /\ ~Holding(w)
  BY DEF IndInv, RewindBlock, InBlock, LockInv, WaitInv, Holding
<1>1. /\ UNCHANGED <<trace, req, rewind, owner, complete>>
      /\ \A v \in Workers : v # w => next'[v] = next[v] /\ pc'[v] = pc[v]
      /\ pc'[w] \in {"rewinding", "after"} /\ Forward' = Forward
  BY <1>0 DEF RewindBlock, UndoEvent, addNextEvent, removePreviousEvent, Goto,
              TypeOK, procState, movement, Forward
<1>2. NoneTimedMoved(w)
  BY <1>0 DEF WaitPart
<1>3. /\ ptime' = ptime
      /\ MovedPart(w)' \subseteq MovedPart(w)
      /\ \A i \in 1..Len(trace[w]) : IsShared(w, i) => (Added(w, i)' <=> Added(w, i))
  <2>1. CASE next[w] = rewind[w]
    BY <1>1, <2>1 DEF RewindBlock, procState, MovedPart, Added
  <2>2. CASE next[w] # rewind[w] /\ Forward
    <3>1. removePreviousEvent(w) /\ rewind[w] <= next[w]
      BY <1>0, <2>2 DEF RewindBlock, UndoEvent, BlockInv
    <3>2. next'[w] = next[w] - 1
      BY <1>0, <3>1 DEF removePreviousEvent, TypeOK
    <3>3. next[w] \in MovedPart(w)
      BY <1>0, <2>2, <3>1, Bounds DEF MovedPart
    <3>4. ~hasProcessTime(trace[w][next[w]])
      BY <1>2, <3>3 DEF NoneTimedMoved
    <3>5. ptime' = ptime
      BY <3>1, <3>4 DEF removePreviousEvent, hasProcessTime
    <3>6. MovedPart(w)' = (rewind[w] + 1)..(next[w] - 1)
      BY <1>1, <2>2, <3>2 DEF MovedPart
    <3>7. MovedPart(w)' \subseteq MovedPart(w)
      <4>1. MovedPart(w) = (rewind[w] + 1)..next[w]
        BY <2>2 DEF MovedPart
      <4> QED
        BY <3>6, <4>1, <1>0, Bounds
    <3>8. ~IsShared(w, next[w])
      BY <3>4 DEF IsShared, hasProcessTime
    <3>9. \A i \in 1..Len(trace[w]) : i # next[w] => (Added(w, i)' <=> Added(w, i))
      BY <3>2, <1>0, Bounds DEF Added
    <3> QED
      BY <3>5, <3>7, <3>8, <3>9
  <2>3. CASE next[w] # rewind[w] /\ ~Forward
    <3>1. addNextEvent(w) /\ next[w] <= rewind[w]
      BY <1>0, <2>3 DEF RewindBlock, UndoEvent, BlockInv
    <3>2. next'[w] = next[w] + 1
      BY <1>0, <3>1 DEF addNextEvent, TypeOK
    <3>3. next[w] + 1 \in MovedPart(w)
      BY <1>0, <2>3, <3>1, Bounds DEF MovedPart
    <3>4. ~hasProcessTime(trace[w][next[w] + 1])
      BY <1>2, <3>3 DEF NoneTimedMoved
    <3>5. ptime' = ptime
      BY <3>1, <3>4 DEF addNextEvent, hasProcessTime
    <3>6. MovedPart(w)' = ((next[w] + 1) + 1)..rewind[w]
      BY <1>1, <2>3, <3>2 DEF MovedPart
    <3>7. MovedPart(w)' \subseteq MovedPart(w)
      <4>1. MovedPart(w) = (next[w] + 1)..rewind[w]
        BY <2>3 DEF MovedPart
      <4> QED
        BY <3>6, <4>1, <1>0, Bounds
    <3>8. ~IsShared(w, next[w] + 1)
      BY <3>4 DEF IsShared, hasProcessTime
    <3>9. \A i \in 1..Len(trace[w]) : i # next[w] + 1 => (Added(w, i)' <=> Added(w, i))
      BY <3>2, <1>0, Bounds DEF Added
    <3> QED
      BY <3>5, <3>7, <3>8, <3>9
  <2> QED
    BY <2>1, <2>2, <2>3
<1>4. WaitPart(w)' /\ TimePart(w)'
  <2>1. NoneTimedMoved(w)'
    BY <1>1, <1>2, <1>3 DEF NoneTimedMoved
  <2> QED
    BY <2>1, <1>1 DEF WaitPart, TimePart, Holding
<1>5. ASSUME NEW v \in Workers, v # w PROVE WaitPart(v)' /\ TimePart(v)'
  BY <1>1, <1>3, <1>5, OthersKept DEF IndInv, WaitInv, TimeInv
<1>6. ASSUME NEW v \in Workers, NEW i \in 1..Len(trace[v]) PROVE OrderPart(v, i)'
  <2>1. OrderPart(v, i) /\ IsShared(v, i)' = IsShared(v, i)
    BY <1>1 DEF IndInv, OrderInv, IsShared
  <2>2. v # w => Pending(v, i)' = Pending(v, i) /\ Added(v, i)' = Added(v, i)
    BY <1>1 DEF Pending, Holding, MovedPart, Forward, IsShared, Added
  <2>3. ~Pending(w, i)
    BY <1>0 DEF Pending
  <2> QED
    BY <1>1, <1>3, <2>1, <2>2, <2>3 DEF OrderPart
<1> QED
  BY <1>1, <1>3, <1>4, <1>5, <1>6 DEF WaitInv, TimeInv, OrderInv

-----------------------------------------------------------------------------
\* A step of w that only changes where w is and whether it has the mutex.
LEMMA ControlOrder ==
  ASSUME IndInv, NEW w \in Workers,
         UNCHANGED <<trace, next, ptime, req>>, complete => complete',
         \A v \in Workers : v # w => /\ pc'[v] = pc[v] /\ rewind'[v] = rewind[v]
                                     /\ (owner' = v) <=> (owner = v),
         WaitPart(w)', TimePart(w)', ~Holding(w)
  PROVE  WaitInv' /\ TimeInv' /\ OrderInv'
<1>1. ASSUME NEW v \in Workers, v # w PROVE WaitPart(v)' /\ TimePart(v)'
  BY <1>1, OthersKept DEF IndInv, WaitInv, TimeInv
<1>2. \A v \in Workers : Holding(v) => Holding(v)' /\ rewind'[v] = rewind[v]
  BY DEF Holding
<1>3. OrderInv'
  BY <1>2, OrderKept DEF IndInv
<1> QED
  BY <1>1, <1>3 DEF WaitInv, TimeInv

\* With every worker at rest nothing is pending, whatever the direction is.
LEMMA RestOrder ==
  ASSUME IndInv, UNCHANGED <<trace, next, ptime>>,
         \A v \in Workers : pc[v] \in {"idle", "done"},
         \A v \in Workers : pc'[v] \in {"idle", "loop"}
  PROVE  WaitInv' /\ TimeInv' /\ OrderInv'
<1>1. WaitInv' /\ TimeInv'
  BY DEF WaitInv, TimeInv, WaitPart, TimePart, InBlock, Holding
<1>2. ASSUME NEW v \in Workers, NEW i \in 1..Len(trace[v]) PROVE OrderPart(v, i)'
  <2>1. IsShared(v, i) => (Added(v, i) <=> trace[v][i].time <= ptime)
    BY OrderAtRest DEF IndInv, Holding
  <2>2. IsShared(v, i)' = IsShared(v, i) /\ Added(v, i)' = Added(v, i)
    BY DEF IsShared, Added
  <2> QED
    BY <2>1, <2>2 DEF OrderPart
<1> QED
  BY <1>1, <1>2 DEF OrderInv

LEMMA OrderNext ==
  ASSUME IndInv, RecordingsInOrder, [Next]_vars
  PROVE  WaitInv' /\ TimeInv' /\ OrderInv'
<1> DEFINE Goal == WaitInv' /\ TimeInv' /\ OrderInv'
<1>0. TypeOK /\ LockInv /\ BlockInv
  BY DEF IndInv
<1>1. ASSUME NEW w \in Workers, HandleEvent(w) PROVE Goal
  BY <1>1, HandleTime, HandleLocalOrder, HandleSharedOrder
<1>2. ASSUME NEW w \in Workers, RewindBlock(w) PROVE Goal
  BY <1>2, RewindOrder
<1>3. ASSUME NEW w \in Workers, LoopTest(w) PROVE Goal
  <2>1. /\ UNCHANGED <<trace, next, ptime, req, owner, complete>>
        /\ \A v \in Workers : v # w => pc'[v] = pc[v] /\ rewind'[v] = rewind[v]
        /\ pc[w] = "loop" /\ owner # w
        /\ pc'[w] = "done" \/ (pc'[w] = "event" /\ rewind'[w] = next[w])
    BY <1>0, <1>3 DEF LoopTest, Goto, TypeOK, LockInv, procState, movement
  <2>2. pc'[w] = "event" => MovedPart(w)' = {}
    <3> SUFFICES ASSUME pc'[w] = "event" PROVE MovedPart(w)' = {}
      OBVIOUS
    <3>1. MovedPart(w)' = (next[w] + 1)..next[w]
      BY <2>1 DEF MovedPart
    <3> QED
      BY <3>1, <1>0, Bounds
  <2>3. WaitPart(w)' /\ TimePart(w)' /\ ~Holding(w)
    BY <2>1, <2>2 DEF WaitPart, TimePart, Holding, NoneTimedMoved, InBlock
  <2> QED
    BY <2>1, <2>3, ControlOrder
<1>4. ASSUME NEW w \in Workers, Lock(w) PROVE Goal
  <2>1. /\ UNCHANGED <<trace, next, ptime, req, rewind, complete>>
        /\ \A v \in Workers : v # w => pc'[v] = pc[v] /\ ((owner' = v) <=> (owner = v))
        /\ owner # w /\ pc'[w] = "test" /\ InBlock(w)
    BY <1>0, <1>4, WorkersAssumption
       DEF Lock, Goto, TypeOK, procState, movement, InBlock
  <2>2. ~Holding(w) /\ NoneTimedMoved(w)
    BY <2>1 DEF Holding, IndInv, WaitInv, WaitPart
  <2>3. hasProcessTime(EventToMove(w))
    BY <1>4 DEF Lock, NeedsNoLock, IndInv, WaitInv, WaitPart
  <2>4. NoneTimedMoved(w)' /\ hasProcessTime(EventToMove(w))'
    BY <2>1, <2>2, <2>3 DEF NoneTimedMoved, MovedPart, EventToMove, Forward
  <2>5. WaitPart(w)' /\ TimePart(w)'
    BY <2>1, <2>4 DEF WaitPart, TimePart, Holding
  <2> QED
    BY <2>1, <2>2, <2>5, ControlOrder
<1>5. ASSUME NEW w \in Workers, TestWait(w) PROVE Goal
  <2>1. /\ UNCHANGED <<trace, next, ptime, req, rewind, complete, owner>>
        /\ \A v \in Workers : v # w => pc'[v] = pc[v]
        /\ pc[w] = "test" /\ InBlock(w) /\ ~Holding(w)
        /\ pc'[w] = IF complete \/ TimeReached(w) THEN "locked" ELSE "blocking"
    BY <1>0, <1>5 DEF TestWait, Goto, TypeOK, procState, movement, InBlock, Holding
  <2>2. NoneTimedMoved(w) /\ hasProcessTime(EventToMove(w))
    BY <2>1 DEF IndInv, WaitInv, WaitPart
  <2>3. /\ NoneTimedMoved(w)' /\ hasProcessTime(EventToMove(w))'
        /\ TimeReached(w)' = TimeReached(w)
    BY <2>1, <2>2 DEF NoneTimedMoved, MovedPart, EventToMove, Forward, TimeReached
  <2>4. WaitPart(w)' /\ TimePart(w)'
    BY <2>1, <2>3 DEF WaitPart, TimePart, Holding
  <2> QED
    BY <2>1, <2>4, ControlOrder
<1>6. ASSUME NEW w \in Workers, Block(w) \/ WakeSpuriously(w) PROVE Goal
  <2>1. /\ UNCHANGED <<trace, next, ptime, req, rewind, complete>>
        /\ \A v \in Workers : v # w => pc'[v] = pc[v] /\ ((owner' = v) <=> (owner = v))
        /\ pc[w] \in {"blocking", "waiting"} /\ InBlock(w) /\ ~Holding(w)
        /\ pc'[w] \in {"waiting", "woken"}
    BY <1>0, <1>6, WorkersAssumption
       DEF Block, WakeSpuriously, Goto, TypeOK, LockInv, procState, movement, InBlock,
           Holding
  <2>2. NoneTimedMoved(w) /\ hasProcessTime(EventToMove(w))
    BY <2>1 DEF IndInv, WaitInv, WaitPart
  <2>3. NoneTimedMoved(w)' /\ hasProcessTime(EventToMove(w))'
    BY <2>1, <2>2 DEF NoneTimedMoved, MovedPart, EventToMove, Forward
  <2>4. WaitPart(w)' /\ TimePart(w)'
    BY <2>1, <2>3 DEF WaitPart, TimePart, Holding
  <2> QED
    BY <2>1, <2>4, ControlOrder
<1>7. ASSUME NEW w \in Workers, WaitReturns(w) PROVE Goal
  <2>1. /\ UNCHANGED <<trace, next, ptime, req, rewind, complete>>
        /\ \A v \in Workers : v # w => pc'[v] = pc[v] /\ ((owner' = v) <=> (owner = v))
        /\ pc[w] = "locked" /\ InBlock(w) /\ ~Holding(w)
        /\ pc'[w] = IF complete THEN "rewinding" ELSE "event"
        /\ ~complete => owner' = w
    BY <1>0, <1>7, WorkersAssumption
       DEF WaitReturns, Goto, Release, TypeOK, LockInv, procState, movement, InBlock,
           Holding
  <2>2. NoneTimedMoved(w) /\ hasProcessTime(EventToMove(w)) /\ (complete \/ TimeReached(w))
    BY <2>1 DEF IndInv, WaitInv, WaitPart
  <2>3. /\ NoneTimedMoved(w)' /\ hasProcessTime(EventToMove(w))'
        /\ TimeReached(w)' = TimeReached(w)
    BY <2>1, <2>2 DEF NoneTimedMoved, MovedPart, EventToMove, Forward, TimeReached
  <2>4. WaitPart(w)' /\ TimePart(w)'
    BY <2>1, <2>2, <2>3 DEF WaitPart, TimePart, Holding, WaitJustOver
  <2> QED
    BY <2>1, <2>4, ControlOrder
<1>8. ASSUME NEW w \in Workers,
             \/ TestComplete(w) \/ SatisfyPredicate(w)
             \/ FailPredicate(w) \/ EndIteration(w)
      PROVE  Goal
  <2>1. /\ UNCHANGED <<trace, next, ptime, req, rewind>> /\ (complete => complete')
        /\ \A v \in Workers : v # w => pc'[v] = pc[v] /\ ((owner' = v) <=> (owner = v))
        /\ ~Holding(w)
        /\ pc'[w] \in {"break", "predicates", "notify", "again", "done", "loop"}
    BY <1>0, <1>8, WorkersAssumption
       DEF TestComplete, SatisfyPredicate, FailPredicate, EndIteration, Goto, Release,
           TypeOK, procState, movement, Holding
  <2>2. WaitPart(w)' /\ TimePart(w)'
    BY <2>1 DEF WaitPart, TimePart, Holding, InBlock
  <2> QED
    BY <2>1, <2>2, ControlOrder
<1>9. ASSUME NEW w \in Workers, NotifyAll(w) PROVE Goal
  <2>1. /\ UNCHANGED <<trace, next, ptime, req, rewind, complete, owner>>
        /\ pc[w] = "notify" /\ pc'[w] = "break"
        /\ \A v \in Workers : v # w /\ pc[v] # "waiting" => pc'[v] = pc[v]
        /\ \A v \in Workers : v # w /\ pc[v] = "waiting" => pc'[v] = "woken"
    BY <1>9 DEF NotifyAll, TypeOK, procState, movement
  <2>2. ASSUME NEW v \in Workers PROVE WaitPart(v)' /\ TimePart(v)'
    <3>0. WaitPart(v) /\ TimePart(v)
      BY DEF IndInv, WaitInv, TimeInv
    <3>1. CASE v = w
      BY <2>1, <3>1 DEF WaitPart, TimePart, Holding, InBlock
    <3>2. CASE v # w /\ pc[v] # "waiting"
      BY <2>1, <3>0, <3>2, OthersKept
    <3>3. CASE v # w /\ pc[v] = "waiting"
      <4>1. NoneTimedMoved(v) /\ hasProcessTime(EventToMove(v))
        BY <3>0, <3>3 DEF WaitPart, InBlock, Holding
      <4>2. NoneTimedMoved(v)' /\ hasProcessTime(EventToMove(v))'
        BY <2>1, <4>1 DEF NoneTimedMoved, MovedPart, EventToMove, Forward
      <4> QED
        BY <2>1, <3>3, <4>2 DEF WaitPart, TimePart, Holding
    <3> QED
      BY <3>1, <3>2, <3>3
  <2>3. \A v \in Workers : Holding(v) => Holding(v)' /\ rewind'[v] = rewind[v]
    BY <2>1 DEF Holding
  <2>4. OrderInv'
    BY <2>1, <2>3, OrderKept DEF IndInv
  <2> QED
    BY <2>2, <2>4 DEF WaitInv, TimeInv
<1>10. ASSUME NEW r \in Request, Begin(r) \/ Refuse(r) PROVE Goal
  BY <1>10, RestOrder DEF Begin, Refuse, procState
<1>11. ASSUME Join PROVE Goal
  BY <1>11, RestOrder DEF Join, procState
<1>12. CASE UNCHANGED vars
  <2>1. /\ UNCHANGED <<trace, next, ptime, req, rewind, complete, owner, pc>>
    BY <1>12 DEF vars, procState, movement
  <2>2. OrderInv'
    BY <2>1, OrderKept DEF IndInv, Holding
  <2>3. \A v \in Workers : WaitPart(v)' /\ TimePart(v)'
    BY <2>1, OthersKept DEF IndInv, WaitInv, TimeInv
  <2> QED
    BY <2>2, <2>3 DEF WaitInv, TimeInv
<1> QED
  BY <1>1, <1>2, <1>3, <1>4, <1>5, <1>6, <1>7, <1>8, <1>9, <1>10, <1>11, <1>12
     DEF Next, WorkerStep

-----------------------------------------------------------------------------
\* The inductive invariant holds in every reachable state.
LEMMA Inductive == ASSUME RecordingsInOrder PROVE Spec => []IndInv
<1>1. Init => IndInv
  BY BaseInit, OrderInit DEF Base, IndInv
<1>2. IndInv /\ [Next]_vars => IndInv'
  BY BaseNext, OrderNext DEF Base, IndInv
<1> QED
  BY <1>1, <1>2, PTL DEF Spec

(***************************************************************************)
(* If the recorder gave shared events unique times and the times in a block *)
(* go on from the one that its wait is for, then however the workers of     *)
(* addNextEventBlock and removePreviousEventBlock are scheduled, and        *)
(* wherever movements stop, the shared events added are those up to the     *)
(* process time whenever the mutex is free.                                 *)
(***************************************************************************)
THEOREM SharedOrder ==
  ASSUME RecordingsInOrder PROVE Spec => []SharedEventsInOrder
<1>1. ASSUME IndInv PROVE SharedEventsInOrder
  BY <1>1, WorkersAssumption, OrderAtRest
     DEF SharedEventsInOrder, IndInv, Holding
<1> QED
  BY <1>1, Inductive, PTL

(***************************************************************************)
(* ProcessState::ProcessTime is written by the owner of ProcessStateMutex   *)
(* only, and moves one unit at a time in either direction.                  *)
(***************************************************************************)
THEOREM TimeUnderLock ==
  ASSUME RecordingsInOrder PROVE Spec => TimeMovesUnderLock
<1> DEFINE Step == ptime' # ptime => /\ owner # NoWorker /\ owner' = owner
                                     /\ ptime' \in {ptime - 1, ptime + 1}
<1>1. ASSUME IndInv, [Next]_vars PROVE [Step]_vars
  <2>1. ASSUME NEW w \in Workers, HandleEvent(w) PROVE Step
    <3> DEFINE t == trace[w][MovedPosition(w)].time
    <3>0. TypeOK /\ BlockInv /\ ptime \in Nat
      BY <1>1 DEF IndInv, TypeOK
    <3>1. /\ owner' = owner /\ pc[w] = "event"
          /\ MovedPosition(w) \in 1..Len(trace[w])
          /\ IsShared(w, MovedPosition(w)) =>
               owner = w /\ ptime' = IF Forward THEN t ELSE t - 1
          /\ ~IsShared(w, MovedPosition(w)) => ptime' = ptime
      BY <2>1, <3>0, HandleFacts
    <3>2. CASE ~IsShared(w, MovedPosition(w))
      BY <3>1, <3>2
    <3>3. CASE IsShared(w, MovedPosition(w)) /\ Forward
      <4>1. Holding(w)
        BY <3>1, <3>3 DEF Holding
      <4>2. t = ptime \/ t = ptime + 1
        BY <4>1, <3>3, <1>1, ForwardTime DEF MovedPosition
      <4>3. ptime' = t /\ owner = w /\ owner # NoWorker
        BY <3>1, <3>3, WorkersAssumption
      <4> QED
        BY <4>2, <4>3, <3>0, <3>1
    <3>4. CASE IsShared(w, MovedPosition(w)) /\ ~Forward
      <4>1. Holding(w)
        BY <3>1, <3>4 DEF Holding
      <4>2. t = ptime \/ t = ptime + 1
        BY <4>1, <3>4, <1>1, BackwardTime DEF MovedPosition
      <4>3. ptime' = t - 1 /\ owner = w /\ owner # NoWorker
        BY <3>1, <3>4, WorkersAssumption
      <4> QED
        BY <4>2, <4>3, <3>0, <3>1
    <3> QED
      BY <3>2, <3>3, <3>4
  <2>2. ASSUME NEW w \in Workers, RewindBlock(w) PROVE Step
    BY <1>1, <2>2, RewindOrder
  <2>3. ASSUME NEW w \in Workers,
               \/ LoopTest(w) \/ Lock(w) \/ TestWait(w) \/ Block(w) \/ WaitReturns(w)
               \/ TestComplete(w) \/ SatisfyPredicate(w) \/ FailPredicate(w)
               \/ NotifyAll(w) \/ EndIteration(w) \/ WakeSpuriously(w)
        PROVE  Step
    BY <2>3 DEF LoopTest, Lock, TestWait, Block, WaitReturns, TestComplete,
                SatisfyPredicate, FailPredicate, NotifyAll, EndIteration,
                WakeSpuriously, procState
  <2>4. ASSUME NEW r \in Request, Begin(r) \/ Refuse(r) PROVE Step
    BY <2>4 DEF Begin, Refuse, procState
  <2>5. ASSUME Join PROVE Step
    BY <2>5 DEF Join, procState
  <2> QED
    BY <1>1, <2>1, <2>2, <2>3, <2>4, <2>5 DEF Next, WorkerStep
<1>2. Spec => []IndInv
  BY Inductive
<1> QED
  BY <1>1, <1>2, PTL DEF Spec, TimeMovesUnderLock

(***************************************************************************)
(* A thread that moves forward never sees a time that the process has not   *)
(* reached: the view that addNextEvent gives it is that of a shared event,  *)
(* which sets the process time itself, or of a NewProcessTime, which begins *)
(* a block, so that the wait of the block was for it.                       *)
(***************************************************************************)
THEOREM SeenTime ==
  ASSUME RecordingsInOrder PROVE Spec => SeenTimeIsReached
<1> DEFINE Step == Forward => \A w \in Workers : view'[w] # view[w] => view'[w] <= ptime'
<1>1. ASSUME IndInv, [Next]_vars PROVE [Step]_vars
  <2>1. ASSUME NEW w \in Workers, HandleEvent(w) PROVE Step
    <3> SUFFICES ASSUME Forward PROVE \A v \in Workers : view'[v] # view[v] => view'[v] <= ptime'
      OBVIOUS
    <3> DEFINE e == trace[w][next[w] + 1]
    <3>0. /\ TypeOK /\ BlockInv /\ ptime \in Nat /\ pc[w] = "event" /\ InBlock(w)
          /\ TimePart(w) /\ view \in [Workers -> Nat]
      BY <1>1, <2>1 DEF IndInv, TypeOK, TimeInv, HandleEvent, InBlock
    <3>1. next[w] \in Nat /\ rewind[w] \in Nat /\ rewind[w] <= next[w] /\ next[w] < Len(trace[w])
      BY <3>0, Bounds DEF BlockInv
    <3>2. e.time \in Nat
      BY <3>0, <3>1, TraceType, Bounds
    <3>3. /\ view' = IF hasProcessTime(e) THEN [view EXCEPT ![w] = e.time] ELSE view
          /\ ptime' = IF e.type = "State" THEN e.time ELSE ptime
          /\ owner = w \/ ~hasProcessTime(e)
      BY <2>1 DEF HandleEvent, MoveEvent, addNextEvent, NeedsNoLock, EventToMove
    <3>4. CASE ~hasProcessTime(e)
      BY <3>3, <3>4
    <3>5. CASE e.type = "State"
      BY <3>0, <3>2, <3>3, <3>5
    <3>6. CASE e.type = "NewProcessTime"
      <4>1. Holding(w)
        BY <3>0, <3>3, <3>6 DEF Holding, hasProcessTime
      <4>2. rewind[w] = next[w]
        <5>1. \A k \in (rewind[w] + 2)..(next[w] + 1) : ~isBlockStart(trace[w][k])
          BY <3>0 DEF BlockInv
        <5>2. isBlockStart(e)
          BY <3>6 DEF isBlockStart
        <5> QED
          BY <5>1, <5>2, <3>1
      <4>3. MovedPart(w) = {}
        BY <4>2, <3>1 DEF MovedPart
      <4>4. TimeReached(w)
        BY <4>1, <4>3, <3>0 DEF TimePart, TimedMoved, WaitJustOver
      <4>5. ptime >= e.time
        BY <4>4, <3>6 DEF TimeReached, EventToMove, modifiesSharedState
      <4> QED
        BY <4>5, <3>0, <3>2, <3>3, <3>6
    <3> QED
      BY <3>4, <3>5, <3>6 DEF hasProcessTime
  <2>2. ASSUME NEW w \in Workers, RewindBlock(w) PROVE Step
    <3> SUFFICES ASSUME Forward PROVE view' = view
      OBVIOUS
    <3>1. /\ TypeOK /\ BlockInv /\ LockInv /\ pc[w] = "rewinding" /\ InBlock(w)
          /\ WaitPart(w) /\ ~Holding(w)
      BY <1>1, <2>2 DEF IndInv, RewindBlock, InBlock, WaitInv, Holding
    <3>2. NoneTimedMoved(w)
      BY <3>1 DEF WaitPart
    <3>3. CASE next[w] = rewind[w]
      BY <2>2, <3>3 DEF RewindBlock, procState
    <3>4. CASE next[w] # rewind[w]
      <4>1. removePreviousEvent(w) /\ rewind[w] <= next[w]
        BY <2>2, <3>1, <3>4 DEF RewindBlock, UndoEvent, BlockInv
      <4>2. next[w] \in MovedPart(w)
        BY <3>1, <3>4, <4>1, Bounds DEF MovedPart
      <4>3. ~hasProcessTime(trace[w][next[w]])
        BY <3>2, <4>2 DEF NoneTimedMoved
      <4> QED
        BY <4>1, <4>3 DEF removePreviousEvent
    <3> QED
      BY <3>3, <3>4
  <2>3. ASSUME NEW w \in Workers,
               \/ LoopTest(w) \/ Lock(w) \/ TestWait(w) \/ Block(w) \/ WaitReturns(w)
               \/ TestComplete(w) \/ SatisfyPredicate(w) \/ FailPredicate(w)
               \/ NotifyAll(w) \/ EndIteration(w) \/ WakeSpuriously(w)
        PROVE  Step
    BY <2>3 DEF LoopTest, Lock, TestWait, Block, WaitReturns, TestComplete,
                SatisfyPredicate, FailPredicate, NotifyAll, EndIteration,
                WakeSpuriously, procState
  <2>4. ASSUME NEW r \in Request, Begin(r) \/ Refuse(r) PROVE Step
    BY <2>4 DEF Begin, Refuse, procState
  <2>5. ASSUME Join PROVE Step
    BY <2>5 DEF Join, procState
  <2> QED
    BY <1>1, <2>1, <2>2, <2>3, <2>4, <2>5 DEF Next, WorkerStep
<1>2. Spec => []IndInv
  BY Inductive
<1> QED
  BY <1>1, <1>2, PTL DEF Spec, SeenTimeIsReached

-----------------------------------------------------------------------------
(***************************************************************************)
(* What a movement returns is what it did: the proof, for any number of     *)
(* workers and any recordings that satisfy RecordingsInOrder.               *)
(***************************************************************************)

-----------------------------------------------------------------------------
(***************************************************************************)
(* The inductive invariant: IndInv, RestInv and the following.              *)
(***************************************************************************)
ViewInv == \A w \in Workers : view[w] = ViewAfter(trace[w], next[w])

\* Every time up to the process time is that of a shared event: a worker waits
\* for each time before it goes on to the next.
TimesExist ==
  \A n \in 1..ptime : \E w \in Workers : \E i \in 1..Len(trace[w]) :
    IsShared(w, i) /\ trace[w][i].time = n

\* The process time that belongs to the positions n of the threads.
TimesUpTo(n) == {0} \cup UNION {{trace[w][i].time :
                   i \in {j \in 1..n[w] : IsShared(w, j)}} : w \in Workers}

\* What complete and the program counters say of each other.
ControlInv ==
  /\ satisfied = complete /\ (complete => Workers # {})
  /\ result # "None" => \A w \in Workers : pc[w] = "idle"
  /\ \A w \in Workers :
       /\ pc[w] \in {"notify", "break", "rewinding"} => complete
       /\ pc[w] = "done" => complete \/ AtLimit(w)

\* Where w stood when it began its block, and stands if it is in none.
Standing(w) == IF InBlock(w) THEN rewind[w] ELSE next[w]

BeginInv ==
  /\ begin.ptime = Max(TimesUpTo(begin.next))
  /\ result = "None" /\ ~moved => \A w \in Workers : Standing(w) = begin.next[w]

\* The thread of a thread step moves one block and is the one to complete it.
OneBlockMoved(w) ==
  IF Forward THEN BlockBetween(trace[w], begin.next[w], next[w])
             ELSE BlockBetween(trace[w], next[w], begin.next[w])

ThreadPart(w) ==
  /\ pc[w] # "again"
  /\ pc[w] = "loop" => next[w] = begin.next[w]
  /\ InBlock(w) => rewind[w] = begin.next[w]
  /\ pc[w] \in {"after", "predicates"} \/ complete => OneBlockMoved(w)
  /\ complete => pc[w] \in {"notify", "break", "done"}

ThreadStepInv == result = "None" /\ req.kind = "threadStep" => ThreadPart(req.who)

\* The process time of a process step changes in one block of one owner of the
\* mutex, who then completes the movement before the mutex is free again.
LowTime  == IF Forward THEN begin.ptime ELSE ptime
HighTime == IF Forward THEN ptime ELSE begin.ptime

TimesMoved(w) ==
  \E i, j \in MovedPart(w) :
    /\ i \in 1..Len(trace[w]) /\ j \in 1..Len(trace[w])
    /\ IsShared(w, i) /\ trace[w][i].time = LowTime + 1
    /\ IsShared(w, j) /\ trace[w][j].time = HighTime
    /\ i <= j /\ SameBlock(trace[w], i, j)
    /\ LowTime < HighTime

Moving(w) == owner = w /\ pc[w] \in {"event", "after", "predicates"} /\ TimesMoved(w)

ProcessPart ==
  IF complete
  THEN (\A w \in Workers : ~Holding(w)) /\ OneBlockOfTimes(LowTime, HighTime)
  ELSE ptime = begin.ptime \/ \E w \in Workers : Moving(w)

ProcessStepInv == result = "None" /\ req.kind = "processStep" => ProcessPart

Truth ==
  /\ IndInv /\ RestInv /\ ViewInv /\ TimesExist /\ ControlInv /\ BeginInv
  /\ ThreadStepInv /\ ProcessStepInv /\ ResultIsTruthful

-----------------------------------------------------------------------------
(***************************************************************************)
(* Lemmas about the operators.                                              *)
(***************************************************************************)
LEMMA MaxIs ==
  ASSUME NEW S \in SUBSET Nat, NEW m \in S, \A y \in S : m >= y
  PROVE  Max(S) = m
<1>1. \A y \in S : Max(S) >= y
  BY DEF Max
<1>2. Max(S) \in S
  BY DEF Max
<1>3. Max(S) >= m /\ m >= Max(S)
  BY <1>1, <1>2
<1>4. Max(S) \in Nat /\ m \in Nat
  BY <1>2
<1> QED
  BY <1>3, <1>4

\* The view after n events is the time of the last of them that has one.
LEMMA ViewOfLast ==
  ASSUME NEW s, NEW n \in Nat, NEW i, IsLastTimed(s, n, i)
  PROVE  ViewAfter(s, n) = s[i].time
<1> DEFINE c == CHOOSE j \in 1..n : IsLastTimed(s, n, j)
<1>1. i \in 1..n
  BY DEF IsLastTimed
<1>2. c \in 1..n /\ IsLastTimed(s, n, c)
  BY <1>1
<1>3. ~(i < c) /\ ~(c < i)
  BY <1>1, <1>2 DEF IsLastTimed
<1>4. c = i
  BY <1>1, <1>2, <1>3
<1> QED
  BY <1>1, <1>4 DEF ViewAfter

LEMMA ViewTimed ==
  ASSUME NEW s, NEW n \in Nat, hasProcessTime(s[n + 1])
  PROVE  ViewAfter(s, n + 1) = s[n + 1].time
<1>1. IsLastTimed(s, n + 1, n + 1)
  BY DEF IsLastTimed
<1> QED
  BY <1>1, ViewOfLast

LEMMA ViewUntimed ==
  ASSUME NEW s, NEW n \in Nat, ~hasProcessTime(s[n + 1])
  PROVE  ViewAfter(s, n + 1) = ViewAfter(s, n)
<1>1. \A i : IsLastTimed(s, n + 1, i) <=> IsLastTimed(s, n, i)
  <2> SUFFICES ASSUME NEW i PROVE IsLastTimed(s, n + 1, i) <=> IsLastTimed(s, n, i)
    OBVIOUS
  <2>1. IsLastTimed(s, n + 1, i) => IsLastTimed(s, n, i)
    BY DEF IsLastTimed
  <2>2. ASSUME IsLastTimed(s, n, i) PROVE IsLastTimed(s, n + 1, i)
    <3>1. i \in 1..(n + 1)
      BY <2>2 DEF IsLastTimed
    <3>2. \A k \in (i + 1)..(n + 1) : k = n + 1 \/ k \in (i + 1)..n
      BY <3>1
    <3> QED
      BY <2>2, <3>1, <3>2 DEF IsLastTimed
  <2> QED
    BY <2>1, <2>2
<1>2. CASE \E i \in 1..n : IsLastTimed(s, n, i)
  <2>1. PICK i : IsLastTimed(s, n, i)
    BY <1>2
  <2>2. ViewAfter(s, n + 1) = s[i].time /\ ViewAfter(s, n) = s[i].time
    BY <1>1, <2>1, ViewOfLast
  <2> QED
    BY <2>2
<1>3. CASE ~\E i \in 1..n : IsLastTimed(s, n, i)
  <2>1. ~\E i \in 1..(n + 1) : IsLastTimed(s, n + 1, i)
    BY <1>1, <1>3 DEF IsLastTimed
  <2> QED
    BY <1>3, <2>1 DEF ViewAfter
<1> QED
  BY <1>2, <1>3

-----------------------------------------------------------------------------
(***************************************************************************)
(* The steps, as far as the following proofs tell them apart.               *)
(***************************************************************************)
\* A step of worker w that moves no event.
Quiet(w) ==
  \/ LoopTest(w) \/ Lock(w) \/ TestWait(w) \/ Block(w) \/ WaitReturns(w)
  \/ TestComplete(w) \/ SatisfyPredicate(w) \/ FailPredicate(w) \/ NotifyAll(w)
  \/ EndIteration(w) \/ WakeSpuriously(w)

LEMMA StepKinds ==
  ASSUME [Next]_vars
  PROVE  \/ \E w \in Workers : HandleEvent(w) \/ RewindBlock(w) \/ Quiet(w)
         \/ \E r \in Request : Begin(r) \/ Refuse(r)
         \/ Join
         \/ UNCHANGED vars
BY DEF Next, WorkerStep, Quiet

LEMMA QuietFacts ==
  ASSUME NEW w \in Workers, Quiet(w)
  PROVE  UNCHANGED <<trace, next, ptime, view, req, moved, begin, result>>
BY DEF Quiet, LoopTest, Lock, TestWait, Block, WaitReturns, TestComplete,
       SatisfyPredicate, FailPredicate, NotifyAll, EndIteration, WakeSpuriously,
       procState, movement

\* A worker that rewinds undoes an event or has come to the end of it.
LEMMA RewindFacts ==
  ASSUME TypeOK, BlockInv, NEW w \in Workers, RewindBlock(w)
  PROVE  /\ UNCHANGED <<trace, movement, rewind, owner>>
         /\ pc[w] = "rewinding"
         /\ \A v \in Workers : v # w => next'[v] = next[v] /\ pc'[v] = pc[v]
         /\ \/ /\ next[w] # rewind[w] /\ pc' = pc
               /\ \/ Forward /\ 1 <= next[w] /\ removePreviousEvent(w)
                  \/ ~Forward /\ next[w] < Len(trace[w]) /\ addNextEvent(w)
            \/ /\ next[w] = rewind[w] /\ pc'[w] = "after"
               /\ UNCHANGED <<next, ptime, view>>
<1>0. InBlock(w) /\ pc[w] = "rewinding"
  BY DEF RewindBlock, InBlock
<1>1. CASE next[w] = rewind[w]
  BY <1>0, <1>1 DEF RewindBlock, Goto, TypeOK, procState
<1>2. CASE next[w] # rewind[w] /\ Forward
  <2>1. removePreviousEvent(w) /\ UNCHANGED <<trace, pc>> /\ rewind[w] <= next[w]
    BY <1>0, <1>2 DEF RewindBlock, UndoEvent, BlockInv
  <2>2. 1 <= next[w]
    BY <1>2, <2>1, Bounds
  <2> QED
    BY <1>0, <1>2, <2>1, <2>2 DEF RewindBlock, removePreviousEvent, TypeOK
<1>3. CASE next[w] # rewind[w] /\ ~Forward
  <2>1. /\ addNextEvent(w) /\ UNCHANGED <<trace, pc>>
        /\ next[w] <= rewind[w] /\ rewind[w] <= Len(trace[w])
    BY <1>0, <1>3 DEF RewindBlock, UndoEvent, BlockInv
  <2>2. next[w] < Len(trace[w])
    BY <1>3, <2>1, Bounds
  <2> QED
    BY <1>0, <1>3, <2>1, <2>2 DEF RewindBlock, addNextEvent, TypeOK
<1> QED
  BY <1>1, <1>2, <1>3

-----------------------------------------------------------------------------
(***************************************************************************)
(* The views and the process time.                                          *)
(***************************************************************************)
LEMMA ViewAdd ==
  ASSUME TypeOK, ViewInv, NEW w \in Workers, next[w] < Len(trace[w]),
         addNextEvent(w), trace' = trace
  PROVE  ViewInv'
<1> SUFFICES ASSUME NEW v \in Workers PROVE view'[v] = ViewAfter(trace[v], next'[v])
  BY DEF ViewInv
<1> DEFINE e == trace[w][next[w] + 1]
<1>1. /\ next' = [next EXCEPT ![w] = next[w] + 1]
      /\ view' = IF hasProcessTime(e) THEN [view EXCEPT ![w] = e.time] ELSE view
      /\ next[w] \in Nat /\ view[v] = ViewAfter(trace[v], next[v])
  BY Bounds DEF addNextEvent, ViewInv
<1>2. CASE v # w
  BY <1>1, <1>2 DEF TypeOK
<1>3. CASE v = w /\ hasProcessTime(e)
  <2>1. view'[w] = e.time /\ next'[w] = next[w] + 1
    BY <1>1, <1>3 DEF TypeOK
  <2> QED
    BY <1>1, <1>3, <2>1, ViewTimed
<1>4. CASE v = w /\ ~hasProcessTime(e)
  <2>1. view'[w] = view[w] /\ next'[w] = next[w] + 1
    BY <1>1, <1>4 DEF TypeOK
  <2> QED
    BY <1>1, <1>4, <2>1, ViewUntimed
<1> QED
  BY <1>2, <1>3, <1>4

LEMMA ViewRemove ==
  ASSUME TypeOK, ViewInv, NEW w \in Workers, 1 <= next[w],
         removePreviousEvent(w), trace' = trace
  PROVE  ViewInv'
<1> SUFFICES ASSUME NEW v \in Workers PROVE view'[v] = ViewAfter(trace[v], next'[v])
  BY DEF ViewInv
<1> DEFINE e == trace[w][next[w]]
           n == next[w] - 1
<1>1. /\ next' = [next EXCEPT ![w] = n]
      /\ view' = IF hasProcessTime(e) THEN [view EXCEPT ![w] = ViewAfter(trace[w], n)]
                                      ELSE view
      /\ n \in Nat /\ n + 1 = next[w] /\ view[v] = ViewAfter(trace[v], next[v])
  BY Bounds DEF removePreviousEvent, ViewInv
<1>2. CASE v # w
  BY <1>1, <1>2 DEF TypeOK
<1>3. CASE v = w /\ hasProcessTime(e)
  BY <1>1, <1>3 DEF TypeOK
<1>4. CASE v = w /\ ~hasProcessTime(e)
  <2>1. view'[w] = view[w] /\ next'[w] = n
    BY <1>1, <1>4 DEF TypeOK
  <2>2. ViewAfter(trace[w], n + 1) = ViewAfter(trace[w], n)
    BY <1>1, <1>4, ViewUntimed
  <2> QED
    BY <1>1, <1>4, <2>1, <2>2
<1> QED
  BY <1>2, <1>3, <1>4

LEMMA ViewNext == ASSUME IndInv, ViewInv, [Next]_vars PROVE ViewInv'
<1>0. TypeOK /\ BlockInv
  BY DEF IndInv
<1>1. ASSUME NEW w \in Workers, HandleEvent(w) PROVE ViewInv'
  <2>1. InBlock(w) /\ trace' = trace
    BY <1>1 DEF HandleEvent, InBlock
  <2>2. CASE Forward
    <3>1. next[w] < Len(trace[w]) /\ addNextEvent(w)
      BY <1>0, <1>1, <2>1, <2>2 DEF HandleEvent, MoveEvent, BlockInv
    <3> QED
      BY <1>0, <2>1, <3>1, ViewAdd
  <2>3. CASE ~Forward
    <3>1. 1 <= next[w] /\ removePreviousEvent(w)
      BY <1>0, <1>1, <2>1, <2>3 DEF HandleEvent, MoveEvent, BlockInv
    <3> QED
      BY <1>0, <2>1, <3>1, ViewRemove
  <2> QED
    BY <2>2, <2>3
<1>2. ASSUME NEW w \in Workers, RewindBlock(w) PROVE ViewInv'
  <2>1. CASE UNCHANGED <<trace, next, view>>
    BY <2>1 DEF ViewInv
  <2> QED
    BY <1>0, <1>2, <2>1, RewindFacts, ViewAdd, ViewRemove
<1>3. CASE UNCHANGED <<trace, next, view>>
  BY <1>3 DEF ViewInv
<1> QED
  BY <1>1, <1>2, <1>3, StepKinds, QuietFacts DEF Begin, Refuse, Join, vars, procState

LEMMA TimesNext ==
  ASSUME IndInv, RecordingsInOrder, TimesExist, [Next]_vars PROVE TimesExist'
<1>0. TypeOK /\ BlockInv /\ ptime \in Nat
  BY DEF IndInv, TypeOK
<1>1. ASSUME NEW w \in Workers, HandleEvent(w) PROVE TimesExist'
  <2> DEFINE p == MovedPosition(w)
             t == trace[w][p].time
  <2>1. /\ trace' = trace /\ pc[w] = "event" /\ p \in 1..Len(trace[w])
        /\ IsShared(w, p) => owner = w /\ ptime' = IF Forward THEN t ELSE t - 1
        /\ ~IsShared(w, p) => ptime' = ptime
    BY <1>0, <1>1, HandleFacts
  <2>2. t \in Nat
    BY <1>0, <2>1, TraceType
  <2>3. CASE ~IsShared(w, p)
    BY <2>1, <2>3 DEF TimesExist, IsShared
  <2>4. CASE IsShared(w, p)
    <3>1. Holding(w)
      BY <2>1, <2>4 DEF Holding
    <3>2. t = ptime \/ t = ptime + 1
      BY <2>4, <3>1, ForwardTime, BackwardTime DEF MovedPosition
    <3>3. \A n \in 1..ptime' : n \in 1..ptime \/ n = t
      BY <2>1, <2>2, <2>4, <3>2, <1>0
    <3> QED
      BY <2>1, <2>4, <3>3 DEF TimesExist, IsShared
  <2> QED
    BY <2>3, <2>4
<1>2. CASE UNCHANGED <<trace, ptime>>
  BY <1>2 DEF TimesExist, IsShared
<1>3. ASSUME NEW w \in Workers, RewindBlock(w) PROVE TimesExist'
  BY <1>0, <1>2, <1>3, RewindOrder, RewindFacts
<1> QED
  BY <1>1, <1>2, <1>3, StepKinds, QuietFacts DEF Begin, Refuse, Join, vars, procState

\* Without an owner of the mutex the process time is that of the positions.
LEMMA TimeOfPositions ==
  ASSUME IndInv, TimesExist, \A w \in Workers : owner # w
  PROVE  ptime = Max(TimesUpTo(next))
<1>0. TypeOK /\ OrderInv /\ ptime \in Nat /\ \A w \in Workers : ~Holding(w)
  BY DEF IndInv, TypeOK, Holding
<1> DEFINE S == TimesUpTo(next)
<1>1. ASSUME NEW y \in S PROVE y \in Nat /\ ptime >= y
  <2>1. CASE y = 0
    BY <2>1, <1>0
  <2>2. CASE y # 0
    <3>1. PICK w \in Workers : \E i \in {j \in 1..next[w] : IsShared(w, j)} :
                                 y = trace[w][i].time
      BY <1>1, <2>2 DEF TimesUpTo
    <3>2. PICK i \in 1..next[w] : IsShared(w, i) /\ y = trace[w][i].time
      BY <3>1
    <3>3. i \in 1..Len(trace[w]) /\ Added(w, i)
      BY <1>0, Bounds DEF Added
    <3>4. trace[w][i].time <= ptime
      BY <1>0, <3>2, <3>3, OrderAtRest
    <3> QED
      BY <1>0, <3>2, <3>3, <3>4, TraceType
  <2> QED
    BY <2>1, <2>2
<1>2. ptime \in S
  <2>1. CASE ptime = 0
    BY <2>1 DEF TimesUpTo
  <2>2. CASE ptime # 0
    <3>1. ptime \in 1..ptime
      BY <1>0, <2>2
    <3>2. PICK w \in Workers : \E i \in 1..Len(trace[w]) :
                                 IsShared(w, i) /\ trace[w][i].time = ptime
      BY <3>1 DEF TimesExist
    <3>3. PICK i \in 1..Len(trace[w]) : IsShared(w, i) /\ trace[w][i].time = ptime
      BY <3>2
    <3>4. Added(w, i)
      BY <1>0, <3>3, OrderAtRest
    <3>5. i \in 1..next[w]
      BY <1>0, <3>4, Bounds DEF Added
    <3> QED
      BY <3>3, <3>5 DEF TimesUpTo
  <2> QED
    BY <2>1, <2>2
<1> QED
  BY <1>1, <1>2, MaxIs

-----------------------------------------------------------------------------
(***************************************************************************)
(* Completion, and where the workers stand.                                 *)
(***************************************************************************)
\* What a worker's step leaves of the control of the others, and its own.
LEMMA ControlNext == ASSUME IndInv, ControlInv, [Next]_vars PROVE ControlInv'
<1>0. TypeOK /\ BlockInv
  BY DEF IndInv
<1> DEFINE Part(v) == /\ pc[v] \in {"notify", "break", "rewinding"} => complete
                      /\ pc[v] = "done" => complete \/ AtLimit(v)
<1>1. ASSUME NEW w \in Workers, HandleEvent(w) \/ RewindBlock(w) PROVE ControlInv'
  <2>1. /\ UNCHANGED <<trace, req, complete, satisfied, result>>
        /\ pc[w] \in {"event", "rewinding"}
        /\ pc'[w] \in {"event", "rewinding", "after"}
        /\ pc'[w] = "rewinding" => pc[w] = "rewinding"
        /\ \A v \in Workers : v # w => next'[v] = next[v] /\ pc'[v] = pc[v]
    BY <1>0, <1>1, HandleFacts, RewindFacts DEF movement, HandleEvent
  <2>2. result = "None"
    BY <2>1 DEF ControlInv
  <2>3. ASSUME NEW v \in Workers PROVE Part(v)'
    <3>1. CASE v = w
      BY <2>1, <3>1 DEF ControlInv
    <3>2. CASE v # w
      BY <2>1, <3>2 DEF ControlInv, AtLimit, Forward
    <3> QED
      BY <3>1, <3>2
  <2> QED
    BY <2>1, <2>2, <2>3 DEF ControlInv
<1>2. ASSUME NEW w \in Workers, Quiet(w) PROVE ControlInv'
  <2>1. UNCHANGED <<trace, next, req, result>> /\ pc[w] # "idle"
    BY <1>2, QuietFacts DEF Quiet, LoopTest, Lock, TestWait, Block, WaitReturns, TestComplete,
       SatisfyPredicate, FailPredicate, NotifyAll, EndIteration, WakeSpuriously
  <2>2. result = "None"
    BY <2>1 DEF ControlInv
  <2>3. \A v \in Workers : AtLimit(v)' = AtLimit(v)
    BY <2>1 DEF AtLimit, Forward
  <2>4. satisfied' = complete' /\ (complete => complete')
    <3>1. CASE SatisfyPredicate(w)
      BY <3>1, Zenon DEF SatisfyPredicate
    <3>2. CASE ~SatisfyPredicate(w)
      <4>1. UNCHANGED <<complete, satisfied>>
        BY <1>2, <3>2 DEF Quiet, LoopTest, Lock, TestWait, Block, WaitReturns, TestComplete,
          FailPredicate, NotifyAll, EndIteration, WakeSpuriously, movement
      <4> QED
        BY <4>1 DEF ControlInv
    <3> QED
      BY <3>1, <3>2
  <2>5. ASSUME NEW v \in Workers PROVE Part(v)'
    <3>0. Part(v)
      BY DEF ControlInv
    <3>1. CASE v = w
      BY <1>0, <1>2, <2>3, <2>4, <3>0, <3>1 DEF Quiet, LoopTest, Lock, TestWait, Block,
        WaitReturns, TestComplete, SatisfyPredicate, FailPredicate, NotifyAll, EndIteration,
        WakeSpuriously, Goto, TypeOK, movement
    <3>2. CASE v # w
      <4>1. pc'[v] = pc[v] \/ pc'[v] = "woken"
        BY <1>0, <1>2, <3>2 DEF Quiet, LoopTest, Lock, TestWait, Block,
          WaitReturns, TestComplete, SatisfyPredicate, FailPredicate, NotifyAll, EndIteration,
          WakeSpuriously, Goto, TypeOK
      <4> QED
        BY <2>3, <2>4, <3>0, <4>1
    <3> QED
      BY <3>1, <3>2
  <2> QED
    BY <2>1, <2>2, <2>4, <2>5 DEF ControlInv
<1>3. ASSUME NEW r \in Request, Begin(r) PROVE ControlInv'
  BY <1>3 DEF ControlInv, Begin
<1>4. ASSUME NEW r \in Request, Refuse(r) PROVE ControlInv'
  BY <1>4 DEF ControlInv, Refuse
<1>5. ASSUME Join PROVE ControlInv'
  BY <1>5 DEF ControlInv, Join
<1>6. CASE UNCHANGED vars
  BY <1>6 DEF ControlInv, vars, procState, movement, AtLimit, Forward
<1> QED
  BY <1>1, <1>2, <1>3, <1>4, <1>5, <1>6, StepKinds

LEMMA BeginNext ==
  ASSUME IndInv, TimesExist, ControlInv, BeginInv, [Next]_vars PROVE BeginInv'
<1>0. TypeOK /\ BlockInv /\ LockInv
  BY DEF IndInv
<1>1. ASSUME UNCHANGED <<trace, begin>>
      PROVE  (begin.ptime = Max(TimesUpTo(begin.next)))'
  <2>1. TimesUpTo(begin.next)' = TimesUpTo(begin.next)
    BY <1>1 DEF TimesUpTo, IsShared
  <2> QED
    BY <1>1, <2>1 DEF BeginInv
<1>2. ASSUME NEW w \in Workers, HandleEvent(w) PROVE BeginInv'
  <2>1. /\ UNCHANGED <<trace, begin, result, rewind>> /\ pc[w] = "event"
        /\ pc'[w] = IF EndsBlock(w) THEN "after" ELSE "event"
        /\ moved' = (moved \/ EndsBlock(w))
        /\ \A v \in Workers : v # w => next'[v] = next[v] /\ pc'[v] = pc[v]
    BY <1>0, <1>2, HandleFacts DEF HandleEvent
  <2>2. ASSUME ~moved', NEW v \in Workers PROVE Standing(v)' = Standing(v) /\ ~moved
    BY <2>1, <2>2 DEF Standing, InBlock
  <2> QED
    BY <1>1, <2>1, <2>2 DEF BeginInv
<1>3. ASSUME NEW w \in Workers, RewindBlock(w) PROVE BeginInv'
  <2>1. /\ UNCHANGED <<trace, begin, result, rewind, moved>> /\ pc[w] = "rewinding"
        /\ \A v \in Workers : v # w => next'[v] = next[v] /\ pc'[v] = pc[v]
        /\ \/ pc'[w] = pc[w]
           \/ pc'[w] = "after" /\ next'[w] = next[w] /\ next[w] = rewind[w]
    BY <1>0, <1>3, RewindFacts DEF movement
  <2>2. ASSUME NEW v \in Workers PROVE Standing(v)' = Standing(v)
    BY <2>1 DEF Standing, InBlock
  <2> QED
    BY <1>1, <2>1, <2>2 DEF BeginInv
<1>4. ASSUME NEW w \in Workers, Quiet(w) PROVE BeginInv'
  <2>1. UNCHANGED <<trace, next, begin, result, moved>>
    BY <1>4, QuietFacts
  <2>2. ASSUME NEW v \in Workers PROVE Standing(v)' = Standing(v)
    <3>1. CASE LoopTest(w)
      <4>1. /\ pc[w] = "loop" /\ \A u \in Workers : u # w => pc'[u] = pc[u] /\ rewind'[u] = rewind[u]
            /\ pc'[w] = "done" \/ (pc'[w] = "event" /\ rewind'[w] = next[w])
        BY <1>0, <3>1 DEF LoopTest, Goto, TypeOK
      <4> QED
        BY <2>1, <4>1 DEF Standing, InBlock
    <3>2. CASE ~LoopTest(w)
      <4>1. rewind' = rewind
        BY <1>4, <3>2 DEF Quiet, Lock, TestWait, Block, WaitReturns, TestComplete,
          SatisfyPredicate, FailPredicate, NotifyAll, EndIteration, WakeSpuriously
      <4>2. InBlock(v)' <=> InBlock(v)
        BY <1>0, <1>4, <3>2 DEF Quiet, Lock, TestWait, Block, WaitReturns, TestComplete,
          SatisfyPredicate, FailPredicate, NotifyAll, EndIteration, WakeSpuriously,
          Goto, InBlock, TypeOK
      <4> QED
        BY <2>1, <4>1, <4>2 DEF Standing
    <3> QED
      BY <3>1, <3>2
  <2> QED
    BY <1>1, <2>1, <2>2 DEF BeginInv
<1>5. ASSUME NEW r \in Request, Begin(r) \/ Refuse(r) PROVE BeginInv'
  <2>1. /\ UNCHANGED <<trace, next, ptime>>
        /\ begin'.next = next /\ begin'.ptime = ptime
        /\ \A w \in Workers : pc[w] = "idle" /\ pc'[w] \in {"idle", "loop"}
    BY <1>5 DEF Begin, Refuse, procState
  <2>2. \A w \in Workers : owner # w
    BY <1>0, <2>1 DEF LockInv
  <2>3. ptime = Max(TimesUpTo(next))
    BY <2>2, TimeOfPositions
  <2>4. (TimesUpTo(begin.next))' = TimesUpTo(next)
    BY <2>1 DEF TimesUpTo, IsShared
  <2>5. \A w \in Workers : Standing(w)' = next[w]
    BY <2>1 DEF Standing, InBlock
  <2> QED
    BY <2>1, <2>3, <2>4, <2>5 DEF BeginInv
<1>6. ASSUME Join PROVE BeginInv'
  <2>1. result' # "None" /\ UNCHANGED <<trace, begin>>
    BY <1>6 DEF Join, procState
  <2> QED
    BY <1>1, <2>1 DEF BeginInv
<1>7. CASE UNCHANGED vars
  <2>1. UNCHANGED <<trace, next, begin, result, moved, rewind, pc>>
    BY <1>7 DEF vars, procState, movement
  <2> QED
    BY <1>1, <2>1 DEF BeginInv, Standing, InBlock
<1> QED
  BY <1>2, <1>3, <1>4, <1>5, <1>6, <1>7, StepKinds

-----------------------------------------------------------------------------
(***************************************************************************)
(* A thread step.                                                           *)
(***************************************************************************)
LEMMA ThreadKept ==
  ASSUME NEW w \in Workers, ThreadPart(w), UNCHANGED <<trace, req, begin, complete>>,
         next'[w] = next[w], pc'[w] = pc[w], rewind'[w] = rewind[w]
  PROVE  ThreadPart(w)'
<1>1. InBlock(w)' = InBlock(w) /\ OneBlockMoved(w)' = OneBlockMoved(w)
  BY DEF InBlock, OneBlockMoved, Forward
<1> QED
  BY <1>1 DEF ThreadPart

\* The thread comes to the end of its block.
LEMMA ThreadBlockEnds ==
  ASSUME Base, RestInv, NEW w \in Workers, HandleEvent(w), EndsBlock(w),
         rewind[w] = begin.next[w]
  PROVE  OneBlockMoved(w)'
<1>0. /\ TypeOK /\ BlockInv /\ InBlock(w) /\ RestPart(w)
      /\ UNCHANGED <<trace, req, begin>>
  BY DEF Base, RestInv, HandleEvent, InBlock
<1>1. next[w] \in Nat /\ rewind[w] \in Nat /\ Len(trace[w]) \in Nat
  BY <1>0, Bounds
<1>2. CASE Forward
  <2>1. next'[w] = next[w] + 1
    BY <1>0, <1>2 DEF HandleEvent, MoveEvent, addNextEvent, TypeOK
  <2>2. /\ rewind[w] <= next[w]
        /\ \A k \in (rewind[w] + 2)..(next[w] + 1) : ~isBlockStart(trace[w][k])
    BY <1>0, <1>2 DEF BlockInv
  <2>3. next[w] + 1 = Len(trace[w]) \/ isBlockStart(trace[w][next[w] + 2])
    BY <1>2 DEF EndsBlock
  <2>4. BlockBetween(trace[w], rewind[w], next[w] + 1)
    BY <1>1, <2>2, <2>3 DEF BlockBetween, SameBlock
  <2>5. Forward'
    BY <1>0, <1>2 DEF Forward
  <2> QED
    BY <1>0, <2>1, <2>4, <2>5 DEF OneBlockMoved
<1>3. CASE ~Forward
  <2>1. next'[w] = next[w] - 1
    BY <1>0, <1>3 DEF HandleEvent, MoveEvent, removePreviousEvent, TypeOK
  <2>2. /\ 1 <= next[w] /\ next[w] <= rewind[w] /\ rewind[w] <= Len(trace[w])
        /\ \A k \in (next[w] + 1)..rewind[w] : ~isBlockStart(trace[w][k])
    BY <1>0, <1>3 DEF BlockInv
  <2>3. rewind[w] = Len(trace[w]) \/ isBlockStart(trace[w][rewind[w] + 1])
    BY <1>0, <1>1, <2>2 DEF RestPart, BetweenBlocks
  <2>4. SameBlock(trace[w], (next[w] - 1) + 1, rewind[w])
    BY <1>1, <2>2 DEF SameBlock
  <2>5. BlockBetween(trace[w], next[w] - 1, rewind[w])
    BY <1>1, <2>2, <2>3, <2>4 DEF BlockBetween
  <2>6. ~Forward'
    BY <1>0, <1>3 DEF Forward
  <2> QED
    BY <1>0, <2>1, <2>5, <2>6 DEF OneBlockMoved
<1> QED
  BY <1>2, <1>3

LEMMA ThreadStepNext ==
  ASSUME IndInv, RestInv, ControlInv, ThreadStepInv, [Next]_vars PROVE ThreadStepInv'
<1> SUFFICES ASSUME result' = "None", req'.kind = "threadStep"
             PROVE  ThreadPart(req.who)'
  BY DEF ThreadStepInv
<1>0. Base /\ TypeOK /\ BlockInv
  BY DEF IndInv, Base
<1> DEFINE w == req.who
<1>1. ASSUME UNCHANGED <<req, result>>
      PROVE  w' = w /\ w \in Workers /\ w # NoWorker /\ req.kind = "threadStep" /\ ThreadPart(w)
  BY <1>0, <1>1, WorkersAssumption DEF ThreadStepInv, TypeOK, Request
<1>2. ASSUME NEW u \in Workers, HandleEvent(u) PROVE ThreadPart(req.who)'
  <2>1. /\ UNCHANGED <<trace, req, rewind, complete, begin, result>> /\ pc[u] = "event"
        /\ pc'[u] = IF EndsBlock(u) THEN "after" ELSE "event"
        /\ \A v \in Workers : v # u => next'[v] = next[v] /\ pc'[v] = pc[v]
    BY <1>0, <1>2, HandleFacts DEF HandleEvent
  <2>2. CASE u # w
    BY <1>1, <2>1, <2>2, ThreadKept
  <2>3. CASE u = w
    <3>1. ~complete /\ rewind[w] = begin.next[w]
      BY <1>1, <2>1, <2>3 DEF ThreadPart, InBlock
    <3>2. CASE EndsBlock(w)
      <4>1. OneBlockMoved(w)'
        BY <1>0, <1>1, <1>2, <2>1, <2>3, <3>1, <3>2, ThreadBlockEnds
      <4> QED
        BY <1>1, <2>1, <2>3, <3>1, <3>2, <4>1 DEF ThreadPart, InBlock
    <3>3. CASE ~EndsBlock(w)
      BY <1>1, <2>1, <2>3, <3>1, <3>3 DEF ThreadPart, InBlock
    <3> QED
      BY <3>2, <3>3
  <2> QED
    BY <2>2, <2>3
<1>3. ASSUME NEW u \in Workers, RewindBlock(u) PROVE ThreadPart(req.who)'
  <2>1. /\ UNCHANGED <<trace, req, rewind, complete, begin, result>> /\ pc[u] = "rewinding"
        /\ \A v \in Workers : v # u => next'[v] = next[v] /\ pc'[v] = pc[v]
    BY <1>0, <1>3, RewindFacts DEF movement
  <2>2. u # w
    BY <1>1, <2>1 DEF ThreadPart, ControlInv
  <2> QED
    BY <1>1, <2>1, <2>2, ThreadKept
<1>4. ASSUME NEW u \in Workers, Quiet(u), u # w PROVE ThreadPart(req.who)'
  <2>1. UNCHANGED <<trace, next, req, begin, result>>
    BY <1>4, QuietFacts
  <2>2. w' = w /\ w \in Workers /\ w # NoWorker /\ req.kind = "threadStep" /\ ThreadPart(w)
    BY <1>1, <2>1
  <2>3. ~SatisfyPredicate(u)
    BY <1>4, <2>2 DEF SatisfyPredicate, HasPredicate
  <2>4. UNCHANGED complete /\ rewind'[w] = rewind[w]
    BY <1>0, <1>4, <2>2, <2>3 DEF Quiet, LoopTest, Lock, TestWait, Block, WaitReturns, TestComplete,
      FailPredicate, NotifyAll, EndIteration, WakeSpuriously, movement, TypeOK
  <2>5. pc'[w] = pc[w]
    <3>1. CASE NotifyAll(u)
      <4>1. complete /\ pc[w] # "waiting"
        BY <2>2, <3>1 DEF ControlInv, NotifyAll, ThreadPart
      <4> QED
        BY <1>4, <2>2, <3>1, <4>1 DEF NotifyAll
    <3>2. CASE ~NotifyAll(u)
      BY <1>0, <1>4, <2>2, <2>3, <3>2 DEF Quiet, LoopTest, Lock, TestWait, Block, WaitReturns,
        TestComplete, FailPredicate, EndIteration, WakeSpuriously, Goto, TypeOK
    <3> QED
      BY <3>1, <3>2
  <2> QED
    BY <2>1, <2>2, <2>4, <2>5, ThreadKept
<1>5. ASSUME Quiet(w), w \in Workers PROVE ThreadPart(req.who)'
  <2>1. UNCHANGED <<trace, next, req, begin, result>>
    BY <1>5, QuietFacts
  <2>2. w' = w /\ w \in Workers /\ w # NoWorker /\ req.kind = "threadStep" /\ ThreadPart(w)
    BY <1>1, <2>1
  <2>3. OneBlockMoved(w)' = OneBlockMoved(w)
    BY <2>1 DEF OneBlockMoved, Forward
  <2>4. CASE LoopTest(w)
    <3>1. /\ ~complete /\ ~complete' /\ next[w] = begin.next[w]
          /\ pc'[w] = "done" \/ (pc'[w] = "event" /\ rewind'[w] = next[w])
      BY <1>0, <2>2, <2>4 DEF LoopTest, ThreadPart, Goto, TypeOK, movement
    <3> QED
      BY <2>1, <2>2, <3>1 DEF ThreadPart, InBlock
  <2>5. CASE Lock(w) \/ TestWait(w) \/ Block(w) \/ WakeSpuriously(w) \/ WaitReturns(w)
    <3>1. /\ pc[w] \in {"event", "woken", "test", "blocking", "waiting", "locked"}
          /\ UNCHANGED <<complete, rewind>>
      BY <2>5 DEF Lock, TestWait, Block, WakeSpuriously, WaitReturns, movement
    <3>2. ~complete /\ InBlock(w) /\ rewind[w] = begin.next[w]
      BY <2>2, <3>1 DEF ThreadPart, InBlock
    <3>3. pc'[w] \in {"event", "woken", "test", "blocking", "waiting", "locked"}
      BY <1>0, <2>2, <2>5, <3>2 DEF Lock, TestWait, Block, WakeSpuriously, WaitReturns, Goto, TypeOK
    <3> QED
      BY <2>1, <2>2, <3>1, <3>2, <3>3 DEF ThreadPart, InBlock
  <2>6. CASE TestComplete(w)
    <3>1. pc[w] = "after" /\ ~complete /\ OneBlockMoved(w)
      BY <2>2, <2>6 DEF TestComplete, ThreadPart
    <3>2. pc'[w] = "predicates" /\ ~complete'
      BY <1>0, <2>2, <2>6, <3>1 DEF TestComplete, Goto, TypeOK, movement
    <3> QED
      BY <2>1, <2>2, <2>3, <3>1, <3>2 DEF ThreadPart, InBlock
  <2>7. CASE SatisfyPredicate(w)
    <3>1. pc[w] = "predicates" /\ OneBlockMoved(w) /\ pc'[w] = "notify"
      BY <1>0, <2>2, <2>7 DEF SatisfyPredicate, ThreadPart, Goto, TypeOK
    <3> QED
      BY <2>1, <2>2, <2>3, <3>1 DEF ThreadPart, InBlock
  <2>8. ~FailPredicate(w)
    <3>1. HasPredicate(w) /\ PredicateValues = {TRUE}
      BY <2>2 DEF HasPredicate, PredicateValues
    <3>2. FALSE \notin PredicateValues
      BY <3>1, Zenon
    <3> QED
      BY <3>1, <3>2 DEF FailPredicate
  <2>9. CASE NotifyAll(w) \/ EndIteration(w)
    <3>1. pc[w] \in {"notify", "break"} /\ complete' = complete
      BY <2>2, <2>9 DEF NotifyAll, EndIteration, ThreadPart, movement
    <3>2. complete /\ OneBlockMoved(w)
      BY <2>2, <3>1 DEF ControlInv, ThreadPart
    <3>3. pc'[w] \in {"break", "done"}
      BY <1>0, <2>2, <2>9, <3>1 DEF NotifyAll, EndIteration, Goto, TypeOK
    <3> QED
      BY <2>1, <2>2, <2>3, <3>1, <3>2, <3>3 DEF ThreadPart, InBlock
  <2> QED
    BY <1>5, <2>4, <2>5, <2>6, <2>7, <2>8, <2>9 DEF Quiet
<1>6. ASSUME NEW r \in Request, Begin(r) PROVE ThreadPart(req.who)'
  <2>1. /\ req' = r /\ begin'.next = next /\ next' = next /\ complete' = FALSE
        /\ pc' = [v \in Workers |-> "loop"]
    BY <1>6 DEF Begin, procState
  <2>2. r.who \in Workers
    BY <2>1 DEF Request
  <2> QED
    BY <2>1, <2>2 DEF ThreadPart, InBlock
<1>7. ASSUME NEW r \in Request, Refuse(r) PROVE FALSE
  BY <1>7 DEF Refuse
<1>8. ASSUME Join PROVE FALSE
  BY <1>8 DEF Join
<1>9. CASE UNCHANGED vars
  <2>1. UNCHANGED <<trace, next, req, begin, result, rewind, complete, pc>>
    BY <1>9 DEF vars, procState, movement
  <2> QED
    BY <1>1, <2>1, ThreadKept
<1> QED
  BY <1>2, <1>3, <1>4, <1>5, <1>6, <1>7, <1>8, <1>9, StepKinds

-----------------------------------------------------------------------------
(***************************************************************************)
(* A process step.                                                          *)
(***************************************************************************)
\* The times of the block so far are all those that the movement has passed.
LEMMA TimesMovedKept ==
  ASSUME NEW w \in Workers, TimesMoved(w), UNCHANGED <<trace, ptime, req, begin>>,
         MovedPart(w) \subseteq MovedPart(w)'
  PROVE  TimesMoved(w)'
<1>1. LowTime' = LowTime /\ HighTime' = HighTime
  BY DEF LowTime, HighTime, Forward
<1> QED
  BY <1>1 DEF TimesMoved, IsShared

LEMMA TimesMovedOn ==
  ASSUME IndInv, RecordingsInOrder, NEW w \in Workers, HandleEvent(w), Holding(w),
         IsShared(w, MovedPosition(w)), ptime' # ptime,
         ptime = begin.ptime \/ TimesMoved(w)
  PROVE  TimesMoved(w)'
<1> DEFINE p == MovedPosition(w)
           t == trace[w][p].time
<1>0. TypeOK /\ BlockInv /\ InBlock(w) /\ ptime \in Nat /\ begin.ptime \in Nat
  BY DEF IndInv, TypeOK, Holding, InBlock
<1>1. /\ UNCHANGED <<trace, req, begin>>
      /\ p \in 1..Len(trace[w]) /\ MovedPart(w)' = MovedPart(w) \cup {p}
      /\ ptime' = IF Forward THEN t ELSE t - 1
  BY <1>0, HandleFacts DEF HandleEvent
<1>2. t \in Nat /\ Forward' = Forward
  BY <1>0, <1>1, TraceType DEF Forward
<1>3. SameBlock(trace[w], p, p)
  BY <1>0, <1>1, Bounds DEF SameBlock
<1>4. CASE Forward
  <2>1. t = ptime + 1 /\ ptime' = t
    BY <1>0, <1>1, <1>4, ForwardTime DEF MovedPosition
  <2>2. LowTime' = begin.ptime /\ HighTime' = t
    BY <1>1, <1>2, <1>4, <2>1 DEF LowTime, HighTime
  <2>3. CASE ptime = begin.ptime
    BY <1>0, <1>1, <1>2, <1>3, <2>1, <2>2, <2>3 DEF TimesMoved, IsShared
  <2>4. CASE TimesMoved(w)
    <3>1. PICK i \in MovedPart(w) :
            /\ i \in 1..Len(trace[w]) /\ IsShared(w, i)
            /\ trace[w][i].time = begin.ptime + 1 /\ begin.ptime < ptime
      BY <1>4, <2>4 DEF TimesMoved, LowTime, HighTime
    <3>2. i <= p /\ SameBlock(trace[w], i, p)
      BY <1>0, <1>4, <3>1, MovedType, Bounds DEF MovedPosition
    <3>3. begin.ptime < t
      BY <1>0, <2>1, <3>1
    <3> QED
      BY <1>1, <2>2, <3>1, <3>2, <3>3 DEF TimesMoved, IsShared
  <2> QED
    BY <2>3, <2>4
<1>5. CASE ~Forward
  <2>1. t = ptime /\ ptime' = ptime - 1
    BY <1>0, <1>1, <1>5, BackwardTime DEF MovedPosition
  <2>2. LowTime' = ptime - 1 /\ HighTime' = begin.ptime
    BY <1>1, <1>2, <1>5, <2>1 DEF LowTime, HighTime
  <2>3. CASE ptime = begin.ptime
    BY <1>0, <1>1, <1>2, <1>3, <2>1, <2>2, <2>3 DEF TimesMoved, IsShared
  <2>4. CASE TimesMoved(w)
    <3>1. PICK j \in MovedPart(w) :
            /\ j \in 1..Len(trace[w]) /\ IsShared(w, j)
            /\ trace[w][j].time = begin.ptime /\ ptime < begin.ptime
      BY <1>5, <2>4 DEF TimesMoved, LowTime, HighTime
    <3>2. p <= j /\ SameBlock(trace[w], p, j)
      BY <1>0, <1>5, <3>1, MovedType, Bounds DEF MovedPosition
    <3>3. ptime - 1 < begin.ptime /\ t = (ptime - 1) + 1
      BY <1>0, <2>1, <3>1
    <3> QED
      BY <1>1, <2>2, <3>1, <3>2, <3>3 DEF TimesMoved, IsShared
  <2> QED
    BY <2>3, <2>4
<1> QED
  BY <1>4, <1>5

LEMMA ProcessStepNext ==
  ASSUME IndInv, RecordingsInOrder, ControlInv, ProcessStepInv, [Next]_vars
  PROVE  ProcessStepInv'
<1> SUFFICES ASSUME result' = "None", req'.kind = "processStep" PROVE ProcessPart'
  BY DEF ProcessStepInv
<1>0. TypeOK /\ BlockInv /\ LockInv /\ ptime \in Nat /\ begin.ptime \in Nat
  BY DEF IndInv, TypeOK
<1>1. ASSUME UNCHANGED <<req, result>>
      PROVE  req.kind = "processStep" /\ req.who = NoWorker /\ ProcessPart
  BY <1>0, <1>1 DEF ProcessStepInv, TypeOK, Request
<1>2. ASSUME UNCHANGED <<trace, ptime, req, begin>>
      PROVE  /\ LowTime' = LowTime /\ HighTime' = HighTime
             /\ OneBlockOfTimes(LowTime, HighTime)' = OneBlockOfTimes(LowTime, HighTime)
  BY <1>2 DEF LowTime, HighTime, Forward, OneBlockOfTimes, IsShared
<1>3. ASSUME NEW u \in Workers, HandleEvent(u) PROVE ProcessPart'
  <2> DEFINE p == MovedPosition(u)
  <2>1. /\ UNCHANGED <<trace, req, rewind, owner, complete, begin, result>> /\ pc[u] = "event"
        /\ pc'[u] = IF EndsBlock(u) THEN "after" ELSE "event"
        /\ \A v \in Workers : v # u => next'[v] = next[v] /\ pc'[v] = pc[v]
        /\ MovedPart(u)' = MovedPart(u) \cup {p}
        /\ IsShared(u, p) => owner = u
        /\ ~IsShared(u, p) => ptime' = ptime
    BY <1>0, <1>3, HandleFacts DEF HandleEvent
  <2>2. req.kind = "processStep" /\ ProcessPart
    BY <1>1, <2>1
  <2>3. CASE complete
    <3>1. (\A v \in Workers : ~Holding(v)) /\ OneBlockOfTimes(LowTime, HighTime)
      BY <2>2, <2>3 DEF ProcessPart
    <3>2. ptime' = ptime
      BY <2>1, <3>1 DEF Holding
    <3>3. \A v \in Workers : ~Holding(v)'
      BY <2>1, <3>1 DEF Holding
    <3> QED
      BY <1>2, <2>1, <2>3, <3>1, <3>2, <3>3 DEF ProcessPart
  <2>4. CASE ~complete /\ ptime' = ptime
    <3>1. CASE ptime = begin.ptime
      BY <2>1, <2>4, <3>1 DEF ProcessPart
    <3>2. ASSUME NEW w \in Workers, Moving(w) PROVE Moving(w)'
      <4>1. MovedPart(w) \subseteq MovedPart(w)'
        BY <2>1 DEF MovedPart, Forward
      <4>2. TimesMoved(w)'
        BY <2>1, <2>4, <3>2, <4>1, TimesMovedKept DEF Moving
      <4> QED
        BY <2>1, <3>2, <4>2 DEF Moving
    <3> QED
      BY <2>1, <2>2, <2>4, <3>1, <3>2 DEF ProcessPart
  <2>5. CASE ~complete /\ ptime' # ptime
    <3>1. IsShared(u, p) /\ Holding(u)
      BY <2>1, <2>5 DEF Holding
    <3>2. ptime = begin.ptime \/ TimesMoved(u)
      BY <2>2, <2>5, <3>1 DEF ProcessPart, Moving, Holding
    <3>3. TimesMoved(u)'
      BY <1>3, <2>5, <3>1, <3>2, TimesMovedOn
    <3>4. Moving(u)'
      BY <2>1, <3>1, <3>3 DEF Moving
    <3> QED
      BY <2>1, <2>5, <3>4 DEF ProcessPart
  <2> QED
    BY <2>3, <2>4, <2>5
<1>4. ASSUME NEW u \in Workers, RewindBlock(u) PROVE ProcessPart'
  <2>1. /\ UNCHANGED <<trace, req, begin, complete, owner, result, ptime>> /\ pc[u] = "rewinding"
        /\ \A v \in Workers : v # u => pc'[v] = pc[v]
        /\ pc'[u] \in {"rewinding", "after"}
    BY <1>0, <1>4, RewindFacts, RewindOrder DEF movement
  <2>2. complete /\ ProcessPart
    BY <1>1, <2>1 DEF ControlInv
  <2> QED
    BY <1>2, <2>1, <2>2 DEF ProcessPart, Holding
<1>5. ASSUME NEW u \in Workers, Quiet(u), complete PROVE ProcessPart'
  <2>1. UNCHANGED <<trace, next, ptime, req, begin, result>>
    BY <1>5, QuietFacts
  <2>2. ProcessPart
    BY <1>1, <2>1
  <2>3. complete'
    BY <1>5 DEF Quiet, LoopTest, Lock, TestWait, Block, WaitReturns, TestComplete,
       SatisfyPredicate, FailPredicate, NotifyAll, EndIteration, WakeSpuriously, movement
  <2>4. ASSUME NEW v \in Workers, Holding(v)' PROVE Holding(v)
    <3>1. CASE v = u
      BY <1>0, <1>5, <2>4, <3>1 DEF Quiet, LoopTest, Lock, TestWait, Block, WaitReturns, TestComplete,
       SatisfyPredicate, FailPredicate, NotifyAll, EndIteration, WakeSpuriously, Goto,
       Holding, LockInv, TypeOK
    <3>2. CASE v # u
      BY <1>0, <1>5, <2>4, <3>2, WorkersAssumption DEF Quiet, LoopTest, Lock, TestWait, Block, WaitReturns,
       TestComplete, SatisfyPredicate, FailPredicate, NotifyAll, EndIteration, WakeSpuriously, Goto,
       Release, Holding, TypeOK
    <3> QED
      BY <3>1, <3>2
  <2> QED
    BY <1>2, <1>5, <2>1, <2>2, <2>3, <2>4 DEF ProcessPart
<1>6. ASSUME NEW u \in Workers, SatisfyPredicate(u), ~complete PROVE ProcessPart'
  <2>1. /\ UNCHANGED <<trace, ptime, req, begin, result, owner>> /\ complete' = TRUE
        /\ pc'[u] = "notify"
    BY <1>0, <1>6 DEF SatisfyPredicate, Goto, TypeOK, procState
  <2>2. req.kind = "processStep" /\ req.who = NoWorker /\ ProcessPart
    BY <1>1, <2>1
  <2>3. owner = u
    BY <1>6, <2>2, WorkersAssumption DEF SatisfyPredicate, HasPredicate
  <2>4. ptime # begin.ptime
    <3>1. IF Forward THEN ptime > begin.ptime ELSE ptime < begin.ptime
      BY <1>6, <2>2 DEF SatisfyPredicate, PredicateValues
    <3> QED
      BY <1>0, <3>1
  <2>5. TimesMoved(u)
    BY <1>6, <2>2, <2>3, <2>4 DEF ProcessPart, Moving
  <2>6. OneBlockOfTimes(LowTime, HighTime)
    BY <2>5 DEF TimesMoved, OneBlockOfTimes
  <2>7. \A v \in Workers : ~Holding(v)'
    BY <2>1, <2>3 DEF Holding
  <2> QED
    BY <1>2, <2>1, <2>6, <2>7 DEF ProcessPart
<1>7. ASSUME NEW u \in Workers, Quiet(u), ~SatisfyPredicate(u), ~complete PROVE ProcessPart'
  <2>1. UNCHANGED <<trace, next, ptime, req, begin, result>>
    BY <1>7, QuietFacts
  <2>2. req.kind = "processStep" /\ req.who = NoWorker /\ ProcessPart
    BY <1>1, <2>1
  <2>3. complete' = complete
    BY <1>7 DEF Quiet, LoopTest, Lock, TestWait, Block, WaitReturns, TestComplete,
       FailPredicate, NotifyAll, EndIteration, WakeSpuriously, movement
  <2>4. ASSUME NEW w \in Workers, Moving(w) PROVE Moving(w)'
    <3>1. /\ owner = w /\ owner # NoWorker /\ pc[w] \in {"event", "after", "predicates"}
          /\ TimesMoved(w)
      BY <2>4, WorkersAssumption DEF Moving
    <3>2. CASE u = w
      <4>1. ~FailPredicate(w)
        <5>1. IF Forward THEN ptime > begin.ptime ELSE ptime < begin.ptime
          BY <1>0, <3>1 DEF TimesMoved, LowTime, HighTime
        <5>2. FALSE \notin PredicateValues
          BY <2>2, <5>1 DEF PredicateValues
        <5>3. HasPredicate(w)
          BY <2>2, <3>1 DEF HasPredicate
        <5> QED
          BY <5>2, <5>3 DEF FailPredicate
      <4>2. TestComplete(w)
        BY <1>7, <3>1, <3>2, <4>1 DEF Quiet, LoopTest, Lock, TestWait, Block, WaitReturns,
          NotifyAll, EndIteration, WakeSpuriously
      <4>3. owner' = owner /\ rewind' = rewind /\ pc'[w] = "predicates"
        BY <1>0, <1>7, <4>2 DEF TestComplete, Goto, TypeOK
      <4>4. MovedPart(w)' = MovedPart(w)
        BY <2>1, <4>3 DEF MovedPart, Forward
      <4>5. TimesMoved(w)'
        BY <2>1, <3>1, <4>4, TimesMovedKept
      <4> QED
        BY <3>1, <4>3, <4>5 DEF Moving
    <3>3. CASE u # w
      <4>1. owner' = owner /\ rewind'[w] = rewind[w] /\ pc'[w] = pc[w]
        BY <1>0, <1>7, <3>1, <3>3 DEF Quiet, LoopTest, Lock, TestWait, Block, WaitReturns, TestComplete,
          FailPredicate, NotifyAll, EndIteration, WakeSpuriously, Goto, Release, LockInv, TypeOK
      <4>2. MovedPart(w)' = MovedPart(w)
        BY <2>1, <4>1 DEF MovedPart, Forward
      <4>3. TimesMoved(w)'
        BY <2>1, <3>1, <4>2, TimesMovedKept
      <4> QED
        BY <3>1, <4>1, <4>3 DEF Moving
    <3> QED
      BY <3>2, <3>3
  <2> QED
    BY <1>7, <2>1, <2>2, <2>3, <2>4 DEF ProcessPart
<1>8. ASSUME NEW r \in Request, Begin(r) PROVE ProcessPart'
  <2>1. begin'.ptime = ptime /\ ptime' = ptime /\ complete' = FALSE
    BY <1>8 DEF Begin, procState
  <2> QED
    BY <2>1 DEF ProcessPart
<1>9. ASSUME NEW r \in Request, Refuse(r) PROVE FALSE
  BY <1>9 DEF Refuse
<1>10. ASSUME Join PROVE FALSE
  BY <1>10 DEF Join
<1>11. CASE UNCHANGED vars
  <2>1. UNCHANGED <<trace, next, ptime, req, begin, result, rewind, complete, pc, owner>>
    BY <1>11 DEF vars, procState, movement
  <2>2. ASSUME NEW w \in Workers, Moving(w) PROVE Moving(w)'
    BY <2>1, <2>2, TimesMovedKept DEF Moving, MovedPart, Forward
  <2> QED
    BY <1>1, <1>2, <2>1, <2>2 DEF ProcessPart, Holding
<1> QED
  BY <1>3, <1>4, <1>5, <1>6, <1>7, <1>8, <1>9, <1>10, <1>11, StepKinds

-----------------------------------------------------------------------------
(***************************************************************************)
(* The result.                                                              *)
(***************************************************************************)
LEMMA JoinResult ==
  ASSUME IndInv, TimesExist, ControlInv, BeginInv, ThreadStepInv, ProcessStepInv, Join
  PROVE  ResultIsTruthful'
<1>0. /\ TypeOK /\ LockInv /\ UNCHANGED <<trace, next, ptime, req, begin>>
      /\ \A w \in Workers : pc[w] = "done"
      /\ result' = IF satisfied THEN "PredicateSatisfied"
                   ELSE IF moved THEN IF Forward THEN "ReachedEnd" ELSE "ReachedBeginning"
                   ELSE "Unmoved"
  BY DEF IndInv, Join, procState
<1>1. Forward' = Forward
  BY <1>0 DEF Forward
<1>2. Workers # {} => result = "None"
  BY <1>0 DEF ControlInv
<1>3. satisfied => complete /\ result = "None"
  BY <1>2 DEF ControlInv
<1>4. ASSUME satisfied, req.kind = "processStep"
      PROVE  IF Forward THEN OneBlockOfTimes(begin.ptime, ptime)
                        ELSE OneBlockOfTimes(ptime, begin.ptime)
  BY <1>3, <1>4 DEF ProcessStepInv, ProcessPart, LowTime, HighTime
<1>5. ASSUME satisfied, req.kind = "threadStep" PROVE OneBlockMoved(req.who)
  BY <1>3, <1>5 DEF ThreadStepInv, ThreadPart
<1>6. ASSUME ~satisfied, NEW w \in Workers PROVE AtLimit(w)
  BY <1>0, <1>6 DEF ControlInv
<1>7. ASSUME ~satisfied, ~moved PROVE next = begin.next /\ ptime = begin.ptime
  <2>1. ASSUME NEW w \in Workers PROVE next[w] = begin.next[w]
    <3>1. result = "None" /\ ~InBlock(w)
      BY <1>0, <1>2 DEF InBlock
    <3> QED
      BY <1>7, <3>1 DEF BeginInv, Standing
  <2>2. next = begin.next
    BY <1>0, <2>1 DEF TypeOK
  <2>3. \A w \in Workers : owner # w
    BY <1>0 DEF LockInv
  <2>4. ptime = Max(TimesUpTo(next))
    BY <2>3, TimeOfPositions
  <2> QED
    BY <2>2, <2>4 DEF BeginInv
<1>8. (IF Forward THEN OneBlockOfTimes(begin.ptime, ptime)
                  ELSE OneBlockOfTimes(ptime, begin.ptime))' =
        (IF Forward THEN OneBlockOfTimes(begin.ptime, ptime)
                    ELSE OneBlockOfTimes(ptime, begin.ptime))
  BY <1>0, <1>1 DEF OneBlockOfTimes, IsShared
<1>9. CASE satisfied
  <2>1. result' = "PredicateSatisfied"
    BY <1>0, <1>9
  <2>2. (req.kind = "processStep" =>
           IF Forward THEN OneBlockOfTimes(begin.ptime, ptime)
                      ELSE OneBlockOfTimes(ptime, begin.ptime))'
    BY <1>0, <1>4, <1>8, <1>9
  <2>3. (req.kind = "threadStep" =>
           LET w == req.who
           IN  IF Forward THEN BlockBetween(trace[w], begin.next[w], next[w])
                          ELSE BlockBetween(trace[w], next[w], begin.next[w]))'
    BY <1>0, <1>1, <1>5, <1>9 DEF OneBlockMoved
  <2> QED
    BY <2>1, <2>2, <2>3 DEF ResultIsTruthful
<1>10. CASE ~satisfied /\ moved
  <2>1. result' = IF Forward THEN "ReachedEnd" ELSE "ReachedBeginning"
    BY <1>0, <1>10
  <2>2. \A w \in Workers : next'[w] = IF Forward THEN Len(trace'[w]) ELSE 0
    BY <1>0, <1>6, <1>10 DEF AtLimit
  <2> QED
    BY <2>1, <2>2 DEF ResultIsTruthful
<1>11. CASE ~satisfied /\ ~moved
  <2>1. result' = "Unmoved"
    BY <1>0, <1>11
  <2> QED
    BY <1>0, <1>7, <1>11, <2>1 DEF ResultIsTruthful
<1> QED
  BY <1>9, <1>10, <1>11

LEMMA ResultNext ==
  ASSUME Truth, [Next]_vars PROVE ResultIsTruthful'
<1>0. TypeOK /\ BlockInv
  BY DEF Truth, IndInv
<1>1. ASSUME result' = "None" PROVE ResultIsTruthful'
  BY <1>1 DEF ResultIsTruthful
<1>2. ASSUME NEW w \in Workers, HandleEvent(w) \/ RewindBlock(w) \/ Quiet(w)
      PROVE  ResultIsTruthful'
  <2>1. pc[w] # "idle" /\ result' = result
    BY <1>2, QuietFacts DEF HandleEvent, RewindBlock, Quiet, LoopTest, Lock, TestWait, Block,
       WaitReturns, TestComplete, SatisfyPredicate, FailPredicate, NotifyAll, EndIteration,
       WakeSpuriously, movement
  <2> QED
    BY <1>1, <2>1 DEF Truth, ControlInv
<1>3. ASSUME NEW r \in Request, Begin(r) PROVE ResultIsTruthful'
  BY <1>1, <1>3 DEF Begin
<1>4. ASSUME NEW r \in Request, Refuse(r) PROVE ResultIsTruthful'
  <2>1. /\ UNCHANGED <<next, ptime>> /\ result' = "Unmoved"
        /\ begin'.next = next /\ begin'.ptime = ptime
    BY <1>4 DEF Refuse, procState
  <2> QED
    BY <2>1 DEF ResultIsTruthful
<1>5. ASSUME Join PROVE ResultIsTruthful'
  BY <1>5, JoinResult DEF Truth
<1>6. CASE UNCHANGED vars
  <2>1. UNCHANGED <<trace, next, ptime, req, begin, result, pc>>
    BY <1>6 DEF vars, procState, movement
  <2>2. ResultIsTruthful
    BY DEF Truth
  <2> QED
    BY <2>1, <2>2 DEF ResultIsTruthful, Forward, OneBlockOfTimes, IsShared
<1> QED
  BY <1>2, <1>3, <1>4, <1>5, <1>6, StepKinds

LEMMA TruthInit == Init => Truth
<1> SUFFICES ASSUME Init PROVE Truth
  OBVIOUS
<1>1. IndInv /\ TypeOK
  BY BaseInit, OrderInit DEF Base, IndInv
<1>2. RestInv
  BY DEF Init, RestInv, RestPart, BetweenBlocks, InBlock
<1>3. ViewInv
  <2> SUFFICES ASSUME NEW w \in Workers PROVE ViewAfter(trace[w], 0) = 0
    BY DEF Init, ViewInv
  <2>1. ~\E i \in 1..0 : IsLastTimed(trace[w], 0, i)
    OBVIOUS
  <2> QED
    BY <2>1 DEF ViewAfter
<1>4. TimesExist
  BY DEF Init, TimesExist
<1>5. ControlInv
  <2>1. satisfied = complete /\ ~complete
    BY Zenon DEF Init
  <2> QED
    BY <2>1 DEF Init, ControlInv
<1>6. BeginInv
  <2>1. begin.next = next /\ begin.ptime = ptime /\ \A w \in Workers : owner # w /\ pc[w] = "idle"
    BY WorkersAssumption DEF Init
  <2>2. ptime = Max(TimesUpTo(next))
    BY <1>1, <1>4, <2>1, TimeOfPositions
  <2> QED
    BY <2>1, <2>2 DEF BeginInv, Standing, InBlock
<1>7. ThreadStepInv /\ ProcessStepInv /\ ResultIsTruthful
  <2>1. ~complete
    BY Zenon DEF Init
  <2> QED
    BY <2>1 DEF Init, ThreadStepInv, ProcessStepInv, ProcessPart, ResultIsTruthful
<1> QED
  BY <1>1, <1>2, <1>3, <1>4, <1>5, <1>6, <1>7 DEF Truth

LEMMA TruthNext == ASSUME RecordingsInOrder PROVE Truth /\ [Next]_vars => Truth'
<1> SUFFICES ASSUME Truth, [Next]_vars PROVE Truth'
  OBVIOUS
<1> USE DEF Truth
<1>1. IndInv'
  BY BaseNext, OrderNext DEF Base, IndInv
<1>2. RestInv'
  BY RestNext DEF Base, IndInv
<1>3. ViewInv' /\ TimesExist'
  BY ViewNext, TimesNext
<1>4. ControlInv' /\ BeginInv'
  BY ControlNext, BeginNext
<1>5. ThreadStepInv' /\ ProcessStepInv'
  BY ThreadStepNext, ProcessStepNext
<1> QED
  BY <1>1, <1>2, <1>3, <1>4, <1>5, ResultNext

(***************************************************************************)
(* The movements of StateMovement.cpp tell the truth.  Between movements    *)
(* the process time and the views of the threads are those of the           *)
(* positions; and what a movement returned is what it did: a process step   *)
(* passed the times of one block and stopped there, a thread step moved its *)
(* thread over one block, "reached" means that every thread is at its end,  *)
(* and "unmoved" that nothing has moved.  This holds for any number of      *)
(* threads, whoever is interrupted and however the workers are scheduled.   *)
(***************************************************************************)
THEOREM TruthfulMovement ==
  ASSUME RecordingsInOrder PROVE Spec => []MovementIsTruthful
<1>1. ASSUME Truth PROVE MovementIsTruthful
  <2>1. ASSUME \A w \in Workers : pc[w] = "idle" PROVE ptime = Max(TimesUpTo(next))
    BY <1>1, <2>1, TimeOfPositions DEF Truth, IndInv, LockInv
  <2> QED
    BY <1>1, <2>1 DEF Truth, MovementIsTruthful, TimesFollowPositions, TimesUpTo, ViewInv
<1>2. Spec => []Truth
  BY TruthInit, TruthNext, PTL DEF Spec
<1> QED
  BY <1>1, <1>2, PTL

=============================================================================
