--------------------------- MODULE StateMovement ---------------------------
(***************************************************************************)
(* Moving a recreated process state forward and backward through a         *)
(* recording (lib/Trace/StateMovement.cpp).                                 *)
(*                                                                         *)
(* A movement starts one worker thread per ThreadState.  Each worker adds   *)
(* (or removes) the events of its own thread, block by block.  An event     *)
(* with a process time makes the worker take ProcessStateMutex and wait on  *)
(* ProcessStateCV until the shared process time is right; the mutex is then *)
(* kept to the end of the block.  A worker that finds the predicate of the  *)
(* movement satisfied sets MovementComplete, and the workers that wait give *)
(* up and rewind the part of the block they had handled.                    *)
(***************************************************************************)
EXTENDS TraceEvents, FiniteSetsExt

CONSTANTS
  Workers,       \* one worker per ThreadState of the process
  NoWorker,      \* the owner of a free mutex; the subject of a process request
  Recordings     \* the recordings that may be replayed

\* The recorder's process time starts at zero and is incremented before use.
ASSUME WorkersAssumption == NoWorker \notin Workers
ASSUME RecordingsAssumption ==
  \A tr \in Recordings :
    /\ tr \in [Workers -> Seq(Event)]
    /\ \A w \in Workers : \A i \in 1..Len(tr[w]) :
         hasProcessTime(tr[w][i]) => tr[w][i].time >= 1

VARIABLES
  trace,         \* the recording: a sequence of events per thread
  next,          \* ThreadState::m_NextEvent, as the number of added events
  ptime,         \* ProcessState::ProcessTime
  view,          \* ThreadState::ProcessTime of every thread
  req,           \* the movement that is under way
  pc,            \* where each worker is
  rewind,        \* RewindNextEvent of each worker
  owner,         \* the worker that owns ProcessStateMutex
  complete,      \* MovementComplete
  moved,         \* Moved
  satisfied,     \* PredicateWasSatisfied
  begin,         \* the positions and the process time at the start of it
  result         \* what the last movement returned

procState == <<trace, next, ptime, view>>
movement  == <<req, complete, moved, satisfied, begin, result>>
vars      == <<procState, movement, pc, rewind, owner>>

-----------------------------------------------------------------------------
(***************************************************************************)
(* Requests: the movements the interface offers.  "processStep" moves to    *)
(* the next process time and "threadStep" moves one block of one thread;    *)
(* an "Until" request has a predicate of the caller, whose value is         *)
(* unknown here.                                                            *)
(***************************************************************************)
Direction == {"forward", "backward"}

Request ==
  [dir : Direction, kind : {"processStep", "processUntil"}, who : {NoWorker}]
    \cup
  [dir : Direction, kind : {"threadStep", "threadUntil"}, who : Workers]

Result == {"None", "Unmoved", "ReachedEnd", "ReachedBeginning",
           "PredicateSatisfied"}

PC == {"idle", "loop", "event", "test", "blocking", "waiting", "woken",
       "locked", "rewinding", "after", "predicates", "notify", "break",
       "again", "done"}

Forward == req.dir = "forward"

-----------------------------------------------------------------------------
(***************************************************************************)
(* Adding and removing single events (ThreadState::addNextEvent and         *)
(* removePreviousEvent), as far as the process time is concerned.           *)
(***************************************************************************)

\* The time of the last event with a process time among the first n of s.
IsLastTimed(s, n, i) ==
  /\ i \in 1..n
  /\ hasProcessTime(s[i])
  /\ \A k \in (i + 1)..n : ~hasProcessTime(s[k])

ViewAfter(s, n) ==
  IF \E i \in 1..n : IsLastTimed(s, n, i)
  THEN s[CHOOSE i \in 1..n : IsLastTimed(s, n, i)].time
  ELSE 0

FinalProcessTime == Max({ViewAfter(trace[w], Len(trace[w])) : w \in Workers})

addNextEvent(w) ==
  LET e == trace[w][next[w] + 1]
  IN  /\ next' = [next EXCEPT ![w] = @ + 1]
      /\ ptime' = IF e.type = "State" THEN e.time ELSE ptime
      /\ view' = IF hasProcessTime(e) THEN [view EXCEPT ![w] = e.time] ELSE view

\* Removing an event restores the view that the thread had before it.
removePreviousEvent(w) ==
  LET e == trace[w][next[w]]
  IN  /\ next' = [next EXCEPT ![w] = @ - 1]
      /\ ptime' = IF e.type = "State" THEN e.time - 1 ELSE ptime
      /\ view' = IF hasProcessTime(e)
                 THEN [view EXCEPT ![w] = ViewAfter(trace[w], next[w] - 1)]
                 ELSE view

MoveEvent(w) == IF Forward THEN addNextEvent(w) ELSE removePreviousEvent(w)
UndoEvent(w) == IF Forward THEN removePreviousEvent(w) ELSE addNextEvent(w)

-----------------------------------------------------------------------------
(***************************************************************************)
(* What a worker is about to handle.                                        *)
(***************************************************************************)
AtLimit(w) == next[w] = IF Forward THEN Len(trace[w]) ELSE 0

EventToMove(w) == trace[w][IF Forward THEN next[w] + 1 ELSE next[w]]

\* Moving the next event finishes the block of worker w.
EndsBlock(w) ==
  IF Forward
  THEN \/ next[w] + 1 = Len(trace[w])
       \/ isBlockStart(trace[w][next[w] + 2])
  ELSE \/ next[w] = 1
       \/ isBlockStart(trace[w][next[w]])

\* Mutant: the backward wait has the comparison of the forward one.
TimeReachedUnflipped(w) ==
  LET e == EventToMove(w)
  IN  IF Forward
      THEN ptime >= IF modifiesSharedState(e) THEN e.time - 1 ELSE e.time
      ELSE ptime >= IF modifiesSharedState(e) THEN e.time ELSE e.time - 1

\* Mutant: an event that only updates the local time waits for the time before.
TimeReachedEarly(w) ==
  LET e == EventToMove(w)
  IN  IF Forward
      THEN ptime >= e.time - 1
      ELSE ptime <= IF modifiesSharedState(e) THEN e.time ELSE e.time - 1

\* Mutant: the forward wait is strict.
TimeReachedStrict(w) ==
  LET e == EventToMove(w)
  IN  IF Forward
      THEN ptime > IF modifiesSharedState(e) THEN e.time - 1 ELSE e.time
      ELSE ptime <= IF modifiesSharedState(e) THEN e.time ELSE e.time - 1

\* The process time that the wait is for has been reached.
TimeReached(w) ==
  LET e == EventToMove(w)
  IN  IF Forward
      THEN ptime >= IF modifiesSharedState(e) THEN e.time - 1 ELSE e.time
      ELSE ptime <= IF modifiesSharedState(e) THEN e.time ELSE e.time - 1

\* The step may be made without taking the mutex (again).
NeedsNoLock(w) == owner = w \/ ~hasProcessTime(EventToMove(w))

Goto(w, l) == pc' = [pc EXCEPT ![w] = l]
Release(w) == owner' = IF owner = w THEN NoWorker ELSE owner

-----------------------------------------------------------------------------
(***************************************************************************)
(* The steps of a worker.                                                   *)
(***************************************************************************)

\* while (getNextEvent() != LastEvent): begin another block or finish.
LoopTest(w) ==
  /\ pc[w] = "loop"
  /\ IF AtLimit(w)
     THEN Goto(w, "done") /\ UNCHANGED rewind
     ELSE Goto(w, "event") /\ rewind' = [rewind EXCEPT ![w] = next[w]]
  /\ UNCHANGED <<procState, movement, owner>>

\* Add or remove one event; at the end of the block it has been moved.
HandleEvent(w) ==
  /\ pc[w] = "event"
  /\ NeedsNoLock(w)
  /\ MoveEvent(w)
  /\ Goto(w, IF EndsBlock(w) THEN "after" ELSE "event")
  /\ moved' = (moved \/ EndsBlock(w))
  /\ UNCHANGED <<trace, req, complete, satisfied, begin, result, rewind, owner>>

\* UpdateLock.lock(), and the lock that a woken wait takes again.
Lock(w) ==
  /\ \/ pc[w] = "event" /\ ~NeedsNoLock(w)
     \/ pc[w] = "woken"
  /\ owner = NoWorker
  /\ owner' = w
  /\ Goto(w, "test")
  /\ UNCHANGED <<procState, movement, rewind>>

\* The predicate of ProcessStateCV.wait.
TestWait(w) ==
  /\ pc[w] = "test"
  /\ Goto(w, IF complete \/ TimeReached(w) THEN "locked" ELSE "blocking")
  /\ UNCHANGED <<procState, movement, rewind, owner>>

\* The wait releases the mutex and blocks.
Block(w) ==
  /\ pc[w] = "blocking"
  /\ owner' = NoWorker
  /\ Goto(w, "waiting")
  /\ UNCHANGED <<procState, movement, rewind>>

\* A condition variable may wake for no reason.
WakeSpuriously(w) ==
  /\ pc[w] = "waiting"
  /\ Goto(w, "woken")
  /\ UNCHANGED <<procState, movement, rewind, owner>>

\* After the wait: give up if the movement is complete, else go on.
WaitReturns(w) ==
  /\ pc[w] = "locked"
  /\ IF complete
     THEN Release(w) /\ Goto(w, "rewinding")
     ELSE UNCHANGED owner /\ Goto(w, "event")
  /\ UNCHANGED <<procState, movement, rewind>>

\* Mutant: a worker that gives up leaves its part of the block in place.
RewindNothing(w) ==
  /\ pc[w] = "rewinding"
  /\ Goto(w, "after")
  /\ UNCHANGED <<procState, movement, rewind, owner>>

\* Take back the events of the block that had been handled.
RewindBlock(w) ==
  /\ pc[w] = "rewinding"
  /\ IF next[w] # rewind[w]
     THEN UndoEvent(w) /\ UNCHANGED <<trace, pc>>
     ELSE Goto(w, "after") /\ UNCHANGED procState
  /\ UNCHANGED <<movement, rewind, owner>>

\* if (MovementComplete) break;
TestComplete(w) ==
  /\ pc[w] = "after"
  /\ Goto(w, IF complete THEN "break" ELSE "predicates")
  /\ UNCHANGED <<procState, movement, rewind, owner>>

\* The predicate that this worker evaluates after a block, and its values.
HasPredicate(w) ==
  \/ req.kind \in {"processStep", "processUntil"} /\ owner = w
  \/ req.who = w

PredicateValues ==
  CASE req.kind = "processStep" -> {IF Forward THEN ptime > begin.ptime
                                               ELSE ptime < begin.ptime}
    [] req.kind = "threadStep"  -> {TRUE}
    [] OTHER                    -> BOOLEAN

SatisfyPredicate(w) ==
  /\ pc[w] = "predicates"
  /\ HasPredicate(w) /\ TRUE \in PredicateValues
  /\ complete' = TRUE
  /\ satisfied' = TRUE
  /\ Goto(w, "notify")
  /\ UNCHANGED <<procState, req, moved, begin, result, rewind, owner>>

FailPredicate(w) ==
  /\ pc[w] = "predicates"
  /\ HasPredicate(w) => FALSE \in PredicateValues
  /\ Goto(w, "again")
  /\ UNCHANGED <<procState, movement, rewind, owner>>

\* ProcessStateCV.notify_all()
NotifyAll(w) ==
  /\ pc[w] = "notify"
  /\ pc' = [v \in Workers |-> CASE v = w -> "break"
                                [] pc[v] = "waiting" -> "woken"
                                [] OTHER -> pc[v]]
  /\ UNCHANGED <<procState, movement, rewind, owner>>

\* The end of the loop's body destroys the lock, whether it breaks or not.
EndIteration(w) ==
  /\ pc[w] \in {"break", "again"}
  /\ Release(w)
  /\ Goto(w, IF pc[w] = "break" THEN "done" ELSE "loop")
  /\ UNCHANGED <<procState, movement, rewind>>

-----------------------------------------------------------------------------
(***************************************************************************)
(* The caller.                                                              *)
(***************************************************************************)

\* moveForward and moveBackward of a process at its limit do nothing.
IsRefused(r) ==
  /\ r.kind = "processStep"
  /\ ptime = IF r.dir = "forward" THEN FinalProcessTime ELSE 0

Refuse(r) ==
  /\ \A w \in Workers : pc[w] = "idle"
  /\ IsRefused(r)
  /\ result' = "Unmoved"
  /\ req' = r
  /\ begin' = [next |-> next, ptime |-> ptime]
  /\ UNCHANGED <<procState, complete, moved, satisfied, pc, rewind, owner>>

\* Mutant: a movement starts with the PredicateWasSatisfied of the last one.
BeginStale(r) ==
  /\ \A w \in Workers : pc[w] = "idle"
  /\ ~IsRefused(r)
  /\ req' = r
  /\ begin' = [next |-> next, ptime |-> ptime]
  /\ complete' = FALSE /\ moved' = FALSE /\ UNCHANGED satisfied
  /\ result' = "None"
  /\ pc' = [w \in Workers |-> "loop"]
  /\ UNCHANGED <<procState, rewind, owner>>

\* A new ThreadedStateMovementHelper and its workers.
Begin(r) ==
  /\ \A w \in Workers : pc[w] = "idle"
  /\ ~IsRefused(r)
  /\ req' = r
  /\ begin' = [next |-> next, ptime |-> ptime]
  /\ complete' = FALSE /\ moved' = FALSE /\ satisfied' = FALSE
  /\ result' = "None"
  /\ pc' = [w \in Workers |-> "loop"]
  /\ UNCHANGED <<procState, rewind, owner>>

\* Every worker has been joined: the movement returns.
Join ==
  /\ \A w \in Workers : pc[w] = "done"
  /\ pc' = [w \in Workers |-> "idle"]
  /\ result' = CASE satisfied -> "PredicateSatisfied"
                 [] ~satisfied /\ moved ->
                      IF Forward THEN "ReachedEnd" ELSE "ReachedBeginning"
                 [] OTHER -> "Unmoved"
  /\ UNCHANGED <<procState, req, complete, moved, satisfied, begin, rewind, owner>>

-----------------------------------------------------------------------------
Init ==
  /\ trace \in Recordings
  /\ next = [w \in Workers |-> 0]
  /\ ptime = 0
  /\ view = [w \in Workers |-> 0]
  /\ req = [dir |-> "forward", kind |-> "processStep", who |-> NoWorker]
  /\ pc = [w \in Workers |-> "idle"]
  /\ rewind = [w \in Workers |-> 0]
  /\ owner = NoWorker
  /\ complete = FALSE /\ moved = FALSE /\ satisfied = FALSE
  /\ begin = [next |-> next, ptime |-> ptime]
  /\ result = "None"

WorkerStep(w) ==
  \/ LoopTest(w)    \/ HandleEvent(w)      \/ Lock(w)           \/ TestWait(w)
  \/ Block(w)       \/ WaitReturns(w)      \/ RewindBlock(w)
  \/ TestComplete(w) \/ SatisfyPredicate(w) \/ FailPredicate(w)
  \/ NotifyAll(w)   \/ EndIteration(w)

Next ==
  \/ \E w \in Workers : WorkerStep(w) \/ WakeSpuriously(w)
  \/ \E r \in Request : Begin(r) \/ Refuse(r)
  \/ Join

Spec == Init /\ [][Next]_vars

\* Worker threads are scheduled and a free mutex is eventually granted; nothing
\* makes a condition variable wake by itself.
Fairness ==
  /\ \A w \in Workers : WF_vars(WorkerStep(w)) /\ SF_vars(Lock(w))
  /\ WF_vars(Join)

FairSpec == Spec /\ Fairness

-----------------------------------------------------------------------------
(***************************************************************************)
(* Properties.                                                              *)
(***************************************************************************)
TypeOK ==
  /\ trace \in Recordings
  /\ next \in [Workers -> Nat]
  /\ \A w \in Workers : next[w] <= Len(trace[w])
  /\ ptime \in Nat
  /\ view \in [Workers -> Nat]
  /\ req \in Request
  /\ pc \in [Workers -> PC]
  /\ rewind \in [Workers -> Nat]
  /\ owner \in Workers \cup {NoWorker}
  /\ complete \in BOOLEAN /\ moved \in BOOLEAN /\ satisfied \in BOOLEAN
  /\ begin \in [next : [Workers -> Nat], ptime : Nat]
  /\ result \in Result

\* The event at position i of thread w has been added.
Added(w, i) == i <= next[w]

IsShared(w, i) == trace[w][i].type = "State"

(***************************************************************************)
(* Whenever no worker owns the mutex, the shared events that have been      *)
(* added are exactly those up to the process time, over all the threads:    *)
(* replay applies and removes shared events in the order of recording,      *)
(* however the workers are scheduled and wherever a movement stops.         *)
(***************************************************************************)
SharedEventsInOrder ==
  owner = NoWorker =>
    \A w \in Workers : \A i \in 1..Len(trace[w]) :
      IsShared(w, i) => (Added(w, i) <=> trace[w][i].time <= ptime)

(***************************************************************************)
(* Between movements every thread stands at the start of a block: a worker  *)
(* that is interrupted while it waits in the middle of a block has undone   *)
(* the events of that block.                                                *)
(***************************************************************************)
BetweenBlocks(w, n) == n = 0 \/ n = Len(trace[w]) \/ isBlockStart(trace[w][n + 1])

RestsBetweenBlocks ==
  (\A w \in Workers : pc[w] = "idle") => \A w \in Workers : BetweenBlocks(w, next[w])

(***************************************************************************)
(* Between movements the times are determined by the positions: the process *)
(* time is that of the latest shared event added, and the view of a thread  *)
(* is the time of its latest event that has one, whatever movements led     *)
(* there.                                                                   *)
(***************************************************************************)
TimesFollowPositions ==
  (\A w \in Workers : pc[w] = "idle") =>
    /\ ptime = Max({0} \cup UNION {{trace[w][i].time :
                      i \in {j \in 1..next[w] : IsShared(w, j)}} : w \in Workers})
    /\ \A w \in Workers : view[w] = ViewAfter(trace[w], next[w])

(***************************************************************************)
(* A movement returns what it did: moveForward/moveBackward of a process    *)
(* that satisfy their predicate stop after one block that moves the process *)
(* time, a thread step moves its thread over one block, "reached" means     *)
(* that every thread is at the end it moved towards, and "unmoved" that     *)
(* none moved.                                                              *)
(***************************************************************************)
BlockBetween(s, lo, hi) ==
  /\ lo < hi
  /\ SameBlock(s, lo + 1, hi)
  /\ hi = Len(s) \/ isBlockStart(s[hi + 1])

\* All the times after lo and up to hi are in one block.
OneBlockOfTimes(lo, hi) ==
  \E w \in Workers : \E i, j \in 1..Len(trace[w]) :
    /\ IsShared(w, i) /\ trace[w][i].time = lo + 1
    /\ IsShared(w, j) /\ trace[w][j].time = hi
    /\ i <= j /\ SameBlock(trace[w], i, j)

ResultIsTruthful ==
  (result # "None" /\ \A w \in Workers : pc[w] = "idle") =>
    /\ result = "PredicateSatisfied" /\ req.kind = "processStep" =>
         IF Forward THEN OneBlockOfTimes(begin.ptime, ptime)
                    ELSE OneBlockOfTimes(ptime, begin.ptime)
    /\ result = "PredicateSatisfied" /\ req.kind = "threadStep" =>
         LET w == req.who
         IN  IF Forward THEN BlockBetween(trace[w], begin.next[w], next[w])
                        ELSE BlockBetween(trace[w], next[w], begin.next[w])
    /\ result = "ReachedEnd" => \A w \in Workers : next[w] = Len(trace[w])
    /\ result = "ReachedBeginning" => \A w \in Workers : next[w] = 0
    /\ result = "Unmoved" => next = begin.next /\ ptime = begin.ptime

(***************************************************************************)
(* A movement leaves the state at the times of its positions, and its       *)
(* result tells what it did.                                                *)
(***************************************************************************)
MovementIsTruthful == TimesFollowPositions /\ ResultIsTruthful

(***************************************************************************)
(* The process time changes only in the hands of the owner of the mutex,    *)
(* and by one at a time.                                                    *)
(***************************************************************************)
TimeMovesUnderLock ==
  [][ptime' # ptime => /\ owner # NoWorker /\ owner' = owner
                       /\ ptime' \in {ptime - 1, ptime + 1}]_vars

(***************************************************************************)
(* When a forward movement changes the view of a thread, the process has    *)
(* reached the time that the thread now sees.                               *)
(***************************************************************************)
SeenTimeIsReached ==
  [][Forward => \A w \in Workers : view'[w] # view[w] => view'[w] <= ptime']_vars

(***************************************************************************)
(* "Used to wait for the ProcessState to update": a worker that waits for a  *)
(* process time does not wait for ever once that time has been reached.     *)
(***************************************************************************)
WaitEnds == \A w \in Workers :
  (pc[w] = "waiting" /\ TimeReached(w)) ~> (pc[w] # "waiting")

(***************************************************************************)
(* In a program of one thread every movement returns: its workers come to   *)
(* an end and are joined.  (With two threads WaitEnds fails.)               *)
(***************************************************************************)
OneThread == \E w \in Workers : \A v \in Workers \ {w} : trace[v] = <<>>

MovementEnds == (OneThread /\ \E w \in Workers : pc[w] # "idle")
                  ~> (\A w \in Workers : pc[w] = "idle")

-----------------------------------------------------------------------------
\* The recordings are those for which the order of replay is proved.
RecordingsInOrder == \A tr \in Recordings : InOrder(Workers, tr)

(***************************************************************************)
(* The inductive invariant behind SharedEventsInOrder.                      *)
(***************************************************************************)
\* The positions of the events that w has moved in its current block.
MovedPart(w) == IF Forward THEN (rewind[w] + 1)..next[w] ELSE (next[w] + 1)..rewind[w]

InBlock(w) == pc[w] \in {"event", "test", "blocking", "waiting", "woken",
                         "locked", "rewinding"}

LockInv ==
  \A w \in Workers :
    /\ pc[w] \in {"test", "blocking", "locked"} => owner = w
    /\ pc[w] \in {"idle", "loop", "waiting", "woken", "rewinding", "done"}
         => owner # w

\* What w has moved is in the block of the event it is to move next.
BlockInv ==
  \A w \in Workers : InBlock(w) =>
    IF Forward
    THEN /\ rewind[w] <= next[w] /\ next[w] < Len(trace[w])
         /\ \A k \in (rewind[w] + 2)..(next[w] + 1) : ~isBlockStart(trace[w][k])
    ELSE /\ 1 <= next[w] /\ next[w] <= rewind[w] /\ rewind[w] <= Len(trace[w])
         /\ \A k \in (next[w] + 1)..rewind[w] : ~isBlockStart(trace[w][k])

\* A worker begins and leaves a block between blocks, and knows where it began.
RestPart(w) == BetweenBlocks(w, IF InBlock(w) THEN rewind[w] ELSE next[w])
RestInv == \A w \in Workers : RestPart(w)

\* Worker w is in a block and has the mutex.
Holding(w) == owner = w /\ pc[w] = "event"

NoneTimedMoved(w) == \A i \in MovedPart(w) : ~hasProcessTime(trace[w][i])

\* Before the wait of the block is over, no event with a time has been moved.
WaitPart(w) ==
  /\ InBlock(w) /\ ~Holding(w) => NoneTimedMoved(w)
  /\ pc[w] \in {"test", "blocking", "waiting", "woken", "locked"} =>
       hasProcessTime(EventToMove(w))
  /\ pc[w] = "locked" => complete \/ TimeReached(w)

\* With the mutex, in the block: the wait has just ended, or the process time is
\* that of the last event with a time that has been moved.
WaitJustOver(w) ==
  NoneTimedMoved(w) /\ hasProcessTime(EventToMove(w)) /\ TimeReached(w)

TimedMoved(w) ==
  \E i \in MovedPart(w) :
    /\ hasProcessTime(trace[w][i])
    /\ \A k \in MovedPart(w) :
         (IF Forward THEN i < k ELSE k < i) => ~hasProcessTime(trace[w][k])
    /\ IF IsShared(w, i)
       THEN trace[w][i].time = IF Forward THEN ptime ELSE ptime + 1
       ELSE Forward /\ ptime >= trace[w][i].time

TimePart(w) == Holding(w) => WaitJustOver(w) \/ TimedMoved(w)

WaitInv == \A w \in Workers : WaitPart(w)
TimeInv == \A w \in Workers : TimePart(w)

\* Event i of w waits for w to finish the block in which it has moved another
\* event of the same time.
Pending(w, i) ==
  /\ Holding(w)
  /\ \E j \in MovedPart(w) : IsShared(w, j) /\ trace[w][j].time = trace[w][i].time

OrderPart(w, i) ==
  IsShared(w, i) =>
    /\ Added(w, i) => trace[w][i].time <= ptime \/ (~Forward /\ Pending(w, i))
    /\ trace[w][i].time <= ptime => Added(w, i) \/ (Forward /\ Pending(w, i))

OrderInv == \A w \in Workers : \A i \in 1..Len(trace[w]) : OrderPart(w, i)

\* At every moment, not only when the mutex is free, the shared events that have
\* been added are those up to the process time, save for the rest of the block
\* that the owner of the mutex is moving.
IndInv == TypeOK /\ LockInv /\ BlockInv /\ WaitInv /\ TimeInv /\ OrderInv

=============================================================================
