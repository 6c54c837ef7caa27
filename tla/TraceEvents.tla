---------------------------- MODULE TraceEvents ----------------------------
(***************************************************************************)
(* The vocabulary of recorded events, as far as replay tells them apart.   *)
(*                                                                         *)
(* include/seec/Trace/Events.def declares some forty event types.  Replay   *)
(* order depends on three of their traits only: whether the event starts a  *)
(* block, whether it modifies the state shared by all threads, and whether  *)
(* it carries a process time.  Each class of event types with the same      *)
(* traits is one type here:                                                 *)
(*                                                                         *)
(*   "Instruction"    FunctionStart, FunctionEnd, NewThreadTime, TraceEnd,  *)
(*                    PreInstruction, Instruction, InstructionWith...       *)
(*   "NewProcessTime" NewProcessTime: the thread saw the process time move  *)
(*   "Alloca"         Alloca, StackRestore, ByValRegionAdd, RuntimeError... *)
(*   "State"          Malloc, Free, Realloc, State..., File..., Dir...      *)
(*   "KnownRegion"    KnownRegionAdd, KnownRegionRemove                     *)
(***************************************************************************)
EXTENDS Integers, Sequences

EventType == {"Instruction", "NewProcessTime", "Alloca", "State", "KnownRegion"}

\* time is meaningful for the types with a process time only.
Event == [type : EventType, time : Nat]

\* Does an event of this kind begin a new block?
isBlockStart(e) == e.type \in {"Instruction", "NewProcessTime"}

\* Does the event change the state that all threads share?
modifiesSharedState(e) == e.type \in {"State", "KnownRegion"}

\* Does the record of the event hold a process time?
hasProcessTime(e) == e.type \in {"NewProcessTime", "State"}

\* Events i < j of the sequence s belong to the same block.
SameBlock(s, i, j) == \A k \in (i + 1)..j : ~isBlockStart(s[k])

(***************************************************************************)
(* What the recording tr of the threads W must satisfy for shared events to *)
(* be replayed in order.  The events of one time are in one block; and      *)
(* since replay waits for the first timed event of a block only, the times  *)
(* in a block go on from the time that this wait establishes, without       *)
(* leaving one out.                                                         *)
(***************************************************************************)
SharedTimesUnique(W, tr) ==
  \A v, w \in W : \A i \in 1..Len(tr[v]), j \in 1..Len(tr[w]) :
    /\ tr[v][i].type = "State" /\ tr[w][j].type = "State"
    /\ tr[v][i].time = tr[w][j].time
    => v = w /\ (i < j => SameBlock(tr[v], i, j))

OneWaitPerBlock(W, tr) ==
  \A w \in W : \A i, j \in 1..Len(tr[w]) :
    /\ i < j /\ SameBlock(tr[w], i, j)
    /\ hasProcessTime(tr[w][i]) /\ tr[w][j].type = "State"
    => /\ tr[w][j].time >= IF tr[w][i].type = "State" THEN tr[w][i].time
                                                     ELSE tr[w][i].time + 1
       /\ \/ tr[w][j].time <= tr[w][i].time + 1
          \/ \E k \in (i + 1)..(j - 1) : hasProcessTime(tr[w][k])

InOrder(W, tr) == SharedTimesUnique(W, tr) /\ OneWaitPerBlock(W, tr)

=============================================================================
