-------------------------- MODULE MCStateMovement --------------------------
(***************************************************************************)
(* Recordings for the model checking of StateMovement.                      *)
(***************************************************************************)
EXTENDS StateMovement, TLC

CONSTANTS a, b

Ins   == [type |-> "Instruction", time |-> 0]
Loc   == [type |-> "Alloca", time |-> 0]
Reg   == [type |-> "KnownRegion", time |-> 0]
Npt(t) == [type |-> "NewProcessTime", time |-> t]
St(t)  == [type |-> "State", time |-> t]

\* Thread a sets up known memory, starts b and stores again; b stores at times 2
\* and 4.  Each thread sees the times of the other before it goes on.  There are
\* blocks with two events of one time, blocks with local events before the
\* shared one, and a block of b begins with the time it synchronized to.
TwoThreads ==
  (a :> <<Ins, Reg, St(1), St(1), Ins, Npt(2), Ins, Loc, St(3), Ins>>)
    @@ (b :> <<Npt(1), Ins, St(2), Ins, Npt(3), Loc, St(4), Ins>>)

\* main() begins by recording the environment at time 1 and its arguments at
\* time 2, in one block.
Arguments ==
  (a :> <<Ins, Reg, St(1), Reg, St(2), St(2), Ins, Npt(3), Ins, St(4)>>)
    @@ (b :> <<Npt(2), Ins, St(3), Ins>>)

\* Thread b never changes shared state and sees everything late.
Observer ==
  (a :> <<Ins, St(1), Ins, St(2), Ins>>)
    @@ (b :> <<Npt(1), Ins, Loc, Npt(2), Ins>>)

TwoThreadRecordings == {TwoThreads, Arguments, Observer}

\* A program of one thread, which is what most recordings are: the worker of b
\* has nothing to do and returns at once.
OneThreadRecordings ==
  {(a :> <<Ins, Reg, St(1), Reg, St(2), Ins, Loc, St(3), St(3), Ins>>) @@ (b :> <<>>),
   (a :> <<Ins, Loc, Ins, Ins, St(1), Ins, Loc, Ins, St(2), Ins, St(3)>>) @@ (b :> <<>>)}

AllRecordings == TwoThreadRecordings \cup OneThreadRecordings

\* They are recordings for which the order of replay is proved.
ASSUME AllInOrder == \A tr \in AllRecordings : InOrder(Workers, tr)

\* Thread b synchronized to time 2 on entering a notification, and while it
\* waited for the memory lock a stored at time 3; the event of b then got time
\* 4, in the block that began with the NewProcessTime.
LateTimeRecordings ==
  {(a :> <<Ins, St(1), Ins, St(2), Ins, St(3)>>)
     @@ (b :> <<Npt(1), Ins, Npt(2), Loc, St(4), Ins>>)}

=============================================================================
