--------------------------- MODULE MCThreadState ---------------------------
(***************************************************************************)
(* Instances of ThreadState.  The code has a loop over the blocks 2 to 4,   *)
(* in which block 3 may be left out.                                        *)
(***************************************************************************)
EXTENDS ThreadState

MCBlockOf   == <<1, 2, 2, 3, 4>>
MCTypeOf    == <<"ptr", "int", "ptr", "longdouble", "void">>
MCFollows   == <<{2}, {3, 4}, {4}, {2}>>
MCDeclareOf == <<2, 0, 5, 0, 0>>
MCGlobals   == <<[address |-> 100, size |-> 2], [address |-> 101, size |-> 1]>>
MCMaxEvents == [control |-> 10, stack |-> 17, heap |-> 10, files |-> 8]

=============================================================================
