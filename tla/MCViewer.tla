-------------------------------- MODULE MCViewer -------------------------------
(***************************************************************************)
(* The trace viewer on small instances.  Each profile lets one part of the *)
(* viewer act; the others stay as they are.                                *)
(***************************************************************************)
EXTENDS GraphViewer, SourceViewer, ExplanationViewer, StreamPanel, ActionReplay,
        RecordingSubmitter, TraceArchive

VARIABLE profile   \* the part of the viewer that is looked at

vars == <<graphVars, sourceVars, explanationVars, streamVars, replayVars, submitVars, archiveVars, profile>>

--------------------------------------------------------------------------------
(* A program of two files: a prototype in a header, which also defines a      *)
(* macro, and a function that uses it and a macro that swaps its arguments.   *)

Header == 1
Main == 2
Node(kind, b, e) == [kind |-> kind, begin |-> b, end |-> e]
Plain(kind, f, a, b) == Node(kind, Token(f, a), Token(f, b))
Arg(at) == ArgToken(Token(Main, at), Token(Main, 3), Token(Main, 6))
Body == BodyToken(Token(Header, 1), Token(Main, 1), Token(Main, 1))
Inner == Node("Stmt", Body, Token(Main, 2))
Swapped == Node("Stmt", Arg(5), Arg(4))
Prototype == Plain("Decl", Header, 0, 2)
Fn == Plain("Decl", Main, 0, 6)

MCDecls == <<<<Prototype>>,
             <<Fn, Plain("Stmt", Main, 1, 6), Inner, Node("Stmt", Body, Body), Swapped,
               Node("Stmt", Arg(5), Arg(5)), Node("Stmt", Arg(4), Arg(4))>>>>

MCViews == <<[node |-> <<Fn>>, value |-> FALSE, error |-> <<>>],
             [node |-> <<Inner>>, value |-> TRUE, error |-> <<Inner>>],
             [node |-> <<Prototype>>, value |-> FALSE, error |-> <<Swapped>>]>>

--------------------------------------------------------------------------------
(* Texts with characters of one to three bytes, with links, without, and the  *)
(* message of an error.                                                       *)

C(width, link) == [width |-> width, link |-> link]
Shows(annotation, result, text, suppress) ==
    [annotation |-> annotation, result |-> result, text |-> text, suppress |-> suppress]

MCExplained == <<
    Shows(<<C(3, "none"), C(2, "first://"), C(1, "first://"), C(1, "none")>>, "explained",
          <<C(1, "decl"), C(2, "decl"), C(1, "none"), C(1, "second://"), C(3, "stmt")>>, FALSE),
    Shows(<<>>, "error", <<C(1, "none"), C(1, "none")>>, FALSE),
    Shows(<<C(1, "decl"), C(1, "none")>>, "explained", <<C(1, "stmt")>>, TRUE),
    Shows(<<>>, "none", <<>>, FALSE),
    Shows(<<C(2, "first://")>>, "explained", <<C(2, "second://"), C(1, "none")>>, FALSE)>>

\* Streams that are opened, closed and written to, one not in ASCII, with
\* a last write that is empty.
MCStreamViews == <<(1 :> <<<<"p">>, <<"c", "p">>, <<>>>>) @@ (2 :> <<<<"x">>>>),
                   (1 :> <<<<"p">>>>),
                   (2 :> <<<<"x">>, <<"p">>, <<>>>>)>>

MCRecordings == {<<>>, <<1, 3>>, <<0, 2, 2, 5>>}

--------------------------------------------------------------------------------
Init ==
    /\ GraphInit /\ SourceInit /\ ExplanationInit /\ StreamInit /\ ReplayInit /\ SubmitInit /\ ArchiveInit
    /\ profile \in Kinds \cup {"tree", "spurious", "source", "explanation", "streams", "replay",
                    "submitter", "archive"}
    /\ curl \/ profile = "submitter"

GraphProfile == profile \in Kinds \cup {"tree", "spurious"}

\* It takes three movements to use a function of an earlier state.
Moves == IF profile \in {"value", "dereference", "area"} THEN 2 ELSE MaxMoves

\* The state graph: the user works with one kind of node of the graph or with
\* the tree, or wake-ups come without notifications.
GraphStep ==
    \/ /\ CommonInput \/ (profile \in Kinds /\ GraphInput({profile}))
       /\ version + Len(SelectSeq(pending', LAMBDA e : e.kind = "move")) <= Moves
    \/ GuiNext \/ WorkerNext
    \/ profile = "tree" /\ TreeInput
    \/ profile = "spurious" /\ SpuriousNext

Next ==
    /\ UNCHANGED profile
    /\ \/ /\ GraphProfile /\ GraphStep
          /\ UNCHANGED <<sourceVars, explanationVars, streamVars, replayVars, submitVars, archiveVars>>
       \/ /\ profile = "source" /\ SourceNext
          /\ UNCHANGED <<graphVars, explanationVars, streamVars, replayVars, submitVars, archiveVars>>
       \/ /\ profile = "explanation" /\ ExplanationNext
          /\ UNCHANGED <<graphVars, sourceVars, streamVars, replayVars, submitVars, archiveVars>>
       \/ /\ profile = "streams" /\ StreamNext
          /\ UNCHANGED <<graphVars, sourceVars, explanationVars, replayVars, submitVars, archiveVars>>
       \/ /\ profile = "replay" /\ ReplayNext
          /\ UNCHANGED <<graphVars, sourceVars, explanationVars, streamVars, submitVars, archiveVars>>
       \/ /\ profile = "submitter" /\ SubmitNext
          /\ UNCHANGED <<graphVars, sourceVars, explanationVars, streamVars, replayVars, archiveVars>>
       \/ /\ profile = "archive" /\ ArchiveNext
          /\ UNCHANGED <<graphVars, sourceVars, explanationVars, streamVars, replayVars, submitVars>>

Others == <<sourceVars, explanationVars, streamVars, replayVars, archiveVars, profile>>

GuiStep ==
    \/ GraphProfile /\ GuiNext /\ UNCHANGED <<Others, submitVars>>
    \/ profile = "submitter" /\ JoinSubmitter /\ UNCHANGED <<Others, graphVars>>

WorkerStep ==
    \/ GraphProfile /\ WorkerNext /\ UNCHANGED <<Others, submitVars>>
    \/ profile = "submitter" /\ SubmitWorker /\ UNCHANGED <<Others, graphVars>>

\* The GUI thread runs its handlers, and the workers their loops, whenever they
\* can; users need not do anything, and neither need the server.  libcurl calls
\* the progress callback all the while.
Fairness == WF_vars(GuiStep) /\ WF_vars(WorkerStep)

Spec == Init /\ [][Next]_vars /\ Fairness

\* Neither a movement nor closing waits for ever for the worker of the graph or
\* for the submitter, though the server never answers; and with cURL the
\* submitter gets to every recording, unless a transfer lasts for ever.
ViewerNeverHangs == MovementsEnd /\ ClosingEnds /\ ClosingSubmits /\ NewRecordingsAreTaken
================================================================================
