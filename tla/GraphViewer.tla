------------------------------ MODULE GraphViewer ------------------------------
(***************************************************************************)
(* The trace viewer while the user moves through a recording: the frame    *)
(* that moves the state (TraceViewerFrame.cpp), the buttons and menus that *)
(* ask for movements, the evaluation tree, and the graph of the state,     *)
(* which a worker thread lays out and renders (StateGraphViewer.cpp).      *)
(*                                                                         *)
(* Everything that a state was made of (values, function states) is freed  *)
(* when the state moves.  A pointer to such an object is modelled by the   *)
(* number of the state it belongs to, "version"; reading through it when   *)
(* the state has moved on is recorded in "used".                           *)
(*                                                                         *)
(* All handlers run in the GUI thread, one at a time; one that must wait   *)
(* for the worker is split where it waits.  A popup menu runs the event    *)
(* loop itself, so queued events are handled while it is open.             *)
(***************************************************************************)
EXTENDS Integers, Sequences

CONSTANTS
    MaxMoves,      \* movements of one session
    MaxPending,    \* events queued by the user at one time
    MaxSpurious    \* wake-ups of a condition variable without a notification

ASSUME GraphBounds == /\ MaxMoves \in Nat
                      /\ MaxPending \in Nat \ {0}
                      /\ MaxSpurious \in Nat

--------------------------------------------------------------------------------
(* The token that guards one recreated state (StateAccessToken.hpp).  Whoever   *)
(* reads the state acquires access first and releases it afterwards; whoever    *)
(* moves the state invalidates the token, which refuses later readers and waits *)
(* for the present ones.                                                        *)

\* A new token is valid and nobody reads.
StateAccessToken == [Valid |-> TRUE, Count |-> 0]

IsToken(t) == t \in [Valid : BOOLEAN, Count : Nat]

\* What getAccess() answers, and what it does to the token.
HasAccess(t) == t.Valid
acquireAccess(t) == IF t.Valid THEN [t EXCEPT !.Count = @ + 1] ELSE t

releaseAccess(t) == [t EXCEPT !.Count = @ - 1]

\* releaseAccess() notifies whoever invalidates when it was the last one.
NotifiesOthers(t) == t.Count > 1
Notifies(t) == t.Count = 1

\* invalidate() waits, once, if somebody reads; then it refuses the others.
MustNotWait(t) == FALSE
MustWait(t) == t.Valid /\ t.Count # 0
invalidate(t) == [t EXCEPT !.Valid = FALSE]

--------------------------------------------------------------------------------
None == -1
Versions == 0..MaxMoves

\* Nodes of a graph: the kinds of Displayable that own a pointer into the
\* state, and no node.
Kinds == {"value", "dereference", "function", "area"}
NoNode == [kind |-> "none", of |-> None]
Nodes == [kind : Kinds, of : Versions] \cup {NoNode}

VARIABLES
    version,   \* number of the state that now exists
    access,    \* the token of each state
    gui,       \* where the GUI thread is
    pending,   \* events queued for the GUI thread
    buttons,   \* the buttons of ThreadTimeControl are enabled
    panel,     \* the graph panel
    tree,      \* the evaluation tree
    menu,      \* the open popup menu
    task,      \* what the worker was last asked to do
    worker,    \* where the worker is, and the state it works on
    missed,    \* the last notification of the worker found nobody waiting
    failed,    \* the last rendering failed
    spurious,  \* wake-ups without a notification so far
    used,      \* what the last step read of a state that is gone
    causes     \* what let such pointers survive (history)

viewVars == <<buttons, panel, tree, menu>>
workVars == <<task, worker, missed, failed>>
seenVars == <<used, causes>>
graphVars == <<version, access, gui, pending, viewVars, workVars, spurious, seenVars>>

Move(of) == [kind |-> "move", node |-> [NoNode EXCEPT !.of = of]]
Rendered(of) == [kind |-> "rendered", node |-> [NoNode EXCEPT !.of = of]]
MouseOver(n) == [kind |-> "mouseover", node |-> n]
ContextMenu == [kind |-> "contextmenu", node |-> NoNode]
Events == [kind : {"move", "rendered"}, node : [kind : {"none"}, of : Versions \cup {None}]]
          \cup [kind : {"mouseover", "contextmenu"}, node : Nodes]

\* The tree's nodes: some have a value, some have not.
TreeNodes == {"none", "stmt", "value"}

GraphTypeOK ==
    /\ version \in Versions
    /\ DOMAIN access = Versions /\ \A v \in Versions : IsToken(access[v])
    /\ gui \in {"idle", "waiting", "woken", "moving", "show", "freed", "joining", "closed"}
    /\ \A i \in DOMAIN pending : pending[i] \in Events
    /\ buttons \in BOOLEAN
    /\ panel \in [CurrentAccess : Versions \cup {None}, MouseOver : Nodes,
                  graph : Versions \cup {None}]
    /\ tree \in [CurrentAccess : Versions \cup {None}, ActiveFn : Versions \cup {None},
                 hover : TreeNodes, HoverTimer : BOOLEAN]
    /\ menu \in Nodes \cup [kind : {"tree"}, of : Versions \cup {None}]
    /\ task \in [Access : Versions \cup {None}, ContinueGraphGeneration : BOOLEAN]
    /\ worker \in [pc : {"start", "waiting", "woken", "layout", "dot", "exited"},
                   of : Versions \cup {None}]
    /\ missed \in BOOLEAN /\ failed \in BOOLEAN /\ spurious \in 0..MaxSpurious
    /\ causes \subseteq {"late graph", "queued event", "open menu"}

\* The frame is created with the first state, which the graph does not show.
GraphInit ==
    /\ version = 0
    /\ access = [v \in Versions |-> StateAccessToken]
    /\ gui = "idle" /\ pending = <<>> /\ buttons = TRUE
    /\ panel = [CurrentAccess |-> None, MouseOver |-> NoNode, graph |-> None]
    /\ tree = [CurrentAccess |-> 0, ActiveFn |-> 0, hover |-> "none", HoverTimer |-> FALSE]
    /\ menu = NoNode
    /\ task = [Access |-> None, ContinueGraphGeneration |-> FALSE]
    /\ worker = [pc |-> "start", of |-> None]
    /\ missed = FALSE /\ failed = FALSE /\ spurious = 0 /\ used = {} /\ causes = {}

--------------------------------------------------------------------------------
(* Reading through a pointer into the state *)

Gone(of) == of # None /\ of # version
Reads(places, of) ==
    /\ used' = IF Gone(of) THEN places ELSE {}
    /\ UNCHANGED causes
ReadsNothing == used' = {} /\ UNCHANGED causes

\* The worker holds these two mutexes from the time it wakes until its layout
\* is complete; the GUI thread never keeps them.
TaskMutexFree == worker.pc # "layout"
LayoutHandlerMutexFree == worker.pc # "layout"

--------------------------------------------------------------------------------
(* Asking for a movement *)

\* The token is only consulted when the movement is asked for; the event that
\* performs it is queued.
raiseMovementEvent(token, of) ==
    /\ version + Len(SelectSeq(pending, LAMBDA e : e.kind = "move")) < MaxMoves
    /\ pending' = IF token # None /\ HasAccess(access[token])
                  THEN Append(pending, Move(of)) ELSE pending

Idle == gui = "idle"
Input == Idle /\ menu = NoNode /\ Len(pending) < MaxPending
\* The user may press a button, or a replayed recording may do so for him,
\* which leaves the buttons as they are.
Click ==
    /\ Input /\ buttons /\ buttons' = FALSE
    /\ raiseMovementEvent(version, None)
    /\ UNCHANGED <<version, access, gui, panel, tree, menu, workVars, spurious>> /\ ReadsNothing

ReplayClick ==
    /\ Idle /\ Len(pending) < MaxPending
    /\ raiseMovementEvent(version, None)
    /\ UNCHANGED <<version, access, gui, viewVars, workVars, spurious>> /\ ReadsNothing

--------------------------------------------------------------------------------
(* The graph panel *)

\* A notification reaches the worker only while it waits.  One that is about
\* to take the mutex will find the new task there.
notify_one ==
    /\ missed' = (worker.pc \notin {"waiting", "woken"})
    /\ worker' = IF worker.pc = "waiting" THEN [worker EXCEPT !.pc = "woken"] ELSE worker

\* (A task that is still called off from the last movement.)
renderGraphCalledOff(access1) ==
    /\ TaskMutexFree
    /\ task' = [task EXCEPT !.Access = access1]
    /\ failed' = FALSE
    /\ notify_one

renderGraph(access1) ==
    /\ TaskMutexFree
    /\ task' = [Access |-> access1, ContinueGraphGeneration |-> TRUE]
    /\ failed' = FALSE
    /\ notify_one

\* The page reports the node under the pointer by its address.
OnMouseOver(n) ==
    /\ Input
    /\ n = NoNode \/ n.of = panel.graph
    /\ pending' = Append(pending, MouseOver(n))
    /\ UNCHANGED <<version, access, gui, viewVars, workVars, spurious>> /\ ReadsNothing

RaiseContextMenu ==
    /\ Input /\ panel.graph # None
    /\ pending' = Append(pending, ContextMenu)
    /\ UNCHANGED <<version, access, gui, viewVars, workVars, spurious>> /\ ReadsNothing

\* The node's value is highlighted, which looks into it, and recorded; of a
\* function its declaration is looked up; an area is only an address.
OnMouseOverDisplayable(n) ==
    /\ panel' = [panel EXCEPT !.MouseOver = n]
    /\ CASE n.kind \in {"value", "dereference"} -> Reads({"highlightValue", "addAttributesForValue"}, n.of)
         [] n.kind = "function" -> Reads({"getFunctionDecl"}, n.of)
         [] OTHER -> ReadsNothing

\* A menu keeps the pointer of the node it was opened for.  Opening it for a
\* value or an area already reads the value to offer what can be done with it.
OnContextMenu ==
    LET n == panel.MouseOver
    IN  /\ menu' = n
        /\ n.kind \in {"value", "area"} => LayoutHandlerMutexFree
        /\ Reads(IF n.kind \in {"value", "area"} THEN {"listLayoutEnginesSupporting"} ELSE {}, n.of)

\* Graphs that arrive are shown whatever state they are of.
OnGraphRendered(of) ==
    /\ panel' = [panel EXCEPT !.graph = of]
    /\ causes' = causes \cup (IF of # version THEN {"late graph"} ELSE {})
    /\ used' = {}

--------------------------------------------------------------------------------
(* Popup menus of the graph and of the tree *)

CloseMenu ==
    /\ Idle /\ menu # NoNode /\ menu' = NoNode
    /\ UNCHANGED <<version, access, gui, pending, buttons, panel, tree, workVars, spurious>> /\ ReadsNothing

\* Movements to where a value was allocated or changed: the value is read to
\* record the choice; the movement itself only uses its address.
ChooseValueNavigation ==
    /\ Idle /\ menu.kind \in {"value", "tree"} /\ menu' = NoNode
    /\ raiseMovementEvent(IF menu.kind = "tree" THEN tree.CurrentAccess
                                     ELSE panel.CurrentAccess, None)
    /\ Reads({"recordValueNavigation"}, menu.of)
    /\ UNCHANGED <<version, access, gui, buttons, panel, tree, workVars, spurious>>

\* Movements to the entry or the exit of a function keep its pointer.
ChooseFunctionNavigation ==
    /\ Idle /\ menu.kind = "function" /\ menu' = NoNode
    /\ raiseMovementEvent(panel.CurrentAccess, menu.of)
    /\ UNCHANGED <<version, access, gui, buttons, panel, tree, workVars, spurious>> /\ ReadsNothing

\* Another layout for a value, an area, or what an area is referenced by.
ChooseLayout ==
    /\ Idle /\ menu.kind \in {"value", "area", "dereference"} /\ menu' = NoNode
    /\ LayoutHandlerMutexFree
    /\ Reads({"setLayoutEngine"}, menu.of)
    /\ panel' = [panel EXCEPT !.graph = None]
    /\ renderGraph(panel.CurrentAccess)
    /\ UNCHANGED <<version, access, gui, pending, buttons, tree, spurious>>

--------------------------------------------------------------------------------
(* The evaluation tree *)

\* The pointer enters another node, or leaves them.  The value of a node is
\* of the state that the tree shows.
setHoverNode(n) ==
    /\ Input /\ n # tree.hover
    /\ tree' = [tree EXCEPT !.hover = n, !.HoverTimer = (n # "none")]
    /\ IF n = "value" /\ HasAccess(access[tree.CurrentAccess])
       THEN Reads({"highlightValue"}, tree.CurrentAccess)
       ELSE ReadsNothing
    /\ UNCHANGED <<version, access, gui, pending, buttons, panel, menu, workVars, spurious>>

\* The tooltip explains the hovered statement in the function of the tree.
OnHover ==
    /\ Idle /\ tree.HoverTimer
    /\ tree' = [tree EXCEPT !.HoverTimer = FALSE]
    /\ IF tree.hover # "none" /\ HasAccess(access[tree.CurrentAccess])
       THEN Reads({"makeStmtTooltip"}, tree.ActiveFn)
       ELSE ReadsNothing
    /\ UNCHANGED <<version, access, gui, pending, buttons, panel, menu, workVars, spurious>>

OnMouseRightUp ==
    /\ Input /\ tree.hover # "none"
    /\ menu' = [kind |-> "tree", of |-> IF tree.hover = "value" THEN tree.CurrentAccess ELSE None]
    /\ UNCHANGED <<version, access, gui, pending, buttons, panel, tree, workVars, spurious>> /\ ReadsNothing

treeClear == [tree EXCEPT !.CurrentAccess = None, !.hover = "none", !.HoverTimer = FALSE]
treeShow(of) == [tree EXCEPT !.CurrentAccess = of, !.ActiveFn = of, !.hover = "none"]

--------------------------------------------------------------------------------
(* The frame: a movement *)

\* Clear the views, refuse new readers, and wait for the present one.
OnMove(e) ==
    /\ tree' = treeClear
    /\ panel' = [panel EXCEPT !.graph = None, !.MouseOver = NoNode]
    /\ task' = [task EXCEPT !.ContinueGraphGeneration = FALSE]
    /\ used' = IF Gone(e.node.of) THEN {"moveToFunctionEntry"} ELSE {}
    /\ causes' = causes \cup (IF menu # NoNode THEN {"open menu"} ELSE {})
                        \cup (IF \E i \in 2..Len(pending) : pending[i].kind # "rendered" /\ pending[i].node.of # None
                             THEN {"queued event"} ELSE {})
    /\ IF MustWait(access[version])
       THEN gui' = "waiting" /\ UNCHANGED access
       ELSE gui' = "moving" /\ access' = [access EXCEPT ![version] = invalidate(@)]

invalidateWoken ==
    /\ gui = "woken" /\ gui' = "moving"
    /\ access' = [access EXCEPT ![version] = invalidate(@)]
    /\ UNCHANGED <<version, pending, viewVars, workVars, spurious>> /\ ReadsNothing

\* The condition variable may wake the waiting thread by itself.
invalidateSpurious ==
    /\ gui = "waiting" /\ spurious < MaxSpurious
    /\ gui' = "woken" /\ spurious' = spurious + 1
    /\ UNCHANGED <<version, access, pending, viewVars, workVars>> /\ ReadsNothing

\* The movement is made, and the new state is shown by one view after another.
\* (raiseMovementEvent keeps within MaxMoves: the bound never stops a movement.)
MoveEnds ==
    /\ gui = "moving" /\ gui' = "show" /\ version < MaxMoves
    /\ version' = version + 1
    /\ buttons' = TRUE
    /\ tree' = treeShow(version')
    /\ UNCHANGED <<access, pending, panel, menu, workVars, spurious>> /\ ReadsNothing

showGraph ==
    /\ gui = "show" /\ gui' = "idle"
    /\ panel' = [CurrentAccess |-> version, MouseOver |-> NoNode, graph |-> None]
    /\ renderGraph(version)
    /\ UNCHANGED <<version, access, pending, buttons, tree, menu, spurious>> /\ ReadsNothing

\* The GUI thread takes the next event of its queue.
Dispatch ==
    /\ Idle /\ pending # <<>> /\ pending' = Tail(pending)
    /\ LET e == Head(pending)
       IN  \/ /\ e.kind = "move" /\ OnMove(e)
              /\ UNCHANGED <<version, buttons, menu, worker, missed, failed>>
           \/ /\ e.kind = "rendered" /\ OnGraphRendered(e.node.of)
              /\ UNCHANGED <<version, access, gui, buttons, tree, menu, workVars>>
           \/ /\ e.kind = "mouseover" /\ OnMouseOverDisplayable(e.node)
              /\ UNCHANGED <<version, access, gui, buttons, tree, menu, workVars>>
           \/ /\ e.kind = "contextmenu" /\ menu = NoNode /\ panel.MouseOver # NoNode
              /\ OnContextMenu
              /\ UNCHANGED <<version, access, gui, buttons, panel, tree, workVars>>
           \/ /\ e.kind = "contextmenu" /\ (menu # NoNode \/ panel.MouseOver = NoNode)
              /\ UNCHANGED <<version, access, gui, viewVars, workVars>> /\ ReadsNothing
    /\ UNCHANGED spurious

--------------------------------------------------------------------------------
(* The frame: closing.  The frame's members, the state among them, are gone  *)
(* before its child windows are destroyed.                                   *)

CloseFrame ==
    /\ Idle /\ menu = NoNode
    /\ gui' = "freed" /\ pending' = <<>>
    /\ UNCHANGED <<version, access, viewVars, workVars, spurious>> /\ ReadsNothing

\* ~StateGraphViewerPanel: withdraw the task, wake the worker and wait for it.
DestroyPanel ==
    /\ gui = "freed" /\ TaskMutexFree /\ gui' = "joining"
    /\ task' = [task EXCEPT !.Access = None]
    /\ notify_one
    /\ UNCHANGED <<version, access, pending, viewVars, failed, spurious>> /\ ReadsNothing

Joined ==
    /\ gui = "joining" /\ worker.pc = "exited" /\ gui' = "closed"
    /\ UNCHANGED <<version, access, pending, viewVars, workVars, spurious>> /\ ReadsNothing

--------------------------------------------------------------------------------
(* The worker *)

WorkerWaits ==
    /\ worker.pc = "start" /\ worker' = [worker EXCEPT !.pc = "waiting"]
    /\ UNCHANGED <<version, access, gui, pending, viewVars, task, missed, failed, spurious>> /\ ReadsNothing

WorkerSpurious ==
    /\ worker.pc = "waiting" /\ spurious < MaxSpurious
    /\ worker' = [worker EXCEPT !.pc = "woken"] /\ spurious' = spurious + 1
    /\ UNCHANGED <<version, access, gui, pending, viewVars, task, missed, failed>> /\ ReadsNothing

\* With the mutex: end, or lay out the state of the task if its token still
\* gives access and nobody has called the work off.
workerGenerateDot ==
    /\ worker.pc = "woken"
    /\ IF task.Access = None
       THEN worker' = [worker EXCEPT !.pc = "exited"] /\ UNCHANGED access
       ELSE IF HasAccess(access[task.Access]) /\ task.ContinueGraphGeneration
            THEN /\ access' = [access EXCEPT ![task.Access] = acquireAccess(@)]
                 /\ worker' = [pc |-> "layout", of |-> task.Access]
            ELSE worker' = [worker EXCEPT !.pc = "start"] /\ UNCHANGED access
    /\ UNCHANGED <<version, gui, pending, viewVars, task, missed, failed, spurious>> /\ ReadsNothing

\* The layout ends, early if it was called off in time: access and mutexes are
\* released, and whoever invalidates the token is woken.
LayoutEnds ==
    /\ worker.pc = "layout"
    /\ access' = [access EXCEPT ![worker.of] = releaseAccess(@)]
    /\ gui' = IF gui = "waiting" /\ worker.of = version /\ Notifies(access[worker.of])
              THEN "woken" ELSE gui
    /\ \/ worker' = [worker EXCEPT !.pc = "dot"]
       \/ ~task.ContinueGraphGeneration /\ worker' = [worker EXCEPT !.pc = "start"]
    /\ UNCHANGED <<version, pending, viewVars, task, missed, failed, spurious>> /\ ReadsNothing

\* Files are written and dot is run without any lock; when that works, the
\* picture is queued for the GUI thread.
DotEnds ==
    /\ worker.pc = "dot" /\ worker' = [worker EXCEPT !.pc = "start"]
    /\ \/ failed' = FALSE
          /\ pending' = IF gui \in {"freed", "joining", "closed"} THEN pending
                        ELSE Append(pending, Rendered(worker.of))
       \/ failed' = TRUE /\ UNCHANGED pending
    /\ UNCHANGED <<version, access, gui, viewVars, task, missed, spurious>> /\ ReadsNothing

--------------------------------------------------------------------------------
WorkerNext == WorkerWaits \/ workerGenerateDot \/ LayoutEnds \/ DotEnds

SpuriousNext == WorkerSpurious \/ invalidateSpurious

\* What the user does at the graph, at the tree, and at either's menus.
GraphInput(kinds) ==
    \/ RaiseContextMenu \/ ChooseFunctionNavigation \/ ChooseLayout
    \/ \E n \in Nodes : n.kind \in kinds \cup {"none"} /\ OnMouseOver(n)

TreeInput == OnMouseRightUp \/ OnHover \/ \E n \in TreeNodes : setHoverNode(n)

CommonInput == Click \/ ReplayClick \/ CloseMenu \/ ChooseValueNavigation \/ CloseFrame

GuiNext ==
    Dispatch \/ invalidateWoken \/ MoveEnds \/ showGraph \/ DestroyPanel \/ Joined

GraphNext ==
    CommonInput \/ GraphInput(Kinds) \/ TreeInput \/ GuiNext \/ WorkerNext \/ SpuriousNext

GraphSpec == GraphInit /\ [][GraphNext]_graphVars

--------------------------------------------------------------------------------
(* Properties *)

\* The state is not moved, nor freed, while the worker lays it out.  There are
\* two exceptions: invalidate() waits only once, so that a wake-up without a
\* notification lets it pass; and closing the frame frees the state without
\* asking the token.
LayoutReadsLiveState ==
    worker.pc = "layout" =>
        \/ worker.of = version /\ access[version].Valid /\ gui \in {"idle", "waiting", "woken"}
        \/ spurious > 0
        \/ gui = "freed"

\* Objects of an earlier state are only read because a graph of it was shown
\* in the present one, because an event about it was queued behind the
\* movement, or because a menu stayed open over the movement.  The tree's
\* tooltips never read one, and the views only through the first two.
StaleReadsAreExplained ==
    /\ used # {} => causes # {}
    /\ used \cap {"highlightValue", "addAttributesForValue", "getFunctionDecl",
                  "listLayoutEnginesSupporting"} # {} => causes \cap {"late graph", "queued event"} # {}
    /\ "makeStmtTooltip" \notin used

\* No view reads a state that is gone, but for these exceptions.
OnlyLiveStateIsRead == GraphTypeOK /\ LayoutReadsLiveState /\ StaleReadsAreExplained

\* Nothing is under way: no event is queued and the worker has nothing to do.
Quiet == gui = "idle" /\ pending = <<>> /\ worker.pc \in {"waiting", "exited"}

\* When nothing is under way the graph shown is that of the present state,
\* unless rendering it failed or the notification of the worker was missed.
GraphIsCurrent ==
    Quiet /\ ~missed /\ ~failed /\ spurious = 0 => panel.graph = panel.CurrentAccess

\* A movement that was begun ends: the worker always gives up its access.
MovementsEnd == (gui \in {"waiting", "woken", "moving", "show"}) ~> (gui = "idle")

\* Closing ends, unless the worker missed the notification to end.
ClosingEnds == (gui = "joining" /\ ~missed) ~> (gui = "closed")
================================================================================
