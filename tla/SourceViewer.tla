------------------------------ MODULE SourceViewer ------------------------------
(***************************************************************************)
(* The source code as the trace viewer shows it                            *)
(* (tools/seec-view/SourceViewer.cpp): one page per file, on which the     *)
(* active node of the state is marked and annotated, and nodes are         *)
(* highlighted for a time, because the pointer is over them here or in     *)
(* another view, or because a recording of the user's actions is replayed. *)
(*                                                                         *)
(* A page holds its text's indicators twice: as the list of regions that   *)
(* it keeps, and as the positions that the text control has filled.        *)
(* Iterators into the list are modelled by the numbers of its elements.    *)
(***************************************************************************)
EXTENDS Integers, Sequences, SequencesExt, FiniteSets, FiniteSetsExt

CONSTANTS
    Decls,         \* the program: its declarations, each the list of its nodes
    Files,         \* numbers of its files
    MainFiles,     \* the files whose pages are created with the viewer
    FileLength,    \* tokens per file
    LineLength,    \* tokens per line
    Views,         \* what each state of the recording shows
    MaxIndicators  \* highlights that there may be at one time

ASSUME SourceBounds ==
    /\ MainFiles \subseteq Files /\ Files \subseteq Nat \ {0}
    /\ {FileLength, LineLength, MaxIndicators} \subseteq Nat \ {0}
    /\ \A v \in DOMAIN Views : {"node", "value", "error"} \subseteq DOMAIN Views[v]

--------------------------------------------------------------------------------
(* Where the nodes of a program are in its files: the ranges that the viewer    *)
(* highlights, and the search for the node under a position                     *)
(* (lib/Clang/Search.cpp).                                                      *)
(*                                                                              *)
(* A location is a token of a file, or a token that a macro produced: from an   *)
(* argument, which is spelled where the macro is used, or from its body, which  *)
(* is spelled where it is defined.  Either knows the tokens that its macro call *)
(* began and ended with, which may come from a macro again.  Every token has    *)
(* length one.                                                                  *)

Token(file, at) == [kind |-> "file", file |-> file, at |-> at]
ArgToken(spell, first, last) == [kind |-> "arg", spell |-> spell, up |-> <<first, last>>]
BodyToken(spell, first, last) == [kind |-> "body", spell |-> spell, up |-> <<first, last>>]

isMacroArgExpansion(l) == l.kind = "arg"
isMacroID(l) == l.kind # "file"
getSpellingLoc(l) == IF isMacroID(l) THEN l.spell ELSE l

\* The file of a location; a token of a macro has none of its own.
FileOf(l) == IF isMacroID(l) THEN 0 ELSE l.file

\* Leave macros by the first (1) or the last (2) token of their calls, until a
\* condition holds or a file is reached.
RECURSIVE Leave(_, _, _)
Leave(l, side, file) ==
    IF FileOf(l) = file \/ ~isMacroID(l) THEN l ELSE Leave(l.up[side], side, file)

getExpansionLoc(l) == Leave(l, 1, -1)
getExpansionEnd(l) == Leave(l, 2, -1)

NoRange == [File |-> 0, Start |-> 0, End |-> 0]
RangeOf(s, e) == [File |-> s.file, Start |-> s.at, End |-> e.at + 1]

\* The range of a node in the file that it is written in.
getRangeOutermost(n) ==
    LET s == IF isMacroArgExpansion(n.begin) THEN n.begin.spell ELSE getExpansionLoc(n.begin)
        e == IF isMacroArgExpansion(n.end) THEN n.end.spell ELSE getExpansionEnd(n.end)
    IN  IF e.file # s.file THEN NoRange ELSE RangeOf(s, e)

\* The range of a node in a given file.
getRangeInFile(n, file) ==
    LET spelled(l) == IF isMacroArgExpansion(l) /\ l.spell.file = file THEN l.spell ELSE l
        s == Leave(spelled(n.begin), 1, file)
        e == Leave(spelled(n.end), 2, file)
    IN  IF FileOf(s) # file \/ FileOf(e) # file THEN NoRange ELSE RangeOf(s, e)

--------------------------------------------------------------------------------
(* Search *)

isBeforeInTranslationUnit(a, b) == a.file < b.file \/ (a.file = b.file /\ a.at < b.at)

Covering(first, last, loc, covers) ==
    CASE isBeforeInTranslationUnit(loc, first) -> "RangeAfter"
      [] isBeforeInTranslationUnit(last, loc) -> "RangeBefore"
      [] OTHER -> covers

\* How the range of a node lies to a location: by its spelling, unless it
\* begins in the body of a macro.
checkRange(n, loc) ==
    IF n.begin.kind = "body"
    THEN Covering(getExpansionLoc(n.begin), getExpansionEnd(n.end), loc, "ExpansionRangeCovers")
    ELSE Covering(getSpellingLoc(n.begin), getSpellingLoc(n.end), loc, "RangeCovers")

NotFound == [node |-> 0, first |-> 0, last |-> 0, stopped |-> FALSE]

\* VisitStmt and VisitDecl: a node that covers the location replaces the one
\* found so far; inside the body of one macro the outermost node is kept; a
\* node after the location ends the traversal.
Visit(nodes, loc, found, i) ==
    LET n == nodes[i]
        check == checkRange(n, loc)
        first == getExpansionLoc(n.begin)
        last == getExpansionEnd(n.end)
        takes == [node |-> i, first |-> first, last |-> last, stopped |-> FALSE]
    IN  CASE found.stopped -> found
          [] check = "RangeAfter" -> [found EXCEPT !.stopped = TRUE]
          [] check = "RangeCovers" -> takes
          [] check = "ExpansionRangeCovers" /\
             \/ found.node = 0
             \/ found.first # first
             \/ n.kind = "Stmt" /\ found.last # last -> takes
          [] OTHER -> found

\* The nodes of one declaration are visited in the order of the tree, parents
\* first.
Traverse(nodes, loc) ==
    FoldLeft(LAMBDA found, i : Visit(nodes, loc, found, i), NotFound, [i \in DOMAIN nodes |-> i]).node

\* searchImpl: the declarations that contain the location, until one finds it.
search(decls, loc) ==
    LET skips(d) == isBeforeInTranslationUnit(getExpansionEnd(d[1].end), loc)
        ends(d) == isBeforeInTranslationUnit(loc, getExpansionLoc(d[1].begin))
        step(found, d) ==
            CASE found.done \/ skips(d) -> found
              [] ends(d) -> [found EXCEPT !.done = TRUE]
              [] OTHER -> LET i == Traverse(d, loc)
                          IN  IF i = 0 THEN found ELSE [node |-> <<d[i]>>, done |-> TRUE]
    IN  FoldLeft(step, [node |-> <<>>, done |-> FALSE], decls).node

--------------------------------------------------------------------------------
VARIABLES
    pages,     \* the pages that exist, by file
    shown      \* the state that is shown

sourceVars == <<pages, shown>>

\* No node is the empty sequence, a node the sequence of it.
Nodes_ == UNION {{d[i] : i \in DOMAIN d} : d \in {Decls[k] : k \in DOMAIN Decls}}
Positions == 0..FileLength - 1
\* What is found at each position.
Found == [f \in Files |-> [p \in Positions |-> search(Decls, Token(f, p))]]
Covered(r) == {p \in Positions : r.Start <= p /\ p < r.End}
LineOf(p) == p \div LineLength

NewPage == [Temporary |-> {}, Hover |-> 0, Replay |-> 0, HoverNode |-> <<>>, mouse |-> -1,
            filled |-> {}, StateIndications |-> <<>>, active |-> {},
            StateAnnotations |-> {}, drawn |-> {}, CurrentAccess |-> -1]

Ids(page) == {t.id : t \in page.Temporary}

--------------------------------------------------------------------------------
(* Pages *)

temporaryIndicatorAdd(page, r, id) ==
    [page EXCEPT !.Temporary = @ \cup {[id |-> id, Start |-> r.Start, End |-> r.End]},
                 !.filled = @ \cup Covered(r)]

NewId(page) == Min((1..MaxIndicators + 2) \ Ids(page))

\* Removing a region clears its whole range, and lets go of the iterators that
\* are kept for it.
temporaryIndicatorRemove(page, id) ==
    LET r == CHOOSE t \in page.Temporary : t.id = id
    IN  IF id = 0 THEN page
        ELSE [page EXCEPT !.Temporary = @ \ {r},
                          !.filled = @ \ Covered(r),
                          !.Hover = IF @ = id THEN 0 ELSE @,
                          !.Replay = IF @ = id THEN 0 ELSE @]

temporaryIndicatorRemoveAll(page) ==
    FoldSet(LAMBDA id, p : temporaryIndicatorRemove(p, id), page, Ids(page))

clearHoverNode(page) ==
    [temporaryIndicatorRemove(page, page.Hover) EXCEPT !.HoverNode = <<>>, !.Hover = 0]

replayHover(page, r) ==
    LET p == temporaryIndicatorRemove(page, page.Replay)
    IN  [temporaryIndicatorAdd(p, r, NewId(p)) EXCEPT !.Replay = NewId(p)]

\* (The annotations of the old state are forgotten, but stay drawn.)
clearStateKeepsDrawn(page) ==
    LET p == clearHoverNode(page)
        cleared == UNION {Covered(p.StateIndications[i]) : i \in DOMAIN p.StateIndications}
    IN  [p EXCEPT !.active = @ \ cleared, !.StateIndications = <<>>,
                  !.StateAnnotations = {}, !.CurrentAccess = -1]

\* clearState: the marks and annotations of the state that was shown.
clearState(page) ==
    LET p == clearHoverNode(page)
        cleared == UNION {Covered(p.StateIndications[i]) : i \in DOMAIN p.StateIndications}
    IN  [p EXCEPT !.active = @ \ cleared, !.StateIndications = <<>>,
                  !.drawn = {a \in @ : \A b \in p.StateAnnotations : a[1] # b[1]},
                  !.StateAnnotations = {}, !.CurrentAccess = -1]

stateIndicatorAdd(page, r) ==
    [page EXCEPT !.StateIndications = Append(@, r), !.active = @ \cup Covered(r)]

\* An annotation is kept, and all the annotations of its line are drawn anew.
renderAnnotationsFor(page, line) ==
    [page EXCEPT !.drawn = {a \in @ : a[1] # line} \cup {a \in page.StateAnnotations : a[1] = line}]

annotateLine(page, line, text) ==
    renderAnnotationsFor([page EXCEPT !.StateAnnotations = @ \cup {<<line, text>>}], line)

--------------------------------------------------------------------------------
(* The viewer *)

\* Highlights asked for by a notification, in whichever page they belong to.
highlightOn(ps, n) ==
    LET r == getRangeOutermost(n)
    IN  IF r.File = 0 \/ r.File \notin DOMAIN ps THEN ps
        ELSE [ps EXCEPT ![r.File] = temporaryIndicatorAdd(@, r, NewId(@))]

highlightOff(ps) == [f \in DOMAIN ps |-> temporaryIndicatorRemoveAll(ps[f])]

\* What a ContextNotifier's HighlightDecl or HighlightStmt does here.
notified(ps, node) == IF node = <<>> THEN highlightOff(ps) ELSE highlightOn(ps, node[1])

HasRoom(ps) == Cardinality(UNION {{<<f, t>> : t \in ps[f].Temporary} : f \in DOMAIN ps}) <= MaxIndicators

loadAndShowFile(ps, file) ==
    [f \in DOMAIN ps \cup {file} |-> IF f \in DOMAIN ps THEN ps[f] ELSE NewPage]

\* The pointer moves to another position of a page: the node there is searched
\* for, highlighted, and announced if it is another one, which highlights it
\* here once more.
OnTextMotion(f, pos) ==
    /\ f \in DOMAIN pages /\ pos # pages[f].mouse
    /\ \A g \in DOMAIN pages \ {f} : pages[g].mouse = -1
    /\ LET previous == pages[f].HoverNode
           page == [clearHoverNode(pages[f]) EXCEPT !.mouse = pos]
           node == Found[f][pos]
           r == getRangeInFile(node[1], f)
           hovered == LET p == [page EXCEPT !.HoverNode = node]
                      IN  IF r.File = 0 THEN p
                          ELSE [temporaryIndicatorAdd(p, r, NewId(p)) EXCEPT !.Hover = NewId(p)]
           ps == [pages EXCEPT ![f] = IF node = <<>> THEN page ELSE hovered]
       IN  pages' = IF node = <<>> \/ node = previous THEN ps ELSE notified(ps, node)
    /\ HasRoom(pages')
    /\ UNCHANGED shown

OnTextLeaveWindow(f) ==
    /\ f \in DOMAIN pages
    /\ pages' = [pages EXCEPT ![f] = [clearHoverNode(@) EXCEPT !.mouse = -1]]
    /\ UNCHANGED shown

\* Another view highlights a node, or ends its highlight.
OtherHighlights(node) ==
    /\ pages' = notified(pages, node) /\ HasRoom(pages')
    /\ UNCHANGED shown

\* A replayed recording of the user's actions.
ReplayMouseEnterOrLeave(f) ==
    /\ f \in DOMAIN pages
    /\ pages' = [pages EXCEPT ![f] = temporaryIndicatorRemoveAll(@)]
    /\ UNCHANGED shown

ReplayMouseOver(node) ==
    /\ LET r == getRangeOutermost(node[1])
       IN  pages' = IF node = <<>> THEN highlightOff(pages)
                    ELSE IF r.File \notin DOMAIN pages THEN pages
                    ELSE [pages EXCEPT ![r.File] = replayHover(@, r)]
    /\ HasRoom(pages')
    /\ UNCHANGED shown

\* The active node is marked, and its value is annotated below it.
showActive(ps, view) ==
    LET r == getRangeOutermost(view.node[1])
        loaded == loadAndShowFile(ps, r.File)
        marked == [loaded EXCEPT ![r.File] = stateIndicatorAdd(@, r)]
    IN  IF view.node = <<>> \/ r.File = 0 THEN ps
        ELSE IF view.value THEN [marked EXCEPT ![r.File] = annotateLine(@, LineOf(r.End - 1), "value")]
        ELSE marked

showRuntimeError(ps, view) ==
    LET r == getRangeOutermost(view.error[1])
    IN  IF view.error = <<>> \/ r.File = 0 THEN ps
        ELSE [loadAndShowFile(ps, r.File) EXCEPT ![r.File] = annotateLine(@, LineOf(r.End - 1), "error")]

\* The state has moved: all pages forget the old one, show the new one, and
\* are given access to it.
showSource(s) ==
    LET cleared == [f \in DOMAIN pages |-> clearState(pages[f])]
        ps == showRuntimeError(showActive(cleared, Views[s]), Views[s])
    IN  /\ shown' = s
        /\ pages' = [f \in DOMAIN ps |-> [ps[f] EXCEPT !.CurrentAccess = s]]

SourceInit ==
    /\ shown = 1
    /\ LET ps == [f \in MainFiles |-> NewPage]
           qs == showRuntimeError(showActive(ps, Views[1]), Views[1])
       IN  pages = [f \in DOMAIN qs |-> [qs[f] EXCEPT !.CurrentAccess = 1]]

SourceNext ==
    \/ \E f \in Files, pos \in Positions : OnTextMotion(f, pos)
    \/ \E f \in Files : OnTextLeaveWindow(f) \/ ReplayMouseEnterOrLeave(f)
    \/ \E node \in {<<n>> : n \in Nodes_} \cup {<<>>} : OtherHighlights(node) \/ ReplayMouseOver(node)
    \/ \E s \in DOMAIN Views : showSource(s)

--------------------------------------------------------------------------------
(* Properties *)

\* The iterators that a page keeps for the pointer and for a replay are always
\* elements of its list, although any notification may empty it.
IndicatorsAreListed ==
    \A f \in DOMAIN pages :
        /\ {pages[f].Hover, pages[f].Replay} \subseteq Ids(pages[f]) \cup {0}
        /\ pages[f].Hover # 0 => pages[f].HoverNode # <<>> /\ pages[f].mouse # -1

\* Nothing stays highlighted that could not be taken away again: what the text
\* has filled belongs to a region of the list.  (The converse fails: removing
\* a region also clears those that overlap it.)
FilledIsListed ==
    \A f \in DOMAIN pages :
        pages[f].filled \subseteq UNION {Covered(t) : t \in pages[f].Temporary}

\* The node that is found under the pointer is the innermost one there: it lies
\* within every node that covers the position and that no macro takes part in.  (A macro that swaps its arguments hides
\* the first of them: the search ends at the node that comes too late.)
HoverIsInnermost ==
    \A f \in DOMAIN pages : \A n \in Nodes_ :
        pages[f].mouse # -1 /\ ~isMacroID(n.begin) /\ ~isMacroID(n.end)
                            /\ pages[f].mouse \in Covered(getRangeInFile(n, f)) =>
            LET found == Found[f][pages[f].mouse]
            IN  /\ found # <<>> /\ pages[f].HoverNode \in {<<>>, found}
                /\ Covered(getRangeInFile(found[1], f)) \subseteq Covered(getRangeInFile(n, f))

\* What is marked and annotated is exactly what the state shown calls for,
\* whatever was shown, highlighted and loaded before, and every page has access
\* to that state.
PagesShowTheState ==
    LET view == Views[shown]
        range(n) == IF n = <<>> THEN NoRange ELSE getRangeOutermost(n[1])
        marks(f) == IF range(view.node).File = f THEN Covered(range(view.node)) ELSE {}
        note(n, text) == <<LineOf(range(n).End - 1), text>>
        notes(f) == (IF view.value /\ range(view.node).File = f THEN {note(view.node, "value")} ELSE {})
                    \cup (IF range(view.error).File = f THEN {note(view.error, "error")} ELSE {})
    IN  \A f \in DOMAIN pages : /\ pages[f].active = marks(f)
                                /\ pages[f].drawn = notes(f)
                                /\ pages[f].CurrentAccess = shown

\* The pages show the present state and the node under the pointer, and nothing
\* is left of what was shown or highlighted before.
PagesAreCurrent == IndicatorsAreListed /\ FilledIsListed /\ PagesShowTheState /\ HoverIsInnermost
================================================================================
