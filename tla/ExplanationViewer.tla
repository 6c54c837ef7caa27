--------------------------- MODULE ExplanationViewer ---------------------------
(***************************************************************************)
(* The panel of the trace viewer that shows the annotation and the         *)
(* explanation of a state (tools/seec-view/ExplanationViewer.cpp).  Parts  *)
(* of both texts are links: to declarations, to statements or to pages of  *)
(* the web.                                                                *)
(*                                                                         *)
(* Links are indexed by characters, the text control counts bytes.  A      *)
(* character is its width in bytes and the link that it is part of.        *)
(***************************************************************************)
EXTENDS TextPositions

CONSTANT Explained   \* what there is to show for each state of a recording

VARIABLES
    explanation,   \* the panel
    opened,        \* the page that was opened last, and what the pointer was over
    nullRead       \* a state for which links of a missing explanation were asked

explanationVars == <<explanation, opened, nullRead>>

NoLink == "none"
INVALID == -1

--------------------------------------------------------------------------------
\* The annotation comes first in the text.
getAnnotationByteOffsetRange(t, start, end) == getPositionsForCharacterRange(t, start, end)

getExplanationByteOffsetRange(t, annotation, start, end) ==
    getAnnotationByteOffsetRange(t, start + Len(annotation), end + Len(annotation))

--------------------------------------------------------------------------------
(* Links of a text, as ranges of its characters *)

LinkAt(t, n) == IF n < Len(t) THEN t[n + 1].link ELSE NoLink
LinkStart(t, n) == Min({m \in 0..n : \A k \in m..n : LinkAt(t, k) = LinkAt(t, n)})
LinkEnd(t, n) == Max({m \in n..Len(t) - 1 : \A k \in n..m : LinkAt(t, k) = LinkAt(t, n)}) + 1
Linked(t) == {n \in 0..Len(t) - 1 : LinkAt(t, n) # NoLink}

\* A link is told apart by where it is: it is at one place of one text.
OnePlace(t) ==
    \A i, k \in Linked(t) : LinkAt(t, i) = LinkAt(t, k) => \A j \in i..k : LinkAt(t, j) = LinkAt(t, i)
Apart(t, u) == \A i \in Linked(t), k \in Linked(u) : LinkAt(t, i) # LinkAt(u, k)

Character == [width : 1..4, link : STRING]

\* The message of an error has no links.
ASSUME ExplainedIsText ==
    /\ DOMAIN Explained \subseteq Nat \ {0}
    /\ \A v \in DOMAIN Explained :
          /\ Explained[v].result \in {"explained", "error", "none"}
          /\ Explained[v].annotation \in Seq(Character) /\ Explained[v].text \in Seq(Character)
          /\ OnePlace(Explained[v].annotation) /\ OnePlace(Explained[v].text)
          /\ Apart(Explained[v].annotation, Explained[v].text)
          /\ Explained[v].result = "error" => Linked(Explained[v].text) = {}

Shown(p) == p.Annotation \o p.text

setAnnotationText(p, t) ==
    LET q == [p EXCEPT !.Annotation = t, !.AnnotationLength = Length(t)]
    IN  [q EXCEPT !.interactive =
            UNION {Bytes(getAnnotationByteOffsetRange(Shown(q), LinkStart(t, n), LinkEnd(t, n))) : n \in Linked(t)}]

setExplanationText(p, t) ==
    [p EXCEPT !.text = t, !.interactive = {b \in @ : b < p.AnnotationLength}]

setExplanationIndicators(p) ==
    LET t == p.text
    IN  [p EXCEPT !.interactive = @ \cup
            UNION {Bytes(getExplanationByteOffsetRange(Shown(p), p.Annotation, LinkStart(t, n), LinkEnd(t, n)))
                   : n \in Linked(t)}]

clearCurrent(p) ==
    [p EXCEPT !.filled = {}, !.mouse = INVALID, !.Decl = NoLink, !.Stmt = NoLink, !.URLHover = FALSE]

\* What a link does when the pointer is over it.
mouseOverDecl(p, link) == [p EXCEPT !.Decl = link]
mouseOverStmt(p, link) == [p EXCEPT !.Stmt = link]
mouseOverHyperlink(p, link) == [p EXCEPT !.URLHover = TRUE, !.URLHovered = link]
ForgetURL(p) == [p EXCEPT !.URLClick = FALSE, !.URLHovered = NoLink]

OverLinkKeepsClick(p, link) ==
    CASE link = "decl" -> mouseOverDecl(p, link)
      [] link = "stmt" -> mouseOverStmt(p, link)
      [] OTHER -> mouseOverHyperlink(p, link)

OverLink(p, link) ==
    CASE link = "decl" -> ForgetURL(mouseOverDecl(p, link))
      [] link = "stmt" -> ForgetURL(mouseOverStmt(p, link))
      [] OTHER -> mouseOverHyperlink(p, link)

--------------------------------------------------------------------------------
(* Handlers *)

\* The pointer is over another character.  Over text that is no link the
\* handler returns before it forgets a page that was pressed.
OnMotion(pos) ==
    LET p == [clearCurrent(explanation) EXCEPT !.mouse = pos]
        annotated == pos < p.AnnotationLength
        t == IF annotated THEN p.Annotation ELSE p.text
        n == CountCharacters(Shown(p), IF annotated THEN 0 ELSE p.AnnotationLength, pos)
        range == IF annotated
                 THEN getAnnotationByteOffsetRange(Shown(p), LinkStart(t, n), LinkEnd(t, n))
                 ELSE getExplanationByteOffsetRange(Shown(p), p.Annotation, LinkStart(t, n), LinkEnd(t, n))
    IN  /\ pos # explanation.mouse
        /\ explanation' = IF pos = INVALID THEN ForgetURL(p)
                          ELSE IF LinkAt(t, n) = NoLink \/ (~annotated /\ ~p.Explanation) THEN p
                          ELSE OverLink([p EXCEPT !.filled = Bytes(range)], LinkAt(t, n))
        /\ nullRead' = IF pos # INVALID /\ ~annotated /\ ~p.Explanation THEN p.view ELSE nullRead
        /\ UNCHANGED opened

OnLeaveWindow ==
    /\ explanation' = [clearCurrent(explanation) EXCEPT !.URLClick = FALSE]
    /\ UNCHANGED <<opened, nullRead>>

OnLeftDown ==
    /\ explanation' = IF explanation.URLHover THEN [explanation EXCEPT !.URLClick = TRUE]
                      ELSE ForgetURL(explanation)
    /\ UNCHANGED <<opened, nullRead>>

\* The link under the pointer, found by its bytes.
Under(p) ==
    LET n == CHOOSE m \in 0..Len(Shown(p)) : Offset(Shown(p), m) = p.mouse
    IN  IF p.mouse = INVALID THEN NoLink ELSE LinkAt(Shown(p), n)

OnLeftUp ==
    /\ opened' = IF explanation.URLClick THEN [url |-> explanation.URLHovered, under |-> Under(explanation)]
                 ELSE opened
    /\ UNCHANGED <<explanation, nullRead>>

clearExplanation(p) ==
    setExplanationText([setAnnotationText(clearCurrent(p), <<>>) EXCEPT !.Explanation = FALSE], <<>>)

\* What explain() returned: an explanation, an error whose message is shown in
\* its place, or neither.
showExplanation(p, view) ==
    CASE view.result = "explained" ->
            setExplanationIndicators([setExplanationText(p, view.text) EXCEPT !.Explanation = TRUE])
      [] view.result = "error" -> setExplanationText(p, view.text)
      [] OTHER -> p

showAnnotations(p, view) ==
    IF view.annotation = <<>> THEN p ELSE setAnnotationText(p, view.annotation)

\* A new state; access to it may be refused.
showExplained(v) ==
    /\ LET p == [clearExplanation(explanation) EXCEPT !.view = v]
           q == showAnnotations(p, Explained[v])
       IN  explanation' \in {p, IF Explained[v].suppress THEN q ELSE showExplanation(q, Explained[v])}
    /\ UNCHANGED <<opened, nullRead>>

ExplanationInit ==
    /\ explanation = [Annotation |-> <<>>, AnnotationLength |-> 0, Explanation |-> FALSE, text |-> <<>>,
                      mouse |-> INVALID, Decl |-> NoLink, Stmt |-> NoLink, URLHover |-> FALSE,
                      URLClick |-> FALSE, URLHovered |-> NoLink, interactive |-> {}, filled |-> {}, view |-> 0]
    /\ opened = [url |-> NoLink, under |-> NoLink]
    /\ nullRead = 0

ExplanationNext ==
    \/ \E v \in DOMAIN Explained : showExplained(v)
    \/ \E pos \in {INVALID} \cup (Boundaries(Shown(explanation)) \ {Length(Shown(explanation))}) : OnMotion(pos)
    \/ OnLeaveWindow \/ OnLeftDown \/ OnLeftUp

ExplanationSpec == ExplanationInit /\ [][ExplanationNext]_explanationVars

--------------------------------------------------------------------------------
(* Properties *)

\* Whatever the widths of the characters before them, exactly the bytes of the
\* links are marked as links, and exactly the link under the pointer is
\* highlighted.
LinksAreMarked ==
    LET t == Shown(explanation)
        bytes(n) == Offset(t, n)..Offset(t, n + 1) - 1
        live == {n \in Linked(t) : n < Len(explanation.Annotation) \/ explanation.Explanation}
    IN  /\ explanation.interactive = UNION {bytes(n) : n \in live}
        /\ explanation.filled = UNION {bytes(n) : n \in {m \in live :
               explanation.mouse # INVALID /\ explanation.filled # {} /\ LinkAt(t, m) = Under(explanation)}}

\* A page is opened only when the pointer is over its link, or over text that
\* is no link at all (to which it was moved from the link with the button
\* pressed, or which took the link's place): never over another link.
OpenedIsUnderPointer ==
    opened.url # NoLink => opened.under \in {opened.url, NoLink}

\* The links of an explanation are asked for although there is none only when
\* the message of an error is shown in its place.
ExplanationExists ==
    nullRead # 0 => Explained[nullRead].result = "error"

\* The links of an explanation are where they are shown and lead where they say.
LinksAreFaithful == LinksAreMarked /\ OpenedIsUnderPointer /\ ExplanationExists
================================================================================
