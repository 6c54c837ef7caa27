------------------------------ MODULE StreamPanel ------------------------------
(***************************************************************************)
(* The panel of the trace viewer that shows what was written to the open   *)
(* streams (tools/seec-view/StreamStatePanel.cpp): a page per stream, on   *)
(* which the write under the pointer is highlighted, and from which the    *)
(* user may go back to that write.                                         *)
(*                                                                         *)
(* A page is an object: it is gone when its stream is, and another page    *)
(* for the same address is another object, told apart by the number of     *)
(* the showing that created it.                                            *)
(***************************************************************************)
EXTENDS TextPositions

CONSTANTS
    StreamViews,   \* the streams of each state: their writes, by address
    MaxShows,      \* how many states are shown in one session
    MaxMovers      \* movements queued at one time

\* What is written is ASCII that can be printed ("p", one byte when shown),
\* another ASCII character ("c", three bytes), or not ASCII ("x").
Writes == Seq(Seq({"p", "c", "x"}))

ASSUME StreamViewsAreStates ==
    /\ {MaxShows, MaxMovers} \subseteq Nat /\ 1 \in DOMAIN StreamViews
    /\ \A v \in DOMAIN StreamViews :
          \A a \in DOMAIN StreamViews[v] : a \in Nat \ {0} /\ StreamViews[v][a] \in Writes

VARIABLES
    shows,         \* number of states shown so far
    view,          \* the state shown
    streamPages,   \* Pages, by address
    streamMenu,    \* the open menu: the page and the position it was opened for
    movers,        \* queued movements, those to a write with page and position
    late,          \* a queued movement, or a menu, outlived another movement
    lost           \* what went wrong in the last step

streamVars == <<shows, view, streamPages, streamMenu, movers, late, lost>>

NoPosition == -1

Written(writes) == FlattenSeq(writes)
HasNonASCII(writes) == \E i \in DOMAIN Written(writes) : Written(writes)[i] = "x"

Char(width) == [width |-> width]
ASCIIText(writes) == LET w == Written(writes)
                     IN  [i \in DOMAIN w |-> Char(IF w[i] = "p" THEN 1 ELSE 3)]
\* Four characters for each byte, and a line for each write.
BinaryLine(w) == [i \in 1..4 * Len(w) + 1 |-> Char(1)]
BinaryText(writes) == FlattenSeq([i \in DOMAIN writes |-> BinaryLine(writes[i])])
Display(writes) == IF HasNonASCII(writes) THEN BinaryText(writes) ELSE ASCIIText(writes)

\* StreamState: where each write ends, and the write of a position.
NewLength(writes, i) == Len(Written(SubSeq(writes, 1, i)))
getWrite(writes, i) == <<NewLength(writes, i - 1), NewLength(writes, i)>>
getWriteUpTo(writes, p) ==
    getWrite(writes, Min({i \in DOMAIN writes : p <= NewLength(writes, i)}))
getWriteAt(writes, p) ==
    getWrite(writes, Min({i \in DOMAIN writes : p < NewLength(writes, i)}))

LineStart(writes, line) == Length(BinaryText(SubSeq(writes, 1, line)))
LineFromPosition(writes, p) == Max({line \in 0..Len(writes) : LineStart(writes, line) <= p})

NewStreamPage == [born |-> shows', MouseOverPosition |-> NoPosition, filled |-> {}, ClickUnmoved |-> FALSE]

updatePage(page) == [page EXCEPT !.filled = {}, !.MouseOverPosition = NoPosition, !.ClickUnmoved = FALSE]

--------------------------------------------------------------------------------
\* The position and the highlight of a place in the text.  In lines, the one
\* after the last write is not refused.
SetPositionAndHighlightFromHit(page, writes, hit) ==
    IF HasNonASCII(writes)
    THEN LET line == LineFromPosition(writes, hit)
             write == getWrite(writes, line + 1)
         IN  IF line >= Len(writes) \/ write[1] = page.MouseOverPosition THEN page
             ELSE [page EXCEPT !.MouseOverPosition = write[1],
                               !.filled = LineStart(writes, line)..LineStart(writes, line + 1) - 2]
    ELSE LET position == CountCharacters(ASCIIText(writes), 0, hit)
             write == getWriteAt(writes, position)
         IN  IF position = page.MouseOverPosition \/ position >= Len(Written(writes)) THEN page
             ELSE [page EXCEPT !.MouseOverPosition = position,
                               !.filled = Bytes(getPositionsForCharacterRange(ASCIIText(writes), write[1], write[2]))]

AsksBeyondLast(writes, hit) == HasNonASCII(writes) /\ LineFromPosition(writes, hit) = Len(writes)

OnStreamMotion(a, hit) ==
    /\ a \in DOMAIN streamPages /\ streamMenu = <<>>
    /\ \A b \in DOMAIN streamPages \ {a} : streamPages[b].MouseOverPosition = NoPosition
    /\ hit \in Boundaries(Display(StreamViews[view][a]))
    /\ streamPages' = [streamPages EXCEPT ![a] =
                          SetPositionAndHighlightFromHit([@ EXCEPT !.ClickUnmoved = FALSE], StreamViews[view][a], hit)]
    /\ lost' = IF AsksBeyondLast(StreamViews[view][a], hit) THEN {"write"} ELSE {}
    /\ UNCHANGED <<shows, view, streamMenu, movers, late>>

OnTextLeave(a) ==
    /\ a \in DOMAIN streamPages
    /\ streamPages' = [streamPages EXCEPT ![a].MouseOverPosition = NoPosition, ![a].filled = {}]
    /\ lost' = {} /\ UNCHANGED <<shows, view, streamMenu, movers, late>>

OnRightDown(a) ==
    /\ a \in DOMAIN streamPages /\ streamPages[a].MouseOverPosition # NoPosition
    /\ streamPages' = [streamPages EXCEPT ![a].ClickUnmoved = TRUE]
    /\ lost' = {} /\ UNCHANGED <<shows, view, streamMenu, movers, late>>

OnRightUp(a) ==
    /\ a \in DOMAIN streamPages /\ streamPages[a].ClickUnmoved /\ streamMenu = <<>>
    /\ streamMenu' = <<[address |-> a, born |-> streamPages[a].born, position |-> streamPages[a].MouseOverPosition]>>
    /\ lost' = {} /\ UNCHANGED <<shows, view, streamPages, movers, late>>

\* The entry of the menu is chosen, or none is.
Alive(m) == m.address \in DOMAIN streamPages /\ streamPages[m.address].born = m.born

StreamRewindToWrite ==
    /\ streamMenu # <<>> /\ streamMenu' = <<>>
    /\ movers' \in {movers, movers \o streamMenu}
    /\ lost' = IF movers' # movers /\ ~Alive(streamMenu[1]) THEN {"page"} ELSE {}
    /\ UNCHANGED <<shows, view, streamPages, late>>

\* Another part of the viewer asks for a movement.
OtherMove ==
    /\ movers' = Append(movers, [address |-> 0, born |-> 0, position |-> 0])
    /\ lost' = {} /\ UNCHANGED <<shows, view, streamPages, streamMenu, late>>

\* show(): pages of streams that are no longer open are deleted, the others
\* updated, and new ones created.
showStreams(v) ==
    streamPages' = [a \in DOMAIN StreamViews[v] |->
                       IF a \in DOMAIN streamPages THEN updatePage(streamPages[a]) ELSE NewStreamPage]

\* A menu may be opened after the pointer left the page, or over the line of an
\* empty write.
Nowhere(writes, p) == p = NoPosition \/ \E i \in DOMAIN writes : getWrite(writes, i) = <<p, p>>

\* The first movement queued is made: to a write it asks its page for the
\* stream, and the stream for the write at the position.  It stays where it is
\* if nothing was written there.
MoveStreams(v) ==
    /\ movers # <<>> /\ movers' = Tail(movers)
    /\ shows < MaxShows /\ shows' = shows + 1
    /\ view' = v /\ showStreams(v)
    /\ LET m == Head(movers)
       IN  lost' = IF m.address = 0 THEN {}
                   ELSE IF ~Alive(m) THEN {"page"}
                   ELSE IF m.position \in 0..Len(Written(StreamViews[view][m.address])) - 1 THEN {}
                   ELSE IF Nowhere(StreamViews[view][m.address], m.position) THEN {"nothing"}
                   ELSE {"position"}
    /\ late' = (late \/ streamMenu # <<>> \/ Tail(movers) # <<>>)
    /\ UNCHANGED streamMenu

StreamInit ==
    /\ shows = 0 /\ view = 1
    /\ streamPages = [a \in DOMAIN StreamViews[1] |->
                         [born |-> 0, MouseOverPosition |-> NoPosition, filled |-> {}, ClickUnmoved |-> FALSE]]
    /\ streamMenu = <<>> /\ movers = <<>> /\ late = FALSE /\ lost = {}

StreamNext ==
    \/ \E a \in UNION {DOMAIN StreamViews[v] : v \in DOMAIN StreamViews} :
          \/ OnTextLeave(a) \/ OnRightDown(a) \/ OnRightUp(a)
          \/ a \in DOMAIN streamPages /\ \E hit \in Boundaries(Display(StreamViews[view][a])) : OnStreamMotion(a, hit)
    \/ Len(movers) < MaxMovers /\ (StreamRewindToWrite \/ OtherMove)
    \/ \E v \in DOMAIN StreamViews : MoveStreams(v)

StreamSpec == StreamInit /\ [][StreamNext]_streamVars

--------------------------------------------------------------------------------
(* Properties *)

\* What is highlighted on a page is exactly what one write wrote, as it is
\* shown, and that is the write of the page's position, which exists.
HighlightIsTheWrite ==
    \A a \in DOMAIN streamPages :
        LET writes == StreamViews[view][a]
            page == streamPages[a]
            w == Min({i \in DOMAIN writes : page.MouseOverPosition < NewLength(writes, i)})
            shownAs(i) == IF HasNonASCII(writes) THEN Bytes(<<LineStart(writes, i - 1), LineStart(writes, i) - 1>>)
                          ELSE Bytes(<<Length(ASCIIText(SubSeq(writes, 1, i - 1))), Length(ASCIIText(SubSeq(writes, 1, i)))>>)
        IN  page.filled # {} =>
                /\ page.MouseOverPosition \in 0..Len(Written(writes)) - 1
                /\ page.filled = shownAs(w)

\* A movement to a write finds its page and its position in the state that it
\* starts from, and menus find theirs, unless another movement was made while
\* the menu was open or the movement queued; a position that is not there is of
\* no write, or of one that wrote nothing.
MoversFindTheirWrite == lost \cap {"page", "position"} # {} => late

\* The write that the user points at is the one highlighted and moved to.
WritesAreFound == HighlightIsTheWrite /\ MoversFindTheirWrite
================================================================================
