------------------------------ MODULE TraceArchive -----------------------------
(***************************************************************************)
(* Annotating, saving and opening a recording in the trace viewer          *)
(* (tools/seec-view/Annotations.cpp, AnnotationEditor.cpp, OpenTrace.cpp   *)
(* and OnSaveAs() of TraceViewerFrame.cpp).  A saved recording is an       *)
(* archive; opening it extracts the trace into a temporary directory.      *)
(***************************************************************************)
EXTENDS Integers, Sequences, FiniteSets

CONSTANTS
    Keys,         \* what can be annotated: states of threads, nodes of programs
    NodeKeys,     \* those that are nodes, whose explanation can be suppressed
    Texts,        \* annotations
    MaxTemps,     \* temporary directories that are made
    MaxEdits      \* annotations that are accepted

ASSUME ArchiveBounds == NodeKeys \subseteq Keys /\ {MaxTemps, MaxEdits} \subseteq Nat

VARIABLES
    points,       \* the annotations of the open recording, in the document's order
    dialogs,      \* the open annotation editors
    open,         \* the temporary directory of the open recording, 0 for a bare
                  \* trace file, or -1
    saved,        \* the archive on the disk: its entries in their order
    temps,        \* temporary directories on the disk
    made,         \* how many were made
    edits,
    wanted,       \* the annotations when the archive was last saved (history)
    leaks         \* directories left behind when an archive could not be opened

archiveVars == <<points, dialogs, open, saved, temps, made, edits, wanted, leaks>>

Point(key) == [key |-> key, text |-> "", suppressEPV |-> FALSE]

--------------------------------------------------------------------------------
(* Annotations *)

\* The first point of a key is its point.
IndexOf(ps, key) ==
    IF \E i \in DOMAIN ps : ps[i].key = key
    THEN CHOOSE i \in DOMAIN ps : ps[i].key = key /\ \A j \in 1..i - 1 : ps[j].key # key
    ELSE 0

getPoint(ps, key) == IF IndexOf(ps, key) = 0 THEN Point(key) ELSE ps[IndexOf(ps, key)]

getOrCreatePoint(ps, key) == IF IndexOf(ps, key) # 0 THEN ps ELSE Append(ps, Point(key))

\* showAnnotationEditorDialog: the point exists from now on; the dialog keeps
\* the text as it is now, and others may be opened beside it.
ShowEditor(key) ==
    /\ open # -1 /\ Cardinality(dialogs) < 2
    /\ points' = getOrCreatePoint(points, key)
    /\ dialogs' = dialogs \cup {getPoint(points, key)}
    /\ UNCHANGED <<open, saved, temps, made, edits, wanted, leaks>>

\* setText and setSuppressEPV of a point.
setPoint(p, text, suppress) ==
    [key |-> p.key, text |-> text,
     suppressEPV |-> IF p.key \in NodeKeys THEN suppress ELSE p.suppressEPV]

\* The dialog is accepted: its point is set.
AcceptEdit(d, text, suppress) ==
    /\ d \in dialogs /\ dialogs' = dialogs \ {d}
    /\ edits < MaxEdits /\ edits' = edits + 1
    /\ points' = [points EXCEPT ![IndexOf(points, d.key)] = setPoint(@, text, suppress)]
    /\ UNCHANGED <<open, saved, temps, made, wanted, leaks>>

CancelEdit(d) ==
    /\ d \in dialogs /\ dialogs' = dialogs \ {d}
    /\ UNCHANGED <<points, open, saved, temps, made, edits, wanted, leaks>>

--------------------------------------------------------------------------------
(* Saving: into a temporary file, which replaces the archive at the end *)

Entries(annotations, recording) ==
    <<[name |-> "trace", points |-> <<>>]>>
    \o (IF annotations THEN <<[name |-> "annotations", points |-> points]>> ELSE <<>>)
    \o (IF recording THEN <<[name |-> "record", points |-> <<>>]>> ELSE <<>>)

\* (Saving in place: what was written stays when a step fails.)
OnSaveAsInPlace(annotations, recording) ==
    /\ open # -1
    /\ \E n \in 0..Len(Entries(annotations, recording)) :
          /\ saved' = SubSeq(Entries(annotations, recording), 1, n)
          /\ wanted' = IF n = Len(Entries(annotations, recording)) THEN points ELSE wanted
    /\ UNCHANGED <<points, dialogs, open, temps, made, edits, leaks>>

\* Any of the steps may fail: then nothing is committed.
OnSaveAs(annotations, recording) ==
    /\ open # -1
    /\ \/ /\ saved' = Entries(annotations, recording)
          /\ wanted' = IF annotations THEN points ELSE <<>>
       \/ UNCHANGED <<saved, wanted>>
    /\ UNCHANGED <<points, dialogs, open, temps, made, edits, leaks>>

--------------------------------------------------------------------------------
(* Opening and closing *)

Close ==
    /\ open # -1 /\ open' = -1
    /\ temps' = temps \ {open}
    /\ points' = <<>> /\ dialogs' = {}
    /\ UNCHANGED <<saved, made, edits, wanted, leaks>>

\* FromRecordingArchive: a directory is made, the entries are read one after
\* the other, and the trace is loaded.  Each step may fail.
FromRecordingArchive ==
    /\ open = -1 /\ saved # <<>> /\ made < MaxTemps
    /\ made' = made + 1
    /\ \/ /\ open' = made' /\ temps' = temps \cup {made'}
          /\ points' = LET as == {i \in DOMAIN saved : saved[i].name = "annotations"}
                       IN  IF as = {} THEN <<>>
                           ELSE saved[CHOOSE i \in as : \A j \in as : j <= i].points
          /\ UNCHANGED leaks
       \/ /\ temps' = temps \cup {made'} /\ leaks' = leaks \cup {made'}
          /\ UNCHANGED <<open, points>>
       \/ UNCHANGED <<open, temps, points, leaks>>
    /\ UNCHANGED <<dialogs, saved, edits, wanted>>

\* A trace file is opened where it is.
ReadTraceFromFilePath ==
    /\ open = -1 /\ open' = 0
    /\ UNCHANGED <<points, dialogs, saved, temps, made, edits, wanted, leaks>>

ArchiveInit ==
    /\ points = <<>> /\ dialogs = {} /\ open = -1 /\ saved = <<>> /\ temps = {} /\ made = 0
    /\ edits = 0 /\ wanted = <<>> /\ leaks = {}

ArchiveNext ==
    \/ \E key \in Keys : ShowEditor(key)
    \/ \E d \in dialogs, text \in Texts, suppress \in BOOLEAN : AcceptEdit(d, text, suppress)
    \/ \E d \in dialogs : CancelEdit(d)
    \/ \E annotations, recording \in BOOLEAN : OnSaveAs(annotations, recording)
    \/ Close \/ FromRecordingArchive \/ ReadTraceFromFilePath

ArchiveSpec == ArchiveInit /\ [][ArchiveNext]_archiveVars

--------------------------------------------------------------------------------
(* Properties *)

\* Nothing is annotated twice, whichever editors are opened, accepted or
\* cancelled in whichever order, before and after saving and opening again.
PointsAreUnique ==
    \A i, j \in DOMAIN points : points[i].key = points[j].key => i = j

\* The archive on the disk is always one that can be opened: whole, and with
\* the annotations as they were when it was saved, whatever failed since.
SavedIsWhole ==
    saved # <<>> =>
        /\ saved[1].name = "trace"
        /\ LET as == {i \in DOMAIN saved : saved[i].name = "annotations"}
           IN  IF as = {} THEN wanted = <<>> ELSE \A i \in as : saved[i].points = wanted

\* The only temporary directories on the disk are that of the open recording
\* and those of archives that could not be opened, which are never removed
\* ("TODO: Delete this directory if the rest of the process fails").
TempsAreKnown == temps = leaks \cup ({open} \ {0, -1})

\* A trace that was annotated and saved can be opened again as it was, and
\* leaves nothing else behind.
ArchivesAreWhole == PointsAreUnique /\ SavedIsWhole /\ TempsAreKnown
================================================================================
