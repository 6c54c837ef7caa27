------------------------------ MODULE SourceEditor -----------------------------
(***************************************************************************)
(* The source editor of the trace viewer                                   *)
(* (tools/seec-view/SourceEditor/SourceEditor.cpp): a buffer that is a     *)
(* scratch pad or a file, saved, compiled by another process and run.      *)
(*                                                                         *)
(* Message boxes and dialogs run the event loop, so that the events of a   *)
(* compilation are handled while an operation waits for an answer: the     *)
(* operations that wait are a stack.  Modification times have a resolution *)
(* of one second.  The names are those of Unix, where the binary of a      *)
(* scratch pad is the temporary file that was created for its name.        *)
(***************************************************************************)
EXTENDS Integers, Sequences

CONSTANTS
    SourceFiles,   \* files that the user may open, or choose to save to
    MaxChanges,    \* how many texts the user writes
    MaxSeconds     \* how far the clock runs

VARIABLE editor    \* the editor, the file system and the processes, as a record

Tmp == "tmp"       \* the temporary file of the scratch pad
Names == SourceFiles \cup {Tmp}

\* A temporary file is a new one.
ASSUME EditorAssumption ==
    Tmp \notin SourceFiles /\ MaxChanges \in Nat /\ MaxSeconds \in Nat

\* Texts are numbered: 0 is the empty one.
Absent == [text |-> -1, time |-> -1]
Unread == -2       \* the compiler has not read the source yet

InCompiler(s, name) == s.process # <<>> /\ s.process[1].name = name /\ s.process[1].result = "none"

--------------------------------------------------------------------------------
(* Files *)

\* The destructor of a scratch pad.  (What is still to be written by the
\* compiler or by the program is written afterwards.)
cleanupScratchPadTemporaries(s) ==
    [s EXCEPT !.source[Tmp] = Absent, !.binary[Tmp] = Absent, !.traces = @ \ {Tmp},
              !.outlived = @ \/ Tmp \in s.running \/ InCompiler(s, Tmp)]

SetFileName(s, name) ==
    [(IF s.kind = "ScratchPad" THEN cleanupScratchPadTemporaries(s) ELSE s)
        EXCEPT !.kind = "File", !.name = name, !.misplaced = TRUE]

\* A source that is written in the second in which its binary was, or when the
\* compiler has read it, does not count as newer than the binary: "raced".
Saved(s) ==
    [s EXCEPT !.source[s.name] = [text |-> s.text, time |-> s.now],
              !.savepoint = s.text, !.modified = FALSE, !.misplaced = FALSE,
              !.raced = IF s.binary[s.name].time = s.now THEN @ \cup {s.name} ELSE @,
              !.process = IF InCompiler(s, s.name) /\ s.process[1].text # Unread
                          THEN <<[s.process[1] EXCEPT !.raced = TRUE]>> ELSE @]

\* SaveFile() of the text control fails, or saves.
SaveFile(s) == {[saved |-> FALSE, then |-> s], [saved |-> TRUE, then |-> Saved(s)]}

Ask(s, question, then) == [s EXCEPT !.dialogs = <<[question |-> question, then |-> then]>> \o @]
ClearTask(s) == [s EXCEPT !.task = "Nothing"]

--------------------------------------------------------------------------------
(* Compiling and running: the states in which an operation may end, or wait.   *)

\* Whether the operation goes on, and with what; "name" is the operation, which
\* a question keeps.  A scratch pad that cannot be written is not noticed.
GoesOn(s) == [goesOn |-> TRUE, then |-> s]
Waits(s) == [goesOn |-> FALSE, then |-> s]

DoEnsureBufferIsWritten(s, name) ==
    IF s.kind = "ScratchPad" /\ s.text = 0 THEN {Waits(Ask(s, "empty", name))}
    ELSE IF s.kind = "ScratchPad" /\ s.modified THEN {GoesOn(r.then) : r \in SaveFile(s)}
    ELSE IF s.modified THEN {Waits(Ask(s, "save", name))}
    ELSE {GoesOn(s)}

\* The compiler cannot be executed, or runs.
StartCompile(s) ==
    {[ClearTask(s) EXCEPT !.events = Append(@, "Failed")],
     [s EXCEPT !.process = <<[name |-> s.name, text |-> Unread, raced |-> FALSE, result |-> "none"]>>]}

\* The compiler may not be found.
DoCompile(s) ==
    {ClearTask(s)} \cup IF s.process # <<>> THEN {Ask(s, "compiling", "compile")}
                        ELSE UNION {IF r.goesOn THEN StartCompile(r.then) ELSE {r.then}
                                        : r \in DoEnsureBufferIsWritten(s, "compile")}

\* (The traces of other programs stay where they are written.)
Ran(s) ==
    [s EXCEPT !.running = @ \cup ({s.name} \cap {Tmp}),
              !.ran = <<[compiled |-> s.binary[s.name].text, shown |-> s.text,
                         excused |-> s.name \in s.raced \/ (s.kind = "ScratchPad" /\ s.modified) \/ s.misplaced]>>]

\* Mutant: the times are not compared.
RunIfThere(s) ==
    IF s.binary[s.name] = Absent THEN DoCompile([s EXCEPT !.task = "Run"]) ELSE {s, Ran(s)}

\* The binary is compiled first if there is none or it is older; else it is
\* run, which may fail.
RunOrCompile(s) ==
    IF s.binary[s.name] = Absent \/ s.binary[s.name].time < s.source[s.name].time
    THEN DoCompile([s EXCEPT !.task = "Run"])
    ELSE {s, Ran(s)}

DoRun(s) ==
    UNION {IF r.goesOn THEN RunOrCompile(r.then) ELSE {r.then}
              : r \in DoEnsureBufferIsWritten(ClearTask(s), "run")}

--------------------------------------------------------------------------------
(* Saving and closing *)

Closed(s, how) ==
    [(IF s.kind = "ScratchPad" THEN cleanupScratchPadTemporaries(s) ELSE s)
        EXCEPT !.closed = how, !.dialogs = <<>>, !.events = <<>>, !.task = "Nothing"]

\* "then" is "menu", or "close" when the window is being closed: a window that
\* could not be saved is asked for again.
AfterSave(s, saved, then) ==
    IF then = "menu" THEN s ELSE IF saved THEN Closed(s, "saved") ELSE Ask(s, "close", "close")

DoSave(s, then) ==
    IF s.kind = "ScratchPad" THEN {Ask(s, "name", then)}
    ELSE {AfterSave(r.then, r.saved, then) : r \in SaveFile(s)}

DoSaveAs(s) == {Ask(s, "name", "menu")}

\* Mutant: scratch pads are treated like files.
CloseModified(s) == {IF s.modified THEN Ask(s, "close", "close") ELSE Closed(s, "unasked")}

OnCloseEditor(s) ==
    {IF s.kind = "ScratchPad" \/ s.modified THEN Ask(s, "close", "close") ELSE Closed(s, "unasked")}

--------------------------------------------------------------------------------
(* The answers of the user, and the events of the compilation. *)

Rest(s, then) ==
    CASE then = "compile" -> StartCompile(s)
      [] then = "run"     -> RunOrCompile(s)
GivesUp(s, then) == IF then = "compile" THEN ClearTask(s) ELSE s

Answers(s) ==
    LET d == Head(s.dialogs)
        t == [s EXCEPT !.dialogs = Tail(@)]
    IN  CASE d.question \in {"empty", "compiling"} -> {GivesUp(t, d.then)}
          [] d.question = "save" ->
                {GivesUp(t, d.then)} \cup
                UNION {IF r.saved THEN Rest(r.then, d.then) ELSE {GivesUp(r.then, d.then)} : r \in SaveFile(t)}
          [] d.question = "name" ->
                {AfterSave(t, FALSE, d.then)} \cup
                UNION {DoSave(SetFileName(t, f), d.then) : f \in SourceFiles}
          [] d.question = "close" -> {t, Closed(t, "discarded")} \cup DoSave(t, "close")

OnEndProcess(s) ==
    {[s EXCEPT !.process = <<>>,
               !.events = Append(@, IF s.process[1].result = "binary" THEN "Complete" ELSE "Failed")]}

\* Mutant: a compilation that failed leaves the task.
OnCompileEventKeepsTask(s) ==
    LET t == [s EXCEPT !.events = Tail(@)]
    IN  IF Head(s.events) = "Complete" /\ s.task = "Run" THEN DoRun(t) ELSE {t}

OnCompileEvent(s) ==
    LET t == [s EXCEPT !.events = Tail(@)]
    IN  IF Head(s.events) = "Complete" /\ s.task = "Run" THEN DoRun(t) ELSE {ClearTask(t)}

--------------------------------------------------------------------------------
NewEditor ==
    [text |-> 0, savepoint |-> 0, modified |-> FALSE, kind |-> "ScratchPad", name |-> Tmp,
     source |-> [f \in Names |-> IF f = Tmp THEN Absent ELSE [text |-> MaxChanges + 1, time |-> 0]],
     binary |-> [f \in Names |-> IF f = Tmp THEN [text |-> 0, time |-> 0] ELSE Absent],
     traces |-> {}, running |-> {}, process |-> <<>>, events |-> <<>>, task |-> "Nothing",
     dialogs |-> <<>>, now |-> 0, changes |-> 0, closed |-> "no",
     ran |-> <<>>, raced |-> {}, misplaced |-> FALSE, outlived |-> FALSE]

\* A window is opened for a file, if it can be read.
OpenEditor(s, f) ==
    [SetFileName(s, f) EXCEPT !.text = s.source[f].text, !.savepoint = s.source[f].text,
                          !.misplaced = FALSE]

Init == editor \in {NewEditor} \cup {OpenEditor(NewEditor, f) : f \in SourceFiles}

\* A step of the editor; what was run in the step before is forgotten.
Step(Op(_)) == editor' \in Op([editor EXCEPT !.ran = <<>>])

IsOpen == editor.closed = "no"
TakesInput == IsOpen /\ editor.dialogs = <<>> /\ editor.events = <<>>

\* The user writes another text.
Edit ==
    /\ TakesInput /\ editor.changes < MaxChanges
    /\ Step(LAMBDA s : {[s EXCEPT !.text = s.changes + 1, !.modified = TRUE, !.changes = @ + 1]})

Undo == TakesInput /\ editor.modified /\ Step(LAMBDA s : {[s EXCEPT !.text = s.savepoint, !.modified = FALSE]})

Command ==
    TakesInput /\ \/ Step(DoCompile) \/ Step(DoRun) \/ Step(DoSaveAs) \/ Step(OnCloseEditor)
                  \/ Step(LAMBDA s : DoSave(s, "menu"))

Answer == IsOpen /\ editor.dialogs # <<>> /\ editor.events = <<>> /\ Step(Answers)

Dispatch ==
    \/ IsOpen /\ editor.events # <<>> /\ Step(OnCompileEvent)
    \/ IsOpen /\ editor.events = <<>> /\ editor.process # <<>> /\ editor.process[1].result # "none" /\ Step(OnEndProcess)

\* The compiler reads the source, then writes the binary or fails.
CompilerReads ==
    /\ editor.process # <<>> /\ editor.process[1].text = Unread
    /\ Step(LAMBDA s : {[s EXCEPT !.process[1].text = s.source[s.process[1].name].text]})

Compiled(s) ==
    LET p == s.process[1]
    IN  [s EXCEPT !.process[1].result = "binary",
                  !.binary[p.name] = [text |-> p.text, time |-> s.now],
                  !.raced = IF p.raced THEN @ \cup {p.name} ELSE @ \ {p.name}]

CompilerEnds ==
    /\ editor.process # <<>> /\ editor.process[1].result = "none" /\ editor.process[1].text # Unread
    /\ \/ Step(LAMBDA s : {[s EXCEPT !.process[1].result = "errors"]})
       \/ editor.process[1].text > 0 /\ Step(LAMBDA s : {Compiled(s)})

\* A program that was run writes its trace.
ProgramEnds ==
    \E n \in editor.running :
        Step(LAMBDA s : {[s EXCEPT !.running = @ \ {n}, !.traces = @ \cup {n}]})

Tick == IsOpen /\ editor.now < MaxSeconds /\ Step(LAMBDA s : {[s EXCEPT !.now = @ + 1]})

Next ==
    \/ Edit \/ Undo \/ Command \/ Answer \/ Dispatch
    \/ CompilerReads \/ CompilerEnds \/ ProgramEnds \/ Tick

\* The compiler ends, and the event loop runs, also that of a message box; the
\* user need not do anything.
Spec == Init /\ [][Next]_editor /\ WF_editor(Dispatch) /\ WF_editor(CompilerReads \/ CompilerEnds)

--------------------------------------------------------------------------------
(* Properties *)

\* What is run was compiled from the text that is shown, unless the source was
\* written in the second in which the binary was, or after the compiler had
\* read it; or the scratch pad could not be written; or the save point is that
\* of another file, because "save as" could not write the new one.
RunsWhatIsShown ==
    editor.ran # <<>> => editor.ran[1].compiled = editor.ran[1].shown \/ editor.ran[1].excused

\* A window that closes without the user giving the text up leaves it in the
\* file of the window, unless "save as" could not write that file: the editor
\* then still takes the text for saved.
ClosingKeepsText ==
    editor.closed \in {"unasked", "saved"} =>
        editor.source[editor.name].text = editor.text \/ editor.misplaced

\* Of a scratch pad nothing is left when it is saved to a file or closed, but
\* for what the compiler or the program writes after that.
ScratchPadIsRemoved ==
    editor.kind = "File" \/ ~IsOpen =>
        \/ editor.outlived
        \/ editor.source[Tmp] = Absent /\ editor.binary[Tmp] = Absent /\ Tmp \notin editor.traces

\* A run that waits for the compiler is made or given up, whatever the user
\* does or does not do in the meantime.
PendingRunEnds == (editor.task = "Run" /\ IsOpen) ~> (editor.task = "Nothing" \/ ~IsOpen)

\* Closing loses no text and leaves no scratch pad behind.
ClosingIsClean == ClosingKeepsText /\ ScratchPadIsRemoved
================================================================================
