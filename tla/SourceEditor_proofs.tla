------------------------ MODULE SourceEditor_proofs ------------------------
(***************************************************************************)
(* Proofs about SourceEditor, for any files, any number of texts and any    *)
(* length of time.                                                          *)
(***************************************************************************)
EXTENDS SourceEditor, TLAPS

-----------------------------------------------------------------------------
(***************************************************************************)
(* The states of the editor.                                                *)
(***************************************************************************)
Cells == [text : Int, time : Int]

Processes ==
  [name : Names, text : Int, raced : BOOLEAN, result : {"none", "binary", "errors"}]

Questions ==
  [question : {"empty", "compiling", "save"}, then : {"compile", "run"}]
    \cup [question : {"name", "close"}, then : {"menu", "close"}]

Runs == [compiled : Int, shown : Int, excused : BOOLEAN]

Editors ==
  [text : Nat, savepoint : Nat, modified : BOOLEAN, kind : {"ScratchPad", "File"},
   name : Names, source : [Names -> Cells], binary : [Names -> Cells],
   traces : SUBSET Names, running : SUBSET Names, process : Seq(Processes),
   events : Seq({"Complete", "Failed"}), task : {"Nothing", "Run"},
   dialogs : Seq(Questions), now : Nat, changes : Nat,
   closed : {"no", "unasked", "saved", "discarded"}, ran : Seq(Runs),
   raced : SUBSET Names, misplaced : BOOLEAN, outlived : BOOLEAN]

-----------------------------------------------------------------------------
(***************************************************************************)
(* The inductive invariant, of an editor s.                                 *)
(***************************************************************************)
NameInv(s) ==
  /\ s.kind = "ScratchPad" => s.name = Tmp
  /\ s.kind = "File" => s.name \in SourceFiles

\* The savepoint is what the file of the window holds, unless "save as" could
\* not write it, or the scratch pad was never written.
TextInv(s) ==
  s.closed = "no" =>
    /\ ~s.modified => s.text = s.savepoint
    /\ \/ s.misplaced
       \/ s.source[s.name].text = s.savepoint
       \/ s.kind = "ScratchPad" /\ s.savepoint = 0

ClosedInv(s) ==
  s.closed \in {"unasked", "saved"} => s.source[s.name].text = s.text \/ s.misplaced

\* A binary that is not older than its source was compiled from it.
BinaryInv(s) ==
  \A f \in Names :
    /\ s.binary[f].time <= s.now
    /\ \/ s.binary[f] = Absent \/ s.source[f] = Absent \/ f \in s.raced
       \/ s.binary[f].time < s.source[f].time
       \/ s.binary[f].text = s.source[f].text

\* So will be the one that the compiler is about to write.
ProcessInv(s) ==
  /\ Len(s.process) <= 1
  /\ s.process # <<>> =>
       LET p == s.process[1]
       IN  \/ p.result # "none" \/ p.text = Unread \/ p.raced
           \/ s.source[p.name] = Absent \/ p.text = s.source[p.name].text

\* What is left of a scratch pad, and who could still write to it.
Removed(s) ==
  /\ s.source[Tmp] = Absent /\ s.binary[Tmp] = Absent /\ Tmp \notin s.traces
  /\ Tmp \notin s.running /\ ~InCompiler(s, Tmp)

ScratchInv(s) == s.kind = "File" \/ s.closed # "no" => s.outlived \/ Removed(s)

RanInv(s) == s.ran # <<>> => s.ran[1].compiled = s.ran[1].shown \/ s.ran[1].excused

Good(s) ==
  /\ s \in Editors
  /\ NameInv(s) /\ TextInv(s) /\ ClosedInv(s) /\ BinaryInv(s) /\ ProcessInv(s)
  /\ ScratchInv(s) /\ RanInv(s)

EditorInv == Good(editor)
\* An operation goes on with an open window in which nothing has been run.
Ready(s) == Good(s) /\ s.closed = "no" /\ s.ran = <<>>

-----------------------------------------------------------------------------
(***************************************************************************)
(* Operations that change nothing that the invariant speaks about.          *)
(***************************************************************************)
SameText(t, s) ==
  /\ t.text = s.text /\ t.savepoint = s.savepoint
  /\ t.modified = s.modified /\ t.misplaced = s.misplaced
SameFiles(t, s) == t.source = s.source /\ t.binary = s.binary /\ t.raced = s.raced
SameWindow(t, s) == t.kind = s.kind /\ t.name = s.name /\ t.closed = s.closed
SameProcess(t, s) ==
  /\ t.process = s.process /\ t.running = s.running
  /\ t.traces = s.traces /\ t.outlived = s.outlived

Alike(t, s) ==
  /\ SameText(t, s) /\ SameFiles(t, s) /\ SameWindow(t, s) /\ SameProcess(t, s)
  /\ t.now = s.now /\ t.ran = s.ran

LEMMA AlikeIsGood ==
  ASSUME NEW s, Good(s), NEW t \in Editors, Alike(t, s)
  PROVE  Good(t)
<1>1. NameInv(t) /\ TextInv(t) /\ ClosedInv(t)
  BY DEF Good, Alike, SameText, SameFiles, SameWindow, NameInv, TextInv, ClosedInv
<1>2. BinaryInv(t)
  BY DEF Good, Alike, SameFiles, BinaryInv
<1>3. ProcessInv(t)
  BY DEF Good, Alike, SameFiles, SameProcess, ProcessInv
<1>4. ScratchInv(t) /\ RanInv(t)
  BY DEF Good, Alike, SameFiles, SameWindow, SameProcess, ScratchInv, Removed, InCompiler, RanInv
<1> QED
  BY <1>1, <1>2, <1>3, <1>4 DEF Good

LEMMA AlikeIsReady ==
  ASSUME NEW s, Ready(s), NEW t \in Editors, Alike(t, s)
  PROVE  Ready(t)
BY AlikeIsGood DEF Ready, Alike, SameWindow

LEMMA AskIsReady ==
  ASSUME NEW s, Ready(s), NEW q, NEW then, [question |-> q, then |-> then] \in Questions
  PROVE  Ready(Ask(s, q, then)) /\ Alike(Ask(s, q, then), s)
<1> DEFINE t == Ask(s, q, then)
           d == <<[question |-> q, then |-> then]>> \o s.dialogs
<1>1. s \in Editors /\ t = [s EXCEPT !.dialogs = d]
  BY DEF Ready, Good, Ask
<1>2. d \in Seq(Questions)
  <2>1. s.dialogs \in Seq(Questions)
    BY <1>1 DEF Editors
  <2> QED
    BY <2>1
<1> HIDE DEF d, t
<1>3. t \in Editors /\ Alike(t, s)
  BY <1>1, <1>2 DEF Editors, Alike, SameText, SameFiles, SameWindow, SameProcess
<1> QED
  BY <1>3, AlikeIsReady DEF t

LEMMA TaskIsReady ==
  ASSUME NEW s, Ready(s), NEW task \in {"Nothing", "Run"}
  PROVE  Ready([s EXCEPT !.task = task]) /\ Alike([s EXCEPT !.task = task], s)
<1> DEFINE t == [s EXCEPT !.task = task]
<1>1. s \in Editors
  BY DEF Ready, Good
<1>2. t \in Editors /\ Alike(t, s)
  BY <1>1 DEF Editors, Alike, SameText, SameFiles, SameWindow, SameProcess
<1> HIDE DEF t
<1>3. Ready(t)
  BY <1>2, AlikeIsReady
<1> QED
  BY <1>2, <1>3 DEF t

LEMMA ClearedIsReady ==
  ASSUME NEW s, Ready(s)
  PROVE  Ready(ClearTask(s)) /\ Alike(ClearTask(s), s)
BY TaskIsReady DEF ClearTask

\* A question that was answered, an event that was handled, one that is queued.
LEMMA TailIsReady ==
  ASSUME NEW s, Ready(s)
  PROVE  /\ s.dialogs # <<>> => /\ Ready([s EXCEPT !.dialogs = Tail(@)])
                                /\ Head(s.dialogs) \in Questions
         /\ s.events # <<>> => Ready([s EXCEPT !.events = Tail(@)])
<1>1. s \in Editors /\ s.dialogs \in Seq(Questions) /\ s.events \in Seq({"Complete", "Failed"})
  BY DEF Ready, Good, Editors
<1>2. ASSUME s.dialogs # <<>>
      PROVE  Ready([s EXCEPT !.dialogs = Tail(@)]) /\ Head(s.dialogs) \in Questions
  <2> DEFINE d == Tail(s.dialogs)
             t == [s EXCEPT !.dialogs = d]
  <2>1. d \in Seq(Questions) /\ Head(s.dialogs) \in Questions
    BY <1>1, <1>2
  <2> HIDE DEF d
  <2>2. t \in Editors /\ Alike(t, s)
    BY <1>1, <2>1 DEF Editors, Alike, SameText, SameFiles, SameWindow, SameProcess
  <2> HIDE DEF t
  <2>3. Ready(t)
    BY <2>2, AlikeIsReady
  <2> QED
    BY <2>1, <2>3 DEF t, d
<1>3. ASSUME s.events # <<>>
      PROVE  Ready([s EXCEPT !.events = Tail(@)])
  <2> DEFINE d == Tail(s.events)
             t == [s EXCEPT !.events = d]
  <2>1. d \in Seq({"Complete", "Failed"})
    BY <1>1, <1>3
  <2> HIDE DEF d
  <2>2. t \in Editors /\ Alike(t, s)
    BY <1>1, <2>1 DEF Editors, Alike, SameText, SameFiles, SameWindow, SameProcess
  <2> HIDE DEF t
  <2>3. Ready(t)
    BY <2>2, AlikeIsReady
  <2> QED
    BY <2>3 DEF t, d
<1> QED
  BY <1>2, <1>3

LEMMA QueuedIsReady ==
  ASSUME NEW s, Ready(s), NEW e \in {"Complete", "Failed"}
  PROVE  Ready([s EXCEPT !.events = Append(@, e)])
<1> DEFINE d == Append(s.events, e)
           t == [s EXCEPT !.events = d]
<1>1. s \in Editors /\ d \in Seq({"Complete", "Failed"})
  BY DEF Ready, Good, Editors
<1> HIDE DEF d
<1>2. t \in Editors /\ Alike(t, s)
  BY <1>1 DEF Editors, Alike, SameText, SameFiles, SameWindow, SameProcess
<1> HIDE DEF t
<1>3. Ready(t)
  BY <1>2, AlikeIsReady
<1> QED
  BY <1>3 DEF t, d

-----------------------------------------------------------------------------
(***************************************************************************)
(* Saving.                                                                  *)
(***************************************************************************)
\* A process is none or one.
LEMMA ProcessFacts ==
  ASSUME NEW s, Good(s)
  PROVE  \/ s.process = <<>>
         \/ \E p \in Processes : s.process = <<p>> /\ s.process[1] = p
<1>1. s.process \in Seq(Processes) /\ Len(s.process) <= 1
  BY DEF Good, Editors, ProcessInv
<1>2. CASE s.process # <<>>
  <2> DEFINE q == s.process
  <2>1. q \in Seq(Processes) /\ Len(q) <= 1 /\ q # <<>>
    BY <1>1, <1>2
  <2> HIDE DEF q
  <2> DEFINE k == Len(q)
  <2>2. k \in Nat /\ k # 0 /\ k <= 1
    BY <2>1
  <2> HIDE DEF k
  <2>3. k = 1
    BY <2>2
  <2>4. q[1] \in Processes /\ q = <<q[1]>>
    BY <2>1, <2>3 DEF k
  <2> QED
    BY <2>4 DEF q
<1> QED
  BY <1>2

\* What the process becomes when its source is written.
NowRaced(s) ==
  IF InCompiler(s, s.name) /\ s.process[1].text # Unread
  THEN <<[s.process[1] EXCEPT !.raced = TRUE]>> ELSE s.process

LEMMA NowRacedFacts ==
  ASSUME NEW s, Good(s)
  PROVE  /\ NowRaced(s) \in Seq(Processes) /\ Len(NowRaced(s)) <= 1
         /\ NowRaced(s) = <<>> <=> s.process = <<>>
         /\ s.process # <<>> =>
              LET p == s.process[1]
                  q == NowRaced(s)[1]
              IN  /\ p \in Processes
                  /\ q.name = p.name /\ q.text = p.text /\ q.result = p.result
                  /\ p.name # s.name => q.raced = p.raced
                  /\ p.name = s.name => p.result # "none" \/ p.text = Unread \/ q.raced
<1>1. CASE s.process = <<>>
  BY <1>1 DEF NowRaced, InCompiler
<1>2. CASE s.process # <<>>
  <2>1. PICK p \in Processes : s.process = <<p>> /\ s.process[1] = p
    BY <1>2, ProcessFacts
  <2> DEFINE q == [p EXCEPT !.raced = TRUE]
  <2>2. /\ q \in Processes /\ q.name = p.name /\ q.text = p.text /\ q.result = p.result
        /\ q.raced
    BY DEF Processes
  <2> HIDE DEF q
  <2>3. NowRaced(s) = IF p.name = s.name /\ p.result = "none" /\ p.text # Unread
                      THEN <<q>> ELSE <<p>>
    BY <1>2, <2>1 DEF NowRaced, InCompiler, q
  <2>4. CASE p.name = s.name /\ p.result = "none" /\ p.text # Unread
    BY <2>1, <2>2, <2>3, <2>4
  <2>5. CASE ~(p.name = s.name /\ p.result = "none" /\ p.text # Unread)
    BY <2>1, <2>3, <2>5
  <2> QED
    BY <2>4, <2>5
<1> QED
  BY <1>1, <1>2

LEMMA SavedFields ==
  ASSUME NEW s, Ready(s)
  PROVE  LET t == Saved(s)
         IN  /\ t \in Editors
             /\ t.text = s.text /\ t.savepoint = s.text /\ t.modified = FALSE
             /\ t.misplaced = FALSE
             /\ t.source = [s.source EXCEPT ![s.name] = [text |-> s.text, time |-> s.now]]
             /\ t.binary = s.binary /\ s.raced \subseteq t.raced
             /\ (s.binary[s.name].time = s.now => s.name \in t.raced)
             /\ SameWindow(t, s) /\ t.process = NowRaced(s)
             /\ t.running = s.running /\ t.traces = s.traces /\ t.outlived = s.outlived
             /\ t.now = s.now /\ t.ran = s.ran /\ t.dialogs = s.dialogs
<1> DEFINE cell == [text |-> s.text, time |-> s.now]
           source == [s.source EXCEPT ![s.name] = cell]
           raced == IF s.binary[s.name].time = s.now THEN s.raced \cup {s.name} ELSE s.raced
           process == NowRaced(s)
           t == [s EXCEPT !.source = source, !.savepoint = s.text, !.modified = FALSE,
                          !.misplaced = FALSE, !.raced = raced, !.process = process]
<1>1. s \in Editors /\ s.name \in Names /\ s.raced \subseteq Names
      /\ s.source \in [Names -> Cells] /\ s.text \in Nat /\ s.now \in Nat
  BY DEF Ready, Good, Editors
<1>2. Saved(s) = t
  BY <1>1 DEF Saved, NowRaced, Editors
<1>3. source \in [Names -> Cells] /\ raced \subseteq Names /\ process \in Seq(Processes)
      /\ s.raced \subseteq raced /\ (s.binary[s.name].time = s.now => s.name \in raced)
  BY <1>1, NowRacedFacts DEF Cells, Ready
<1> HIDE DEF source, raced, process
<1>4. /\ t \in Editors
      /\ t.text = s.text /\ t.savepoint = s.text /\ t.modified = FALSE
      /\ t.misplaced = FALSE /\ t.source = source /\ t.binary = s.binary /\ t.raced = raced
      /\ SameWindow(t, s) /\ t.process = process
      /\ t.running = s.running /\ t.traces = s.traces /\ t.outlived = s.outlived
      /\ t.now = s.now /\ t.ran = s.ran /\ t.dialogs = s.dialogs
  BY <1>1, <1>3 DEF Editors, SameWindow
<1> HIDE DEF t
<1> QED
  BY <1>2, <1>3, <1>4 DEF source, process

LEMMA SavedIsReady ==
  ASSUME NEW s, Ready(s)
  PROVE  /\ Ready(Saved(s)) /\ SameWindow(Saved(s), s)
         /\ Saved(s).source[s.name].text = s.text /\ Saved(s).text = s.text
<1> DEFINE t == Saved(s)
<1>1. /\ t \in Editors
      /\ t.text = s.text /\ t.savepoint = s.text /\ t.modified = FALSE
      /\ t.misplaced = FALSE
      /\ t.source = [s.source EXCEPT ![s.name] = [text |-> s.text, time |-> s.now]]
      /\ t.binary = s.binary /\ s.raced \subseteq t.raced
      /\ (s.binary[s.name].time = s.now => s.name \in t.raced)
      /\ SameWindow(t, s) /\ t.process = NowRaced(s)
      /\ t.running = s.running /\ t.traces = s.traces /\ t.outlived = s.outlived
      /\ t.now = s.now /\ t.ran = s.ran
  BY SavedFields
<1> HIDE DEF t
<1>2. Good(s) /\ s \in Editors /\ s.name \in Names /\ s.source \in [Names -> Cells]
      /\ s.text \in Nat /\ s.now \in Nat /\ s.binary \in [Names -> Cells]
  BY DEF Ready, Good, Editors
<1>3. /\ t.source[s.name] = [text |-> s.text, time |-> s.now]
      /\ \A f \in Names : f # s.name => t.source[f] = s.source[f]
  BY <1>1, <1>2
<1>4. t.source[s.name].text = s.text /\ t.source[s.name].time = s.now
  BY <1>3
<1>5. NameInv(t) /\ TextInv(t) /\ ClosedInv(t)
  BY <1>1, <1>2, <1>4 DEF Ready, Good, SameWindow, NameInv, TextInv, ClosedInv
<1>6. BinaryInv(t)
  <2> SUFFICES ASSUME NEW f \in Names
               PROVE  /\ t.binary[f].time <= t.now
                      /\ \/ t.binary[f] = Absent \/ t.source[f] = Absent \/ f \in t.raced
                         \/ t.binary[f].time < t.source[f].time
                         \/ t.binary[f].text = t.source[f].text
    BY DEF BinaryInv
  <2>1. /\ s.binary[f].time <= s.now
        /\ \/ s.binary[f] = Absent \/ s.source[f] = Absent \/ f \in s.raced
           \/ s.binary[f].time < s.source[f].time
           \/ s.binary[f].text = s.source[f].text
    BY <1>2 DEF Good, BinaryInv
  <2>2. CASE f # s.name
    BY <1>1, <1>3, <2>1, <2>2
  <2>3. CASE f = s.name
    <3> DEFINE x == s.binary[f].time
    <3>1. x \in Int /\ x <= s.now /\ t.binary[f].time = x
      BY <1>1, <1>2, <2>1 DEF Cells
    <3> HIDE DEF x
    <3>2. x = s.now \/ x < s.now
      BY <1>2, <3>1
    <3>3. x = s.now => f \in t.raced
      BY <1>1, <2>3 DEF x
    <3> QED
      BY <1>1, <1>4, <2>3, <3>1, <3>2, <3>3
  <2> QED
    BY <2>2, <2>3
<1>7. ProcessInv(t)
  <2>1. Len(t.process) <= 1
    BY <1>1, <1>2, NowRacedFacts
  <2>2. ASSUME t.process # <<>>
        PROVE  LET q == t.process[1]
               IN  \/ q.result # "none" \/ q.text = Unread \/ q.raced
                   \/ t.source[q.name] = Absent \/ q.text = t.source[q.name].text
    <3> DEFINE p == s.process[1]
               q == t.process[1]
    <3>1. /\ s.process # <<>> /\ p \in Processes
          /\ q.name = p.name /\ q.text = p.text /\ q.result = p.result
          /\ p.name # s.name => q.raced = p.raced
          /\ p.name = s.name => p.result # "none" \/ p.text = Unread \/ q.raced
      BY <1>1, <1>2, <2>2, NowRacedFacts
    <3>2. \/ p.result # "none" \/ p.text = Unread \/ p.raced
          \/ s.source[p.name] = Absent \/ p.text = s.source[p.name].text
      BY <1>2, <3>1 DEF Good, ProcessInv
    <3>3. p.name \in Names
      BY <3>1 DEF Processes
    <3> HIDE DEF p, q
    <3>4. \/ q.result # "none" \/ q.text = Unread \/ q.raced
          \/ t.source[q.name] = Absent \/ q.text = t.source[q.name].text
      BY <1>3, <3>1, <3>2, <3>3
    <3> QED
      BY <3>4 DEF q
  <2> QED
    BY <2>1, <2>2 DEF ProcessInv
<1>8. ScratchInv(t)
  <2>1. s.closed = "no" /\ ScratchInv(s) /\ NameInv(s) /\ Tmp \notin SourceFiles /\ Tmp \in Names
    BY <1>2, EditorAssumption DEF Ready, Good, Names
  <2>2. ASSUME s.kind = "File", ~s.outlived
        PROVE  Removed(t)
    <3>1. Removed(s) /\ s.name # Tmp
      BY <2>1, <2>2 DEF ScratchInv, NameInv
    <3>2. t.source[Tmp] = s.source[Tmp]
      BY <1>3, <2>1, <3>1
    <3>3. ~InCompiler(t, Tmp)
      BY <1>1, <1>2, <3>1, NowRacedFacts DEF Removed, InCompiler
    <3> QED
      BY <1>1, <3>1, <3>2, <3>3 DEF Removed
  <2> QED
    BY <1>1, <2>1, <2>2 DEF ScratchInv, SameWindow
<1>9. RanInv(t) /\ t.ran = <<>> /\ t.closed = "no"
  BY <1>1 DEF Ready, RanInv, SameWindow
<1> QED
  BY <1>1, <1>4, <1>5, <1>6, <1>7, <1>8, <1>9 DEF Ready, Good, t

LEMMA SaveFileIsReady ==
  ASSUME NEW s, Ready(s), NEW r \in SaveFile(s)
  PROVE  /\ Ready(r.then) /\ SameWindow(r.then, s) /\ r.saved \in BOOLEAN
         /\ r.saved => r.then.source[r.then.name].text = r.then.text
         /\ ~r.saved => r.then = s
<1>1. CASE r = [saved |-> FALSE, then |-> s]
  BY <1>1 DEF SameWindow
<1>2. CASE r = [saved |-> TRUE, then |-> Saved(s)]
  <2> DEFINE t == Saved(s)
  <2>1. /\ Ready(t) /\ SameWindow(t, s) /\ t.source[s.name].text = s.text /\ t.text = s.text
    BY SavedIsReady
  <2>2. r.then = t /\ r.saved = TRUE
    BY <1>2
  <2>3. t.name = s.name
    BY <2>1 DEF SameWindow
  <2> HIDE DEF t
  <2> QED
    BY <2>1, <2>2, <2>3
<1> QED
  BY <1>1, <1>2 DEF SaveFile

\* The file of the window is another one, which is not written yet.
LEMMA RenamedIsReady ==
  ASSUME NEW s, Ready(s), NEW f \in SourceFiles
  PROVE  Ready(SetFileName(s, f)) /\ SetFileName(s, f).kind = "File"
<1> DEFINE c == cleanupScratchPadTemporaries(s)
           t == SetFileName(s, f)
<1>1. /\ Good(s) /\ s \in Editors /\ s.source \in [Names -> Cells] /\ s.binary \in [Names -> Cells]
      /\ f \in Names /\ Tmp \in Names /\ f # Tmp /\ s.closed = "no" /\ s.ran = <<>>
      /\ Absent \in Cells /\ s.traces \subseteq Names
  <2>1. f \in Names /\ Tmp \in Names /\ f # Tmp
    BY EditorAssumption DEF Names
  <2>2. Absent \in Cells
    BY DEF Absent, Cells
  <2>3. Good(s) /\ s \in Editors /\ s.closed = "no" /\ s.ran = <<>>
    BY DEF Ready, Good
  <2>4. /\ s.source \in [Names -> Cells] /\ s.binary \in [Names -> Cells]
        /\ s.traces \subseteq Names
    BY <2>3 DEF Editors
  <2> QED
    BY <2>1, <2>2, <2>3, <2>4
<1>2. CASE s.kind = "ScratchPad"
  <2> DEFINE source == [s.source EXCEPT ![Tmp] = Absent]
             binary == [s.binary EXCEPT ![Tmp] = Absent]
             traces == s.traces \ {Tmp}
             outlived == s.outlived \/ Tmp \in s.running \/ InCompiler(s, Tmp)
             u == [s EXCEPT !.source = source, !.binary = binary, !.traces = traces,
                            !.outlived = outlived, !.kind = "File", !.name = f,
                            !.misplaced = TRUE]
  <2>1. t = u
    BY <1>1, <1>2 DEF SetFileName, cleanupScratchPadTemporaries, Editors
  <2>2. /\ source \in [Names -> Cells] /\ binary \in [Names -> Cells] /\ traces \subseteq Names
        /\ outlived \in BOOLEAN /\ source[Tmp] = Absent /\ binary[Tmp] = Absent
        /\ Tmp \notin traces
        /\ \A n \in Names : n # Tmp => source[n] = s.source[n] /\ binary[n] = s.binary[n]
    BY <1>1
  <2>3. outlived \/ (Tmp \notin s.running /\ ~InCompiler(s, Tmp))
    OBVIOUS
  <2> HIDE DEF source, binary, traces, outlived, t
  <2>4. /\ t \in Editors /\ t.source = source /\ t.binary = binary /\ t.traces = traces
        /\ t.outlived = outlived /\ t.kind = "File" /\ t.name = f /\ t.misplaced = TRUE
        /\ t.text = s.text /\ t.savepoint = s.savepoint /\ t.modified = s.modified
        /\ t.running = s.running /\ t.process = s.process /\ t.raced = s.raced
        /\ t.now = s.now /\ t.closed = "no" /\ t.ran = <<>>
    BY <1>1, <2>1, <2>2 DEF Editors
  <2>5. NameInv(t) /\ TextInv(t) /\ ClosedInv(t) /\ RanInv(t)
    BY <1>1, <2>4 DEF Good, NameInv, TextInv, ClosedInv, RanInv
  <2>6. BinaryInv(t)
    <3> SUFFICES ASSUME NEW n \in Names
                 PROVE  /\ t.binary[n].time <= t.now
                        /\ \/ t.binary[n] = Absent \/ t.source[n] = Absent \/ n \in t.raced
                           \/ t.binary[n].time < t.source[n].time
                           \/ t.binary[n].text = t.source[n].text
      BY DEF BinaryInv
    <3>1. CASE n = Tmp
      <4>1. Absent.time <= s.now
        <5>1. s.now \in Nat
          BY <1>1 DEF Editors
        <5> QED
          BY <5>1 DEF Absent
      <4> QED
        BY <2>2, <2>4, <3>1, <4>1
    <3>2. CASE n # Tmp
      BY <1>1, <2>2, <2>4, <3>2 DEF Good, BinaryInv
    <3> QED
      BY <3>1, <3>2
  <2>7. ProcessInv(t)
    <3>1. ASSUME s.process # <<>>
          PROVE  s.process[1].name \in Names
      BY <1>1, <3>1, ProcessFacts DEF Processes
    <3> QED
      BY <1>1, <2>2, <2>4, <3>1 DEF Good, ProcessInv
  <2>8. ScratchInv(t)
    BY <2>2, <2>3, <2>4 DEF ScratchInv, Removed, InCompiler
  <2> QED
    BY <1>1, <2>4, <2>5, <2>6, <2>7, <2>8 DEF Ready, Good, t
<1>3. CASE s.kind # "ScratchPad"
  <2>1. t = [s EXCEPT !.kind = "File", !.name = f, !.misplaced = TRUE]
    BY <1>3 DEF SetFileName
  <2> HIDE DEF t
  <2>a. s \in Editors /\ f \in Names
    BY <1>1
  <2>b. /\ t \in Editors /\ t.kind = "File" /\ t.name = f /\ t.misplaced = TRUE
        /\ t.text = s.text /\ t.savepoint = s.savepoint /\ t.modified = s.modified
        /\ SameFiles(t, s) /\ SameProcess(t, s)
        /\ t.now = s.now /\ t.closed = s.closed /\ t.ran = s.ran
    BY <2>a, <2>1 DEF Editors, SameFiles, SameProcess
  <2>c. s.kind = "File"
    BY <1>3, <2>a DEF Editors
  <2>2. /\ t \in Editors /\ t.kind = "File" /\ t.name = f /\ t.misplaced = TRUE
        /\ t.text = s.text /\ t.savepoint = s.savepoint /\ t.modified = s.modified
        /\ SameFiles(t, s) /\ SameProcess(t, s)
        /\ t.now = s.now /\ t.closed = "no" /\ t.ran = <<>> /\ s.kind = "File"
    BY <1>1, <2>b, <2>c
  <2>3. NameInv(t) /\ TextInv(t) /\ ClosedInv(t) /\ RanInv(t)
    BY <1>1, <2>2 DEF Good, NameInv, TextInv, ClosedInv, RanInv
  <2>4. BinaryInv(t) /\ ProcessInv(t)
    BY <1>1, <2>2 DEF Good, BinaryInv, ProcessInv, SameFiles, SameProcess
  <2>5. ScratchInv(t)
    BY <1>1, <2>2 DEF Good, ScratchInv, Removed, InCompiler, SameFiles, SameProcess
  <2> QED
    BY <1>1, <2>2, <2>3, <2>4, <2>5 DEF Ready, Good, t
<1> QED
  BY <1>2, <1>3

-----------------------------------------------------------------------------
(***************************************************************************)
(* Compiling and running.                                                   *)
(***************************************************************************)
\* What may be run: the file of the window holds the text that is shown, or
\* the run is excused.
Written(s) ==
  s.source[s.name].text = s.text \/ (s.kind = "ScratchPad" /\ s.modified) \/ s.misplaced

LEMMA EnsuredIsReady ==
  ASSUME NEW s, Ready(s), NEW name \in {"compile", "run"},
         NEW r \in DoEnsureBufferIsWritten(s, name)
  PROVE  Ready(r.then) /\ (r.goesOn => Written(r.then))
<1>1. ASSUME NEW q \in {"empty", "save"}, r = Waits(Ask(s, q, name))
      PROVE  Ready(r.then) /\ ~r.goesOn
  <2>1. [question |-> q, then |-> name] \in Questions
    BY DEF Questions
  <2>2. Ready(Ask(s, q, name))
    BY <2>1, AskIsReady
  <2> QED
    BY <1>1, <2>2 DEF Waits
<1>2. CASE s.kind = "ScratchPad" /\ s.text = 0
  BY <1>1, <1>2 DEF DoEnsureBufferIsWritten
<1>3. CASE ~(s.kind = "ScratchPad" /\ s.text = 0) /\ s.kind = "ScratchPad" /\ s.modified
  <2>1. PICK w \in SaveFile(s) : r = GoesOn(w.then)
    BY <1>3 DEF DoEnsureBufferIsWritten
  <2>2. r.then = w.then
    BY <2>1 DEF GoesOn
  <2>3. /\ Ready(w.then) /\ SameWindow(w.then, s) /\ w.saved \in BOOLEAN
        /\ w.saved => w.then.source[w.then.name].text = w.then.text
        /\ ~w.saved => w.then = s
    BY SaveFileIsReady
  <2>4. Written(w.then)
    BY <1>3, <2>3 DEF Written
  <2> QED
    BY <2>2, <2>3, <2>4
<1>4. CASE s.kind # "ScratchPad" /\ s.modified
  BY <1>1, <1>4 DEF DoEnsureBufferIsWritten
<1>5. CASE ~(s.kind = "ScratchPad" /\ s.text = 0) /\ ~s.modified
  <2>1. r = GoesOn(s)
    BY <1>5 DEF DoEnsureBufferIsWritten
  <2>2. r.then = s
    BY <2>1 DEF GoesOn
  <2>3. Written(s)
    BY <1>5 DEF Ready, Good, TextInv, Written
  <2> QED
    BY <2>2, <2>3
<1> QED
  BY <1>2, <1>3, <1>4, <1>5

LEMMA StartedIsReady ==
  ASSUME NEW s, Ready(s), NEW t \in StartCompile(s)
  PROVE  Ready(t)
<1>1. CASE t = [ClearTask(s) EXCEPT !.events = Append(@, "Failed")]
  BY <1>1, ClearedIsReady, QueuedIsReady
<1>2. CASE t # [ClearTask(s) EXCEPT !.events = Append(@, "Failed")]
  <2> DEFINE p == [name |-> s.name, text |-> Unread, raced |-> FALSE, result |-> "none"]
             process == <<p>>
  <2>1. t = [s EXCEPT !.process = process]
    BY <1>2 DEF StartCompile
  <2>2. s \in Editors /\ Good(s) /\ s.closed = "no" /\ s.ran = <<>>
    BY DEF Ready, Good
  <2>3. p \in Processes /\ p.name = s.name /\ p.text = Unread
    BY <2>2 DEF Editors, Processes, Unread
  <2> HIDE DEF p
  <2>4. process \in Seq(Processes) /\ Len(process) <= 1 /\ process[1] = p
    BY <2>3
  <2> HIDE DEF process
  <2>5. /\ t \in Editors /\ SameText(t, s) /\ SameFiles(t, s) /\ SameWindow(t, s)
        /\ t.process = process /\ t.running = s.running
        /\ t.traces = s.traces /\ t.outlived = s.outlived /\ t.now = s.now /\ t.ran = s.ran
    BY <2>1, <2>2, <2>4 DEF Editors, SameText, SameFiles, SameWindow
  <2>6. NameInv(t) /\ TextInv(t) /\ ClosedInv(t) /\ RanInv(t)
    BY <2>2, <2>5 DEF Good, NameInv, TextInv, ClosedInv, RanInv, SameText, SameFiles, SameWindow
  <2>7. BinaryInv(t)
    BY <2>2, <2>5 DEF Good, BinaryInv, SameFiles
  <2>8. ProcessInv(t)
    <3>1. Len(t.process) <= 1
      BY <2>4, <2>5
    <3>2. t.process[1].text = Unread
      BY <2>3, <2>4, <2>5
    <3> QED
      BY <3>1, <3>2 DEF ProcessInv
  <2>9. ScratchInv(t)
    BY <2>2, <2>3, <2>4, <2>5, EditorAssumption
       DEF Good, NameInv, ScratchInv, Removed, InCompiler, SameFiles, SameWindow
  <2> QED
    BY <2>2, <2>5, <2>6, <2>7, <2>8, <2>9 DEF Ready, Good, SameWindow
<1> QED
  BY <1>1, <1>2

LEMMA CompileIsReady ==
  ASSUME NEW s, Ready(s), NEW t \in DoCompile(s)
  PROVE  Ready(t)
<1>1. CASE t = ClearTask(s)
  BY <1>1, ClearedIsReady
<1>2. CASE t = Ask(s, "compiling", "compile")
  <2>1. [question |-> "compiling", then |-> "compile"] \in Questions
    BY DEF Questions
  <2> QED
    BY <1>2, <2>1, AskIsReady
<1>3. CASE \E r \in DoEnsureBufferIsWritten(s, "compile") :
             t \in IF r.goesOn THEN StartCompile(r.then) ELSE {r.then}
  <2>1. PICK r \in DoEnsureBufferIsWritten(s, "compile") :
          t \in IF r.goesOn THEN StartCompile(r.then) ELSE {r.then}
    BY <1>3
  <2>2. Ready(r.then)
    BY EnsuredIsReady
  <2> QED
    BY <2>1, <2>2, StartedIsReady
<1> QED
  BY <1>1, <1>2, <1>3 DEF DoCompile

LEMMA RanIsGood ==
  ASSUME NEW s, Ready(s), Written(s),
         ~(s.binary[s.name] = Absent \/ s.binary[s.name].time < s.source[s.name].time)
  PROVE  Good(Ran(s))
<1> DEFINE n == s.name
           excused == n \in s.raced \/ (s.kind = "ScratchPad" /\ s.modified) \/ s.misplaced
           run == [compiled |-> s.binary[n].text, shown |-> s.text, excused |-> excused]
           ran == <<run>>
           running == s.running \cup ({n} \cap {Tmp})
           t == Ran(s)
<1>1. /\ Good(s) /\ s \in Editors /\ s.closed = "no" /\ n \in Names
      /\ s.source \in [Names -> Cells] /\ s.binary \in [Names -> Cells]
      /\ s.text \in Nat /\ s.running \subseteq Names
  BY DEF Ready, Good, Editors
<1>2. t = [s EXCEPT !.running = running, !.ran = ran]
  BY DEF Ran
<1>3. s.binary[n].text \in Int /\ excused \in BOOLEAN
  BY <1>1 DEF Cells
<1>4. run.compiled = run.shown \/ run.excused
  <2>1. CASE (s.kind = "ScratchPad" /\ s.modified) \/ s.misplaced
    BY <2>1
  <2>2. CASE s.source[n].text = s.text
    <3>1. s.source[n] # Absent
      BY <1>1, <2>2 DEF Absent
    <3>2. n \in s.raced \/ s.binary[n].text = s.source[n].text
      BY <1>1, <3>1 DEF Good, BinaryInv
    <3> QED
      BY <2>2, <3>2
  <2> QED
    BY <2>1, <2>2 DEF Written
<1> HIDE DEF excused
<1>5. run \in Runs
  BY <1>1, <1>3 DEF Runs
<1> HIDE DEF run
<1>6. ran \in Seq(Runs) /\ ran[1] = run
  BY <1>5
<1>7. running \subseteq Names
  BY <1>1
<1>8. s.kind = "File" => (Tmp \in running => Tmp \in s.running)
  BY <1>1, EditorAssumption DEF Good, NameInv
<1> HIDE DEF ran, running, t, n
<1>9. /\ t \in Editors /\ SameText(t, s) /\ SameFiles(t, s) /\ SameWindow(t, s)
      /\ t.process = s.process /\ t.running = running
      /\ t.traces = s.traces /\ t.outlived = s.outlived /\ t.now = s.now /\ t.ran = ran
  BY <1>1, <1>2, <1>6, <1>7 DEF Editors, SameText, SameFiles, SameWindow
<1>10. NameInv(t) /\ TextInv(t) /\ ClosedInv(t)
  BY <1>1, <1>9 DEF Good, NameInv, TextInv, ClosedInv, SameText, SameFiles, SameWindow
<1>11. BinaryInv(t) /\ ProcessInv(t)
  BY <1>1, <1>9 DEF Good, BinaryInv, ProcessInv, SameFiles
<1>12. ScratchInv(t)
  BY <1>1, <1>8, <1>9 DEF Good, ScratchInv, Removed, InCompiler, SameFiles, SameWindow
<1>13. RanInv(t)
  BY <1>4, <1>6, <1>9 DEF RanInv
<1> QED
  BY <1>9, <1>10, <1>11, <1>12, <1>13 DEF Good, t

LEMMA RunIsGood ==
  ASSUME NEW s, Ready(s), Written(s), NEW t \in RunOrCompile(s)
  PROVE  Good(t)
<1>1. CASE s.binary[s.name] = Absent \/ s.binary[s.name].time < s.source[s.name].time
  <2> DEFINE u == [s EXCEPT !.task = "Run"]
  <2>1. t \in DoCompile(u)
    BY <1>1 DEF RunOrCompile
  <2>2. Ready(u)
    BY TaskIsReady
  <2> HIDE DEF u
  <2>3. Ready(t)
    BY <2>1, <2>2, CompileIsReady
  <2> QED
    BY <2>3 DEF Ready
<1>2. CASE ~(s.binary[s.name] = Absent \/ s.binary[s.name].time < s.source[s.name].time)
  <2>1. t = s \/ t = Ran(s)
    BY <1>2 DEF RunOrCompile
  <2>2. Good(Ran(s))
    BY <1>2, RanIsGood
  <2> QED
    BY <2>1, <2>2 DEF Ready
<1> QED
  BY <1>1, <1>2

LEMMA DoRunIsGood ==
  ASSUME NEW s, Ready(s), NEW t \in DoRun(s)
  PROVE  Good(t)
<1> DEFINE u == ClearTask(s)
<1>1. PICK r \in DoEnsureBufferIsWritten(u, "run") :
        t \in IF r.goesOn THEN RunOrCompile(r.then) ELSE {r.then}
  BY DEF DoRun
<1>2. Ready(u)
  BY ClearedIsReady
<1> HIDE DEF u
<1>3. Ready(r.then) /\ (r.goesOn => Written(r.then))
  BY <1>2, EnsuredIsReady
<1>4. CASE r.goesOn
  BY <1>1, <1>3, <1>4, RunIsGood
<1>5. CASE ~r.goesOn
  BY <1>1, <1>3, <1>5 DEF Ready
<1> QED
  BY <1>4, <1>5

-----------------------------------------------------------------------------
(***************************************************************************)
(* Saving and closing.                                                      *)
(***************************************************************************)
LEMMA ClosedIsGood ==
  ASSUME NEW s, Ready(s), NEW how \in {"unasked", "saved", "discarded"},
         how # "discarded" => s.kind = "File" /\ (s.source[s.name].text = s.text \/ s.misplaced)
  PROVE  Good(Closed(s, how))
<1> DEFINE t == Closed(s, how)
           none == <<>>
<1>0. none \in Seq(Questions) /\ none \in Seq({"Complete", "Failed"})
  OBVIOUS
<1>1. /\ Good(s) /\ s \in Editors /\ s.source \in [Names -> Cells] /\ s.binary \in [Names -> Cells]
      /\ Tmp \in Names /\ s.closed = "no" /\ s.ran = <<>>
      /\ Absent \in Cells /\ s.traces \subseteq Names
  <2>1. Tmp \in Names
    BY DEF Names
  <2>2. Absent \in Cells
    BY DEF Absent, Cells
  <2>3. Good(s) /\ s \in Editors /\ s.closed = "no" /\ s.ran = <<>>
    BY DEF Ready, Good
  <2>4. /\ s.source \in [Names -> Cells] /\ s.binary \in [Names -> Cells]
        /\ s.traces \subseteq Names
    BY <2>3 DEF Editors
  <2> QED
    BY <2>1, <2>2, <2>3, <2>4
<1>2. CASE s.kind = "ScratchPad"
  <2> DEFINE source == [s.source EXCEPT ![Tmp] = Absent]
             binary == [s.binary EXCEPT ![Tmp] = Absent]
             traces == s.traces \ {Tmp}
             outlived == s.outlived \/ Tmp \in s.running \/ InCompiler(s, Tmp)
             u == [s EXCEPT !.source = source, !.binary = binary, !.traces = traces,
                            !.outlived = outlived, !.closed = how, !.dialogs = none,
                            !.events = none, !.task = "Nothing"]
  <2>1. t = u
    BY <1>1, <1>2 DEF Closed, cleanupScratchPadTemporaries, Editors
  <2>2. /\ source \in [Names -> Cells] /\ binary \in [Names -> Cells] /\ traces \subseteq Names
        /\ outlived \in BOOLEAN /\ source[Tmp] = Absent /\ binary[Tmp] = Absent
        /\ Tmp \notin traces
        /\ \A n \in Names : n # Tmp => source[n] = s.source[n] /\ binary[n] = s.binary[n]
    BY <1>1
  <2>3. outlived \/ (Tmp \notin s.running /\ ~InCompiler(s, Tmp))
    OBVIOUS
  <2> HIDE DEF source, binary, traces, outlived, t, none
  <2>a. /\ s \in Editors /\ source \in [Names -> Cells] /\ binary \in [Names -> Cells]
        /\ traces \in SUBSET Names /\ outlived \in BOOLEAN
    BY <1>1, <2>2
  <2>b. /\ t \in Editors /\ t.source = source /\ t.binary = binary /\ t.traces = traces
        /\ t.outlived = outlived /\ t.kind = s.kind /\ t.name = s.name
        /\ t.running = s.running /\ t.process = s.process /\ t.raced = s.raced
        /\ t.now = s.now /\ t.closed = how /\ t.ran = s.ran
    BY <1>0, <2>1, <2>a DEF Editors
  <2>4. /\ t \in Editors /\ t.source = source /\ t.binary = binary /\ t.traces = traces
        /\ t.outlived = outlived /\ t.kind = s.kind /\ t.name = s.name
        /\ t.running = s.running /\ t.process = s.process /\ t.raced = s.raced
        /\ t.now = s.now /\ t.closed = how /\ t.ran = <<>>
    BY <1>1, <2>b
  <2>5. NameInv(t) /\ TextInv(t) /\ ClosedInv(t) /\ RanInv(t)
    BY <1>1, <1>2, <2>4 DEF Good, NameInv, TextInv, ClosedInv, RanInv
  <2>6. BinaryInv(t)
    <3> SUFFICES ASSUME NEW n \in Names
                 PROVE  /\ t.binary[n].time <= t.now
                        /\ \/ t.binary[n] = Absent \/ t.source[n] = Absent \/ n \in t.raced
                           \/ t.binary[n].time < t.source[n].time
                           \/ t.binary[n].text = t.source[n].text
      BY DEF BinaryInv
    <3>1. CASE n = Tmp
      <4>1. Absent.time <= s.now
        <5>1. s.now \in Nat
          BY <1>1 DEF Editors
        <5> QED
          BY <5>1 DEF Absent
      <4> QED
        BY <2>2, <2>4, <3>1, <4>1
    <3>2. CASE n # Tmp
      BY <1>1, <2>2, <2>4, <3>2 DEF Good, BinaryInv
    <3> QED
      BY <3>1, <3>2
  <2>7. ProcessInv(t)
    <3>1. ASSUME s.process # <<>>
          PROVE  s.process[1].name \in Names
      BY <1>1, <3>1, ProcessFacts DEF Processes
    <3> QED
      BY <1>1, <2>2, <2>4, <3>1 DEF Good, ProcessInv
  <2>8. ScratchInv(t)
    BY <2>2, <2>3, <2>4 DEF ScratchInv, Removed, InCompiler
  <2> QED
    BY <1>1, <2>4, <2>5, <2>6, <2>7, <2>8 DEF Ready, Good, t
<1>3. CASE s.kind # "ScratchPad"
  <2>1. t = [s EXCEPT !.closed = how, !.dialogs = none, !.events = none, !.task = "Nothing"]
    BY <1>3 DEF Closed
  <2> HIDE DEF t, none
  <2>2. /\ t \in Editors /\ t.kind = s.kind /\ t.name = s.name /\ t.closed = how
        /\ SameText(t, s) /\ SameFiles(t, s) /\ SameProcess(t, s)
        /\ t.now = s.now /\ t.ran = <<>> /\ s.kind = "File"
    BY <1>0, <1>1, <1>3, <2>1 DEF Editors, SameText, SameFiles, SameProcess
  <2>3. NameInv(t) /\ TextInv(t) /\ ClosedInv(t) /\ RanInv(t)
    BY <1>1, <2>2 DEF Good, NameInv, TextInv, ClosedInv, RanInv, SameText, SameFiles
  <2>4. BinaryInv(t) /\ ProcessInv(t)
    BY <1>1, <2>2 DEF Good, BinaryInv, ProcessInv, SameFiles, SameProcess
  <2>5. ScratchInv(t)
    BY <1>1, <2>2 DEF Good, ScratchInv, Removed, InCompiler, SameFiles, SameProcess
  <2> QED
    BY <1>1, <2>2, <2>3, <2>4, <2>5 DEF Good, t
<1> QED
  BY <1>2, <1>3

LEMMA AfterSaveIsGood ==
  ASSUME NEW s, Ready(s), NEW saved \in BOOLEAN, NEW then \in {"menu", "close"},
         saved => s.kind = "File" /\ s.source[s.name].text = s.text
  PROVE  Good(AfterSave(s, saved, then))
<1>1. [question |-> "close", then |-> "close"] \in Questions
  BY DEF Questions
<1>2. Good(s) /\ Good(Ask(s, "close", "close"))
  BY <1>1, AskIsReady DEF Ready
<1>3. saved => Good(Closed(s, "saved"))
  BY ClosedIsGood
<1> QED
  BY <1>2, <1>3 DEF AfterSave

LEMMA NameIsAsked ==
  ASSUME NEW s, Ready(s), NEW then \in {"menu", "close"}
  PROVE  Good(Ask(s, "name", then))
<1>1. [question |-> "name", then |-> then] \in Questions
  BY DEF Questions
<1> QED
  BY <1>1, AskIsReady DEF Ready

LEMMA DoSaveIsGood ==
  ASSUME NEW s, Ready(s), NEW then \in {"menu", "close"}, NEW t \in DoSave(s, then)
  PROVE  Good(t)
<1>1. CASE s.kind = "ScratchPad"
  BY <1>1, NameIsAsked DEF DoSave
<1>2. CASE s.kind # "ScratchPad"
  <2>1. PICK r \in SaveFile(s) : t = AfterSave(r.then, r.saved, then)
    BY <1>2 DEF DoSave
  <2>2. /\ Ready(r.then) /\ SameWindow(r.then, s) /\ r.saved \in BOOLEAN
        /\ r.saved => r.then.source[r.then.name].text = r.then.text
    BY SaveFileIsReady
  <2>3. s.kind = "File"
    BY <1>2 DEF Ready, Good, Editors
  <2>4. r.then.kind = "File"
    BY <2>2, <2>3 DEF SameWindow
  <2> QED
    BY <2>1, <2>2, <2>4, AfterSaveIsGood
<1> QED
  BY <1>1, <1>2

LEMMA CloseIsGood ==
  ASSUME NEW s, Ready(s), NEW t \in OnCloseEditor(s)
  PROVE  Good(t)
<1>1. CASE s.kind = "ScratchPad" \/ s.modified
  <2>1. [question |-> "close", then |-> "close"] \in Questions
    BY DEF Questions
  <2> QED
    BY <1>1, <2>1, AskIsReady DEF OnCloseEditor, Ready
<1>2. CASE ~(s.kind = "ScratchPad" \/ s.modified)
  <2>1. t = Closed(s, "unasked")
    BY <1>2 DEF OnCloseEditor
  <2>2. s.kind = "File"
    BY <1>2 DEF Ready, Good, Editors
  <2>3. s.source[s.name].text = s.text \/ s.misplaced
    BY <1>2, <2>2 DEF Ready, Good, TextInv
  <2> QED
    BY <2>1, <2>2, <2>3, ClosedIsGood
<1> QED
  BY <1>1, <1>2

-----------------------------------------------------------------------------
(***************************************************************************)
(* Answers and events.                                                      *)
(***************************************************************************)
LEMMA GivesUpIsGood ==
  ASSUME NEW s, Ready(s), NEW then
  PROVE  Good(GivesUp(s, then))
BY ClearedIsReady DEF GivesUp, Ready

LEMMA RestIsGood ==
  ASSUME NEW s, Ready(s), Written(s), NEW then \in {"compile", "run"}, NEW t \in Rest(s, then)
  PROVE  Good(t)
<1>1. CASE then = "compile"
  BY <1>1, StartedIsReady DEF Rest, Ready
<1>2. CASE then = "run"
  BY <1>2, RunIsGood DEF Rest
<1> QED
  BY <1>1, <1>2

LEMMA AnswerIsGood ==
  ASSUME NEW s, Ready(s), s.dialogs # <<>>, NEW x \in Answers(s)
  PROVE  Good(x)
<1> DEFINE d == Head(s.dialogs)
           t == [s EXCEPT !.dialogs = Tail(@)]
<1>1. Ready(t) /\ d \in Questions
  BY TailIsReady
<1>2. x \in CASE d.question \in {"empty", "compiling"} -> {GivesUp(t, d.then)}
              [] d.question = "save" ->
                    {GivesUp(t, d.then)} \cup
                    UNION {IF r.saved THEN Rest(r.then, d.then) ELSE {GivesUp(r.then, d.then)}
                             : r \in SaveFile(t)}
              [] d.question = "name" ->
                    {AfterSave(t, FALSE, d.then)} \cup
                    UNION {DoSave(SetFileName(t, f), d.then) : f \in SourceFiles}
              [] d.question = "close" -> {t, Closed(t, "discarded")} \cup DoSave(t, "close")
  BY DEF Answers
<1> HIDE DEF d, t
<1>3. CASE d.question \in {"empty", "compiling"}
  BY <1>1, <1>2, <1>3, GivesUpIsGood
<1>4. CASE d.question = "save"
  <2>1. d.then \in {"compile", "run"}
    BY <1>1, <1>4 DEF Questions
  <2>2. CASE x = GivesUp(t, d.then)
    BY <1>1, <2>2, GivesUpIsGood
  <2>3. ASSUME NEW r \in SaveFile(t),
               x \in IF r.saved THEN Rest(r.then, d.then) ELSE {GivesUp(r.then, d.then)}
        PROVE  Good(x)
    <3>1. /\ Ready(r.then)
          /\ r.saved => r.then.source[r.then.name].text = r.then.text
      BY <1>1, SaveFileIsReady
    <3>2. CASE r.saved
      <4>1. Written(r.then)
        BY <3>1, <3>2 DEF Written
      <4> QED
        BY <2>1, <2>3, <3>1, <3>2, <4>1, RestIsGood
    <3>3. CASE ~r.saved
      BY <2>3, <3>1, <3>3, GivesUpIsGood
    <3> QED
      BY <3>2, <3>3
  <2>4. x \in {GivesUp(t, d.then)} \cup
              UNION {IF r.saved THEN Rest(r.then, d.then) ELSE {GivesUp(r.then, d.then)}
                       : r \in SaveFile(t)}
    BY <1>2, <1>4
  <2> QED
    BY <2>2, <2>3, <2>4
<1>5. CASE d.question = "name"
  <2>1. d.then \in {"menu", "close"}
    BY <1>1, <1>5 DEF Questions
  <2>2. CASE x = AfterSave(t, FALSE, d.then)
    BY <1>1, <2>1, <2>2, AfterSaveIsGood
  <2>3. ASSUME NEW f \in SourceFiles, x \in DoSave(SetFileName(t, f), d.then)
        PROVE  Good(x)
    <3>1. Ready(SetFileName(t, f))
      BY <1>1, RenamedIsReady
    <3> QED
      BY <2>1, <2>3, <3>1, DoSaveIsGood
  <2>4. x \in {AfterSave(t, FALSE, d.then)} \cup
              UNION {DoSave(SetFileName(t, f), d.then) : f \in SourceFiles}
    BY <1>2, <1>5
  <2> QED
    BY <2>2, <2>3, <2>4
<1>6. CASE d.question = "close"
  <2>1. x = t \/ x = Closed(t, "discarded") \/ x \in DoSave(t, "close")
    BY <1>2, <1>6
  <2>2. Good(t) /\ Good(Closed(t, "discarded"))
    BY <1>1, ClosedIsGood DEF Ready
  <2> QED
    BY <1>1, <2>1, <2>2, DoSaveIsGood
<1>7. d.question \in {"empty", "compiling", "save", "name", "close"}
  BY <1>1 DEF Questions
<1> QED
  BY <1>3, <1>4, <1>5, <1>6, <1>7

LEMMA CompileEventIsGood ==
  ASSUME NEW s, Ready(s), s.events # <<>>, NEW x \in OnCompileEvent(s)
  PROVE  Good(x)
<1> DEFINE t == [s EXCEPT !.events = Tail(@)]
<1>1. Ready(t)
  BY TailIsReady
<1>2. x \in DoRun(t) \/ x = ClearTask(t)
  BY DEF OnCompileEvent
<1> HIDE DEF t
<1> QED
  BY <1>1, <1>2, DoRunIsGood, ClearedIsReady DEF Ready

\* The process becomes another one, or none.
LEMMA ProcessIsGood ==
  ASSUME NEW s, Good(s), NEW process \in Seq(Processes), Len(process) <= 1,
         process # <<>> => /\ s.process # <<>> /\ process[1].name = s.process[1].name
                           /\ process[1].result = "none" => s.process[1].result = "none"
                           /\ \/ process[1].result # "none"
                              \/ process[1].text = s.source[process[1].name].text
  PROVE  Good([s EXCEPT !.process = process])
<1> DEFINE t == [s EXCEPT !.process = process]
<1>1. s \in Editors
  BY DEF Good
<1>2. /\ t \in Editors /\ SameText(t, s) /\ SameFiles(t, s) /\ SameWindow(t, s)
      /\ t.process = process /\ t.running = s.running
      /\ t.traces = s.traces /\ t.outlived = s.outlived /\ t.now = s.now /\ t.ran = s.ran
  BY <1>1 DEF Editors, SameText, SameFiles, SameWindow
<1> HIDE DEF t
<1>3. NameInv(t) /\ TextInv(t) /\ ClosedInv(t) /\ RanInv(t)
  BY <1>2 DEF Good, NameInv, TextInv, ClosedInv, RanInv, SameText, SameFiles, SameWindow
<1>4. BinaryInv(t)
  BY <1>2 DEF Good, BinaryInv, SameFiles
<1>5. ProcessInv(t)
  BY <1>2 DEF ProcessInv, SameFiles
<1>6. ScratchInv(t)
  BY <1>2 DEF Good, ScratchInv, Removed, InCompiler, SameFiles, SameWindow
<1> QED
  BY <1>2, <1>3, <1>4, <1>5, <1>6 DEF Good, t

LEMMA EndProcessIsGood ==
  ASSUME NEW s, Ready(s), NEW x \in OnEndProcess(s)
  PROVE  Good(x)
<1> DEFINE e == IF s.process[1].result = "binary" THEN "Complete" ELSE "Failed"
           process == <<>>
           t == [s EXCEPT !.process = process]
           y == [t EXCEPT !.events = Append(@, e)]
<1>1. s \in Editors /\ e \in {"Complete", "Failed"}
  BY DEF Ready, Good
<1>2. process \in Seq(Processes) /\ Len(process) <= 1
  OBVIOUS
<1>3. Good(t)
  <2>1. process = <<>> /\ Good(s)
    BY DEF Ready
  <2> HIDE DEF process
  <2> QED
    BY <1>2, <2>1, ProcessIsGood
<1>4. x = y
  BY <1>1 DEF OnEndProcess, Editors
<1>5. t.closed = "no" /\ t.ran = <<>>
  BY <1>1 DEF Ready, Editors
<1> HIDE DEF t, e
<1>6. Ready(t)
  BY <1>3, <1>5 DEF Ready
<1>7. Ready(y)
  BY <1>1, <1>6, QueuedIsReady
<1> QED
  BY <1>4, <1>7 DEF Ready

-----------------------------------------------------------------------------
(***************************************************************************)
(* The user's texts, the compiler, the programs and the clock.              *)
(***************************************************************************)
\* What a step begins with: what was run before is forgotten.
Quiet(s) == [s EXCEPT !.ran = <<>>]

LEMMA QuietIsGood ==
  ASSUME NEW s, Good(s)
  PROVE  LET t == Quiet(s)
         IN  /\ Good(t) /\ t.ran = <<>> /\ SameText(t, s) /\ SameFiles(t, s)
             /\ SameWindow(t, s) /\ SameProcess(t, s) /\ t.now = s.now /\ t.changes = s.changes
             /\ t.dialogs = s.dialogs /\ t.events = s.events
<1> DEFINE none == <<>>
           t == [s EXCEPT !.ran = none]
<1>1. s \in Editors /\ none \in Seq(Runs)
  BY DEF Good
<1>2. none = <<>>
  OBVIOUS
<1> HIDE DEF none
<1>3. /\ t \in Editors /\ t.ran = none /\ SameText(t, s) /\ SameFiles(t, s)
      /\ SameWindow(t, s) /\ SameProcess(t, s) /\ t.now = s.now /\ t.changes = s.changes
      /\ t.dialogs = s.dialogs /\ t.events = s.events
  BY <1>1 DEF Editors, SameText, SameFiles, SameWindow, SameProcess
<1> HIDE DEF t
<1>4. NameInv(t) /\ TextInv(t) /\ ClosedInv(t) /\ RanInv(t)
  BY <1>2, <1>3 DEF Good, NameInv, TextInv, ClosedInv, RanInv, SameText, SameFiles, SameWindow
<1>5. BinaryInv(t) /\ ProcessInv(t)
  BY <1>3 DEF Good, BinaryInv, ProcessInv, SameFiles, SameProcess
<1>6. ScratchInv(t)
  BY <1>3 DEF Good, ScratchInv, Removed, InCompiler, SameFiles, SameWindow, SameProcess
<1>7. Good(t)
  BY <1>3, <1>4, <1>5, <1>6 DEF Good
<1> QED
  BY <1>2, <1>3, <1>7 DEF t, none, Quiet

LEMMA TextIsGood ==
  ASSUME NEW s, Ready(s), NEW text \in Nat, NEW modified \in BOOLEAN, NEW changes \in Nat,
         ~modified => text = s.savepoint
  PROVE  Good([s EXCEPT !.text = text, !.modified = modified, !.changes = changes])
<1> DEFINE t == [s EXCEPT !.text = text, !.modified = modified, !.changes = changes]
<1>1. Good(s) /\ s \in Editors /\ s.closed = "no"
  BY DEF Ready, Good
<1>2. /\ t \in Editors /\ t.text = text /\ t.modified = modified
      /\ t.savepoint = s.savepoint /\ t.misplaced = s.misplaced
      /\ SameFiles(t, s) /\ SameWindow(t, s) /\ SameProcess(t, s)
      /\ t.now = s.now /\ t.ran = s.ran
  BY <1>1 DEF Editors, SameFiles, SameWindow, SameProcess
<1> HIDE DEF t
<1>3. NameInv(t) /\ TextInv(t) /\ ClosedInv(t) /\ RanInv(t)
  BY <1>1, <1>2 DEF Good, NameInv, TextInv, ClosedInv, RanInv, SameFiles, SameWindow
<1>4. BinaryInv(t) /\ ProcessInv(t)
  BY <1>1, <1>2 DEF Good, BinaryInv, ProcessInv, SameFiles, SameProcess
<1>5. ScratchInv(t)
  BY <1>1, <1>2 DEF Good, ScratchInv, Removed, InCompiler, SameFiles, SameWindow, SameProcess
<1> QED
  BY <1>2, <1>3, <1>4, <1>5 DEF Good, t

\* A field of the process is written.
LEMMA ReadIsGood ==
  ASSUME NEW s, Good(s), s.process # <<>>
  PROVE  Good([s EXCEPT !.process[1].text = s.source[s.process[1].name].text])
<1>1. PICK p \in Processes : s.process = <<p>> /\ s.process[1] = p
  BY ProcessFacts
<1> DEFINE text == s.source[p.name].text
           q == [p EXCEPT !.text = text]
           process == <<q>>
<1>2. s \in Editors /\ p.name \in Names /\ text \in Int
  <2>1. s \in Editors /\ p.name \in Names
    BY DEF Good, Processes
  <2>2. s.source \in [Names -> Cells]
    BY <2>1 DEF Editors
  <2> QED
    BY <2>1, <2>2 DEF Cells
<1>3. [s EXCEPT !.process[1].text = s.source[s.process[1].name].text]
        = [s EXCEPT !.process = process]
  <2>1. [s.process EXCEPT ![1] = q] = <<q>>
    BY <1>1
  <2> QED
    BY <1>1, <1>2, <2>1 DEF Editors
<1> HIDE DEF text
<1>4. q \in Processes /\ q.name = p.name /\ q.text = text /\ q.result = p.result
  BY <1>2 DEF Processes
<1> HIDE DEF q
<1>5. process \in Seq(Processes) /\ Len(process) <= 1 /\ process[1] = q
  BY <1>4
<1> HIDE DEF process
<1> QED
  BY <1>1, <1>3, <1>4, <1>5, ProcessIsGood DEF text

LEMMA ResultFacts ==
  ASSUME NEW s, Good(s), s.process # <<>>, NEW result \in {"binary", "errors"}
  PROVE  \E process \in Seq(Processes) :
           /\ Len(process) <= 1 /\ process # <<>>
           /\ process[1].name = s.process[1].name /\ process[1].result = result
           /\ [s EXCEPT !.process[1].result = result] = [s EXCEPT !.process = process]
<1>1. PICK p \in Processes : s.process = <<p>> /\ s.process[1] = p
  BY ProcessFacts
<1> DEFINE q == [p EXCEPT !.result = result]
           process == <<q>>
<1>2. s \in Editors
  BY DEF Good
<1>3. [s EXCEPT !.process[1].result = result] = [s EXCEPT !.process = process]
  <2>1. [s.process EXCEPT ![1] = q] = <<q>>
    BY <1>1
  <2> QED
    BY <1>1, <1>2, <2>1 DEF Editors
<1>4. q \in Processes /\ q.name = p.name /\ q.result = result
  BY DEF Processes
<1> HIDE DEF q
<1>5. process \in Seq(Processes) /\ Len(process) <= 1 /\ process[1] = q /\ process # <<>>
  BY <1>4
<1> HIDE DEF process
<1> QED
  BY <1>1, <1>3, <1>4, <1>5

LEMMA FailedIsGood ==
  ASSUME NEW s, Good(s), s.process # <<>>
  PROVE  Good([s EXCEPT !.process[1].result = "errors"])
<1>1. PICK process \in Seq(Processes) :
        /\ Len(process) <= 1 /\ process # <<>>
        /\ process[1].name = s.process[1].name /\ process[1].result = "errors"
        /\ [s EXCEPT !.process[1].result = "errors"] = [s EXCEPT !.process = process]
  BY ResultFacts
<1> QED
  BY <1>1, ProcessIsGood

LEMMA CompiledIsGood ==
  ASSUME NEW s, Good(s), s.process # <<>>, s.process[1].result = "none",
         s.process[1].text # Unread
  PROVE  Good(Compiled(s))
<1>1. PICK p \in Processes : s.process = <<p>> /\ s.process[1] = p
  BY ProcessFacts
<1>2. PICK process \in Seq(Processes) :
        /\ Len(process) <= 1 /\ process # <<>>
        /\ process[1].name = s.process[1].name /\ process[1].result = "binary"
        /\ [s EXCEPT !.process[1].result = "binary"] = [s EXCEPT !.process = process]
  BY ResultFacts
<1> DEFINE u == [s EXCEPT !.process = process]
           cell == [text |-> p.text, time |-> s.now]
           binary == [s.binary EXCEPT ![p.name] = cell]
           raced == IF p.raced THEN s.raced \cup {p.name} ELSE s.raced \ {p.name}
           t == [u EXCEPT !.binary = binary, !.raced = raced]
<1>3. /\ s \in Editors /\ p.name \in Names /\ p.text \in Int /\ s.now \in Nat
      /\ s.source \in [Names -> Cells] /\ s.binary \in [Names -> Cells]
      /\ s.raced \subseteq Names
  <2>1. s \in Editors /\ p.name \in Names /\ p.text \in Int
    BY DEF Good, Processes
  <2> QED
    BY <2>1 DEF Editors
<1>4. Compiled(s) = t
  <2>1. Compiled(s) = [[s EXCEPT !.process[1].result = "binary"]
                          EXCEPT !.binary = binary, !.raced = raced]
    BY <1>1, <1>3 DEF Compiled, Editors
  <2> QED
    BY <1>2, <2>1
<1>5. cell \in Cells
  BY <1>3 DEF Cells
<1>6. cell.text = p.text /\ cell.time = s.now
  OBVIOUS
<1> HIDE DEF cell
<1>7. /\ binary \in [Names -> Cells] /\ binary[p.name] = cell
      /\ \A f \in Names : f # p.name => binary[f] = s.binary[f]
  BY <1>3, <1>5
<1>8. /\ raced \subseteq Names /\ (p.raced => p.name \in raced)
      /\ \A f \in Names : f # p.name => (f \in raced <=> f \in s.raced)
  BY <1>3
<1> HIDE DEF binary, raced
<1>9. /\ t \in Editors /\ SameText(t, s) /\ SameWindow(t, s)
      /\ t.source = s.source /\ t.binary = binary /\ t.raced = raced
      /\ t.process = process /\ t.running = s.running
      /\ t.traces = s.traces /\ t.outlived = s.outlived /\ t.now = s.now /\ t.ran = s.ran
  BY <1>3, <1>7, <1>8 DEF Editors, SameText, SameWindow
<1> HIDE DEF t
<1>10. NameInv(t) /\ TextInv(t) /\ ClosedInv(t) /\ RanInv(t)
  BY <1>9 DEF Good, NameInv, TextInv, ClosedInv, RanInv, SameText, SameWindow
<1>11. BinaryInv(t)
  <2> SUFFICES ASSUME NEW f \in Names
               PROVE  /\ t.binary[f].time <= t.now
                      /\ \/ t.binary[f] = Absent \/ t.source[f] = Absent \/ f \in t.raced
                         \/ t.binary[f].time < t.source[f].time
                         \/ t.binary[f].text = t.source[f].text
    BY DEF BinaryInv
  <2>1. CASE f # p.name
    BY <1>7, <1>8, <1>9, <2>1 DEF Good, BinaryInv
  <2>2. CASE f = p.name
    <3>1. p.raced \/ s.source[f] = Absent \/ p.text = s.source[f].text
      BY <1>1, <2>2 DEF Good, ProcessInv
    <3>2. t.binary[f].time <= t.now
      BY <1>3, <1>6, <1>7, <1>9, <2>2
    <3> QED
      BY <1>6, <1>7, <1>8, <1>9, <2>2, <3>1, <3>2
  <2> QED
    BY <2>1, <2>2
<1>12. ProcessInv(t)
  BY <1>2, <1>9 DEF ProcessInv
<1>13. ScratchInv(t)
  <2>1. ASSUME s.kind = "File" \/ s.closed # "no", ~s.outlived
        PROVE  Removed(t)
    <3>1. Removed(s)
      BY <2>1 DEF Good, ScratchInv
    <3>2. p.name # Tmp /\ Tmp \in Names
      BY <1>1, <3>1 DEF Removed, InCompiler, Names
    <3>3. ~InCompiler(t, Tmp)
      BY <1>2, <1>9 DEF InCompiler
    <3> QED
      BY <1>7, <1>9, <3>1, <3>2, <3>3 DEF Removed
  <2> QED
    BY <1>9, <2>1 DEF ScratchInv, SameWindow
<1> QED
  BY <1>4, <1>9, <1>10, <1>11, <1>12, <1>13 DEF Good

LEMMA TracedIsGood ==
  ASSUME NEW s, Good(s), NEW n \in s.running
  PROVE  Good([s EXCEPT !.running = @ \ {n}, !.traces = @ \cup {n}])
<1> DEFINE running == s.running \ {n}
           traces == s.traces \cup {n}
           t == [s EXCEPT !.running = running, !.traces = traces]
<1>1. s \in Editors
  BY DEF Good
<1>2. s.running \subseteq Names /\ s.traces \subseteq Names
  BY <1>1 DEF Editors
<1>3. running \subseteq Names /\ traces \subseteq Names
  BY <1>2
<1>4. Tmp \notin s.running => (Tmp \notin running /\ (Tmp \in traces => Tmp \in s.traces))
  OBVIOUS
<1>5. [s EXCEPT !.running = @ \ {n}, !.traces = @ \cup {n}] = t
  BY <1>1 DEF Editors
<1> HIDE DEF running, traces
<1>6. /\ t \in Editors /\ SameText(t, s) /\ SameFiles(t, s) /\ SameWindow(t, s)
      /\ t.process = s.process /\ t.running = running
      /\ t.traces = traces /\ t.outlived = s.outlived /\ t.now = s.now /\ t.ran = s.ran
  BY <1>1, <1>3 DEF Editors, SameText, SameFiles, SameWindow
<1> HIDE DEF t
<1>7. NameInv(t) /\ TextInv(t) /\ ClosedInv(t) /\ RanInv(t)
  BY <1>6 DEF Good, NameInv, TextInv, ClosedInv, RanInv, SameText, SameFiles, SameWindow
<1>8. BinaryInv(t) /\ ProcessInv(t)
  BY <1>6 DEF Good, BinaryInv, ProcessInv, SameFiles
<1>9. ScratchInv(t)
  BY <1>4, <1>6 DEF Good, ScratchInv, Removed, InCompiler, SameFiles, SameWindow
<1> QED
  BY <1>5, <1>6, <1>7, <1>8, <1>9 DEF Good

LEMMA TickIsGood ==
  ASSUME NEW s, Good(s)
  PROVE  Good([s EXCEPT !.now = @ + 1])
<1> DEFINE now == s.now + 1
           t == [s EXCEPT !.now = now]
<1>1. s \in Editors
  BY DEF Good
<1>2. s.now \in Nat /\ s.binary \in [Names -> Cells]
  BY <1>1 DEF Editors
<1>3. now \in Nat /\ \A i \in Int : i <= s.now => i <= now
  BY <1>2
<1> HIDE DEF now
<1>4. /\ t \in Editors /\ SameText(t, s) /\ SameFiles(t, s) /\ SameWindow(t, s)
      /\ SameProcess(t, s) /\ t.now = now /\ t.ran = s.ran
  BY <1>1, <1>3 DEF Editors, SameText, SameFiles, SameWindow, SameProcess
<1> HIDE DEF t
<1>5. NameInv(t) /\ TextInv(t) /\ ClosedInv(t) /\ RanInv(t)
  BY <1>4 DEF Good, NameInv, TextInv, ClosedInv, RanInv, SameText, SameFiles, SameWindow
<1>6. BinaryInv(t)
  <2>1. \A f \in Names : s.binary[f].time \in Int
    BY <1>2 DEF Cells
  <2> QED
    BY <1>3, <1>4, <2>1 DEF Good, BinaryInv, SameFiles
<1>7. ProcessInv(t) /\ ScratchInv(t)
  BY <1>4 DEF Good, ProcessInv, ScratchInv, Removed, InCompiler, SameFiles, SameWindow, SameProcess
<1> QED
  BY <1>4, <1>5, <1>6, <1>7 DEF Good, t, now

-----------------------------------------------------------------------------
(***************************************************************************)
(* The specification.                                                       *)
(***************************************************************************)
LEMMA EditorInit == Init => EditorInv
<1> DEFINE s == NewEditor
           source == [f \in Names |-> IF f = Tmp THEN Absent
                                      ELSE [text |-> MaxChanges + 1, time |-> 0]]
           binary == [f \in Names |-> IF f = Tmp THEN [text |-> 0, time |-> 0] ELSE Absent]
<1>1. Tmp \in Names /\ MaxChanges + 1 \in Nat /\ Tmp \notin SourceFiles
  BY EditorAssumption DEF Names
<1>2. source \in [Names -> Cells] /\ binary \in [Names -> Cells]
  BY <1>1 DEF Cells, Absent
<1>3. /\ \A f \in Names : binary[f].time <= 0
      /\ binary[Tmp].text = 0 /\ source[Tmp] = Absent
      /\ \A f \in Names : f = Tmp \/ binary[f] = Absent
      /\ \A f \in SourceFiles : source[f].text = MaxChanges + 1
  <2>1. source[Tmp] = Absent /\ binary[Tmp] = [text |-> 0, time |-> 0]
    BY <1>1
  <2>2. \A f \in Names : f = Tmp \/ binary[f] = Absent
    OBVIOUS
  <2>3. \A f \in SourceFiles : source[f] = [text |-> MaxChanges + 1, time |-> 0]
    BY <1>1 DEF Names
  <2> HIDE DEF source, binary
  <2>4. Absent.time <= 0
    BY DEF Absent
  <2>5. binary[Tmp].time <= 0 /\ binary[Tmp].text = 0
    BY <2>1
  <2>6. \A f \in Names : binary[f].time <= 0
    BY <2>2, <2>4, <2>5
  <2> QED
    BY <2>1, <2>2, <2>3, <2>5, <2>6
<1>4. s.source = source /\ s.binary = binary
  BY DEF NewEditor
<1> HIDE DEF source, binary
<1>5. <<>> \in Seq(Processes) /\ <<>> \in Seq({"Complete", "Failed"}) /\ <<>> \in Seq(Questions)
      /\ <<>> \in Seq(Runs) /\ Len(<<>>) <= 1
  OBVIOUS
<1>6. /\ s.text = 0 /\ s.savepoint = 0 /\ s.modified = FALSE /\ s.kind = "ScratchPad"
      /\ s.name = Tmp /\ s.traces = {} /\ s.running = {} /\ s.process = <<>>
      /\ s.now = 0 /\ s.closed = "no" /\ s.ran = <<>> /\ s.raced = {} /\ s.misplaced = FALSE
      /\ s.outlived = FALSE
  BY DEF NewEditor
<1>7. s \in Editors
  BY <1>1, <1>2, <1>4, <1>5 DEF NewEditor, Editors, source, binary
<1> HIDE DEF s
<1>8. NameInv(s) /\ TextInv(s) /\ ClosedInv(s) /\ RanInv(s) /\ ScratchInv(s) /\ ProcessInv(s)
  BY <1>5, <1>6 DEF NameInv, TextInv, ClosedInv, RanInv, ScratchInv, ProcessInv
<1>9. BinaryInv(s)
  BY <1>3, <1>4, <1>6 DEF BinaryInv
<1>10. Ready(s)
  BY <1>6, <1>7, <1>8, <1>9 DEF Ready, Good
<1>11. ASSUME NEW f \in SourceFiles
       PROVE  Good(OpenEditor(s, f))
  <2> DEFINE u == SetFileName(s, f)
             text == s.source[f].text
             t == [u EXCEPT !.text = text, !.savepoint = text, !.misplaced = FALSE]
  <2>1. OpenEditor(s, f) = t
    BY DEF OpenEditor
  <2>2. Ready(u)
    BY <1>10, RenamedIsReady
  <2>3. f \in Names /\ f # Tmp /\ text \in Nat
    BY <1>1, <1>3, <1>4 DEF Names
  <2>4. /\ u.kind = "File" /\ u.name = f /\ u.source[f] = s.source[f] /\ u.modified = s.modified
    BY <1>2, <1>4, <1>6, <1>7, <2>3 DEF SetFileName, cleanupScratchPadTemporaries, Editors
  <2>5. u.source[f].text = text
    BY <2>4
  <2> HIDE DEF u, text
  <2>6. u \in Editors /\ Good(u) /\ u.closed = "no"
    BY <2>2 DEF Ready, Good
  <2>7. /\ t \in Editors /\ t.text = text /\ t.savepoint = text /\ t.misplaced = FALSE
        /\ SameFiles(t, u) /\ SameWindow(t, u) /\ SameProcess(t, u)
        /\ t.now = u.now /\ t.ran = u.ran
    BY <2>3, <2>6 DEF Editors, SameFiles, SameWindow, SameProcess
  <2> HIDE DEF t
  <2>8. NameInv(t) /\ TextInv(t) /\ ClosedInv(t) /\ RanInv(t)
    BY <2>4, <2>5, <2>6, <2>7
       DEF Good, NameInv, TextInv, ClosedInv, RanInv, SameFiles, SameWindow
  <2>9. BinaryInv(t) /\ ProcessInv(t)
    BY <2>6, <2>7 DEF Good, BinaryInv, ProcessInv, SameFiles, SameProcess
  <2>10. ScratchInv(t)
    BY <2>6, <2>7 DEF Good, ScratchInv, Removed, InCompiler, SameFiles, SameWindow, SameProcess
  <2> QED
    BY <2>1, <2>7, <2>8, <2>9, <2>10 DEF Good
<1> QED
  BY <1>10, <1>11 DEF Init, EditorInv, Ready, s

LEMMA EditorNext == EditorInv /\ [Next]_editor => EditorInv'
<1> SUFFICES ASSUME EditorInv, [Next]_editor PROVE Good(editor')
  BY DEF EditorInv
<1> DEFINE s == Quiet(editor)
<1>1. /\ Good(s) /\ s.ran = <<>> /\ SameText(s, editor) /\ SameFiles(s, editor)
      /\ SameWindow(s, editor) /\ SameProcess(s, editor)
      /\ s.changes = editor.changes /\ s.dialogs = editor.dialogs /\ s.events = editor.events
  BY QuietIsGood DEF EditorInv
<1>2. IsOpen => Ready(s)
  BY <1>1 DEF IsOpen, Ready, SameWindow
<1>3. s.process = editor.process /\ s.running = editor.running
  BY <1>1 DEF SameProcess
<1>4. s.text \in Nat /\ s.savepoint \in Nat /\ s.changes \in Nat /\ s \in Editors
  BY <1>1 DEF Good, Editors
<1>5. CASE Edit
  <2> DEFINE text == s.changes + 1
  <2>1. editor' = [s EXCEPT !.text = s.changes + 1, !.modified = TRUE, !.changes = @ + 1] /\ Ready(s)
    BY <1>2, <1>5 DEF Edit, Step, TakesInput, Quiet
  <2> HIDE DEF s
  <2>2. editor' = [s EXCEPT !.text = text, !.modified = TRUE, !.changes = text]
    BY <1>4, <2>1 DEF Editors
  <2>3. text \in Nat
    BY <1>4
  <2> HIDE DEF text
  <2>4. Good([s EXCEPT !.text = text, !.modified = TRUE, !.changes = text])
    BY <2>1, <2>3, TextIsGood
  <2> QED
    BY <2>2, <2>4
<1>6. CASE Undo
  <2>1. editor' = [s EXCEPT !.text = s.savepoint, !.modified = FALSE] /\ Ready(s)
    BY <1>2, <1>6 DEF Undo, Step, TakesInput, Quiet
  <2> HIDE DEF s
  <2> DEFINE text == s.savepoint
             changes == s.changes
  <2>2. editor' = [s EXCEPT !.text = text, !.modified = FALSE, !.changes = changes]
    BY <1>4, <2>1 DEF Editors
  <2>3. text \in Nat /\ changes \in Nat /\ text = s.savepoint
    BY <1>4
  <2> HIDE DEF text, changes
  <2>4. Good([s EXCEPT !.text = text, !.modified = FALSE, !.changes = changes])
    BY <2>1, <2>3, TextIsGood
  <2> QED
    BY <2>2, <2>4
<1>7. CASE Command
  <2>1. /\ Ready(s)
        /\ \/ editor' \in DoCompile(s) \/ editor' \in DoRun(s) \/ editor' \in DoSaveAs(s)
           \/ editor' \in OnCloseEditor(s) \/ editor' \in DoSave(s, "menu")
    BY <1>2, <1>7 DEF Command, Step, TakesInput, Quiet
  <2> HIDE DEF s
  <2>2. CASE editor' \in DoCompile(s)
    BY <2>1, <2>2, CompileIsReady DEF Ready
  <2>3. CASE editor' \in DoRun(s)
    BY <2>1, <2>3, DoRunIsGood
  <2>4. CASE editor' \in DoSaveAs(s)
    BY <2>1, <2>4, NameIsAsked DEF DoSaveAs
  <2>5. CASE editor' \in OnCloseEditor(s)
    BY <2>1, <2>5, CloseIsGood
  <2>6. CASE editor' \in DoSave(s, "menu")
    BY <2>1, <2>6, DoSaveIsGood
  <2> QED
    BY <2>1, <2>2, <2>3, <2>4, <2>5, <2>6
<1>8. CASE Answer
  <2>1. Ready(s) /\ editor' \in Answers(s) /\ s.dialogs # <<>>
    BY <1>1, <1>2, <1>8 DEF Answer, Step, Quiet
  <2> HIDE DEF s
  <2> QED
    BY <2>1, AnswerIsGood
<1>9. CASE Dispatch
  <2>1. /\ Ready(s)
        /\ \/ editor' \in OnCompileEvent(s) /\ s.events # <<>>
           \/ editor' \in OnEndProcess(s)
    BY <1>1, <1>2, <1>9 DEF Dispatch, Step, Quiet
  <2> HIDE DEF s
  <2> QED
    BY <2>1, CompileEventIsGood, EndProcessIsGood
<1>10. CASE CompilerReads
  <2>1. /\ s.process # <<>>
        /\ editor' = [s EXCEPT !.process[1].text = s.source[s.process[1].name].text]
    BY <1>3, <1>10 DEF CompilerReads, Step, Quiet
  <2> HIDE DEF s
  <2> QED
    BY <1>1, <2>1, ReadIsGood
<1>11. CASE CompilerEnds
  <2>1. /\ s.process # <<>> /\ s.process[1].result = "none" /\ s.process[1].text # Unread
        /\ \/ editor' = [s EXCEPT !.process[1].result = "errors"]
           \/ editor' = Compiled(s)
    BY <1>3, <1>11 DEF CompilerEnds, Step, Quiet
  <2> HIDE DEF s
  <2> QED
    BY <1>1, <2>1, FailedIsGood, CompiledIsGood
<1>12. CASE ProgramEnds
  <2>1. PICK n \in s.running : editor' = [s EXCEPT !.running = @ \ {n}, !.traces = @ \cup {n}]
    BY <1>3, <1>12 DEF ProgramEnds, Step, Quiet
  <2> HIDE DEF s
  <2> QED
    BY <1>1, <2>1, TracedIsGood
<1>13. CASE Tick
  <2>1. editor' = [s EXCEPT !.now = @ + 1]
    BY <1>13 DEF Tick, Step, Quiet
  <2> HIDE DEF s
  <2> QED
    BY <1>1, <2>1, TickIsGood
<1>14. CASE UNCHANGED editor
  BY <1>14 DEF EditorInv
<1> QED
  BY <1>5, <1>6, <1>7, <1>8, <1>9, <1>10, <1>11, <1>12, <1>13, <1>14 DEF Next

(***************************************************************************)
(* What DoRun (SourceEditor.cpp) runs was compiled from the text that the   *)
(* window shows, whatever the user, the compiler and the questions that     *)
(* are still open did before, but for the cases that RunsWhatIsShown        *)
(* excuses.                                                                 *)
(***************************************************************************)
THEOREM RunIsOfTheText == Spec => []RunsWhatIsShown
<1>1. EditorInv => RunsWhatIsShown
  BY DEF EditorInv, Good, RanInv, RunsWhatIsShown
<1> QED
  BY <1>1, EditorInit, EditorNext, PTL DEF Spec

(***************************************************************************)
(* A window that closes (OnClose, ~SourceEditorFile) without the user       *)
(* giving its text up has written it to its file, and of a scratch pad      *)
(* nothing is left, but for what ClosingIsClean excuses.                    *)
(***************************************************************************)
THEOREM ClosingLosesNothing == Spec => []ClosingIsClean
<1>1. EditorInv => ClosingIsClean
  BY DEF EditorInv, Good, ClosedInv, ScratchInv, Removed, ClosingIsClean, ClosingKeepsText,
         ScratchPadIsRemoved, IsOpen
<1> QED
  BY <1>1, EditorInit, EditorNext, PTL DEF Spec

=============================================================================
