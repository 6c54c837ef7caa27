----------------------------- MODULE Viewer_proofs -----------------------------
(***************************************************************************)
(* Proofs about parts of the trace viewer: the submitter of recordings, the *)
(* replay of recordings, saved traces, and the graph with its worker.  Each *)
(* part is proved by itself: the parts share no variables.                  *)
(***************************************************************************)
EXTENDS GraphViewer, ActionReplay, RecordingSubmitter, TraceArchive,
        FiniteSetTheorems, SequenceTheorems, TLAPS

--------------------------------------------------------------------------------
(***************************************************************************)
(* The submitter.  The inductive invariant: a file is removed only after    *)
(* the server answered a transfer of it; a transfer that began with a whole *)
(* file sends the whole file; and one that is being written is never whole. *)
(***************************************************************************)
SubmitTypes ==
    /\ disk \in [Archives -> {"none", "part", "whole"}]
    /\ received \subseteq Archives /\ refused \subseteq Archives
    /\ finished \subseteq Archives /\ early \subseteq Archives
    /\ writer \in [archive : Archives \cup {NoArchive}, told : BOOLEAN]
    /\ submitter \in [pc : {"list", "next", "send", "transfer", "remove", "check", "waiting", "woken", "exited"},
                      file : Archives \cup {NoArchive}, content : {"none", "part", "whole"}]
    /\ AllRecordingFiles \in Seq(Archives) /\ NewRecordings \in Seq(Archives)
    /\ submitter.pc \in {"send", "transfer", "remove"} => submitter.file \in Archives

WriterInv ==
    writer.archive # NoArchive =>
        /\ writer.archive \in Archives /\ disk[writer.archive] # "whole"
        /\ writer.archive \in early \/ (writer.archive \notin finished /\ disk[writer.archive] = "part")

TransferInv ==
    submitter.pc = "transfer" =>
        /\ submitter.content \in {"part", "whole"}
        /\ submitter.content = "whole" => disk[submitter.file] = "whole" /\ writer.archive # submitter.file

RemoveInv ==
    submitter.pc = "remove" =>
        submitter.file \in early \/
            (writer.archive # submitter.file /\ submitter.file \in received \cup refused)

SubmitInv == SubmitTypes /\ WriterInv /\ TransferInv /\ RemoveInv /\ NothingIsLost

LEMMA SubmitStep == SubmitInv /\ [SubmitNext]_submitVars => SubmitInv'
<1> SUFFICES ASSUME SubmitInv, [SubmitNext]_submitVars
             PROVE  SubmitInv'
  OBVIOUS
<1> USE NoArchiveIsNone DEF SubmitInv, NoArchive, worker_, shared, server, gui_
<1>1. ASSUME NEW a \in Archives, CreateArchive(a)
      PROVE  SubmitInv'
  <2>T. SubmitTypes'
    BY <1>1 DEF CreateArchive, SubmitTypes, WriterInv
  <2>W. WriterInv'
    BY <1>1 DEF CreateArchive, SubmitTypes, WriterInv, NothingIsLost, RemoveInv
  <2>S. TransferInv'
    BY <1>1 DEF CreateArchive, SubmitTypes, WriterInv, TransferInv, RemoveInv
  <2>R. RemoveInv'
    BY <1>1 DEF CreateArchive, SubmitTypes, WriterInv, TransferInv, RemoveInv
  <2>N. NothingIsLost'
    BY <1>1 DEF CreateArchive, SubmitTypes, WriterInv, TransferInv, RemoveInv, NothingIsLost
  <2> QED
    BY <2>T, <2>W, <2>S, <2>R, <2>N
<1>2. CASE notifyOfNewRecording
  <2>1. NewRecordings' \in Seq(Archives)
    BY <1>2 DEF notifyOfNewRecording, SubmitTypes, WriterInv
  <2>T. SubmitTypes'
    BY <1>2, <2>1 DEF notifyOfNewRecording, SubmitTypes, WriterInv
  <2>W. WriterInv'
    BY <1>2 DEF notifyOfNewRecording, SubmitTypes, WriterInv, NothingIsLost, RemoveInv
  <2>S. TransferInv'
    BY <1>2 DEF notifyOfNewRecording, SubmitTypes, WriterInv, TransferInv, RemoveInv
  <2>R. RemoveInv'
    BY <1>2 DEF notifyOfNewRecording, SubmitTypes, WriterInv, TransferInv, RemoveInv
  <2>N. NothingIsLost'
    BY <1>2 DEF notifyOfNewRecording, SubmitTypes, WriterInv, TransferInv, RemoveInv, NothingIsLost
  <2> QED
    BY <2>T, <2>W, <2>S, <2>R, <2>N
<1>3. CASE CloseArchive
  <2>T. SubmitTypes'
    BY <1>3 DEF CloseArchive, SubmitTypes, WriterInv
  <2>W. WriterInv'
    BY <1>3 DEF CloseArchive, SubmitTypes, WriterInv, NothingIsLost, RemoveInv
  <2>S. TransferInv'
    BY <1>3 DEF CloseArchive, SubmitTypes, WriterInv, TransferInv, RemoveInv
  <2>R. RemoveInv'
    BY <1>3 DEF CloseArchive, SubmitTypes, WriterInv, TransferInv, RemoveInv
  <2>N. NothingIsLost'
    BY <1>3 DEF CloseArchive, SubmitTypes, WriterInv, TransferInv, RemoveInv, NothingIsLost
  <2> QED
    BY <2>T, <2>W, <2>S, <2>R, <2>N
<1>4. CASE ArchiveFails
  <2>T. SubmitTypes'
    BY <1>4 DEF ArchiveFails, SubmitTypes, WriterInv
  <2>W. WriterInv'
    BY <1>4 DEF ArchiveFails, SubmitTypes, WriterInv, NothingIsLost, RemoveInv
  <2>S. TransferInv'
    BY <1>4 DEF ArchiveFails, SubmitTypes, WriterInv, TransferInv, RemoveInv
  <2>R. RemoveInv'
    BY <1>4 DEF ArchiveFails, SubmitTypes, WriterInv, TransferInv, RemoveInv
  <2>N. NothingIsLost'
    BY <1>4 DEF ArchiveFails, SubmitTypes, WriterInv, TransferInv, RemoveInv, NothingIsLost
  <2> QED
    BY <2>T, <2>W, <2>S, <2>R, <2>N
<1>5. CASE ShutDown
  <2>T. SubmitTypes'
    BY <1>5 DEF ShutDown, SubmitTypes, WriterInv
  <2>W. WriterInv'
    BY <1>5 DEF ShutDown, SubmitTypes, WriterInv, NothingIsLost, RemoveInv
  <2>S. TransferInv'
    BY <1>5 DEF ShutDown, SubmitTypes, WriterInv, TransferInv, RemoveInv
  <2>R. RemoveInv'
    BY <1>5 DEF ShutDown, SubmitTypes, WriterInv, TransferInv, RemoveInv
  <2>N. NothingIsLost'
    BY <1>5 DEF ShutDown, SubmitTypes, WriterInv, TransferInv, RemoveInv, NothingIsLost
  <2> QED
    BY <2>T, <2>W, <2>S, <2>R, <2>N
<1>6. CASE JoinSubmitter
  <2>T. SubmitTypes'
    BY <1>6 DEF JoinSubmitter, Forget, Worker, SubmitTypes, WriterInv
  <2>W. WriterInv'
    BY <1>6 DEF JoinSubmitter, Forget, Worker, SubmitTypes, WriterInv, NothingIsLost, RemoveInv
  <2>S. TransferInv'
    BY <1>6 DEF JoinSubmitter, Forget, Worker, SubmitTypes, WriterInv, TransferInv, RemoveInv
  <2>R. RemoveInv'
    BY <1>6 DEF JoinSubmitter, Forget, Worker, SubmitTypes, WriterInv, TransferInv, RemoveInv
  <2>N. NothingIsLost'
    BY <1>6 DEF JoinSubmitter, Forget, Worker, SubmitTypes, WriterInv, TransferInv, RemoveInv, NothingIsLost
  <2> QED
    BY <2>T, <2>W, <2>S, <2>R, <2>N
<1>7. CASE Killed
  <2>T. SubmitTypes'
    BY <1>7 DEF Killed, Forget, Worker, SubmitTypes, WriterInv
  <2>W. WriterInv'
    BY <1>7 DEF Killed, Forget, Worker, SubmitTypes, WriterInv, NothingIsLost, RemoveInv
  <2>S. TransferInv'
    BY <1>7 DEF Killed, Forget, Worker, SubmitTypes, WriterInv, TransferInv, RemoveInv
  <2>R. RemoveInv'
    BY <1>7 DEF Killed, Forget, Worker, SubmitTypes, WriterInv, TransferInv, RemoveInv
  <2>N. NothingIsLost'
    BY <1>7 DEF Killed, Forget, Worker, SubmitTypes, WriterInv, TransferInv, RemoveInv, NothingIsLost
  <2> QED
    BY <2>T, <2>W, <2>S, <2>R, <2>N
<1>8. CASE StartViewer
  <2>T. SubmitTypes'
    BY <1>8 DEF StartViewer, Worker, SubmitTypes, WriterInv
  <2>W. WriterInv'
    BY <1>8 DEF StartViewer, Worker, SubmitTypes, WriterInv, NothingIsLost, RemoveInv
  <2>S. TransferInv'
    BY <1>8 DEF StartViewer, Worker, SubmitTypes, WriterInv, TransferInv, RemoveInv
  <2>R. RemoveInv'
    BY <1>8 DEF StartViewer, Worker, SubmitTypes, WriterInv, TransferInv, RemoveInv
  <2>N. NothingIsLost'
    BY <1>8 DEF StartViewer, Worker, SubmitTypes, WriterInv, TransferInv, RemoveInv, NothingIsLost
  <2> QED
    BY <2>T, <2>W, <2>S, <2>R, <2>N
<1>9. CASE WorkerWithoutCURL
  <2>T. SubmitTypes'
    BY <1>9 DEF WorkerWithoutCURL, Worker, SubmitTypes, WriterInv
  <2>W. WriterInv'
    BY <1>9 DEF WorkerWithoutCURL, Worker, SubmitTypes, WriterInv, NothingIsLost, RemoveInv
  <2>S. TransferInv'
    BY <1>9 DEF WorkerWithoutCURL, Worker, SubmitTypes, WriterInv, TransferInv, RemoveInv
  <2>R. RemoveInv'
    BY <1>9 DEF WorkerWithoutCURL, Worker, SubmitTypes, WriterInv, TransferInv, RemoveInv
  <2>N. NothingIsLost'
    BY <1>9 DEF WorkerWithoutCURL, Worker, SubmitTypes, WriterInv, TransferInv, RemoveInv, NothingIsLost
  <2> QED
    BY <2>T, <2>W, <2>S, <2>R, <2>N
<1>10. CASE WorkerGetAllRecordingFiles
  <2> DEFINE there == {a \in Archives : disk[a] # "none"}
  <2>1. AllRecordingFiles' \in Seq(Archives)
    <3>1. Cardinality(there) \in Nat
      BY SubmitterBounds, FS_Subset, FS_CardinalityType
    <3>2. AllRecordingFiles' \in [1..Cardinality(there) -> there]
      BY <1>10 DEF WorkerGetAllRecordingFiles
    <3>3. AllRecordingFiles' \in [1..Cardinality(there) -> Archives]
      BY <3>2
    <3>4. PICK n \in Nat : AllRecordingFiles' \in [1..n -> Archives]
      BY <3>1, <3>3
    <3> QED
      BY <3>4, SeqDef
  <2>T. SubmitTypes'
    BY <1>10, <2>1 DEF WorkerGetAllRecordingFiles, Worker, SubmitTypes, WriterInv
  <2>W. WriterInv'
    BY <1>10 DEF WorkerGetAllRecordingFiles, Worker, SubmitTypes, WriterInv, NothingIsLost, RemoveInv
  <2>S. TransferInv'
    BY <1>10 DEF WorkerGetAllRecordingFiles, Worker, SubmitTypes, WriterInv, TransferInv, RemoveInv
  <2>R. RemoveInv'
    BY <1>10 DEF WorkerGetAllRecordingFiles, Worker, SubmitTypes, WriterInv, TransferInv, RemoveInv
  <2>N. NothingIsLost'
    BY <1>10 DEF WorkerGetAllRecordingFiles, Worker, SubmitTypes, WriterInv, TransferInv, RemoveInv, NothingIsLost
  <2> QED
    BY <2>T, <2>W, <2>S, <2>R, <2>N
<1>11. CASE PopRecording
  <2>1. /\ AllRecordingFiles' \in Seq(Archives)
        /\ AllRecordingFiles # <<>> => AllRecordingFiles[Len(AllRecordingFiles)] \in Archives
    <3>1. AllRecordingFiles # <<>> => Len(AllRecordingFiles) \in Nat \ {0}
      BY DEF SubmitTypes
    <3>2. AllRecordingFiles # <<>> =>
            /\ SubSeq(AllRecordingFiles, 1, Len(AllRecordingFiles) - 1) \in Seq(Archives)
            /\ AllRecordingFiles[Len(AllRecordingFiles)] \in Archives
      BY <3>1 DEF SubmitTypes
    <3> QED
      BY <1>11, <3>2 DEF PopRecording, SubmitTypes
  <2>T. SubmitTypes'
    BY <1>11, <2>1 DEF PopRecording, Worker, SubmitTypes, WriterInv
  <2>W. WriterInv'
    BY <1>11 DEF PopRecording, Worker, SubmitTypes, WriterInv, NothingIsLost, RemoveInv
  <2>S. TransferInv'
    BY <1>11 DEF PopRecording, Worker, SubmitTypes, WriterInv, TransferInv, RemoveInv
  <2>R. RemoveInv'
    BY <1>11 DEF PopRecording, Worker, SubmitTypes, WriterInv, TransferInv, RemoveInv
  <2>N. NothingIsLost'
    BY <1>11 DEF PopRecording, Worker, SubmitTypes, WriterInv, TransferInv, RemoveInv, NothingIsLost
  <2> QED
    BY <2>T, <2>W, <2>S, <2>R, <2>N
<1>12. CASE WorkerSendRecording
  <2>1. submitter.file \in Archives /\ disk[submitter.file] \in {"none", "part", "whole"}
    BY <1>12 DEF WorkerSendRecording, SubmitTypes
  <2>2. /\ UNCHANGED <<disk, writer, received, refused, finished, early, AllRecordingFiles, NewRecordings>>
        /\ \/ submitter' = [pc |-> "next", file |-> NoArchive, content |-> "none"]
           \/ /\ disk[submitter.file] # "none"
              /\ submitter' = [pc |-> "transfer", file |-> submitter.file, content |-> disk[submitter.file]]
    BY <1>12 DEF WorkerSendRecording, Worker, SubmitTypes
  <2>3. disk[submitter.file] = "whole" => writer.archive # submitter.file
    BY <2>1 DEF WriterInv
  <2>T. SubmitTypes'
    BY <2>1, <2>2 DEF SubmitTypes
  <2>W. WriterInv'
    BY <2>2 DEF WriterInv
  <2>S. TransferInv'
    BY <2>1, <2>2, <2>3 DEF TransferInv
  <2>R. RemoveInv'
    BY <2>2 DEF RemoveInv
  <2>N. NothingIsLost'
    BY <2>2 DEF NothingIsLost
  <2> QED
    BY <2>T, <2>W, <2>S, <2>R, <2>N
<1>13. CASE WorkerProgress
  <2>T. SubmitTypes'
    BY <1>13 DEF WorkerProgress, Worker, SubmitTypes, WriterInv
  <2>W. WriterInv'
    BY <1>13 DEF WorkerProgress, Worker, SubmitTypes, WriterInv, NothingIsLost, RemoveInv
  <2>S. TransferInv'
    BY <1>13 DEF WorkerProgress, Worker, SubmitTypes, WriterInv, TransferInv, RemoveInv
  <2>R. RemoveInv'
    BY <1>13 DEF WorkerProgress, Worker, SubmitTypes, WriterInv, TransferInv, RemoveInv
  <2>N. NothingIsLost'
    BY <1>13 DEF WorkerProgress, Worker, SubmitTypes, WriterInv, TransferInv, RemoveInv, NothingIsLost
  <2> QED
    BY <2>T, <2>W, <2>S, <2>R, <2>N
<1>14. CASE TransferFails
  <2>T. SubmitTypes'
    BY <1>14 DEF TransferFails, Worker, SubmitTypes, WriterInv
  <2>W. WriterInv'
    BY <1>14 DEF TransferFails, Worker, SubmitTypes, WriterInv, NothingIsLost, RemoveInv
  <2>S. TransferInv'
    BY <1>14 DEF TransferFails, Worker, SubmitTypes, WriterInv, TransferInv, RemoveInv
  <2>R. RemoveInv'
    BY <1>14 DEF TransferFails, Worker, SubmitTypes, WriterInv, TransferInv, RemoveInv
  <2>N. NothingIsLost'
    BY <1>14 DEF TransferFails, Worker, SubmitTypes, WriterInv, TransferInv, RemoveInv, NothingIsLost
  <2> QED
    BY <2>T, <2>W, <2>S, <2>R, <2>N
<1>15. CASE TransferAnswered
  <2>T. SubmitTypes'
    BY <1>15 DEF TransferAnswered, SubmitTypes, WriterInv
  <2>W. WriterInv'
    BY <1>15 DEF TransferAnswered, SubmitTypes, WriterInv, NothingIsLost, RemoveInv
  <2>S. TransferInv'
    BY <1>15 DEF TransferAnswered, SubmitTypes, WriterInv, TransferInv, RemoveInv
  <2>R. RemoveInv'
    BY <1>15 DEF TransferAnswered, SubmitTypes, WriterInv, TransferInv, RemoveInv
  <2>N. NothingIsLost'
    BY <1>15 DEF TransferAnswered, SubmitTypes, WriterInv, TransferInv, RemoveInv, NothingIsLost
  <2> QED
    BY <2>T, <2>W, <2>S, <2>R, <2>N
<1>16. CASE RemoveSent
  <2> DEFINE f == submitter.file
  <2>1. f \in Archives /\ (f \in early \/ (writer.archive # f /\ f \in received \cup refused))
    BY <1>16 DEF RemoveSent, SubmitTypes, RemoveInv
  <2>2. /\ UNCHANGED <<writer, received, refused, finished, early, AllRecordingFiles, NewRecordings>>
        /\ submitter' = [pc |-> "next", file |-> NoArchive, content |-> "none"]
    BY <1>16 DEF RemoveSent, Worker
  <2>3. disk' = disk \/ disk' = [disk EXCEPT ![f] = "none"]
    BY <1>16 DEF RemoveSent
  <2>4. /\ disk' \in [Archives -> {"none", "part", "whole"}]
        /\ \A a \in Archives : disk'[a] = disk[a] \/ (a = f /\ disk'[a] = "none")
    BY <2>1, <2>3 DEF SubmitTypes
  <2>T. SubmitTypes'
    BY <2>2, <2>4 DEF SubmitTypes
  <2>W. WriterInv'
    BY <2>1, <2>2, <2>4 DEF WriterInv
  <2>S. TransferInv'
    BY <2>2 DEF TransferInv
  <2>R. RemoveInv'
    BY <2>2 DEF RemoveInv
  <2>N. NothingIsLost'
    BY <2>1, <2>2, <2>4 DEF NothingIsLost, SubmitTypes
  <2> QED
    BY <2>T, <2>W, <2>S, <2>R, <2>N
<1>17. CASE WaitForNew
  <2>1. AllRecordingFiles' \in Seq(Archives) /\ NewRecordings' \in Seq(Archives)
    <3>1. AllRecordingFiles \o NewRecordings \in Seq(Archives) /\ <<>> \in Seq(Archives)
      BY DEF SubmitTypes
    <3> QED
      BY <1>17, <3>1 DEF WaitForNew, SubmitTypes
  <2>T. SubmitTypes'
    BY <1>17, <2>1 DEF WaitForNew, Worker, SubmitTypes, WriterInv
  <2>W. WriterInv'
    BY <1>17 DEF WaitForNew, Worker, SubmitTypes, WriterInv, NothingIsLost, RemoveInv
  <2>S. TransferInv'
    BY <1>17 DEF WaitForNew, Worker, SubmitTypes, WriterInv, TransferInv, RemoveInv
  <2>R. RemoveInv'
    BY <1>17 DEF WaitForNew, Worker, SubmitTypes, WriterInv, TransferInv, RemoveInv
  <2>N. NothingIsLost'
    BY <1>17 DEF WaitForNew, Worker, SubmitTypes, WriterInv, TransferInv, RemoveInv, NothingIsLost
  <2> QED
    BY <2>T, <2>W, <2>S, <2>R, <2>N
<1>18. CASE UNCHANGED submitVars
  BY <1>18 DEF submitVars, SubmitTypes, WriterInv, TransferInv, RemoveInv, NothingIsLost
<1> QED
  BY <1>1, <1>2, <1>3, <1>4, <1>5, <1>6, <1>7, <1>8, <1>9, <1>10, <1>11, <1>12, <1>13, <1>14, <1>15, <1>16, <1>17, <1>18
     DEF SubmitNext, SubmitGui, SubmitWorker, SubmitServer

\* A recording that was closed leaves the disk only when the server answered a
\* transfer of it, and then it was accepted whole, or the answer was an error,
\* or the transfer began before the archive was closed: finalize(), WorkerImpl()
\* and WorkerSendRecording(), however they interleave with windows that close,
\* shutdowns, kills and starts, with cURL or without.
THEOREM SubmitterLosesNothing == SubmitSpec => []NothingIsLost
<1>1. SubmitInit => SubmitInv
  BY DEF SubmitInit, SubmitInv, SubmitTypes, WriterInv, TransferInv, RemoveInv, NothingIsLost, NoArchive, Worker
<1>2. SubmitInv => NothingIsLost
  BY DEF SubmitInv
<1> QED
  BY <1>1, <1>2, SubmitStep, PTL DEF SubmitSpec
--------------------------------------------------------------------------------
(***************************************************************************)
(* The replay of recordings.  The inductive invariant: the timer runs only  *)
(* for the next event, and the last time is that of the event before it.    *)
(***************************************************************************)
ReplayTypes ==
    /\ recording \in Seq(Nat) /\ NextEvent \in 1..(Len(recording) + 1)
    /\ LastEventTime \in Nat /\ loads \in Nat /\ EventTimer \in Nat
    /\ enabled \subseteq Buttons

\* Nothing can be replayed before a recording is loaded.
UnloadedInv ==
    loads = 0 => NextEvent = 1 /\ LastEventTime = 0 /\ EventTimer = 0

LastTimeInv ==
    loads <= 1 => LastEventTime = IF NextEvent = 1 THEN 0 ELSE recording[NextEvent - 1]

\* What the timer and the buttons say of each other and of the next event.
TimerInv ==
    /\ "play" \in enabled => EventTimer = 0
    /\ EventTimer # 0 /\ ~stepped => HasNext
    /\ enabled # {} /\ ~HasNext => recording = <<>>

ReplayInv == ReplayTypes /\ UnloadedInv /\ LastTimeInv /\ TimerInv /\ ReplayIsFaithful

\* One more event is replayed.
LEMMA ReplayedOneMore ==
  ASSUME NEW n \in Nat
  PROVE  Append([i \in 1..n |-> i], n + 1) = [i \in 1..(n + 1) |-> i]
<1> DEFINE f == [i \in 1..n |-> i]
           g == [i \in 1..(n + 1) |-> i]
<1>1. f \in Seq(Nat) /\ Len(f) = n
  OBVIOUS
<1>2. g \in Seq(Nat) /\ Len(g) = n + 1
  OBVIOUS
<1>3. Append(f, n + 1) \in Seq(Nat) /\ Len(Append(f, n + 1)) = n + 1
  BY <1>1
<1>4. \A i \in 1..(n + 1) : Append(f, n + 1)[i] = g[i]
  BY <1>1
<1> QED
  BY <1>2, <1>3, <1>4

LEMMA ReplayStep == ReplayInv /\ [ReplayNext]_replayVars => ReplayInv'
<1> SUFFICES ASSUME ReplayInv, [ReplayNext]_replayVars
             PROVE  ReplayInv'
  OBVIOUS
<1> USE DEF ReplayInv, ReplayIsFaithful
<1>0. Len(recording) \in Nat /\ NextEvent \in Nat /\ 1 <= NextEvent /\ NextEvent <= Len(recording) + 1
  BY DEF ReplayTypes
\* An event is replayed, by hand or by the timer.
<1>E. ASSUME HasNext, ReplayEvent, MoveToNextEvent, UNCHANGED <<recording, loads>>
      PROVE  /\ recording[NextEvent] \in Nat
             /\ NextEvent' \in 1..(Len(recording') + 1) /\ LastEventTime' \in Nat
             /\ LastTimeInv' /\ ReplayedInOrder'
  <2>1. recording[NextEvent] \in Nat
    BY <1>E, <1>0 DEF HasNext, ReplayTypes
  <2>2. NextEvent' = NextEvent + 1 /\ NextEvent' \in 1..(Len(recording') + 1)
    BY <1>E, <1>0 DEF HasNext, MoveToNextEvent
  <2>3. replayed' = [i \in 1..NextEvent |-> i]
    <3>1. NextEvent - 1 \in Nat /\ (NextEvent - 1) + 1 = NextEvent
      BY <1>0
    <3>2. replayed = [i \in 1..(NextEvent - 1) |-> i]
      BY DEF ReplayedInOrder
    <3>3. Append([i \in 1..(NextEvent - 1) |-> i], (NextEvent - 1) + 1)
            = [i \in 1..((NextEvent - 1) + 1) |-> i]
      BY <3>1, ReplayedOneMore
    <3> QED
      BY <1>E, <3>1, <3>2, <3>3 DEF ReplayEvent
  <2>4. ReplayedInOrder'
    <3>1. NextEvent' - 1 = NextEvent
      BY <2>2, <1>0
    <3>2. listed' = NextEvent
      BY <1>E, <1>0 DEF MoveToNextEvent, ReplayedInOrder
    <3> QED
      BY <2>3, <3>1, <3>2 DEF ReplayedInOrder
  <2>5. LastTimeInv'
    BY <1>E, <1>0, <2>1, <2>2 DEF LastTimeInv, ReplayEvent
  <2> QED
    BY <1>E, <2>1, <2>2, <2>4, <2>5 DEF ReplayEvent
<1>1. CASE OnPlay
  <2>1. UNCHANGED <<recording, NextEvent, LastEventTime, listed, replayed, loads, stepped>> /\ loads > 0
    BY <1>1 DEF OnPlay
  <2>2. ReplayedInOrder' /\ LastTimeInv' /\ UnloadedInv'
    BY <2>1 DEF ReplayedInOrder, LastTimeInv, UnloadedInv, ReplayTypes
  <2>3. EventTimer = 0 /\ (HasNext \/ recording = <<>>)
    BY <1>1 DEF OnPlay, TimerInv
  <2>4. ReplayAssertionsHold'
    BY <1>1, <2>1, <2>3 DEF OnPlay, ReplayAssertionsHold
  <2>5. CASE HasNext
    <3>1. /\ EventTimer' = NextEvent /\ delay' = recording[NextEvent] - LastEventTime
          /\ enabled' = (enabled \ {"play"}) \cup {"pause"}
      BY <1>1, <2>3, <2>5 DEF OnPlay, SetEventTimer
    <3>2. ReplayTypes' /\ TimerInv'
      BY <1>0, <2>1, <2>5, <3>1 DEF ReplayTypes, TimerInv, HasNext, Buttons
    <3>3. TimerIsForNextEvent'
      BY <1>0, <2>1, <3>1 DEF LastTimeInv, TimerIsForNextEvent
    <3> QED
      BY <2>2, <2>4, <3>2, <3>3
  <2>6. CASE ~HasNext
    <3>1. UNCHANGED <<EventTimer, delay, enabled>>
      BY <1>1, <2>6 DEF OnPlay
    <3> QED
      BY <2>1, <2>2, <2>3, <2>4, <3>1 DEF ReplayTypes, TimerInv, HasNext, TimerIsForNextEvent
  <2> QED
    BY <2>5, <2>6
<1>2. CASE OnPause
  <2>1. ReplayTypes' /\ UnloadedInv' /\ LastTimeInv' /\ ReplayedInOrder'
    BY <1>2, <1>0 DEF OnPause, ReplayTypes, UnloadedInv, LastTimeInv, ReplayedInOrder, Buttons
  <2>2. TimerInv' /\ TimerIsForNextEvent' /\ ReplayAssertionsHold'
    BY <1>2, <1>0 DEF OnPause, TimerInv, TimerIsForNextEvent, ReplayAssertionsHold, HasNext
  <2> QED
    BY <2>1, <2>2
<1>3. CASE OnStep
  <2>1. CASE HasNext
    <3>1. ReplayEvent /\ MoveToNextEvent /\ enabled' = ButtonsAfter(enabled)
          /\ UNCHANGED <<recording, EventTimer, delay, loads>>
      BY <1>3, <2>1 DEF OnStep
    <3>2. ReplayTypes' /\ LastTimeInv' /\ ReplayedInOrder' /\ UnloadedInv'
      BY <1>3, <2>1, <1>E, <3>1 DEF OnStep, ReplayTypes, UnloadedInv, ButtonsAfter
    <3>3. (stepped' <=> (stepped \/ EventTimer # 0)) /\ asserted' = FALSE
      BY <1>3, <2>1 DEF OnStep
    <3>4. NextEvent' \in Nat /\ (enabled' # {} => NextEvent' <= Len(recording') /\ enabled' = enabled)
      BY <1>0, <2>1, <3>1 DEF ButtonsAfter, MoveToNextEvent, HasNext
    <3>5. TimerInv' /\ TimerIsForNextEvent' /\ ReplayAssertionsHold'
      BY <3>1, <3>3, <3>4 DEF TimerInv, HasNext, TimerIsForNextEvent, ReplayAssertionsHold
    <3> QED
      BY <3>2, <3>5
  <2>2. CASE ~HasNext
    BY <1>3, <2>2, <1>0 DEF OnStep, ReplayTypes, UnloadedInv, LastTimeInv, ReplayedInOrder,
                      TimerInv, TimerIsForNextEvent, ReplayAssertionsHold, HasNext
  <2> QED
    BY <2>1, <2>2
<1>4. CASE OnEventTimer
  <2>0. loads # 0
    BY <1>4 DEF OnEventTimer, UnloadedInv
  <2>1. CASE HasNext
    <3>1. ReplayEvent /\ MoveToNextEvent /\ UNCHANGED <<recording, loads, stepped>>
      BY <1>4, <2>1 DEF OnEventTimer
    <3>2. CASE NextEvent' <= Len(recording)
      <4>1. /\ EventTimer' = NextEvent' /\ delay' = recording[NextEvent'] - LastEventTime'
            /\ enabled' = (enabled \ {"play"}) \cup {"pause"}
        BY <1>4, <2>1, <3>2 DEF OnEventTimer, SetEventTimer
      <4>2. ReplayTypes' /\ LastTimeInv' /\ ReplayedInOrder' /\ UnloadedInv'
        BY <1>4, <2>0, <2>1, <1>E, <3>1, <4>1
           DEF OnEventTimer, ReplayTypes, UnloadedInv, Buttons
      <4>3. TimerInv' /\ TimerIsForNextEvent' /\ ReplayAssertionsHold'
        BY <1>4, <2>1, <3>1, <3>2, <4>1, <4>2
           DEF OnEventTimer, TimerInv, HasNext, LastTimeInv, TimerIsForNextEvent, ReplayAssertionsHold
      <4> QED
        BY <4>2, <4>3
    <3>3. CASE ~(NextEvent' <= Len(recording))
      <4>1. EventTimer' = 0 /\ delay' = 0 /\ enabled' = {}
        BY <1>4, <2>1, <3>3 DEF OnEventTimer
      <4>2. ReplayTypes' /\ LastTimeInv' /\ ReplayedInOrder' /\ UnloadedInv'
        BY <1>4, <2>0, <2>1, <1>E, <3>1, <4>1 DEF OnEventTimer, ReplayTypes, UnloadedInv
      <4>3. TimerInv' /\ TimerIsForNextEvent' /\ ReplayAssertionsHold'
        BY <1>4, <2>1, <4>1 DEF OnEventTimer, TimerInv, TimerIsForNextEvent, ReplayAssertionsHold
      <4> QED
        BY <4>2, <4>3
    <3> QED
      BY <3>2, <3>3
  <2>2. CASE ~HasNext
    BY <1>4, <2>0, <2>2, <1>0 DEF OnEventTimer, ReplayTypes, UnloadedInv, LastTimeInv,
            ReplayedInOrder, TimerInv, TimerIsForNextEvent, ReplayAssertionsHold, HasNext
  <2> QED
    BY <2>1, <2>2
<1>5. ASSUME NEW r \in Recordings, LoadRecording(r)
      PROVE  ReplayInv'
  <2>1. r \in Seq(Nat) /\ Len(r) \in Nat /\ recording' = r /\ NextEvent' = 1
    BY <1>5, RecordingsAreTimes DEF LoadRecording
  <2>2. ReplayTypes' /\ UnloadedInv' /\ LastTimeInv'
    BY <1>5, <2>1 DEF LoadRecording, ReplayTypes, UnloadedInv, LastTimeInv
  <2>3. ReplayedInOrder'
    <3>1. replayed' = <<>> /\ listed' = 0
      BY <1>5 DEF LoadRecording
    <3>2. [i \in 1..(1 - 1) |-> i] = <<>>
      OBVIOUS
    <3> QED
      BY <2>1, <3>1, <3>2 DEF ReplayedInOrder
  <2>4. TimerInv'
    <3>1. 1 <= Len(r) \/ r = <<>>
      BY <2>1
    <3> QED
      BY <1>5, <2>1, <3>1 DEF LoadRecording, ReplayTypes, TimerInv, HasNext
  <2>5. TimerIsForNextEvent' /\ ReplayAssertionsHold'
    BY <1>5 DEF LoadRecording, ReplayTypes, TimerIsForNextEvent, ReplayAssertionsHold
  <2> QED
    BY <2>2, <2>3, <2>4, <2>5
<1>6. CASE UNCHANGED replayVars
  BY <1>6 DEF replayVars, ReplayTypes, UnloadedInv, LastTimeInv, ReplayedInOrder,
              TimerInv, TimerIsForNextEvent, ReplayAssertionsHold, HasNext
<1> QED
  BY <1>1, <1>2, <1>3, <1>4, <1>5, <1>6 DEF ReplayNext

\* The user's recorded actions are replayed each once, in their order and with
\* their pauses, for all recordings and however the user plays, pauses, steps
\* and loads: the handlers of ActionReplay.cpp.
THEOREM ReplayFollowsRecording == ReplaySpec => []ReplayIsFaithful
<1>1. ReplayInit => ReplayInv
  <2>1. [i \in 1..(1 - 1) |-> i] = <<>>
    OBVIOUS
  <2> QED
    BY <2>1 DEF ReplayInit, ReplayInv, ReplayTypes, UnloadedInv, LastTimeInv, ReplayIsFaithful,
         ReplayedInOrder, TimerInv, TimerIsForNextEvent, ReplayAssertionsHold, HasNext
<1>2. ReplayInv => ReplayIsFaithful
  BY DEF ReplayInv
<1> QED
  BY <1>1, <1>2, ReplayStep, PTL DEF ReplaySpec

--------------------------------------------------------------------------------
(***************************************************************************)
(* Saved traces.  The inductive invariant: the annotations, those in the    *)
(* archive too, are well formed and unique, and every directory was made    *)
(* before it could be left behind.                                          *)
(***************************************************************************)
PointRecord == [key : Keys, text : Texts \cup {""}, suppressEPV : BOOLEAN]
Points == Seq(PointRecord)
Unique(ps) == \A i, j \in DOMAIN ps : ps[i].key = ps[j].key => i = j

PointsInv == points \in Points /\ Unique(points) /\ wanted \in Points /\ Unique(wanted)

DirectoriesInv ==
    /\ made \in Nat /\ open \in {-1, 0} \cup (1..made)
    /\ leaks \subseteq 1..made /\ open \notin leaks

SavedType ==
    /\ saved \in Seq([name : {"trace", "annotations", "record"}, points : Points])
    /\ \A i \in DOMAIN saved : saved[i].name = "annotations" => i = 2

ArchiveInv == PointsInv /\ DirectoriesInv /\ SavedType /\ ArchivesAreWhole

\* What is written: the trace, and the annotations as they are now.
LEMMA EntriesSaved ==
  ASSUME points \in Points, NEW a \in BOOLEAN, NEW r \in BOOLEAN
  PROVE  LET es == Entries(a, r)
         IN  /\ es \in Seq([name : {"trace", "annotations", "record"}, points : Points])
             /\ es # <<>> /\ es[1].name = "trace"
             /\ \A i \in DOMAIN es :
                  es[i].name = "annotations" => a /\ i = 2 /\ es[i].points = points
             /\ a => \E i \in DOMAIN es : es[i].name = "annotations"
<1> DEFINE E == [name : {"trace", "annotations", "record"}, points : Points]
           t == [name |-> "trace", points |-> <<>>]
           n == [name |-> "annotations", points |-> points]
           c == [name |-> "record", points |-> <<>>]
           s == IF a THEN <<n>> ELSE <<>>
           u == IF r THEN <<c>> ELSE <<>>
<1>1. <<>> \in Points
  <2>1. \A S : <<>> \in Seq(S)
    OBVIOUS
  <2> QED
    BY <2>1 DEF Points
<1>2. t \in E /\ n \in E /\ c \in E
  BY <1>1
<1> HIDE DEF E
<1>3. <<t>> \in Seq(E) /\ <<n>> \in Seq(E) /\ <<c>> \in Seq(E) /\ <<>> \in Seq(E)
  BY <1>2
<1>4. s \in Seq(E) /\ u \in Seq(E) /\ Len(s) = (IF a THEN 1 ELSE 0) /\ Len(u) = (IF r THEN 1 ELSE 0)
  BY <1>3
<1>5. (a => s[1] = n) /\ (r => u[1] = c)
  OBVIOUS
<1>6. /\ <<t>> \o s \in Seq(E) /\ Len(<<t>> \o s) = 1 + Len(s) /\ (<<t>> \o s)[1] = t
      /\ a => (<<t>> \o s)[2] = n
  BY <1>3, <1>4, <1>5
<1> DEFINE es == (<<t>> \o s) \o u
<1>7. /\ es \in Seq(E) /\ Len(es) = 1 + Len(s) + Len(u) /\ es[1] = t
      /\ a => es[2] = n
      /\ r => es[2 + Len(s)] = c
  BY <1>4, <1>5, <1>6
<1>8. es = Entries(a, r)
  BY DEF Entries
<1> HIDE DEF es, s, u
<1>9. ASSUME NEW i \in DOMAIN es, es[i].name = "annotations"
      PROVE  a /\ i = 2 /\ es[i].points = points
  <2>1. i \in 1..Len(es)
    BY <1>7, <1>9
  <2>2. CASE a
    <3>1. i = 1 \/ i = 2 \/ (i = 3 /\ r)
      BY <2>1, <2>2, <1>4, <1>7
    <3> QED
      BY <3>1, <2>2, <1>4, <1>7, <1>9
  <2>3. CASE ~a
    <3>1. i = 1 \/ (i = 2 /\ r)
      BY <2>1, <2>3, <1>4, <1>7
    <3> QED
      BY <3>1, <2>3, <1>4, <1>7, <1>9
  <2> QED
    BY <2>2, <2>3
<1>10. a => \E i \in DOMAIN es : es[i].name = "annotations"
  BY <1>4, <1>7
<1>11. es # <<>> /\ es[1].name = "trace"
  BY <1>4, <1>7
<1> QED
  BY <1>7, <1>8, <1>9, <1>10, <1>11 DEF E

LEMMA ArchiveStep == ArchiveInv /\ [ArchiveNext]_archiveVars => ArchiveInv'
<1> SUFFICES ASSUME ArchiveInv, [ArchiveNext]_archiveVars
             PROVE  ArchiveInv'
  OBVIOUS
<1>0. /\ PointsInv /\ DirectoriesInv /\ SavedType
      /\ PointsAreUnique /\ SavedIsWhole /\ TempsAreKnown
  BY DEF ArchiveInv, ArchivesAreWhole
\* The parts of the invariant depend on different variables.
<1>P. ASSUME PointsInv' PROVE PointsAreUnique'
  BY <1>P DEF PointsInv, Unique, PointsAreUnique
<1>S. ASSUME UNCHANGED <<saved, wanted>> PROVE SavedType' /\ SavedIsWhole'
  BY <1>0, <1>S DEF SavedType, SavedIsWhole
<1>D. ASSUME UNCHANGED <<open, temps, made, leaks>> PROVE DirectoriesInv' /\ TempsAreKnown'
  BY <1>0, <1>D DEF DirectoriesInv, TempsAreKnown
<1>1. ASSUME NEW key \in Keys, ShowEditor(key)
      PROVE  ArchiveInv'
  <2>1. CASE IndexOf(points, key) # 0
    <3>1. points' = points /\ wanted' = wanted
      BY <1>1, <2>1 DEF ShowEditor, getOrCreatePoint
    <3>2. PointsInv'
      BY <1>0, <3>1 DEF PointsInv
    <3> QED
      BY <1>1, <3>2, <1>P, <1>S, <1>D DEF ShowEditor, ArchiveInv, ArchivesAreWhole
  <2>2. CASE IndexOf(points, key) = 0
    <3>1. points \in Seq(PointRecord) /\ Len(points) \in Nat /\ DOMAIN points = 1..Len(points)
      BY <1>0 DEF PointsInv, Points
    <3>2. ASSUME NEW i \in DOMAIN points, points[i].key = key
          PROVE  FALSE
      <4>1. \A j \in 1..i - 1 : points[j].key # key
        <5>1. \A j \in 1..i - 1 : j \in DOMAIN points /\ j # i
          BY <3>1, <3>2
        <5> QED
          BY <1>0, <3>2, <5>1 DEF PointsInv, Unique
      <4>2. IndexOf(points, key) \in DOMAIN points
        BY <3>2, <4>1 DEF IndexOf
      <4> QED
        BY <2>2, <3>1, <4>2
    <3>3. points' = Append(points, Point(key)) /\ wanted' = wanted
      BY <1>1, <2>2 DEF ShowEditor, getOrCreatePoint
    <3>4. Point(key) \in PointRecord /\ Point(key).key = key
      BY DEF Point, PointRecord
    <3>5. /\ points' \in Seq(PointRecord) /\ DOMAIN points' = 1..(Len(points) + 1)
          /\ \A i \in 1..Len(points) : points'[i] = points[i]
          /\ points'[Len(points) + 1] = Point(key)
      BY <3>1, <3>3, <3>4
    <3>6. ASSUME NEW i \in DOMAIN points', NEW j \in DOMAIN points', points'[i].key = points'[j].key
          PROVE  i = j
      <4>1. Unique(points)
        BY <1>0 DEF PointsInv
      <4>2. CASE i \in 1..Len(points) /\ j \in 1..Len(points)
        BY <3>1, <3>5, <3>6, <4>1, <4>2 DEF Unique
      <4>3. CASE i \in 1..Len(points) /\ j = Len(points) + 1
        BY <3>1, <3>2, <3>4, <3>5, <3>6, <4>3
      <4>4. CASE i = Len(points) + 1 /\ j \in 1..Len(points)
        BY <3>1, <3>2, <3>4, <3>5, <3>6, <4>4
      <4>5. CASE i = Len(points) + 1 /\ j = Len(points) + 1
        BY <4>5
      <4> QED
        BY <3>1, <3>5, <4>2, <4>3, <4>4, <4>5
    <3>7. PointsInv'
      BY <1>0, <3>3, <3>5, <3>6 DEF PointsInv, Unique, Points
    <3> QED
      BY <1>1, <3>7, <1>P, <1>S, <1>D DEF ShowEditor, ArchiveInv, ArchivesAreWhole
  <2> QED
    BY <2>1, <2>2
<1>2. ASSUME NEW d \in dialogs, NEW text \in Texts, NEW suppress \in BOOLEAN,
             AcceptEdit(d, text, suppress)
      PROVE  ArchiveInv'
  <2> DEFINE k == IndexOf(points, d.key)
             q == setPoint(points[k], text, suppress)
  <2>1. points' = [points EXCEPT ![k] = q]
    BY <1>2 DEF AcceptEdit
  <2>2. points \in Seq(PointRecord) /\ Len(points) \in Nat /\ DOMAIN points = 1..Len(points)
    BY <1>0 DEF PointsInv, Points
  <2>3. k \in DOMAIN points => q \in PointRecord /\ q.key = points[k].key
    <3>1. SUFFICES ASSUME k \in DOMAIN points PROVE q \in PointRecord /\ q.key = points[k].key
      OBVIOUS
    <3>2. points[k] \in PointRecord
      BY <2>2, <3>1
    <3> QED
      BY <1>2, <3>2 DEF setPoint, PointRecord
  <2> HIDE DEF k, q
  <2>4. /\ points' \in Seq(PointRecord) /\ DOMAIN points' = DOMAIN points
        /\ \A i \in DOMAIN points : points'[i].key = points[i].key
    <3>1. CASE k \in DOMAIN points
      BY <2>1, <2>2, <2>3, <3>1
    <3>2. CASE k \notin DOMAIN points
      <4>1. points' = points
        BY <2>1, <2>2, <3>2
      <4> QED
        BY <2>2, <4>1
    <3> QED
      BY <3>1, <3>2
  <2>5. PointsInv'
    <3>1. Unique(points')
      BY <1>0, <2>4 DEF PointsInv, Unique
    <3>2. wanted' = wanted
      BY <1>2 DEF AcceptEdit
    <3> QED
      BY <1>0, <2>4, <3>1, <3>2 DEF PointsInv, Points
  <2> QED
    BY <1>2, <2>5, <1>P, <1>S, <1>D DEF AcceptEdit, ArchiveInv, ArchivesAreWhole
<1>3. ASSUME NEW d \in dialogs, CancelEdit(d)
      PROVE  ArchiveInv'
  <2>1. PointsInv'
    BY <1>0, <1>3 DEF CancelEdit, PointsInv
  <2> QED
    BY <1>3, <2>1, <1>P, <1>S, <1>D DEF CancelEdit, ArchiveInv, ArchivesAreWhole
<1>4. ASSUME NEW annotations \in BOOLEAN, NEW recording_ \in BOOLEAN,
             OnSaveAs(annotations, recording_)
      PROVE  ArchiveInv'
  <2>1. DirectoriesInv' /\ TempsAreKnown'
    BY <1>4, <1>D DEF OnSaveAs
  <2>2. CASE UNCHANGED <<saved, wanted>>
    <3>1. PointsInv'
      BY <1>0, <1>4, <2>2 DEF OnSaveAs, PointsInv
    <3> QED
      BY <2>1, <2>2, <3>1, <1>P, <1>S DEF ArchiveInv, ArchivesAreWhole
  <2>3. CASE /\ saved' = Entries(annotations, recording_)
             /\ wanted' = IF annotations THEN points ELSE <<>>
    <3>1. points' = points
      BY <1>4 DEF OnSaveAs
    <3>2. <<>> \in Points /\ Unique(<<>>)
      <4>1. \A T : <<>> \in Seq(T)
        OBVIOUS
      <4> QED
        BY <4>1 DEF Points, Unique
    <3>3. PointsInv'
      BY <1>0, <2>3, <3>1, <3>2 DEF PointsInv
    <3> DEFINE es == Entries(annotations, recording_)
    <3>4. /\ es \in Seq([name : {"trace", "annotations", "record"}, points : Points])
          /\ es # <<>> /\ es[1].name = "trace"
          /\ \A i \in DOMAIN es :
               es[i].name = "annotations" => annotations /\ i = 2 /\ es[i].points = points
          /\ annotations => \E i \in DOMAIN es : es[i].name = "annotations"
      BY <1>0, EntriesSaved DEF PointsInv
    <3> HIDE DEF es
    <3>5. saved' = es
      BY <2>3 DEF es
    <3>6. SavedType'
      BY <3>4, <3>5 DEF SavedType
    <3>7. SavedIsWhole'
      BY <2>3, <3>4, <3>5 DEF SavedIsWhole
    <3> QED
      BY <2>1, <3>3, <3>6, <3>7, <1>P DEF ArchiveInv, ArchivesAreWhole
  <2> QED
    BY <1>4, <2>2, <2>3 DEF OnSaveAs
<1>5. CASE Close
  <2>1. <<>> \in Points /\ Unique(<<>>)
    <3>1. \A T : <<>> \in Seq(T)
      OBVIOUS
    <3> QED
      BY <3>1 DEF Points, Unique
  <2>2. PointsInv'
    BY <1>0, <1>5, <2>1 DEF Close, PointsInv
  <2>3. DirectoriesInv' /\ TempsAreKnown'
    BY <1>0, <1>5 DEF Close, DirectoriesInv, TempsAreKnown
  <2> QED
    BY <1>5, <2>2, <2>3, <1>P, <1>S DEF Close, ArchiveInv, ArchivesAreWhole
<1>6. CASE FromRecordingArchive
  <2>1. DirectoriesInv' /\ TempsAreKnown'
    <3>1. open = -1 /\ made' = made + 1 /\ made \in Nat /\ leaks \subseteq 1..made /\ temps = leaks
      BY <1>0, <1>6 DEF FromRecordingArchive, DirectoriesInv, TempsAreKnown
    <3>2. made' \in Nat /\ made' \in 1..made' /\ made' \notin leaks /\ leaks \subseteq 1..made'
      BY <3>1
    <3>3. CASE open' = made' /\ temps' = temps \cup {made'} /\ UNCHANGED leaks
      BY <3>1, <3>2, <3>3 DEF DirectoriesInv, TempsAreKnown
    <3>4. CASE temps' = temps \cup {made'} /\ leaks' = leaks \cup {made'} /\ UNCHANGED open
      BY <3>1, <3>2, <3>4 DEF DirectoriesInv, TempsAreKnown
    <3>5. CASE UNCHANGED <<open, temps, leaks>>
      BY <3>1, <3>2, <3>5 DEF DirectoriesInv, TempsAreKnown
    <3> QED
      BY <1>6, <3>3, <3>4, <3>5 DEF FromRecordingArchive
  <2> DEFINE as == {i \in DOMAIN saved : saved[i].name = "annotations"}
             opened == IF as = {} THEN <<>>
                       ELSE saved[CHOOSE i \in as : \A j \in as : j <= i].points
  <2>2. opened \in Points /\ Unique(opened)
    <3>1. CASE as = {}
      <4>1. \A T : <<>> \in Seq(T)
        OBVIOUS
      <4> QED
        BY <3>1, <4>1 DEF Points, Unique
    <3>2. CASE as # {}
      <4>1. PICK i \in as : i = 2
        BY <1>0, <3>2 DEF SavedType
      <4>2. as = {2}
        BY <1>0, <4>1 DEF SavedType
      <4>3. (CHOOSE m \in as : \A j \in as : j <= m) = 2
        <5>1. \E m \in as : \A j \in as : j <= m
          BY <4>2
        <5>2. (CHOOSE m \in as : \A j \in as : j <= m) \in as
          BY <5>1
        <5> QED
          BY <4>2, <5>2
      <4>4. opened = saved[2].points
        BY <3>2, <4>3
      <4>5. saved # <<>> /\ 2 \in DOMAIN saved /\ saved[2].name = "annotations"
        BY <1>6, <4>2 DEF FromRecordingArchive
      <4>6. saved[2].points = wanted
        BY <1>0, <4>5 DEF SavedIsWhole
      <4> QED
        BY <1>0, <4>4, <4>6 DEF PointsInv
    <3> QED
      BY <3>1, <3>2
  <2>3. points' = opened \/ points' = points
    BY <1>6 DEF FromRecordingArchive
  <2> HIDE DEF opened, as
  <2>4. PointsInv'
    BY <1>0, <1>6, <2>2, <2>3 DEF FromRecordingArchive, PointsInv
  <2> QED
    BY <1>6, <2>1, <2>4, <1>P, <1>S DEF FromRecordingArchive, ArchiveInv, ArchivesAreWhole
<1>7. CASE ReadTraceFromFilePath
  <2>1. PointsInv'
    BY <1>0, <1>7 DEF ReadTraceFromFilePath, PointsInv
  <2>2. DirectoriesInv' /\ TempsAreKnown'
    BY <1>0, <1>7 DEF ReadTraceFromFilePath, DirectoriesInv, TempsAreKnown
  <2> QED
    BY <1>7, <2>1, <2>2, <1>P, <1>S DEF ReadTraceFromFilePath, ArchiveInv, ArchivesAreWhole
<1>8. CASE UNCHANGED archiveVars
  <2>1. PointsInv'
    BY <1>0, <1>8 DEF archiveVars, PointsInv
  <2> QED
    BY <1>8, <2>1, <1>P, <1>S, <1>D DEF archiveVars, ArchiveInv, ArchivesAreWhole
<1> QED
  BY <1>1, <1>2, <1>3, <1>4, <1>5, <1>6, <1>7, <1>8 DEF ArchiveNext

\* An archive on the disk can always be opened with the annotations it was
\* saved with, none of them twice, and only failures leave directories behind,
\* for any texts and keys: Annotations.cpp, OpenTrace.cpp and OnSaveAs().
THEOREM ArchivesStayWhole == ArchiveSpec => []ArchivesAreWhole
<1>1. ArchiveInit => ArchiveInv
  <2>1. \A T : <<>> \in Seq(T)
    OBVIOUS
  <2> QED
    BY <2>1 DEF ArchiveInit, ArchiveInv, PointsInv, Points, Unique, DirectoriesInv, SavedType,
                ArchivesAreWhole, PointsAreUnique, SavedIsWhole, TempsAreKnown
<1>2. ArchiveInv => ArchivesAreWhole
  BY DEF ArchiveInv
<1> QED
  BY <1>1, <1>2, ArchiveStep, PTL DEF ArchiveSpec

--------------------------------------------------------------------------------
(***************************************************************************)
(* The graph of the state and its worker.  The inductive invariant: the     *)
(* worker holds the token of the present state, pointers that outlive their *)
(* state have a cause, and the graph of the present state is on its way.    *)
(***************************************************************************)
Token == [Valid : BOOLEAN, Count : Nat]
Places == Versions \cup {None}
Menus == Nodes \cup [kind : {"tree"}, of : Places]
Panels == [CurrentAccess : Places, MouseOver : Nodes, graph : Places]
Trees == [CurrentAccess : Places, ActiveFn : Places, hover : TreeNodes, HoverTimer : BOOLEAN]
Tasks == [Access : Places, ContinueGraphGeneration : BOOLEAN]
GraphWorkers == [pc : {"start", "waiting", "woken", "layout", "dot", "exited"}, of : Places]

GraphTypes ==
    /\ version \in Versions /\ access \in [Versions -> Token] /\ pending \in Seq(Events)
    /\ gui \in {"idle", "waiting", "woken", "moving", "show", "freed", "joining", "closed"}
    /\ buttons \in BOOLEAN /\ panel \in Panels /\ tree \in Trees /\ menu \in Menus
    /\ task \in Tasks /\ worker \in GraphWorkers
    /\ worker.pc \in {"layout", "dot"} => worker.of \in Versions
    /\ missed \in BOOLEAN /\ failed \in BOOLEAN /\ spurious \in 0..MaxSpurious
    /\ causes \subseteq {"late graph", "queued event", "open menu"}

\* Who reads a token, and which tokens are valid.
TokenInv == \A v \in Versions :
    /\ access[v].Count = IF worker.pc = "layout" /\ worker.of = v THEN 1 ELSE 0
    /\ access[v].Valid <=> version < v \/ (v = version /\ gui # "moving")

\* The worker is only asked for the present state, and not while that moves.
TaskInv ==
    /\ task.Access <= version
    /\ gui \in {"waiting", "woken", "moving", "show"} => ~task.ContinueGraphGeneration
    /\ gui \in {"joining", "closed"} => task.Access = None

LayoutInv ==
    worker.pc = "layout" =>
        \/ worker.of = version /\ gui \in {"idle", "waiting"}
        \/ spurious > 0
        \/ gui = "freed"

\* Between movements the tree shows the present state.
TreeInv ==
    gui \notin {"waiting", "woken", "moving"} => tree.CurrentAccess = version /\ tree.ActiveFn = version

\* A cause that also the views may see.
Seen == causes \cap {"late graph", "queued event"} # {}

\* Pointers to an earlier state are kept for a reason.
KeptInv ==
    /\ Gone(panel.graph) => "late graph" \in causes
    /\ Gone(panel.MouseOver.of) => Seen
    /\ Gone(menu.of) => causes # {}
    /\ \A i \in DOMAIN pending :
         Gone(pending[i].node.of) /\ pending[i].kind # "rendered" =>
           causes # {} /\ (pending[i].kind # "move" => Seen)

\* While the state moves the pointers to it that will be kept have a reason.
MovingInv ==
    gui \in {"waiting", "woken", "moving"} =>
        /\ panel.graph = None /\ panel.MouseOver = NoNode
        /\ menu # NoNode => causes # {}
        /\ \A i \in DOMAIN pending :
             pending[i].node.of # None /\ pending[i].kind # "rendered" => "queued event" \in causes

\* Before the first movement the graph is empty and nothing is asked for.
UnshownInv ==
    panel.CurrentAccess = None =>
        /\ panel.graph = None /\ task.Access = None /\ worker.pc \notin {"layout", "dot"}
        /\ \A i \in DOMAIN pending : pending[i].kind # "rendered"

\* Afterwards, between movements, the worker has been asked for the present
\* state, and works on no other if it was reached.
AskedInv ==
    gui = "idle" /\ panel.CurrentAccess # None =>
        /\ panel.CurrentAccess = version
        /\ task = [Access |-> version, ContinueGraphGeneration |-> TRUE]
        /\ ~missed /\ worker.pc \in {"layout", "dot"} => worker.of = version

\* The graph of the present state is the last to come of those that are rendered.
LastIsCurrent(i) ==
    \A j \in DOMAIN pending : i < j /\ pending[j].kind = "rendered" => pending[j] = Rendered(version)

OnItsWay ==
    \/ worker.pc = "woken"
    \/ worker.pc \in {"layout", "dot"}
    \/ \E i \in DOMAIN pending : pending[i] = Rendered(version) /\ LastIsCurrent(i)
    \/ panel.graph = version /\ LastIsCurrent(0)

ComingInv ==
    gui = "idle" /\ panel.CurrentAccess # None /\ ~missed /\ ~failed /\ spurious = 0 => OnItsWay

GraphInv ==
    /\ GraphTypes /\ TokenInv /\ TaskInv /\ LayoutInv /\ TreeInv /\ KeptInv /\ MovingInv
    /\ StaleReadsAreExplained /\ UnshownInv /\ AskedInv /\ ComingInv

\* What the events are, and that a node of an earlier state is not that of none.
LEMMA EventTypes ==
  /\ NoNode \in Nodes /\ NoNode.of = None /\ NoNode.kind = "none"
  /\ \A n \in Nodes : n.of \in Versions \cup {None} /\ (n # NoNode => n.kind \in Kinds /\ n.of \in Versions)
  /\ \A e \in Events : e.node.of \in Versions \cup {None}
  /\ \A e \in Events : e.kind \in {"mouseover", "contextmenu"} => e.node \in Nodes
  /\ \A of \in Versions \cup {None} :
       /\ Move(of) \in Events /\ Move(of).kind = "move" /\ Move(of).node.of = of
       /\ Rendered(of) \in Events /\ Rendered(of).kind = "rendered" /\ Rendered(of).node.of = of
  /\ \A n \in Nodes :
       MouseOver(n) \in Events /\ MouseOver(n).kind = "mouseover" /\ MouseOver(n).node = n
  /\ ContextMenu \in Events /\ ContextMenu.kind = "contextmenu" /\ ContextMenu.node = NoNode
<1>1. \A v \in Versions \cup {None} :
        [NoNode EXCEPT !.of = v] = [kind |-> "none", of |-> v]
  BY DEF NoNode
<1>2. None \notin Versions
  BY GraphBounds DEF None, Versions
<1>3. NoNode \in Nodes /\ NoNode.of = None /\ NoNode.kind = "none"
  BY DEF Nodes, NoNode
<1>4. \A n \in Nodes : n.of \in Versions \cup {None} /\ (n # NoNode => n.kind \in Kinds /\ n.of \in Versions)
  BY DEF Nodes, NoNode
<1>5. \A of \in Versions \cup {None} :
       /\ Move(of) \in Events /\ Move(of).kind = "move" /\ Move(of).node.of = of
       /\ Rendered(of) \in Events /\ Rendered(of).kind = "rendered" /\ Rendered(of).node.of = of
  BY <1>1 DEF Move, Rendered, Events
<1>6. \A e \in Events : e.node.of \in Versions \cup {None}
  BY <1>4 DEF Events
<1>7. \A e \in Events : e.kind \in {"mouseover", "contextmenu"} => e.node \in Nodes
  BY DEF Events
<1>8. \A n \in Nodes :
       MouseOver(n) \in Events /\ MouseOver(n).kind = "mouseover" /\ MouseOver(n).node = n
  BY DEF MouseOver, Events
<1>9. ContextMenu \in Events /\ ContextMenu.kind = "contextmenu" /\ ContextMenu.node = NoNode
  BY <1>3 DEF ContextMenu, Events
<1> QED
  BY <1>3, <1>4, <1>5, <1>6, <1>7, <1>8, <1>9

--------------------------------------------------------------------------------
\* What the user's actions have in common: they may queue an event, open or
\* close a menu, and read the state.
AskStep ==
    /\ Idle
    /\ UNCHANGED <<version, access, gui, panel, workVars, spurious, causes>>
    /\ buttons' \in BOOLEAN
    /\ tree' \in [CurrentAccess : {tree.CurrentAccess}, ActiveFn : {tree.ActiveFn},
                  hover : TreeNodes, HoverTimer : BOOLEAN]
    /\ menu' \in Menus /\ (Gone(menu'.of) => causes # {})
    /\ pending' = pending \/ \E e \in Events :
         /\ pending' = Append(pending, e) /\ e.kind # "rendered"
         /\ Gone(e.node.of) => causes # {} /\ (e.kind # "move" => Seen)
    /\ StaleReadsAreExplained'

LEMMA Asks ==
  ASSUME GraphInv,
         \/ Click \/ ReplayClick \/ CloseMenu \/ ChooseValueNavigation
         \/ RaiseContextMenu \/ ChooseFunctionNavigation
         \/ \E n \in Nodes : OnMouseOver(n)
         \/ OnMouseRightUp \/ OnHover \/ \E n \in TreeNodes : setHoverNode(n)
  PROVE  AskStep
<1> USE DEF GraphInv
<1>1. /\ tree \in [CurrentAccess : Versions \cup {None}, ActiveFn : Versions \cup {None},
                   hover : TreeNodes, HoverTimer : BOOLEAN]
      /\ menu \in Menus /\ buttons \in BOOLEAN
      /\ version \in Versions /\ panel.graph \in Versions \cup {None}
  BY DEF GraphTypes, Trees, Panels, Places
<1>2. Idle => tree.CurrentAccess = version /\ tree.ActiveFn = version
  BY DEF TreeInv, Idle
<1>3. NoNode \in Menus /\ ~Gone(NoNode.of) /\ ~Gone(None) /\ ~Gone(version)
  BY EventTypes DEF Menus, Gone
<1>4. Gone(menu.of) => causes # {}
  BY DEF KeptInv
\* Nothing is read, or something for which there is a reason.
<1>5. ASSUME ReadsNothing PROVE StaleReadsAreExplained' /\ causes' = causes
  BY <1>5 DEF ReadsNothing, StaleReadsAreExplained
<1>6. ASSUME NEW of, raiseMovementEvent(version, of) \/ raiseMovementEvent(tree.CurrentAccess, of)
             \/ raiseMovementEvent(panel.CurrentAccess, of)
      PROVE  pending' = pending \/ pending' = Append(pending, Move(of))
  BY <1>6 DEF raiseMovementEvent
<1>7. ASSUME NEW e \in Events, e.kind # "rendered", pending' = Append(pending, e) \/ pending' = pending,
             Gone(e.node.of) => causes # {} /\ (e.kind # "move" => Seen)
      PROVE  pending' = pending \/ \E e1 \in Events :
               /\ pending' = Append(pending, e1) /\ e1.kind # "rendered"
               /\ Gone(e1.node.of) => causes # {} /\ (e1.kind # "move" => Seen)
  BY <1>7
<1>8. Move(None) \in Events /\ Move(None).kind = "move" /\ Move(None).node.of = None
  BY EventTypes
<1>9. tree \in [CurrentAccess : {tree.CurrentAccess}, ActiveFn : {tree.ActiveFn},
                hover : TreeNodes, HoverTimer : BOOLEAN]
  BY <1>1
<1>11. CASE Click
  <2>1. pending' = pending \/ pending' = Append(pending, Move(None))
    BY <1>6, <1>11 DEF Click
  <2>2. UNCHANGED <<version, access, gui, panel, tree, menu, workVars, spurious>> /\ buttons' = FALSE /\ Idle
    BY <1>11 DEF Click, Input
  <2> QED
    BY <1>1, <1>3, <1>4, <1>5, <1>7, <1>8, <1>9, <1>11, <2>1, <2>2 DEF Click, AskStep, Gone
<1>12. CASE ReplayClick
  <2>1. pending' = pending \/ pending' = Append(pending, Move(None))
    BY <1>6, <1>12 DEF ReplayClick
  <2> QED
    BY <1>1, <1>3, <1>4, <1>5, <1>7, <1>8, <1>9, <1>12, <2>1 DEF ReplayClick, viewVars, AskStep, Gone
<1>13. CASE CloseMenu
  BY <1>1, <1>3, <1>5, <1>9, <1>13 DEF CloseMenu, AskStep, Gone
<1>14. CASE ChooseValueNavigation
  <2>1. pending' = pending \/ pending' = Append(pending, Move(None))
    BY <1>6, <1>14 DEF ChooseValueNavigation
  <2>2. StaleReadsAreExplained' /\ causes' = causes
    BY <1>4, <1>14 DEF ChooseValueNavigation, Reads, StaleReadsAreExplained
  <2> QED
    BY <1>1, <1>3, <1>7, <1>8, <1>9, <1>14, <2>1, <2>2 DEF ChooseValueNavigation, AskStep, Gone
<1>15. CASE RaiseContextMenu
  <2>1. /\ ContextMenu \in Events /\ ContextMenu.kind # "rendered" /\ ~Gone(ContextMenu.node.of)
        /\ pending' = Append(pending, ContextMenu)
    BY <1>3, <1>15, EventTypes DEF RaiseContextMenu
  <2> QED
    BY <1>1, <1>4, <1>5, <1>7, <1>9, <1>15, <2>1 DEF RaiseContextMenu, viewVars, Input, AskStep, Gone
<1>16. CASE ChooseFunctionNavigation
  <2>1. menu.of \in Versions \cup {None}
    BY <1>1, EventTypes DEF Menus, Places
  <2>2. pending' = pending \/ pending' = Append(pending, Move(menu.of))
    BY <1>6, <1>16 DEF ChooseFunctionNavigation
  <2>3. Move(menu.of) \in Events /\ Move(menu.of).kind = "move" /\ Move(menu.of).node.of = menu.of
    BY <2>1, EventTypes
  <2> QED
    BY <1>1, <1>3, <1>4, <1>5, <1>7, <1>9, <1>16, <2>2, <2>3 DEF ChooseFunctionNavigation, AskStep, Gone
<1>17. ASSUME NEW n \in Nodes, OnMouseOver(n) PROVE AskStep
  <2>1. /\ MouseOver(n) \in Events /\ MouseOver(n).kind = "mouseover" /\ MouseOver(n).node = n
        /\ pending' = Append(pending, MouseOver(n))
    BY <1>17, EventTypes DEF OnMouseOver
  <2>2. Gone(n.of) => "late graph" \in causes
    BY <1>3, <1>17 DEF OnMouseOver, KeptInv
  <2>3. Gone(n.of) => causes # {} /\ Seen
    BY <2>2 DEF Seen
  <2> QED
    BY <1>1, <1>4, <1>5, <1>7, <1>9, <1>17, <2>1, <2>3 DEF OnMouseOver, viewVars, Input, AskStep, Gone
<1>18. CASE OnMouseRightUp
  <2>1. menu' = [kind |-> "tree", of |-> IF tree.hover = "value" THEN tree.CurrentAccess ELSE None]
    BY <1>18 DEF OnMouseRightUp
  <2>2. menu' \in Menus /\ ~Gone(menu'.of)
    BY <1>1, <1>2, <1>18, <2>1 DEF OnMouseRightUp, Input, Menus, Places, Gone
  <2> QED
    BY <1>1, <1>5, <1>9, <1>18, <2>2 DEF OnMouseRightUp, Input, AskStep, Gone
<1>19. CASE OnHover
  <2>1. StaleReadsAreExplained' /\ causes' = causes
    BY <1>2, <1>3, <1>5, <1>19 DEF OnHover, Reads, StaleReadsAreExplained
  <2>2. tree' \in [CurrentAccess : {tree.CurrentAccess}, ActiveFn : {tree.ActiveFn},
                  hover : TreeNodes, HoverTimer : BOOLEAN]
    BY <1>1, <1>19 DEF OnHover
  <2> QED
    BY <1>1, <1>4, <1>19, <2>1, <2>2 DEF OnHover, AskStep, Gone
<1>20. ASSUME NEW n \in TreeNodes, setHoverNode(n) PROVE AskStep
  <2>1. StaleReadsAreExplained' /\ causes' = causes
    BY <1>2, <1>3, <1>5, <1>20 DEF setHoverNode, Input, Reads, StaleReadsAreExplained
  <2>2. tree' \in [CurrentAccess : {tree.CurrentAccess}, ActiveFn : {tree.ActiveFn},
                  hover : TreeNodes, HoverTimer : BOOLEAN]
    BY <1>1, <1>20 DEF setHoverNode
  <2> QED
    BY <1>1, <1>4, <1>20, <2>1, <2>2 DEF setHoverNode, Input, AskStep, Gone
<1> QED
  BY <1>11, <1>12, <1>13, <1>14, <1>15, <1>16, <1>17, <1>18, <1>19, <1>20

--------------------------------------------------------------------------------
(* The handlers of the queued events, one by one. *)

Handles(kind) ==
    /\ Idle /\ pending # <<>> /\ pending' = Tail(pending) /\ Head(pending).kind = kind
    /\ UNCHANGED <<version, buttons, spurious>>

HandleMove ==
    /\ Handles("move") /\ OnMove(Head(pending))
    /\ UNCHANGED <<menu, worker, missed, failed>>
HandleRendered ==
    /\ Handles("rendered") /\ OnGraphRendered(Head(pending).node.of)
    /\ UNCHANGED <<access, gui, tree, menu, workVars>>
HandleMouseOver ==
    /\ Handles("mouseover") /\ OnMouseOverDisplayable(Head(pending).node)
    /\ UNCHANGED <<access, gui, tree, menu, workVars>>
HandleContextMenu ==
    /\ Handles("contextmenu") /\ OnContextMenu
    /\ UNCHANGED <<access, gui, panel, tree, workVars>>
IgnoreContextMenu ==
    /\ Handles("contextmenu") /\ ReadsNothing
    /\ UNCHANGED <<access, gui, viewVars, workVars>>

GraphCase ==
    \/ AskStep \/ ChooseLayout \/ CloseFrame
    \/ HandleMove \/ HandleRendered \/ HandleMouseOver \/ HandleContextMenu \/ IgnoreContextMenu
    \/ invalidateWoken \/ MoveEnds \/ showGraph \/ DestroyPanel \/ Joined
    \/ WorkerWaits \/ workerGenerateDot \/ LayoutEnds \/ DotEnds
    \/ WorkerSpurious \/ invalidateSpurious
    \/ UNCHANGED graphVars

LEMMA GraphCases ==
  ASSUME GraphInv, [GraphNext]_graphVars
  PROVE  GraphCase
<1>1. CASE \/ Click \/ ReplayClick \/ CloseMenu \/ ChooseValueNavigation
           \/ RaiseContextMenu \/ ChooseFunctionNavigation
           \/ \E n \in Nodes : OnMouseOver(n)
           \/ OnMouseRightUp \/ OnHover \/ \E n \in TreeNodes : setHoverNode(n)
  BY <1>1, Asks DEF GraphCase
<1>2. CASE Dispatch
  BY <1>2 DEF GraphCase, Dispatch, viewVars, Handles, HandleMove, HandleRendered, HandleMouseOver,
              HandleContextMenu, IgnoreContextMenu
<1> QED
  BY <1>1, <1>2 DEF GraphCase, GraphNext, CommonInput, GraphInput, TreeInput, GuiNext, WorkerNext,
                    SpuriousNext

\* The first of the queued events, and the others.
LEMMA QueueTypes ==
  ASSUME GraphInv
  PROVE  /\ pending \in Seq(Events) /\ Len(pending) \in Nat /\ DOMAIN pending = 1..Len(pending)
         /\ pending # <<>> =>
              /\ Len(pending) >= 1
              /\ Head(pending) = pending[1] /\ Head(pending) \in Events
              /\ Tail(pending) \in Seq(Events) /\ DOMAIN Tail(pending) = 1..(Len(pending) - 1)
              /\ \A i \in DOMAIN Tail(pending) :
                   i + 1 \in DOMAIN pending /\ Tail(pending)[i] = pending[i + 1]
         /\ \A e : /\ DOMAIN Append(pending, e) = 1..(Len(pending) + 1)
                   /\ \A i \in DOMAIN pending : Append(pending, e)[i] = pending[i]
                   /\ Append(pending, e)[Len(pending) + 1] = e
         /\ \A e \in Events : Append(pending, e) \in Seq(Events)
<1>1. pending \in Seq(Events)
  BY DEF GraphInv, GraphTypes
<1>2. Len(pending) \in Nat /\ DOMAIN pending = 1..Len(pending)
  BY <1>1
<1>3. ASSUME pending # <<>>
      PROVE  /\ Len(pending) >= 1
             /\ Head(pending) = pending[1] /\ Head(pending) \in Events
             /\ Tail(pending) \in Seq(Events) /\ DOMAIN Tail(pending) = 1..(Len(pending) - 1)
             /\ \A i \in DOMAIN Tail(pending) :
                  i + 1 \in DOMAIN pending /\ Tail(pending)[i] = pending[i + 1]
  BY <1>1, <1>2, <1>3
<1>4. ASSUME NEW e
      PROVE  /\ DOMAIN Append(pending, e) = 1..(Len(pending) + 1)
             /\ \A i \in DOMAIN pending : Append(pending, e)[i] = pending[i]
             /\ Append(pending, e)[Len(pending) + 1] = e
  BY <1>1, <1>2
<1>5. \A e \in Events : Append(pending, e) \in Seq(Events)
  BY <1>1
<1> QED
  BY <1>1, <1>2, <1>3, <1>4, <1>5

LEMMA VersionTypes ==
  ASSUME GraphInv
  PROVE  /\ None = -1 /\ None \notin Versions /\ version \in Versions /\ version \in Nat
         /\ Versions \subseteq Nat /\ 0 \in Versions
         /\ version < MaxMoves => version + 1 \in Versions
<1>1. version \in Versions
  BY DEF GraphInv, GraphTypes
<1> QED
  BY <1>1, GraphBounds DEF Versions, None

\* What getAccess(), releaseAccess() and invalidate() leave is a token.
LEMMA TokenTypes ==
  ASSUME NEW t \in Token
  PROVE  /\ acquireAccess(t) \in Token /\ invalidate(t) \in Token
         /\ acquireAccess(t).Valid = t.Valid /\ releaseAccess(t).Valid = t.Valid
         /\ t.Valid => acquireAccess(t).Count = t.Count + 1
         /\ invalidate(t).Count = t.Count /\ invalidate(t).Valid = FALSE
         /\ t.Count = 1 => releaseAccess(t) \in Token /\ releaseAccess(t).Count = 0
<1>1. t.Count \in Nat /\ t.Valid \in BOOLEAN
  BY DEF Token
<1>2. acquireAccess(t) \in Token /\ acquireAccess(t).Valid = t.Valid
      /\ (t.Valid => acquireAccess(t).Count = t.Count + 1)
  BY <1>1 DEF Token, acquireAccess
<1>3. invalidate(t) \in Token /\ invalidate(t).Count = t.Count /\ invalidate(t).Valid = FALSE
  BY DEF Token, invalidate
<1>4. releaseAccess(t).Valid = t.Valid
  BY DEF Token, releaseAccess
<1>5. t.Count = 1 => releaseAccess(t) \in Token /\ releaseAccess(t).Count = 0
  BY <1>1 DEF Token, releaseAccess
<1> QED
  BY <1>2, <1>3, <1>4, <1>5

LEMMA GraphTypesOK == GraphTypes => GraphTypeOK
<1> SUFFICES ASSUME GraphTypes PROVE GraphTypeOK
  OBVIOUS
<1>1. DOMAIN access = Versions /\ \A v \in Versions : IsToken(access[v])
  BY DEF GraphTypes, Token, IsToken
<1>2. \A i \in DOMAIN pending : pending[i] \in Events
  <2>1. pending \in Seq(Events)
    BY DEF GraphTypes
  <2> QED
    BY <2>1
<1> QED
  BY <1>1, <1>2 DEF GraphTypes, GraphTypeOK, Menus, Panels, Trees, Tasks, GraphWorkers, Places

\* A task and a notification leave the worker well-formed.
LEMMA NotifiedWorker ==
  ASSUME GraphTypes, notify_one
  PROVE  /\ worker' \in GraphWorkers /\ missed' \in BOOLEAN /\ worker'.of = worker.of
         /\ worker'.pc = IF worker.pc = "waiting" THEN "woken" ELSE worker.pc
         /\ missed' <=> worker.pc \notin {"waiting", "woken"}
         /\ worker'.pc \in {"layout", "dot"} => worker'.of \in Versions
<1>1. worker' \in GraphWorkers /\ worker'.of = worker.of
      /\ worker'.pc = IF worker.pc = "waiting" THEN "woken" ELSE worker.pc
  BY DEF GraphTypes, notify_one, GraphWorkers
<1>2. missed' \in BOOLEAN /\ (missed' <=> worker.pc \notin {"waiting", "woken"})
  BY DEF notify_one
<1> QED
  BY <1>1, <1>2 DEF GraphTypes

LEMMA TypesStep ==
  ASSUME GraphInv, GraphCase
  PROVE  GraphTypes'
<1>0. GraphTypes /\ version \in Places /\ None \in Places
  BY DEF GraphInv, GraphTypes, Places
<1>1. CASE AskStep
  <2>1. pending' \in Seq(Events)
    BY <1>1, QueueTypes DEF AskStep
  <2>2. tree' \in Trees
    BY <1>0, <1>1 DEF AskStep, GraphTypes, Trees
  <2> QED
    BY <1>0, <1>1, <2>1, <2>2 DEF AskStep, GraphTypes, workVars
<1>2. CASE ChooseLayout
  <2>1. task' \in Tasks
    BY <1>0, <1>2 DEF ChooseLayout, renderGraph, GraphTypes, Tasks, Panels
  <2>2. panel' \in Panels
    BY <1>0, <1>2 DEF ChooseLayout, GraphTypes, Panels
  <2>3. notify_one /\ failed' = FALSE
    BY <1>2 DEF ChooseLayout, renderGraph
  <2>4. UNCHANGED <<version, access, gui, pending, buttons, tree, spurious, causes>> /\ menu' = NoNode
    BY <1>2 DEF ChooseLayout, Reads
  <2>5. menu' \in Menus
    BY <2>4, EventTypes DEF Menus
  <2> QED
    BY <1>0, <2>1, <2>2, <2>3, <2>4, <2>5, NotifiedWorker DEF GraphTypes
<1>3. CASE CloseFrame
  <2>1. <<>> \in Seq(Events)
    OBVIOUS
  <2> QED
    BY <1>0, <1>3, <2>1 DEF CloseFrame, ReadsNothing, GraphTypes, viewVars, workVars
<1>H. ASSUME NEW k, Handles(k)
      PROVE  /\ Head(pending) \in Events /\ Head(pending).kind = k
             /\ pending' \in Seq(Events)
             /\ version' = version /\ buttons' = buttons /\ spurious' = spurious
  BY <1>H, QueueTypes DEF Handles
<1>4. CASE HandleMove
  <2>1. tree' \in Trees
    BY <1>0, <1>4 DEF HandleMove, OnMove, treeClear, TreeNodes, GraphTypes, Trees
  <2>2. panel' \in Panels
    BY <1>0, <1>4, EventTypes DEF HandleMove, OnMove, GraphTypes, Panels
  <2>3. task' \in Tasks
    BY <1>0, <1>4 DEF HandleMove, OnMove, GraphTypes, Tasks
  <2>4. access' \in [Versions -> Token]
    BY <1>0, <1>4 DEF HandleMove, OnMove, invalidate, GraphTypes, Token
  <2>5. gui' \in {"waiting", "moving"}
    BY <1>4 DEF HandleMove, OnMove
  <2>6. causes' \subseteq {"late graph", "queued event", "open menu"}
    BY <1>0, <1>4 DEF HandleMove, OnMove, GraphTypes
  <2>7. Handles("move") /\ UNCHANGED <<menu, worker, missed, failed>>
    BY <1>4 DEF HandleMove
  <2> QED
    BY <1>0, <1>H, <2>1, <2>2, <2>3, <2>4, <2>5, <2>6, <2>7 DEF GraphTypes
<1>5. CASE HandleRendered
  <2>1. Handles("rendered") /\ UNCHANGED <<access, gui, tree, menu, task, worker, missed, failed>>
    BY <1>5 DEF HandleRendered, workVars
  <2>2. Head(pending).node.of \in Places
    BY <1>H, <2>1, EventTypes DEF Places
  <2>3. panel' \in Panels
    BY <1>0, <1>5, <2>2 DEF HandleRendered, OnGraphRendered, GraphTypes, Panels
  <2>4. causes' \subseteq {"late graph", "queued event", "open menu"}
    BY <1>0, <1>5 DEF HandleRendered, OnGraphRendered, GraphTypes
  <2> QED
    BY <1>0, <1>H, <2>1, <2>3, <2>4 DEF GraphTypes
<1>6. CASE HandleMouseOver
  <2>1. Handles("mouseover") /\ UNCHANGED <<access, gui, tree, menu, task, worker, missed, failed>>
    BY <1>6 DEF HandleMouseOver, workVars
  <2>2. Head(pending).node \in Nodes
    BY <1>H, <2>1, EventTypes
  <2>3. panel' \in Panels
    BY <1>0, <1>6, <2>2 DEF HandleMouseOver, OnMouseOverDisplayable, GraphTypes, Panels
  <2>4. causes' = causes
    BY <1>6 DEF HandleMouseOver, OnMouseOverDisplayable, Reads, ReadsNothing
  <2> QED
    BY <1>0, <1>H, <2>1, <2>3, <2>4 DEF GraphTypes
<1>7. CASE HandleContextMenu
  <2>1. Handles("contextmenu") /\ UNCHANGED <<access, gui, panel, tree, task, worker, missed, failed>>
    BY <1>7 DEF HandleContextMenu, workVars
  <2>2. menu' \in Menus
    BY <1>0, <1>7 DEF HandleContextMenu, OnContextMenu, GraphTypes, Panels, Menus
  <2>3. causes' = causes
    BY <1>7 DEF HandleContextMenu, OnContextMenu, Reads
  <2> QED
    BY <1>0, <1>H, <2>1, <2>2, <2>3 DEF GraphTypes
<1>8. CASE IgnoreContextMenu
  <2>1. /\ Handles("contextmenu") /\ causes' = causes
        /\ UNCHANGED <<access, gui, panel, tree, menu, task, worker, missed, failed>>
    BY <1>8 DEF IgnoreContextMenu, viewVars, workVars, ReadsNothing
  <2> QED
    BY <1>0, <1>H, <2>1 DEF GraphTypes
<1>9. CASE invalidateWoken
  <2>1. access' \in [Versions -> Token]
    BY <1>0, <1>9 DEF invalidateWoken, invalidate, GraphTypes, Token
  <2> QED
    BY <1>0, <1>9, <2>1 DEF invalidateWoken, ReadsNothing, viewVars, workVars, GraphTypes
<1>10. CASE MoveEnds
  <2>1. version' \in Versions /\ version' \in Places
    BY <1>10, VersionTypes DEF MoveEnds, Places
  <2>2. tree' \in Trees
    BY <1>0, <1>10, <2>1 DEF MoveEnds, treeShow, TreeNodes, GraphTypes, Trees
  <2> QED
    BY <1>0, <1>10, <2>1, <2>2 DEF MoveEnds, ReadsNothing, workVars, GraphTypes
<1>11. CASE showGraph
  <2>1. task' \in Tasks
    BY <1>0, <1>11 DEF showGraph, renderGraph, Tasks
  <2>2. panel' \in Panels
    BY <1>0, <1>11, EventTypes DEF showGraph, Panels
  <2>3. notify_one /\ failed' = FALSE
    BY <1>11 DEF showGraph, renderGraph
  <2> QED
    BY <1>0, <1>11, <2>1, <2>2, <2>3, NotifiedWorker DEF showGraph, ReadsNothing, GraphTypes
<1>12. CASE DestroyPanel
  <2>1. task' \in Tasks
    BY <1>0, <1>12 DEF DestroyPanel, GraphTypes, Tasks
  <2>2. notify_one
    BY <1>12 DEF DestroyPanel
  <2> QED
    BY <1>0, <1>12, <2>1, <2>2, NotifiedWorker DEF DestroyPanel, ReadsNothing, viewVars, GraphTypes
<1>13. CASE Joined
  BY <1>0, <1>13 DEF Joined, ReadsNothing, viewVars, workVars, GraphTypes
<1>14. CASE WorkerWaits
  <2>1. worker' \in GraphWorkers /\ worker'.pc = "waiting"
    BY <1>0, <1>14 DEF WorkerWaits, GraphTypes, GraphWorkers
  <2> QED
    BY <1>0, <1>14, <2>1 DEF WorkerWaits, ReadsNothing, viewVars, GraphTypes
<1>15. CASE workerGenerateDot
  <2>1. task.Access # None => task.Access \in Versions
    BY <1>0 DEF GraphTypes, Tasks, Places
  <2>2. access' \in [Versions -> Token]
    <3>1. task.Access # None => acquireAccess(access[task.Access]) \in Token
      BY <1>0, <2>1, TokenTypes DEF GraphTypes
    <3> QED
      BY <1>0, <1>15, <2>1, <3>1 DEF workerGenerateDot, GraphTypes
  <2>3. worker' \in GraphWorkers /\ (worker'.pc \in {"layout", "dot"} => worker'.of \in Versions)
    <3>1. \/ worker' = [worker EXCEPT !.pc = "exited"]
          \/ worker' = [worker EXCEPT !.pc = "start"]
          \/ task.Access # None /\ worker' = [pc |-> "layout", of |-> task.Access]
      BY <1>15 DEF workerGenerateDot
    <3>2. worker \in GraphWorkers
      BY <1>0 DEF GraphTypes
    <3>3. CASE worker' = [worker EXCEPT !.pc = "exited"]
      BY <3>2, <3>3 DEF GraphWorkers
    <3>4. CASE worker' = [worker EXCEPT !.pc = "start"]
      BY <3>2, <3>4 DEF GraphWorkers
    <3>5. CASE task.Access # None /\ worker' = [pc |-> "layout", of |-> task.Access]
      BY <2>1, <3>5 DEF GraphWorkers, Places
    <3> QED
      BY <3>1, <3>3, <3>4, <3>5
  <2> QED
    BY <1>0, <1>15, <2>2, <2>3 DEF workerGenerateDot, ReadsNothing, viewVars, GraphTypes
<1>16. CASE LayoutEnds
  <2>1. worker.of \in Versions /\ access[worker.of].Count = 1
    BY <1>0, <1>16 DEF LayoutEnds, GraphTypes, GraphInv, TokenInv
  <2>2. access' \in [Versions -> Token]
    <3>1. releaseAccess(access[worker.of]) \in Token
      BY <1>0, <2>1, TokenTypes DEF GraphTypes
    <3> QED
      BY <1>0, <1>16, <2>1, <3>1 DEF LayoutEnds, GraphTypes
  <2>3. worker' \in GraphWorkers /\ worker'.of = worker.of
    BY <1>0, <1>16 DEF LayoutEnds, GraphTypes, GraphWorkers
  <2>4. gui' \in {gui, "woken"}
    BY <1>16 DEF LayoutEnds
  <2> QED
    BY <1>0, <1>16, <2>1, <2>2, <2>3, <2>4 DEF LayoutEnds, ReadsNothing, viewVars, GraphTypes
<1>17. CASE DotEnds
  <2>1. Rendered(worker.of) \in Events
    BY <1>0, <1>17, EventTypes DEF DotEnds, GraphTypes
  <2>2. pending' \in Seq(Events)
    BY <1>17, <2>1, QueueTypes DEF DotEnds
  <2>3. worker' \in GraphWorkers /\ worker'.pc = "start"
    BY <1>0, <1>17 DEF DotEnds, GraphTypes, GraphWorkers
  <2> QED
    BY <1>0, <1>17, <2>2, <2>3 DEF DotEnds, ReadsNothing, viewVars, GraphTypes
<1>18. CASE WorkerSpurious
  <2>1. spurious' \in 0..MaxSpurious
    <3>1. spurious \in 0..MaxSpurious /\ spurious < MaxSpurious /\ spurious' = spurious + 1
      BY <1>0, <1>18 DEF WorkerSpurious, GraphTypes
    <3> QED
      BY <3>1, GraphBounds
  <2>2. worker' \in GraphWorkers /\ worker'.pc = "woken"
    BY <1>0, <1>18 DEF WorkerSpurious, GraphTypes, GraphWorkers
  <2> QED
    BY <1>0, <1>18, <2>1, <2>2 DEF WorkerSpurious, ReadsNothing, viewVars, GraphTypes
<1>19. CASE invalidateSpurious
  <2>1. spurious' \in 0..MaxSpurious
    <3>1. spurious \in 0..MaxSpurious /\ spurious < MaxSpurious /\ spurious' = spurious + 1
      BY <1>0, <1>19 DEF invalidateSpurious, GraphTypes
    <3> QED
      BY <3>1, GraphBounds
  <2> QED
    BY <1>0, <1>19, <2>1 DEF invalidateSpurious, ReadsNothing, viewVars, workVars, GraphTypes
<1>20. CASE UNCHANGED graphVars
  BY <1>0, <1>20 DEF graphVars, viewVars, workVars, seenVars, GraphTypes
<1> QED
  BY <1>1, <1>2, <1>3, <1>4, <1>5, <1>6, <1>7, <1>8, <1>9, <1>10, <1>11, <1>12, <1>13, <1>14, <1>15,
     <1>16, <1>17, <1>18, <1>19, <1>20 DEF GraphCase
\* What a step of the worker does to the worker.
LEMMA WorkerTypes ==
  ASSUME GraphInv
  PROVE  /\ worker \in GraphWorkers
         /\ \A pc1 : [worker EXCEPT !.pc = pc1].pc = pc1 /\ [worker EXCEPT !.pc = pc1].of = worker.of
         /\ access \in [Versions -> Token] /\ \A v \in Versions : access[v] \in Token
         /\ task.Access # None => task.Access \in Versions
         /\ worker.pc \in {"layout", "dot"} => worker.of \in Versions
BY DEF GraphInv, GraphTypes, GraphWorkers, Tasks, Places

LEMMA TokenStep ==
  ASSUME GraphInv, GraphCase
  PROVE  TokenInv'
<1>0. TokenInv /\ GraphTypes
  BY DEF GraphInv
<1>1. ASSUME UNCHANGED <<version, access, gui>>, worker'.of = worker.of,
             worker'.pc = "layout" <=> worker.pc = "layout"
      PROVE  TokenInv'
  BY <1>0, <1>1 DEF TokenInv
<1>2. CASE AskStep
  BY <1>1, <1>2 DEF AskStep, workVars
<1>3. CASE ChooseLayout
  BY <1>0, <1>1, <1>3, NotifiedWorker DEF ChooseLayout, renderGraph
<1>4. CASE CloseFrame
  BY <1>0, <1>4 DEF CloseFrame, workVars, Idle, TokenInv
<1>5. CASE HandleMove
  <2>1. version' = version /\ worker' = worker /\ Idle /\ version \in Versions /\ access[version] \in Token
    BY <1>5, VersionTypes, WorkerTypes DEF HandleMove, Handles
  <2>2. CASE gui' = "waiting" /\ UNCHANGED access
    BY <1>0, <2>1, <2>2 DEF TokenInv, Idle
  <2>3. CASE gui' = "moving" /\ access' = [access EXCEPT ![version] = invalidate(@)]
    <3>1. access'[version] = invalidate(access[version])
      BY <2>1, <2>3, WorkerTypes
    <3>2. access'[version].Count = access[version].Count /\ ~access'[version].Valid
      BY <2>1, <3>1 DEF Token, invalidate
    <3>3. \A v \in Versions \ {version} : access'[v] = access[v]
      BY <2>3, WorkerTypes
    <3> QED
      BY <1>0, <2>1, <2>3, <3>2, <3>3, VersionTypes DEF TokenInv, Idle
  <2> QED
    BY <1>5, <2>2, <2>3 DEF HandleMove, OnMove
<1>6. CASE HandleRendered \/ HandleMouseOver \/ HandleContextMenu \/ IgnoreContextMenu
  BY <1>1, <1>6 DEF HandleRendered, HandleMouseOver, HandleContextMenu, IgnoreContextMenu, Handles, workVars
<1>7. CASE invalidateWoken
  <2>1. /\ version' = version /\ worker' = worker /\ version \in Versions /\ access[version] \in Token
        /\ gui' = "moving" /\ access' = [access EXCEPT ![version] = invalidate(@)]
    BY <1>7, VersionTypes, WorkerTypes DEF invalidateWoken, workVars
  <2>2. access'[version] = invalidate(access[version])
    BY <2>1, WorkerTypes
  <2>3. access'[version].Count = access[version].Count /\ ~access'[version].Valid
    BY <2>1, <2>2 DEF Token, invalidate
  <2>4. \A v \in Versions \ {version} : access'[v] = access[v]
    BY <2>1, WorkerTypes
  <2>5. gui = "woken"
    BY <1>7 DEF invalidateWoken
  <2> QED
    BY <1>0, <2>1, <2>3, <2>4, <2>5, VersionTypes DEF TokenInv
<1>8. CASE MoveEnds
  <2>1. /\ version' = version + 1 /\ gui = "moving" /\ gui' = "show"
        /\ access' = access /\ worker' = worker
    BY <1>8 DEF MoveEnds, workVars
  <2>2. \A v \in Versions : version < v <=> version' < v \/ v = version'
    BY <2>1, VersionTypes
  <2> QED
    BY <1>0, <2>1, <2>2, VersionTypes DEF TokenInv
<1>9. CASE showGraph
  <2>1. /\ UNCHANGED <<version, access>> /\ worker'.of = worker.of /\ gui = "show" /\ gui' = "idle"
        /\ worker'.pc = "layout" <=> worker.pc = "layout"
    BY <1>0, <1>9, NotifiedWorker DEF showGraph, renderGraph
  <2> QED
    BY <1>0, <2>1 DEF TokenInv
<1>10. CASE DestroyPanel
  <2>1. /\ UNCHANGED <<version, access>> /\ worker'.of = worker.of /\ gui = "freed" /\ gui' = "joining"
        /\ worker'.pc = "layout" <=> worker.pc = "layout"
    BY <1>0, <1>10, NotifiedWorker DEF DestroyPanel
  <2> QED
    BY <1>0, <2>1 DEF TokenInv
<1>11. CASE Joined
  BY <1>0, <1>11 DEF Joined, workVars, TokenInv
<1>12. CASE WorkerWaits \/ WorkerSpurious \/ DotEnds
  BY <1>1, <1>12, WorkerTypes DEF WorkerWaits, WorkerSpurious, DotEnds
<1>13. CASE workerGenerateDot
  <2>1. UNCHANGED <<version, gui>> /\ worker.pc = "woken"
    BY <1>13 DEF workerGenerateDot
  <2>2. CASE UNCHANGED access /\ \E p \in {"start", "exited"} : worker' = [worker EXCEPT !.pc = p]
    BY <1>1, <2>1, <2>2, WorkerTypes
  <2>3. CASE /\ task.Access # None /\ HasAccess(access[task.Access])
             /\ access' = [access EXCEPT ![task.Access] = acquireAccess(@)]
             /\ worker' = [pc |-> "layout", of |-> task.Access]
    <3>1. access[task.Access] \in Token /\ access[task.Access].Valid /\ task.Access \in Versions
          /\ access[task.Access].Count = 0
      BY <1>0, <2>1, <2>3, WorkerTypes DEF HasAccess, TokenInv
    <3>2. access'[task.Access].Count = 1 /\ access'[task.Access].Valid = access[task.Access].Valid
      <4>1. access'[task.Access] = acquireAccess(access[task.Access])
        BY <2>3, <3>1, WorkerTypes
      <4> QED
        <5> DEFINE c == access[task.Access]
        <5>1. c \in Token /\ c.Valid /\ c.Count = 0
          BY <3>1
        <5> HIDE DEF c
        <5>2. acquireAccess(c) = [c EXCEPT !.Count = 1]
          BY <5>1 DEF acquireAccess
        <5>3. [c EXCEPT !.Count = 1].Count = 1 /\ [c EXCEPT !.Count = 1].Valid = c.Valid
          BY <5>1 DEF Token
        <5> QED
          BY <4>1, <5>2, <5>3 DEF c
    <3>3. \A v \in Versions \ {task.Access} : access'[v] = access[v]
      BY <2>3, WorkerTypes
    <3> QED
      BY <1>0, <2>1, <2>3, <3>2, <3>3 DEF TokenInv
  <2> QED
    BY <1>13, <2>2, <2>3 DEF workerGenerateDot
<1>14. CASE LayoutEnds
  <2>1. /\ worker.pc = "layout" /\ worker.of \in Versions /\ version' = version
        /\ access[worker.of] \in Token /\ access[worker.of].Count = 1
        /\ access' = [access EXCEPT ![worker.of] = releaseAccess(@)]
        /\ gui' = gui \/ (gui = "waiting" /\ gui' = "woken")
    BY <1>0, <1>14, WorkerTypes DEF LayoutEnds, TokenInv
  <2>2. worker'.pc \in {"dot", "start"}
    BY <1>14, WorkerTypes DEF LayoutEnds
  <2>3. access'[worker.of].Count = 0 /\ access'[worker.of].Valid = access[worker.of].Valid
    BY <2>1, TokenTypes, WorkerTypes
  <2>4. \A v \in Versions \ {worker.of} : access'[v] = access[v]
    BY <2>1, WorkerTypes
  <2> QED
    BY <1>0, <2>1, <2>2, <2>3, <2>4 DEF TokenInv
<1>15. CASE invalidateSpurious
  BY <1>0, <1>15 DEF invalidateSpurious, workVars, TokenInv
<1>16. CASE UNCHANGED graphVars
  BY <1>1, <1>16 DEF graphVars, workVars
<1> QED
  BY <1>2, <1>3, <1>4, <1>5, <1>6, <1>7, <1>8, <1>9, <1>10, <1>11, <1>12, <1>13, <1>14, <1>15, <1>16
     DEF GraphCase

LEMMA TaskStep ==
  ASSUME GraphInv, GraphCase
  PROVE  TaskInv'
<1>0. TaskInv /\ GraphTypes /\ version \in Nat /\ None <= version
  BY VersionTypes DEF GraphInv
<1>1. ASSUME UNCHANGED <<version, task>>,
             \/ gui' = gui
             \/ gui' = "freed"
             \/ gui = "joining" /\ gui' = "closed"
             \/ gui \in {"waiting", "woken"} /\ gui' \in {"woken", "moving"}
      PROVE  TaskInv'
  BY <1>0, <1>1 DEF TaskInv
<1>2. CASE AskStep
  BY <1>1, <1>2 DEF AskStep, workVars
<1>3. CASE ChooseLayout
  <2>1. panel.CurrentAccess <= version
    BY <1>0, <1>3, VersionTypes DEF ChooseLayout, GraphInv, AskedInv, Idle
  <2>2. task' = [Access |-> panel.CurrentAccess, ContinueGraphGeneration |-> TRUE]
        /\ version' = version /\ gui' = "idle"
    BY <1>3 DEF ChooseLayout, renderGraph, Idle
  <2> QED
    BY <2>1, <2>2 DEF TaskInv
<1>4. CASE CloseFrame \/ Joined \/ invalidateWoken \/ invalidateSpurious
  BY <1>1, <1>4 DEF CloseFrame, Joined, invalidateWoken, invalidateSpurious, workVars
<1>5. CASE HandleMove
  <2>1. /\ version' = version /\ gui' \in {"waiting", "moving"}
        /\ task' = [task EXCEPT !.ContinueGraphGeneration = FALSE]
    BY <1>5 DEF HandleMove, Handles, OnMove
  <2>2. task'.Access = task.Access /\ task'.ContinueGraphGeneration = FALSE
    BY <1>0, <2>1 DEF GraphTypes, Tasks
  <2> QED
    BY <1>0, <2>1, <2>2 DEF TaskInv
<1>6. CASE HandleRendered \/ HandleMouseOver \/ HandleContextMenu \/ IgnoreContextMenu
  BY <1>1, <1>6 DEF HandleRendered, HandleMouseOver, HandleContextMenu, IgnoreContextMenu, Handles, workVars
<1>7. CASE MoveEnds
  <2>1. version' = version + 1 /\ gui = "moving" /\ gui' = "show" /\ task' = task
    BY <1>7 DEF MoveEnds, workVars
  <2>2. task.Access \in Int
    BY <1>0, VersionTypes, WorkerTypes
  <2> QED
    BY <1>0, <2>1, <2>2 DEF TaskInv
<1>8. CASE showGraph
  <2>1. version' = version /\ gui' = "idle" /\ task' = [Access |-> version, ContinueGraphGeneration |-> TRUE]
    BY <1>8 DEF showGraph, renderGraph
  <2> QED
    BY <1>0, <2>1 DEF TaskInv
<1>9. CASE DestroyPanel
  <2>1. version' = version /\ gui' = "joining" /\ task' = [task EXCEPT !.Access = None]
    BY <1>9 DEF DestroyPanel
  <2>2. task'.Access = None
    BY <1>0, <2>1 DEF GraphTypes, Tasks
  <2> QED
    BY <1>0, <2>1, <2>2 DEF TaskInv
<1>10. CASE WorkerWaits \/ WorkerSpurious \/ DotEnds \/ workerGenerateDot \/ LayoutEnds
  BY <1>1, <1>10 DEF WorkerWaits, WorkerSpurious, DotEnds, workerGenerateDot, LayoutEnds
<1>11. CASE UNCHANGED graphVars
  BY <1>1, <1>11 DEF graphVars, workVars
<1> QED
  BY <1>2, <1>3, <1>4, <1>5, <1>6, <1>7, <1>8, <1>9, <1>10, <1>11 DEF GraphCase

\* Only the token of the present state gives access, so that the worker lays
\* out no other; a movement that finds it reading waits.
LEMMA LayoutStep ==
  ASSUME GraphInv, GraphCase
  PROVE  LayoutInv'
<1>0. LayoutInv /\ TokenInv /\ TaskInv /\ GraphTypes
  BY DEF GraphInv
<1>S. spurious \in Nat
  <2>1. spurious \in 0..MaxSpurious
    BY <1>0 DEF GraphTypes
  <2> QED
    BY <2>1, GraphBounds
<1>1. ASSUME UNCHANGED <<version, spurious, gui>>,
             worker'.pc = "layout" => worker.pc = "layout" /\ worker'.of = worker.of
      PROVE  LayoutInv'
  BY <1>0, <1>1 DEF LayoutInv
<1>2. ASSUME worker'.pc # "layout"
      PROVE  LayoutInv'
  BY <1>2 DEF LayoutInv
<1>3. CASE AskStep
  BY <1>1, <1>3 DEF AskStep, workVars
<1>4. CASE ChooseLayout
  BY <1>0, <1>1, <1>4, NotifiedWorker DEF ChooseLayout, renderGraph
<1>5. CASE CloseFrame
  BY <1>5 DEF CloseFrame, LayoutInv
<1>6. CASE HandleMove
  <2>1. version' = version /\ worker' = worker /\ Idle /\ version \in Versions /\ spurious' = spurious
    BY <1>6, VersionTypes DEF HandleMove, Handles
  <2>2. worker.pc = "layout" /\ worker.of = version => gui' = "waiting"
    <3>1. SUFFICES ASSUME worker.pc = "layout", worker.of = version PROVE MustWait(access[version])
      BY <1>6 DEF HandleMove, OnMove
    <3>2. access[version].Count = 1 /\ access[version].Valid
      BY <1>0, <2>1, <3>1 DEF TokenInv, Idle
    <3> QED
      BY <3>2 DEF MustWait
  <2> QED
    BY <1>0, <2>1, <2>2 DEF LayoutInv, Idle
<1>7. CASE HandleRendered \/ HandleMouseOver \/ HandleContextMenu \/ IgnoreContextMenu
  BY <1>1, <1>7 DEF HandleRendered, HandleMouseOver, HandleContextMenu, IgnoreContextMenu, Handles, workVars
<1>8. CASE invalidateWoken
  BY <1>0, <1>8 DEF invalidateWoken, workVars, LayoutInv
<1>9. CASE MoveEnds
  BY <1>0, <1>9 DEF MoveEnds, workVars, LayoutInv
<1>10. CASE showGraph
  BY <1>0, <1>2, <1>10, NotifiedWorker DEF showGraph, renderGraph, TaskMutexFree
<1>11. CASE DestroyPanel
  BY <1>0, <1>2, <1>11, NotifiedWorker DEF DestroyPanel, TaskMutexFree
<1>12. CASE Joined
  BY <1>2, <1>12 DEF Joined, workVars
<1>13. CASE WorkerWaits \/ WorkerSpurious \/ DotEnds \/ LayoutEnds
  <2>1. CASE WorkerWaits
    BY <1>2, <2>1, WorkerTypes DEF WorkerWaits
  <2>2. CASE WorkerSpurious
    BY <1>2, <2>2, WorkerTypes DEF WorkerSpurious
  <2>3. CASE DotEnds
    BY <1>2, <2>3, WorkerTypes DEF DotEnds
  <2>4. CASE LayoutEnds
    BY <1>2, <2>4, WorkerTypes DEF LayoutEnds
  <2> QED
    BY <1>13, <2>1, <2>2, <2>3, <2>4
<1>14. CASE workerGenerateDot
  <2>1. UNCHANGED <<version, gui, spurious>> /\ worker.pc = "woken"
    BY <1>14 DEF workerGenerateDot
  <2>2. CASE \E p \in {"start", "exited"} : worker' = [worker EXCEPT !.pc = p]
    BY <1>2, <2>2, WorkerTypes
  <2>3. CASE /\ task.Access # None /\ HasAccess(access[task.Access]) /\ task.ContinueGraphGeneration
             /\ worker' = [pc |-> "layout", of |-> task.Access]
    <3>1. task.Access \in Versions /\ access[task.Access].Valid
      BY <2>3, WorkerTypes DEF HasAccess
    <3>2. version < task.Access \/ task.Access = version
      BY <1>0, <3>1 DEF TokenInv
    <3>3. task.Access = version
      BY <1>0, <3>1, <3>2, VersionTypes DEF TaskInv
    <3>4. gui \in {"idle", "freed"}
      BY <1>0, <2>3 DEF TaskInv, GraphTypes
    <3> QED
      BY <2>1, <2>3, <3>3, <3>4 DEF LayoutInv
  <2> QED
    BY <1>14, <2>2, <2>3 DEF workerGenerateDot
<1>15. CASE invalidateSpurious
  BY <1>S, <1>15 DEF invalidateSpurious, LayoutInv
<1>16. CASE UNCHANGED graphVars
  BY <1>1, <1>16 DEF graphVars, workVars
<1> QED
  BY <1>3, <1>4, <1>5, <1>6, <1>7, <1>8, <1>9, <1>10, <1>11, <1>12, <1>13, <1>14, <1>15, <1>16
     DEF GraphCase

LEMMA TreeStep ==
  ASSUME GraphInv, GraphCase
  PROVE  TreeInv'
<1>0. TreeInv /\ GraphTypes
  BY DEF GraphInv
<1>1. ASSUME UNCHANGED <<version, tree>>,
             \/ gui' = gui
             \/ gui' \in {"waiting", "woken", "moving"}
             \/ gui \in {"idle", "freed", "joining", "show"}
      PROVE  TreeInv'
  BY <1>0, <1>1 DEF TreeInv
<1>2. CASE AskStep
  <2>1. tree'.CurrentAccess = tree.CurrentAccess /\ tree'.ActiveFn = tree.ActiveFn
    BY <1>2 DEF AskStep
  <2> QED
    BY <1>0, <1>2, <2>1 DEF AskStep, TreeInv
<1>3. CASE ChooseLayout
  BY <1>1, <1>3 DEF ChooseLayout
<1>4. CASE CloseFrame \/ Joined \/ DestroyPanel \/ showGraph
  BY <1>1, <1>4 DEF CloseFrame, Joined, DestroyPanel, showGraph, viewVars, Idle
<1>5. CASE HandleMove
  BY <1>5 DEF HandleMove, OnMove, TreeInv
<1>6. CASE HandleRendered \/ HandleMouseOver \/ HandleContextMenu \/ IgnoreContextMenu
  BY <1>1, <1>6 DEF HandleRendered, HandleMouseOver, HandleContextMenu, IgnoreContextMenu, Handles, viewVars
<1>7. CASE MoveEnds
  <2>1. tree' = treeShow(version')
    BY <1>7 DEF MoveEnds
  <2>2. tree'.CurrentAccess = version' /\ tree'.ActiveFn = version'
    BY <1>0, <2>1 DEF treeShow, GraphTypes, Trees
  <2> QED
    BY <2>2 DEF TreeInv
<1>8. CASE invalidateWoken \/ invalidateSpurious
  BY <1>1, <1>8 DEF invalidateWoken, invalidateSpurious, viewVars
<1>9. CASE WorkerWaits \/ WorkerSpurious \/ DotEnds \/ workerGenerateDot \/ LayoutEnds
  BY <1>1, <1>9 DEF WorkerWaits, WorkerSpurious, DotEnds, workerGenerateDot, LayoutEnds, viewVars
<1>10. CASE UNCHANGED graphVars
  BY <1>1, <1>10 DEF graphVars, viewVars
<1> QED
  BY <1>2, <1>3, <1>4, <1>5, <1>6, <1>7, <1>8, <1>9, <1>10 DEF GraphCase

\* An event behind the first one was queued already, and an event that the
\* user or the worker adds comes last.
LEMMA QueueSteps ==
  ASSUME GraphInv
  PROVE  /\ pending # <<>> /\ pending' = Tail(pending) =>
              \A i \in DOMAIN pending' : i \in Nat /\ i + 1 \in 2..Len(pending)
                                         /\ i + 1 \in DOMAIN pending /\ pending'[i] = pending[i + 1]
         /\ \A e : pending' = Append(pending, e) =>
              \A i \in DOMAIN pending' :
                 \/ i \in DOMAIN pending /\ pending'[i] = pending[i]
                 \/ i = Len(pending) + 1 /\ pending'[i] = e
<1>1. ASSUME pending # <<>>, pending' = Tail(pending), NEW i \in DOMAIN pending'
      PROVE  i \in Nat /\ i + 1 \in 2..Len(pending) /\ i + 1 \in DOMAIN pending /\ pending'[i] = pending[i + 1]
  <2>1. i \in 1..(Len(pending) - 1) /\ Len(pending) \in Nat
    BY <1>1, QueueTypes
  <2>2. i + 1 \in DOMAIN pending /\ pending'[i] = pending[i + 1]
    BY <1>1, QueueTypes
  <2>3. i \in Nat /\ i + 1 \in 2..Len(pending)
    BY <2>1
  <2> QED
    BY <2>2, <2>3
<1>2. ASSUME NEW e, pending' = Append(pending, e), NEW i \in DOMAIN pending'
      PROVE  \/ i \in DOMAIN pending /\ pending'[i] = pending[i]
             \/ i = Len(pending) + 1 /\ pending'[i] = e
  <2>1. i \in 1..(Len(pending) + 1) /\ Len(pending) \in Nat /\ DOMAIN pending = 1..Len(pending)
    BY <1>2, QueueTypes
  <2>2. i \in DOMAIN pending \/ i = Len(pending) + 1
    BY <2>1
  <2> QED
    BY <1>2, <2>2, QueueTypes
<1> QED
  BY <1>1, <1>2

\* A reason is kept for ever.
ReasonsKept == causes \subseteq causes'

LEMMA ReasonsStay ==
  ASSUME ReasonsKept
  PROVE  (causes # {} => causes' # {}) /\ (Seen => Seen')
BY DEF ReasonsKept, Seen

QueueKept ==
    \A i \in DOMAIN pending :
       Gone(pending[i].node.of) /\ pending[i].kind # "rendered" =>
         causes # {} /\ (pending[i].kind # "move" => Seen)

LEMMA KeptStep ==
  ASSUME GraphInv, GraphCase
  PROVE  KeptInv'
<1>0. KeptInv /\ GraphTypes /\ QueueKept
  BY DEF GraphInv, KeptInv, QueueKept
<1>P. /\ panel \in Panels /\ NoNode.of = None
      /\ ~Gone(None) /\ ~Gone(None)'
  BY <1>0, EventTypes DEF GraphTypes, Gone
<1>Q. ASSUME QueueKept', (Gone(panel.graph) => "late graph" \in causes)',
             (Gone(panel.MouseOver.of) => Seen)', (Gone(menu.of) => causes # {})'
      PROVE  KeptInv'
  BY <1>Q DEF KeptInv, QueueKept
<1>1. ASSUME version' = version, ReasonsKept, pending' = pending \/ pending' = <<>>
      PROVE  QueueKept'
  BY <1>0, <1>1, ReasonsStay DEF QueueKept, Gone
<1>2. ASSUME version' = version, ReasonsKept, pending # <<>>, pending' = Tail(pending)
      PROVE  QueueKept'
  BY <1>0, <1>2, ReasonsStay, QueueSteps DEF QueueKept, Gone
<1>3. ASSUME version' = version, ReasonsKept, NEW e, pending' = Append(pending, e),
             Gone(e.node.of) /\ e.kind # "rendered" => causes # {} /\ (e.kind # "move" => Seen)
      PROVE  QueueKept'
  BY <1>0, <1>3, ReasonsStay, QueueSteps DEF QueueKept, Gone
<1>4. ASSUME UNCHANGED <<version, pending, panel, menu, causes>>
      PROVE  KeptInv'
  BY <1>0, <1>4 DEF KeptInv, Gone, Seen
<1>R. causes' = causes => ReasonsKept
  BY DEF ReasonsKept
<1>5. CASE AskStep
  <2>1. version' = version /\ panel' = panel /\ causes' = causes /\ (Gone(menu'.of) => causes # {})
    BY <1>5 DEF AskStep
  <2>2. QueueKept'
    BY <1>1, <1>3, <1>5, <1>R, <2>1 DEF AskStep
  <2> QED
    BY <1>0, <1>Q, <2>1, <2>2 DEF KeptInv, Gone, Seen
<1>6. CASE ChooseLayout
  <2>1. /\ UNCHANGED <<version, pending, causes>> /\ menu' = NoNode
        /\ panel' = [panel EXCEPT !.graph = None]
    BY <1>6 DEF ChooseLayout, Reads
  <2>2. panel'.graph = None /\ panel'.MouseOver = panel.MouseOver
    BY <1>P, <2>1 DEF Panels
  <2>3. QueueKept'
    BY <1>1, <1>R, <2>1
  <2> QED
    BY <1>0, <1>P, <1>Q, <2>1, <2>2, <2>3 DEF KeptInv, Gone, Seen
<1>7. CASE CloseFrame
  <2>1. UNCHANGED <<version, panel, menu, causes>> /\ pending' = <<>>
    BY <1>7 DEF CloseFrame, viewVars, ReadsNothing
  <2>2. QueueKept'
    BY <1>1, <1>R, <2>1
  <2> QED
    BY <1>0, <1>Q, <2>1, <2>2 DEF KeptInv, Gone, Seen
<1>H. ASSUME NEW k, Handles(k), ReasonsKept
      PROVE  QueueKept' /\ version' = version
  BY <1>2, <1>H DEF Handles
<1>8. CASE HandleMove
  <2>1. menu' = menu /\ panel' = [panel EXCEPT !.graph = None, !.MouseOver = NoNode] /\ ReasonsKept
    BY <1>8 DEF HandleMove, OnMove, ReasonsKept
  <2>2. panel'.graph = None /\ panel'.MouseOver = NoNode
    BY <1>P, <2>1 DEF Panels
  <2>3. QueueKept' /\ version' = version
    BY <1>8, <1>H, <2>1 DEF HandleMove
  <2>4. (Gone(menu.of) => causes # {})'
    BY <1>0, <2>1, <2>3, ReasonsStay DEF KeptInv, Gone
  <2>5. ~Gone(panel.graph)' /\ ~Gone(panel.MouseOver.of)'
    BY <1>P, <2>2 DEF Gone
  <2> QED
    BY <1>Q, <2>3, <2>4, <2>5
<1>9. CASE HandleRendered
  <2> DEFINE of1 == Head(pending).node.of
  <2>1. /\ panel' = [panel EXCEPT !.graph = of1] /\ menu' = menu
        /\ causes' = causes \cup (IF of1 # version THEN {"late graph"} ELSE {})
    BY <1>9 DEF HandleRendered, OnGraphRendered
  <2>2. panel'.graph = of1 /\ panel'.MouseOver = panel.MouseOver
    BY <1>P, <2>1 DEF Panels
  <2>3. ReasonsKept /\ (of1 # version => "late graph" \in causes')
    BY <2>1 DEF ReasonsKept
  <2>4. QueueKept' /\ version' = version
    BY <1>9, <1>H, <2>3 DEF HandleRendered
  <2> HIDE DEF of1
  <2>5. (Gone(panel.graph) => "late graph" \in causes)'
    BY <2>2, <2>3, <2>4 DEF Gone
  <2>6. (Gone(panel.MouseOver.of) => Seen)' /\ (Gone(menu.of) => causes # {})'
    BY <1>0, <2>1, <2>2, <2>3, <2>4, ReasonsStay DEF KeptInv, Gone
  <2> QED
    BY <1>Q, <2>4, <2>5, <2>6
<1>10. CASE HandleMouseOver
  <2> DEFINE n == Head(pending).node
  <2>1. panel' = [panel EXCEPT !.MouseOver = n] /\ menu' = menu /\ causes' = causes
    BY <1>10 DEF HandleMouseOver, OnMouseOverDisplayable, Reads, ReadsNothing
  <2>2. panel'.graph = panel.graph /\ panel'.MouseOver = n
    BY <1>P, <2>1 DEF Panels
  <2>3. QueueKept' /\ version' = version
    BY <1>10, <1>H, <1>R, <2>1 DEF HandleMouseOver
  <2>4. 1 \in DOMAIN pending /\ pending[1].node = n /\ pending[1].kind = "mouseover"
    BY <1>10, QueueTypes DEF HandleMouseOver, Handles
  <2> HIDE DEF n
  <2>5. Gone(n.of) => Seen
    BY <1>0, <2>4 DEF QueueKept
  <2> QED
    BY <1>0, <1>Q, <2>1, <2>2, <2>3, <2>5 DEF KeptInv, Gone, Seen
<1>11. CASE HandleContextMenu
  <2>1. menu' = panel.MouseOver /\ panel' = panel /\ causes' = causes
    BY <1>11 DEF HandleContextMenu, OnContextMenu, Reads
  <2>2. QueueKept' /\ version' = version
    BY <1>11, <1>H, <1>R, <2>1 DEF HandleContextMenu
  <2>3. Gone(panel.MouseOver.of) => causes # {}
    BY <1>0 DEF KeptInv, Seen
  <2> QED
    BY <1>0, <1>Q, <2>1, <2>2, <2>3 DEF KeptInv, Gone, Seen
<1>12. CASE IgnoreContextMenu
  <2>1. menu' = menu /\ panel' = panel /\ causes' = causes
    BY <1>12 DEF IgnoreContextMenu, viewVars, ReadsNothing
  <2>2. QueueKept' /\ version' = version
    BY <1>12, <1>H, <1>R, <2>1 DEF IgnoreContextMenu
  <2> QED
    BY <1>0, <1>Q, <2>1, <2>2 DEF KeptInv, Gone, Seen
<1>13. CASE MoveEnds
  <2>1. gui = "moving" /\ UNCHANGED <<pending, panel, menu, causes>>
    BY <1>13 DEF MoveEnds, ReadsNothing
  <2>2. /\ panel.graph = None /\ panel.MouseOver = NoNode
        /\ menu # NoNode => causes # {}
        /\ \A i \in DOMAIN pending :
             pending[i].node.of # None /\ pending[i].kind # "rendered" => "queued event" \in causes
    BY <2>1 DEF GraphInv, MovingInv
  <2>3. "queued event" \in causes => causes # {} /\ Seen
    BY DEF Seen
  <2>4. QueueKept'
    BY <2>1, <2>2, <2>3 DEF QueueKept, Gone, Seen
  <2>5. (Gone(menu.of) => causes # {})'
    BY <1>P, <2>1, <2>2 DEF Gone
  <2> QED
    BY <1>P, <1>Q, <2>1, <2>2, <2>4, <2>5 DEF Gone
<1>14. CASE showGraph
  <2>1. /\ UNCHANGED <<version, pending, menu, causes>>
        /\ panel'.graph = None /\ panel'.MouseOver = NoNode
    BY <1>14 DEF showGraph, ReadsNothing
  <2>2. QueueKept'
    BY <1>1, <1>R, <2>1
  <2> QED
    BY <1>0, <1>P, <1>Q, <2>1, <2>2 DEF KeptInv, Gone
<1>15. CASE DotEnds
  <2>1. UNCHANGED <<version, panel, menu, causes>>
    BY <1>15 DEF DotEnds, viewVars, ReadsNothing
  <2>2. pending' = pending \/ pending' = Append(pending, Rendered(worker.of))
    BY <1>15 DEF DotEnds
  <2>3. Rendered(worker.of).kind = "rendered"
    BY DEF Rendered
  <2>4. QueueKept'
    BY <1>1, <1>3, <1>R, <2>1, <2>2, <2>3
  <2> QED
    BY <1>0, <1>Q, <2>1, <2>4 DEF KeptInv, Gone, Seen
<1>16. CASE DestroyPanel \/ Joined \/ invalidateWoken \/ invalidateSpurious
  BY <1>4, <1>16 DEF DestroyPanel, Joined, invalidateWoken, invalidateSpurious, viewVars, ReadsNothing
<1>17. CASE WorkerWaits \/ WorkerSpurious \/ workerGenerateDot \/ LayoutEnds
  BY <1>4, <1>17 DEF WorkerWaits, WorkerSpurious, workerGenerateDot, LayoutEnds, viewVars, ReadsNothing
<1>18. CASE UNCHANGED graphVars
  BY <1>4, <1>18 DEF graphVars, viewVars, seenVars
<1> QED
  BY <1>5, <1>6, <1>7, <1>8, <1>9, <1>10, <1>11, <1>12, <1>13, <1>14, <1>15, <1>16, <1>17, <1>18
     DEF GraphCase

LEMMA MovingStep ==
  ASSUME GraphInv, GraphCase
  PROVE  MovingInv'
<1>0. MovingInv /\ GraphTypes
  BY DEF GraphInv
<1>1. ASSUME gui' \notin {"waiting", "woken", "moving"}
      PROVE  MovingInv'
  BY <1>1 DEF MovingInv
<1>2. ASSUME UNCHANGED <<panel, menu, causes>>, gui' = gui \/ gui \in {"waiting", "woken"},
             pending' = pending \/ pending' = Append(pending, Rendered(worker.of))
      PROVE  MovingInv'
  <2>1. Rendered(worker.of).kind = "rendered"
    BY DEF Rendered
  <2>2. ASSUME NEW i \in DOMAIN pending', pending'[i].node.of # None, pending'[i].kind # "rendered"
        PROVE  i \in DOMAIN pending /\ pending'[i] = pending[i]
    BY <1>2, <2>1, <2>2, QueueSteps
  <2>3. SUFFICES ASSUME gui' \in {"waiting", "woken", "moving"} PROVE MovingInv'
    BY <1>1
  <2>4. gui \in {"waiting", "woken", "moving"}
    BY <1>2, <2>3
  <2> QED
    BY <1>0, <1>2, <2>2, <2>4 DEF MovingInv
<1>3. CASE AskStep \/ ChooseLayout
  BY <1>1, <1>3 DEF AskStep, ChooseLayout, Idle
<1>4. CASE HandleRendered \/ HandleMouseOver \/ HandleContextMenu \/ IgnoreContextMenu
  BY <1>1, <1>4 DEF HandleRendered, HandleMouseOver, HandleContextMenu, IgnoreContextMenu, Handles, Idle
<1>5. CASE CloseFrame \/ MoveEnds \/ showGraph \/ DestroyPanel \/ Joined
  BY <1>1, <1>5 DEF CloseFrame, MoveEnds, showGraph, DestroyPanel, Joined
<1>6. CASE HandleMove
  <2>1. /\ panel' = [panel EXCEPT !.graph = None, !.MouseOver = NoNode] /\ menu' = menu
        /\ pending # <<>> /\ pending' = Tail(pending)
    BY <1>6 DEF HandleMove, Handles, OnMove
  <2>2. panel'.graph = None /\ panel'.MouseOver = NoNode
    BY <1>0, <2>1 DEF GraphTypes, Panels
  <2>3. menu' # NoNode => causes' # {}
    BY <1>6, <2>1 DEF HandleMove, OnMove
  <2>4. ASSUME NEW i \in 2..Len(pending), pending[i].kind # "rendered", pending[i].node.of # None
        PROVE  "queued event" \in causes'
    BY <1>6, <2>4 DEF HandleMove, OnMove
  <2>5. ASSUME NEW i \in DOMAIN pending', pending'[i].node.of # None, pending'[i].kind # "rendered"
        PROVE  "queued event" \in causes'
    <3>1. i + 1 \in 2..Len(pending) /\ pending'[i] = pending[i + 1]
      BY <2>1, <2>5, QueueSteps
    <3> QED
      BY <2>4, <2>5, <3>1
  <2> QED
    BY <2>2, <2>3, <2>5 DEF MovingInv
<1>7. CASE invalidateWoken \/ invalidateSpurious
  BY <1>2, <1>7 DEF invalidateWoken, invalidateSpurious, viewVars, ReadsNothing
<1>8. CASE WorkerWaits \/ WorkerSpurious \/ workerGenerateDot \/ LayoutEnds \/ DotEnds
  BY <1>2, <1>8 DEF WorkerWaits, WorkerSpurious, workerGenerateDot, LayoutEnds, DotEnds, viewVars, ReadsNothing
<1>9. CASE UNCHANGED graphVars
  BY <1>2, <1>9 DEF graphVars, viewVars, seenVars
<1> QED
  BY <1>3, <1>4, <1>5, <1>6, <1>7, <1>8, <1>9 DEF GraphCase

\* Whatever a step reads of a state that is gone was kept for a reason.
LEMMA StaleStep ==
  ASSUME GraphInv, GraphCase
  PROVE  StaleReadsAreExplained'
<1>0. KeptInv /\ GraphTypes
  BY DEF GraphInv
<1>1. ASSUME used' = {} PROVE StaleReadsAreExplained'
  BY <1>1 DEF StaleReadsAreExplained
<1>2. CASE AskStep
  BY <1>2 DEF AskStep
<1>3. CASE ChooseLayout
  <2>1. Reads({"setLayoutEngine"}, menu.of)
    BY <1>3 DEF ChooseLayout
  <2>2. Gone(menu.of) => causes # {}
    BY <1>0 DEF KeptInv
  <2> QED
    BY <2>1, <2>2 DEF Reads, StaleReadsAreExplained
<1>H. ASSUME NEW k, Handles(k), k # "rendered", Gone(Head(pending).node.of)
      PROVE  causes # {} /\ (k # "move" => Seen)
  <2>1. 1 \in DOMAIN pending /\ Head(pending) = pending[1] /\ pending[1].kind = k
    BY <1>H, QueueTypes DEF Handles
  <2> QED
    BY <1>0, <1>H, <2>1 DEF KeptInv
<1>4. CASE HandleMove
  <2>1. /\ used' = IF Gone(Head(pending).node.of) THEN {"moveToFunctionEntry"} ELSE {}
        /\ causes \subseteq causes'
    BY <1>4 DEF HandleMove, OnMove
  <2>2. Gone(Head(pending).node.of) => causes # {}
    BY <1>4, <1>H DEF HandleMove
  <2> QED
    BY <2>1, <2>2 DEF StaleReadsAreExplained
<1>5. CASE HandleRendered
  BY <1>1, <1>5 DEF HandleRendered, OnGraphRendered
<1>6. CASE HandleMouseOver
  <2> DEFINE of1 == Head(pending).node.of
  <2>1. \/ used' = {}
        \/ /\ used' = (IF Gone(of1) THEN {"highlightValue", "addAttributesForValue"} ELSE {})
           /\ causes' = causes
        \/ /\ used' = (IF Gone(of1) THEN {"getFunctionDecl"} ELSE {})
           /\ causes' = causes
    BY <1>6 DEF HandleMouseOver, OnMouseOverDisplayable, Reads, ReadsNothing
  <2>2. Gone(of1) => causes # {} /\ Seen
    BY <1>6, <1>H DEF HandleMouseOver
  <2> HIDE DEF of1
  <2> QED
    BY <1>1, <2>1, <2>2 DEF StaleReadsAreExplained, Seen
<1>7. CASE HandleContextMenu
  <2>1. /\ used' \in {{}, {"listLayoutEnginesSupporting"}} /\ causes' = causes
        /\ used' # {} => Gone(panel.MouseOver.of)
    BY <1>7 DEF HandleContextMenu, OnContextMenu, Reads
  <2>2. Gone(panel.MouseOver.of) => Seen
    BY <1>0 DEF KeptInv
  <2> QED
    BY <1>1, <2>1, <2>2 DEF StaleReadsAreExplained, Seen
<1>8. CASE CloseFrame \/ IgnoreContextMenu \/ invalidateWoken \/ MoveEnds \/ showGraph \/ DestroyPanel \/ Joined
  BY <1>1, <1>8 DEF CloseFrame, IgnoreContextMenu, invalidateWoken, MoveEnds, showGraph, DestroyPanel,
                    Joined, ReadsNothing
<1>9. CASE WorkerWaits \/ workerGenerateDot \/ LayoutEnds \/ DotEnds \/ WorkerSpurious \/ invalidateSpurious
  BY <1>1, <1>9 DEF WorkerWaits, workerGenerateDot, LayoutEnds, DotEnds, WorkerSpurious,
                    invalidateSpurious, ReadsNothing
<1>10. CASE UNCHANGED graphVars
  BY <1>10 DEF GraphInv, graphVars, seenVars, StaleReadsAreExplained
<1> QED
  BY <1>2, <1>3, <1>4, <1>5, <1>6, <1>7, <1>8, <1>9, <1>10 DEF GraphCase

LEMMA UnshownStep ==
  ASSUME GraphInv, GraphCase
  PROVE  UnshownInv'
<1> SUFFICES ASSUME panel'.CurrentAccess = None PROVE UnshownInv'
  BY DEF UnshownInv
<1>0. UnshownInv /\ GraphTypes /\ panel \in Panels /\ task \in Tasks
  BY DEF GraphInv, GraphTypes
<1>U. panel.CurrentAccess = None =>
        /\ panel.graph = None /\ task.Access = None /\ worker.pc \notin {"layout", "dot"}
        /\ \A i \in DOMAIN pending : pending[i].kind # "rendered"
  BY <1>0 DEF UnshownInv
<1>Q. ASSUME \A i \in DOMAIN pending : pending[i].kind # "rendered",
             \/ pending' = pending
             \/ pending' = <<>>
             \/ pending # <<>> /\ pending' = Tail(pending)
             \/ \E e \in Events : pending' = Append(pending, e) /\ e.kind # "rendered"
      PROVE  \A i \in DOMAIN pending' : pending'[i].kind # "rendered"
  <2>1. CASE pending' = <<>>
    BY <2>1
  <2>2. CASE pending # <<>> /\ pending' = Tail(pending)
    BY <1>Q, <2>2, QueueSteps
  <2>3. ASSUME NEW e \in Events, pending' = Append(pending, e), e.kind # "rendered"
        PROVE  \A i \in DOMAIN pending' : pending'[i].kind # "rendered"
    BY <1>Q, <2>3, QueueSteps
  <2> QED
    BY <1>Q, <2>1, <2>2, <2>3
<1>1. ASSUME panel'.CurrentAccess = panel.CurrentAccess, panel'.graph \in {panel.graph, None},
             task'.Access \in {task.Access, None},
             worker'.pc \in {"layout", "dot"} => worker.pc \in {"layout", "dot"},
             \/ pending' = pending
             \/ pending' = <<>>
             \/ pending # <<>> /\ pending' = Tail(pending)
             \/ \E e \in Events : pending' = Append(pending, e) /\ e.kind # "rendered"
      PROVE  UnshownInv'
  BY <1>U, <1>Q, <1>1 DEF UnshownInv
<1>2. CASE AskStep
  BY <1>1, <1>2 DEF AskStep, workVars
<1>3. CASE ChooseLayout
  <2>1. /\ panel' = [panel EXCEPT !.graph = None] /\ pending' = pending /\ notify_one
        /\ task' = [Access |-> panel.CurrentAccess, ContinueGraphGeneration |-> TRUE]
    BY <1>3 DEF ChooseLayout, renderGraph
  <2>2. panel'.CurrentAccess = panel.CurrentAccess /\ panel'.graph = None
    BY <1>0, <2>1 DEF Panels
  <2> QED
    BY <1>0, <1>1, <2>1, <2>2, NotifiedWorker
<1>4. CASE CloseFrame
  BY <1>1, <1>4 DEF CloseFrame, viewVars, workVars
<1>5. CASE HandleMove
  <2>1. /\ panel' = [panel EXCEPT !.graph = None, !.MouseOver = NoNode] /\ worker' = worker
        /\ pending # <<>> /\ pending' = Tail(pending)
        /\ task' = [task EXCEPT !.ContinueGraphGeneration = FALSE]
    BY <1>5 DEF HandleMove, Handles, OnMove
  <2>2. panel'.CurrentAccess = panel.CurrentAccess /\ panel'.graph = None /\ task'.Access = task.Access
    BY <1>0, <2>1 DEF Panels, Tasks
  <2> QED
    BY <1>1, <2>1, <2>2
<1>6. CASE HandleRendered
  <2>1. panel' = [panel EXCEPT !.graph = Head(pending).node.of]
        /\ Head(pending).kind = "rendered" /\ pending # <<>>
    BY <1>6 DEF HandleRendered, Handles, OnGraphRendered
  <2>2. panel'.CurrentAccess = panel.CurrentAccess
    BY <1>0, <2>1 DEF Panels
  <2>3. 1 \in DOMAIN pending /\ pending[1].kind = "rendered"
    BY <2>1, QueueTypes
  <2> QED
    BY <1>U, <2>2, <2>3
<1>7. CASE HandleMouseOver
  <2>1. panel' = [panel EXCEPT !.MouseOver = Head(pending).node]
    BY <1>7 DEF HandleMouseOver, OnMouseOverDisplayable
  <2>2. panel'.CurrentAccess = panel.CurrentAccess /\ panel'.graph = panel.graph
    BY <1>0, <2>1 DEF Panels
  <2> QED
    BY <1>1, <1>7, <2>2 DEF HandleMouseOver, Handles, workVars
<1>8. CASE HandleContextMenu \/ IgnoreContextMenu
  BY <1>1, <1>8 DEF HandleContextMenu, IgnoreContextMenu, Handles, viewVars, workVars
<1>9. CASE showGraph
  BY <1>9, VersionTypes DEF showGraph
<1>10. CASE DestroyPanel
  <2>1. task' = [task EXCEPT !.Access = None] /\ notify_one /\ UNCHANGED <<panel, pending>>
    BY <1>10 DEF DestroyPanel, viewVars
  <2>2. task'.Access = None
    BY <1>0, <2>1 DEF Tasks
  <2> QED
    BY <1>0, <1>1, <2>1, <2>2, NotifiedWorker
<1>11. CASE Joined \/ MoveEnds \/ invalidateWoken \/ invalidateSpurious
  BY <1>1, <1>11 DEF Joined, MoveEnds, invalidateWoken, invalidateSpurious, viewVars, workVars
<1>12. CASE WorkerWaits \/ WorkerSpurious
  BY <1>1, <1>12, WorkerTypes DEF WorkerWaits, WorkerSpurious, viewVars
<1>13. CASE workerGenerateDot
  <2>1. UNCHANGED <<panel, pending, task>>
    BY <1>13 DEF workerGenerateDot, viewVars
  <2>2. task.Access = None => worker'.pc = "exited"
    BY <1>13, WorkerTypes DEF workerGenerateDot
  <2> QED
    BY <1>U, <2>1, <2>2 DEF UnshownInv
<1>14. CASE LayoutEnds \/ DotEnds
  <2>1. panel' = panel /\ worker.pc \in {"layout", "dot"}
    BY <1>14 DEF LayoutEnds, DotEnds, viewVars
  <2> QED
    BY <1>U, <2>1
<1>15. CASE UNCHANGED graphVars
  BY <1>1, <1>15 DEF graphVars, viewVars, workVars
<1> QED
  BY <1>2, <1>3, <1>4, <1>5, <1>6, <1>7, <1>8, <1>9, <1>10, <1>11, <1>12, <1>13, <1>14, <1>15
     DEF GraphCase

\* A notification that is not missed finds the worker with nothing else to do.
LEMMA AskedStep ==
  ASSUME GraphInv, GraphCase
  PROVE  AskedInv'
<1> SUFFICES ASSUME gui' = "idle", panel'.CurrentAccess # None PROVE AskedInv'
  BY DEF AskedInv
<1>0. AskedInv /\ GraphTypes /\ panel \in Panels
  BY DEF GraphInv, GraphTypes
<1>A. gui = "idle" /\ panel.CurrentAccess # None =>
        /\ panel.CurrentAccess = version
        /\ task = [Access |-> version, ContinueGraphGeneration |-> TRUE]
        /\ ~missed /\ worker.pc \in {"layout", "dot"} => worker.of = version
  BY <1>0 DEF AskedInv
<1>1. ASSUME gui = "idle", UNCHANGED <<version, task, missed>>,
             panel'.CurrentAccess = panel.CurrentAccess,
             worker'.pc \in {"layout", "dot"} => worker.pc \in {"layout", "dot"} /\ worker'.of = worker.of
      PROVE  AskedInv'
  BY <1>A, <1>1 DEF AskedInv
<1>N. ASSUME notify_one, ~missed' PROVE worker'.pc \notin {"layout", "dot"}
  BY <1>0, <1>N, NotifiedWorker
<1>2. CASE AskStep
  BY <1>1, <1>2 DEF AskStep, Idle, workVars
<1>3. CASE ChooseLayout
  <2>1. /\ panel' = [panel EXCEPT !.graph = None] /\ notify_one /\ gui = "idle" /\ version' = version
        /\ task' = [Access |-> panel.CurrentAccess, ContinueGraphGeneration |-> TRUE]
    BY <1>3 DEF ChooseLayout, renderGraph, Idle
  <2>2. panel'.CurrentAccess = panel.CurrentAccess
    BY <1>0, <2>1 DEF Panels
  <2> QED
    BY <1>A, <1>N, <2>1, <2>2 DEF AskedInv
<1>4. CASE HandleRendered
  <2>1. panel' = [panel EXCEPT !.graph = Head(pending).node.of]
    BY <1>4 DEF HandleRendered, OnGraphRendered
  <2>2. panel'.CurrentAccess = panel.CurrentAccess
    BY <1>0, <2>1 DEF Panels
  <2> QED
    BY <1>1, <1>4, <2>2 DEF HandleRendered, Handles, Idle, workVars
<1>5. CASE HandleMouseOver
  <2>1. panel' = [panel EXCEPT !.MouseOver = Head(pending).node]
    BY <1>5 DEF HandleMouseOver, OnMouseOverDisplayable
  <2>2. panel'.CurrentAccess = panel.CurrentAccess
    BY <1>0, <2>1 DEF Panels
  <2> QED
    BY <1>1, <1>5, <2>2 DEF HandleMouseOver, Handles, Idle, workVars
<1>6. CASE HandleContextMenu \/ IgnoreContextMenu
  BY <1>1, <1>6 DEF HandleContextMenu, IgnoreContextMenu, Handles, Idle, viewVars, workVars
<1>7. CASE showGraph
  <2>1. /\ panel'.CurrentAccess = version /\ notify_one /\ version' = version
        /\ task' = [Access |-> version, ContinueGraphGeneration |-> TRUE]
    BY <1>7 DEF showGraph, renderGraph
  <2> QED
    BY <1>N, <2>1 DEF AskedInv
<1>8. CASE \/ CloseFrame \/ HandleMove \/ MoveEnds \/ DestroyPanel \/ Joined
           \/ invalidateWoken \/ invalidateSpurious
  BY <1>8 DEF CloseFrame, HandleMove, OnMove, MoveEnds, DestroyPanel, Joined, invalidateWoken,
              invalidateSpurious
<1>9. CASE WorkerWaits \/ WorkerSpurious \/ LayoutEnds \/ DotEnds
  <2>1. gui = "idle" /\ UNCHANGED <<version, task, missed, panel>>
    BY <1>9 DEF WorkerWaits, WorkerSpurious, LayoutEnds, DotEnds, viewVars
  <2>2. worker'.pc \in {"layout", "dot"} => worker.pc \in {"layout", "dot"} /\ worker'.of = worker.of
    BY <1>9, WorkerTypes DEF WorkerWaits, WorkerSpurious, LayoutEnds, DotEnds
  <2> QED
    BY <1>1, <2>1, <2>2
<1>10. CASE workerGenerateDot
  <2>1. gui = "idle" /\ UNCHANGED <<version, task, missed, panel>>
    BY <1>10 DEF workerGenerateDot, viewVars
  <2>2. CASE \E p \in {"start", "exited"} : worker' = [worker EXCEPT !.pc = p]
    <3>1. worker'.pc \notin {"layout", "dot"}
      BY <2>2, WorkerTypes
    <3> QED
      BY <1>1, <2>1, <3>1
  <2>3. CASE worker' = [pc |-> "layout", of |-> task.Access]
    BY <1>A, <2>1, <2>3 DEF AskedInv
  <2> QED
    BY <1>10, <2>2, <2>3 DEF workerGenerateDot
<1>11. CASE UNCHANGED graphVars
  BY <1>1, <1>11 DEF graphVars, viewVars, workVars
<1> QED
  BY <1>2, <1>3, <1>4, <1>5, <1>6, <1>7, <1>8, <1>9, <1>10, <1>11 DEF GraphCase

\* The graph of the present state is queued behind all others, and handling an
\* event before it does not lose it.
LEMMA ComingStep ==
  ASSUME GraphInv, GraphCase
  PROVE  ComingInv'
<1> SUFFICES ASSUME gui' = "idle", panel'.CurrentAccess # None, ~missed', ~failed', spurious' = 0
             PROVE  OnItsWay'
  BY DEF ComingInv
<1>0. ComingInv /\ AskedInv /\ TokenInv /\ GraphTypes /\ panel \in Panels
  BY DEF GraphInv, GraphTypes
<1>A. gui = "idle" /\ panel.CurrentAccess # None =>
        /\ panel.CurrentAccess = version
        /\ task = [Access |-> version, ContinueGraphGeneration |-> TRUE]
        /\ ~missed /\ worker.pc \in {"layout", "dot"} => worker.of = version
  BY <1>0 DEF AskedInv
<1>C. ASSUME gui = "idle", panel'.CurrentAccess = panel.CurrentAccess, UNCHANGED <<missed, failed, spurious>>
      PROVE  OnItsWay
  BY <1>0, <1>C DEF ComingInv
<1>N. ASSUME notify_one PROVE OnItsWay'
  BY <1>0, <1>N, NotifiedWorker DEF OnItsWay
<1>W. ASSUME worker'.pc \in {"woken", "layout", "dot"} PROVE OnItsWay'
  BY <1>W DEF OnItsWay
<1>1. ASSUME OnItsWay, UNCHANGED <<version, pending>>, panel'.graph = panel.graph,
             worker.pc \in {"woken", "layout", "dot"} => worker'.pc \in {"woken", "layout", "dot"}
      PROVE  OnItsWay'
  BY <1>1 DEF OnItsWay, LastIsCurrent
\* An event that is not a graph may be added,
<1>2. ASSUME OnItsWay, UNCHANGED <<version, panel, worker>>,
             NEW e, pending' = Append(pending, e), e.kind # "rendered"
      PROVE  OnItsWay'
  <2>1. \A i \in Nat : LastIsCurrent(i) => LastIsCurrent(i)'
    <3>1. SUFFICES ASSUME NEW i \in Nat, LastIsCurrent(i), NEW j \in DOMAIN pending', i < j,
                          pending'[j].kind = "rendered"
                   PROVE  pending'[j] = Rendered(version)
      BY <1>2 DEF LastIsCurrent, Rendered
    <3>2. j \in DOMAIN pending /\ pending'[j] = pending[j]
      BY <1>2, <3>1, QueueSteps
    <3> QED
      BY <3>1, <3>2 DEF LastIsCurrent
  <2>2. \A i \in DOMAIN pending : i \in Nat /\ i \in DOMAIN pending' /\ pending'[i] = pending[i]
    <3>1. SUFFICES ASSUME NEW i \in DOMAIN pending
                   PROVE  i \in Nat /\ i \in DOMAIN pending' /\ pending'[i] = pending[i]
      OBVIOUS
    <3>2. i \in 1..Len(pending) /\ Len(pending) \in Nat
      BY <3>1, QueueTypes
    <3>3. i \in Nat /\ i \in 1..(Len(pending) + 1)
      BY <3>2
    <3> QED
      BY <1>2, <3>3, QueueTypes
  <2>3. CASE worker.pc \in {"woken", "layout", "dot"}
    BY <1>2, <1>W, <2>3
  <2>4. ASSUME NEW i \in DOMAIN pending, pending[i] = Rendered(version), LastIsCurrent(i) PROVE OnItsWay'
    <3>1. i \in DOMAIN pending' /\ pending'[i] = Rendered(version)' /\ LastIsCurrent(i)'
      BY <1>2, <2>1, <2>2, <2>4 DEF Rendered
    <3> QED
      BY <3>1 DEF OnItsWay
  <2>5. CASE panel.graph = version /\ LastIsCurrent(0)
    BY <1>2, <2>1, <2>5 DEF OnItsWay
  <2> QED
    BY <1>2, <2>3, <2>4, <2>5 DEF OnItsWay
\* and one that is first is handled: a graph is shown.
<1>3. ASSUME OnItsWay, UNCHANGED <<version, worker>>, pending # <<>>, pending' = Tail(pending),
             IF Head(pending).kind = "rendered" THEN panel'.graph = Head(pending).node.of
                                                ELSE panel'.graph = panel.graph
      PROVE  OnItsWay'
  <2>Q. /\ 1 \in DOMAIN pending /\ Head(pending) = pending[1]
        /\ DOMAIN pending' = 1..(Len(pending) - 1) /\ DOMAIN pending = 1..Len(pending) /\ Len(pending) \in Nat
    BY <1>3, QueueTypes
  <2>R. Rendered(version).kind = "rendered" /\ Rendered(version).node.of = version
    BY EventTypes, VersionTypes
  <2>1. ASSUME NEW i \in Nat, LastIsCurrent(i + 1) PROVE LastIsCurrent(i)'
    <3>1. SUFFICES ASSUME NEW j \in DOMAIN pending', i < j, pending'[j].kind = "rendered"
                   PROVE  pending'[j] = Rendered(version)
      BY <1>3 DEF LastIsCurrent, Rendered
    <3>2. j \in Nat /\ j + 1 \in DOMAIN pending /\ pending'[j] = pending[j + 1]
      BY <1>3, <3>1, QueueSteps
    <3>3. i + 1 < j + 1
      BY <3>1, <3>2
    <3> QED
      BY <2>1, <3>1, <3>2, <3>3 DEF LastIsCurrent
  <2>2. CASE worker.pc \in {"woken", "layout", "dot"}
    BY <1>3, <1>W, <2>2
  <2>3. ASSUME NEW i \in DOMAIN pending, pending[i] = Rendered(version), LastIsCurrent(i) PROVE OnItsWay'
    <3>1. CASE i = 1
      <4>1. panel'.graph = version'
        BY <1>3, <2>3, <2>Q, <2>R, <3>1
      <4>2. LastIsCurrent(0)'
        BY <2>1, <2>3, <3>1
      <4> QED
        BY <4>1, <4>2 DEF OnItsWay
    <3>2. CASE i # 1
      <4>1. i - 1 \in Nat /\ i - 1 \in 1..(Len(pending) - 1) /\ (i - 1) + 1 = i
        BY <2>3, <2>Q, <3>2
      <4>2. i - 1 \in DOMAIN pending' /\ pending'[i - 1] = pending[i]
        BY <1>3, <2>Q, <4>1, QueueSteps
      <4>3. LastIsCurrent(i - 1)'
        BY <2>1, <2>3, <4>1
      <4>4. pending'[i - 1] = Rendered(version)'
        BY <1>3, <2>3, <4>2 DEF Rendered
      <4> QED
        BY <4>2, <4>3, <4>4 DEF OnItsWay
    <3> QED
      BY <3>1, <3>2
  <2>4. CASE panel.graph = version /\ LastIsCurrent(0)
    <3>1. Head(pending).kind = "rendered" => Head(pending) = Rendered(version)
      BY <2>4, <2>Q DEF LastIsCurrent
    <3>2. panel'.graph = version'
      BY <1>3, <2>4, <2>R, <3>1
    <3>3. LastIsCurrent(1)
      <4>1. \A j \in DOMAIN pending : j \in Nat
        BY <2>Q
      <4>2. \A j \in Nat : 1 < j => 0 < j
        OBVIOUS
      <4> QED
        BY <2>4, <4>1, <4>2 DEF LastIsCurrent
    <3>4. LastIsCurrent(0)'
      BY <2>1, <3>3
    <3> QED
      BY <3>2, <3>4 DEF OnItsWay
  <2> QED
    BY <1>3, <2>2, <2>3, <2>4 DEF OnItsWay
<1>4. CASE AskStep
  <2>1. gui = "idle" /\ UNCHANGED <<version, panel, worker, missed, failed, spurious>>
    BY <1>4 DEF AskStep, Idle, workVars
  <2>2. OnItsWay
    BY <1>C, <2>1
  <2>3. CASE pending' = pending
    BY <1>1, <2>1, <2>2, <2>3
  <2>4. CASE \E e \in Events : pending' = Append(pending, e) /\ e.kind # "rendered"
    BY <1>2, <2>1, <2>2, <2>4
  <2> QED
    BY <1>4, <2>3, <2>4 DEF AskStep
<1>5. CASE ChooseLayout \/ showGraph
  BY <1>5, <1>N DEF ChooseLayout, showGraph, renderGraph
<1>6. CASE \/ CloseFrame \/ HandleMove \/ MoveEnds \/ DestroyPanel \/ Joined
           \/ invalidateWoken \/ invalidateSpurious
  BY <1>6 DEF CloseFrame, HandleMove, OnMove, MoveEnds, DestroyPanel, Joined, invalidateWoken,
              invalidateSpurious
<1>H. ASSUME NEW k, Handles(k), UNCHANGED workVars, panel'.CurrentAccess = panel.CurrentAccess,
             panel'.graph = IF k = "rendered" THEN Head(pending).node.of ELSE panel.graph
      PROVE  OnItsWay'
  <2>1. /\ gui = "idle" /\ UNCHANGED <<version, worker, missed, failed, spurious>>
        /\ pending # <<>> /\ pending' = Tail(pending) /\ Head(pending).kind = k
    BY <1>H DEF Handles, Idle, workVars
  <2>2. OnItsWay
    BY <1>C, <1>H, <2>1
  <2> QED
    BY <1>3, <1>H, <2>1, <2>2
<1>7. CASE HandleRendered
  <2>1. panel' = [panel EXCEPT !.graph = Head(pending).node.of]
    BY <1>7 DEF HandleRendered, OnGraphRendered
  <2>2. panel'.CurrentAccess = panel.CurrentAccess /\ panel'.graph = Head(pending).node.of
    BY <1>0, <2>1 DEF Panels
  <2> QED
    BY <1>7, <1>H, <2>2 DEF HandleRendered
<1>8. CASE HandleMouseOver
  <2>1. panel' = [panel EXCEPT !.MouseOver = Head(pending).node]
    BY <1>8 DEF HandleMouseOver, OnMouseOverDisplayable
  <2>2. panel'.CurrentAccess = panel.CurrentAccess /\ panel'.graph = panel.graph
    BY <1>0, <2>1 DEF Panels
  <2> QED
    BY <1>8, <1>H, <2>2 DEF HandleMouseOver
<1>9. CASE HandleContextMenu \/ IgnoreContextMenu
  <2>1. Handles("contextmenu") /\ UNCHANGED workVars /\ panel' = panel
    BY <1>9 DEF HandleContextMenu, IgnoreContextMenu, viewVars
  <2> QED
    BY <1>H, <2>1
<1>10. CASE WorkerWaits
  <2>1. gui = "idle" /\ UNCHANGED <<version, panel, pending, missed, failed, spurious>> /\ worker.pc = "start"
    BY <1>10 DEF WorkerWaits, viewVars
  <2> QED
    BY <1>1, <1>C, <2>1
<1>11. CASE WorkerSpurious
  BY <1>11, <1>W, WorkerTypes DEF WorkerSpurious
<1>12. CASE workerGenerateDot
  <2>1. gui = "idle" /\ UNCHANGED <<version, panel, pending, missed, failed, spurious>>
    BY <1>12 DEF workerGenerateDot, viewVars
  <2>2. task.Access = version /\ task.ContinueGraphGeneration /\ task.Access # None
    BY <1>A, <2>1, VersionTypes
  <2>3. access[version].Valid
    BY <1>0, <2>1, VersionTypes DEF TokenInv
  <2>4. worker'.pc = "layout"
    BY <1>12, <2>2, <2>3 DEF workerGenerateDot, HasAccess
  <2> QED
    BY <1>W, <2>4
<1>13. CASE LayoutEnds
  <2>1. gui = "idle" /\ panel' = panel
    BY <1>13 DEF LayoutEnds, viewVars
  <2>2. task.ContinueGraphGeneration
    BY <1>A, <2>1
  <2>3. worker'.pc = "dot"
    BY <1>13, <2>2, WorkerTypes DEF LayoutEnds
  <2> QED
    BY <1>W, <2>3
<1>14. CASE DotEnds
  <2>1. gui = "idle" /\ panel' = panel /\ missed' = missed /\ version' = version
    BY <1>14 DEF DotEnds, viewVars
  <2>2. worker.of = version
    BY <1>14, <1>A, <2>1 DEF DotEnds
  <2>3. pending' = Append(pending, Rendered(version))
    BY <1>14, <2>1, <2>2 DEF DotEnds
  <2>4. PICK last \in Nat : last = Len(pending) + 1
    BY QueueTypes
  <2>5. last \in DOMAIN pending' /\ pending'[last] = Rendered(version) /\ DOMAIN pending' = 1..last
    BY <2>3, <2>4, QueueTypes
  <2>6. \A j \in DOMAIN pending' : ~(last < j)
    BY <2>5
  <2>7. LastIsCurrent(last)'
    BY <2>6 DEF LastIsCurrent
  <2>8. pending'[last] = Rendered(version)'
    BY <2>1, <2>5 DEF Rendered
  <2> QED
    BY <2>5, <2>7, <2>8 DEF OnItsWay
<1>15. CASE UNCHANGED graphVars
  BY <1>1, <1>C, <1>15 DEF graphVars, viewVars, workVars
<1> QED
  BY <1>4, <1>5, <1>6, <1>7, <1>8, <1>9, <1>10, <1>11, <1>12, <1>13, <1>14, <1>15 DEF GraphCase

LEMMA GraphInitially == GraphInit => GraphInv
<1> SUFFICES ASSUME GraphInit PROVE GraphInv
  OBVIOUS
<1>1. /\ version = 0 /\ gui = "idle" /\ pending = <<>> /\ buttons = TRUE /\ menu = NoNode
      /\ panel = [CurrentAccess |-> None, MouseOver |-> NoNode, graph |-> None]
      /\ tree = [CurrentAccess |-> 0, ActiveFn |-> 0, hover |-> "none", HoverTimer |-> FALSE]
      /\ task = [Access |-> None, ContinueGraphGeneration |-> FALSE]
      /\ worker = [pc |-> "start", of |-> None]
      /\ missed = FALSE /\ failed = FALSE /\ spurious = 0 /\ used = {} /\ causes = {}
      /\ access = [v \in Versions |-> StateAccessToken]
  BY DEF GraphInit
<1>2. 0 \in Versions /\ Versions \subseteq Nat /\ None = -1 /\ 0 \in 0..MaxSpurious
  BY GraphBounds DEF Versions, None
<1>3. StateAccessToken \in Token /\ StateAccessToken.Valid /\ StateAccessToken.Count = 0
  BY DEF StateAccessToken, Token
<1>4. GraphTypes
  <2>1. access \in [Versions -> Token]
    BY <1>1, <1>3
  <2>2. panel \in Panels /\ menu \in Menus
    BY <1>1, EventTypes DEF Panels, Menus, Places
  <2>3. tree \in Trees /\ task \in Tasks /\ worker \in GraphWorkers
    BY <1>1, <1>2 DEF Trees, TreeNodes, Tasks, GraphWorkers, Places
  <2>4. \A T : <<>> \in Seq(T)
    OBVIOUS
  <2> QED
    BY <1>1, <1>2, <2>1, <2>2, <2>3, <2>4 DEF GraphTypes
<1>5. TokenInv
  <2>1. \A v \in Versions : access[v] = StateAccessToken /\ (0 < v \/ v = 0)
    BY <1>1, <1>2
  <2> QED
    BY <1>1, <1>3, <2>1 DEF TokenInv
<1>6. TaskInv /\ LayoutInv /\ TreeInv /\ MovingInv
  BY <1>1, <1>2 DEF TaskInv, LayoutInv, TreeInv, MovingInv
<1>7. KeptInv /\ StaleReadsAreExplained
  BY <1>1, EventTypes DEF KeptInv, StaleReadsAreExplained, Gone
<1>8. UnshownInv /\ AskedInv /\ ComingInv
  BY <1>1 DEF UnshownInv, AskedInv, ComingInv
<1> QED
  BY <1>4, <1>5, <1>6, <1>7, <1>8 DEF GraphInv

LEMMA GraphStep == GraphInv /\ [GraphNext]_graphVars => GraphInv'
<1> SUFFICES ASSUME GraphInv, [GraphNext]_graphVars PROVE GraphInv'
  OBVIOUS
<1>1. GraphCase
  BY GraphCases
<1> QED
  BY <1>1, TypesStep, TokenStep, TaskStep, LayoutStep, TreeStep, KeptStep, MovingStep, StaleStep,
     UnshownStep, AskedStep, ComingStep DEF GraphInv

\* The state is not moved while the worker lays it out, and objects of a state
\* that is gone are only read through the causes that the code leaves open,
\* for any number of movements and queued events: StateAccessToken.hpp,
\* StateGraphViewer.cpp, TraceViewerFrame.cpp and StateEvaluationTree.cpp.
THEOREM ViewsReadLiveState == GraphSpec => []OnlyLiveStateIsRead
<1>1. GraphInv => OnlyLiveStateIsRead
  <2> SUFFICES ASSUME GraphInv PROVE OnlyLiveStateIsRead
    OBVIOUS
  <2>1. GraphTypeOK /\ StaleReadsAreExplained
    BY GraphTypesOK DEF GraphInv
  <2>2. LayoutReadsLiveState
    <3>1. gui \in {"idle", "waiting"} => access[version].Valid
      BY VersionTypes DEF GraphInv, TokenInv
    <3> QED
      BY <3>1 DEF GraphInv, LayoutInv, LayoutReadsLiveState
  <2> QED
    BY <2>1, <2>2 DEF OnlyLiveStateIsRead
<1> QED
  BY <1>1, GraphInitially, GraphStep, PTL DEF GraphSpec

\* Once the worker rests and no event is queued, the graph shown is that of the
\* present state, unless its rendering failed or the worker missed being
\* notified: renderGraph() and the worker's loop in StateGraphViewer.cpp.
THEOREM GraphCatchesUp == GraphSpec => []GraphIsCurrent
<1>1. GraphInv => GraphIsCurrent
  <2> SUFFICES ASSUME GraphInv, Quiet, ~missed, ~failed, spurious = 0
               PROVE  panel.graph = panel.CurrentAccess
    BY DEF GraphIsCurrent
  <2>1. CASE panel.CurrentAccess = None
    BY <2>1 DEF GraphInv, UnshownInv
  <2>2. CASE panel.CurrentAccess # None
    <3>1. OnItsWay /\ panel.CurrentAccess = version
      BY <2>2 DEF GraphInv, ComingInv, AskedInv, Quiet
    <3>2. pending = <<>> /\ worker.pc \notin {"woken", "layout", "dot"}
      BY DEF Quiet
    <3> QED
      BY <3>1, <3>2 DEF OnItsWay
  <2> QED
    BY <2>1, <2>2
<1> QED
  BY <1>1, GraphInitially, GraphStep, PTL DEF GraphSpec

================================================================================
