--------------------------- MODULE RecordingSubmitter --------------------------
(***************************************************************************)
(* Sending the recordings of the user's actions to a server                *)
(* (tools/seec-view/ActionRecord.cpp, ActionRecordSettings.cpp).  When a   *)
(* window of the trace viewer closes, its recording is archived in a       *)
(* directory; a worker thread sends the archives that it found there when  *)
(* it started and those that it is notified of, and removes what was sent: *)
(* whatever the server answered, since no answer makes cURL fail.  The     *)
(* directory outlives the viewer, which may be started again.              *)
(***************************************************************************)
EXTENDS Integers, Sequences, FiniteSets

CONSTANTS
    Archives,    \* recordings, by the names of their archives
    MaxStarts    \* how often the viewer is started

ASSUME SubmitterBounds == IsFiniteSet(Archives) /\ MaxStarts \in Nat \ {0}

VARIABLES
    disk,           \* what each archive on the disk holds
    writer,         \* the archive that the GUI thread writes, and how far it is
    viewer,         \* whether the viewer runs, shuts down, or does not run
    curl,           \* whether cURL could be initialized when the viewer started
    submitter,      \* the worker, its file and what that held when the transfer began
    AllRecordingFiles,
    NewRecordings,
    Shutdown,
    starts,
    received,       \* archives that the server has accepted all of
    refused,        \* archives that it answered with an error (history)
    finished,       \* archives that were written and closed (history)
    early           \* archives answered in a transfer that began before they were closed (history)

submitVars == <<disk, writer, viewer, curl, submitter, AllRecordingFiles, NewRecordings, Shutdown,
                starts, received, refused, finished, early>>

NoArchive == "none"
ASSUME NoArchiveIsNone == NoArchive \notin Archives

worker_ == <<submitter, AllRecordingFiles>>
shared == <<NewRecordings, Shutdown>>
server == <<received, refused, early>>
gui_ == <<writer, viewer, curl, starts>>

Worker(pc) == [pc |-> pc, file |-> NoArchive, content |-> "none"]

--------------------------------------------------------------------------------
(* The GUI thread: a window closes, and its recording is archived *)

\* finalize(): a file that does not exist yet is created...
CreateArchive(a) ==
    /\ viewer = "runs" /\ writer.archive = NoArchive
    /\ disk[a] = "none" /\ a \notin received \cup refused \cup early
    /\ disk' = [disk EXCEPT ![a] = "part"]
    /\ writer' = [archive |-> a, told |-> FALSE]
    /\ UNCHANGED <<viewer, curl, starts, worker_, shared, server, finished>>

\* ... and filled.  The worker is told before the file is closed, which is
\* when the last of what was written gets there.
notifyOfNewRecording ==
    /\ writer.archive # NoArchive /\ ~writer.told
    /\ writer' = [writer EXCEPT !.told = TRUE]
    /\ NewRecordings' = Append(NewRecordings, writer.archive)
    /\ submitter' = IF submitter.pc = "waiting" THEN [submitter EXCEPT !.pc = "woken"] ELSE submitter
    /\ UNCHANGED <<disk, viewer, curl, starts, AllRecordingFiles, Shutdown, server, finished>>

CloseArchive ==
    /\ writer.archive # NoArchive /\ writer.told
    /\ writer' = [archive |-> NoArchive, told |-> FALSE]
    /\ disk' = [disk EXCEPT ![writer.archive] = IF @ = "none" THEN @ ELSE "whole"]
    /\ finished' = finished \cup {writer.archive}
    /\ UNCHANGED <<viewer, curl, starts, worker_, shared, server>>

\* Writing fails, and the file is removed again.
ArchiveFails ==
    /\ writer.archive # NoArchive /\ ~writer.told
    /\ writer' = [archive |-> NoArchive, told |-> FALSE]
    /\ disk' = [disk EXCEPT ![writer.archive] = "none"]
    /\ UNCHANGED <<viewer, curl, starts, worker_, shared, server, finished>>

\* ~ActionRecordingSubmitterImpl: tell the worker to end, and wait for it.
ShutDown ==
    /\ viewer = "runs" /\ writer.archive = NoArchive
    /\ viewer' = "joining" /\ Shutdown' = TRUE
    /\ submitter' = IF submitter.pc = "waiting" THEN [submitter EXCEPT !.pc = "woken"] ELSE submitter
    /\ UNCHANGED <<disk, writer, curl, starts, AllRecordingFiles, NewRecordings, server, finished>>

\* The submitter and its worker are gone.
Forget ==
    /\ submitter' = Worker("exited")
    /\ AllRecordingFiles' = <<>> /\ NewRecordings' = <<>> /\ Shutdown' = FALSE

JoinSubmitter ==
    /\ viewer = "joining" /\ submitter.pc = "exited" /\ viewer' = "off"
    /\ Forget
    /\ UNCHANGED <<disk, writer, curl, starts, server, finished>>

\* The viewer is killed; an archive that was being written stays as it is.
Killed ==
    /\ viewer = "runs" /\ viewer' = "off"
    /\ writer' = [archive |-> NoArchive, told |-> FALSE]
    /\ Forget
    /\ UNCHANGED <<disk, curl, starts, server, finished>>

StartViewer ==
    /\ viewer = "off" /\ starts < MaxStarts /\ starts' = starts + 1
    /\ viewer' = "runs" /\ submitter' = Worker("list") /\ curl' \in BOOLEAN
    /\ UNCHANGED <<disk, writer, AllRecordingFiles, shared, server, finished>>

--------------------------------------------------------------------------------
(* The worker *)

\* Without cURL the worker ends at once.
WorkerWithoutCURL ==
    /\ submitter.pc = "list" /\ ~curl /\ submitter' = Worker("exited")
    /\ UNCHANGED <<disk, gui_, AllRecordingFiles, shared, server, finished>>

\* The directory is listed, in whatever order.
WorkerGetAllRecordingFiles ==
    /\ submitter.pc = "list" /\ curl
    /\ LET there == {a \in Archives : disk[a] # "none"}
       IN  AllRecordingFiles' \in {s \in [1..Cardinality(there) -> there] : \A a \in there : \E i \in DOMAIN s : s[i] = a}
    /\ submitter' = Worker("next")
    /\ UNCHANGED <<disk, gui_, shared, server, finished>>

\* The last file of the list is taken, or there is nothing left to send.
PopRecording ==
    /\ submitter.pc = "next"
    /\ IF AllRecordingFiles = <<>>
       THEN submitter' = Worker("check") /\ UNCHANGED AllRecordingFiles
       ELSE /\ submitter' = [Worker("send") EXCEPT !.file = AllRecordingFiles[Len(AllRecordingFiles)]]
            /\ AllRecordingFiles' = SubSeq(AllRecordingFiles, 1, Len(AllRecordingFiles) - 1)
    /\ UNCHANGED <<disk, gui_, shared, server, finished>>

\* A transfer begins, unless there is no handle for it or no file any more.
WorkerSendRecording ==
    /\ submitter.pc = "send"
    /\ \/ submitter' = Worker("next")
       \/ /\ disk[submitter.file] # "none"
          /\ submitter' = [submitter EXCEPT !.pc = "transfer", !.content = disk[submitter.file]]
    /\ UNCHANGED <<disk, gui_, AllRecordingFiles, shared, server, finished>>

\* The progress callback aborts it once the viewer shuts down.
WorkerProgress ==
    /\ submitter.pc = "transfer" /\ Shutdown
    /\ submitter' = Worker("check")
    /\ UNCHANGED <<disk, gui_, AllRecordingFiles, shared, server, finished>>

\* (A transfer that fails counts as a success.)
FailureIsSuccess ==
    /\ submitter.pc = "transfer"
    /\ submitter' = [submitter EXCEPT !.pc = "remove", !.content = "none"]
    /\ UNCHANGED <<disk, gui_, AllRecordingFiles, shared, server, finished>>

\* There is no connection, or it breaks.
TransferFails ==
    /\ submitter.pc = "transfer"
    /\ submitter' = Worker("next")
    /\ UNCHANGED <<disk, gui_, AllRecordingFiles, shared, server, finished>>

\* The server answers, having got what the file held when the transfer began
\* or what it holds by now.  Neither CURLOPT_FAILONERROR is set nor the status
\* looked at: an error is a success, too.
TransferAnswered ==
    /\ submitter.pc = "transfer"
    /\ \/ /\ \E got \in {submitter.content, disk[submitter.file]} \ {"none"} :
                received' = received \cup (IF got = "whole" THEN {submitter.file} ELSE {})
          /\ UNCHANGED refused
       \/ refused' = refused \cup {submitter.file} /\ UNCHANGED received
    /\ early' = early \cup (IF submitter.content = "part" THEN {submitter.file} ELSE {})
    /\ submitter' = [submitter EXCEPT !.pc = "remove", !.content = "none"]
    /\ UNCHANGED <<disk, gui_, AllRecordingFiles, shared, finished>>

\* The file is removed, or cannot be.
RemoveSent ==
    /\ submitter.pc = "remove"
    /\ submitter' = Worker("next")
    /\ disk' \in {disk, [disk EXCEPT ![submitter.file] = "none"]}
    /\ UNCHANGED <<gui_, AllRecordingFiles, shared, server, finished>>

\* With the mutex: wait while there is nothing to do, end, or take the new ones.
WaitForNew ==
    /\ submitter.pc \in {"check", "woken"}
    /\ IF Shutdown THEN submitter' = [submitter EXCEPT !.pc = "exited"] /\ UNCHANGED <<AllRecordingFiles, NewRecordings>>
       ELSE IF NewRecordings = <<>>
            THEN submitter' = [submitter EXCEPT !.pc = "waiting"] /\ UNCHANGED <<AllRecordingFiles, NewRecordings>>
            ELSE /\ submitter' = Worker("next")
                 /\ AllRecordingFiles' = AllRecordingFiles \o NewRecordings
                 /\ NewRecordings' = <<>>
    /\ UNCHANGED <<disk, gui_, Shutdown, server, finished>>

SubmitInit ==
    /\ disk = [a \in Archives |-> "none"] /\ received = {}
    /\ writer = [archive |-> NoArchive, told |-> FALSE]
    /\ viewer = "runs" /\ submitter = Worker("list") /\ curl \in BOOLEAN
    /\ AllRecordingFiles = <<>> /\ NewRecordings = <<>> /\ Shutdown = FALSE
    /\ finished = {} /\ early = {} /\ refused = {} /\ starts = 1

SubmitGui ==
    \/ \E a \in Archives : CreateArchive(a)
    \/ notifyOfNewRecording \/ CloseArchive \/ ArchiveFails
    \/ ShutDown \/ JoinSubmitter \/ Killed \/ StartViewer

\* What the worker does by itself, and what it depends on the server for.
SubmitWorker ==
    \/ WorkerWithoutCURL \/ WorkerGetAllRecordingFiles \/ PopRecording \/ WorkerSendRecording
    \/ WorkerProgress \/ RemoveSent \/ WaitForNew
SubmitServer == TransferFails \/ TransferAnswered

SubmitNext == SubmitGui \/ SubmitWorker \/ SubmitServer

SubmitSpec == SubmitInit /\ [][SubmitNext]_submitVars

--------------------------------------------------------------------------------
(* Properties *)

\* What becomes of a recording that was written and closed: it is whole on the
\* disk, or the server has accepted all of it; or the code gave it up in one of
\* the two ways that it has of doing so: the server answered a transfer of it
\* with an error, or one that began before the archive was closed, and the file
\* was removed all the same.  Nothing else (a transfer that failed or was
\* aborted, a kill, a restart, a second notification) removes one.
NothingIsLost ==
    \A a \in finished :
        disk[a] = "whole" \/ a \in received \/ a \in refused \/ a \in early

\* The viewer can always be closed, though the server does not answer: the
\* worker ends.
ClosingSubmits == (viewer = "joining") ~> (viewer = "off")

\* With cURL, and unless a transfer lasts for ever (there is no time limit, so
\* one may), the worker gets to every recording that it is told of while the
\* viewer runs.
NewRecordingsAreTaken ==
    []<>(submitter.pc # "transfer") =>
        ((NewRecordings # <<>> /\ curl) ~> (NewRecordings = <<>> \/ viewer # "runs"))
================================================================================
