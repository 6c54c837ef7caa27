------------------------------ MODULE ActionReplay -----------------------------
(***************************************************************************)
(* Recording what the user does in the trace viewer, and replaying such a  *)
(* recording (tools/seec-view/ActionRecord.cpp, ActionReplay.cpp): one     *)
(* timer brings the events back at the pace at which they were recorded,   *)
(* and the user may pause, or replay the next event at once.               *)
(***************************************************************************)
EXTENDS Integers, Sequences

CONSTANTS
    Recordings,   \* recordings that may be loaded: the times of their events
    MaxLoads      \* how often one is loaded

ASSUME RecordingsAreTimes ==
    MaxLoads \in Nat /\ Recordings \subseteq Seq(Nat)

VARIABLES
    recording,      \* the recording loaded
    NextEvent,      \* its next event; one after the last if there is none
    LastEventTime,
    EventTimer,     \* the event whose time the timer waits for, or 0
    delay,          \* the time that it waits
    enabled,        \* the buttons that can be pressed
    listed,         \* the event that the list shows as the current one
    replayed,       \* the events replayed of this recording (history)
    loads,
    stepped,        \* an event was replayed at once while the timer ran, or a
                    \* recording loaded then (history)
    asserted        \* an assertion failed in the last step

replayVars == <<recording, NextEvent, LastEventTime, EventTimer, delay, enabled,
                listed, replayed, loads, stepped, asserted>>

HasNext == NextEvent <= Len(recording)
Buttons == {"play", "pause", "step"}

ReplayEvent ==
    /\ LastEventTime' = recording[NextEvent]
    /\ replayed' = Append(replayed, NextEvent)

MoveToNextEvent ==
    /\ NextEvent' = NextEvent + 1
    /\ listed' = listed + 1

\* The buttons are disabled when there are no more events.
ButtonsAfter(buttons) == IF NextEvent' > Len(recording) THEN {} ELSE buttons

\* The timer for the next event, from the time of the last.
SetEventTimer(next, last) ==
    /\ EventTimer' = next
    /\ delay' = recording[next] - last

OnPlay ==
    /\ loads > 0 /\ "play" \in enabled
    /\ asserted' = (~HasNext \/ EventTimer # 0)
    /\ IF HasNext /\ EventTimer = 0
       THEN SetEventTimer(NextEvent, LastEventTime) /\ enabled' = (enabled \ {"play"}) \cup {"pause"}
       ELSE UNCHANGED <<EventTimer, delay, enabled>>
    /\ UNCHANGED <<recording, NextEvent, LastEventTime, listed, replayed, loads, stepped>>

OnPause ==
    /\ loads > 0 /\ "pause" \in enabled
    /\ EventTimer' = 0 /\ delay' = 0
    /\ enabled' = IF EventTimer # 0 THEN (enabled \ {"pause"}) \cup {"play"} ELSE enabled
    /\ asserted' = FALSE
    /\ UNCHANGED <<recording, NextEvent, LastEventTime, listed, replayed, loads, stepped>>

OnStep ==
    /\ loads > 0 /\ "step" \in enabled
    /\ asserted' = ~HasNext
    /\ stepped' = (stepped \/ EventTimer # 0)
    /\ IF HasNext THEN ReplayEvent /\ MoveToNextEvent /\ enabled' = ButtonsAfter(enabled)
       ELSE UNCHANGED <<NextEvent, LastEventTime, listed, replayed, enabled>>
    /\ UNCHANGED <<recording, EventTimer, delay, loads>>

\* The timer runs out: whatever event is the next one now is replayed.
OnEventTimer ==
    /\ EventTimer # 0
    /\ asserted' = ~HasNext
    /\ IF HasNext
       THEN /\ ReplayEvent /\ MoveToNextEvent
            /\ IF NextEvent' <= Len(recording)
               THEN /\ SetEventTimer(NextEvent', LastEventTime')
                    /\ enabled' = (enabled \ {"play"}) \cup {"pause"}
               ELSE EventTimer' = 0 /\ delay' = 0 /\ enabled' = {}
       ELSE EventTimer' = 0 /\ delay' = 0 /\ UNCHANGED <<NextEvent, LastEventTime, listed, replayed, enabled>>
    /\ UNCHANGED <<recording, loads, stepped>>

\* (Loading that goes on from the event that was the next one.)
LoadRecordingKeepsEvent(r) ==
    /\ loads < MaxLoads /\ loads' = loads + 1
    /\ recording' = r /\ listed' = 0 /\ replayed' = <<>>
    /\ stepped' = (stepped \/ EventTimer # 0) /\ asserted' = FALSE
    /\ UNCHANGED <<NextEvent, LastEventTime, EventTimer, delay, enabled>>

\* Another recording is loaded; neither the timer, nor the buttons, nor the
\* last event's time are looked at.
LoadRecording(r) ==
    /\ loads < MaxLoads /\ loads' = loads + 1
    /\ recording' = r /\ NextEvent' = 1 /\ listed' = 0 /\ replayed' = <<>>
    /\ stepped' = (stepped \/ EventTimer # 0)
    /\ asserted' = FALSE
    /\ UNCHANGED <<LastEventTime, EventTimer, delay, enabled>>

ReplayInit ==
    /\ recording = <<>> /\ NextEvent = 1 /\ LastEventTime = 0
    /\ EventTimer = 0 /\ delay = 0 /\ enabled = Buttons
    /\ listed = 0 /\ replayed = <<>> /\ loads = 0 /\ stepped = FALSE /\ asserted = FALSE

ReplayNext ==
    \/ OnPlay \/ OnPause \/ OnStep \/ OnEventTimer
    \/ \E r \in Recordings : LoadRecording(r)

ReplaySpec == ReplayInit /\ [][ReplayNext]_replayVars

--------------------------------------------------------------------------------
(* Properties *)

\* Every event is replayed exactly once and in the recorded order, however
\* playing, pausing and single steps alternate, and the list shows how far the
\* replay has come.
ReplayedInOrder ==
    /\ replayed = [i \in 1..NextEvent - 1 |-> i]
    /\ listed = NextEvent - 1

\* The timer waits for the event that will be replayed when it runs out, with
\* the pause that was recorded before that event; unless an event was replayed
\* by hand, or a recording loaded, while the timer ran, or a recording was
\* loaded after another one (whose last time still counts).
TimerIsForNextEvent ==
    EventTimer # 0 /\ ~stepped =>
        /\ EventTimer = NextEvent
        /\ loads <= 1 => delay = recording[EventTimer] - (IF EventTimer = 1 THEN 0 ELSE recording[EventTimer - 1])

\* The assertions that there is a next event hold, except that an empty
\* recording can be played, and that the timer may run out after the
\* last event was replayed by hand, or the recording exchanged.
ReplayAssertionsHold == asserted => recording = <<>> \/ stepped

\* The recorded actions are replayed as they were recorded: each once, in their
\* order and with their pauses.
ReplayIsFaithful == ReplayedInOrder /\ TimerIsForNextEvent /\ ReplayAssertionsHold
================================================================================
