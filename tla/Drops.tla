-------------------------------- MODULE Drops --------------------------------
(***************************************************************************)
(* From files to a transfer in the UI (ui/mod.rs): files dropped on the    *)
(* window, which arrive one event each and are put together by a timer of  *)
(* 300 ms, the chooser of a recipient, and the file dialogs of the device  *)
(* form.                                                                   *)
(*                                                                         *)
(* Time passes in steps of half the timer's delay.  A timer that has run   *)
(* out may be heard of late, and timers that run out together in any       *)
(* order.  A transfer begins where start_send does not refuse it; what     *)
(* becomes of it is Sending's.                                             *)
(***************************************************************************)
EXTENDS Naturals, Sequences, FiniteSets

CONSTANTS Devices,    \* devices that may be listed
          Reachable,  \* those with an address and a port
          NoDevice,   \* selected_device is None
          NoFiles,    \* pending_recipient_files is None
          MaxDrops,   \* files dropped (bound)
          MaxPicks    \* dialogs opened (bound)

ASSUME DropsAssumption ==
    /\ Reachable \subseteq Devices /\ NoDevice \notin Devices
    /\ MaxDrops \in Nat /\ MaxPicks \in Nat

Delay == 2

VARIABLES
    dropped,    \* dropped_files
    generation, \* drop_generation: the number of files dropped so far
    timers,     \* the time left of each file's timer
    listed,     \* discovered_devices
    selected,   \* selected_device
    chooser,    \* pending_recipient_files
    dialogs,    \* the devices of the open dialogs
    picks,      \* dialogs opened so far
    batches,    \* what start_send was called with (history)
    told,       \* files the user was told were not sent, or cancelled (history)
    replaced,   \* files of a chooser that a later drop replaced (history)
    pauses      \* files that came a delay or more after the one before (history)

deviceVars == <<listed, selected>>
dialogVars == <<dialogs, picks>>
dropHistory == <<batches, told, replaced, pauses>>
dropVars == <<dropped, generation, timers, deviceVars, chooser, dialogVars, dropHistory>>

\* A file is known by the generation its event made; one picked in a dialog by
\* a number above all of those.
FilesGiven == 1..(MaxDrops + MaxPicks)

ASSUME NoFilesAssumption == \A files \in SUBSET FilesGiven : NoFiles # files

DropsTypeOK ==
    /\ generation \in 0..MaxDrops /\ picks \in 0..MaxPicks
    /\ dropped \subseteq 1..generation
    /\ DOMAIN timers \subseteq 1..generation /\ \A g \in DOMAIN timers : timers[g] \in 0..Delay
    /\ listed \subseteq Devices /\ selected \in Devices \cup {NoDevice}
    /\ chooser = NoFiles \/ chooser \subseteq FilesGiven
    /\ \A i \in DOMAIN dialogs : dialogs[i] \in Devices
    /\ batches \subseteq [files : SUBSET FilesGiven, nth : Nat]
    /\ told \subseteq FilesGiven /\ replaced \subseteq FilesGiven /\ pauses \subseteq FilesGiven

DropsInit ==
    /\ dropped = {} /\ generation = 0 /\ timers = <<>>
    /\ listed = {} /\ selected = NoDevice /\ chooser = NoFiles
    /\ dialogs = <<>> /\ picks = 0
    /\ batches = {} /\ told = {} /\ replaced = {} /\ pauses = {}

-----------------------------------------------------------------------------
(* The list and the form                                                   *)

\* A refreshed list; sync_selected_device keeps a selection that is in it.
DevicesRefreshed(devices) ==
    /\ listed' = devices
    /\ selected' = IF selected \in devices THEN selected ELSE NoDevice
    /\ UNCHANGED <<dropped, generation, timers, chooser, dialogVars, dropHistory>>

\* The chooser covers the list and the form.
DeviceSelected(d) ==
    /\ chooser = NoFiles /\ d \in listed
    /\ selected' = d
    /\ UNCHANGED <<dropped, generation, timers, listed, chooser, dialogVars, dropHistory>>

\* Nothing happens while a transfer runs.
DeviceDeselected ==
    /\ chooser = NoFiles
    /\ selected' = NoDevice
    /\ UNCHANGED <<dropped, generation, timers, listed, chooser, dialogVars, dropHistory>>

-----------------------------------------------------------------------------
(* start_send                                                              *)

\* A device that cannot be reached, or the demo's limits, get a notification.
StartSend(d, files) ==
    \/ /\ d \in Reachable
       /\ batches' = batches \cup {[files |-> files, nth |-> Cardinality(batches) + 1]}
       /\ UNCHANGED told
    \/ told' = told \cup files /\ UNCHANGED batches

\* SendFile and SendFolder: the dialog keeps the device it was opened for.
OpenDialog(d) ==
    /\ picks < MaxPicks /\ selected = d /\ chooser = NoFiles
    /\ picks' = picks + 1
    /\ dialogs' = Append(dialogs, d)
    /\ UNCHANGED <<dropped, generation, timers, deviceVars, chooser, dropHistory>>

CloseDialog(i) ==
    /\ dialogs' = [j \in 1..(Len(dialogs) - 1) |-> IF j < i THEN dialogs[j] ELSE dialogs[j + 1]]
    /\ \/ StartSend(dialogs[i], {MaxDrops + picks - Len(dialogs) + 1})  \* ChooseRecipientWithFiles
       \/ UNCHANGED <<batches, told>>
    /\ UNCHANGED <<dropped, generation, timers, deviceVars, chooser, picks, replaced, pauses>>

-----------------------------------------------------------------------------
(* Files dropped on the window                                             *)

Running == {g \in DOMAIN timers : timers[g] > 0}

\* One event for every file of a gesture.
FileDroppedOnWindow ==
    /\ generation < MaxDrops
    /\ generation' = generation + 1
    /\ dropped' = dropped \cup {generation'}
    /\ timers' = [g \in DOMAIN timers \cup {generation'} |-> IF g = generation' THEN Delay ELSE timers[g]]
    /\ pauses' = IF Running = {} THEN pauses \cup {generation'} ELSE pauses
    /\ UNCHANGED <<deviceVars, chooser, dialogVars, batches, told, replaced>>

TimePasses ==
    /\ Running # {}
    /\ timers' = [g \in DOMAIN timers |-> IF timers[g] > 0 THEN timers[g] - 1 ELSE 0]
    /\ UNCHANGED <<dropped, generation, deviceVars, chooser, dialogVars, dropHistory>>

ReachableNow == listed \cap Reachable

\* The recipient, when there is only one, or nobody is there, or the chooser,
\* whatever it held before.
Dispatch(files) ==
    IF selected # NoDevice THEN StartSend(selected, files) /\ UNCHANGED <<chooser, replaced>>
    ELSE IF Cardinality(ReachableNow) = 1
    THEN (\E d \in ReachableNow : StartSend(d, files)) /\ UNCHANGED <<chooser, replaced>>
    ELSE IF listed = {}
    THEN told' = told \cup files /\ UNCHANGED <<batches, chooser, replaced>>
    ELSE /\ chooser' = files
         /\ replaced' = IF chooser = NoFiles THEN replaced ELSE replaced \cup chooser
         /\ UNCHANGED <<batches, told>>

TimerEnds(g) == timers' = [h \in DOMAIN timers \ {g} |-> timers[h]]

\* Mutants: the first timer takes what is there; the files stay in the list.
ProcessAtFirstTimer(g) ==
    /\ g \in DOMAIN timers /\ timers[g] = 0
    /\ TimerEnds(g)
    /\ IF dropped = {} THEN UNCHANGED <<dropped, chooser, batches, told, replaced>>
       ELSE dropped' = {} /\ Dispatch(dropped)
    /\ UNCHANGED <<generation, deviceVars, dialogVars, pauses>>

ProcessButFirstTimer(g) ==
    /\ g \in DOMAIN timers /\ timers[g] = 0
    /\ TimerEnds(g)
    /\ IF g # generation \/ Cardinality(dropped) = 1 THEN UNCHANGED <<dropped, chooser, batches, told, replaced>>
       ELSE dropped' = {} /\ Dispatch(dropped)
    /\ UNCHANGED <<generation, deviceVars, dialogVars, pauses>>

\* Only the timer of the last file counts, and it takes all of them.
ProcessDroppedFiles(g) ==
    /\ g \in DOMAIN timers /\ timers[g] = 0
    /\ TimerEnds(g)
    /\ IF g # generation \/ dropped = {} THEN UNCHANGED <<dropped, chooser, batches, told, replaced>>
       ELSE dropped' = {} /\ Dispatch(dropped)
    /\ UNCHANGED <<generation, deviceVars, dialogVars, pauses>>

\* The rows of the chooser are those of the list as it is now.
ChooseRecipient(d) ==
    /\ chooser # NoFiles /\ d \in listed
    /\ chooser' = NoFiles
    /\ StartSend(d, chooser)
    /\ UNCHANGED <<dropped, generation, timers, deviceVars, dialogVars, replaced, pauses>>

CancelRecipientChooser ==
    /\ chooser # NoFiles
    /\ chooser' = NoFiles /\ told' = told \cup chooser
    /\ UNCHANGED <<dropped, generation, timers, deviceVars, dialogVars, batches, replaced, pauses>>

DropsNext ==
    \/ \E devices \in SUBSET Devices : DevicesRefreshed(devices)
    \/ \E d \in Devices : DeviceSelected(d) \/ OpenDialog(d) \/ ChooseRecipient(d)
    \/ DeviceDeselected
    \/ \E i \in DOMAIN dialogs : CloseDialog(i)
    \/ FileDroppedOnWindow \/ TimePasses \/ CancelRecipientChooser
    \/ \E g \in 1..MaxDrops : ProcessDroppedFiles(g)

\* Timers run out and their messages are handled.
DropsFairness ==
    /\ WF_dropVars(TimePasses)
    /\ \A g \in 1..MaxDrops : WF_dropVars(ProcessDroppedFiles(g))

DropsSpec == DropsInit /\ [][DropsNext]_dropVars /\ DropsFairness

-----------------------------------------------------------------------------
(* Properties                                                              *)

Sent == UNION {b.files : b \in batches}
Fates == <<dropped, IF chooser = NoFiles THEN {} ELSE chooser, Sent, told, replaced>>

\* Every file dropped is in one place: it waits for its timer or for a
\* recipient, goes out, in one transfer only, or the user knows that it did not;
\* and files whose events came less than the timer's delay apart go together,
\* however late the timers are heard of (FileDroppedOnWindow,
\* ProcessDroppedFiles, "a multi-file drop becomes a single transfer").  The
\* files of a chooser are lost when a later drop replaces them.
DropsGoTogether ==
    /\ \A f \in 1..generation : Cardinality({i \in DOMAIN Fates : f \in Fates[i]}) = 1
    /\ \A b, c \in batches : b # c => b.files \cap c.files = {}
    /\ \A f \in 1..generation : f + 1 \in 1..generation /\ f + 1 \notin pauses =>
          \A i \in DOMAIN Fates : f \in Fates[i] <=> f + 1 \in Fates[i]

\* No dropped file stays in the list for ever.
DropsAreTaken == \A f \in 1..MaxDrops : f \in dropped ~> f \notin dropped

=============================================================================
