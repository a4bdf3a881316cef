------------------------------- MODULE Sending -------------------------------
(***************************************************************************)
(* Outgoing transfers: start_send, SendLink, FileSendCompleted and the     *)
(* progress poll of the UI (ui/mod.rs), and the tasks they start           *)
(* (send_files and send_link of protocols/airdrop_client.rs), with the     *)
(* demo quota (Licensing).                                                 *)
(*                                                                         *)
(* Nothing keeps the user from starting a transfer while another one runs. *)
(* All transfers report through ONE progress slot, which the UI polls, and *)
(* the quota is checked when a transfer starts and counted when the UI     *)
(* hears that it ended.                                                    *)
(***************************************************************************)
EXTENDS Licensing

CONSTANTS Sends,        \* transfers that may be under way at once (bound)
          Devices,      \* devices the user selects
          Located,      \* those with an address: not known from BLE only
          Reachable,    \* those with an address and a port
          NoDevice,     \* selected_device is None
          MaxTransfers  \* transfers started in a behaviour (bound)

ASSUME SendingAssumption ==
    /\ Reachable \subseteq Located /\ Located \subseteq Devices
    /\ NoDevice \notin Devices
    /\ Sends # {} /\ IsFiniteSet(Sends)
    /\ MaxTransfers \in Nat

VARIABLES
    send,      \* each transfer's task
    slot,      \* send_progress holds a value
    archives,  \* transfers whose temporary archive is on disk
    progress,  \* file_transfer_progress holds a value
    status,    \* airdrop_status
    selected,  \* selected_device
    started,   \* transfers started
    fileDone,  \* file transfers completed in the current span (history)
    unlimited  \* some check passed for being registered (history)

uiVars == <<progress, status, selected>>
counters == <<today, demo>>
history == <<started, fileDone, unlimited>>
vars == <<licenseVars, counters, send, slot, archives, uiVars, history>>

Steps == {"idle",
          "scanning",     \* collect_entries
          "discovering",  \* /Discover, up to three times
          "asking",       \* /Ask, as long as the receiver's user takes
          "building",     \* build_archive
          "uploading",    \* /Upload, chunk by chunk
          "closing",      \* send_files_inner has returned
          "ended"}        \* FileSendCompleted is on its way to the UI

Send == [at : Steps, link : BOOLEAN, ok : BOOLEAN]
IdleSend == [at |-> "idle", link |-> FALSE, ok |-> FALSE]

TypeOK ==
    /\ LicenseTypeOK
    /\ send \in [Sends -> Send]
    /\ slot \in BOOLEAN
    /\ archives \in SUBSET Sends
    /\ progress \in BOOLEAN
    /\ status \in {"idle", "connecting", "transferring"}
    /\ selected \in Devices \cup {NoDevice}
    /\ started \in Nat
    /\ fileDone \in Nat
    /\ unlimited \in BOOLEAN

Init ==
    /\ LicenseInit
    /\ send = [s \in Sends |-> IdleSend]
    /\ slot = FALSE
    /\ archives = {}
    /\ progress = FALSE
    /\ status = "idle"
    /\ selected = NoDevice
    /\ started = 0
    /\ fileDone = 0
    /\ unlimited = FALSE

-----------------------------------------------------------------------------
(* The UI thread *)

DeviceSelected(d) ==
    /\ selected' = d
    /\ UNCHANGED <<licenseVars, counters, send, slot, archives, progress, status, history>>

DeviceDeselected ==
    /\ ~progress
    /\ selected' = NoDevice
    /\ UNCHANGED <<licenseVars, counters, send, slot, archives, progress, status, history>>

\* sync_selected_device: a refreshed device list without the selected device.
SelectedVanishes ==
    /\ selected' = NoDevice
    /\ UNCHANGED <<licenseVars, counters, send, slot, archives, progress, status, history>>

Launch(s, step, link) ==
    /\ send[s].at = "idle"
    /\ started < MaxTransfers
    /\ started' = started + 1
    /\ send' = [send EXCEPT ![s] = [at |-> step, link |-> link, ok |-> FALSE]]
    /\ status' = "connecting"

\* start_send: a device known from Bluetooth only, or a load over the demo's
\* limits, gets a notification and no transfer.
StartSend(s, d, load) ==
    /\ d \in Reachable
    /\ SendAllowed(load)
    /\ CheckSend(load)
    /\ Launch(s, "scanning", FALSE)
    /\ progress' = TRUE
    /\ unlimited' = (unlimited \/ Registered)
    /\ UNCHANGED <<licenseVars, today, slot, archives, selected, fileDone>>

SendRefused(load) ==
    /\ ~SendAllowed(load)
    /\ CheckSend(load)
    /\ UNCHANGED <<licenseVars, today, send, slot, archives, uiVars, history>>

\* SendLink asks for an address only (port 8770 is its default) and never
\* for the quota.
SendLink(s, d) ==
    /\ d \in Located
    /\ Launch(s, "discovering", TRUE)
    /\ UNCHANGED <<licenseVars, counters, slot, archives, progress, selected, fileDone, unlimited>>

\* PollIncomingTransfer, every 250 ms, copies the slot when it holds a value.
PollProgress ==
    /\ slot
    /\ progress' = TRUE
    /\ status' = "transferring"
    /\ UNCHANGED <<licenseVars, counters, send, slot, archives, selected, history>>

\* Mutant: the counters are not rolled over to the new week.
CompletedCountsOldWeek(s) ==
    /\ send[s].at = "ended"
    /\ send' = [send EXCEPT ![s] = IdleSend]
    /\ progress' = FALSE
    /\ status' = "idle"
    /\ IF send[s].ok
       THEN RecordStale /\ selected' = NoDevice
       ELSE UNCHANGED <<demo, selected>>
    /\ fileDone' = IF send[s].ok /\ ~send[s].link THEN fileDone + 1 ELSE fileDone
    /\ UNCHANGED <<licenseVars, today, slot, archives, started, unlimited>>

\* The transfer is counted now, whatever kind it was and whoever else runs;
\* the license is saved (the outcome of saving is not looked at).
FileSendCompleted(s) ==
    /\ send[s].at = "ended"
    /\ send' = [send EXCEPT ![s] = IdleSend]
    /\ progress' = FALSE
    /\ status' = "idle"
    /\ IF send[s].ok
       THEN RecordDemoSend /\ selected' = NoDevice
       ELSE UNCHANGED <<demo, selected>>
    /\ fileDone' = IF send[s].ok /\ ~send[s].link THEN fileDone + 1 ELSE fileDone
    /\ UNCHANGED <<licenseVars, today, slot, archives, started, unlimited>>

-----------------------------------------------------------------------------
(* The tasks *)

From(s, step) == send[s].at = step
Goto(s, step) == send' = [send EXCEPT ![s].at = step]

\* An error leaves send_files_inner, or ends send_link.
Fail(s) == Goto(s, IF send[s].link THEN "ended" ELSE "closing")

unseen == <<licenseVars, counters, uiVars, history>>

\* Files are listed; none readable is an error.  The slot is set to 0.
CollectEntries(s) ==
    /\ From(s, "scanning")
    /\ \/ Goto(s, "discovering") /\ slot' = TRUE
       \/ Fail(s) /\ UNCHANGED slot
    /\ UNCHANGED <<archives, unseen>>

\* post_discover_with_retry: one answer of three attempts, or the last error.
Discover(s) ==
    /\ From(s, "discovering")
    /\ Goto(s, "asking") \/ Fail(s)
    /\ UNCHANGED <<slot, archives, unseen>>

\* The receiver's answer; a link needs nothing more.
AskReceiver(s) ==
    /\ From(s, "asking")
    /\ \/ /\ send[s].link
          /\ send' = [send EXCEPT ![s].at = "ended", ![s].ok = TRUE]
       \/ ~send[s].link /\ Goto(s, "building")
       \/ Fail(s)
    /\ UNCHANGED <<slot, archives, unseen>>

\* An archive that could not be built is removed again.
BuildArchive(s) ==
    /\ From(s, "building")
    /\ \/ Goto(s, "uploading") /\ archives' = archives \cup {s}
       \/ Fail(s) /\ UNCHANGED archives
    /\ UNCHANGED <<slot, unseen>>

UploadChunk(s) ==
    /\ From(s, "uploading")
    /\ slot' = TRUE
    /\ UNCHANGED <<send, archives, unseen>>

\* The receiver's 200, or an error: the archive is removed; only then is the
\* slot set to 100, on success.
EndUpload(s) ==
    /\ From(s, "uploading")
    /\ archives' = archives \ {s}
    /\ \/ /\ send' = [send EXCEPT ![s].at = "closing", ![s].ok = TRUE]
          /\ slot' = TRUE
       \/ Fail(s) /\ UNCHANGED slot
    /\ UNCHANGED unseen

\* Mutant: the slot is cleared after a success only.
CloseKeepsFailedProgress(s) ==
    /\ From(s, "closing")
    /\ slot' = (slot /\ ~send[s].ok)
    /\ Goto(s, "ended")
    /\ UNCHANGED <<archives, unseen>>

\* send_files clears the slot on every path, whoever set it last.
CloseProgress(s) ==
    /\ From(s, "closing")
    /\ slot' = FALSE
    /\ Goto(s, "ended")
    /\ UNCHANGED <<archives, unseen>>

-----------------------------------------------------------------------------
(* The license and the calendar *)

LicenseStep ==
    /\ (\E k \in Keys : Activate(k)) \/ Deactivate \/ (\E m \in Machines : HostRenamed(m))
    /\ UNCHANGED <<send, slot, archives, uiVars, history>>

NewSpan ==
    /\ today < Len(Calendar)
    /\ today' = today + 1
    /\ fileDone' = 0
    /\ UNCHANGED <<licenseVars, demo, send, slot, archives, uiVars, started, unlimited>>

UIStep ==
    \/ \E d \in Devices : DeviceSelected(d)
    \/ DeviceDeselected \/ SelectedVanishes
    \/ \E s \in Sends, d \in Devices, load \in Loads : StartSend(s, d, load)
    \/ \E load \in Loads : SendRefused(load)
    \/ \E s \in Sends, d \in Devices : SendLink(s, d)
    \/ PollProgress
    \/ \E s \in Sends : FileSendCompleted(s)

TaskStep(s) ==
    \/ CollectEntries(s) \/ Discover(s) \/ AskReceiver(s) \/ BuildArchive(s)
    \/ UploadChunk(s) \/ EndUpload(s) \/ CloseProgress(s)

Next ==
    \/ UIStep
    \/ \E s \in Sends : TaskStep(s)
    \/ LicenseStep
    \/ NewSpan

Spec == Init /\ [][Next]_vars

-----------------------------------------------------------------------------
(* Properties *)

Running(s) == send[s].at \in Steps \ {"idle", "ended"}

\* A file transfer that passed the check and is not counted yet.
InFlight == {s \in Sends : send[s].at # "idle" /\ ~send[s].link}

(* Once no transfer runs and the UI has heard of every end, no progress is *)
(* shown, the status is idle and no temporary archive is left, however the *)
(* transfers overlapped, wherever each failed and whenever the poll ran    *)
(* (send_files, post_upload_streamed, FileSendCompleted).                  *)
NothingLeftBehind ==
    (\A s \in Sends : send[s].at = "idle")
        => ~slot /\ ~progress /\ status = "idle" /\ archives = {}

(* The weekly limit can be overrun by the transfers that were under way    *)
(* together, and by no more: without a registration at most SendLimit - 1  *)
(* files plus one for each transfer that may run at once are sent in a     *)
(* week, the ones still under way included (check_send, record_demo_send). *)
OverrunIsBounded ==
    ~unlimited =>
        fileDone + Cardinality(InFlight) <= SendLimit - 1 + Cardinality(Sends)

=============================================================================
