------------------------------- MODULE Settings -------------------------------
(***************************************************************************)
(* How a change of the settings reaches the running services: the UI's     *)
(* handlers (ui/mod.rs: visibility picker, settings form, DJ mode), the    *)
(* tasks they start, AirDropdServices::apply_settings and initialize       *)
(* (lib.rs), AirDrop::refresh_advertising (protocols/airdrop.rs) and       *)
(* BleManager's advertising (network/ble.rs).                              *)
(*                                                                         *)
(* UI handlers are atomic.  The tasks run beside the UI thread and beside  *)
(* each other: apply_settings copies the configuration, then works through *)
(* the prompt's auto-accept flag, the mDNS records and the BLE beacon, and *)
(* only the mDNS part reads the configuration again.                       *)
(***************************************************************************)
EXTENDS Naturals

CONSTANTS Tasks,  \* apply tasks under way at once (bound)
          Modes,  \* discovery modes the user picks from
          Off     \* no record, no saved flag

ReceivingOff == "receiving_off"
Discoverable(mode) == mode # ReceivingOff

Services == {"_airdrop._tcp", "_companion-link._tcp"}

ASSUME OffAssumption == Off \notin Modes /\ Off \notin BOOLEAN
ASSUME ModesAssumption == ReceivingOff \in Modes

VARIABLES
    cfg,      \* the shared configuration: discovery mode and auto-accept
    form,     \* the settings form's auto-accept box
    view,     \* current_view
    djSaved,  \* dj_saved_auto_accept
    gateAuto, \* the prompt's auto_accept flag
    mdns,     \* each record: Off, or the mode it was published with
    registered, \* registered_services: the records the program can take back
    ble,      \* is_advertising
    task,     \* apply tasks
    boot,     \* where initialize() stands
    bootMode, \* the configuration initialize() copied for BLE
    stale,    \* mDNS was last left behind by an error (history)
    alone,    \* the last change met no other task (history)
    failed    \* there was an error since, while alone (history)

vars == <<cfg, form, view, djSaved, gateAuto, mdns, registered, ble, task, boot, bootMode,
          stale, failed, alone>>

\* The activity view, with a Back button only, is left out.
Views == {"main", "settings", "webdrop", "dj"}
Steps == {"idle", "setMode", "snapshot", "setGate", "unregister", "register",
          "advertise", "showMain"}

Config == [mode : Modes, auto : BOOLEAN]
Task == [at : Steps, to : Modes \cup {Off}, snap : Config]

\* to is the mode a visibility task will set, Off in the task of SaveSettings.
IdleTask == [at |-> "idle", to |-> Off,
             snap |-> [mode |-> ReceivingOff, auto |-> FALSE]]

TypeOK ==
    /\ cfg \in Config
    /\ form \in BOOLEAN
    /\ view \in Views
    /\ djSaved \in BOOLEAN \cup {Off}
    /\ gateAuto \in BOOLEAN
    /\ mdns \in [Services -> Modes \cup {Off}]
    /\ registered \subseteq Services
    /\ ble \in BOOLEAN
    /\ task \in [Tasks -> Task]
    /\ boot \in {"server", "snapshot", "ble", "done", "failed"}
    /\ bootMode \in Modes
    /\ stale \in BOOLEAN
    /\ failed \in BOOLEAN
    /\ alone \in BOOLEAN

Unpublished == [s \in Services |-> Off]

\* The program starts from the saved configuration; the splash is over.
Init ==
    /\ cfg \in Config
    /\ form = cfg.auto
    /\ view = "main"
    /\ djSaved = Off
    /\ gateAuto = cfg.auto
    /\ mdns = Unpublished
    /\ registered = {}
    /\ ble = FALSE
    /\ task = [t \in Tasks |-> IdleTask]
    /\ boot = "server"
    /\ bootMode = ReceivingOff
    /\ stale = FALSE
    /\ failed = FALSE
    /\ alone = TRUE

Quiet == boot \in {"done", "failed"} /\ \A t \in Tasks : task[t].at = "idle"

Goto(t, step) == task' = [task EXCEPT ![t].at = step]

mdnsVars == <<mdns, registered>>
liveVars == <<gateAuto, mdns, registered, ble>>
bootVars == <<boot, bootMode>>
history == <<stale, failed, alone>>

\* A change is made: on its own when nothing else is under way.
MakeChange ==
    /\ alone' = Quiet
    /\ failed' = FALSE
    /\ UNCHANGED stale

\* An error is reported, or only logged; mdnsToo: the records are left behind.
Fail(mdnsToo) ==
    /\ failed' = (failed \/ alone)
    /\ stale' = (stale \/ mdnsToo)
    /\ UNCHANGED alone

-----------------------------------------------------------------------------
(* The UI thread *)

\* Back buttons and the toolbar; ShowDjMode is an action of its own.
Navigate(to) ==
    /\ \/ view = "main" /\ to \in {"settings", "webdrop"}
       \/ view \in {"settings", "webdrop"} /\ to = "main"
    /\ view' = to
    /\ UNCHANGED <<cfg, form, djSaved, liveVars, task, bootVars, history>>

\* VisibilityChanged: the task it starts changes the configuration.
VisibilityChanged(t, mode) ==
    /\ view = "main"
    /\ task[t].at = "idle"
    /\ task' = [task EXCEPT ![t] = [IdleTask EXCEPT !.at = "setMode", !.to = mode]]
    /\ MakeChange
    /\ UNCHANGED <<cfg, form, view, djSaved, liveVars, bootVars>>

AutoAcceptIncomingChanged(v) ==
    /\ view = "settings"
    /\ form' = v
    /\ UNCHANGED <<cfg, view, djSaved, liveVars, task, bootVars, history>>

\* ResetSettings puts AppConfig::default() in the form.
ResetSettings ==
    /\ view = "settings"
    /\ form' = FALSE
    /\ UNCHANGED <<cfg, view, djSaved, liveVars, task, bootVars, history>>

\* The configuration is changed at once; when the file cannot be written the
\* change stays in memory and nothing is applied.
SaveSettings(t) ==
    /\ view = "settings"
    /\ task[t].at = "idle"
    /\ cfg' = [cfg EXCEPT !.auto = form]
    /\ \/ /\ task' = [task EXCEPT ![t] = [IdleTask EXCEPT !.at = "snapshot"]]
          /\ MakeChange
       \/ Fail(FALSE) /\ UNCHANGED task
    /\ UNCHANGED <<form, view, djSaved, liveVars, bootVars>>

ShowDjMode ==
    /\ view \in {"main", "webdrop"}
    /\ djSaved' = cfg.auto
    /\ gateAuto' = TRUE
    /\ view' = "dj"
    /\ alone' = (alone /\ Quiet)
    /\ UNCHANGED <<cfg, form, mdnsVars, ble, task, bootVars, stale, failed>>

\* Mutant: only the view changes.
ExitOnlyTheView ==
    /\ view = "dj"
    /\ view' = "main"
    /\ UNCHANGED <<cfg, form, djSaved, liveVars, task, bootVars, history>>

ExitDjMode ==
    /\ view = "dj"
    /\ gateAuto' = IF djSaved = Off THEN gateAuto ELSE djSaved
    /\ djSaved' = Off
    /\ view' = "main"
    /\ UNCHANGED <<cfg, form, mdnsVars, ble, task, bootVars, history>>

\* The message a finished SaveSettings task sends: wherever the user is now.
ShowMainView(t) ==
    /\ task[t].at = "showMain"
    /\ view' = "main"
    /\ task' = [task EXCEPT ![t] = IdleTask]
    /\ UNCHANGED <<cfg, form, djSaved, liveVars, bootVars, history>>

-----------------------------------------------------------------------------
(* The tasks *)

\* The visibility task writes and saves the mode under the write lock; a save
\* that fails ends it with the mode changed in memory.
SetDiscoveryMode(t) ==
    /\ task[t].at = "setMode"
    /\ cfg' = [cfg EXCEPT !.mode = task[t].to]
    /\ \/ Goto(t, "snapshot") /\ UNCHANGED history
       \/ task' = [task EXCEPT ![t] = IdleTask] /\ Fail(TRUE)
    /\ UNCHANGED <<form, view, djSaved, liveVars, bootVars>>

\* apply_settings copies what it needs under the read lock.
Snapshot(t) ==
    /\ task[t].at = "snapshot"
    /\ task' = [task EXCEPT ![t].at = "setGate", ![t].snap = cfg]
    /\ UNCHANGED <<cfg, form, view, djSaved, liveVars, bootVars, history>>

\* The copy of the flag is not read again (cleared to keep the model small).
SetGate(t) ==
    /\ task[t].at = "setGate"
    /\ gateAuto' = task[t].snap.auto
    /\ task' = [task EXCEPT ![t].at = "unregister", ![t].snap.auto = FALSE]
    /\ UNCHANGED <<cfg, form, view, djSaved, mdnsVars, ble, bootVars, history>>

\* refresh_advertising holds the airdrop lock over both of its halves.
AirdropLockFree == \A t \in Tasks : task[t].at # "register"

\* unregister_all empties registered_services first; a withdrawal that fails
\* is a warning, and its record stays out with nobody to take it back.
UnregisterAll(t) ==
    /\ task[t].at = "unregister"
    /\ AirdropLockFree
    /\ \E kept \in SUBSET registered :
           mdns' = [s \in Services |-> IF s \in registered \ kept THEN Off ELSE mdns[s]]
    /\ registered' = {}
    /\ Goto(t, "register")
    /\ UNCHANGED <<cfg, form, view, djSaved, gateAuto, ble, bootVars, history>>

\* register_mdns_services: no record when not discoverable; otherwise no usable
\* address (none published) or a failing register (the first one may be out).
Publish(mode, ok) ==
    IF ~Discoverable(mode)
    THEN ok /\ UNCHANGED mdnsVars
    ELSE \E published \in {{}, {"_airdrop._tcp"}, Services} :
             /\ ok = (published = Services)
             /\ mdns' = [s \in Services |->
                           IF s \in published THEN mode ELSE mdns[s]]
             /\ registered' = registered \cup published

\* Mutant: the records are made from the task's copy of the configuration.
RegisterSnapshot(t) ==
    /\ task[t].at = "register"
    /\ \/ /\ Publish(task[t].snap.mode, TRUE)
          /\ Goto(t, "advertise")
          /\ stale' = FALSE
          /\ UNCHANGED <<failed, alone>>
       \/ /\ Publish(task[t].snap.mode, FALSE)
          /\ task' = [task EXCEPT ![t] = IdleTask]
          /\ Fail(TRUE)
    /\ UNCHANGED <<cfg, form, view, djSaved, gateAuto, ble, bootVars>>

\* An error ends apply_settings before BLE is touched.
RegisterMdnsServices(t) ==
    /\ task[t].at = "register"
    /\ \/ /\ Publish(cfg.mode, TRUE)
          /\ Goto(t, "advertise")
          /\ stale' = FALSE
          /\ UNCHANGED <<failed, alone>>
       \/ /\ Publish(cfg.mode, FALSE)
          /\ task' = [task EXCEPT ![t] = IdleTask]
          /\ Fail(TRUE)
    /\ UNCHANGED <<cfg, form, view, djSaved, gateAuto, ble, bootVars>>

\* SaveSettings' task reports back with ShowMainView, the other with a refresh
\* of the device list.
AfterApply(t) ==
    IF task[t].to = Off THEN Goto(t, "showMain")
                        ELSE task' = [task EXCEPT ![t] = IdleTask]

\* Mutant: a computer that is not discoverable keeps its beacon.
AdvertiseNeverStops(t) ==
    /\ task[t].at = "advertise"
    /\ ble' = (ble \/ Discoverable(task[t].snap.mode))
    /\ AfterApply(t)
    /\ UNCHANGED <<cfg, form, view, djSaved, gateAuto, mdnsVars, bootVars, history>>

\* restart_advertising (which may fail, with the beacon stopped) or
\* stop_advertising, by the task's copy of the configuration.
Advertise(t) ==
    /\ task[t].at = "advertise"
    /\ \/ /\ ble' = Discoverable(task[t].snap.mode)
          /\ AfterApply(t)
          /\ UNCHANGED history
       \/ /\ Discoverable(task[t].snap.mode)
          /\ ble' = FALSE
          /\ task' = [task EXCEPT ![t] = IdleTask]
          /\ Fail(FALSE)
    /\ UNCHANGED <<cfg, form, view, djSaved, gateAuto, mdnsVars, bootVars>>

-----------------------------------------------------------------------------
(* initialize(), on its own task since before the window opens *)

\* start_server, all of it under the airdrop lock: mDNS records (nothing is
\* unregistered first), then the HTTPS server; an error ends initialize().
StartServer ==
    /\ boot = "server"
    /\ AirdropLockFree
    /\ \/ /\ Publish(cfg.mode, TRUE)
          /\ boot' = "snapshot"
          /\ UNCHANGED history
       \/ /\ Publish(cfg.mode, TRUE) \/ Publish(cfg.mode, FALSE)
          /\ boot' = "failed"
          /\ Fail(TRUE)
       \/ /\ boot' = "failed"  \* start_discovery, before it, failed
          /\ Fail(TRUE)
          /\ UNCHANGED mdnsVars
    /\ UNCHANGED <<cfg, form, view, djSaved, gateAuto, ble, task, bootMode>>

BootSnapshot ==
    /\ boot = "snapshot"
    /\ bootMode' = cfg.mode
    /\ boot' = "ble"
    /\ UNCHANGED <<cfg, form, view, djSaved, liveVars, task, history>>

\* No adapter, or an advertisement that fails, is a warning.
BootAdvertise ==
    /\ boot = "ble"
    /\ boot' = "done"
    /\ bootMode' = ReceivingOff  \* not read again
    /\ \/ ble' = (ble \/ Discoverable(bootMode)) /\ UNCHANGED history
       \/ Fail(FALSE) /\ UNCHANGED ble
    /\ UNCHANGED <<cfg, form, view, djSaved, gateAuto, mdnsVars, task>>

-----------------------------------------------------------------------------

UIStep ==
    \/ \E to \in Views : Navigate(to)
    \/ \E t \in Tasks, mode \in Modes : VisibilityChanged(t, mode)
    \/ \E v \in BOOLEAN : AutoAcceptIncomingChanged(v)
    \/ ResetSettings
    \/ \E t \in Tasks : SaveSettings(t)
    \/ ShowDjMode
    \/ ExitDjMode

TaskStep(t) ==
    \/ SetDiscoveryMode(t) \/ Snapshot(t) \/ SetGate(t) \/ UnregisterAll(t)
    \/ RegisterMdnsServices(t) \/ Advertise(t) \/ ShowMainView(t)

BootStep == StartServer \/ BootSnapshot \/ BootAdvertise

Next == UIStep \/ BootStep \/ \E t \in Tasks : TaskStep(t)

Spec == Init /\ [][Next]_vars

-----------------------------------------------------------------------------
(* Properties *)

\* Records out in the network that the program no longer knows of.
Forgotten == {s \in Services : mdns[s] # Off /\ s \notin registered}

(* Whatever order the applies ran in, and however they overlapped with     *)
(* each other, with start-up and with further changes: once they are over  *)
(* both mDNS records are those of the configuration, also when an earlier  *)
(* withdrawal had failed, and with receiving off none is left but those    *)
(* whose withdrawal failed; unless the last attempt to publish them failed *)
(* or a change of mode could not be saved (refresh_advertising reads the   *)
(* configuration under the airdrop lock).                                  *)
MdnsFollowsConfig ==
    Quiet /\ ~stale =>
        \A s \in Services :
            IF Discoverable(cfg.mode) THEN mdns[s] = cfg.mode
                                      ELSE mdns[s] = Off \/ s \in Forgotten

(* The status text of the main window (main_view.rs:360): "Receiving off - *)
(* you won't appear in others' share lists"; with no error reported, no    *)
(* record is left.                                                         *)
ReceivingOffIsHidden ==
    Quiet /\ ~stale /\ ~Discoverable(cfg.mode) => mdns = Unpublished

(* Changes made one at a time, without errors, leave auto-accept as        *)
(* configured, and on while DJ mode is on: entering DJ mode saves what     *)
(* leaving it restores.                                                    *)
AutoAcceptAsConfigured ==
    Quiet /\ alone /\ ~failed => gateAuto = (view = "dj" \/ cfg.auto)

(* Changes made one at a time, without errors, leave the BLE beacon on     *)
(* exactly when the computer is discoverable.                              *)
BleAsConfigured ==
    Quiet /\ alone /\ ~failed => ble = Discoverable(cfg.mode)

(* The doc of dj_saved_auto_accept (ui/mod.rs:174): "Restore AirDrop       *)
(* auto-accept when leaving DJ mode".                                      *)
DjRestoresAutoAccept ==
    [][view = "dj" /\ view' # "dj" => djSaved' = Off /\ gateAuto' = djSaved]_vars

=============================================================================
