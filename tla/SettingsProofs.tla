---------------------------- MODULE SettingsProofs ----------------------------
(***************************************************************************)
(* That the running services end up as configured, for any number of apply *)
(* tasks and any discovery modes: the mDNS records whatever overlaps, the  *)
(* prompt's flag and the BLE beacon when changes come one at a time.       *)
(***************************************************************************)
EXTENDS Settings, TLAPS

\* A visibility task has a mode to set.
TypeInv ==
    /\ TypeOK
    /\ \A t \in Tasks : task[t].at = "setMode" => task[t].to \in Modes

\* The records are those of the configuration; with receiving off, as far as
\* the program knows of them.
Follows ==
    \A s \in Services :
        IF Discoverable(cfg.mode) THEN mdns[s] = cfg.mode
                                  ELSE mdns[s] = Off \/ s \in Forgotten

\* A task that will publish the records.
WillPublish(t) == task[t].at \in {"snapshot", "setGate", "unregister", "register"}

\* One task at a time is between unregistering and registering, with nothing
\* to take back (a record whose withdrawal failed may still be out); records that differ from the configuration are about to be made,
\* by a task or by start-up.
MdnsInv ==
    /\ \A t \in Tasks : task[t].at = "register" =>
          /\ registered = {}
          /\ \A u \in Tasks : task[u].at = "register" => u = t
    /\ \/ stale
       \/ Follows
       \/ \E t \in Tasks : WillPublish(t)
       \/ boot = "server" /\ registered = {}

Active(t) == task[t].at # "idle"
Booting == boot \notin {"done", "failed"}

\* The last change met no other task: then there is one task at most, none
\* during start-up, and DJ mode was entered with nothing under way.
AloneInv ==
    alone =>
        /\ \A t, u \in Tasks : Active(t) /\ Active(u) => t = u
        /\ Booting => \A t \in Tasks : ~Active(t)
        /\ view = "dj" => Quiet

\* A task that will set the prompt's flag, and one that will set the beacon.
WillSetAuto(t) == task[t].at \in {"setMode", "snapshot", "setGate"}
WillAdvertise(t) ==
    task[t].at \in {"setMode", "snapshot", "setGate", "unregister", "register", "advertise"}

\* The prompt's flag is as configured, or a task will make it so: its copy of
\* the configuration still agrees.
AutoInv ==
    alone /\ ~failed =>
        /\ \A t \in Tasks : task[t].at = "setGate" => task[t].snap.auto = cfg.auto
        /\ view = "dj" => gateAuto = TRUE /\ djSaved = cfg.auto
        /\ view # "dj" => gateAuto = cfg.auto \/ \E t \in Tasks : WillSetAuto(t)

\* Likewise the beacon, which start-up too will set.
BleInv ==
    /\ alone /\ Booting => ~ble /\ (boot = "ble" => bootMode = cfg.mode)
    /\ alone /\ ~failed =>
        /\ \A t \in Tasks : task[t].at \in {"setGate", "unregister", "register", "advertise"} =>
              task[t].snap.mode = cfg.mode
        /\ \/ Booting
           \/ ble = Discoverable(cfg.mode)
           \/ \E t \in Tasks : WillAdvertise(t)

-----------------------------------------------------------------------------
(* Types *)

LEMMA IdleType ==
    /\ IdleTask \in Task
    /\ \A to \in Modes : [IdleTask EXCEPT !.at = "setMode", !.to = to] \in Task
    /\ [IdleTask EXCEPT !.at = "snapshot"] \in Task
BY ModesAssumption DEF IdleTask, Task, Steps, Config

\* What a task can become.
LEMMA TaskTypes ==
    ASSUME NEW u \in Task
    PROVE  /\ \A step \in Steps : [u EXCEPT !.at = step] \in Task
           /\ \A c \in Config : [u EXCEPT !.at = "setGate", !.snap = c] \in Task
           /\ [u EXCEPT !.at = "unregister", !.snap.auto = FALSE] \in Task
BY DEF Task, Steps, Config

\* How a task moves on: nothing but itself changes, by the step it takes.
Moves(t) == task' \in [Tasks -> Task] /\ \A u \in Tasks \ {t} : task'[u] = task[u]

LEMMA GotoMoves ==
    ASSUME TypeInv, NEW t \in Tasks, NEW step \in Steps, Goto(t, step)
    PROVE  /\ Moves(t)
           /\ task'[t].at = step /\ task'[t].to = task[t].to /\ task'[t].snap = task[t].snap
<1>1. task[t] \in Task /\ task \in [Tasks -> Task]
    BY DEF TypeInv, TypeOK
<1>2. /\ [task[t] EXCEPT !.at = step] \in Task
      /\ [task[t] EXCEPT !.at = step].at = step
      /\ [task[t] EXCEPT !.at = step].to = task[t].to
      /\ [task[t] EXCEPT !.at = step].snap = task[t].snap
    BY <1>1, TaskTypes DEF Task
<1>3. task' = [task EXCEPT ![t] = [task[t] EXCEPT !.at = step]]
    BY DEF Goto
<1> QED
    BY <1>1, <1>2, <1>3 DEF Moves

LEMMA IdleMoves ==
    ASSUME TypeInv, NEW t \in Tasks, task' = [task EXCEPT ![t] = IdleTask]
    PROVE  Moves(t) /\ task'[t].at = "idle"
BY IdleType DEF TypeInv, TypeOK, Moves, IdleTask

LEMMA SnapshotMoves ==
    ASSUME TypeInv, NEW t \in Tasks, Snapshot(t)
    PROVE  Moves(t) /\ task'[t].at = "setGate" /\ task'[t].snap = cfg
<1>1. task[t] \in Task /\ task \in [Tasks -> Task] /\ cfg \in Config
    BY DEF TypeInv, TypeOK
<1>2. /\ [task[t] EXCEPT !.at = "setGate", !.snap = cfg] \in Task
      /\ [task[t] EXCEPT !.at = "setGate", !.snap = cfg].at = "setGate"
      /\ [task[t] EXCEPT !.at = "setGate", !.snap = cfg].snap = cfg
    BY <1>1, TaskTypes DEF Task
<1>3. task' = [task EXCEPT ![t] = [task[t] EXCEPT !.at = "setGate", !.snap = cfg]]
    BY DEF Snapshot
<1> QED
    BY <1>1, <1>2, <1>3 DEF Moves

LEMMA SetGateMoves ==
    ASSUME TypeInv, NEW t \in Tasks, SetGate(t)
    PROVE  Moves(t) /\ task'[t].at = "unregister" /\ task'[t].snap.mode = task[t].snap.mode
<1> DEFINE next == [task[t] EXCEPT !.at = "unregister", !.snap.auto = FALSE]
<1>1. task[t] \in Task /\ task \in [Tasks -> Task]
    BY DEF TypeInv, TypeOK
<1>2. next \in Task /\ next.at = "unregister" /\ next.snap.mode = task[t].snap.mode
    BY <1>1, TaskTypes DEF Task, Config
<1>3. task' = [task EXCEPT ![t] = next]
    BY DEF SetGate
<1> QED
    BY <1>1, <1>2, <1>3 DEF Moves

LEMMA TaskMoves ==
    ASSUME TypeInv, NEW t \in Tasks, TaskStep(t)
    PROVE  /\ Moves(t)
           /\ SetDiscoveryMode(t) => \/ task'[t].at = "snapshot" /\ UNCHANGED history
                                     \/ task'[t].at = "idle" /\ Fail(TRUE)
           /\ Snapshot(t) => task'[t].at = "setGate" /\ task'[t].snap = cfg
           /\ SetGate(t) => task'[t].at = "unregister" /\ task'[t].snap.mode = task[t].snap.mode
           /\ UnregisterAll(t) => task'[t].at = "register" /\ task'[t].snap = task[t].snap
           /\ RegisterMdnsServices(t) =>
                 \/ /\ task'[t].at = "advertise" /\ task'[t].snap = task[t].snap
                    /\ Publish(cfg.mode, TRUE) /\ ~stale' /\ UNCHANGED <<failed, alone>>
                 \/ task'[t].at = "idle" /\ Fail(TRUE)
           /\ Advertise(t) =>
                 /\ task'[t].at \in {"idle", "showMain"}
                 /\ \/ ble' = Discoverable(task[t].snap.mode) /\ UNCHANGED history
                    \/ Fail(FALSE)
           /\ ShowMainView(t) => task'[t].at = "idle"
<1>1. CASE SetDiscoveryMode(t)
    <2>1. \/ Goto(t, "snapshot") /\ UNCHANGED history
          \/ task' = [task EXCEPT ![t] = IdleTask] /\ Fail(TRUE)
        BY <1>1 DEF SetDiscoveryMode
    <2>2. task[t].at = "setMode"
        BY <1>1 DEF SetDiscoveryMode
    <2> QED
        BY <2>1, <2>2, GotoMoves, IdleMoves
           DEF Steps, Snapshot, SetGate, UnregisterAll, RegisterMdnsServices, Advertise, ShowMainView
<1>2. CASE Snapshot(t)
    <2>1. task[t].at = "snapshot"
        BY <1>2 DEF Snapshot
    <2> QED
        BY <1>2, <2>1, SnapshotMoves
           DEF SetDiscoveryMode, SetGate, UnregisterAll, RegisterMdnsServices, Advertise, ShowMainView
<1>3. CASE SetGate(t)
    <2>1. task[t].at = "setGate"
        BY <1>3 DEF SetGate
    <2> QED
        BY <1>3, <2>1, SetGateMoves
           DEF SetDiscoveryMode, Snapshot, UnregisterAll, RegisterMdnsServices, Advertise, ShowMainView
<1>4. CASE UnregisterAll(t)
    <2>1. task[t].at = "unregister" /\ Goto(t, "register")
        BY <1>4 DEF UnregisterAll
    <2> QED
        BY <2>1, GotoMoves
           DEF Steps, SetDiscoveryMode, Snapshot, SetGate, RegisterMdnsServices, Advertise, ShowMainView
<1>5. CASE RegisterMdnsServices(t)
    <2>1. /\ task[t].at = "register"
          /\ \/ /\ Goto(t, "advertise")
                /\ Publish(cfg.mode, TRUE) /\ ~stale' /\ UNCHANGED <<failed, alone>>
             \/ task' = [task EXCEPT ![t] = IdleTask] /\ Fail(TRUE)
        BY <1>5 DEF RegisterMdnsServices
    <2> QED
        BY <2>1, GotoMoves, IdleMoves
           DEF Steps, SetDiscoveryMode, Snapshot, SetGate, UnregisterAll, Advertise, ShowMainView
<1>6. CASE Advertise(t)
    <2>1. /\ task[t].at = "advertise"
          /\ Goto(t, "showMain") \/ task' = [task EXCEPT ![t] = IdleTask]
          /\ \/ ble' = Discoverable(task[t].snap.mode) /\ UNCHANGED history
             \/ Fail(FALSE)
        BY <1>6 DEF Advertise, AfterApply
    <2> QED
        BY <2>1, GotoMoves, IdleMoves
           DEF Steps, SetDiscoveryMode, Snapshot, SetGate, UnregisterAll, RegisterMdnsServices, ShowMainView
<1>7. CASE ShowMainView(t)
    <2>1. task[t].at = "showMain" /\ task' = [task EXCEPT ![t] = IdleTask]
        BY <1>7 DEF ShowMainView
    <2> QED
        BY <2>1, IdleMoves
           DEF SetDiscoveryMode, Snapshot, SetGate, UnregisterAll, RegisterMdnsServices, Advertise
<1> QED
    BY <1>1, <1>2, <1>3, <1>4, <1>5, <1>6, <1>7 DEF TaskStep

\* The user starts a task that was idle.
LEMMA StartMoves ==
    ASSUME TypeInv, NEW t \in Tasks,
           \/ \E mode \in Modes : task' = [task EXCEPT ![t] = [IdleTask EXCEPT !.at = "setMode", !.to = mode]]
           \/ task' = [task EXCEPT ![t] = [IdleTask EXCEPT !.at = "snapshot"]]
    PROVE  /\ Moves(t)
           /\ task'[t].at \in {"setMode", "snapshot"}
           /\ task'[t].at = "setMode" => task'[t].to \in Modes
BY IdleType DEF TypeInv, TypeOK, Moves, IdleTask

LEMMA PublishType ==
    ASSUME mdns \in [Services -> Modes \cup {Off}], registered \subseteq Services,
           NEW mode \in Modes, NEW ok, Publish(mode, ok)
    PROVE  /\ mdns' \in [Services -> Modes \cup {Off}]
           /\ registered' \subseteq Services
BY DEF Publish, mdnsVars, Services

LEMMA TypeInit == Init => TypeInv
<1> SUFFICES ASSUME Init PROVE TypeInv
    OBVIOUS
<1>1. task \in [Tasks -> Task] /\ \A t \in Tasks : task[t].at = "idle"
    BY IdleType DEF Init, IdleTask
<1> QED
    BY <1>1, ModesAssumption DEF Init, TypeInv, TypeOK, Config, Views, Unpublished

LEMMA TypeStep == TypeInv /\ [Next]_vars => TypeInv'
<1> SUFFICES ASSUME TypeInv, [Next]_vars PROVE TypeInv'
    OBVIOUS
<1>0. /\ cfg \in Config /\ mdns \in [Services -> Modes \cup {Off}]
      /\ registered \subseteq Services
      /\ \A t \in Tasks : task[t] \in Task /\ (task[t].at = "setMode" => task[t].to \in Modes)
    BY DEF TypeInv, TypeOK
<1>1. CASE UNCHANGED vars
    BY <1>1 DEF vars, TypeInv, TypeOK
<1>2. CASE UIStep
    <2> USE DEF TypeInv, TypeOK
    <2>1. ASSUME NEW to \in Views, Navigate(to)
          PROVE  TypeInv'
        BY <2>1 DEF Navigate, liveVars, mdnsVars, bootVars, history
    <2>2. ASSUME NEW t \in Tasks, NEW mode \in Modes, VisibilityChanged(t, mode)
          PROVE  TypeInv'
        BY <2>2, StartMoves DEF VisibilityChanged, MakeChange, Quiet, Moves, liveVars, mdnsVars, bootVars
    <2>3. ASSUME NEW v \in BOOLEAN, AutoAcceptIncomingChanged(v)
          PROVE  TypeInv'
        BY <2>3 DEF AutoAcceptIncomingChanged, liveVars, mdnsVars, bootVars, history
    <2>4. CASE ResetSettings
        BY <2>4 DEF ResetSettings, liveVars, mdnsVars, bootVars, history
    <2>5. ASSUME NEW t \in Tasks, SaveSettings(t)
          PROVE  TypeInv'
        <3>1. cfg' \in Config
            BY <2>5 DEF SaveSettings, Config
        <3>2. task' \in [Tasks -> Task] /\ \A u \in Tasks : task'[u].at = "setMode" => task'[u].to \in Modes
            BY <2>5, StartMoves DEF SaveSettings, Moves
        <3> QED
            BY <2>5, <3>1, <3>2 DEF SaveSettings, MakeChange, Quiet, Fail, liveVars, mdnsVars, bootVars
    <2>6. CASE ShowDjMode
        BY <2>6 DEF ShowDjMode, Quiet, Config, Views, mdnsVars, bootVars
    <2>7. CASE ExitDjMode
        BY <2>7 DEF ExitDjMode, Views, mdnsVars, bootVars, history
    <2> QED
        BY <1>2, <2>1, <2>2, <2>3, <2>4, <2>5, <2>6, <2>7 DEF UIStep
<1>3. CASE BootStep
    <2> USE DEF TypeInv, TypeOK
    <2>1. CASE StartServer
        BY <2>1, PublishType DEF StartServer, Fail, Config, mdnsVars, history
    <2>2. CASE BootSnapshot
        BY <2>2 DEF BootSnapshot, Config, liveVars, mdnsVars, history
    <2>3. CASE BootAdvertise
        BY <2>3, ModesAssumption DEF BootAdvertise, Fail, Discoverable, mdnsVars, history
    <2> QED
        BY <1>3, <2>1, <2>2, <2>3 DEF BootStep
<1>4. ASSUME NEW t \in Tasks, TaskStep(t)
      PROVE  TypeInv'
    <2>1. /\ task' \in [Tasks -> Task]
          /\ \A u \in Tasks : task'[u].at = "setMode" => task'[u].to \in Modes
        BY <1>0, <1>4, TaskMoves DEF Moves, TaskStep
    <2>2. cfg' \in Config
        BY <1>0, <1>4
           DEF TaskStep, SetDiscoveryMode, Snapshot, SetGate, UnregisterAll, RegisterMdnsServices,
               Advertise, ShowMainView, Config
    <2>3. mdns' \in [Services -> Modes \cup {Off}] /\ registered' \subseteq Services
        BY <1>0, <1>4, PublishType
           DEF TaskStep, SetDiscoveryMode, Snapshot, SetGate, UnregisterAll, RegisterMdnsServices,
               Advertise, ShowMainView, Config, liveVars, mdnsVars
    <2>4. gateAuto' \in BOOLEAN /\ ble' \in BOOLEAN
        BY <1>4
           DEF TaskStep, SetDiscoveryMode, Snapshot, SetGate, UnregisterAll, RegisterMdnsServices,
               Advertise, ShowMainView, Discoverable, liveVars, mdnsVars, TypeInv, TypeOK, Task, Config
    <2>5. /\ form' = form /\ djSaved' = djSaved /\ boot' = boot /\ bootMode' = bootMode
          /\ view' \in {view, "main"}
          /\ stale' \in BOOLEAN /\ failed' \in BOOLEAN /\ alone' = alone
        BY <1>4
           DEF TaskStep, SetDiscoveryMode, Snapshot, SetGate, UnregisterAll, RegisterMdnsServices,
               Advertise, ShowMainView, Fail, liveVars, mdnsVars, bootVars, history, TypeInv, TypeOK
    <2> QED
        BY <2>1, <2>2, <2>3, <2>4, <2>5 DEF TypeInv, TypeOK, Views
<1> QED
    BY <1>1, <1>2, <1>3, <1>4 DEF Next
-----------------------------------------------------------------------------
(* The mDNS records *)

\* Publishing without an error, with nothing to take back or nothing published
\* that differs, follows the configuration.
LEMMA PublishFollows ==
    ASSUME Publish(cfg.mode, TRUE), UNCHANGED cfg,
           registered = {} \/ Follows \/ Discoverable(cfg.mode)
    PROVE  Follows'
<1>1. CASE Discoverable(cfg.mode)
    BY <1>1 DEF Publish, Follows
<1>2. CASE ~Discoverable(cfg.mode)
    <2>1. UNCHANGED mdnsVars
        BY <1>2 DEF Publish
    <2> QED
        BY <1>2, <2>1 DEF Follows, Forgotten, mdnsVars
<1> QED
    BY <1>1, <1>2

\* An error never makes the records count as good.
LEMMA FailStale ==
    ASSUME Fail(TRUE) \/ Fail(FALSE)
    PROVE  /\ stale => stale'
           /\ alone => failed'
           /\ failed => failed'
           /\ alone' = alone
BY DEF Fail

LEMMA MdnsInit == Init => MdnsInv
BY DEF Init, MdnsInv, IdleTask

LEMMA MdnsStep == TypeInv /\ MdnsInv /\ [Next]_vars => MdnsInv'
<1> SUFFICES ASSUME TypeInv, MdnsInv, [Next]_vars PROVE MdnsInv'
    OBVIOUS
<1>1. ASSUME UNCHANGED <<mdnsVars, boot>>, cfg'.mode = cfg.mode, stale => stale',
             \A t \in Tasks : task'[t].at = "register" => task[t].at = "register",
             \A t \in Tasks : WillPublish(t) => WillPublish(t)'
      PROVE  MdnsInv'
    BY <1>1 DEF MdnsInv, Follows, Forgotten, mdnsVars
<1>2. CASE UNCHANGED vars
    BY <1>1, <1>2 DEF vars, mdnsVars, WillPublish
<1>3. CASE UIStep
    <2>1. ASSUME NEW t \in Tasks, Moves(t), task[t].at = "idle",
                 task'[t].at \in {"setMode", "snapshot"},
                 UNCHANGED <<mdnsVars, boot>>, cfg'.mode = cfg.mode, stale => stale'
          PROVE  MdnsInv'
        BY <1>1, <2>1 DEF Moves, WillPublish
    <2>2. ASSUME NEW t \in Tasks, NEW mode \in Modes, VisibilityChanged(t, mode)
          PROVE  MdnsInv'
        BY <2>1, <2>2, StartMoves DEF VisibilityChanged, MakeChange, liveVars, mdnsVars, bootVars
    <2>3. ASSUME NEW t \in Tasks, SaveSettings(t)
          PROVE  MdnsInv'
        <3>1. cfg'.mode = cfg.mode
            BY <2>3 DEF SaveSettings, TypeInv, TypeOK, Config
        <3>2. CASE UNCHANGED task
            BY <1>1, <2>3, <3>1, <3>2, FailStale
               DEF SaveSettings, MakeChange, liveVars, mdnsVars, bootVars, WillPublish
        <3>3. CASE task' # task
            <4>1. /\ task[t].at = "idle" /\ UNCHANGED <<mdnsVars, boot>>
                  /\ task' = [task EXCEPT ![t] = [IdleTask EXCEPT !.at = "snapshot"]]
                BY <2>3, <3>3 DEF SaveSettings, liveVars, mdnsVars, bootVars
            <4>2. stale => stale'
                BY <2>3, FailStale DEF SaveSettings, MakeChange
            <4> QED
                BY <2>1, <3>1, <4>1, <4>2, StartMoves
        <3> QED
            BY <3>2, <3>3
    <2> QED
        BY <1>1, <1>3, <2>2, <2>3
           DEF UIStep, Navigate, AutoAcceptIncomingChanged, ResetSettings, ShowDjMode, ExitDjMode,
               liveVars, mdnsVars, bootVars, history, WillPublish
<1>4. CASE BootStep
    <2>1. CASE StartServer
        <3>1. /\ \A t \in Tasks : task'[t].at # "register"
              /\ UNCHANGED <<cfg, task>>
            BY <2>1 DEF StartServer, AirdropLockFree
        <3>2. CASE stale'
            BY <3>1, <3>2 DEF MdnsInv
        <3>3. CASE ~stale'
            <4>1. Publish(cfg.mode, TRUE) /\ stale' = stale
                BY <2>1, <3>3 DEF StartServer, Fail, history
            <4>2. CASE registered = {} \/ Follows \/ Discoverable(cfg.mode)
                BY <3>1, <4>1, <4>2, PublishFollows DEF MdnsInv
            <4>3. CASE \E t \in Tasks : WillPublish(t)
                BY <3>1, <4>3 DEF MdnsInv, WillPublish
            <4> QED
                BY <3>3, <4>1, <4>2, <4>3 DEF MdnsInv
        <3> QED
            BY <3>2, <3>3
    <2>2. CASE BootSnapshot \/ BootAdvertise
        <3>1. UNCHANGED <<cfg, mdnsVars, task>> /\ boot # "server" /\ boot' # "server"
            BY <2>2 DEF BootSnapshot, BootAdvertise, liveVars, mdnsVars
        <3>2. stale => stale'
            BY <2>2, FailStale DEF BootSnapshot, BootAdvertise, history
        <3> QED
            BY <3>1, <3>2 DEF MdnsInv, Follows, Forgotten, mdnsVars, WillPublish
    <2> QED
        BY <1>4, <2>1, <2>2 DEF BootStep
<1>5. ASSUME NEW t \in Tasks, TaskStep(t)
      PROVE  MdnsInv'
    <2>0. Moves(t)
        BY <1>5, TaskMoves
    <2>1. CASE SetDiscoveryMode(t)
        <3>1. task[t].at = "setMode" /\ UNCHANGED <<mdnsVars, boot>>
            BY <2>1 DEF SetDiscoveryMode, liveVars, mdnsVars, bootVars
        <3>2. \A u \in Tasks : task'[u].at = "register" => task[u].at = "register"
            BY <1>5, <2>0, <2>1, TaskMoves DEF Moves
        <3>3. stale' \/ task'[t].at = "snapshot"
            BY <1>5, <2>1, TaskMoves DEF Fail
        <3> QED
            BY <3>1, <3>2, <3>3 DEF MdnsInv, mdnsVars, WillPublish
    <2>2. CASE Snapshot(t) \/ SetGate(t)
        <3>1. UNCHANGED <<cfg, mdnsVars, boot, stale>>
            BY <2>2 DEF Snapshot, SetGate, liveVars, mdnsVars, bootVars, history
        <3>2. WillPublish(t)' /\ task'[t].at # "register"
            BY <1>5, <2>2, TaskMoves DEF WillPublish
        <3> QED
            BY <1>1, <2>0, <3>1, <3>2 DEF Moves, WillPublish
    <2>3. CASE UnregisterAll(t)
        <3>1. \A u \in Tasks : task[u].at # "register"
            BY <2>3 DEF UnregisterAll, AirdropLockFree
        <3>2. registered' = {} /\ task'[t].at = "register"
            BY <1>5, <2>3, TaskMoves DEF UnregisterAll
        <3>3. \A u \in Tasks : task'[u].at = "register" => u = t
            BY <2>0, <3>1 DEF Moves
        <3> QED
            BY <3>2, <3>3 DEF MdnsInv, WillPublish
    <2>4. CASE RegisterMdnsServices(t)
        <3>1. /\ task[t].at = "register" /\ UNCHANGED cfg
              /\ task'[t].at # "register"
            BY <1>5, <2>4, TaskMoves DEF RegisterMdnsServices
        <3>2. registered = {} /\ \A u \in Tasks : task[u].at = "register" => u = t
            BY <3>1 DEF MdnsInv
        <3>3. \A u \in Tasks : task'[u].at # "register"
            BY <2>0, <3>1, <3>2 DEF Moves
        <3>4. stale' \/ Publish(cfg.mode, TRUE)
            BY <1>5, <2>4, TaskMoves DEF Fail
        <3> QED
            BY <3>1, <3>2, <3>3, <3>4, PublishFollows DEF MdnsInv
    <2>5. CASE Advertise(t) \/ ShowMainView(t)
        <3>1. /\ task[t].at \in {"advertise", "showMain"}
              /\ UNCHANGED <<cfg, mdnsVars, boot>>
            BY <2>5 DEF Advertise, ShowMainView, liveVars, mdnsVars, bootVars
        <3>2. task'[t].at \in {"idle", "showMain"}
            BY <1>5, <2>5, TaskMoves
        <3>3. stale => stale'
            BY <2>5, FailStale DEF Advertise, ShowMainView, history
        <3> QED
            BY <1>1, <2>0, <3>1, <3>2, <3>3 DEF Moves, WillPublish
    <2> QED
        BY <1>5, <2>1, <2>2, <2>3, <2>4, <2>5 DEF TaskStep
<1> QED
    BY <1>2, <1>3, <1>4, <1>5 DEF Next
-----------------------------------------------------------------------------
(* Changes made one at a time *)

LEMMA AloneInit == Init => AloneInv /\ AutoInv /\ BleInv
<1> SUFFICES ASSUME Init PROVE AloneInv /\ AutoInv /\ BleInv
    OBVIOUS
<1>1. \A t \in Tasks : task[t].at = "idle"
    BY DEF Init, IdleTask
<1>2. view = "main" /\ boot = "server" /\ gateAuto = cfg.auto /\ ble = FALSE
    BY DEF Init
<1> QED
    BY <1>1, <1>2 DEF AloneInv, AutoInv, BleInv, Active, Booting

\* A task's step leaves the others, start-up and the other circumstances alone.
LEMMA TaskKeeps ==
    ASSUME TypeInv, NEW t \in Tasks, TaskStep(t)
    PROVE  /\ task[t].at # "idle"
           /\ boot' = boot /\ bootMode' = bootMode /\ alone' = alone
           /\ djSaved' = djSaved
           /\ view' = view \/ view' = "main"
           /\ failed => failed'
<1>1. task[t].at # "idle" /\ boot' = boot /\ bootMode' = bootMode /\ djSaved' = djSaved
    BY DEF TaskStep, SetDiscoveryMode, Snapshot, SetGate, UnregisterAll, RegisterMdnsServices,
           Advertise, ShowMainView, liveVars, mdnsVars, bootVars
<1>2. view' = view \/ view' = "main"
    BY DEF TaskStep, SetDiscoveryMode, Snapshot, SetGate, UnregisterAll, RegisterMdnsServices,
           Advertise, ShowMainView
<1>3. alone' = alone
    BY FailStale
       DEF TaskStep, SetDiscoveryMode, Snapshot, SetGate, UnregisterAll, RegisterMdnsServices,
           Advertise, ShowMainView, history
<1>4. failed => failed'
    BY FailStale
       DEF TaskStep, SetDiscoveryMode, Snapshot, SetGate, UnregisterAll, RegisterMdnsServices,
           Advertise, ShowMainView, history
<1> QED
    BY <1>1, <1>2, <1>3, <1>4

\* What the user's two kinds of changes do: a task is started, on its own when
\* nothing was under way, or the change cannot be saved.
LEMMA ChangeKeeps ==
    ASSUME TypeInv, NEW t \in Tasks,
           SaveSettings(t) \/ \E mode \in Modes : VisibilityChanged(t, mode)
    PROVE  /\ UNCHANGED <<boot, bootMode, view, ble, gateAuto, djSaved>>
           /\ cfg'.mode = cfg.mode /\ view # "dj" /\ task[t].at = "idle"
           /\ \/ /\ Moves(t) /\ task'[t].at \in {"setMode", "snapshot"}
                 /\ alone' = Quiet /\ failed' = FALSE
              \/ task' = task /\ Fail(FALSE)
<1>1. CASE SaveSettings(t)
    <2>1. /\ UNCHANGED <<boot, bootMode, view, ble, gateAuto, djSaved>>
          /\ view # "dj" /\ task[t].at = "idle" /\ cfg'.mode = cfg.mode
        BY <1>1 DEF SaveSettings, liveVars, mdnsVars, bootVars, TypeInv, TypeOK, Config
    <2>2. \/ task' = [task EXCEPT ![t] = [IdleTask EXCEPT !.at = "snapshot"]] /\ MakeChange
          \/ task' = task /\ Fail(FALSE)
        BY <1>1 DEF SaveSettings
    <2> QED
        BY <2>1, <2>2, StartMoves DEF MakeChange
<1>2. ASSUME NEW mode \in Modes, VisibilityChanged(t, mode)
      PROVE  /\ UNCHANGED <<boot, bootMode, view, ble, gateAuto, djSaved>>
             /\ cfg'.mode = cfg.mode /\ view # "dj" /\ task[t].at = "idle"
             /\ Moves(t) /\ task'[t].at \in {"setMode", "snapshot"}
             /\ alone' = Quiet /\ failed' = FALSE
    <2>1. /\ UNCHANGED <<boot, bootMode, view, ble, gateAuto, djSaved>>
          /\ view # "dj" /\ task[t].at = "idle" /\ cfg' = cfg
        BY <1>2 DEF VisibilityChanged, liveVars, mdnsVars, bootVars
    <2>2. task' = [task EXCEPT ![t] = [IdleTask EXCEPT !.at = "setMode", !.to = mode]] /\ MakeChange
        BY <1>2 DEF VisibilityChanged
    <2> QED
        BY <2>1, <2>2, StartMoves DEF MakeChange
<1> QED
    BY <1>1, <1>2

LEMMA AloneStep == TypeInv /\ AloneInv /\ [Next]_vars => AloneInv'
<1> SUFFICES ASSUME TypeInv, AloneInv, [Next]_vars, alone'
             PROVE  /\ \A t, u \in Tasks : Active(t)' /\ Active(u)' => t = u
                    /\ Booting' => \A t \in Tasks : ~Active(t)'
                    /\ view' = "dj" => Quiet'
    BY DEF AloneInv
<1> USE DEF Active, Booting, Quiet
<1>1. CASE UNCHANGED vars
    BY <1>1 DEF vars, AloneInv
<1>2. ASSUME NEW t \in Tasks, SaveSettings(t) \/ \E mode \in Modes : VisibilityChanged(t, mode)
      PROVE  /\ \A s, u \in Tasks : Active(s)' /\ Active(u)' => s = u
             /\ Booting' => \A u \in Tasks : ~Active(u)'
             /\ view' = "dj" => Quiet'
    <2>1. CASE task' = task /\ Fail(FALSE)
        BY <1>2, <2>1, ChangeKeeps, FailStale DEF AloneInv
    <2>2. CASE Moves(t) /\ alone' = Quiet
        BY <1>2, <2>2, ChangeKeeps DEF AloneInv, Moves
    <2> QED
        BY <1>2, <2>1, <2>2, ChangeKeeps
<1>3. CASE \/ \E to \in Views : Navigate(to)
           \/ \E v \in BOOLEAN : AutoAcceptIncomingChanged(v)
           \/ ResetSettings \/ ShowDjMode \/ ExitDjMode
    <2>1. /\ UNCHANGED <<task, boot>>
          /\ alone /\ (view' = "dj" => view = "dj" \/ Quiet)
        BY <1>3 DEF Navigate, AutoAcceptIncomingChanged, ResetSettings, ShowDjMode, ExitDjMode,
                    bootVars, history
    <2> QED
        BY <2>1 DEF AloneInv
<1>4. CASE BootStep
    <2>1. /\ boot \notin {"done", "failed"}
          /\ UNCHANGED <<task, view>>
        BY <1>4 DEF BootStep, StartServer, BootSnapshot, BootAdvertise
    <2>2. alone' = alone
        BY <1>4, FailStale DEF BootStep, StartServer, BootSnapshot, BootAdvertise, history
    <2> QED
        BY <2>1, <2>2 DEF AloneInv
<1>5. ASSUME NEW t \in Tasks, TaskStep(t)
      PROVE  /\ \A s, u \in Tasks : Active(s)' /\ Active(u)' => s = u
             /\ Booting' => \A u \in Tasks : ~Active(u)'
             /\ view' = "dj" => Quiet'
    <2>1. Moves(t)
        BY <1>5, TaskMoves
    <2>2. /\ task[t].at # "idle" /\ boot' = boot
          /\ view' = view \/ view' = "main"
        BY <1>5, TaskKeeps
    <2>3. alone
        BY <1>5, TaskKeeps
    <2>4. /\ \A u \in Tasks \ {t} : task[u].at = "idle"
          /\ view # "dj" /\ boot \in {"done", "failed"}
        BY <2>2, <2>3 DEF AloneInv
    <2> QED
        BY <2>1, <2>2, <2>4 DEF Moves
<1> QED
    BY <1>1, <1>2, <1>3, <1>4, <1>5 DEF Next, UIStep

\* The last change goes on alone: every other task is idle, DJ mode is off and
\* start-up is over.
LEMMA OnlyTask ==
    ASSUME AloneInv, alone, NEW t \in Tasks, task[t].at # "idle"
    PROVE  /\ \A u \in Tasks \ {t} : task[u].at = "idle"
           /\ view # "dj" /\ ~Booting
BY DEF AloneInv, Active, Quiet

LEMMA AutoStep == TypeInv /\ AloneInv /\ AutoInv /\ [Next]_vars => AutoInv'
<1> DEFINE Copies == \A t \in Tasks : task[t].at = "setGate" => task[t].snap.auto = cfg.auto
           Flag == /\ view = "dj" => gateAuto = TRUE /\ djSaved = cfg.auto
                   /\ view # "dj" => gateAuto = cfg.auto \/ \E t \in Tasks : WillSetAuto(t)
<1> SUFFICES ASSUME TypeInv, AloneInv, AutoInv, [Next]_vars, alone', ~failed'
             PROVE  Copies' /\ Flag'
    BY DEF AutoInv
<1>0. alone /\ ~failed => Copies /\ Flag
    BY DEF AutoInv
<1>1. CASE UNCHANGED vars
    BY <1>0, <1>1 DEF vars, WillSetAuto
<1>2. ASSUME NEW t \in Tasks, SaveSettings(t) \/ \E mode \in Modes : VisibilityChanged(t, mode)
      PROVE  Copies' /\ Flag'
    <2>1. Moves(t) /\ task'[t].at \in {"setMode", "snapshot"} /\ Quiet /\ view' # "dj"
        BY <1>2, ChangeKeeps, FailStale
    <2> QED
        BY <2>1 DEF Moves, Quiet, WillSetAuto
<1>3. CASE \/ \E to \in Views : Navigate(to)
           \/ \E v \in BOOLEAN : AutoAcceptIncomingChanged(v)
           \/ ResetSettings
    <2>1. /\ UNCHANGED <<cfg, task, gateAuto, djSaved>> /\ alone' = alone /\ failed' = failed
          /\ view' = view \/ (view # "dj" /\ view' # "dj")
        BY <1>3 DEF Navigate, AutoAcceptIncomingChanged, ResetSettings, liveVars, mdnsVars, history
    <2> QED
        BY <1>0, <2>1 DEF WillSetAuto
<1>4. CASE ShowDjMode
    BY <1>0, <1>4 DEF ShowDjMode
<1>5. CASE ExitDjMode
    <2>1. alone /\ ~failed /\ view = "dj" /\ cfg' = cfg /\ view' = "main" /\ task' = task
        BY <1>5 DEF ExitDjMode, history
    <2>2. djSaved = cfg.auto /\ djSaved # Off
        BY <1>0, <2>1, OffAssumption DEF TypeInv, TypeOK, Config
    <2> QED
        BY <1>0, <1>5, <2>1, <2>2 DEF ExitDjMode
<1>6. CASE BootStep
    <2>1. UNCHANGED <<cfg, task, gateAuto, djSaved, view>>
        BY <1>6 DEF BootStep, StartServer, BootSnapshot, BootAdvertise, liveVars, mdnsVars
    <2>2. alone
        BY <1>6, FailStale DEF BootStep, StartServer, BootSnapshot, BootAdvertise, history
    <2>3. ~failed
        BY <1>6, FailStale DEF BootStep, StartServer, BootSnapshot, BootAdvertise, history
    <2> QED
        BY <1>0, <2>1, <2>2, <2>3 DEF WillSetAuto
<1>7. ASSUME NEW t \in Tasks, TaskStep(t)
      PROVE  Copies' /\ Flag'
    <2>1. alone /\ ~failed /\ task[t].at # "idle" /\ Moves(t)
        BY <1>7, TaskKeeps, TaskMoves
    <2>2. /\ \A u \in Tasks \ {t} : task'[u].at = "idle"
          /\ view' # "dj"
        BY <1>7, <2>1, OnlyTask, TaskKeeps DEF Moves
    <2>3. /\ task[t].at = "setGate" => task[t].snap.auto = cfg.auto
          /\ gateAuto = cfg.auto \/ WillSetAuto(t)
        BY <1>0, <2>1, OnlyTask DEF WillSetAuto
    <2>4. SUFFICES /\ task'[t].at = "setGate" => task'[t].snap.auto = cfg'.auto
                   /\ gateAuto' = cfg'.auto \/ WillSetAuto(t)'
        BY <2>2 DEF WillSetAuto
    <2>5. CASE SetDiscoveryMode(t)
        BY <1>7, <2>5, TaskMoves, FailStale DEF WillSetAuto
    <2>6. CASE Snapshot(t)
        <3>1. cfg' = cfg
            BY <2>6 DEF Snapshot
        <3> QED
            BY <1>7, <2>6, <3>1, TaskMoves DEF WillSetAuto
    <2>7. CASE SetGate(t)
        <3>1. task[t].at = "setGate" /\ gateAuto' = task[t].snap.auto /\ cfg' = cfg
            BY <2>7 DEF SetGate
        <3> QED
            BY <1>7, <2>3, <2>7, <3>1, TaskMoves
    <2>8. CASE UnregisterAll(t) \/ RegisterMdnsServices(t) \/ Advertise(t) \/ ShowMainView(t)
        <3>1. /\ task[t].at \in {"unregister", "register", "advertise", "showMain"}
              /\ UNCHANGED <<cfg, gateAuto>>
            BY <2>8 DEF UnregisterAll, RegisterMdnsServices, Advertise, ShowMainView, liveVars, mdnsVars
        <3>2. task'[t].at # "setGate"
            BY <1>7, <2>8, TaskMoves
        <3> QED
            BY <2>3, <3>1, <3>2 DEF WillSetAuto
    <2> QED
        BY <1>7, <2>5, <2>6, <2>7, <2>8 DEF TaskStep
<1> QED
    BY <1>1, <1>2, <1>3, <1>4, <1>5, <1>6, <1>7 DEF Next, UIStep

LEMMA BleStep == TypeInv /\ AloneInv /\ BleInv /\ [Next]_vars => BleInv'
<1> DEFINE Boot == alone /\ Booting => ~ble /\ (boot = "ble" => bootMode = cfg.mode)
           Copies == \A t \in Tasks :
                         task[t].at \in {"setGate", "unregister", "register", "advertise"} =>
                             task[t].snap.mode = cfg.mode
           Beacon == \/ Booting
                     \/ ble = Discoverable(cfg.mode)
                     \/ \E t \in Tasks : WillAdvertise(t)
<1> SUFFICES ASSUME TypeInv, AloneInv, BleInv, [Next]_vars
             PROVE  Boot' /\ (alone' /\ ~failed' => Copies' /\ Beacon')
    BY DEF BleInv
<1>0. Boot /\ (alone /\ ~failed => Copies /\ Beacon)
    BY DEF BleInv
<1>1. CASE UNCHANGED <<ble, task, boot, bootMode, failed>> /\ cfg'.mode = cfg.mode /\ (alone' => alone)
    BY <1>0, <1>1 DEF Booting, WillAdvertise
<1>2. ASSUME NEW t \in Tasks, SaveSettings(t) \/ \E mode \in Modes : VisibilityChanged(t, mode)
      PROVE  Boot' /\ (alone' /\ ~failed' => Copies' /\ Beacon')
    <2>1. CASE task' = task /\ Fail(FALSE)
        <3>1. alone' => failed'
            BY <2>1, FailStale
        <3>2. UNCHANGED <<ble, boot, bootMode>> /\ cfg'.mode = cfg.mode
            BY <1>2, ChangeKeeps
        <3>3. Boot'
            BY <1>0, <2>1, <3>2, FailStale DEF Booting
        <3> QED
            BY <3>1, <3>3
    <2>2. CASE Moves(t) /\ task'[t].at \in {"setMode", "snapshot"} /\ alone' = Quiet
        <3>1. alone' => ~Booting /\ \A u \in Tasks : task[u].at = "idle"
            BY <2>2 DEF Booting, Quiet
        <3>2. boot' = boot
            BY <1>2, ChangeKeeps
        <3> QED
            BY <2>2, <3>1, <3>2 DEF Moves, Booting, WillAdvertise
    <2> QED
        BY <1>2, <2>1, <2>2, ChangeKeeps
<1>3. CASE \/ \E to \in Views : Navigate(to)
           \/ \E v \in BOOLEAN : AutoAcceptIncomingChanged(v)
           \/ ResetSettings \/ ShowDjMode \/ ExitDjMode
    <2>1. UNCHANGED <<cfg, ble, task, boot, bootMode, failed>>
        BY <1>3 DEF Navigate, AutoAcceptIncomingChanged, ResetSettings, ShowDjMode, ExitDjMode,
                    liveVars, mdnsVars, bootVars, history
    <2>2. alone' => alone
        BY <1>3 DEF Navigate, AutoAcceptIncomingChanged, ResetSettings, ShowDjMode, ExitDjMode,
                    history
    <2> QED
        BY <1>1, <2>1, <2>2
<1>4. CASE BootStep
    <2>1. UNCHANGED <<cfg, task>> /\ Booting
        BY <1>4 DEF BootStep, StartServer, BootSnapshot, BootAdvertise, Booting
    <2>2. alone' = alone
        BY <1>4, FailStale DEF BootStep, StartServer, BootSnapshot, BootAdvertise, history
    <2>3. \A t \in Tasks : alone => task[t].at = "idle"
        BY <2>1 DEF AloneInv, Active
    <2>4. CASE StartServer
        <3>1. ble' = ble /\ (boot' = "snapshot" \/ (boot' = "failed" /\ (alone => failed')))
            BY <2>4, FailStale DEF StartServer
        <3> QED
            BY <1>0, <2>1, <2>2, <2>3, <3>1 DEF Booting
    <2>5. CASE BootSnapshot
        <3>1. ble' = ble /\ bootMode' = cfg.mode /\ boot' = "ble"
            BY <2>5 DEF BootSnapshot, liveVars, mdnsVars
        <3> QED
            BY <1>0, <2>1, <2>2, <2>3, <3>1 DEF Booting
    <2>6. CASE BootAdvertise
        <3>1. boot = "ble" /\ boot' = "done"
            BY <2>6 DEF BootAdvertise
        <3>2. \/ ble' = (ble \/ Discoverable(bootMode))
              \/ alone => failed'
            BY <2>6, FailStale DEF BootAdvertise
        <3>3. alone => ~ble /\ bootMode = cfg.mode
            BY <1>0, <2>1, <3>1
        <3>4. alone /\ ~failed' => ble' = Discoverable(cfg.mode)
            BY <3>2, <3>3 DEF Discoverable
        <3> QED
            BY <2>1, <2>2, <2>3, <3>1, <3>4 DEF Booting
    <2> QED
        BY <1>4, <2>4, <2>5, <2>6 DEF BootStep
<1>5. ASSUME NEW t \in Tasks, TaskStep(t)
      PROVE  Boot' /\ (alone' /\ ~failed' => Copies' /\ Beacon')
    <2>1. boot' = boot /\ task[t].at # "idle" /\ Moves(t)
        BY <1>5, TaskKeeps, TaskMoves
    <2>2. alone' = alone
        BY <1>5, TaskKeeps
    <2>3. alone => ~Booting
        BY <2>1, OnlyTask
    <2>4. Boot'
        BY <2>1, <2>2, <2>3 DEF Booting
    <2>5. ASSUME alone, ~failed'
          PROVE  Copies' /\ Beacon'
        <3>1. ~failed
            BY <1>5, <2>5, TaskKeeps
        <3>2. \A u \in Tasks \ {t} : task[u].at = "idle" /\ task'[u].at = "idle"
            BY <2>1, <2>5, OnlyTask DEF Moves
        <3>3. /\ task[t].at \in {"setGate", "unregister", "register", "advertise"} =>
                    task[t].snap.mode = cfg.mode
              /\ ble = Discoverable(cfg.mode) \/ WillAdvertise(t)
            BY <1>0, <2>3, <2>5, <3>1, <3>2 DEF WillAdvertise
        <3>4. SUFFICES /\ task'[t].at \in {"setGate", "unregister", "register", "advertise"} =>
                             task'[t].snap.mode = cfg'.mode
                       /\ ble' = Discoverable(cfg'.mode) \/ WillAdvertise(t)'
            BY <3>2
        <3>5. CASE SetDiscoveryMode(t)
            <4>1. task'[t].at = "snapshot"
                BY <1>5, <2>5, <3>5, TaskMoves, FailStale
            <4> QED
                BY <4>1 DEF WillAdvertise
        <3>6. CASE Snapshot(t)
            <4>1. cfg' = cfg
                BY <3>6 DEF Snapshot
            <4> QED
                BY <1>5, <3>6, <4>1, TaskMoves DEF WillAdvertise
        <3>7. CASE SetGate(t) \/ UnregisterAll(t)
            <4>1. task[t].at \in {"setGate", "unregister"} /\ cfg' = cfg
                BY <3>7 DEF SetGate, UnregisterAll
            <4>2. task'[t].at \in {"unregister", "register"} /\ task'[t].snap.mode = task[t].snap.mode
                BY <1>5, <3>7, TaskMoves
            <4> QED
                BY <3>3, <4>1, <4>2 DEF WillAdvertise
        <3>8. CASE RegisterMdnsServices(t)
            <4>1. task[t].at = "register" /\ cfg' = cfg
                BY <3>8 DEF RegisterMdnsServices
            <4>2. task'[t].at = "advertise" /\ task'[t].snap.mode = task[t].snap.mode
                BY <1>5, <2>5, <3>8, TaskMoves, FailStale
            <4> QED
                BY <3>3, <4>1, <4>2 DEF WillAdvertise
        <3>9. CASE Advertise(t)
            <4>1. task[t].at = "advertise" /\ cfg' = cfg
                BY <3>9 DEF Advertise
            <4>2. task'[t].at \in {"idle", "showMain"} /\ ble' = Discoverable(task[t].snap.mode)
                BY <1>5, <2>5, <3>9, TaskMoves, FailStale
            <4> QED
                BY <3>3, <4>1, <4>2
        <3>10. CASE ShowMainView(t)
            <4>1. task[t].at = "showMain" /\ UNCHANGED <<cfg, ble>>
                BY <3>10 DEF ShowMainView, liveVars, mdnsVars
            <4>2. task'[t].at = "idle"
                BY <1>5, <3>10, TaskMoves
            <4> QED
                BY <3>3, <4>1, <4>2 DEF WillAdvertise
        <3> QED
            BY <1>5, <3>5, <3>6, <3>7, <3>8, <3>9, <3>10 DEF TaskStep
    <2> QED
        BY <2>2, <2>4, <2>5
<1> QED
    BY <1>1, <1>2, <1>3, <1>4, <1>5 DEF Next, UIStep, vars

-----------------------------------------------------------------------------
(* The theorems *)

\* The settings keep their types, and a visibility task has a mode to set.
THEOREM TypeInvariant == Spec => []TypeInv
BY TypeInit, TypeStep, PTL DEF Spec

(* refresh_advertising reads the configuration again under its lock: when  *)
(* all is over the records are those of the configuration, for any number  *)
(* of overlapping applies, unless the last of them failed.                 *)
THEOREM MdnsIsAsConfigured == Spec => []MdnsFollowsConfig
<1>1. MdnsInv => MdnsFollowsConfig
    BY DEF MdnsInv, MdnsFollowsConfig, Follows, Quiet, WillPublish
<1> QED
    BY <1>1, MdnsInit, MdnsStep, TypeInvariant, PTL DEF Spec

\* A change met nothing else under way, or is counted as not alone.
THEOREM AloneInvariant == Spec => []AloneInv
BY AloneInit, AloneStep, TypeInvariant, PTL DEF Spec

(* Changes one at a time and without errors leave the prompt's flag as     *)
(* configured; DJ mode, which sets it, restores it.                        *)
THEOREM AutoAcceptIsAsConfigured == Spec => []AutoAcceptAsConfigured
<1>1. TypeInv /\ AutoInv => AutoAcceptAsConfigured
    BY DEF TypeInv, TypeOK, Config, AutoInv, AutoAcceptAsConfigured, Quiet, WillSetAuto
<1> QED
    BY <1>1, AloneInit, AutoStep, TypeInvariant, AloneInvariant, PTL DEF Spec

(* They leave the beacon on exactly when the computer is discoverable.     *)
THEOREM BleIsAsConfigured == Spec => []BleAsConfigured
<1>1. BleInv => BleAsConfigured
    BY DEF BleInv, BleAsConfigured, Quiet, Booting, WillAdvertise
<1> QED
    BY <1>1, AloneInit, BleStep, TypeInvariant, AloneInvariant, PTL DEF Spec

=============================================================================
