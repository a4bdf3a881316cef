-------------------------------- MODULE Awdl ---------------------------------
(***************************************************************************)
(* AwdlManager (protocols/awdl.rs) on each machine, over the daemons of    *)
(* Owdl.  The manager sits behind a tokio mutex, so each of its methods is *)
(* one step against the others; the daemons' tasks run on their own.       *)
(* AirDropd itself calls initialize once and then refreshes and reads      *)
(* peers; start, stop and update_config are the rest of the public API.    *)
(***************************************************************************)
EXTENDS Owdl

CONSTANTS Hosts,
          Driven,      \* hosts where all of the API is called; on the others
                       \* initialize once, as AirDropd does
          ConfigName,  \* the device_name each manager is created with
          MaxPeers,    \* max_peers
          MaxConfigs   \* update_config calls (bound)

ASSUME AwdlAssumption ==
    /\ ConfigName \in [Hosts -> Names] /\ Driven \subseteq Hosts
    /\ MaxPeers \in Nat /\ MaxConfigs \in Nat

VARIABLES
    mgr,     \* AwdlManager: state, config.enabled, config.device_name
    handle,  \* AwdlManager::daemon
    peers,   \* AwdlManager::peers, as the MACs in it
    configs  \* update_config calls so far (bound)

managerVars == <<mgr, handle, peers, configs>>
vars == <<owdlVars, managerVars>>

States == {"Stopped", "Initializing", "Starting", "Running", "Stopping", "Error"}
Manager == [state : States, enabled : BOOLEAN, device : Names]

TypeOK ==
    /\ OwdlTypeOK
    /\ mgr \in [Hosts -> Manager]
    /\ handle \in [Hosts -> Daemons \cup {NoDaemon}]
    /\ held = {handle[h] : h \in Hosts} \ {NoDaemon}
    /\ peers \in [Hosts -> SUBSET Macs]
    /\ configs \in 0..MaxConfigs

Init ==
    /\ OwdlInit
    /\ mgr = [h \in Hosts |->
                 [state |-> "Stopped", enabled |-> TRUE, device |-> ConfigName[h]]]
    /\ handle = [h \in Hosts |-> NoDaemon]
    /\ peers = [h \in Hosts |-> {}]
    /\ configs = 0

-----------------------------------------------------------------------------
(* initialize() awaits the build of a daemon with the manager locked.  A    *)
(* failure whose text names the port disables AWDL, any other one is an    *)
(* error.  auto_start is always set: a new daemon is started at once.      *)

Free(h) == mgr[h].state # "Initializing"

Initialize(h) ==
    /\ Free(h) /\ mgr[h].enabled
    /\ mgr' = [mgr EXCEPT ![h].state = "Initializing"]
    /\ UNCHANGED <<owdlVars, handle, peers, configs>>

\* The daemon the manager had until now is dropped, running or not.
BuildOk(h, d) ==
    /\ Build(d, mgr[h].device, handle[h])
    /\ handle' = [handle EXCEPT ![h] = d]
    /\ StartTasks(d)
    /\ mgr' = [mgr EXCEPT ![h].state = "Running"]
    /\ UNCHANGED shutdown

PortTaken(h) ==
    /\ mgr' = [mgr EXCEPT ![h] = [@ EXCEPT !.state = "Stopped", !.enabled = FALSE]]
    /\ UNCHANGED <<daemonVars, handle>>

BuildFails(h) ==
    /\ mgr' = [mgr EXCEPT ![h].state = "Error"]
    /\ UNCHANGED <<daemonVars, handle>>

EndInitialize(h) ==
    /\ mgr[h].state = "Initializing"
    /\ \/ Daemons # Built /\ BuildOk(h, CHOOSE d \in Daemons : d \notin Built)
       \/ PortTaken(h)
       \/ BuildFails(h)
    /\ UNCHANGED <<netVars, peers, configs>>

-----------------------------------------------------------------------------
(* start(), stop(), update_config(), refresh_peers() and the maintenance   *)
(* task of a manager that was started.                                     *)

\* A daemon that runs answers AlreadyRunning, and the manager takes that, like
\* a missing daemon, for an error.
Start(h) ==
    /\ Free(h) /\ mgr[h].enabled
    /\ IF handle[h] = NoDaemon \/ running[handle[h]]
       THEN /\ mgr' = [mgr EXCEPT ![h].state = "Error"]
            /\ UNCHANGED <<tasks, running>>
       ELSE /\ StartTasks(handle[h])
            /\ mgr' = [mgr EXCEPT ![h].state = "Running"]
    /\ UNCHANGED <<name, held, shutdown, netVars, handle, peers, configs>>

StopDaemon(h) ==
    IF handle[h] = NoDaemon THEN UNCHANGED <<shutdown, running>>
    ELSE SignalStop(handle[h])

Stop(h) ==
    /\ Free(h)
    /\ StopDaemon(h)
    /\ mgr' = [mgr EXCEPT ![h].state = "Stopped"]
    /\ UNCHANGED <<name, held, tasks, netVars, handle, peers, configs>>

\* A manager that is Running is stopped first and, if the new configuration
\* keeps AWDL enabled, initialized again; in any other state only the
\* configuration changes.
UpdateConfig(h, n, enabled) ==
    LET wasRunning == mgr[h].state = "Running"
        state == IF ~wasRunning THEN mgr[h].state
                 ELSE IF enabled THEN "Initializing" ELSE "Stopped"
    IN  /\ Free(h) /\ configs < MaxConfigs
        /\ configs' = configs + 1
        /\ IF wasRunning THEN StopDaemon(h) ELSE UNCHANGED <<shutdown, running>>
        /\ mgr' = [mgr EXCEPT ![h] = [state |-> state, enabled |-> enabled, device |-> n]]
        /\ UNCHANGED <<name, held, tasks, netVars, handle, peers>>

\* Every 5 s, and whenever the peers are read.
RefreshPeers(h) ==
    /\ Free(h) /\ handle[h] # NoDaemon
    /\ peers' = [peers EXCEPT ![h] = DOMAIN table[handle[h]]]
    /\ UNCHANGED <<owdlVars, mgr, handle, configs>>

\* truncate() keeps max_peers of them; the order is a hash table's.
MaintainPeers(h) ==
    /\ handle[h] # NoDaemon /\ Cardinality(peers[h]) > MaxPeers
    /\ \E kept \in SUBSET peers[h] :
          /\ Cardinality(kept) = MaxPeers
          /\ peers' = [peers EXCEPT ![h] = kept]
    /\ UNCHANGED <<owdlVars, mgr, handle, configs>>

\* broadcast_data: a frame for a peer of the list; send_data is its part.
BroadcastData(h) ==
    /\ Free(h) /\ handle[h] # NoDaemon
    /\ \E m \in peers[h], reached \in SUBSET Daemons : SendData(handle[h], m, reached)
    /\ UNCHANGED managerVars

-----------------------------------------------------------------------------
Tasks == OwdlStep /\ UNCHANGED managerVars

Call(h) ==
    \/ mgr[h].state = "Stopped" /\ Initialize(h)
    \/ /\ h \in Driven
       /\ \/ Initialize(h) \/ Start(h) \/ Stop(h)
          \/ \E n \in Names, enabled \in BOOLEAN : UpdateConfig(h, n, enabled)

Next ==
    \/ Tasks
    \/ Loss /\ UNCHANGED managerVars
    \/ \E h \in Hosts : Call(h) \/ EndInitialize(h) \/ RefreshPeers(h) \/ MaintainPeers(h)
                     \/ BroadcastData(h)

\* tokio runs every task that is ready and select! picks among ready branches
\* at random, so tasks that were told to stop end, one after the other.
Fairness ==
    WF_tasks(\E d \in Daemons : \E v \in tasks[d] : EndTasks(d, v) /\ UNCHANGED managerVars)

Spec == Init /\ [][Next]_vars /\ Fairness

-----------------------------------------------------------------------------
(* What a peer table may hold and what the state of a manager means.       *)

\* PeersAreAnnounced: whatever the air does to packets, every entry of a peer
\* table is what another daemon announces, never the daemon itself and never a
\* mix of two (run_rx, PsfFrame::parse, the event task).
PeersAreAnnounced ==
    \A d \in Daemons : \A m \in DOMAIN table[d] :
        /\ m # Mac(d)
        /\ \E e \in Built :
              /\ Mac(e) = m
              /\ table[d][m].name = name[e] /\ table[d][m].ipv4 = Ipv4Of[e]
              /\ table[d][m].seq <= seq[e]

\* RunningIsServed: when the state says Running, the daemon runs and has
\* tasks that no stop will end, however often it was stopped and started
\* before the old tasks had ended (start_tasks, watch::Sender::send).
RunningIsServed ==
    \A h \in Hosts : mgr[h].state = "Running" =>
        LET d == handle[h]
        IN  /\ d # NoDaemon /\ running[d]
            /\ \E v \in tasks[d] : ~Told(d, v)

\* StopEndsTasks: a daemon that was stopped falls silent: all of its tasks end,
\* unless it is started again (AwdlDaemon::stop, the select! loops).
StopEndsTasks ==
    \A d \in Daemons :
        (d \in Built /\ ~running[d]) ~> (tasks[d] = {} \/ running[d])

\* MacsAreUnique: what the doc of derive_local_mac says (transport.rs:200),
\* "Generate a locally-unique AWDL MAC from device name": no two managers have
\* daemons with one MAC.
MacsAreUnique ==
    \A h, g \in Hosts :
        h # g /\ NoDaemon \notin {handle[h], handle[g]} => Mac(handle[h]) # Mac(handle[g])

=============================================================================
