------------------------------ MODULE Discovery ------------------------------
(***************************************************************************)
(* The two sources of the device list, next to the world they listen to:   *)
(* DeviceDiscovery (src/core/src/network/discovery.rs), whose browse tasks *)
(* keep a map of resolved mDNS services, and BleManager (ble.rs), whose    *)
(* scan loop keeps a map of beacons, smooths their signal and dates them.  *)
(*                                                                         *)
(* Both are started once and never stopped: nothing in the program calls   *)
(* stop_discovery or stop_scanning.  Time is counted in the 2 s periods of *)
(* the scan loop.  The mDNS daemon and the Bluetooth stack are external:   *)
(* the daemon tells of services in order, the stack keeps the last reading *)
(* of every peripheral, of those that have left too.                       *)
(***************************************************************************)
EXTENDS DeviceRows, FiniteSets

CONSTANTS Names,       \* mDNS services, each on one service type
          Addrs,
          AdOf,        \* what service n announces at address a
          Beacons,     \* BLE peripherals
          AdvOf,       \* their advertisements
          Readings,    \* signal strengths, dBm
          AgeLimit,    \* scan periods until a quiet beacon is left out: 45 s in the code
          Budgets      \* how often services and beacons come, go or move (bounds)

\* The type a service is on, at whatever address.
TypeOf(n) == AdOf[<<n, CHOOSE a \in Addrs : TRUE>>].service
ServiceTypes == {TypeOf(n) : n \in Names}

ASSUME DiscoveryAssumption ==
    /\ None \notin Addrs
    /\ DOMAIN AdOf = Names \X Addrs /\ DOMAIN AdvOf = Beacons
    /\ \A n \in Names, a \in Addrs : AdOf[<<n, a>>].service = TypeOf(n)
    /\ Readings \subseteq Int
    /\ AgeLimit \in Nat \ {0}
    /\ Budgets \subseteq [services : Nat, beacons : Nat]

VARIABLES
    budget,    \* what is left of the one chosen
    up,        \* the address each service answers at, None when it is gone
    events,    \* what the daemon has told of each service and its task not handled
    browsing,  \* DeviceDiscovery::running
    browsed,   \* the service types that are browsed
    found,     \* its devices: services and the addresses they resolved to
    near,      \* the beacons in range
    heard,     \* the stack's last reading of each peripheral
    scanning,  \* whether the scan loop runs
    toVisit,   \* peripherals of this period it has not looked at
    seen       \* discovered_devices: signal and periods since last_seen

mdnsVars == <<up, events, browsing, browsed, found>>
bleVars == <<near, heard, scanning, toVisit, seen>>
discoveryVars == <<budget, mdnsVars, bleVars>>

Signals == Min(Readings)..Max(Readings)

DiscoveryTypeOK ==
    /\ \E b \in Budgets : budget.services <= b.services /\ budget.beacons <= b.beacons
    /\ up \in [Names -> Addrs \cup {None}]
    /\ \A n \in Names : \A i \in DOMAIN events[n] : events[n][i] \subseteq Addrs
    /\ browsing \in BOOLEAN
    /\ browsed \subseteq ServiceTypes /\ (browsed # {} => browsing)
    /\ found \subseteq Names \X Addrs
    /\ near \subseteq Beacons
    /\ heard \in [Beacons -> Readings \cup {None}]
    /\ scanning \in BOOLEAN
    /\ toVisit \subseteq Beacons
    /\ \A b \in Beacons : seen[b] # None =>
          seen[b].age \in 0..AgeLimit /\ seen[b].rssi \in Signals

DiscoveryInit ==
    /\ budget \in Budgets
    /\ up = [n \in Names |-> None]
    /\ events = [n \in Names |-> <<>>]
    /\ browsing = FALSE
    /\ browsed = {}
    /\ found = {}
    /\ near = {}
    /\ heard = [b \in Beacons |-> None]
    /\ scanning = FALSE
    /\ toVisit = {}
    /\ seen = [b \in Beacons |-> None]

-----------------------------------------------------------------------------
(* The world and the mDNS daemon.                                          *)

Change(kind) == budget[kind] > 0 /\ budget' = [budget EXCEPT ![kind] = @ - 1]

IsBrowsed(n) == TypeOf(n) \in browsed

\* The daemon tells the addresses it knows, or with none that the service went.
Tell(n, addrs) ==
    events' = IF IsBrowsed(n) THEN [events EXCEPT ![n] = Append(@, addrs)] ELSE events

\* A service that moves is resolved again, at first with both its addresses.
ServiceComes(n, a) ==
    /\ Change("services") /\ up[n] # a
    /\ up' = [up EXCEPT ![n] = a]
    /\ Tell(n, {up[n], a} \ {None})
    /\ UNCHANGED <<browsing, browsed, found, bleVars>>

ServiceGoes(n) ==
    /\ Change("services") /\ up[n] # None
    /\ up' = [up EXCEPT ![n] = None]
    /\ Tell(n, {})
    /\ UNCHANGED <<browsing, browsed, found, bleVars>>

BeaconComes(b) ==
    /\ Change("beacons") /\ b \notin near
    /\ near' = near \cup {b}
    /\ \E r \in Readings : heard' = [heard EXCEPT ![b] = r]
    /\ UNCHANGED <<mdnsVars, scanning, toVisit, seen>>

BeaconGoes(b) ==
    /\ Change("beacons") /\ b \in near
    /\ near' = near \ {b}
    /\ UNCHANGED <<mdnsVars, heard, scanning, toVisit, seen>>

SignalChanges(b) ==
    /\ b \in near
    /\ \E r \in Readings : heard' = [heard EXCEPT ![b] = r]
    /\ UNCHANGED <<budget, mdnsVars, near, scanning, toVisit, seen>>

-----------------------------------------------------------------------------
(* DeviceDiscovery.                                                        *)

\* A browse that fails is logged, and its type is not browsed; discovery counts
\* as running all the same, and nothing starts it again.
StartDiscovery ==
    /\ ~browsing
    /\ browsing' = TRUE
    /\ browsed' \in SUBSET ServiceTypes
    /\ events' = [n \in Names |->
           IF up[n] # None /\ TypeOf(n) \in browsed' THEN <<{up[n]}>> ELSE <<>>]
    /\ UNCHANGED <<budget, up, found, bleVars>>

\* The key has the address, and only one of the addresses is taken, whichever
\* the hash set gives first; a departure removes every entry of the service.
Browse(n) ==
    /\ events[n] # <<>>
    /\ events' = [events EXCEPT ![n] = Tail(@)]
    /\ LET addrs == Head(events[n]) IN
       IF addrs = {} THEN found' = {e \in found : e[1] # n}
       ELSE \E a \in addrs : found' = found \cup {<<n, a>>}
    /\ UNCHANGED <<budget, up, browsing, browsed, bleVars>>

-----------------------------------------------------------------------------
(* BleManager.                                                             *)

\* Round(n / 100), halves away from zero.
Hundredths(n) == IF n >= 0 THEN (n + 50) \div 100 ELSE -((50 - n) \div 100)

SmoothRssi(previous, sample) ==
    IF previous = 0 THEN sample ELSE IF sample = 0 THEN previous
    ELSE Hundredths(62 * previous + 38 * sample)

\* initialize comes to it after start_discovery.  It may fail for want of an
\* adapter, so nothing promises this step.
StartScanning ==
    /\ browsing /\ ~scanning
    /\ scanning' = TRUE
    /\ UNCHANGED <<budget, mdnsVars, near, heard, toVisit, seen>>

\* interval.tick and adapter.peripherals: the next period begins.
ScanTick ==
    /\ scanning /\ toVisit = {}
    /\ toVisit' = {b \in Beacons : heard[b] # None}
    /\ seen' = [b \in Beacons |->
          IF seen[b] = None THEN None ELSE [seen[b] EXCEPT !.age = Min({@ + 1, AgeLimit})]]
    /\ UNCHANGED <<budget, mdnsVars, near, heard, scanning>>

\* The beacons the loop keeps.
Kept == {b \in Beacons : IsKept(AdvOf[b])}

\* A mutant: every look at the stack's cache dates the beacon anew.
VisitAlwaysSees(b) ==
    /\ b \in toVisit
    /\ toVisit' = toVisit \ {b}
    /\ seen' = [seen EXCEPT ![b] =
          IF b \notin Kept THEN @
          ELSE [rssi |-> IF @ = None THEN heard[b] ELSE SmoothRssi(@.rssi, heard[b]), age |-> 0]]
    /\ UNCHANGED <<budget, mdnsVars, near, heard, scanning>>

\* One peripheral of the loop.  Only a change of the smoothed signal dates the
\* beacon anew: name and manufacturer data do not change in the model.
Visit(b) ==
    /\ b \in toVisit
    /\ toVisit' = toVisit \ {b}
    /\ seen' = [seen EXCEPT ![b] =
          IF b \notin Kept THEN @
          ELSE IF @ = None THEN [rssi |-> heard[b], age |-> 0]
          ELSE LET smoothed == SmoothRssi(@.rssi, heard[b])
               IN  [rssi |-> smoothed, age |-> IF smoothed # @.rssi THEN 0 ELSE @.age]]
    /\ UNCHANGED <<budget, mdnsVars, near, heard, scanning>>

\* get_discovered_devices leaves out what has been quiet.
Discovered == {b \in Beacons : seen[b] # None /\ seen[b].age < AgeLimit}

World ==
    \/ \E n \in Names : ServiceGoes(n) \/ \E a \in Addrs : ServiceComes(n, a)
    \/ \E b \in Beacons : BeaconComes(b) \/ BeaconGoes(b) \/ SignalChanges(b)

DiscoveryStep ==
    \/ StartDiscovery \/ \E n \in Names : Browse(n)
    \/ StartScanning \/ ScanTick \/ \E b \in Beacons : Visit(b)

\* The runtime polls every task that is ready; the timer of the loop goes off.
DiscoveryFairness ==
    /\ WF_discoveryVars(StartDiscovery) /\ \A n \in Names : WF_discoveryVars(Browse(n))
    /\ WF_discoveryVars(ScanTick) /\ \A b \in Beacons : WF_discoveryVars(Visit(b))

=============================================================================
