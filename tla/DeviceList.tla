------------------------------ MODULE DeviceList -----------------------------
(***************************************************************************)
(* The device list of the main view (src/core/src/ui/mod.rs) over the two  *)
(* sources of Discovery.                                                   *)
(*                                                                         *)
(* A refresh is a task: fetch_devices.  It waits for the lock on           *)
(* device_discovery and holds it (the guard lives as long as the `if let`) *)
(* while it copies the services and probes the receivers whose names it    *)
(* does not remember; then it takes the beacons and puts the rows          *)
(* together; then its message arrives.  Refreshes overlap.  They have no   *)
(* identity: the model keeps what each stage holds.                        *)
(***************************************************************************)
EXTENDS Discovery

CONSTANTS MaxFetches,  \* refreshes under way at a time (bound)
          NameAt,      \* the name the receiver of service n gives when probed
          Mode         \* the discovery mode

VARIABLES
    onMain,    \* the main view has been reached
    frozen,    \* discovery_frozen
    shown,     \* discovered_devices
    waiting,   \* refreshes that wait for the lock
    prober,    \* what the one that has the lock has taken, None if it is free
    merging,   \* what those have found that have released it
    arriving,  \* lists under way to the UI
    cache      \* probe_name_cache: by endpoint, what the last probe brought

fetchVars == <<waiting, prober, merging, arriving>>
listVars == <<onMain, frozen, shown, fetchVars, cache>>
vars == <<discoveryVars, listVars>>

Endpoint(e) == <<AdOf[e].addr, AdOf[e].port>>
Endpoints == {Endpoint(e) : e \in Names \X Addrs}
Resolved(e) == ResolveDiscoveredDevice(AdOf[e])

\* The services that are not ourselves, and those whose receivers are probed.
Foreign == {e \in Names \X Addrs : IsCollected(Resolved(e))}
Probing == {e \in Foreign : IsProbed(Resolved(e))}

\* What a refresh knows of the services: entries, and names by endpoint.
Findings ==
    UNION {[entries : {es}, names : [{Endpoint(e) : e \in es} -> {None} \cup {NameAt[n] : n \in Names}]] :
             es \in SUBSET Foreign}

UnderWay == waiting + Cardinality(merging) + Cardinality(arriving) + IF prober = None THEN 0 ELSE 1

\* Every variable has its type, and no list has two rows for one key.
TypeOK ==
    /\ DiscoveryTypeOK
    /\ onMain \in BOOLEAN /\ frozen \in BOOLEAN
    /\ UnderWay \in 0..MaxFetches
    /\ prober # None => \E r \in Findings : r.entries = prober.entries /\ DOMAIN prober.names \subseteq DOMAIN r.names
    /\ merging \subseteq Findings
    /\ \A p \in Endpoints : cache[p] # None => DOMAIN cache[p] = {"name"}
    /\ \A list \in arriving \cup {shown} : Cardinality({RowKey(d) : d \in list}) = Cardinality(list)

Init ==
    /\ DiscoveryInit
    /\ onMain = FALSE /\ frozen = FALSE
    /\ shown = {}
    /\ waiting = 0 /\ prober = None /\ merging = {} /\ arriving = {}
    /\ cache = [p \in Endpoints |-> None]

-----------------------------------------------------------------------------
(* fetch_devices.                                                          *)

\* What is remembered is good for PROBE_CACHE_TTL, five minutes; an entry that
\* is older is as good as none.
ProbeExpires(p) ==
    /\ cache[p] # None
    /\ cache' = [cache EXCEPT ![p] = None]
    /\ UNCHANGED <<discoveryVars, onMain, frozen, shown, fetchVars>>

\* The services are copied, and the names that are remembered looked up, before
\* anything is probed.
LockDiscovery ==
    /\ waiting > 0 /\ prober = None
    /\ waiting' = waiting - 1
    /\ LET entries == found \cap Foreign
           known   == {p \in {Endpoint(e) : e \in entries} : cache[p] # None}
       IN  prober' = [entries |-> entries, names |-> [p \in known |-> cache[p].name]]
    /\ UNCHANGED <<discoveryVars, onMain, frozen, shown, merging, arriving, cache>>

\* A receiver that is there gives its name, or does not answer within 1.5 s.
Answers(p) ==
    {None} \cup {NameAt[n] : n \in {x \in Names : up[x] # None /\ Endpoint(<<x, up[x]>>) = p}}

\* A mutant: a receiver that does not answer is left out of the list.
ProbesEndDropsSilent ==
    /\ prober # None
    /\ LET probed == {Endpoint(e) : e \in prober.entries \cap Probing} \ DOMAIN prober.names
       IN  \E answer \in [probed -> UNION {Answers(p) : p \in probed}] :
              /\ \A p \in probed : answer[p] \in Answers(p)
              /\ cache' = [p \in Endpoints |->
                    IF p \in probed THEN [name |-> answer[p]] ELSE cache[p]]
              /\ LET names == prober.names @@ answer
                     heardOf == {p \in DOMAIN names : names[p] # None}
                 IN  merging' = merging \cup
                        {[entries |-> {e \in prober.entries : Endpoint(e) \in heardOf},
                          names |-> [p \in heardOf |-> names[p]]]}
    /\ prober' = None
    /\ UNCHANGED <<discoveryVars, onMain, frozen, shown, waiting, arriving>>

\* join_all: every probe has ended; what came of it is remembered, failures too.
ProbesEnd ==
    /\ prober # None
    /\ LET probed == {Endpoint(e) : e \in prober.entries \cap Probing} \ DOMAIN prober.names
       IN  \E answer \in [probed -> UNION {Answers(p) : p \in probed}] :
              /\ \A p \in probed : answer[p] \in Answers(p)
              /\ cache' = [p \in Endpoints |->
                    IF p \in probed THEN [name |-> answer[p]] ELSE cache[p]]
              /\ merging' = merging \cup {[prober EXCEPT !.names = @ @@ answer]}
    /\ prober' = None
    /\ UNCHANGED <<discoveryVars, onMain, frozen, shown, waiting, arriving>>

\* The lists the rest of a refresh can make of what it found, and of the
\* signals of the beacons, in the order of its hash maps.
Lists(r, signals) ==
    LET near_ == {b \in Beacons : signals[b] # None}
        AddE(acc, e) == AddService(acc, Resolved(e), r.names[Endpoint(e)])
        AddB(acc, b) == AddBeacon(acc, [id |-> b, adv |-> AdvOf[b], rssi |-> signals[b]], Mode, FALSE)
        keyed == {FoldLeft(AddB, FoldLeft(AddE, NoKeys, es), bs).byKey :
                    es \in SetToSeqs(r.entries), bs \in SetToSeqs(near_)}
    IN  UNION {{Listed(FoldLeft(MergeRow, <<>>, ds), Mode, FALSE) :
                  ds \in SetToSeqs({byKey[key] : key \in DOMAIN byKey})} : byKey \in keyed}

\* Worked out once for all (TLC evaluates the operands of @@ at once).
ListsOf == [p \in Findings \X [Beacons -> Signals \cup {None}] |-> Lists(p[1], p[2])] @@ <<>>

\* The beacons are taken, and the rows put together.
TakeBeacons(r) ==
    /\ r \in merging
    /\ merging' = merging \ {r}
    /\ \E list \in ListsOf[<<r, [b \in Beacons |-> IF b \in Discovered THEN seen[b].rssi ELSE None]>>] :
          arriving' = arriving \cup {list}
    /\ UNCHANGED <<discoveryVars, onMain, frozen, shown, waiting, prober, cache>>

-----------------------------------------------------------------------------
(* update(): the messages.                                                 *)

Begin == UnderWay < MaxFetches /\ waiting' = waiting + 1

\* The firewall prompt is answered after the splash, or the user presses Scan.
StartScanning_ ==
    /\ onMain' = TRUE
    /\ Begin
    /\ UNCHANGED <<discoveryVars, frozen, shown, prober, merging, arriving, cache>>

\* The timer of the subscription, which is there on the main view only.  Other
\* views and a hidden window suspend it as the freeze does; they are left out.
RefreshDevices ==
    /\ onMain /\ ~frozen
    /\ Begin
    /\ UNCHANGED <<discoveryVars, onMain, frozen, shown, prober, merging, arriving, cache>>

\* DevicesUpdated and DevicesRefreshed, which differ in is_scanning only: the
\* status text, and the period of the subscription.
ListArrives(list) ==
    /\ list \in arriving
    /\ arriving' = arriving \ {list}
    /\ shown' = IF frozen THEN shown ELSE list
    /\ UNCHANGED <<discoveryVars, onMain, frozen, waiting, prober, merging, cache>>

ToggleDiscoveryFreeze ==
    /\ onMain
    /\ frozen' = ~frozen
    /\ UNCHANGED <<discoveryVars, onMain, shown, fetchVars, cache>>

FetchStep ==
    \/ LockDiscovery \/ ProbesEnd
    \/ \E r \in merging : TakeBeacons(r)
    \/ \E list \in arriving : ListArrives(list)

UserStep ==
    StartScanning_ \/ ToggleDiscoveryFreeze

Next ==
    \/ (World \/ DiscoveryStep) /\ UNCHANGED listVars
    \/ UserStep \/ RefreshDevices \/ FetchStep
    \/ \E p \in Endpoints : ProbeExpires(p)

\* Tasks that are ready run and the subscription's timer goes off; only the
\* stage is promised, a single list may be overtaken for ever.
Fairness ==
    /\ DiscoveryFairness
    /\ WF_vars(RefreshDevices) /\ WF_vars(LockDiscovery) /\ WF_vars(ProbesEnd)
    /\ WF_vars(\E r \in merging : TakeBeacons(r))
    /\ WF_vars(\E list \in arriving : ListArrives(list))

Spec == Init /\ [][Next]_vars /\ Fairness

-----------------------------------------------------------------------------
Refreshing == onMain /\ ~frozen

NamesOf == [n \in Names |-> {NameAt[n]} \cup {Resolved(<<n, a>>).name : a \in Addrs}] @@ <<>>
NameOfBeacon == [b \in Beacons |-> BleName(b, AdvOf[b])] @@ <<>>
IsOfService(d, n) == d.name \in NamesOf[n]
IsOfBeacon(d, b) == d.name = NameOfBeacon[b]

\* What has left does not stay on the radar (ble.rs:234-239, discovery.rs:913):
\* once it is gone for good and the list refreshes, its rows go and stay away,
\* for all the overlapping refreshes, remembered names and smoothed signals.
GhostsLeave ==
    /\ \A n \in Names :
          <>[](up[n] = None /\ Refreshing) => <>[](\A d \in shown : ~IsOfService(d, n))
    /\ \A b \in Beacons :
          <>[](b \notin near /\ Refreshing) => <>[](\A d \in shown : ~IsOfBeacon(d, b))

\* A service that is there to stay gets a row and keeps one, whatever it was
\* probed for and however its addresses changed (discovery.rs:899-907); unless
\* the browse of its type failed, which is not tried again (discovery.rs:931).
ArrivalsStay ==
    \A n \in Names :
        <>[](up[n] # None /\ IsBrowsed(n) /\ Refreshing) => <>[](\E d \in shown : IsOfService(d, n))

=============================================================================
