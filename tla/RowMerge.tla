------------------------------- MODULE RowMerge ------------------------------
(***************************************************************************)
(* Two refreshes of the device list over a world that does not change.     *)
(* fetch_devices walks hash maps, whose order is new for every refresh;    *)
(* here each refresh takes services, beacons and devices one by one in any *)
(* order, and the properties say what the list may not owe to it.          *)
(***************************************************************************)
EXTENDS DeviceRows, FiniteSets

CONSTANTS Services,   \* ads that may be found
          Beacons,    \* beacons that may be seen
          Probe,      \* the name each ad's receiver gives when probed, or None
          TrueKind,   \* what each ad and beacon really is
          ListModes,  \* discovery modes
          MaxSources  \* ads and beacons in one world (bound)

Found(ad) == ResolveDiscoveredDevice(ad)

\* The name a device goes by in the list.
ListName(ad) ==
    IF IsProbed(Found(ad)) /\ Probe[ad] # None THEN Probe[ad] ELSE Found(ad).name

\* The services that can put a way in into the list.
WaysIn == {ad \in Services : IsCollected(Found(ad)) /\ IsReachable(Found(ad))}

\* Services at one address and port are one device's; the list's own keys are in
\* no TXT record, and a nameless beacon gets a name no service has.
ASSUME CatalogueAssumption ==
    /\ \A a, b \in WaysIn : a.addr = b.addr /\ a.port = b.port => ListName(a) = ListName(b)
    /\ \A ad \in Services : "ble_id" \notin DOMAIN ad.txt
    /\ \A ad \in WaysIn, b \in Beacons : b.adv.name = NoName => b.id # ListName(ad).id

VARIABLES
    services,   \* the world: ads, beacons and the mode chosen
    beacons,
    mode,
    phase,      \* where the refresh is
    left,       \* what the loop it is in has not taken yet
    acc,        \* by_key and by_name
    best,       \* best_by_name
    rows,       \* the list it ends with
    last        \* the list of the refresh before, None for the first

world == <<services, beacons, mode>>
mergeVars == <<world, phase, left, acc, best, rows, last>>

MergeInit ==
    /\ services \in SUBSET Services /\ beacons \in SUBSET Beacons
    /\ Cardinality(services) + Cardinality(beacons) <= MaxSources
    /\ mode \in ListModes
    /\ phase = "mdns" /\ left = services
    /\ acc = NoKeys /\ best = <<>> /\ rows = {} /\ last = None

TakeService(ad) ==
    /\ phase = "mdns" /\ ad \in left
    /\ left' = left \ {ad}
    /\ acc' = IF IsCollected(Found(ad)) THEN AddService(acc, Found(ad), Probe[ad]) ELSE acc
    /\ UNCHANGED <<world, phase, best, rows, last>>

ServicesDone ==
    /\ phase = "mdns" /\ left = {}
    /\ phase' = "ble" /\ left' = beacons
    /\ UNCHANGED <<world, acc, best, rows, last>>

TakeBeacon(b) ==
    /\ phase = "ble" /\ b \in left
    /\ left' = left \ {b}
    /\ acc' = IF IsKept(b.adv) THEN AddBeacon(acc, b, mode, FALSE) ELSE acc
    /\ UNCHANGED <<world, phase, best, rows, last>>

BeaconsDone ==
    /\ phase = "ble" /\ left = {}
    /\ phase' = "rows" /\ left' = {acc.byKey[key] : key \in DOMAIN acc.byKey}
    /\ UNCHANGED <<world, acc, best, rows, last>>

TakeDevice(d) ==
    /\ phase = "rows" /\ d \in left
    /\ left' = left \ {d}
    /\ best' = MergeRow(best, d)
    /\ UNCHANGED <<world, phase, acc, rows, last>>

DevicesDone ==
    /\ phase = "rows" /\ left = {}
    /\ phase' = "done" /\ rows' = Listed(best, mode, FALSE)
    /\ UNCHANGED <<world, left, acc, best, last>>

RefreshAgain ==
    /\ phase = "done" /\ last = None
    /\ last' = rows /\ phase' = "mdns" /\ left' = services
    /\ acc' = NoKeys /\ best' = <<>> /\ rows' = {}
    /\ UNCHANGED world

MergeNext ==
    \/ \E ad \in Services : TakeService(ad)
    \/ ServicesDone
    \/ \E b \in Beacons : TakeBeacon(b)
    \/ BeaconsDone
    \/ \E d \in left : TakeDevice(d)
    \/ DevicesDone
    \/ RefreshAgain

MergeSpec == MergeInit /\ [][MergeNext]_mergeVars

-----------------------------------------------------------------------------
Done == phase = "done"

\* A device with a port is under its name in by_name: a beacon of that name
\* writes its signal there.
OnWiFi(d) == \E ad \in services : IsCollected(Found(ad)) /\ ad.port > 0 /\ ListName(ad).id = d.name.id

Signals(d) == {IF b.rssi = 0 THEN None ELSE b.rssi : b \in {x \in beacons : x.adv.name.id = d.name.id}}

\* What a row says apart from the endpoint a tie may choose.
Facts(list) == {[key |-> RowKey(d), kind |-> Kind(d), reachable |-> IsReachable(d),
                 rssi |-> IF OnWiFi(d) THEN None ELSE d.rssi] : d \in list}

\* The rows do not depend on the order of the hash maps (ui/mod.rs:1884): a
\* second refresh of the same world has the same rows, of the same kinds, as
\* reachable, and those known from Bluetooth only as near.  The signal of a row
\* known from Wi-Fi does depend on it: it is that of the beacon of its name that
\* came last (ui/mod.rs:1812), so of some beacon of its name, if there is any.
RowsAreStable ==
    Done /\ last # None =>
        /\ Facts(rows) = Facts(last)
        /\ \A d \in rows : OnWiFi(d) =>
              d.rssi \in IF Signals(d) = {} THEN {None} ELSE Signals(d)

\* A device that one of its services makes reachable is listed with a way in,
\* whichever of its services and beacons came first (ui/mod.rs:1897-1909).
ReachableRowsStayReachable ==
    Done => \A ad \in services \cap WaysIn, d \in rows : d.name = ListName(ad) => IsReachable(d)

\* Whatever service or beacon tells what a device is, its row tells it too, and
\* the lists meant for that kind have the row.  A computer whose only way in is
\* a player is dropped on purpose, a phone is not (ui/mod.rs:1947).
Wanted(kind) ==
    CASE DeviceFilter(mode) = "All"     -> kind \in SonarPeerKinds
      [] DeviceFilter(mode) = "Apple"   -> kind \in AppleTransferKinds
      [] DeviceFilter(mode) = "Android" -> kind \in AndroidKinds
      [] OTHER                          -> kind \in AirTagKinds

Told(name) == {TrueKind[ad] : ad \in {x \in services : ListName(x) = name}} \ {"Unknown"}

IsPeerAd(ad) ==
    \/ Told(ListName(ad)) \subseteq {"IPhone", "IPad"}
    \/ ad.service \notin {"AirPlay", "Raop"} /\ IsReachable(Found(ad))

NoPeerIsLost ==
    Done => /\ \A ad \in services : \A kind \in Told(ListName(ad)) :
                  IsPeerAd(ad) /\ Wanted(kind) => \E d \in rows : d.name = ListName(ad) /\ Kind(d) = kind
            /\ \A b \in beacons :
                  Wanted(TrueKind[b]) => \E d \in rows :
                      d.name = BleName(b.id, b.adv) /\ Kind(d) = TrueKind[b]

=============================================================================
