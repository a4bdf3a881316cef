---------------------------- MODULE RowMergeProofs ----------------------------
(***************************************************************************)
(* A device with a way in keeps it in the list, for any services, beacons, *)
(* probes and modes, whatever order the hash maps are walked in.           *)
(***************************************************************************)
EXTENDS RowMerge, TLAPS

IsDevice(d) == d = Device(d.name, d.addr, d.port, d.service, d.txt, d.rssi)

\* What fetch_devices has found, as values of by_key.
FoundDevices == {acc.byKey[key] : key \in DOMAIN acc.byKey}

\* The services the refresh has been through.
Passed == IF phase = "mdns" THEN services \ left ELSE services

\* A row with the name of a service that has a way in is not a nameless
\* beacon's: the row's key is the name alone.
NamedAlone(d) ==
    \A ad \in WaysIn : d.name.id = ListName(ad).id => RowKey(d) = <<d.name.id, "">>

\* The device of a service that has been passed, under its address and port.
IsDeviceOf(d, ad) ==
    /\ d.name = ListName(ad) /\ d.addr = ad.addr /\ d.port = ad.port

\* Every service passed that makes a way in has its device under its address
\* and port, and no device passes for another's.
Good(byKey, passed) ==
    /\ \A key \in DOMAIN byKey : IsDevice(byKey[key]) /\ NamedAlone(byKey[key])
    /\ \A ad \in passed \cap WaysIn :
          /\ <<ad.addr, ad.port>> \in DOMAIN byKey
          /\ IsDeviceOf(byKey[<<ad.addr, ad.port>>], ad)

KeysInv ==
    /\ services \subseteq Services /\ beacons \subseteq Beacons
    /\ phase \in {"mdns", "ble", "rows", "done"}
    /\ phase = "mdns" => left \subseteq services
    /\ acc = [byKey |-> acc.byKey, byName |-> acc.byName]
    /\ Good(acc.byKey, Passed)

\* Every row is of devices that were found and goes by their name, and a device
\* with a way in that has been merged has given its row one.
RowsInv ==
    /\ phase \in {"mdns", "ble"} => best = <<>>
    /\ phase = "rows" => left \subseteq FoundDevices
    /\ phase = "done" => left = {} /\ rows \subseteq {best[key] : key \in DOMAIN best}
    /\ \A key \in DOMAIN best :
          /\ \E d \in FoundDevices : key = RowKey(d)
          /\ IsDevice(best[key]) /\ best[key].name.id = key[1]
    /\ phase \in {"rows", "done"} =>
          \A d \in FoundDevices \ left :
              /\ RowKey(d) \in DOMAIN best
              /\ IsReachable(d) => IsReachable(best[RowKey(d)])

Inv == KeysInv /\ RowsInv

-----------------------------------------------------------------------------
(* What the operators of DeviceRows do.                                    *)

\* The device a service makes.
DeviceOf(ad) == Device(ListName(ad), ad.addr, ad.port, ad.service, ad.txt, None)

LEMMA AddServiceIs ==
    ASSUME NEW a, NEW ad
    PROVE  \E byName : AddService(a, Found(ad), Probe[ad]) =
               [byKey  |-> Extend(a.byKey, <<ad.addr, ad.port>>, DeviceOf(ad)),
                byName |-> byName]
<1> DEFINE d     == Found(ad)
           named == IF IsProbed(d) /\ Probe[ad] # None THEN [d EXCEPT !.name = Probe[ad]] ELSE d
<1>1. d = Device(d.name, ad.addr, ad.port, ad.service, ad.txt, None)
    BY DEF Found, ResolveDiscoveredDevice, Device
<1>2. named = DeviceOf(ad)
    <2> HIDE DEF d
    <2>1. ListName(ad) = IF IsProbed(d) /\ Probe[ad] # None THEN Probe[ad] ELSE d.name
        BY DEF ListName, d
    <2>2. CASE IsProbed(d) /\ Probe[ad] # None
        <3>1. [d EXCEPT !.name = Probe[ad]] = Device(Probe[ad], ad.addr, ad.port, ad.service, ad.txt, None)
            BY <1>1 DEF Device
        <3> QED
            BY <2>1, <2>2, <3>1 DEF DeviceOf
    <2>3. CASE ~(IsProbed(d) /\ Probe[ad] # None)
        BY <1>1, <2>1, <2>3 DEF DeviceOf
    <2> QED
        BY <2>2, <2>3
<1>3. d.addr = ad.addr /\ d.port = ad.port
    BY DEF Found, ResolveDiscoveredDevice, Device
<1> HIDE DEF named, d
<1>4. \E byName : AddService(a, d, Probe[ad]) = [byKey |-> Extend(a.byKey, <<d.addr, d.port>>, named), byName |-> byName]
    BY DEF AddService, named
<1> QED
    BY <1>2, <1>3, <1>4 DEF d

BleDevice(b, rssi) == Device(BleName(b.id, b.adv), None, 0, "AirDrop", BleTxt(b.id, b.adv), rssi)

\* A beacon adds nothing, its signal to a device, or a device of its own.
BeaconAdded(a, b, r) ==
    \/ r = a
    \/ \E key, rssi : r = [byKey  |-> [a.byKey EXCEPT ![key] = [@ EXCEPT !.rssi = rssi]],
                           byName |-> a.byName]
    \/ \E rssi : r = [byKey  |-> Extend(a.byKey, <<"ble", 0, b.id>>, BleDevice(b, rssi)),
                      byName |-> a.byName]

LEMMA AddBeaconIs ==
    ASSUME NEW a, a = [byKey |-> a.byKey, byName |-> a.byName], NEW b, NEW m, NEW showAll
    PROVE  BeaconAdded(a, b, AddBeacon(a, b, m, showAll))
<1> DEFINE rssi   == IF b.rssi = 0 THEN None ELSE b.rssi
           name   == b.adv.name
           onWiFi == name # NoName /\ name.id \in DOMAIN a.byName
           wanted == Beacon(b.adv).label = None \/ m = "AirTags" \/ showAll
           ours   == name.id = OurName
<1>1. CASE name # NoName /\ ours
    BY <1>1 DEF AddBeacon, BeaconAdded
<1>2. CASE ~(name # NoName /\ ours) /\ onWiFi /\ ~ours
    <2>1. AddBeacon(a, b, m, showAll) = [a EXCEPT !.byKey[a.byName[name.id]].rssi = rssi]
        BY <1>2 DEF AddBeacon
    <2> HIDE DEF name, rssi
    <2>2. [a EXCEPT !.byKey[a.byName[name.id]].rssi = rssi] =
             [byKey |-> [a.byKey EXCEPT ![a.byName[name.id]] = [@ EXCEPT !.rssi = rssi]], byName |-> a.byName]
        OBVIOUS
    <2> QED
        BY <2>1, <2>2 DEF BeaconAdded
<1>3. CASE ~(name # NoName /\ ours) /\ ~onWiFi /\ wanted /\ (name = NoName \/ ~ours)
    <2>1. AddBeacon(a, b, m, showAll) =
             [a EXCEPT !.byKey = Extend(@, <<"ble", 0, b.id>>, BleDevice(b, rssi))]
        BY <1>3 DEF AddBeacon, BleDevice
    <2> HIDE DEF rssi
    <2>2. [a EXCEPT !.byKey = Extend(@, <<"ble", 0, b.id>>, BleDevice(b, rssi))] =
             [byKey |-> Extend(a.byKey, <<"ble", 0, b.id>>, BleDevice(b, rssi)), byName |-> a.byName]
        OBVIOUS
    <2> QED
        BY <2>1, <2>2 DEF BeaconAdded
<1>4. CASE /\ ~(name # NoName /\ ours) /\ ~(onWiFi /\ ~ours)
           /\ ~(~onWiFi /\ wanted /\ (name = NoName \/ ~ours))
    BY <1>4 DEF AddBeacon, BeaconAdded
<1> QED
    BY <1>1, <1>2, <1>3, <1>4

\* A row once reachable stays so, and a device that is reachable makes its row so.
LEMMA RankTells ==
    ASSUME NEW d, NEW e
    PROVE  /\ IsReachable(e) /\ Rank(d) < Rank(e) => IsReachable(d)
           /\ IsReachable(d) /\ ~IsReachable(e) => Rank(d) < Rank(e)
<1>1. \A s : ServiceRank(s) \in 0..5
    BY DEF ServiceRank
<1>2. ServiceRank(d.service) \in 0..5 /\ ServiceRank(e.service) \in 0..5
    BY <1>1
<1> QED
    BY <1>2 DEF Rank

LEMMA Merged ==
    ASSUME NEW b, NEW d, IsDevice(d),
           \A key \in DOMAIN b : IsDevice(b[key]) /\ b[key].name.id = key[1]
    PROVE  /\ DOMAIN MergeRow(b, d) = DOMAIN b \cup {RowKey(d)}
           /\ \A key \in DOMAIN MergeRow(b, d) :
                 /\ IsDevice(MergeRow(b, d)[key])
                 /\ MergeRow(b, d)[key].name.id = key[1]
           /\ \A key \in DOMAIN b : IsReachable(b[key]) => IsReachable(MergeRow(b, d)[key])
           /\ IsReachable(d) => IsReachable(MergeRow(b, d)[RowKey(d)])
<1> DEFINE key == RowKey(d)
<1>1. key[1] = d.name.id
    BY DEF RowKey
<1>2. CASE key \notin DOMAIN b
    <2>1. MergeRow(b, d) = Extend(b, key, d)
        BY <1>2 DEF MergeRow
    <2> HIDE DEF key
    <2>2. /\ DOMAIN Extend(b, key, d) = DOMAIN b \cup {key}
          /\ Extend(b, key, d)[key] = d
          /\ \A k \in DOMAIN b : k # key => Extend(b, key, d)[k] = b[k]
        BY DEF Extend
    <2>3. \A k \in DOMAIN b : Extend(b, key, d)[k] = b[k]
        BY <1>2, <2>2
    <2>4. \A k \in DOMAIN b \cup {key} :
             IsDevice(Extend(b, key, d)[k]) /\ Extend(b, key, d)[k].name.id = k[1]
        BY <1>1, <2>2, <2>3
    <2> QED
        BY <2>1, <2>2, <2>3, <2>4 DEF key
<1>3. CASE key \in DOMAIN b
    <2> DEFINE old  == b[key]
               kept == IF Rank(d) < Rank(old) THEN d ELSE old
               row  == Device(kept.name, kept.addr, kept.port, kept.service,
                                Joined(old.txt, d.txt), Stronger(d.rssi, old.rssi))
    <2>1. MergeRow(b, d) = [b EXCEPT ![key] = row]
        BY <1>3 DEF MergeRow
    <2>2. IsDevice(kept) /\ kept.name.id = key[1]
        <3> HIDE DEF key
        <3> QED
            BY <1>1, <1>3
    <2>3. /\ IsReachable(old) => IsReachable(kept)
          /\ IsReachable(d) => IsReachable(kept)
        BY RankTells
    <2>4. /\ IsDevice(row) /\ row.name = kept.name /\ row.addr = kept.addr /\ row.port = kept.port
        <3> HIDE DEF kept, old
        <3> QED
            BY DEF IsDevice, Device
    <2> HIDE DEF row
    <2>5. IsReachable(row) <=> IsReachable(kept)
        BY <2>4 DEF IsReachable
    <2> HIDE DEF kept, key
    <2> QED
        BY <1>3, <2>1, <2>2, <2>3, <2>4, <2>5 DEF key
<1> QED
    BY <1>2, <1>3

-----------------------------------------------------------------------------
(* The names of devices.                                                   *)

\* A device whose records make it no nameless beacon.
LEMMA ServiceIsNamed ==
    ASSUME NEW ad \in Services
    PROVE  IsDevice(DeviceOf(ad)) /\ NamedAlone(DeviceOf(ad)) /\ IsDeviceOf(DeviceOf(ad), ad)
<1>1. "ble_id" \notin DOMAIN ad.txt
    BY CatalogueAssumption
<1>2. RowKey(DeviceOf(ad)) = <<DeviceOf(ad).name.id, "">>
    BY <1>1 DEF RowKey, DeviceOf, Device
<1> QED
    BY <1>2 DEF IsDevice, DeviceOf, Device, NamedAlone, IsDeviceOf

LEMMA BeaconIsNamed ==
    ASSUME NEW b \in Beacons,    NEW rssi
    PROVE  IsDevice(BleDevice(b, rssi)) /\ NamedAlone(BleDevice(b, rssi))
<1> DEFINE d == BleDevice(b, rssi)
<1>1. IsDevice(d) /\ d.txt = BleTxt(b.id, b.adv) /\ d.name = BleName(b.id, b.adv)
    BY DEF IsDevice, BleDevice, Device
<1>2. CASE b.adv.name = NoName
    <2>1. d.name.id = b.id
        BY <1>1, <1>2 DEF BleName, NameOf
    <2>2. \A ad \in WaysIn : d.name.id # ListName(ad).id
        BY <1>2, <2>1, CatalogueAssumption
    <2> QED
        BY <1>1, <2>2 DEF NamedAlone
<1>3. CASE b.adv.name # NoName
    <2>1. "anonymous" \notin DOMAIN BleTxt(b.id, b.adv)
        BY <1>3 DEF BleTxt
    <2>2. ~Flag(d.txt, "anonymous")
        BY <1>1, <2>1 DEF Flag
    <2> QED
        BY <1>1, <2>2 DEF NamedAlone, RowKey
<1> QED
    BY <1>1, <1>2, <1>3

LEMMA OnlySignal ==
    ASSUME NEW d, IsDevice(d), NEW rssi, NEW e, e = [d EXCEPT !.rssi = rssi]
    PROVE  /\ IsDevice(e)
           /\ NamedAlone(d) => NamedAlone(e)
           /\ e.name = d.name /\ e.addr = d.addr /\ e.port = d.port
<1>1. ASSUME NEW n, NEW a, NEW p, NEW s, NEW t, NEW r
      PROVE  [Device(n, a, p, s, t, r) EXCEPT !.rssi = rssi] = Device(n, a, p, s, t, rssi)
    BY DEF Device
<1>2. [Device(d.name, d.addr, d.port, d.service, d.txt, d.rssi) EXCEPT !.rssi = rssi]
         = Device(d.name, d.addr, d.port, d.service, d.txt, rssi)
    BY <1>1
<1>3. e = Device(d.name, d.addr, d.port, d.service, d.txt, rssi)
    BY <1>2, Zenon DEF IsDevice
<1>4. e.name = d.name /\ e.addr = d.addr /\ e.port = d.port /\ e.txt = d.txt
    BY <1>3 DEF Device
<1>5. IsDevice(e)
    BY <1>3 DEF IsDevice, Device
<1>6. RowKey(e) = RowKey(d)
    BY <1>4 DEF RowKey
<1> QED
    BY <1>4, <1>5, <1>6 DEF NamedAlone

-----------------------------------------------------------------------------
(* One step of a refresh.                                                  *)

LEMMA InitInv == MergeInit => Inv
<1> SUFFICES ASSUME MergeInit PROVE Inv
    OBVIOUS
<1>1. acc.byKey = <<>> /\ acc = [byKey |-> acc.byKey, byName |-> acc.byName]
    BY DEF MergeInit, NoKeys
<1>2. FoundDevices = {} /\ Passed = {} /\ DOMAIN best = {}
    BY <1>1 DEF MergeInit, FoundDevices, Passed
<1> QED
    BY <1>1, <1>2 DEF MergeInit, Inv, KeysInv, Good, RowsInv

\* A service that is put in under its address and port is there with its name,
\* and so are those that were there before: at one place there is one device.
LEMMA PutService ==
    ASSUME NEW byKey, NEW passed \in SUBSET Services, Good(byKey, passed),
           NEW ad \in Services, IsCollected(Found(ad))
    PROVE  Good(Extend(byKey, <<ad.addr, ad.port>>, DeviceOf(ad)), passed \cup {ad})
<1> DEFINE key == <<ad.addr, ad.port>>
           new == Extend(byKey, key, DeviceOf(ad))
<1>1. /\ DOMAIN new = DOMAIN byKey \cup {key} /\ new[key] = DeviceOf(ad)
      /\ \A k \in DOMAIN byKey : k # key => new[k] = byKey[k]
    BY DEF Extend
<1>2. IsDevice(DeviceOf(ad)) /\ NamedAlone(DeviceOf(ad)) /\ IsDeviceOf(DeviceOf(ad), ad)
    BY ServiceIsNamed
<1>3. ASSUME NEW other \in (passed \cup {ad}) \cap WaysIn
      PROVE  /\ <<other.addr, other.port>> \in DOMAIN new
             /\ IsDeviceOf(new[<<other.addr, other.port>>], other)
    <2>1. CASE <<other.addr, other.port>> = key
        <3>1. other.addr = ad.addr /\ other.port = ad.port
            BY <2>1
        <3>2. ad \in WaysIn
            BY <3>1 DEF WaysIn, IsReachable, Found, ResolveDiscoveredDevice, Device
        <3>3. ListName(other) = ListName(ad)
            BY <3>1, <3>2, CatalogueAssumption
        <3> QED
            BY <1>1, <1>2, <2>1, <3>1, <3>3 DEF IsDeviceOf
    <2>2. CASE <<other.addr, other.port>> # key
        BY <1>1, <2>2 DEF Good
    <2> QED
        BY <2>1, <2>2
<1> HIDE DEF new
<1>4. \A k \in DOMAIN new : IsDevice(new[k]) /\ NamedAlone(new[k])
    BY <1>1, <1>2 DEF Good
<1> QED
    BY <1>3, <1>4 DEF Good, new

\* A beacon's place is no service's, for its port is 0.
LEMMA PutBeacon ==
    ASSUME NEW byKey, NEW passed \in SUBSET Services, Good(byKey, passed),
           NEW b \in Beacons,    NEW rssi
    PROVE  Good(Extend(byKey, <<"ble", 0, b.id>>, BleDevice(b, rssi)), passed)
<1> DEFINE key == <<"ble", 0, b.id>>
           new == Extend(byKey, key, BleDevice(b, rssi))
<1>1. /\ DOMAIN new = DOMAIN byKey \cup {key} /\ new[key] = BleDevice(b, rssi)
      /\ \A k \in DOMAIN byKey : k # key => new[k] = byKey[k]
    BY DEF Extend
<1>2. IsDevice(BleDevice(b, rssi)) /\ NamedAlone(BleDevice(b, rssi))
    BY BeaconIsNamed
<1>3. ASSUME NEW ad \in passed \cap WaysIn
      PROVE  /\ <<ad.addr, ad.port>> \in DOMAIN new
             /\ IsDeviceOf(new[<<ad.addr, ad.port>>], ad)
    <2>1. ad.port > 0
        BY DEF WaysIn, IsReachable, Found, ResolveDiscoveredDevice, Device
    <2>2. <<ad.addr, ad.port>>[2] # key[2]
        BY <2>1
    <2>3. <<ad.addr, ad.port>> # key
        BY <2>2
    <2> QED
        BY <1>1, <2>3 DEF Good
<1> HIDE DEF new
<1>4. \A k \in DOMAIN new : IsDevice(new[k]) /\ NamedAlone(new[k])
    BY <1>1, <1>2 DEF Good
<1> QED
    BY <1>3, <1>4 DEF Good, new

LEMMA PutSignal ==
    ASSUME NEW byKey, NEW passed, Good(byKey, passed), NEW key, NEW rssi
    PROVE  Good([byKey EXCEPT ![key] = [@ EXCEPT !.rssi = rssi]], passed)
<1> DEFINE new == [byKey EXCEPT ![key] = [@ EXCEPT !.rssi = rssi]]
<1>1. /\ DOMAIN new = DOMAIN byKey
      /\ \A k \in DOMAIN byKey : new[k] = byKey[k] \/ new[k] = [byKey[k] EXCEPT !.rssi = rssi]
    OBVIOUS
<1> HIDE DEF new
<1>2. ASSUME NEW k \in DOMAIN new
      PROVE  /\ IsDevice(new[k]) /\ NamedAlone(new[k])
             /\ \A ad : IsDeviceOf(byKey[k], ad) => IsDeviceOf(new[k], ad)
    <2>1. IsDevice(byKey[k]) /\ NamedAlone(byKey[k])
        BY <1>1 DEF Good
    <2>2. CASE new[k] = byKey[k]
        BY <2>1, <2>2
    <2>3. CASE new[k] = [byKey[k] EXCEPT !.rssi = rssi]
        <3>1. /\ IsDevice(new[k])
              /\ NamedAlone(byKey[k]) => NamedAlone(new[k])
              /\ new[k].name = byKey[k].name /\ new[k].addr = byKey[k].addr /\ new[k].port = byKey[k].port
            BY <2>1, <2>3, OnlySignal
        <3> QED
            BY <2>1, <3>1 DEF IsDeviceOf
    <2> QED
        BY <1>1, <2>2, <2>3
<1> QED
    BY <1>1, <1>2 DEF Good, new

LEMMA TakeServiceStep ==
    ASSUME Inv, NEW ad \in Services, TakeService(ad)
    PROVE  Inv'
<1>1. /\ phase = "mdns" /\ phase' = "mdns" /\ services' = services /\ left' = left \ {ad}
      /\ services \subseteq Services /\ left \subseteq services /\ ad \in services
      /\ beacons' = beacons /\ best' = best /\ rows' = rows
    BY DEF Inv, KeysInv, TakeService, world
<1>2. Passed = services \ left /\ Passed' = Passed \cup {ad}
    BY <1>1 DEF Passed, TakeService
<1>3. acc' = [byKey |-> acc'.byKey, byName |-> acc'.byName] /\ Good(acc'.byKey, Passed')
    <2>1. CASE IsCollected(Found(ad))
        <3>1. PICK byName : acc' = [byKey |-> Extend(acc.byKey, <<ad.addr, ad.port>>, DeviceOf(ad)),
                                    byName |-> byName]
            BY <2>1, AddServiceIs DEF TakeService
        <3>2. Good(Extend(acc.byKey, <<ad.addr, ad.port>>, DeviceOf(ad)), Passed \cup {ad})
            BY <1>1, <1>2, <2>1, PutService DEF Inv, KeysInv
        <3> QED
            BY <1>2, <3>1, <3>2
    <2>2. CASE ~IsCollected(Found(ad))
        BY <1>2, <2>2 DEF TakeService, Inv, KeysInv, Good, WaysIn
    <2> QED
        BY <2>1, <2>2
<1>4. best = <<>> /\ DOMAIN best = {}
    BY <1>1 DEF Inv, RowsInv
<1> QED
    BY <1>1, <1>3, <1>4 DEF Inv, KeysInv, RowsInv

LEMMA TakeBeaconStep ==
    ASSUME Inv, NEW b \in Beacons,    TakeBeacon(b)
    PROVE  Inv'
<1>1. /\ phase = "ble" /\ phase' = "ble" /\ services' = services
      /\ beacons' = beacons /\ best' = best /\ rows' = rows
      /\ acc = [byKey |-> acc.byKey, byName |-> acc.byName] /\ services \subseteq Services
    BY DEF Inv, KeysInv, TakeBeacon, world
<1>2. Passed' = Passed /\ Passed \subseteq Services /\ Good(acc.byKey, Passed)
    BY <1>1 DEF Passed, Inv, KeysInv
<1>3. acc' = [byKey |-> acc'.byKey, byName |-> acc'.byName] /\ Good(acc'.byKey, Passed)
    <2>1. CASE acc' = acc
        BY <1>1, <1>2, <2>1
    <2>2. CASE acc' = AddBeacon(acc, b, mode, FALSE)
        <3>1. BeaconAdded(acc, b, acc')
            BY <1>1, <2>2, AddBeaconIs
        <3>2. CASE \E key, rssi : acc' = [byKey  |-> [acc.byKey EXCEPT ![key] = [@ EXCEPT !.rssi = rssi]],
                                          byName |-> acc.byName]
            <4>1. PICK key, rssi : acc' = [byKey  |-> [acc.byKey EXCEPT ![key] = [@ EXCEPT !.rssi = rssi]],
                                           byName |-> acc.byName]
                BY <3>2
            <4>2. Good([acc.byKey EXCEPT ![key] = [@ EXCEPT !.rssi = rssi]], Passed)
                BY <1>2, PutSignal
            <4> QED
                BY <4>1, <4>2
        <3>3. CASE \E rssi : acc' = [byKey  |-> Extend(acc.byKey, <<"ble", 0, b.id>>, BleDevice(b, rssi)),
                                     byName |-> acc.byName]
            BY <1>2, <3>3, PutBeacon
        <3> QED
            BY <2>1, <3>1, <3>2, <3>3 DEF BeaconAdded
    <2> QED
        BY <2>1, <2>2 DEF TakeBeacon
<1>4. best = <<>> /\ DOMAIN best = {}
    BY <1>1 DEF Inv, RowsInv
<1> QED
    BY <1>1, <1>2, <1>3, <1>4 DEF Inv, KeysInv, RowsInv

\* Steps from one loop to the next, and to the next refresh.
LEMMA PhaseStep ==
    ASSUME Inv, ServicesDone \/ BeaconsDone \/ DevicesDone
    PROVE  Inv'
<1>1. /\ acc' = acc /\ best' = best /\ services' = services /\ beacons' = beacons
      /\ phase' \in {"ble", "rows", "done"}
    BY DEF ServicesDone, BeaconsDone, DevicesDone, world
<1>2. Passed' = Passed
    BY <1>1 DEF Passed, ServicesDone, BeaconsDone, DevicesDone
<1>3. KeysInv'
    BY <1>1, <1>2 DEF Inv, KeysInv
<1>4. FoundDevices' = FoundDevices
    BY <1>1 DEF FoundDevices
<1>5. CASE ServicesDone
    BY <1>1, <1>3, <1>4, <1>5 DEF Inv, RowsInv, ServicesDone
<1>6. CASE BeaconsDone
    <2>1. DOMAIN best = {} /\ phase' = "rows" /\ left' = FoundDevices
        BY <1>6 DEF Inv, RowsInv, BeaconsDone, FoundDevices
    <2> QED
        BY <1>1, <1>3, <1>4, <2>1 DEF Inv, RowsInv
<1>7. CASE DevicesDone
    <2>1. phase = "rows" /\ phase' = "done" /\ left = {} /\ left' = {}
        BY <1>7 DEF DevicesDone
    <2>2. rows' \subseteq {best[key] : key \in DOMAIN best}
        BY <1>7 DEF DevicesDone, Listed
    <2> QED
        BY <1>1, <1>3, <1>4, <2>1, <2>2 DEF Inv, RowsInv
<1> QED
    BY <1>3, <1>5, <1>6, <1>7 DEF Inv

LEMMA RefreshAgainStep ==
    ASSUME Inv, RefreshAgain
    PROVE  Inv'
<1>1. /\ acc'.byKey = <<>> /\ acc' = [byKey |-> acc'.byKey, byName |-> acc'.byName]
      /\ phase' = "mdns" /\ left' = services /\ best' = <<>> /\ services' = services /\ beacons' = beacons
    BY DEF RefreshAgain, NoKeys, world
<1>2. FoundDevices' = {} /\ Passed' = {} /\ DOMAIN best' = {} /\ DOMAIN acc'.byKey = {}
    BY <1>1 DEF FoundDevices, Passed
<1> QED
    BY <1>1, <1>2 DEF Inv, KeysInv, Good, RowsInv

LEMMA TakeDeviceStep ==
    ASSUME Inv, NEW d \in left, TakeDevice(d)
    PROVE  Inv'
<1>1. /\ phase = "rows" /\ phase' = "rows" /\ services' = services /\ beacons' = beacons
      /\ acc' = acc /\ rows' = rows /\ left' = left \ {d} /\ best' = MergeRow(best, d)
    BY DEF TakeDevice, world
<1>2. Passed' = Passed /\ FoundDevices' = FoundDevices
    BY <1>1 DEF Passed, FoundDevices
<1>3. d \in FoundDevices /\ IsDevice(d)
    BY <1>1 DEF Inv, RowsInv, KeysInv, Good, FoundDevices
<1>4. /\ DOMAIN best' = DOMAIN best \cup {RowKey(d)}
      /\ \A key \in DOMAIN best' : IsDevice(best'[key]) /\ best'[key].name.id = key[1]
      /\ \A key \in DOMAIN best : IsReachable(best[key]) => IsReachable(best'[key])
      /\ IsReachable(d) => IsReachable(best'[RowKey(d)])
    <2>1. \A key \in DOMAIN best : IsDevice(best[key]) /\ best[key].name.id = key[1]
        BY DEF Inv, RowsInv
    <2>2. /\ DOMAIN MergeRow(best, d) = DOMAIN best \cup {RowKey(d)}
          /\ \A key \in DOMAIN MergeRow(best, d) :
                /\ IsDevice(MergeRow(best, d)[key])
                /\ MergeRow(best, d)[key].name.id = key[1]
          /\ \A key \in DOMAIN best : IsReachable(best[key]) => IsReachable(MergeRow(best, d)[key])
          /\ IsReachable(d) => IsReachable(MergeRow(best, d)[RowKey(d)])
        BY <1>3, <2>1, Merged
    <2> QED
        BY <1>1, <2>2
<1>5. KeysInv'
    BY <1>1, <1>2 DEF Inv, KeysInv
<1>6. \A e \in FoundDevices \ left' :
         RowKey(e) \in DOMAIN best' /\ (IsReachable(e) => IsReachable(best'[RowKey(e)]))
    BY <1>1, <1>4 DEF Inv, RowsInv
<1>7. \A key \in DOMAIN best' : \E e \in FoundDevices : key = RowKey(e)
    BY <1>3, <1>4 DEF Inv, RowsInv
<1>8. left' \subseteq FoundDevices
    BY <1>1 DEF Inv, RowsInv
<1> QED
    BY <1>1, <1>2, <1>4, <1>5, <1>6, <1>7, <1>8 DEF Inv, RowsInv

LEMMA RefreshInv == MergeSpec => []Inv
<1>1. Inv /\ [MergeNext]_mergeVars => Inv'
    <2> SUFFICES ASSUME Inv, [MergeNext]_mergeVars PROVE Inv'
        OBVIOUS
    <2>1. CASE MergeNext
        BY <2>1, TakeServiceStep, TakeBeaconStep, PhaseStep, TakeDeviceStep, RefreshAgainStep DEF MergeNext
    <2>2. CASE UNCHANGED mergeVars
        BY <2>2 DEF mergeVars, world, Inv, KeysInv, RowsInv, Passed, FoundDevices
    <2> QED
        BY <2>1, <2>2
<1> QED
    BY <1>1, InitInv, PTL DEF MergeSpec

-----------------------------------------------------------------------------
\* Whatever order the services, the beacons and the devices come in, the row
\* with the name of a service that has a way in has one (ui/mod.rs:1897-1949).
THEOREM WaysInAreKept == MergeSpec => []ReachableRowsStayReachable
<1>1. Inv => ReachableRowsStayReachable
    <2> SUFFICES ASSUME Inv, Done, NEW ad \in services \cap WaysIn, NEW d \in rows,
                        d.name = ListName(ad)
                 PROVE  IsReachable(d)
        BY DEF ReachableRowsStayReachable
    <2>1. PICK key \in DOMAIN best : d = best[key]
        BY DEF Inv, RowsInv, Done
    <2>2. key[1] = ListName(ad).id
        BY <2>1 DEF Inv, RowsInv
    <2>3. PICK other \in FoundDevices : key = RowKey(other)
        BY <2>1 DEF Inv, RowsInv
    <2>4. NamedAlone(other) /\ other.name.id = key[1]
        BY <2>3 DEF Inv, KeysInv, Good, FoundDevices, RowKey
    <2>5. key = <<ListName(ad).id, "">>
        BY <2>2, <2>3, <2>4 DEF NamedAlone
    <2>6. PICK e \in FoundDevices : IsDeviceOf(e, ad) /\ NamedAlone(e)
        BY DEF Inv, KeysInv, Good, FoundDevices, Done, Passed
    <2>7. IsReachable(e)
        BY <2>6 DEF IsDeviceOf, WaysIn, IsReachable, Found, ResolveDiscoveredDevice, Device
    <2>8. RowKey(e) = key
        BY <2>5, <2>6 DEF IsDeviceOf, NamedAlone
    <2>9. IsReachable(best[RowKey(e)])
        BY <2>7 DEF Inv, RowsInv, Done
    <2> QED
        BY <2>1, <2>8, <2>9
<1> QED
    BY <1>1, RefreshInv, PTL

=============================================================================
