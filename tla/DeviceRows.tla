----------------------------- MODULE DeviceRows ------------------------------
(***************************************************************************)
(* How one refresh turns what mDNS and BLE have found into the rows of the *)
(* device list: fetch_devices of src/core/src/ui/mod.rs, with the part of  *)
(* discovery.rs that makes a device of a resolved service.                 *)
(*                                                                         *)
(* The code keeps its intermediate results in hash maps, which it walks in *)
(* an order of their own; the operators here take one element at a time,   *)
(* and whoever uses them chooses the order.                                *)
(***************************************************************************)
EXTENDS DeviceKinds, Integers

CONSTANTS OurName,     \* our broadcast name and our host name, lowercase
          OurHost,
          OurAddr      \* primary_ipv4

Extend(f, key, value) == [k \in DOMAIN f \cup {key} |-> IF k = key THEN value ELSE f[k]]

-----------------------------------------------------------------------------
(* mDNS.  Ad: [full, service, txtName, addr, port, txt]; `full` is the     *)
(* NameOf the instance label of the fullname, txtName the TXT "name".      *)

Device(name, addr, port, service, txt, rssi) ==
    [name |-> name, addr |-> addr, port |-> port, service |-> service, txt |-> txt, rssi |-> rssi]

ResolveDiscoveredDevice(ad) ==
    Device(IF ad.txtName = None \/ ad.txtName = NoName THEN ad.full ELSE ad.txtName,
           ad.addr, ad.port, ad.service, ad.txt, None)

IsLocalDevice(d) ==
    /\ OurHost # ""
    /\ d.name.id = OurHost \/ Says(d.name, {"airdropd"}) \/ d.addr = OurAddr

IsCollected(d) ==
    /\ ~IsLocalDevice(d)
    /\ d.name # NoName /\ d.name.id # OurName
    /\ d.addr # OurAddr

IsProbed(d) == d.service \in {"AirDrop", "Companion"} /\ IsReachable(d)

\* What is being put together: devices by endpoint, endpoints by name.
NoKeys == [byKey |-> <<>>, byName |-> <<>>]

\* A service that was probed has the name the probe found, if it found one.
AddService(acc, d, probed) ==
    LET named == IF IsProbed(d) /\ probed # None THEN [d EXCEPT !.name = probed] ELSE d
        key   == <<d.addr, d.port>>
    IN  [byKey  |-> Extend(acc.byKey, key, named),
         byName |-> IF d.port > 0 THEN Extend(acc.byName, named.name.id, key) ELSE acc.byName]

-----------------------------------------------------------------------------
(* BLE.  Seen: [id, adv, rssi], a device of get_discovered_devices.        *)

\* The scan keeps no advertisement that would reach the code's other branches.
BleTxt(id, adv) ==
    LET beacon  == Beacon(adv)
        profile == BleMobileProfile(adv)
        If(condition, value) == IF condition THEN value ELSE None
        values  == [ble_id          |-> id,
                    anonymous       |-> If(adv.name = NoName, "1"),
                    airdrop_active  |-> If(beacon.airdrop, "1"),
                    accessory_label |-> beacon.label,
                    mobile_presence |-> If(profile.mobile, "1"),
                    device_class    |-> If(profile.mobile, profile.class),
                    platform        |-> If(profile.platform = "android", "android"),
                    apple_presence  |-> If(profile.platform = "apple", "1")]
    IN  [key \in {k \in DOMAIN values : values[k] # None} |-> values[key]]

\* A nameless advertisement is named for its kind and a suffix made of its id.
KindWords(adv) ==
    LET label   == Beacon(adv).label
        profile == BleMobileProfile(adv)
    IN  CASE label = "AirPods"        -> {"airpods"}
          [] label = "Find My device" -> {"find my"}
          [] label \in {"Beacon", "AirPlay device"} -> {}
          [] profile.platform = "apple" -> IF profile.class = "tablet" THEN {"ipad"} ELSE {"iphone"}
          [] profile.platform = "android" ->
                {"android"} \cup (CASE profile.class = "tablet" -> {"tab"}
                                    [] profile.class = "watch"  -> {"watch"}
                                    [] OTHER                    -> {})
          [] OTHER -> {}

BleName(id, adv) == IF adv.name # NoName THEN adv.name ELSE NameOf(id, KindWords(adv))

AddBeacon(acc, b, mode, showAll) ==
    LET rssi    == IF b.rssi = 0 THEN None ELSE b.rssi
        name    == b.adv.name
        onWiFi  == name # NoName /\ name.id \in DOMAIN acc.byName
        key     == <<"ble", 0, b.id>>
        wanted  == Beacon(b.adv).label = None \/ mode = "AirTags" \/ showAll
    IN  CASE name # NoName /\ name.id = OurName -> acc
          [] onWiFi /\ name.id # OurName ->
                [acc EXCEPT !.byKey[acc.byName[name.id]].rssi = rssi]
          [] ~onWiFi /\ wanted /\ (name = NoName \/ name.id # OurName) ->
                [acc EXCEPT !.byKey = Extend(@, key,
                    Device(BleName(b.id, b.adv), None, 0, "AirDrop", BleTxt(b.id, b.adv), rssi))]
          [] OTHER -> acc

-----------------------------------------------------------------------------
(* One row per name.                                                       *)

RowKey(d) ==
    <<d.name.id, IF Flag(d.txt, "anonymous") /\ "ble_id" \in DOMAIN d.txt THEN d.txt["ble_id"] ELSE "">>

ServiceRank(service) ==
    LET ranks == [AirDrop |-> 0, Companion |-> 1, DeviceInfo |-> 2, AirPlay |-> 3, Raop |-> 4]
    IN  IF service \in DOMAIN ranks THEN ranks[service] ELSE 5

\* A mutant: a Bluetooth row of a better service hides the way in.
RankByService(d) == ServiceRank(d.service)

Rank(d) == ServiceRank(d.service) + IF IsReachable(d) THEN 0 ELSE 16

\* A mutant: the signal of whatever came last.
LatestSignal(a, b) == IF a = None THEN b ELSE a

Stronger(a, b) == IF a = None THEN b ELSE IF b = None THEN a ELSE Max({a, b})

\* A mutant: the TXT records of the service that is not kept are lost.
MergeRowLosesTxt(best, d) ==
    LET key == RowKey(d)
        old == best[key]
        kept == IF Rank(d) < Rank(old) THEN d ELSE old
    IN  IF key \notin DOMAIN best THEN Extend(best, key, d)
        ELSE [best EXCEPT ![key] = [kept EXCEPT !.rssi = Stronger(d.rssi, old.rssi)]]

\* The records of both; where they differ, those that were there first.
Joined(old, new) ==
    [k \in DOMAIN old \cup DOMAIN new |-> IF k \in DOMAIN old THEN old[k] ELSE new[k]]

MergeRow(best, d) ==
    LET key == RowKey(d)
        old == best[key]
        kept == IF Rank(d) < Rank(old) THEN d ELSE old
    IN  IF key \notin DOMAIN best THEN Extend(best, key, d)
        ELSE [best EXCEPT ![key] = Device(kept.name, kept.addr, kept.port, kept.service,
                                           Joined(old.txt, d.txt), Stronger(d.rssi, old.rssi))]

DeviceFilter(mode) ==
    CASE mode = "AppleDevices"   -> "Apple"
      [] mode = "AndroidDevices" -> "Android"
      [] mode = "AirTags"        -> "AirTags"
      [] OTHER                   -> "All"

\* Speakers and televisions that only play audio go, and what the filter hides.
Listed(best, mode, showAll) ==
    {d \in {best[key] : key \in DOMAIN best} :
        /\ d.service \in {"AirPlay", "Raop"} => IsMobileDevice(d)
        /\ MatchesFilter(d, DeviceFilter(mode), showAll)}

=============================================================================
