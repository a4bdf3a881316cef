----------------------------- MODULE MCDesktop -----------------------------
(***************************************************************************)
(* Storage, Cabinet and RowMerge on a small instance.  A behaviour is of   *)
(* one of three sides.  The settings form, the modes and the firewall      *)
(* prompt, which touch no folder, are the settings' side, over files of    *)
(* older versions too; initialize(), with the certificate and Web Drop,    *)
(* and one change of the configuration, the license, are the cabinet's,    *)
(* with one guest known or both.  The rows of the list share nothing with  *)
(* the other two: theirs is a catalogue of what real devices advertise,    *)
(* with names that differ.                                                 *)
(***************************************************************************)
EXTENDS Cabinet, RowMerge

VARIABLE side

SettingsSide == (Start \/ Quit \/ ConfigStep) /\ UNCHANGED cabinetVars

CabinetSide ==
    \/ CabinetStep
    \/ /\ Quit \/ LicenseChanges \/ SplashTick(1) \/ SplashComplete(1) \/ BootStep
       /\ UNCHANGED cabinetVars

KnownGuests == {Whole([DefaultConfig(0) EXCEPT !.guests = ("g1" :> 1 @@ "g2" :> n)]) : n \in {Nil, 2}}

\* Nothing is near on a side that is not about the rows.
EmptyWorld == services = {} /\ beacons = {} /\ mode = "Everyone"

MCInit ==
    /\ side \in {"settings", "cabinet", "rows"}
    /\ side # "rows" => EmptyWorld
    /\ MergeInit
    /\ StorageInit(CASE side = "settings" -> {Nil} \cup OldFiles
                     [] side = "cabinet"  -> KnownGuests
                     [] side = "rows"     -> {Nil})
    /\ CabinetInit

MCNext ==
    /\ UNCHANGED side
    /\ \/ side = "settings" /\ SettingsSide /\ UNCHANGED mergeVars
       \/ side = "cabinet" /\ CabinetSide /\ UNCHANGED mergeVars
       \/ side = "rows" /\ MergeNext /\ UNCHANGED vars

MCSpec == MCInit /\ [][MCNext]_<<side, vars, mergeVars>>

\* The types of Storage and Cabinet.
TypeOK == StorageTypeOK /\ CabinetTypeOK

-----------------------------------------------------------------------------
(* The catalogue.                                                          *)

Chris == NameOf("chris", {"iphone"})
Studio == NameOf("studio", {})
Bench == NameOf("bench", {})
Lounge == NameOf("lounge", {})
Pixel == NameOf("pixel 8", {"pixel"})
Hex(id) == NameOf(id, {})

Ad(full, service, txtName, addr, port, txt) ==
    [full |-> full, service |-> service, txtName |-> txtName, addr |-> addr, port |-> port, txt |-> txt]

Phone1 == Ad(Chris, "Companion", None, "a1", 49152, [rpMd |-> "iphone"])
Phone2 == Ad(Chris, "AirPlay", None, "a1", 7000, [osvers |-> "semver"])
Mac1 == Ad(Hex("e3f1"), "AirDrop", None, "a2", 8770, <<>>)
Mac2 == Ad(Studio, "DeviceInfo", None, "a2", 0, [model |-> "macbook"])
Mac3 == Ad(Studio, "AirPlay", None, "a2", 7000, [model |-> "macbook", osvers |-> "macos"])
Mac4 == Ad(Studio, "Raop", None, "a2", 7000, [am |-> "macbook"])
Pc1 == Ad(Hex("77aa"), "AirDrop", Bench, "a3", 8770, [model |-> "windows"])
Pc2 == Ad(Hex("77aa"), "Companion", Bench, "a3", 8770, [rpMd |-> "windows"])
Tv == Ad(Lounge, "AirPlay", None, "a4", 7000, [model |-> "appletv"])
Own == Ad(Hex("0000"), "AirDrop", NameOf("me", {}), "a0", 8770, [model |-> "windows"])

Beacon_(id, name, apple, makers, phoneClass, rssi) ==
    [id |-> id, rssi |-> rssi,
     adv |-> [name |-> name, apple |-> apple, makers |-> makers, fastPair |-> FALSE,
              payload |-> FALSE, phoneClass |-> phoneClass]]

NearPhone == Beacon_("b1", NoName, <<16>>, {}, FALSE, -60)
NamedPhone == Beacon_("b2", Chris, <<16, 5>>, {}, FALSE, -50)
\* Beacons come under addresses that change: the same phone, seen before.
NamedPhone2 == Beacon_("b9", Chris, <<16, 5>>, {}, FALSE, -75)
Android == Beacon_("b3", Pixel, None, {}, FALSE, -70)
Android2 == Beacon_("b8", Pixel, None, {}, FALSE, -55)
Samsung == Beacon_("b4", NoName, None, {"samsung"}, FALSE, -70)
Tag == Beacon_("b5", NoName, <<18>>, {}, FALSE, -80)
Pods == Beacon_("b6", NoName, <<7>>, {}, FALSE, 0)

MCServices == {Phone1, Phone2, Mac1, Mac2, Mac3, Mac4, Pc1, Pc2, Tv, Own}
MCBeacons == {NearPhone, NamedPhone, NamedPhone2, Android, Android2, Samsung, Tag, Pods}
MCProbe == [ad \in MCServices |-> IF ad = Mac1 THEN Studio ELSE IF ad = Phone1 THEN None ELSE ad.txtName]

MCTrueKind == [x \in MCServices \cup MCBeacons |->
    CASE x \in {Phone1, Phone2, NearPhone, NamedPhone, NamedPhone2} -> "IPhone"
      [] x \in {Mac2, Mac3, Mac4} -> "MacBook"
      [] x \in {Pc1, Pc2} -> "WindowsPc"
      [] x = Tv -> "AppleTv"
      [] x \in {Android, Android2, Samsung} -> "AndroidPhone"
      [] x = Tag -> "AirTag"
      [] x = Pods -> "AirPods"
      [] OTHER -> "Unknown"]

=============================================================================
