----------------------------- MODULE DeviceKinds -----------------------------
(***************************************************************************)
(* What kind of device an advertisement comes from, and whether the radar  *)
(* shows it: the classification half of src/core/src/network/discovery.rs  *)
(* and the Apple beacon parser of ble.rs.                                  *)
(*                                                                         *)
(* The code searches names for words and models for prefixes.  A name is   *)
(* an identity with the set of the words the code would find in it; a      *)
(* model, an OS version or a label is the family the code recognises.      *)
(* TXT records are functions from the keys that are there to their values. *)
(***************************************************************************)
EXTENDS Naturals, SequencesExt

CONSTANT None          \* the absence of a value: Option::None

\* An advertised name: `id` stands for its lowercase text, "" for no name.
NameOf(id, words) == [id |-> id, words |-> words]
NoName == NameOf("", {})
Says(name, words) == name.words \cap words # {}

Txt(txt, key) == IF key \in DOMAIN txt THEN txt[key] ELSE None
Flag(txt, key) == key \in DOMAIN txt /\ txt[key] = "1"

\* The first value that is not None.
First(values) ==
    LET i == SelectInSeq(values, LAMBDA v : v # None)
    IN  IF i = 0 THEN None ELSE values[i]

-----------------------------------------------------------------------------
(* Kinds from one piece of evidence each.                                  *)

Families == [windows |-> "WindowsPc", iphone |-> "IPhone", ipad |-> "IPad", ipod |-> "IPod",
             watch |-> "AppleWatch", appletv |-> "AppleTv", audioaccessory |-> "AppleTv",
             macbook |-> "MacBook", imac |-> "IMac", mac |-> "MacDesktop"]

KindFromModel(model) == IF model \in DOMAIN Families THEN Families[model] ELSE None

IsAndroidPlatform(txt) == Txt(txt, "platform") = "android"

AndroidKind(class) ==
    [phone |-> "AndroidPhone", tablet |-> "AndroidTablet",
     watch |-> "AndroidWatch", tag |-> "AndroidTag"][class]

\* The first rule whose words are in the name.
Rule(rules, name, default) ==
    LET i == SelectInSeq(rules, LAMBDA rule : Says(name, rule[1]))
    IN  IF i = 0 THEN default ELSE rules[i][2]

\* classify_android_device_class; kind_from_android reads names the same way.
AndroidClass(name) ==
    Rule(<< <<{"watch", "wear os"}, "watch">>, <<{"tab", "pad", "sm-t"}, "tablet">>,
            <<{"tag", "tile", "tracker"}, "tag">> >>, name, "phone")

KindFromAndroid(name, txt) ==
    IF ~IsAndroidPlatform(txt) THEN None
    ELSE IF "device_class" \in DOMAIN txt
         THEN AndroidKind(txt["device_class"])
         ELSE AndroidKind(AndroidClass(name))

KindFromAccessory(label, name) ==
    CASE label = "AirPods"        -> "AirPods"
      [] label = "AirPlay device" -> "AppleTv"
      [] label = "Find My device" ->
            IF ~Says(name, {"airtag"}) /\ Says(name, {"iphone", "ipad", "macbook", "imac", "watch"})
            THEN "FindMyDevice" ELSE "AirTag"
      [] label = "Beacon"         -> "AirTag"
      [] OTHER                    -> None

\* The words kind_from_name looks for, in its order.  "watch" alone is not
\* enough when the name says "android".
NameKinds(name) == <<
    <<{"iphone"}, "IPhone">>, <<{"ipad"}, "IPad">>, <<{"ipod"}, "IPod">>,
    <<{"macbook"}, "MacBook">>, <<{"imac"}, "IMac">>,
    <<{"mac mini", "mac studio", "mac pro"}, "MacDesktop">>, <<{"apple watch"}, "AppleWatch">>,
    <<IF Says(name, {"android"}) THEN {} ELSE {"watch"}, "AppleWatch">>,
    <<{"apple tv"}, "AppleTv">>, <<{"airpods"}, "AirPods">>, <<{"airtag"}, "AirTag">>,
    <<{"find my"}, "FindMyDevice">>,
    <<{"pixel", "galaxy", "android", "oneplus", "xiaomi"}, AndroidKind(AndroidClass(name))>>,
    <<{"pc", "windows"}, "WindowsPc">> >>

KindFromName(name) == Rule(NameKinds(name), name, None)

KindFromMobilePresence(txt) ==
    LET class == IF "device_class" \in DOMAIN txt THEN txt["device_class"] ELSE "phone"
    IN  CASE IsAndroidPlatform(txt) -> AndroidKind(class)
          [] ~IsAndroidPlatform(txt) /\ (Flag(txt, "apple_presence") \/ Flag(txt, "anonymous")) ->
                IF class = "tablet" THEN "IPad" ELSE IF class = "watch" THEN "AppleWatch" ELSE "IPhone"
          [] OTHER -> "Unknown"

\* An empty value ends the search (the `?` of chars().next()); one that says
\* nothing is passed over.
KindFromOsVersion(txt) ==
    LET values == [k \in 1..3 |-> Txt(txt, <<"osvers", "OSVersion", "systemVersion">>[k])]
        i == SelectInSeq(values, LAMBDA v : v \in {"", "macos", "iphone", "ipad", "semver"})
    IN  IF i = 0 \/ values[i] = "" THEN None
        ELSE [macos |-> "MacDesktop", iphone |-> "IPhone", ipad |-> "IPad", semver |-> "IPhone"][values[i]]

-----------------------------------------------------------------------------
(* DiscoveredDevice: [name, addr, port, service, txt, rssi].               *)

ModelKeys == <<"model", "rpMd", "am", "usb_mdl", "rmodel", "modelName", "md">>

Kind(d) ==
    LET presence ==
            IF \/ Flag(d.txt, "anonymous") /\ (Flag(d.txt, "apple_presence") \/ Flag(d.txt, "airdrop_active"))
               \/ Flag(d.txt, "mobile_presence")
            THEN KindFromMobilePresence(d.txt) ELSE None
    IN  First(<<KindFromAndroid(d.name, d.txt),
                KindFromAccessory(Txt(d.txt, "accessory_label"), d.name)>>
              \o [i \in 1..Len(ModelKeys) |-> KindFromModel(Txt(d.txt, ModelKeys[i]))]
              \o <<KindFromOsVersion(d.txt), KindFromName(d.name), presence,
                   IF d.service = "IosMobile" THEN "IPhone" ELSE "Unknown">>)

AppleTransferKinds == {"IPhone", "IPad", "IPod", "MacBook", "IMac", "MacDesktop"}
AccessoryKinds == {"AirPods", "AirTag", "FindMyDevice"}
SonarPeerKinds == AppleTransferKinds \cup {"AndroidPhone", "AndroidTablet", "AndroidWatch", "WindowsPc"}
AndroidKinds == {"AndroidPhone", "AndroidTablet", "AndroidWatch", "AndroidTag"}
AirTagKinds == {"AirTag", "FindMyDevice"}

IsReachable(d) == d.addr # None /\ d.port > 0

IsMobileDevice(d) ==
    \/ Kind(d) \in {"IPhone", "IPad", "IPod", "AndroidPhone", "AndroidTablet", "AndroidWatch"}
    \/ Flag(d.txt, "mobile_presence")

IsSonarVisible(d, showAll) ==
    \/ showAll
    \/ /\ Kind(d) \notin AccessoryKinds \cup {"AppleTv"}
       /\ \/ Kind(d) \in SonarPeerKinds
          \/ Flag(d.txt, "mobile_presence")
          \/ IsReachable(d) /\ d.service \in {"AirDrop", "Companion", "DeviceInfo"}

HasAppleMobileHint(d) ==
    \/ Flag(d.txt, "apple_presence")
    \/ Flag(d.txt, "mobile_presence") /\ ~IsAndroidPlatform(d.txt)

MatchesFilter(d, filter, showAll) ==
    CASE filter = "All"     -> IsSonarVisible(d, showAll)
      [] filter = "Apple"   -> \/ Kind(d) \in AppleTransferKinds
                               \/ Kind(d) = "Unknown" /\ HasAppleMobileHint(d)
      [] filter = "Android" -> Kind(d) \in AndroidKinds
      [] filter = "AirTags" -> Kind(d) \in AirTagKinds

-----------------------------------------------------------------------------
(* What a BLE advertisement says.  Advertisement: [name, apple, makers,    *)
(* fastPair, payload, phoneClass]; `apple` is the sequence of Continuity   *)
(* message types, or None without Apple data.                              *)

PresenceTypes == {16, 12, 15, 14, 11, 13}

\* The last Find My message wins over every label, the others keep the first.
Accessory(types) ==
    LET Label(label, type) ==
            CASE type = 18 -> "Find My device"
              [] type = 7  -> IF label = None THEN "AirPods" ELSE label
              [] type = 2  -> IF label = None THEN "Beacon" ELSE label
              [] type = 10 -> IF label = None THEN "AirPlay device" ELSE label
              [] OTHER     -> label
    IN  FoldLeft(Label, None, types)

ParseAppleBeacon(types) ==
    LET device == ToSet(types) \cap (PresenceTypes \cup {5}) # {}
    IN  [apple    |-> TRUE,
         airdrop  |-> 5 \in ToSet(types),
         presence |-> ToSet(types) \cap PresenceTypes # {},
         label    |-> IF device THEN None ELSE Accessory(types)]

Beacon(adv) ==
    IF adv.apple = None
    THEN [apple |-> FALSE, airdrop |-> FALSE, presence |-> FALSE, label |-> None]
    ELSE ParseAppleBeacon(adv.apple)

AndroidHints == {"pixel", "galaxy", "android", "oneplus", "xiaomi", "sm-", "motorola", "oppo",
                 "vivo", "realme", "nothing phone", "huawei", "honor"}

Profile(mobile, platform, class) == [mobile |-> mobile, platform |-> platform, class |-> class]
NoProfile == Profile(FALSE, None, "")

\* ble_mobile_profile.  The last test of the code (a name with an Android hint)
\* repeats what android_class_from_ble has answered already.
BleMobileProfile(adv) ==
    LET beacon == Beacon(adv)
        class  == AndroidClass(adv.name)
    IN  CASE beacon.label # None -> NoProfile
          [] beacon.label = None /\ (beacon.presence \/ beacon.airdrop) ->
                Profile(TRUE, "apple", IF Says(adv.name, {"ipad"}) THEN "tablet" ELSE "phone")
          [] OTHER ->
                IF adv.makers # {} \/ Says(adv.name, AndroidHints)
                THEN Profile(class # "tag", "android", class)
                ELSE IF adv.fastPair \/ adv.payload THEN Profile(TRUE, "android", class)
                ELSE IF adv.phoneClass THEN Profile(TRUE, None, "phone")
                ELSE NoProfile

\* The scan loop keeps Apple devices that say something, and mobile peers.
IsKept(adv) ==
    LET beacon == Beacon(adv)
    IN  /\ beacon.apple \/ BleMobileProfile(adv).mobile
        /\ \/ beacon.airdrop \/ beacon.presence \/ beacon.label # None
           \/ BleMobileProfile(adv).mobile \/ adv.name # NoName

=============================================================================
