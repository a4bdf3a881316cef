------------------------------- MODULE Storage -------------------------------
(***************************************************************************)
(* What a program that starts, is changed, crashes and starts again keeps: *)
(* config.toml (config.rs), the certificate of the HTTPS server and its    *)
(* key (protocols/tls_store.rs), and the start-up that reads them: run and *)
(* initialize (lib.rs), the splash screen and the firewall prompt          *)
(* (ui/mod.rs, network/firewall.rs).                                       *)
(*                                                                         *)
(* A file is truncated and then written, so a crash, or an error such as a *)
(* full disk, leaves any beginning of it.  Every save runs under the write *)
(* lock of the configuration and nothing reads the file while the program  *)
(* runs, so a handler is one step with the ways its save can end.          *)
(* The configuration of a program that is down is the one it ended with.   *)
(***************************************************************************)
EXTENDS Integers, Sequences, FiniteSets

CONSTANTS Nil,          \* no value, no file
          DeviceNames,  \* broadcast names; the host's own is among them
          HostName,
          Guests,       \* keys of webdrop_devices
          Folders,      \* sanitized folder names
          MaxStarts,    \* starts of the program (bound)
          MaxChanges,   \* changes of the configuration (bound)
          MaxFailures   \* crashes, writes that fail, kills (bound)

ASSUME StorageAssumption ==
    /\ HostName \in DeviceNames
    /\ Nil \notin DeviceNames /\ Nil \notin Folders
    /\ MaxStarts \in Nat /\ MaxChanges \in Nat /\ MaxFailures \in Nat

VARIABLES
    up,       \* the program runs
    cfg,      \* the shared configuration
    file,     \* config.toml: Nil, or the fields it has and their values
    ids,      \* device ids generated
    certFile, \* cert.der: Nil, Cut, or the number of its pair
    keyFile,  \* key.der
    pairs,    \* pairs generated
    boot,     \* where initialize() stands
    serving,  \* the pair the HTTPS server listens with, or Nil
    webDrop,  \* is_listening
    splash,   \* the splash screen is shown
    prompts,  \* each CheckFirewall, from SplashComplete to its end
    rules,    \* Windows has the program's firewall rule
    starts, changes, failures,
    owed      \* the memory has something the file has not (history)

configVars == <<cfg, file, ids, changes, owed>>
tlsVars == <<certFile, keyFile, pairs>>
bootVars == <<boot, serving, webDrop>>
splashVars == <<splash, prompts, rules>>
runVars == <<up, starts, failures>>
storageVars == <<runVars, configVars, tlsVars, bootVars, splashVars>>

\* The modes that differ in their flags, and one more that does not.
Modes == {"Everyone", "ContactsOnly", "ReceivingOff", "AppleDevices"}
Discoverable(mode) == mode # "ReceivingOff"
ContactsOnly(mode) == mode = "ContactsOnly"

\* The fields in the order of the file; the first cannot be missing.  name is
\* for all that the settings form has, id for the ids drawn at random.
FieldOrder == <<"name", "id", "discoverable", "contacts", "added", "dismissed",
                "mode", "guests", "license">>
Fields == {FieldOrder[i] : i \in DOMAIN FieldOrder}
FirstFields(n) == {FieldOrder[i] : i \in 1..n}

Ids == 1..(2 * MaxStarts)
Config == [name : DeviceNames, id : Ids \cup {0}, discoverable : BOOLEAN, contacts : BOOLEAN,
           added : BOOLEAN, dismissed : BOOLEAN, mode : Modes,
           guests : [Guests -> Folders \cup {Nil}], license : BOOLEAN]

\* A save that does not get to the end leaves whole lines; one that breaks off
\* in the first, or anywhere inside a line, leaves what nobody can parse.
File(c, has) == [has |-> has, of |-> c]
ConfigFiles == [has : SUBSET Fields, of : Config]
Whole(c) == File(c, Fields)
Unreadable(c) == File(c, {})
Beginnings(c) == {File(c, FirstFields(n)) : n \in 0..Len(FieldOrder)}

ASSUME NilAssumption == Nil \notin Nat /\ Nil \notin ConfigFiles

Slots == 1..2  \* SplashComplete arrives once or, when ticks pile up, again
PromptSteps == {"none", "complete", "check", "open", "added", "declined", "failed", "notNeeded"}
BootSteps == {"mdns", "tls", "bind", "webDrop", "done", "failed"}
Cut == 0
Pair == {Nil} \cup (Cut..MaxStarts)

StorageTypeOK ==
    /\ up \in BOOLEAN /\ owed \in BOOLEAN /\ splash \in BOOLEAN /\ rules \in BOOLEAN /\ webDrop \in BOOLEAN
    /\ cfg \in Config
    /\ file \in ConfigFiles \cup {Nil}
    /\ ids \in Ids \cup {0}
    /\ certFile \in Pair /\ keyFile \in Pair
    /\ pairs \in 0..MaxStarts
    /\ boot \in BootSteps
    /\ serving \in {Nil} \cup [cert : Pair, key : Pair]
    /\ prompts \in [Slots -> PromptSteps]
    /\ starts \in 0..MaxStarts /\ changes \in 0..MaxChanges /\ failures \in 0..MaxFailures

\* AppConfig::default() with the id it draws.
DefaultConfig(id) ==
    [name |-> HostName, id |-> id, discoverable |-> TRUE, contacts |-> FALSE,
     added |-> FALSE, dismissed |-> FALSE, mode |-> "Everyone",
     guests |-> [g \in Guests |-> Nil], license |-> FALSE]

\* What an older version wrote: flags, but no mode and none of the ids.
OldFields == {"name", "discoverable", "contacts"}
OldFiles ==
    {File([DefaultConfig(0) EXCEPT !.discoverable = Discoverable(mode), !.contacts = ContactsOnly(mode)],
          OldFields) : mode \in Modes}

\* files: what earlier runs may have left.
StorageInit(files) ==
    /\ up = FALSE
    /\ file \in files
    /\ cfg = DefaultConfig(0)
    /\ ids = 0 /\ pairs = 0
    /\ certFile = Nil /\ keyFile = Nil
    /\ boot = "failed" /\ serving = Nil /\ webDrop = FALSE
    /\ splash = FALSE /\ prompts = [i \in Slots |-> "none"] /\ rules = FALSE
    /\ starts = 0 /\ changes = 0 /\ failures = 0
    /\ owed = TRUE

-----------------------------------------------------------------------------
(* config.rs                                                               *)

CanFail == failures < MaxFailures

\* How the save of c ends: complete; with an error, the file as it was or cut;
\* or with a crash, which leaves the same.
Saved(c) == file' = Whole(c) /\ owed' = FALSE /\ UNCHANGED runVars

Interrupted(c) ==
    /\ CanFail /\ failures' = failures + 1
    /\ file' \in {file} \cup Beginnings(c)
    /\ owed' = TRUE

SaveFails(c) == Interrupted(c) /\ UNCHANGED <<up, starts>>
CrashInSave(c) == Interrupted(c) /\ up' = FALSE /\ UNCHANGED starts
Save(c) == Saved(c) \/ SaveFails(c) \/ CrashInSave(c)

\* set_discovery_mode.  Mutant: the flags stay behind.
ModeOnly(c, mode) == [c EXCEPT !.mode = mode]
SyncDiscoveryFlags(c, mode) ==
    [c EXCEPT !.mode = mode, !.discoverable = Discoverable(mode), !.contacts = ContactsOnly(mode)]

MigrateDiscoveryMode(c) ==
    SyncDiscoveryFlags(c,
        IF ~c.discoverable /\ c.mode = "Everyone" THEN "ReceivingOff"
        ELSE IF c.contacts /\ c.mode = "Everyone" THEN "ContactsOnly"
        ELSE c.mode)

\* The fields that are missing get their defaults; load migrates a second time,
\* which changes nothing.
Parsed(f, id) ==
    LET default == DefaultConfig(id)
    IN  MigrateDiscoveryMode([k \in Fields |-> IF k \in f.has THEN f.of[k] ELSE default[k]])

\* load(): a first start writes the defaults, and when that fails goes on with
\* others; a file nobody can parse is left alone, and so is one with gaps.
Load ==
    \/ /\ file = Nil
       /\ LET c == DefaultConfig(ids + 1)
          IN  \/ /\ file' = Whole(c) /\ cfg' = c /\ owed' = FALSE
                 /\ ids' = ids + 1 /\ up' = TRUE /\ UNCHANGED failures
              \/ /\ Interrupted(c) /\ up' \in BOOLEAN
                 /\ ids' = ids + 2 /\ cfg' = DefaultConfig(ids + 2)
    \/ /\ file # Nil
       /\ cfg' = IF "name" \in file.has THEN Parsed(file, ids + 1) ELSE DefaultConfig(ids + 1)
       /\ ids' = ids + 1 /\ owed' = (file.has # Fields) /\ up' = TRUE
       /\ UNCHANGED <<file, failures>>

Start ==
    /\ ~up /\ starts < MaxStarts
    /\ starts' = starts + 1
    /\ Load
    /\ boot' = "mdns" /\ serving' = Nil /\ webDrop' = FALSE
    /\ splash' = TRUE /\ prompts' = [i \in Slots |-> "none"]
    /\ UNCHANGED <<changes, tlsVars, rules>>

\* Quit from the tray or the window is exit(0), wherever the tasks stand.  So
\* ends a release build that panics, as sanitize_folder_name does when a label's
\* 48th byte is inside a character.
Quit ==
    /\ up /\ up' = FALSE
    /\ UNCHANGED <<starts, failures, configVars, tlsVars, bootVars, splashVars>>

-----------------------------------------------------------------------------
(* Changes of the configuration                                            *)

Change(c) ==
    /\ up /\ changes < MaxChanges
    /\ changes' = changes + 1
    /\ cfg' = c
    /\ Save(c)
    /\ UNCHANGED ids

SaveSettings(name) ==
    /\ ~splash
    /\ Change([cfg EXCEPT !.name = name])
    /\ UNCHANGED <<tlsVars, bootVars, splashVars>>

\* The filters need the license.
VisibilityChanged(mode) ==
    /\ ~splash /\ (mode = "AppleDevices" => cfg.license)
    /\ Change(SyncDiscoveryFlags(cfg, mode))
    /\ UNCHANGED <<tlsVars, bootVars, splashVars>>

\* ActivateLicense and DeactivateLicense do not look at how the save ended.
LicenseChanges ==
    /\ ~splash
    /\ Change([cfg EXCEPT !.license = ~@])
    /\ UNCHANGED <<tlsVars, bootVars, splashVars>>

-----------------------------------------------------------------------------
(* The splash screen and the firewall prompt                               *)

PromptGoes(i, from, to) ==
    /\ up /\ prompts[i] = from
    /\ prompts' = [prompts EXCEPT ![i] = to]

\* From the last tick on every tick sends SplashComplete, until it arrives.
SplashTick(i) ==
    /\ splash /\ (i = 2 => prompts[1] = "complete")
    /\ PromptGoes(i, "none", "complete")
    /\ UNCHANGED <<runVars, configVars, tlsVars, bootVars, splash, rules>>

SplashComplete(i) ==
    /\ PromptGoes(i, "complete", "check")
    /\ splash' = FALSE
    /\ UNCHANGED <<runVars, configVars, tlsVars, bootVars, rules>>

\* Nobody is asked who has answered, or whose firewall is off or has the rule.
CheckFirewall(i) ==
    /\ \/ (cfg.added \/ cfg.dismissed) /\ PromptGoes(i, "check", "none")
       \/ ~(cfg.added \/ cfg.dismissed) /\ PromptGoes(i, "check", "notNeeded")
       \/ ~(cfg.added \/ cfg.dismissed) /\ ~rules /\ PromptGoes(i, "check", "open")
    /\ UNCHANGED <<runVars, configVars, tlsVars, bootVars, splash, rules>>

\* The program's rule comes first, so an error may leave it.
PromptAnswered(i) ==
    /\ \/ PromptGoes(i, "open", "declined") /\ UNCHANGED rules
       \/ PromptGoes(i, "open", "added") /\ rules' = TRUE
       \/ PromptGoes(i, "open", "failed") /\ rules' \in {rules, TRUE}
    /\ UNCHANGED <<runVars, configVars, tlsVars, bootVars, splash>>

FirewallPromptComplete(i) ==
    /\ \/ /\ PromptGoes(i, "added", "none")
          /\ Change([cfg EXCEPT !.added = TRUE, !.dismissed = FALSE])
       \/ /\ PromptGoes(i, "declined", "none")
          /\ Change([cfg EXCEPT !.dismissed = TRUE])
       \/ /\ PromptGoes(i, "failed", "none") \/ PromptGoes(i, "notNeeded", "none")
          /\ UNCHANGED <<runVars, configVars>>
    /\ UNCHANGED <<tlsVars, bootVars, splash, rules>>

-----------------------------------------------------------------------------
(* initialize(), on a task of its own                                      *)

Boot(from, to) == up /\ boot = from /\ boot' = to

\* start_discovery, then the mDNS records; an error ends initialize().
StartDiscovery ==
    /\ Boot("mdns", "tls") \/ Boot("mdns", "failed")
    /\ UNCHANGED <<runVars, configVars, tlsVars, serving, webDrop, splashVars>>

\* The two files of pair p, written one after the other, when something fails.
CutPair(p) ==
    {<<Cut, keyFile>>, <<p, keyFile>>, <<p, Cut>>}

\* rustls looks at the key only; a certificate that is cut shows in handshakes.
LoadPair ==
    /\ certFile # Nil /\ keyFile # Nil
    /\ IF keyFile = Cut THEN Boot("tls", "failed") /\ UNCHANGED serving
       ELSE Boot("tls", "bind") /\ serving' = [cert |-> certFile, key |-> keyFile]
    /\ UNCHANGED <<runVars, tlsVars>>

\* Mutant: a file that is there is kept, only the missing one is written.
NewPairMissingOnly ==
    LET p == pairs + 1
    IN  /\ pairs' = p /\ Boot("tls", "bind")
        /\ certFile' = IF certFile = Nil THEN p ELSE certFile
        /\ keyFile' = IF keyFile = Nil THEN p ELSE keyFile
        /\ serving' = [cert |-> certFile', key |-> keyFile']
        /\ UNCHANGED runVars

NewPair ==
    LET p == pairs + 1
    IN  /\ pairs' = p /\ Boot("tls", "bind")
        /\ certFile' = p /\ keyFile' = p
        /\ serving' = [cert |-> p, key |-> p]
        /\ UNCHANGED runVars

\* A crash between or inside the two writes, or an error of one.
NewPairFails ==
    /\ up /\ boot = "tls" /\ CanFail
    /\ pairs' = pairs + 1
    /\ \E files \in CutPair(pairs + 1) : certFile' = files[1] /\ keyFile' = files[2]
    /\ failures' = failures + 1
    /\ up' \in BOOLEAN /\ boot' = "failed"
    /\ UNCHANGED <<serving, starts>>

LoadOrCreate ==
    /\ \/ LoadPair
       \/ (certFile = Nil \/ keyFile = Nil) /\ (NewPair \/ NewPairFails)
    /\ UNCHANGED <<configVars, webDrop, splashVars>>

\* Port 8770, for both families or for IPv4 only; an error, in a second copy of
\* the program for one, ends initialize() before Web Drop, BLE and AWDL.
BindServer ==
    /\ \/ Boot("bind", "webDrop") /\ UNCHANGED serving
       \/ Boot("bind", "failed") /\ serving' = Nil
    /\ UNCHANGED <<runVars, configVars, tlsVars, webDrop, splashVars>>

\* Web Drop's port, 8771, is a warning when it cannot be had.
StartWebDrop ==
    /\ Boot("webDrop", "done")
    /\ webDrop' \in BOOLEAN
    /\ UNCHANGED <<runVars, configVars, tlsVars, serving, splashVars>>

\* The configuration and the prompt, initialize(), and Quit.  Start is left to
\* Cabinet, which adds its part.
ConfigStep ==
    \/ \E name \in DeviceNames : SaveSettings(name)
    \/ \E mode \in Modes : VisibilityChanged(mode)
    \/ LicenseChanges
    \/ \E i \in Slots :
          SplashTick(i) \/ SplashComplete(i) \/ CheckFirewall(i) \/ PromptAnswered(i)
          \/ FirewallPromptComplete(i)

BootStep == StartDiscovery \/ LoadOrCreate \/ BindServer \/ StartWebDrop

StorageStep == Quit \/ ConfigStep \/ BootStep

-----------------------------------------------------------------------------
(* Properties                                                              *)

\* A program that starts has the settings, the name of every guest's folder, the
\* license, the ids and the answer about the firewall it had when it last ended,
\* whenever and however it ended, unless what it had was never completely saved:
\* its last save failed or was cut, or an older version's file was never
\* rewritten (save, load, migrate_discovery_mode).
RestartKeepsSettings ==
    [][~up /\ up' /\ ~owed => cfg' = cfg]_storageVars

\* Whatever start was interrupted inside or between the writes of the two files,
\* the server never listens with the certificate of one pair and the key of
\* another (load_or_create_server_config).
CertificateFitsKey ==
    up /\ serving # Nil => serving.cert = serving.key

=============================================================================
