---------------------------- MODULE DesktopProofs ----------------------------
(***************************************************************************)
(* What outlives the program, for any devices, guests and folders and any  *)
(* number of starts, changes and failures: the configuration, the pair of  *)
(* certificate and key, and the one folder of each guest.  And that no dropped *)
(* file is lost, sent twice or parted from those it was dropped with, for any *)
(* number of files, dialogs and devices.                                   *)
(***************************************************************************)
EXTENDS Cabinet, Drops, FiniteSetTheorems, TLAPS

(* Storage and cabinet *)

ConfigType ==
    /\ up \in BOOLEAN /\ owed \in BOOLEAN
    /\ cfg \in Config
    /\ file \in ConfigFiles \cup {Nil}
    /\ ids \in Nat /\ ids <= 2 * starts
    /\ starts \in 0..MaxStarts /\ changes \in 0..MaxChanges /\ failures \in 0..MaxFailures

\* A pair is generated once in a start.
BootType ==
    /\ certFile \in Pair /\ keyFile \in Pair
    /\ pairs \in Nat /\ pairs <= starts
    /\ up /\ boot \in {"mdns", "tls"} => pairs < starts
    /\ boot \in BootSteps
    /\ serving \in {Nil} \cup [cert : Pair, key : Pair]
    /\ webDrop \in BOOLEAN

PromptType ==
    /\ splash \in BOOLEAN /\ rules \in BOOLEAN
    /\ prompts \in [Slots -> PromptSteps]

TypeInv == ConfigType /\ BootType /\ PromptType

\* The flags of an older version agree with the mode.
InStep(c) == c.discoverable = Discoverable(c.mode) /\ c.contacts = ContactsOnly(c.mode)

\* What the program has, or ended with, is what it will load from the file,
\* unless something is owed to it.
KeptInv ==
    /\ starts = 0 => ~up /\ owed
    /\ starts > 0 => InStep(cfg)
    /\ ~owed => file # Nil /\ file.has = Fields /\ MigrateDiscoveryMode(file.of) = cfg

\* The key is written after the certificate it belongs to.
TlsInv ==
    /\ keyFile # Nil => certFile # Nil
    /\ keyFile \notin {Nil, Cut} => certFile = keyFile
    /\ serving # Nil => serving.cert = serving.key

\* Before the first start the folders are those of the file; after it those of
\* the configuration, also while the program is down.
GuestsInv ==
    /\ filesIn \in [Guests -> SUBSET Folders]
    /\ starts = 0 =>
          \/ file = Nil /\ \A g \in Guests : filesIn[g] = {}
          \/ /\ file # Nil /\ "name" \in file.has
             /\ \A g \in Guests : filesIn[g] \subseteq {file.of.guests[g]}
             /\ "guests" \notin file.has => \A g \in Guests : filesIn[g] = {}
    /\ starts > 0 /\ ~parted => \A g \in Guests : filesIn[g] \subseteq {cfg.guests[g]}

-----------------------------------------------------------------------------
(* Configurations and files                                                *)

LEMMA FieldsAre ==
    Fields = {"name", "id", "discoverable", "contacts", "added", "dismissed",
              "mode", "guests", "license"}
<1>1. DOMAIN FieldOrder = 1..9
    BY DEF FieldOrder
<1>2. 1..9 = {1, 2, 3, 4, 5, 6, 7, 8, 9}
    OBVIOUS
<1>3. Fields = {FieldOrder[1], FieldOrder[2], FieldOrder[3], FieldOrder[4], FieldOrder[5],
                FieldOrder[6], FieldOrder[7], FieldOrder[8], FieldOrder[9]}
    BY <1>1, <1>2 DEF Fields
<1> QED
    BY <1>3 DEF FieldOrder

LEMMA FilesAre ==
    ASSUME NEW c \in Config
    PROVE  /\ Whole(c) \in ConfigFiles /\ Whole(c) # Nil
           /\ Beginnings(c) \subseteq ConfigFiles
<1>1. \A n \in 0..Len(FieldOrder) : FirstFields(n) \subseteq Fields
    BY DEF FieldOrder, Fields, FirstFields
<1> QED
    BY <1>1, NilAssumption DEF Whole, Beginnings, File, ConfigFiles

LEMMA DefaultIs ==
    ASSUME NEW id \in Ids \cup {0}
    PROVE  DefaultConfig(id) \in Config /\ InStep(DefaultConfig(id))
BY StorageAssumption DEF DefaultConfig, Config, InStep, Modes, Discoverable, ContactsOnly

LEMMA Synced ==
    ASSUME NEW c \in Config, NEW mode \in Modes
    PROVE  /\ SyncDiscoveryFlags(c, mode) \in Config
           /\ InStep(SyncDiscoveryFlags(c, mode))
           /\ SyncDiscoveryFlags(c, mode).guests = c.guests
BY DEF SyncDiscoveryFlags, Config, InStep, Discoverable, ContactsOnly

LEMMA Migrated ==
    ASSUME NEW c \in Config
    PROVE  /\ MigrateDiscoveryMode(c) \in Config
           /\ InStep(MigrateDiscoveryMode(c))
           /\ MigrateDiscoveryMode(c).guests = c.guests
           /\ InStep(c) => MigrateDiscoveryMode(c) = c
<1> DEFINE mode == IF ~c.discoverable /\ c.mode = "Everyone" THEN "ReceivingOff"
                   ELSE IF c.contacts /\ c.mode = "Everyone" THEN "ContactsOnly"
                   ELSE c.mode
<1>1. mode \in Modes /\ MigrateDiscoveryMode(c) = SyncDiscoveryFlags(c, mode)
    BY DEF MigrateDiscoveryMode, Modes, Config
<1>2. InStep(c) => mode = c.mode
    BY DEF InStep, Discoverable, ContactsOnly
<1>3. InStep(c) => SyncDiscoveryFlags(c, c.mode) = c
    BY DEF InStep, SyncDiscoveryFlags, Config
<1> HIDE DEF mode
<1> QED
    BY <1>1, <1>2, <1>3, Synced

\* What is read is whole, migrated, or has the default where a field is missing.
LEMMA ParsedIs ==
    ASSUME NEW f \in ConfigFiles, NEW id \in Ids
    PROVE  /\ Parsed(f, id) \in Config /\ InStep(Parsed(f, id))
           /\ f.has = Fields => Parsed(f, id) = MigrateDiscoveryMode(f.of)
           /\ "guests" \in f.has => Parsed(f, id).guests = f.of.guests
<1> DEFINE c == [k \in Fields |-> IF k \in f.has THEN f.of[k] ELSE DefaultConfig(id)[k]]
<1>1. f.of \in Config /\ DefaultConfig(id) \in Config
    BY DefaultIs DEF ConfigFiles
<1>2. c \in Config
    BY <1>1, FieldsAre DEF Config
<1>3. f.has = Fields => c = f.of
    BY <1>1, FieldsAre DEF Config
<1>4. "guests" \in f.has => c.guests = f.of.guests
    BY FieldsAre
<1>5. Parsed(f, id) = MigrateDiscoveryMode(c)
    BY DEF Parsed
<1> HIDE DEF c
<1> QED
    BY <1>2, <1>3, <1>4, <1>5, Migrated

-----------------------------------------------------------------------------
(* The configuration and its file                                          *)

StorageInv == TypeInv /\ KeptInv /\ TlsInv

\* However the save of a configuration ends, the file is of that configuration,
\* or something is owed to it.
LEMMA SaveKeeps ==
    ASSUME TypeInv, NEW c \in Config, Save(c)
    PROVE  /\ file' \in ConfigFiles \cup {Nil} /\ owed' \in BOOLEAN
           /\ failures' \in 0..MaxFailures /\ starts' = starts
           /\ up' \in BOOLEAN /\ (up' => up)
           /\ ~owed' => file' = Whole(c)
           /\ ~owed' => up' = up
<1>1. CASE Saved(c)
    BY <1>1, FilesAre DEF Saved, runVars, TypeInv, ConfigType
<1>2. CASE Interrupted(c) /\ starts' = starts /\ (up' = up \/ up' = FALSE)
    <2>1. owed' = TRUE
        BY <1>2 DEF Interrupted
    <2>2. failures' \in 0..MaxFailures
        BY <1>2, StorageAssumption DEF Interrupted, CanFail, TypeInv, ConfigType
    <2>3. file' \in ConfigFiles \cup {Nil}
        BY <1>2, FilesAre DEF Interrupted, TypeInv, ConfigType
    <2>4. up' \in BOOLEAN /\ (up' => up)
        <3>1. CASE up' = up
            BY <3>1 DEF TypeInv, ConfigType
        <3>2. CASE up' = FALSE
            BY <3>2
        <3> QED
            BY <1>2, <3>1, <3>2
    <2> QED
        BY <1>2, <2>1, <2>2, <2>3, <2>4
<1> QED
    BY <1>1, <1>2 DEF Save, SaveFails, CrashInSave

LEMMA ChangeKeeps ==
    ASSUME StorageInv, NEW c \in Config, InStep(c), Change(c)
    PROVE  ConfigType' /\ KeptInv' /\ starts' = starts /\ starts > 0 /\ (up' => up)
<1>1. /\ up /\ cfg' = c /\ ids' = ids
      /\ changes' \in 0..MaxChanges /\ Save(c)
    BY StorageAssumption DEF Change, StorageInv, TypeInv, ConfigType
<1>2. starts > 0 /\ starts \in Nat
    BY <1>1 DEF StorageInv, KeptInv, TypeInv, ConfigType
<1>3. ConfigType'
    BY <1>1, SaveKeeps DEF StorageInv, TypeInv, ConfigType
<1>4. Whole(c) # Nil /\ Whole(c).has = Fields /\ MigrateDiscoveryMode(Whole(c).of) = c
    BY FilesAre, Migrated DEF Whole, File
<1>5. KeptInv'
    BY <1>1, <1>2, <1>4, SaveKeeps DEF StorageInv, KeptInv
<1> QED
    BY <1>1, <1>2, <1>3, <1>5, SaveKeeps DEF StorageInv

\* Steps that leave the configuration alone, and end the program at most.
LEMMA ConfigUntouched ==
    ASSUME StorageInv, UNCHANGED configVars, starts' = starts,
           failures' \in 0..MaxFailures, up' \in BOOLEAN, up' => up
    PROVE  ConfigType' /\ KeptInv'
<1>1. ConfigType'
    BY DEF StorageInv, TypeInv, ConfigType, configVars
<1>2. KeptInv'
    BY DEF StorageInv, KeptInv, configVars
<1> QED
    BY <1>1, <1>2

\* The same of the certificate and of initialize().
LEMMA BootUntouched ==
    ASSUME StorageInv, UNCHANGED <<tlsVars, bootVars>>, starts' = starts, up' => up
    PROVE  BootType' /\ TlsInv'
BY DEF StorageInv, TypeInv, BootType, TlsInv, tlsVars, bootVars

LEMMA LoadKeeps ==
    ASSUME StorageInv, ~up, starts < MaxStarts, starts' = starts + 1, changes' = changes, Load
    PROVE  /\ ConfigType' /\ KeptInv'
           /\ ~owed => cfg' = cfg
           /\ file = Nil => cfg'.guests = [g \in Guests |-> Nil]
           /\ file # Nil /\ "name" \in file.has =>
                 /\ "guests" \in file.has => cfg'.guests = file.of.guests
<1> USE StorageAssumption DEF StorageInv, TypeInv
<1>1. ids + 1 \in Ids /\ ids + 2 \in Ids /\ ids + 2 <= 2 * starts' /\ starts' \in 1..MaxStarts /\ ids \in Nat
    BY DEF ConfigType, Ids
<1>2. changes' \in 0..MaxChanges
    BY DEF ConfigType
<1>3. ASSUME NEW c \in Config, file = Nil, cfg' = c, InStep(c), c.guests = [g \in Guests |-> Nil],
             ids' \in {ids + 1, ids + 2}, up' \in BOOLEAN,
             failures' \in 0..MaxFailures, owed' \in BOOLEAN,
             ~owed' => file' = Whole(c), file' \in ConfigFiles \cup {Nil}
      PROVE  /\ ConfigType' /\ KeptInv'
             /\ ~owed => cfg' = cfg
             /\ cfg'.guests = [g \in Guests |-> Nil]
    <2>1. ConfigType'
        BY <1>1, <1>2, <1>3 DEF ConfigType
    <2>2. Whole(c) # Nil /\ Whole(c).has = Fields /\ MigrateDiscoveryMode(Whole(c).of) = c
        BY <1>3, FilesAre, Migrated DEF Whole, File
    <2>3. KeptInv'
        BY <1>1, <1>3, <2>2 DEF KeptInv
    <2> QED
        BY <1>3, <2>1, <2>3 DEF KeptInv
<1>4. CASE /\ file = Nil
           /\ file' = Whole(DefaultConfig(ids + 1)) /\ cfg' = DefaultConfig(ids + 1) /\ owed' = FALSE
           /\ ids' = ids + 1 /\ up' = TRUE /\ UNCHANGED failures
    <2>1. failures' \in 0..MaxFailures
        BY <1>4 DEF ConfigType
    <2>2. DefaultConfig(ids + 1).guests = [g \in Guests |-> Nil]
        BY DEF DefaultConfig
    <2> QED
        BY <1>1, <1>3, <1>4, <2>1, <2>2, DefaultIs, FilesAre
<1>5. CASE /\ file = Nil
           /\ Interrupted(DefaultConfig(ids + 1)) /\ up' \in BOOLEAN
           /\ ids' = ids + 2 /\ cfg' = DefaultConfig(ids + 2)
    <2>1. failures' \in 0..MaxFailures /\ owed' = TRUE
        BY <1>5 DEF ConfigType, Interrupted, CanFail
    <2>2. DefaultConfig(ids + 2).guests = [g \in Guests |-> Nil]
        BY DEF DefaultConfig
    <2>3. file' \in ConfigFiles \cup {Nil}
        BY <1>1, <1>5, DefaultIs, FilesAre DEF Interrupted
    <2> QED
        BY <1>1, <1>3, <1>5, <2>1, <2>2, <2>3, DefaultIs
<1>6. CASE /\ file # Nil
           /\ cfg' = IF "name" \in file.has THEN Parsed(file, ids + 1) ELSE DefaultConfig(ids + 1)
           /\ ids' = ids + 1 /\ owed' = (file.has # Fields) /\ up' = TRUE
           /\ UNCHANGED <<file, failures>>
    <2>1. file \in ConfigFiles
        BY <1>6 DEF ConfigType
    <2>2. cfg' \in Config /\ InStep(cfg')
        BY <1>1, <1>6, <2>1, ParsedIs, DefaultIs
    <2>3. ConfigType'
        BY <1>1, <1>2, <1>6, <2>2 DEF ConfigType
    <2>4. file.has = Fields => cfg' = MigrateDiscoveryMode(file.of)
        BY <1>1, <1>6, <2>1, ParsedIs, FieldsAre
    <2>5. KeptInv'
        <3>1. ~owed' => file.has = Fields
            BY <1>6
        <3> QED
            BY <1>1, <1>6, <2>2, <2>4, <3>1 DEF KeptInv
    <2>6. ~owed => cfg' = cfg
        BY <2>4 DEF KeptInv
    <2>7. "name" \in file.has /\ "guests" \in file.has => cfg'.guests = file.of.guests
        BY <1>1, <1>6, <2>1, ParsedIs
    <2> QED
        BY <1>6, <2>3, <2>5, <2>6, <2>7
<1> QED
    BY <1>4, <1>5, <1>6 DEF Load

LEMMA StartKeeps ==
    ASSUME StorageInv, Start
    PROVE  StorageInv'
<1>1. ConfigType' /\ KeptInv'
    BY LoadKeeps DEF Start
<1>2. /\ boot' = "mdns" /\ serving' = Nil /\ webDrop' = FALSE /\ starts' = starts + 1
      /\ splash' = TRUE /\ prompts' = [i \in Slots |-> "none"]
      /\ UNCHANGED <<tlsVars, rules>>
    BY DEF Start
<1>3. BootType'
    <2>1. starts' \in Nat /\ pairs' \in Nat /\ pairs' < starts'
        BY <1>2 DEF StorageInv, TypeInv, ConfigType, BootType, tlsVars
    <2> QED
        <3>1. certFile' \in Pair /\ keyFile' \in Pair /\ boot' \in BootSteps
            BY <1>2 DEF StorageInv, TypeInv, BootType, tlsVars, BootSteps
        <3>2. webDrop' \in BOOLEAN /\ serving' = Nil
            BY <1>2
        <3>3. pairs' <= starts'
            BY <2>1
        <3> QED
            BY <2>1, <3>1, <3>2, <3>3 DEF BootType
<1>5. TlsInv'
    BY <1>2 DEF StorageInv, TlsInv, tlsVars
<1>4. PromptType'
    BY <1>2 DEF StorageInv, TypeInv, PromptType, PromptSteps
<1> QED
    BY <1>1, <1>3, <1>4, <1>5 DEF StorageInv, TypeInv

-----------------------------------------------------------------------------
(* The other steps                                                         *)

\* A change by a handler that leaves the certificate and initialize() alone.
LEMMA HandlerKeeps ==
    ASSUME StorageInv, NEW c \in Config, InStep(c), Change(c),
           UNCHANGED <<tlsVars, bootVars>>, PromptType'
    PROVE  StorageInv'
BY ChangeKeeps, BootUntouched DEF StorageInv, TypeInv

\* A step that changes neither, nor ends anything but the program.
LEMMA OtherKeeps ==
    ASSUME StorageInv, UNCHANGED <<configVars, tlsVars, bootVars>>, starts' = starts,
           failures' \in 0..MaxFailures, up' \in BOOLEAN, up' => up, PromptType'
    PROVE  StorageInv'
BY ConfigUntouched, BootUntouched DEF StorageInv, TypeInv

LEMMA PromptStays ==
    ASSUME StorageInv, UNCHANGED splashVars
    PROVE  PromptType'
BY DEF StorageInv, TypeInv, PromptType, splashVars

LEMMA PromptGoesTo ==
    ASSUME StorageInv, NEW i \in Slots, NEW from, NEW to \in PromptSteps, PromptGoes(i, from, to),
           splash' \in BOOLEAN, rules' \in BOOLEAN
    PROVE  PromptType'
BY DEF StorageInv, TypeInv, PromptType, PromptGoes

LEMMA ConfigStepKeeps ==
    ASSUME StorageInv, ConfigStep
    PROVE  StorageInv'
<1> USE DEF StorageInv, TypeInv
<1>0. cfg \in Config /\ splash \in BOOLEAN /\ rules \in BOOLEAN /\ starts \in Nat
    BY DEF ConfigType, PromptType
<1>1. ASSUME NEW c, Change(c)
      PROVE  up /\ InStep(cfg)
    BY <1>0, <1>1 DEF Change, KeptInv
<1>2. ASSUME NEW newName \in DeviceNames, SaveSettings(newName)
      PROVE  StorageInv'
    <2> DEFINE c == [cfg EXCEPT !.name = newName]
    <2>1. Change(c) /\ UNCHANGED <<tlsVars, bootVars, splashVars>>
        BY <1>2 DEF SaveSettings
    <2>2. c \in Config /\ InStep(c)
        BY <1>0, <1>1, <2>1 DEF Config, InStep
    <2> HIDE DEF c
    <2> QED
        BY <2>1, <2>2, HandlerKeeps, PromptStays
<1>3. ASSUME NEW mode \in Modes, VisibilityChanged(mode)
      PROVE  StorageInv'
    <2>1. Change(SyncDiscoveryFlags(cfg, mode)) /\ UNCHANGED <<tlsVars, bootVars, splashVars>>
        BY <1>3 DEF VisibilityChanged
    <2> QED
        BY <1>0, <2>1, Synced, HandlerKeeps, PromptStays
<1>4. CASE LicenseChanges
    <2> DEFINE c == [cfg EXCEPT !.license = ~@]
    <2>1. Change(c) /\ UNCHANGED <<tlsVars, bootVars, splashVars>>
        BY <1>4 DEF LicenseChanges
    <2>2. c \in Config /\ InStep(c)
        BY <1>0, <1>1, <2>1 DEF Config, InStep
    <2> HIDE DEF c
    <2> QED
        BY <2>1, <2>2, HandlerKeeps, PromptStays
\* The prompt goes on, and no more.
<1>5. ASSUME UNCHANGED <<runVars, configVars, tlsVars, bootVars>>, PromptType'
      PROVE  StorageInv'
    BY <1>5, OtherKeeps DEF runVars, ConfigType
<1>6. ASSUME NEW i \in Slots, SplashTick(i)
      PROVE  StorageInv'
    BY <1>0, <1>5, <1>6, PromptGoesTo DEF SplashTick, PromptSteps
<1>7. ASSUME NEW i \in Slots, SplashComplete(i)
      PROVE  StorageInv'
    BY <1>0, <1>5, <1>7, PromptGoesTo DEF SplashComplete, PromptSteps
<1>8. ASSUME NEW i \in Slots, CheckFirewall(i)
      PROVE  StorageInv'
    BY <1>0, <1>5, <1>8, PromptGoesTo DEF CheckFirewall, PromptSteps
<1>9. ASSUME NEW i \in Slots, PromptAnswered(i)
      PROVE  StorageInv'
    BY <1>0, <1>5, <1>9, PromptGoesTo DEF PromptAnswered, PromptSteps
<1>10. ASSUME NEW i \in Slots, FirewallPromptComplete(i)
       PROVE  StorageInv'
    <2> DEFINE yes == [cfg EXCEPT !.added = TRUE, !.dismissed = FALSE]
               no == [cfg EXCEPT !.dismissed = TRUE]
    <2>1. PromptType' /\ UNCHANGED <<tlsVars, bootVars>>
        BY <1>0, <1>10, PromptGoesTo DEF FirewallPromptComplete, PromptSteps
    <2>2. Change(yes) \/ Change(no) \/ UNCHANGED <<runVars, configVars>>
        BY <1>10 DEF FirewallPromptComplete
    <2>3. yes \in Config /\ no \in Config
        BY <1>0 DEF Config
    <2>4. InStep(cfg) => InStep(yes) /\ InStep(no)
        BY <1>0 DEF Config, InStep
    <2> HIDE DEF yes, no
    <2> QED
        BY <1>1, <1>5, <2>1, <2>2, <2>3, <2>4, HandlerKeeps
<1> QED
    BY <1>2, <1>3, <1>4, <1>6, <1>7, <1>8, <1>9, <1>10 DEF ConfigStep

\* initialize() goes on: the pair it generates is the start's own.
LEMMA BootStepKeeps ==
    ASSUME StorageInv, BootStep
    PROVE  StorageInv'
<1> USE StorageAssumption, NilAssumption DEF StorageInv, TypeInv
<1>0. starts \in 0..MaxStarts /\ pairs \in Nat /\ failures \in 0..MaxFailures /\ up \in BOOLEAN
    BY DEF ConfigType, BootType
<1>1. UNCHANGED <<configVars, splashVars>>
    BY DEF BootStep, StartDiscovery, LoadOrCreate, BindServer, StartWebDrop
<1>2. PromptType'
    BY <1>1, PromptStays
<1>3. ASSUME UNCHANGED runVars
      PROVE  ConfigType' /\ KeptInv'
    BY <1>0, <1>1, <1>3, ConfigUntouched DEF runVars
<1>4. CASE StartDiscovery
    <2>1. BootType'
        BY <1>4 DEF StartDiscovery, Boot, BootType, BootSteps, runVars, tlsVars
    <2>2. TlsInv'
        BY <1>4 DEF StartDiscovery, TlsInv, tlsVars
    <2> QED
        BY <1>2, <1>3, <1>4, <2>1, <2>2 DEF StartDiscovery
<1>5. CASE LoadPair /\ UNCHANGED webDrop
    <2>1. BootType'
        BY <1>5 DEF LoadPair, Boot, BootType, BootSteps, runVars, tlsVars
    <2>2. TlsInv'
        BY <1>5 DEF LoadPair, TlsInv, tlsVars
    <2> QED
        BY <1>2, <1>3, <1>5, <2>1, <2>2 DEF LoadPair
<1>6. ASSUME certFile = Nil \/ keyFile = Nil
      PROVE  keyFile = Nil
    BY <1>6 DEF TlsInv
<1>7. CASE NewPair /\ UNCHANGED webDrop
    <2> DEFINE p == pairs + 1
    <2>1. /\ pairs' = p /\ up /\ boot = "tls" /\ boot' = "bind" /\ certFile' = p /\ keyFile' = p
          /\ serving' = [cert |-> p, key |-> p] /\ UNCHANGED runVars
        BY <1>7 DEF NewPair, Boot
    <2>2. p \in Pair /\ p <= starts
        BY <1>0, <2>1 DEF BootType, Pair, Cut
    <2>3. BootType'
        BY <1>0, <1>7, <2>1, <2>2 DEF BootType, BootSteps, runVars
    <2>4. TlsInv'
        BY <1>0, <2>1 DEF TlsInv
    <2> QED
        BY <1>2, <1>3, <2>1, <2>3, <2>4
<1>8. CASE NewPairFails /\ UNCHANGED webDrop /\ (certFile = Nil \/ keyFile = Nil)
    <2> DEFINE p == pairs + 1
    <2>1. /\ pairs' = p /\ up /\ boot = "tls" /\ boot' = "failed" /\ up' \in BOOLEAN
          /\ UNCHANGED <<serving, starts>>
        BY <1>8 DEF NewPairFails
    <2>2. /\ certFile' \in {Cut, p} /\ (keyFile' = Nil \/ (certFile' = p /\ keyFile' = Cut))
        BY <1>6, <1>8 DEF NewPairFails, CutPair
    <2>3. failures' \in 0..MaxFailures
        BY <1>0, <1>8 DEF NewPairFails, CanFail
    <2>4. p \in Pair /\ p <= starts /\ Cut \in Pair /\ Cut # Nil /\ p # Nil
        BY <1>0, <2>1 DEF BootType, Pair, Cut
    <2>5. BootType'
        <3>1. certFile' \in Pair /\ keyFile' \in Pair
            BY <2>2, <2>4 DEF Pair
        <3> QED
            BY <1>0, <1>8, <2>1, <2>4, <3>1 DEF BootType, BootSteps
    <2>6. TlsInv'
        BY <2>1, <2>2, <2>4 DEF TlsInv
    <2>7. ConfigType' /\ KeptInv'
        BY <1>1, <2>1, <2>3, ConfigUntouched
    <2> QED
        BY <1>2, <2>5, <2>6, <2>7
<1>9. CASE BindServer
    <2>1. BootType'
        BY <1>9 DEF BindServer, Boot, BootType, BootSteps, runVars, tlsVars
    <2>2. TlsInv'
        BY <1>9 DEF BindServer, TlsInv, tlsVars
    <2> QED
        BY <1>2, <1>3, <1>9, <2>1, <2>2 DEF BindServer
<1>10. CASE StartWebDrop
    <2>1. BootType'
        BY <1>10 DEF StartWebDrop, Boot, BootType, BootSteps, runVars, tlsVars
    <2>2. TlsInv'
        BY <1>10 DEF StartWebDrop, TlsInv, tlsVars
    <2> QED
        BY <1>2, <1>3, <1>10, <2>1, <2>2 DEF StartWebDrop
<1> QED
    BY <1>4, <1>5, <1>7, <1>8, <1>9, <1>10 DEF BootStep, LoadOrCreate

-----------------------------------------------------------------------------
(* The cabinet's steps                                                     *)

LEMMA CabinetInitial == Init => StorageInv /\ GuestsInv
<1> SUFFICES ASSUME Init PROVE StorageInv /\ GuestsInv
    OBVIOUS
<1> USE StorageAssumption, NilAssumption DEF Init
<1>1. /\ up = FALSE /\ cfg = DefaultConfig(0) /\ ids = 0 /\ pairs = 0
      /\ certFile = Nil /\ keyFile = Nil
      /\ boot = "failed" /\ serving = Nil /\ webDrop = FALSE
      /\ splash = FALSE /\ prompts = [i \in Slots |-> "none"] /\ rules = FALSE
      /\ starts = 0 /\ changes = 0 /\ failures = 0 /\ owed = TRUE
    BY DEF StorageInit
<1>2. \/ file = Nil
      \/ \E c \in Config : file = Whole(c)
      \/ file \in OldFiles
    BY DEF StorageInit
<1>3. ASSUME file \in OldFiles
      PROVE  /\ file \in ConfigFiles /\ "name" \in file.has /\ "guests" \notin file.has
             /\ file.of.guests = [g \in Guests |-> Nil]
    <2>1. PICK mode \in Modes :
              file = File([DefaultConfig(0) EXCEPT !.discoverable = Discoverable(mode),
                                                   !.contacts = ContactsOnly(mode)], OldFields)
        BY <1>3 DEF OldFiles
    <2>2. OldFields \subseteq Fields /\ "name" \in OldFields /\ "guests" \notin OldFields
        BY FieldsAre DEF OldFields
    <2>3. Discoverable(mode) \in BOOLEAN /\ ContactsOnly(mode) \in BOOLEAN
        BY DEF Discoverable, ContactsOnly
    <2>4. [DefaultConfig(0) EXCEPT !.discoverable = Discoverable(mode),
                                   !.contacts = ContactsOnly(mode)] \in Config
        <3>1. \A c \in Config, d \in BOOLEAN, e \in BOOLEAN :
                  [c EXCEPT !.discoverable = d, !.contacts = e] \in Config
            BY DEF Config
        <3> QED
            BY <2>3, <3>1, DefaultIs
    <2>5. file.of.guests = [g \in Guests |-> Nil]
        BY <2>1 DEF File, DefaultConfig
    <2> QED
        BY <2>1, <2>2, <2>4, <2>5 DEF File, ConfigFiles
<1>4. ASSUME NEW c \in Config, file = Whole(c)
      PROVE  file \in ConfigFiles /\ "name" \in file.has /\ "guests" \in file.has
             /\ file # Nil /\ file.of.guests \in [Guests -> Folders \cup {Nil}]
    BY <1>4, FilesAre, FieldsAre DEF Whole, File, Config
<1>5. file \in ConfigFiles \cup {Nil}
    BY <1>2, <1>3, <1>4
<1>6. TypeInv
    <2>1. ConfigType
        <3>1. up \in BOOLEAN /\ owed \in BOOLEAN
            BY <1>1
        <3>2. cfg \in Config
            BY <1>1, DefaultIs
        <3> QED
            BY <1>1, <1>5, <3>1, <3>2 DEF ConfigType
    <2>2. BootType
        <3>1. up = FALSE /\ webDrop \in BOOLEAN
            BY <1>1
        <3>2. /\ certFile \in Pair /\ keyFile \in Pair /\ boot \in BootSteps
              /\ pairs \in Nat /\ pairs <= starts
              /\ serving \in {Nil} \cup [cert : Pair, key : Pair]
            BY <1>1 DEF Pair, BootSteps
        <3> QED
            BY <3>1, <3>2 DEF BootType
    <2>3. PromptType
        BY <1>1 DEF PromptType, PromptSteps
    <2> QED
        BY <2>1, <2>2, <2>3 DEF TypeInv
<1>7. KeptInv /\ TlsInv
    BY <1>1 DEF KeptInv, TlsInv
<1>8. filesIn = [g \in Guests |-> IF file = Nil THEN {} ELSE {file.of.guests[g]} \ {Nil}]
    BY DEF CabinetInit
<1>9. GuestsInv
    <2>1. CASE file = Nil
        BY <1>1, <1>8, <2>1 DEF GuestsInv
    <2>2. ASSUME NEW c \in Config, file = Whole(c)
          PROVE  GuestsInv
        BY <1>1, <1>4, <1>8, <2>2 DEF GuestsInv
    <2>3. CASE file \in OldFiles
        BY <1>1, <1>3, <1>8, <2>3 DEF GuestsInv
    <2> QED
        BY <1>2, <2>1, <2>2, <2>3
<1> QED
    BY <1>6, <1>7, <1>9 DEF StorageInv

\* A step of the storage that leaves the guests' folders where they are.
LEMMA GuestsUntouched ==
    ASSUME StorageInv, GuestsInv, starts' = starts, UNCHANGED cabinetVars,
           \/ UNCHANGED <<cfg, file>>
           \/ starts > 0 /\ cfg'.guests = cfg.guests
    PROVE  GuestsInv'
BY DEF GuestsInv, cabinetVars, diskVars, StorageInv, TypeInv, ConfigType

LEMMA StartKeepsGuests ==
    ASSUME StorageInv, GuestsInv, StartWithCabinet
    PROVE  GuestsInv'
<1>1. /\ ~up /\ starts < MaxStarts /\ starts' = starts + 1 /\ changes' = changes /\ Load
      /\ parted' = (parted \/ (owed /\ starts > 0)) /\ UNCHANGED <<dirs, filesIn>>
    BY DEF StartWithCabinet, Start
<1>2. starts \in Nat
    BY DEF StorageInv, TypeInv, ConfigType
<1>3. CASE starts = 0
    <2>1. \A g \in Guests : filesIn[g] \subseteq {cfg'.guests[g]}
        BY <1>1, <1>3, LoadKeeps DEF GuestsInv
    <2> QED
        BY <1>1, <1>2, <2>1 DEF GuestsInv
<1>4. CASE starts > 0
    <2>1. ~parted' => ~parted /\ ~owed
        BY <1>1, <1>4
    <2>2. ~owed => cfg' = cfg
        BY <1>1, LoadKeeps
    <2> QED
        BY <1>1, <1>2, <1>4, <2>1, <2>2 DEF GuestsInv
<1> QED
    BY <1>2, <1>3, <1>4

\* A guest who is new has no files yet.
LEMMA ResolveKeeps ==
    ASSUME StorageInv, GuestsInv, NEW g \in Guests, NEW folder \in Folders, ResolveFolder(g, folder)
    PROVE  StorageInv' /\ GuestsInv'
<1> DEFINE c == [cfg EXCEPT !.guests[g] = folder]
<1>1. /\ UNCHANGED <<startVars, uiVars, parted, behind>>
      /\ IF up' THEN filesIn' = [filesIn EXCEPT ![g] = @ \cup {folder}] ELSE filesIn' = filesIn
    BY DEF ResolveFolder
<1>2. cfg \in Config /\ starts \in Nat /\ failures \in 0..MaxFailures /\ up \in BOOLEAN
    BY DEF StorageInv, TypeInv, ConfigType
<1>3. filesIn' \in [Guests -> SUBSET Folders]
    BY <1>1 DEF GuestsInv
<1>4. CASE cfg.guests[g] = folder /\ up /\ UNCHANGED <<runVars, configVars>>
    <2>1. StorageInv'
        BY <1>1, <1>2, <1>4, OtherKeeps, PromptStays DEF startVars, runVars
    <2>2. GuestsInv'
        BY <1>1, <1>2, <1>3, <1>4 DEF GuestsInv, StorageInv, KeptInv, runVars, configVars
    <2> QED
        BY <2>1, <2>2
<1>5. CASE cfg.guests[g] = Nil /\ Change(c)
    <2>1. c \in Config /\ c.guests = [cfg.guests EXCEPT ![g] = folder]
        BY <1>2 DEF Config
    <2>2. InStep(c) /\ up /\ cfg' = c
        BY <1>2, <1>5 DEF Change, StorageInv, KeptInv, InStep, Config
    <2> HIDE DEF c
    <2>3. StorageInv'
        BY <1>1, <1>5, <2>1, <2>2, HandlerKeeps, PromptStays DEF startVars
    <2>4. starts' = starts /\ starts > 0
        BY <1>5, <2>1, <2>2, ChangeKeeps
    <2>5. ~parted => filesIn[g] = {}
        BY <1>5, <2>4, StorageAssumption DEF GuestsInv
    <2>6. ~parted' => \A h \in Guests : filesIn'[h] \subseteq {cfg'.guests[h]}
        BY <1>1, <1>2, <2>1, <2>2, <2>4, <2>5 DEF GuestsInv, Config
    <2> QED
        BY <1>3, <2>3, <2>4, <2>6 DEF GuestsInv
<1> QED
    BY <1>4, <1>5 DEF ResolveFolder

\* A rename moves the files and changes the name in the configuration.
LEMMA RenameKeeps ==
    ASSUME StorageInv, GuestsInv, NEW new \in Folders, RenameSubmit(new)
    PROVE  StorageInv' /\ GuestsInv'
<1> DEFINE old == renaming
           c == Renamed(old, new)
<1>1. UNCHANGED startVars /\ UNCHANGED <<tlsVars, bootVars, splashVars>>
    BY DEF RenameSubmit, startVars
<1>2. /\ cfg \in Config /\ starts \in Nat /\ failures \in 0..MaxFailures /\ up \in BOOLEAN
      /\ up => starts > 0
    BY DEF StorageInv, TypeInv, ConfigType, KeptInv
<1>3. ASSUME MoveFolder(old, new)
      PROVE  /\ filesIn' \in [Guests -> SUBSET Folders]
             /\ \A g \in Guests : filesIn'[g] = Moved(old, new, filesIn[g])
    BY <1>3 DEF MoveFolder, Moved, GuestsInv
<1>4. CASE MoveFolder(old, new) /\ Change(c) /\ UNCHANGED parted
    <2>1. /\ c \in Config
          /\ \A g \in Guests : c.guests[g] = IF cfg.guests[g] = old THEN new ELSE cfg.guests[g]
        BY <1>2 DEF Renamed, Config
    <2>2. InStep(c) /\ up /\ cfg' = c
        BY <1>2, <1>4 DEF Change, StorageInv, KeptInv, InStep, Config, Renamed
    <2> HIDE DEF c
    <2>3. StorageInv'
        BY <1>1, <1>4, <2>1, <2>2, HandlerKeeps, PromptStays
    <2>4. starts' = starts /\ starts > 0
        BY <1>4, <2>1, <2>2, ChangeKeeps
    <2>5. ~parted' => \A g \in Guests : filesIn'[g] \subseteq {cfg'.guests[g]}
        BY <1>3, <1>4, <2>1, <2>2, <2>4 DEF GuestsInv, Moved
    <2> QED
        BY <1>3, <1>4, <2>3, <2>4, <2>5 DEF GuestsInv
<1>5. CASE /\ MoveFolder(old, new) /\ InDj
           /\ CanFail /\ failures' = failures + 1 /\ up' = FALSE
           /\ parted' = TRUE
           /\ UNCHANGED <<starts, configVars, uiVars, behind>>
    <2>1. StorageInv'
        <3>1. failures' \in 0..MaxFailures
            BY <1>2, <1>5, StorageAssumption DEF CanFail
        <3>2. up' \in BOOLEAN /\ (up' => up) /\ PromptType'
            BY <1>1, <1>5, PromptStays
        <3> QED
            BY <1>1, <1>5, <3>1, <3>2, OtherKeeps
    <2>2. GuestsInv'
        BY <1>2, <1>3, <1>5 DEF GuestsInv, InDj
    <2> QED
        BY <2>1, <2>2
<1>6. CASE UNCHANGED <<runVars, configVars, diskVars>>
    <2>1. StorageInv'
        BY <1>1, <1>2, <1>6, OtherKeeps, PromptStays DEF runVars
    <2>2. GuestsInv'
        BY <1>6 DEF GuestsInv, runVars, configVars, diskVars
    <2> QED
        BY <2>1, <2>2
<1>7. \/ MoveFolder(old, new) /\ Change(c) /\ UNCHANGED parted
      \/ /\ MoveFolder(old, new) /\ InDj
         /\ CanFail /\ failures' = failures + 1 /\ up' = FALSE
         /\ parted' = TRUE
         /\ UNCHANGED <<starts, configVars, uiVars, behind>>
      \/ UNCHANGED <<runVars, configVars, diskVars>>
    BY DEF RenameSubmit
<1> QED
    BY <1>4, <1>5, <1>6, <1>7

LEMMA InvStep == StorageInv /\ GuestsInv /\ [Next]_vars => StorageInv' /\ GuestsInv'
<1> SUFFICES ASSUME StorageInv, GuestsInv, [Next]_vars
             PROVE  StorageInv' /\ GuestsInv'
    OBVIOUS
<1>0. /\ cfg \in Config /\ starts \in Nat /\ failures \in 0..MaxFailures /\ up \in BOOLEAN
      /\ up => starts > 0
    BY DEF StorageInv, TypeInv, ConfigType, KeptInv
\* The drawers, or the disk behind them.
<1>1. ASSUME UNCHANGED storageVars,
             \A g \in Guests : filesIn'[g] \subseteq filesIn[g],
             filesIn' \in [Guests -> SUBSET Folders], parted' = parted
      PROVE  StorageInv' /\ GuestsInv'
    <2>1. StorageInv'
        BY <1>0, <1>1, OtherKeeps, PromptStays DEF storageVars, runVars
    <2>2. GuestsInv'
        BY <1>1 DEF GuestsInv, storageVars, runVars, configVars
    <2> QED
        BY <2>1, <2>2
<1>2. ASSUME UNCHANGED <<storageVars, diskVars>>
      PROVE  StorageInv' /\ GuestsInv'
    BY <1>1, <1>2 DEF GuestsInv, diskVars
<1>3. CASE UNCHANGED vars
    BY <1>2, <1>3 DEF vars, cabinetVars
<1>4. CASE StartWithCabinet
    BY <1>4, StartKeeps, StartKeepsGuests DEF StartWithCabinet
<1>5. ASSUME NEW g \in Guests, NEW folder \in Folders, ResolveFolder(g, folder)
      PROVE  StorageInv' /\ GuestsInv'
    BY <1>5, ResolveKeeps
<1>6. ASSUME NEW folder \in Folders, RemoveFolder(folder)
      PROVE  StorageInv' /\ GuestsInv'
    BY <1>1, <1>6 DEF RemoveFolder, GuestsInv
<1>7. ASSUME NEW folder \in Folders, RenameSubmit(folder)
      PROVE  StorageInv' /\ GuestsInv'
    BY <1>7, RenameKeeps
<1>8. CASE \/ \E folder \in Folders : RenameStart(folder) \/ Move(folder, 1) \/ Move(folder, -1)
           \/ ShowDjMode \/ ExitDjMode \/ DjScanDrawers \/ RenameInput \/ RenameNothing
    BY <1>2, <1>8 DEF RenameStart, Move, ShowDjMode, ExitDjMode, DjScanDrawers, RenameInput, RenameNothing
<1>9. CASE StorageStep /\ UNCHANGED cabinetVars
    <2>1. CASE Quit
        <3>1. StorageInv'
            BY <1>0, <2>1, OtherKeeps, PromptStays DEF Quit
        <3> QED
            BY <1>9, <2>1, <3>1, GuestsUntouched DEF Quit, configVars
    <2>2. CASE ConfigStep
        <3>1. starts' = starts /\ up
            BY <2>2, <1>0 DEF ConfigStep, SaveSettings, VisibilityChanged, LicenseChanges, SplashTick,
                   SplashComplete, CheckFirewall, PromptAnswered, FirewallPromptComplete, PromptGoes,
                   Change, Save, Saved, SaveFails, CrashInSave, runVars
        <3>2. cfg'.guests = cfg.guests
            <4>1. \A newName : [cfg EXCEPT !.name = newName].guests = cfg.guests
                BY <1>0 DEF Config
            <4>2. /\ [cfg EXCEPT !.license = ~@].guests = cfg.guests
                  /\ [cfg EXCEPT !.added = TRUE, !.dismissed = FALSE].guests = cfg.guests
                  /\ [cfg EXCEPT !.dismissed = TRUE].guests = cfg.guests
                BY <1>0 DEF Config
            <4> QED
                BY <1>0, <2>2, <4>1, <4>2, Synced
                   DEF ConfigStep, SaveSettings, VisibilityChanged, LicenseChanges, SplashTick,
                       SplashComplete, CheckFirewall, PromptAnswered, FirewallPromptComplete,
                       Change, configVars
        <3> QED
            BY <1>0, <1>9, <2>2, <3>1, <3>2, ConfigStepKeeps, GuestsUntouched
    <2>3. CASE BootStep
        <3>1. starts' = starts /\ UNCHANGED configVars
            BY <2>3 DEF BootStep, StartDiscovery, LoadOrCreate, LoadPair, NewPair, NewPairFails, BindServer,
                   StartWebDrop, runVars
        <3> QED
            BY <1>9, <2>3, <3>1, BootStepKeeps, GuestsUntouched DEF configVars
    <2> QED
        BY <1>9, <2>1, <2>2, <2>3 DEF StorageStep
<1> QED
    BY <1>3, <1>4, <1>5, <1>6, <1>7, <1>8, <1>9 DEF Next, CabinetStep

-----------------------------------------------------------------------------
(* The theorems                                                            *)

LEMMA Invariance == Spec => [](StorageInv /\ GuestsInv)
BY CabinetInitial, InvStep, PTL DEF Spec

\* Every reachable state is well typed, and every start has an id and a pair of
\* its own.
THEOREM TypeInvariant == Spec => []StorageTypeOK
<1>1. StorageInv => StorageTypeOK
    <2> SUFFICES ASSUME StorageInv PROVE StorageTypeOK
        OBVIOUS
    <2>1. ids \in Ids \cup {0} /\ pairs \in 0..MaxStarts
        BY StorageAssumption DEF StorageInv, TypeInv, ConfigType, BootType, Ids
    <2> QED
        BY <2>1 DEF StorageInv, TypeInv, ConfigType, BootType, PromptType, StorageTypeOK
<1> QED
    BY <1>1, Invariance, PTL

\* Whenever and however the program ended, a start has what it had, unless
\* something was owed to the file.
THEOREM SettingsAreKept == Spec => RestartKeepsSettings
<1>1. StorageInv /\ GuestsInv /\ [Next]_vars => [~up /\ up' /\ ~owed => cfg' = cfg]_storageVars
    <2> SUFFICES ASSUME StorageInv, [Next]_vars, ~up, up', ~owed
                 PROVE  cfg' = cfg \/ UNCHANGED storageVars
        OBVIOUS
    <2>1. CASE StartWithCabinet
        BY <2>1, LoadKeeps DEF StartWithCabinet, Start
    <2>2. CASE UNCHANGED storageVars
        BY <2>2
    <2>3. ASSUME NEW c, Change(c)
          PROVE  FALSE
        BY <2>3 DEF Change
    <2>4. CASE \E g \in Guests, folder \in Folders : ResolveFolder(g, folder)
        BY <2>3, <2>4 DEF ResolveFolder
    <2>5. CASE \E folder \in Folders : RenameSubmit(folder)
        BY <2>5 DEF RenameSubmit, InDj
    <2>6. CASE StorageStep
        BY <2>3, <2>6 DEF StorageStep, Quit, ConfigStep, SaveSettings, VisibilityChanged, LicenseChanges,
               SplashTick, SplashComplete, CheckFirewall, PromptAnswered, FirewallPromptComplete,
               PromptGoes, BootStep, StartDiscovery, LoadOrCreate, LoadPair, NewPair, NewPairFails,
               BindServer, StartWebDrop, Boot
    <2> QED
        BY <2>1, <2>2, <2>4, <2>5, <2>6
           DEF Next, CabinetStep, vars, RemoveFolder, RenameStart, Move, ShowDjMode, ExitDjMode,
               DjScanDrawers, RenameInput, RenameNothing
<1> QED
    BY <1>1, Invariance, PTL DEF Spec, RestartKeepsSettings

\* The server never listens with a certificate of one pair and the key of
\* another, wherever earlier starts were cut off.
THEOREM ServedPairFits == Spec => []CertificateFitsKey
<1>1. StorageInv => CertificateFitsKey
    BY DEF StorageInv, TlsInv, CertificateFitsKey
<1> QED
    BY <1>1, Invariance, PTL

\* A guest's files stay in the one folder the configuration has for the guest.
THEOREM OneFolderEach == Spec => []GuestsKeepTheirFolder
<1>1. StorageInv /\ GuestsInv => GuestsKeepTheirFolder
    BY DEF StorageInv, TypeInv, ConfigType, KeptInv, GuestsInv, GuestsKeepTheirFolder
<1> QED
    BY <1>1, Invariance, PTL

-----------------------------------------------------------------------------
(* The order of the drawers *)

\* Every place from the first to the last is one number's, and no two share one:
\* places grow with the numbers.
LEMMA PlacesDiffer ==
    ASSUME NEW S \in SUBSET Nat, IsFiniteSet(S)
    PROVE  /\ \A n \in S : Place(S, n) \in 1..Cardinality(S)
           /\ \A n, m \in S : n < m => Place(S, n) < Place(S, m)
           /\ \A n, m \in S : Place(S, n) = Place(S, m) => n = m
           /\ \A k \in 1..Cardinality(S) : \E n \in S : Place(S, n) = k
<1> DEFINE Up(n) == {m \in S : m <= n}
<1>1. \A n \in S : IsFiniteSet(Up(n)) /\ Cardinality(Up(n)) \in Nat /\ Cardinality(Up(n)) <= Cardinality(S)
    <2> TAKE n \in S
    <2>1. Up(n) \in SUBSET S
        OBVIOUS
    <2> QED
        BY <2>1, FS_Subset, FS_CardinalityType
<1>2. \A n \in S : Cardinality(Up(n)) # 0
    <2> TAKE n \in S
    <2>1. n \in Up(n)
        OBVIOUS
    <2> QED
        BY <1>1, <2>1, FS_EmptySet
<1>3. Cardinality(S) \in Nat
    BY FS_CardinalityType
<1>4. \A n \in S : Place(S, n) \in 1..Cardinality(S)
    BY <1>1, <1>2, <1>3 DEF Place
<1>5. ASSUME NEW n \in S, NEW m \in S, n < m
      PROVE  Place(S, n) < Place(S, m)
    <2>0. n \in Nat /\ m \in Nat /\ \A x \in S : x \in Nat
        OBVIOUS
    <2>1. Up(n) \in SUBSET Up(m) /\ m \in Up(m) /\ m \notin Up(n)
        <3>1. \A x \in S : x <= n => x <= m
            BY <1>5, <2>0
        <3>2. m <= m /\ ~(m <= n)
            BY <1>5, <2>0
        <3>3. Up(n) \in SUBSET Up(m)
            BY <3>1
        <3>4. m \in Up(m)
            BY <3>2
        <3>5. m \notin Up(n)
            BY <3>2
        <3> QED
            BY <3>3, <3>4, <3>5
    <2>2. /\ Cardinality(Up(n)) <= Cardinality(Up(m))
          /\ Cardinality(Up(n)) = Cardinality(Up(m)) => Up(m) = Up(n)
        <3> HIDE DEF Up
        <3> QED
            BY <1>1, <2>1, FS_Subset
    <2>3. Cardinality(Up(n)) # Cardinality(Up(m))
        BY <2>1, <2>2
    <2>4. Cardinality(Up(n)) < Cardinality(Up(m))
        <3> HIDE DEF Up
        <3> QED
            BY <1>1, <2>2, <2>3
    <2> QED
        BY <2>4 DEF Place
<1>6. \A n, m \in S : Place(S, n) = Place(S, m) => n = m
    <2> TAKE n \in S, m \in S
    <2>1. n < m \/ m < n \/ n = m
        OBVIOUS
    <2>2. Place(S, n) \in Nat /\ Place(S, m) \in Nat
        BY <1>4
    <2> QED
        BY <1>5, <2>1, <2>2
<1>7. \A k \in 1..Cardinality(S) : \E n \in S : Place(S, n) = k
    <2> DEFINE f == [n \in S |-> Place(S, n)]
               T == 1..Cardinality(S)
    <2>1. f \in Injection(S, T)
        BY <1>4, <1>6 DEF Injection, IsInjective
    <2>2. IsFiniteSet(T) /\ Cardinality(T) = Cardinality(S)
        BY <1>3, FS_Interval
    <2>3. f \in Surjection(S, T)
        <3> HIDE DEF f, T
        <3> QED
            BY <2>1, <2>2, FS_Injection
    <2> QED
        BY <2>3 DEF Surjection
<1> QED
    BY <1>4, <1>5, <1>6, <1>7

LEMMA SortedIs ==
    ASSUME NEW S \in SUBSET Nat, IsFiniteSet(S)
    PROVE  /\ Sorted(S) \in [1..Cardinality(S) -> S]
           /\ \A k, l \in 1..Cardinality(S) : k < l <=> Sorted(S)[k] < Sorted(S)[l]
           /\ NoDoubles(Sorted(S))
           /\ Range(Sorted(S)) = S
<1>1. \A k \in 1..Cardinality(S) : Sorted(S)[k] \in S /\ Place(S, Sorted(S)[k]) = k
    BY PlacesDiffer DEF Sorted
<1>2. DOMAIN Sorted(S) = 1..Cardinality(S)
    BY DEF Sorted
<1>3. Sorted(S) \in [1..Cardinality(S) -> S]
    BY <1>1, <1>2 DEF Sorted
<1>4. NoDoubles(Sorted(S))
    BY <1>1, <1>2 DEF NoDoubles
<1>5. \A n \in S : n \in Range(Sorted(S))
    <2> TAKE n \in S
    <2>1. Place(S, n) \in 1..Cardinality(S)
        BY PlacesDiffer
    <2>2. Sorted(S)[Place(S, n)] = n
        <3>1. \A a, b \in S : Place(S, a) = Place(S, b) => a = b
            BY PlacesDiffer
        <3> QED
            BY <1>1, <2>1, <3>1
    <2> QED
        BY <1>2, <2>1, <2>2 DEF Range
<1>6. ASSUME NEW k \in 1..Cardinality(S), NEW l \in 1..Cardinality(S)
      PROVE  k < l <=> Sorted(S)[k] < Sorted(S)[l]
    <2>1. /\ Sorted(S)[k] \in S /\ Place(S, Sorted(S)[k]) = k
          /\ Sorted(S)[l] \in S /\ Place(S, Sorted(S)[l]) = l
        BY <1>1
    <2>2. \A n, m \in S : n < m => Place(S, n) < Place(S, m)
        BY PlacesDiffer
    <2>3. \A n, m \in S : n < m \/ m < n \/ n = m
        OBVIOUS
    <2>4. \/ Sorted(S)[k] < Sorted(S)[l] /\ k < l
          \/ Sorted(S)[l] < Sorted(S)[k] /\ l < k
          \/ Sorted(S)[k] = Sorted(S)[l] /\ k = l
        BY <2>1, <2>2, <2>3
    <2>5. Sorted(S)[k] \in Nat /\ Sorted(S)[l] \in Nat
        BY <2>1
    <2>6. k \in Int /\ l \in Int
        BY FS_CardinalityType
    <2> QED
        BY <2>4, <2>5, <2>6
<1> QED
    BY <1>1, <1>2, <1>3, <1>4, <1>5, <1>6 DEF Range

\* The places of 1..n are its numbers.
LEMMA SortedInterval ==
    ASSUME NEW n \in Nat
    PROVE  Sorted(1..n) = [k \in 1..n |-> k]
<1>1. IsFiniteSet(1..n) /\ Cardinality(1..n) = n
    BY FS_Interval
<1>2. \A k \in 1..n : Place(1..n, k) = k
    <2> TAKE k \in 1..n
    <2>1. {m \in 1..n : m <= k} = 1..k
        OBVIOUS
    <2> QED
        <3>1. 1 \in Int /\ k \in Int /\ ~(1 > k) /\ k - 1 + 1 = k
            OBVIOUS
        <3>2. Cardinality(1..k) = k
            BY <3>1, FS_Interval
        <3> QED
            BY <2>1, <3>2 DEF Place
<1>3. \A k \in 1..n : (CHOOSE m \in 1..n : Place(1..n, m) = k) = k
    BY <1>2
<1> QED
    BY <1>1, <1>3 DEF Sorted

LEMMA WithoutNothing ==
    ASSUME NEW seq \in Seq(Folders), NEW gone, Range(seq) \cap gone = {}
    PROVE  Without(seq, gone) = seq
<1>1. Len(seq) \in Nat /\ DOMAIN seq = 1..Len(seq)
    OBVIOUS
<1>2. {i \in DOMAIN seq : seq[i] \notin gone} = 1..Len(seq)
    BY <1>1 DEF Range
<1>3. Without(seq, gone) = [k \in 1..Len(seq) |-> seq[k]]
    <2>1. Sorted({i \in DOMAIN seq : seq[i] \notin gone}) = [k \in 1..Len(seq) |-> k]
        BY <1>1, <1>2, SortedInterval
    <2> DEFINE kept == Sorted({i \in DOMAIN seq : seq[i] \notin gone})
    <2>2. Without(seq, gone) = [k \in DOMAIN kept |-> seq[kept[k]]]
        BY DEF Without
    <2>3. kept = [k \in 1..Len(seq) |-> k]
        BY <2>1
    <2> HIDE DEF kept
    <2> QED
        BY <2>2, <2>3
<1> QED
    BY <1>1, <1>3

\* What is left of a sequence is in the order in which it was.
LEMMA WithoutIs ==
    ASSUME NEW seq \in Seq(Folders), NEW gone
    PROVE  LET w == Without(seq, gone)
           IN  /\ w \in Seq(Folders) /\ Range(w) \cap gone = {} /\ Range(w) \subseteq Range(seq)
               /\ NoDoubles(seq) => NoDoubles(w)
               /\ \A x \in Range(seq) \ gone : x \in Range(w)
               /\ \A x, y : Before(seq, x, y) /\ x \notin gone /\ y \notin gone => Before(w, x, y)
<1> DEFINE K == {i \in DOMAIN seq : seq[i] \notin gone}
           m == Cardinality(K)
           kept == Sorted(K)
           w == Without(seq, gone)
<1>1. Len(seq) \in Nat /\ DOMAIN seq = 1..Len(seq)
    OBVIOUS
<1>2. K \in SUBSET Nat /\ IsFiniteSet(K)
    <2>1. K \in SUBSET (1..Len(seq)) /\ IsFiniteSet(1..Len(seq))
        BY <1>1, FS_Interval
    <2> QED
        BY <2>1, FS_Subset
<1>3. \A i \in K : i \in DOMAIN seq /\ seq[i] \in Folders /\ seq[i] \notin gone
    BY <1>1
<1>4. \A i \in DOMAIN seq : seq[i] \notin gone => i \in K
    OBVIOUS
<1>5. m \in Nat
    BY <1>2, FS_CardinalityType
<1>6. w = [k \in DOMAIN kept |-> seq[kept[k]]]
    BY DEF Without
<1> HIDE DEF K, m, kept, w
<1>7. /\ kept \in [1..m -> K] /\ NoDoubles(kept) /\ Range(kept) = K
      /\ \A k, l \in 1..m : k < l <=> kept[k] < kept[l]
    BY <1>2, SortedIs DEF kept, m
<1>8. DOMAIN kept = 1..m
    BY <1>7
<1>9. DOMAIN w = 1..m /\ \A k \in 1..m : kept[k] \in K /\ w[k] = seq[kept[k]]
    BY <1>6, <1>7, <1>8
<1>10. w \in Seq(Folders)
    <2>1. w \in [1..m -> Folders]
        BY <1>3, <1>6, <1>8, <1>9
    <2> QED
        BY <1>5, <2>1
<1>11. Range(w) \cap gone = {} /\ Range(w) \subseteq Range(seq)
    BY <1>3, <1>9 DEF Range
<1>12. NoDoubles(seq) => NoDoubles(w)
    BY <1>3, <1>7, <1>8, <1>9 DEF NoDoubles
<1>13. \A i \in K : \E k \in 1..m : kept[k] = i
    BY <1>7, <1>8 DEF Range
<1>14. \A x \in Range(seq) \ gone : x \in Range(w)
    <2> TAKE x \in Range(seq) \ gone
    <2>1. PICK i \in DOMAIN seq : seq[i] = x
        BY DEF Range
    <2>2. PICK k \in 1..m : kept[k] = i
        BY <1>4, <1>13, <2>1
    <2> QED
        BY <1>9, <2>1, <2>2 DEF Range
<1>15. ASSUME NEW x, NEW y, Before(seq, x, y), x \notin gone, y \notin gone
       PROVE  Before(w, x, y)
    <2>1. PICK i \in DOMAIN seq, j \in DOMAIN seq : i < j /\ seq[i] = x /\ seq[j] = y
        BY <1>15 DEF Before
    <2>2. PICK k \in 1..m : kept[k] = i
        BY <1>4, <1>13, <1>15, <2>1
    <2>3. PICK l \in 1..m : kept[l] = j
        BY <1>4, <1>13, <1>15, <2>1
    <2>4. k < l
        BY <1>7, <2>1, <2>2, <2>3
    <2> QED
        BY <1>9, <2>1, <2>2, <2>3, <2>4 DEF Before
<1> QED
    BY <1>10, <1>11, <1>12, <1>14, <1>15 DEF w

\* A scan leaves what is still there in its order and puts what is new behind it.
LEMMA ScanKeeps ==
    ASSUME NEW seq \in Seq(Folders), NEW found \in SUBSET Folders
    PROVE  LET r == Scanned(seq, found)
           IN  /\ r \in Seq(Folders) /\ Range(r) \subseteq found
               /\ NoDoubles(seq) => NoDoubles(r)
               /\ \A x, y \in found : Before(seq, x, y) => Before(r, x, y)
               /\ \A x \in found \cap Range(seq), y \in found \ Range(seq) : Before(r, x, y)
<1> DEFINE new == found \ Range(seq)
           w   == Without(seq, Folders \ found)
           n   == Len(w)
           m   == Cardinality(new)
           r   == Scanned(seq, found)
<1>1. new \in SUBSET Nat /\ IsFiniteSet(new) /\ new \in SUBSET Folders /\ new \in SUBSET found
    BY FoldersAssumption, FS_Subset
<1>2. /\ w \in Seq(Folders) /\ Range(w) \cap (Folders \ found) = {} /\ Range(w) \subseteq Range(seq)
      /\ NoDoubles(seq) => NoDoubles(w)
      /\ \A x \in Range(seq) \ (Folders \ found) : x \in Range(w)
      /\ \A x, y : Before(seq, x, y) /\ x \notin Folders \ found /\ y \notin Folders \ found => Before(w, x, y)
    BY WithoutIs
<1>3. m \in Nat
    BY <1>1, FS_CardinalityType
<1>4. /\ Sorted(new) \in [1..m -> new] /\ NoDoubles(Sorted(new)) /\ Range(Sorted(new)) = new
    BY <1>1, SortedIs
<1>5. r = w \o Sorted(new)
    BY DEF Scanned
<1>6. /\ \A x \in new : x \in found /\ x \notin Range(seq)
      /\ \A x \in found : x \notin Range(seq) => x \in new
    OBVIOUS
<1> HIDE DEF r, new, m, w
<1>7. n \in Nat /\ DOMAIN w = 1..n /\ w \in Seq(Folders)
    BY <1>2
<1>8. Sorted(new) \in Seq(Folders) /\ Len(Sorted(new)) = m
    <2>1. Sorted(new) \in [1..m -> Folders]
        BY <1>1, <1>4
    <2> QED
        BY <1>3, <2>1
<1>9. /\ r \in Seq(Folders) /\ Len(r) = n + m /\ DOMAIN r = 1..(n + m)
      /\ \A i \in 1..n : r[i] = w[i]
      /\ \A i \in (n + 1)..(n + m) : r[i] = Sorted(new)[i - n]
    BY <1>3, <1>5, <1>7, <1>8
<1>10. \A i \in 1..(n + m) : i \in 1..n \/ (i \in (n + 1)..(n + m) /\ i - n \in 1..m)
    BY <1>3, <1>7
<1>11. \A i \in 1..n : r[i] \in Range(w) /\ i \in DOMAIN r
    BY <1>3, <1>7, <1>9 DEF Range
<1>12. \A i \in (n + 1)..(n + m) : i - n \in 1..m /\ r[i] \in new
    <2>1. \A i \in (n + 1)..(n + m) : i - n \in 1..m
        BY <1>3, <1>7
    <2> QED
        BY <1>4, <1>9, <2>1
<1>13. Range(w) \subseteq found
    <2>1. Range(w) \subseteq Folders
        BY <1>2, <1>7 DEF Range
    <2> QED
        BY <1>2, <2>1
<1>14. Range(r) \subseteq found
    BY <1>1, <1>9, <1>10, <1>11, <1>12, <1>13 DEF Range
<1>15. ASSUME NoDoubles(seq), NEW i \in 1..(n + m), NEW j \in 1..(n + m), r[i] = r[j]
       PROVE  i = j
    <2>1. CASE i \in 1..n /\ j \in 1..n
        BY <1>2, <1>7, <1>9, <1>15, <2>1 DEF NoDoubles
    <2>2. CASE i \in (n + 1)..(n + m) /\ j \in (n + 1)..(n + m)
        <3>1. i - n \in 1..m /\ j - n \in 1..m /\ Sorted(new)[i - n] = Sorted(new)[j - n]
            BY <1>9, <1>12, <1>15, <2>2
        <3>2. \A k, l \in 1..m : Sorted(new)[k] = Sorted(new)[l] => k = l
            BY <1>4 DEF NoDoubles
        <3>3. i - n = j - n
            BY <3>1, <3>2
        <3> QED
            BY <1>7, <3>3
    <2>3. CASE (i \in 1..n /\ j \in (n + 1)..(n + m)) \/ (j \in 1..n /\ i \in (n + 1)..(n + m))
        BY <1>2, <1>6, <1>11, <1>12, <1>15, <2>3
    <2> QED
        BY <1>10, <2>1, <2>2, <2>3
<1>16. NoDoubles(seq) => NoDoubles(r)
    BY <1>9, <1>15 DEF NoDoubles
<1>17. \A x, y \in found : Before(seq, x, y) => Before(r, x, y)
    <2> SUFFICES ASSUME NEW x \in found, NEW y \in found, Before(seq, x, y) PROVE Before(r, x, y)
        OBVIOUS
    <2>1. PICK i \in 1..n, j \in 1..n : i < j /\ w[i] = x /\ w[j] = y
        BY <1>2, <1>7 DEF Before
    <2> QED
        BY <1>9, <1>11, <2>1 DEF Before
<1>18. \A x \in found \cap Range(seq), y \in found \ Range(seq) : Before(r, x, y)
    <2> SUFFICES ASSUME NEW x \in found \cap Range(seq), NEW y \in found \ Range(seq) PROVE Before(r, x, y)
        OBVIOUS
    <2>1. PICK i \in 1..n : w[i] = x
        BY <1>2, <1>7 DEF Range
    <2>2. PICK j \in 1..m : Sorted(new)[j] = y
        BY <1>4, <1>6 DEF Range
    <2>3. n + j \in (n + 1)..(n + m) /\ n + j \in 1..(n + m) /\ i < n + j /\ (n + j) - n = j
        BY <1>3, <1>7
    <2>4. r[n + j] = y
        BY <1>9, <2>2, <2>3
    <2> QED
        BY <1>9, <1>11, <2>1, <2>3, <2>4 DEF Before
<1> QED
    BY <1>9, <1>14, <1>16, <1>17, <1>18 DEF r

-----------------------------------------------------------------------------

\* Unless the user removed a folder, the cabinet shows the drawers in their
\* order.  Neither need be what the disk has: a rename whose save failed leaves
\* the old name in both.
DrawersInv ==
    /\ dirs \subseteq Folders
    /\ up /\ ~behind => drawers = order /\ order \in Seq(Folders)

\* The two parts of OrderIsTheDjs that speak of pairs.
PlacesKept ==
    /\ \A a, b \in Range(order) :
          Before(order, a, b) /\ {NameNow(a), NameNow(b)} \subseteq Range(order')
          => Before(order', NameNow(a), NameNow(b))
    /\ \A a \in Range(order), b \in Range(order') :
          b \notin {NameNow(f) : f \in Range(order)} /\ NameNow(a) \in Range(order')
          => Before(order', NameNow(a), b)

\* A scan of a sequence that has every drawer in its place under its name of now
\* keeps the places.
LEMMA ScanInPlace ==
    ASSUME order \in Seq(Folders), dirs' \subseteq Folders,
           NEW seq \in Seq(Folders), DOMAIN seq = DOMAIN order,
           \A i \in DOMAIN order : seq[i] = NameNow(order[i]),
           order' = Scanned(seq, dirs')
    PROVE  PlacesKept
<1>1. /\ Range(order') \subseteq dirs'
      /\ \A x, y \in dirs' : Before(seq, x, y) => Before(order', x, y)
      /\ \A x \in dirs' \cap Range(seq), y \in dirs' \ Range(seq) : Before(order', x, y)
    BY ScanKeeps
<1>2. Range(seq) = {NameNow(f) : f \in Range(order)}
    BY DEF Range
<1>3. ASSUME NEW a \in Range(order), NEW b \in Range(order), Before(order, a, b),
             {NameNow(a), NameNow(b)} \subseteq Range(order')
      PROVE  Before(order', NameNow(a), NameNow(b))
    <2>1. Before(seq, NameNow(a), NameNow(b))
        BY <1>3 DEF Before
    <2> QED
        BY <1>1, <1>3, <2>1
<1>4. ASSUME NEW a \in Range(order), NEW b \in Range(order'),
             b \notin {NameNow(f) : f \in Range(order)}, NameNow(a) \in Range(order')
      PROVE  Before(order', NameNow(a), b)
    <2>1. NameNow(a) \in dirs' \cap Range(seq) /\ b \in dirs' \ Range(seq)
        BY <1>1, <1>2, <1>4
    <2> QED
        BY <1>1, <2>1
<1> QED
    BY <1>3, <1>4 DEF PlacesKept

\* No drawer has another name unless a rename was saved.
LEMMA SameNames ==
    ASSUME dirs \subseteq dirs' \/ owed'
    PROVE  \A f \in Folders : NameNow(f) = f
BY DEF NameNow

LEMMA IndexIs ==
    ASSUME NEW seq \in Seq(Folders), NEW x, Contains(seq, x)
    PROVE  IndexIn(seq, x) \in DOMAIN seq /\ seq[IndexIn(seq, x)] = x
<1> DEFINE S == {i \in DOMAIN seq : seq[i] = x}
<1>1. Len(seq) \in Nat /\ DOMAIN seq = 1..Len(seq)
    OBVIOUS
<1>2. PICK k \in S : TRUE
    BY <1>1 DEF Contains
<1>3. S \in SUBSET Nat /\ IsFiniteSet(S)
    <2>1. S \in SUBSET (1..Len(seq)) /\ IsFiniteSet(1..Len(seq))
        BY <1>1, FS_Interval
    <2> QED
        BY <2>1, FS_Subset
<1>4. PICK n \in S : Place(S, n) = 1
    <2>1. Place(S, k) \in 1..Cardinality(S) /\ Cardinality(S) \in Nat
        BY <1>3, PlacesDiffer, FS_CardinalityType
    <2>2. 1 \in 1..Cardinality(S)
        BY <2>1
    <2> QED
        BY <1>3, <2>2, PlacesDiffer
<1>5. \A j \in S : ~(j < n)
    <2>1. \A j \in S : Place(S, j) \in 1..Cardinality(S) /\ (j < n => Place(S, j) < Place(S, n))
        BY <1>3, PlacesDiffer
    <2>2. \A j \in S : Place(S, j) >= 1
        BY <1>3, <2>1, FS_CardinalityType
    <2>3. \A j \in S : Place(S, j) \in Int
        BY <1>3, <2>1, FS_CardinalityType
    <2> QED
        BY <1>4, <2>1, <2>2, <2>3
<1>6. n \in DOMAIN seq /\ seq[n] = x /\ \A j \in 1..(n - 1) : seq[j] # x
    <2>1. \A j \in 1..(n - 1) : j \in DOMAIN seq /\ j < n
        BY <1>1
    <2> QED
        BY <1>5, <2>1
<1> HIDE DEF S
<1> QED
    BY <1>6 DEF IndexIn

\* The name a drawer has after a rename that was saved stands where the old one
\* stood, and if the cabinet does not have the name already stands once.
LEMMA RelabelledIs ==
    ASSUME order \in Seq(Folders), Contains(order, renaming), ~owed',
           NEW new \in Folders, CanRename(renaming, new), dirs' = Moved(renaming, new, dirs)
    PROVE  LET r == Relabelled(order, renaming, new)
           IN  /\ r \in Seq(Folders)
               /\ NoDoubles(order) => /\ DOMAIN r = DOMAIN order
                                      /\ \A i \in DOMAIN order : r[i] = NameNow(order[i])
                                      /\ GhostReturns \/ NoDoubles(r)
<1> DEFINE at == IndexIn(order, renaming)
           r  == Relabelled(order, renaming, new)
<1>1. Len(order) \in Nat /\ DOMAIN order = 1..Len(order)
    OBVIOUS
<1>2. at \in DOMAIN order /\ order[at] = renaming
    BY IndexIs
<1>3. r = [order EXCEPT ![at] = new]
    BY DEF Relabelled
<1> HIDE DEF r, at
<1>4. /\ r \in Seq(Folders) /\ DOMAIN r = DOMAIN order
      /\ \A i \in DOMAIN order : r[i] = IF i = at THEN new ELSE order[i]
    BY <1>2, <1>3
<1>5. renaming \in dirs
    BY DEF CanRename
<1>6. CASE ~NoDoubles(order)
    BY <1>4, <1>6 DEF r
<1>7. CASE NoDoubles(order)
    <2>1. \A i \in DOMAIN order : r[i] = IF order[i] = renaming THEN new ELSE order[i]
        BY <1>2, <1>4, <1>7 DEF NoDoubles
    <2>2. CASE new = renaming
        <3>1. dirs' = dirs
            BY <2>2 DEF Moved
        <3>2. \A i \in DOMAIN order : r[i] = order[i]
            BY <2>1, <2>2
        <3>3. \A i \in DOMAIN order : r[i] = NameNow(order[i])
            BY <3>1, <3>2, SameNames
        <3>4. NoDoubles(r)
            BY <1>4, <1>7, <3>2 DEF NoDoubles
        <3> QED
            BY <1>4, <3>3, <3>4 DEF r
    <2>3. CASE new # renaming
        <3>1. dirs' = (dirs \ {renaming}) \cup {new} /\ new \notin dirs
            BY <1>5, <2>3 DEF Moved, CanRename
        <3>2. dirs' \ dirs = {new} /\ dirs \ dirs' = {renaming}
            BY <1>5, <2>3, <3>1
        <3>3. NameNow(renaming) = new /\ \A f \in Folders : f # renaming => NameNow(f) = f
            BY <3>2 DEF NameNow
        <3>4. \A i \in DOMAIN order : r[i] = NameNow(order[i])
            BY <2>1, <3>3
        <3>5. GhostReturns \/ NoDoubles(r)
            <4> SUFFICES ASSUME ~GhostReturns PROVE NoDoubles(r)
                OBVIOUS
            <4>1. \A i \in DOMAIN order : order[i] # new
                BY <3>2 DEF GhostReturns, Range
            <4>2. \A i, j \in DOMAIN order : order[i] = order[j] => i = j
                BY <1>7 DEF NoDoubles
            <4> QED
                BY <1>4, <4>1, <4>2 DEF NoDoubles
        <3> QED
            BY <1>4, <3>4, <3>5 DEF r
    <2> QED
        BY <2>2, <2>3
<1> QED
    BY <1>6, <1>7

\* What OrderIsTheDjs asks of a step.
OrderStep ==
    up /\ up' /\ ~behind' /\ NoDoubles(order) =>
        (GhostReturns \/ (NoDoubles(order') /\ NoDoubles(drawers'))) /\ (DjMoves \/ PlacesKept)

\* A step that leaves the drawers and takes no folder away, or could not save that.
LEMMA DrawersStay ==
    ASSUME DrawersInv, UNCHANGED <<order, drawers, behind>>, up' => up,
           dirs \subseteq dirs' \/ owed', dirs' \subseteq Folders
    PROVE  DrawersInv' /\ OrderStep
<1>1. DrawersInv'
    BY DEF DrawersInv
<1>2. ASSUME up, ~behind, NoDoubles(order) PROVE PlacesKept /\ NoDoubles(order') /\ NoDoubles(drawers')
    <2>1. order' = order /\ drawers' = order /\ order \in Seq(Folders)
        BY <1>2 DEF DrawersInv
    <2>2. \A f \in Range(order) : NameNow(f) = f
        BY <2>1, SameNames DEF Range
    <2>3. PlacesKept
        BY <2>1, <2>2 DEF PlacesKept
    <2> QED
        BY <1>2, <2>1, <2>3
<1> QED
    BY <1>1, <1>2 DEF OrderStep

\* A step that scans what has every drawer in its place under its name of now.
LEMMA ScanStep ==
    ASSUME DrawersInv, up, ~behind, dirs' \subseteq Folders,
           NEW seq \in Seq(Folders),
           NoDoubles(order) => /\ DOMAIN seq = DOMAIN order
                               /\ \A i \in DOMAIN order : seq[i] = NameNow(order[i])
                               /\ GhostReturns \/ NoDoubles(seq),
           ScanOf(seq)
    PROVE  DrawersInv' /\ OrderStep
<1>1. order' = Scanned(seq, dirs') /\ drawers' = order'
    BY DEF ScanOf
<1>2. order' \in Seq(Folders) /\ (NoDoubles(seq) => NoDoubles(order'))
    BY <1>1, ScanKeeps
<1>3. DrawersInv'
    BY <1>1, <1>2 DEF DrawersInv
<1>4. ASSUME NoDoubles(order)
      PROVE  (GhostReturns \/ (NoDoubles(order') /\ NoDoubles(drawers'))) /\ PlacesKept
    <2>1. order \in Seq(Folders)
        BY DEF DrawersInv
    <2>2. PlacesKept
        BY <1>1, <1>4, <2>1, ScanInPlace
    <2> QED
        BY <1>1, <1>2, <1>4, <2>2
<1> QED
    BY <1>3, <1>4 DEF OrderStep

LEMMA ScanAgain ==
    ASSUME DrawersInv, ScanOf(order), UNCHANGED <<up, diskVars>>
    PROVE  DrawersInv' /\ OrderStep
<1>1. dirs' = dirs /\ behind' = behind /\ dirs \subseteq Folders
    BY DEF diskVars, DrawersInv
<1>2. CASE up /\ ~behind
    <2>1. order \in Seq(Folders)
        BY <1>2 DEF DrawersInv
    <2>2. \A i \in DOMAIN order : order[i] = NameNow(order[i])
        BY <1>1, <2>1, SameNames
    <2> QED
        BY <1>1, <1>2, <2>1, <2>2, ScanStep
<1>3. CASE ~(up /\ ~behind)
    BY <1>1, <1>3 DEF DrawersInv, OrderStep
<1> QED
    BY <1>2, <1>3

LEMMA RenameStep ==
    ASSUME DrawersInv, NEW new \in Folders, RenameSubmit(new)
    PROVE  DrawersInv' /\ OrderStep
<1>1. up /\ dirs \subseteq Folders /\ Contains(drawers, renaming)
    BY DEF RenameSubmit, InDj, DrawersInv
<1>2. \/ /\ CanRename(renaming, new) /\ MoveFolder(renaming, new)
         /\ behind' = behind
         /\ \/ ~up'
            \/ owed' /\ RenameError(renaming)
            \/ ~owed' /\ RelabelAndScan(renaming, new)
      \/ RenameError(renaming) /\ UNCHANGED <<runVars, diskVars>>
    BY DEF RenameSubmit
<1>3. CanRename(renaming, new) /\ MoveFolder(renaming, new) => dirs' = Moved(renaming, new, dirs) /\ dirs' \subseteq Folders
    BY <1>1 DEF MoveFolder, Moved
<1>4. CASE CanRename(renaming, new) /\ MoveFolder(renaming, new) /\ ~up'
    BY <1>3, <1>4 DEF DrawersInv, OrderStep
<1>5. CASE CanRename(renaming, new) /\ MoveFolder(renaming, new) /\ behind' = behind /\ owed' /\ RenameError(renaming)
    BY <1>1, <1>3, <1>5, DrawersStay DEF RenameError
<1>6. CASE /\ CanRename(renaming, new) /\ MoveFolder(renaming, new)
           /\ behind' = behind /\ ~owed' /\ RelabelAndScan(renaming, new)
    <2>1. CASE behind
        BY <1>3, <1>6, <2>1 DEF DrawersInv, OrderStep
    <2>2. CASE ~behind
        <3>1. order \in Seq(Folders) /\ Contains(order, renaming)
            BY <1>1, <2>2 DEF DrawersInv
        <3> DEFINE seq == Relabelled(order, renaming, new)
        <3>2. /\ seq \in Seq(Folders)
              /\ NoDoubles(order) => /\ DOMAIN seq = DOMAIN order
                                     /\ \A i \in DOMAIN order : seq[i] = NameNow(order[i])
                                     /\ GhostReturns \/ NoDoubles(seq)
            BY <1>3, <1>6, <3>1, RelabelledIs
        <3>3. ScanOf(seq)
            BY <1>6 DEF RelabelAndScan
        <3> HIDE DEF seq
        <3> QED
            BY <1>1, <1>3, <1>6, <2>2, <3>2, <3>3, ScanStep
    <2> QED
        BY <2>1, <2>2
<1>7. CASE RenameError(renaming) /\ UNCHANGED <<runVars, diskVars>>
    <2>1. UNCHANGED <<order, drawers, behind, dirs, up>>
        BY <1>7 DEF RenameError, diskVars, runVars
    <2> QED
        BY <1>1, <2>1, DrawersStay
<1> QED
    BY <1>2, <1>4, <1>5, <1>6, <1>7

LEMMA MoveStep ==
    ASSUME DrawersInv, NEW folder \in Folders, NEW by \in {1, -1}, Move(folder, by)
    PROVE  DrawersInv' /\ OrderStep
<1>1. up /\ up' = up /\ dirs' = dirs /\ behind' = behind /\ DjMoves
    BY DEF Move, InDj, DjMoves, diskVars, storageVars, runVars
<1>2. CASE ~behind
    <2>1. order \in Seq(Folders) /\ drawers = order
        BY <1>1, <1>2 DEF DrawersInv
    <2>2. PICK i \in DOMAIN order, j \in DOMAIN order : order' = [order EXCEPT ![i] = order[j], ![j] = order[i]]
        <3>1. IndexIn(order, folder) \in DOMAIN order
            BY <2>1, IndexIs DEF Move
        <3> QED
            BY <3>1 DEF Move
    <2>3. /\ order' \in Seq(Folders) /\ DOMAIN order' = DOMAIN order
          /\ \A k \in DOMAIN order : order'[k] = order[IF k = j THEN i ELSE IF k = i THEN j ELSE k]
        BY <2>1, <2>2
    <2>4. NoDoubles(order) => NoDoubles(order')
        BY <2>1, <2>3 DEF NoDoubles
    <2>5. drawers' = order'
        <3>1. drawers' = Without(order', Folders \ Range(drawers))
            BY DEF Move
        <3>2. \A k \in DOMAIN order : order'[k] \in Range(order)
            BY <2>2, <2>3 DEF Range
        <3>3. Range(order') \cap (Folders \ Range(drawers)) = {}
            BY <2>1, <2>3, <3>2 DEF Range
        <3> QED
            BY <2>3, <3>1, <3>3, WithoutNothing
    <2> QED
        BY <1>1, <2>3, <2>4, <2>5 DEF DrawersInv, OrderStep
<1>3. CASE behind
    BY <1>1, <1>3 DEF DrawersInv, OrderStep
<1> QED
    BY <1>2, <1>3

LEMMA CabinetStart == Init => DrawersInv
<1> SUFFICES ASSUME Init PROVE DrawersInv
    OBVIOUS
<1>1. up = FALSE /\ filesIn \in [Guests -> SUBSET Folders] /\ dirs = UNION {filesIn[g] : g \in Guests}
    BY CabinetInitial DEF Init, StorageInit, CabinetInit, GuestsInv
<1> QED
    BY <1>1 DEF DrawersInv

LEMMA DrawersStep == DrawersInv /\ [Next]_vars => DrawersInv' /\ OrderStep
<1> SUFFICES ASSUME DrawersInv, [Next]_vars PROVE DrawersInv' /\ OrderStep
    OBVIOUS
<1>0. dirs \subseteq Folders
    BY DEF DrawersInv
<1>1. CASE UNCHANGED vars
    BY <1>0, <1>1, DrawersStay DEF vars, storageVars, runVars, cabinetVars, uiVars, diskVars
<1>2. CASE StartWithCabinet
    <2>1. ~up /\ order' = <<>> /\ drawers' = <<>> /\ dirs' = dirs
        BY <1>2 DEF StartWithCabinet, Start
    <2> QED
        BY <1>0, <2>1 DEF DrawersInv, OrderStep
<1>3. ASSUME NEW g \in Guests, NEW folder \in Folders, ResolveFolder(g, folder)
      PROVE  DrawersInv' /\ OrderStep
    <2>1. UNCHANGED <<order, drawers, behind>> /\ (up' => up) /\ dirs' \in {dirs, dirs \cup {folder}}
        BY <1>3 DEF ResolveFolder, uiVars, runVars, Change
    <2> QED
        BY <1>0, <2>1, DrawersStay
<1>4. ASSUME NEW folder \in Folders, RemoveFolder(folder)
      PROVE  DrawersInv' /\ OrderStep
    BY <1>0, <1>4 DEF RemoveFolder, DrawersInv, OrderStep
<1>5. CASE \/ \E folder \in Folders : RenameStart(folder)
           \/ ExitDjMode \/ RenameInput \/ RenameNothing
    <2>1. UNCHANGED <<order, drawers, behind, up, dirs>>
        BY <1>5 DEF RenameStart, ExitDjMode, RenameInput, RenameNothing, diskVars, storageVars, runVars
    <2> QED
        BY <1>0, <2>1, DrawersStay
<1>6. CASE ShowDjMode \/ DjScanDrawers
    <2>1. ScanOf(order) /\ UNCHANGED <<up, diskVars>>
        BY <1>6 DEF ShowDjMode, DjScanDrawers, storageVars, runVars
    <2> QED
        BY <2>1, ScanAgain
<1>7. ASSUME NEW folder \in Folders, Move(folder, 1) \/ Move(folder, -1)
      PROVE  DrawersInv' /\ OrderStep
    BY <1>7, MoveStep
<1>8. CASE StorageStep /\ UNCHANGED cabinetVars
    <2>1. up' => up
        BY <1>8 DEF StorageStep, Quit, ConfigStep, SaveSettings, VisibilityChanged, LicenseChanges, SplashTick,
               SplashComplete, CheckFirewall, PromptAnswered, FirewallPromptComplete, PromptGoes, Change,
               BootStep, StartDiscovery, LoadOrCreate, LoadPair, NewPair, NewPairFails, BindServer,
               StartWebDrop, runVars, Boot
    <2>2. UNCHANGED <<order, drawers, behind, dirs>>
        BY <1>8 DEF cabinetVars, uiVars, diskVars
    <2> QED
        BY <1>0, <2>1, <2>2, DrawersStay
<1> QED
    BY <1>1, <1>2, <1>3, <1>4, <1>5, <1>6, <1>7, <1>8, RenameStep DEF Next, CabinetStep

\* Unless the user removed a folder in a file manager, and whatever saves fail:
\* only moving a drawer changes which of two comes first, new ones come last, one
\* whose rename was saved keeps its place, and none comes to be shown twice but by
\* a folder that takes the name of a ghost.
THEOREM DrawersKeepTheirOrder == Spec => OrderIsTheDjs
<1>1. DrawersInv /\ [Next]_vars =>
        [up /\ up' /\ ~behind' /\ NoDoubles(order) =>
          /\ GhostReturns \/ (NoDoubles(order') /\ NoDoubles(drawers'))
          /\ DjMoves \/ \A a, b \in Range(order) :
                Before(order, a, b) /\ {NameNow(a), NameNow(b)} \subseteq Range(order')
                => Before(order', NameNow(a), NameNow(b))
          /\ DjMoves \/ \A a \in Range(order), b \in Range(order') :
                b \notin {NameNow(f) : f \in Range(order)} /\ NameNow(a) \in Range(order')
                => Before(order', NameNow(a), b)]_vars
    <2> SUFFICES ASSUME DrawersInv, [Next]_vars PROVE OrderStep
        BY DEF OrderStep, PlacesKept
    <2> QED
        BY DrawersStep
<1> QED
    BY <1>1, CabinetStart, DrawersStep, PTL DEF Spec, OrderIsTheDjs

-----------------------------------------------------------------------------
(* Dropped files (Drops) *)

Waiting == IF chooser = NoFiles THEN {} ELSE chooser

\* Files picked in dialogs are numbered as the dialogs are closed.
Picked == MaxDrops + picks - Len(dialogs)

DialogTypeInv ==
    /\ generation \in 0..MaxDrops
    /\ picks \in 0..MaxPicks
    /\ dialogs \in Seq(Devices) /\ Len(dialogs) <= picks
    /\ dropped \subseteq 1..generation
    /\ DOMAIN timers \subseteq 1..generation /\ timers \in [DOMAIN timers -> 0..Delay]
    /\ chooser = NoFiles \/ chooser \subseteq 1..generation
    /\ selected \in Devices \cup {NoDevice}
    /\ Sent \subseteq (1..generation) \cup (MaxDrops + 1..Picked)
    /\ told \subseteq (1..generation) \cup (MaxDrops + 1..Picked)
    /\ replaced \subseteq 1..generation

\* While any timer runs, that of the last file does, and runs out no sooner than
\* the others; until it is heard of, the last file is in the list.
TimersInv ==
    /\ generation \in DOMAIN timers => generation \in dropped
    /\ \A g \in Running : generation \in DOMAIN timers /\ timers[g] <= timers[generation]

\* Files that came less than the timer's delay apart are in a place together.
Together(files) ==
    \A f \in 1..generation : f + 1 \in 1..generation /\ f + 1 \notin pauses =>
        (f \in files <=> f + 1 \in files)

\* The five places a file can be in have no file in common and together hold
\* every file dropped, and so have the transfers.
FatesInv ==
    /\ 1..generation \subseteq dropped \cup Waiting \cup Sent \cup told \cup replaced
    /\ dropped \cap (Waiting \cup Sent \cup told \cup replaced) = {}
    /\ Waiting \cap (Sent \cup told \cup replaced) = {}
    /\ Sent \cap (told \cup replaced) = {}
    /\ told \cap replaced = {}
    /\ \A b, c \in batches : b # c => b.files \cap c.files = {}
    /\ Together(dropped) /\ Together(Waiting) /\ Together(Sent)
    /\ Together(told) /\ Together(replaced)

DropsInv == DialogTypeInv /\ TimersInv /\ FatesInv

placeVars == <<dropped, chooser, batches, told, replaced, generation, pauses>>

-----------------------------------------------------------------------------
(* What the parts of a handler do to the places                            *)

\* Files are handed to start_send: they go out as a transfer of their own, or
\* the user is told.
Handed(files) ==
    \/ /\ Sent' = Sent \cup files /\ told' = told
       /\ \A b \in batches' : b \in batches \/ b.files = files
       /\ \A b, c \in batches' : b \notin batches /\ c \notin batches => b = c
    \/ batches' = batches /\ Sent' = Sent /\ told' = told \cup files

LEMMA StartSendHands ==
    ASSUME NEW d, NEW files, StartSend(d, files)
    PROVE  Handed(files)
<1>1. CASE told' = told \cup files /\ UNCHANGED batches
    BY <1>1 DEF Handed, Sent
<1>2. ASSUME NEW b, b.files = files, batches' = batches \cup {b}, told' = told
      PROVE  Handed(files)
    <2>1. Sent' = Sent \cup files
        BY <1>2 DEF Sent
    <2> QED
        BY <1>2, <2>1 DEF Handed
<1>3. [files |-> files, nth |-> Cardinality(batches) + 1].files = files
    OBVIOUS
<1> QED
    BY <1>1, <1>2, <1>3 DEF StartSend

\* A transfer of new files keeps the transfers apart.
LEMMA HandedApart ==
    ASSUME NEW files, Handed(files), files \cap Sent = {},
           \A b, c \in batches : b # c => b.files \cap c.files = {}
    PROVE  \A b, c \in batches' : b # c => b.files \cap c.files = {}
<1>1. \A b \in batches : b.files \cap files = {}
    BY DEF Sent
<1> QED
    BY <1>1 DEF Handed

\* The files of the list leave it, all of them.
Dispatched ==
    \/ Handed(dropped) /\ chooser' = chooser /\ replaced' = replaced
    \/ /\ batches' = batches /\ Sent' = Sent /\ told' = told
       /\ chooser' = dropped /\ Waiting' = dropped /\ replaced' = replaced \cup Waiting

LEMMA DispatchMoves ==
    ASSUME DropsInv, Dispatch(dropped)
    PROVE  Dispatched
<1>1. dropped # NoFiles
    BY NoFilesAssumption, DropsAssumption DEF DropsInv, DialogTypeInv, FilesGiven
<1>2. CASE selected # NoDevice
    BY <1>2, StartSendHands DEF Dispatch, Dispatched
<1>3. CASE selected = NoDevice /\ Cardinality(ReachableNow) = 1
    BY <1>3, StartSendHands DEF Dispatch, Dispatched
<1>4. CASE selected = NoDevice /\ Cardinality(ReachableNow) # 1
    <2>1. CASE listed = {}
        BY <1>4, <2>1 DEF Dispatch, Dispatched, Handed, Sent
    <2>2. CASE listed # {}
        BY <1>1, <1>4, <2>2 DEF Dispatch, Dispatched, Sent, Waiting
    <2> QED
        BY <2>1, <2>2
<1> QED
    BY <1>2, <1>3, <1>4

-----------------------------------------------------------------------------
(* The invariant, and the property from it                                 *)

LEMMA InitDrops == DropsInit => DropsInv
<1> SUFFICES ASSUME DropsInit PROVE DropsInv
    OBVIOUS
<1>1. DialogTypeInv
    BY DropsAssumption DEF DropsInit, DialogTypeInv, Sent, Picked
<1>2. TimersInv
    BY DEF DropsInit, TimersInv, Running
<1>3. FatesInv
    BY DEF DropsInit, FatesInv, Together, Waiting, Sent
<1> QED
    BY <1>1, <1>2, <1>3 DEF DropsInv

LEMMA DropsStep == DropsInv /\ [DropsNext]_dropVars => DropsInv'
<1> SUFFICES ASSUME DropsInv, [DropsNext]_dropVars
             PROVE  DropsInv'
    OBVIOUS
<1> USE DropsAssumption
<1>0. DialogTypeInv /\ TimersInv /\ FatesInv
    BY DEF DropsInv
\* Steps that move no file.
<1>1. ASSUME UNCHANGED <<placeVars, timers>>, selected' \in Devices \cup {NoDevice},
             \/ UNCHANGED dialogVars
             \/ \E d \in Devices : picks' = picks + 1 /\ picks' <= MaxPicks /\ dialogs' = Append(dialogs, d)
      PROVE  DropsInv'
    <2>1. Picked' = Picked /\ dialogs' \in Seq(Devices) /\ Len(dialogs') <= picks' /\ picks' \in 0..MaxPicks
        <3>1. CASE UNCHANGED dialogVars
            BY <1>0, <3>1 DEF DialogTypeInv, dialogVars, Picked
        <3>2. ASSUME NEW d \in Devices, picks' = picks + 1, picks' <= MaxPicks, dialogs' = Append(dialogs, d)
              PROVE  /\ Picked' = Picked /\ dialogs' \in Seq(Devices)
                     /\ Len(dialogs') <= picks' /\ picks' \in 0..MaxPicks
            <4>1. dialogs' \in Seq(Devices) /\ Len(dialogs') = Len(dialogs) + 1 /\ Len(dialogs) \in Nat
                BY <1>0, <3>2 DEF DialogTypeInv
            <4> QED
                BY <1>0, <3>2, <4>1 DEF DialogTypeInv, Picked
        <3> QED
            BY <1>1, <3>1, <3>2
    <2>2. Sent' = Sent /\ Waiting' = Waiting
        BY <1>1 DEF placeVars, Sent, Waiting
    <2>3. DialogTypeInv'
        BY <1>0, <1>1, <2>1, <2>2 DEF DialogTypeInv, placeVars
    <2>4. TimersInv'
        BY <1>0, <1>1 DEF TimersInv, Running, placeVars
    <2>5. FatesInv'
        BY <1>0, <1>1, <2>2 DEF FatesInv, Together, placeVars
    <2> QED
        BY <2>3, <2>4, <2>5 DEF DropsInv
<1>2. CASE UNCHANGED dropVars
    BY <1>0, <1>1, <1>2 DEF dropVars, deviceVars, dialogVars, dropHistory, placeVars, DialogTypeInv
<1>3. ASSUME NEW devices \in SUBSET Devices, DevicesRefreshed(devices)
      PROVE  DropsInv'
    BY <1>0, <1>1, <1>3 DEF DevicesRefreshed, dialogVars, dropHistory, placeVars, DialogTypeInv
<1>4. ASSUME NEW d \in Devices, DeviceSelected(d)
      PROVE  DropsInv'
    BY <1>0, <1>1, <1>4 DEF DeviceSelected, dialogVars, dropHistory, placeVars, DialogTypeInv
<1>5. CASE DeviceDeselected
    BY <1>0, <1>1, <1>5 DEF DeviceDeselected, dialogVars, dropHistory, placeVars, DialogTypeInv
<1>6. ASSUME NEW d \in Devices, OpenDialog(d)
      PROVE  DropsInv'
    BY <1>0, <1>1, <1>6 DEF OpenDialog, deviceVars, dropHistory, placeVars, DialogTypeInv
\* The file of a dialog has a number of its own, above those of dropped files.
<1>7. ASSUME NEW i \in DOMAIN dialogs, CloseDialog(i)
      PROVE  DropsInv'
    <2> DEFINE picked == MaxDrops + picks - Len(dialogs) + 1
    <2>1. /\ UNCHANGED <<dropped, generation, timers, deviceVars, chooser, picks, replaced, pauses>>
          /\ dialogs' = [j \in 1..(Len(dialogs) - 1) |-> IF j < i THEN dialogs[j] ELSE dialogs[j + 1]]
        BY <1>7 DEF CloseDialog
    <2>2. \/ Handed({picked})
          \/ Sent' = Sent /\ told' = told /\ batches' = batches
        <3>1. StartSend(dialogs[i], {picked}) \/ UNCHANGED <<batches, told>>
            BY <1>7 DEF CloseDialog
        <3>2. StartSend(dialogs[i], {picked}) => Handed({picked})
            BY StartSendHands
        <3>3. UNCHANGED <<batches, told>> => Sent' = Sent /\ told' = told /\ batches' = batches
            BY DEF Sent
        <3> QED
            BY <3>1, <3>2, <3>3
    <2>3. Len(dialogs) \in Nat /\ i \in 1..Len(dialogs) /\ DOMAIN dialogs = 1..Len(dialogs)
        BY <1>0, <1>7 DEF DialogTypeInv
    <2>4. dialogs' \in Seq(Devices) /\ Len(dialogs') = Len(dialogs) - 1
        BY <1>0, <2>1, <2>3 DEF DialogTypeInv
    <2>5. Picked' = Picked + 1 /\ picked = Picked + 1 /\ Picked \in Nat /\ Picked >= MaxDrops
        <3>1. picks \in Nat /\ Len(dialogs) <= picks /\ picks' = picks
            BY <1>0, <2>1 DEF DialogTypeInv
        <3> QED
            BY <2>3, <2>4, <3>1 DEF Picked
    <2>6. Sent' \subseteq Sent \cup {picked} /\ told' \subseteq told \cup {picked}
        BY <2>2 DEF Handed
    <2>7. DialogTypeInv'
        BY <1>0, <2>1, <2>4, <2>5, <2>6 DEF DialogTypeInv, deviceVars
    <2>8. TimersInv'
        BY <1>0, <2>1 DEF TimersInv, Running
    <2>9. picked \notin dropped \cup Waiting \cup Sent \cup told \cup replaced /\ picked \notin 1..generation
        <3>1. generation \in Nat /\ generation <= MaxDrops
            BY <1>0 DEF DialogTypeInv
        <3>2. picked \notin 1..generation /\ picked \notin MaxDrops + 1..Picked
            BY <2>5, <3>1
        <3> QED
            BY <1>0, <3>2 DEF DialogTypeInv, Waiting
    <2>10. Waiting' = Waiting
        BY <2>1 DEF Waiting
    <2>11. \A b, c \in batches' : b # c => b.files \cap c.files = {}
        BY <1>0, <2>2, <2>9, HandedApart DEF FatesInv
    <2>12. \/ Sent' = Sent \cup {picked} /\ told' = told
           \/ Sent' = Sent /\ told' = told \cup {picked}
           \/ Sent' = Sent /\ told' = told
        BY <2>2 DEF Handed
    <2>13. /\ 1..generation \subseteq dropped \cup Waiting \cup Sent' \cup told' \cup replaced
           /\ dropped \cap (Waiting \cup Sent' \cup told' \cup replaced) = {}
           /\ Waiting \cap (Sent' \cup told' \cup replaced) = {}
           /\ Sent' \cap (told' \cup replaced) = {}
           /\ told' \cap replaced = {}
        BY <1>0, <2>9, <2>12 DEF FatesInv
    <2>14. \A f \in 1..generation : (f \in Sent' <=> f \in Sent) /\ (f \in told' <=> f \in told)
        BY <2>9, <2>12
    <2>15. Together(dropped)' /\ Together(Waiting)' /\ Together(Sent)' /\ Together(told)' /\ Together(replaced)'
        BY <1>0, <2>1, <2>10, <2>14 DEF FatesInv, Together
    <2> QED
        BY <2>1, <2>7, <2>8, <2>10, <2>11, <2>13, <2>15 DEF DropsInv, FatesInv
\* One more file.  It came without a pause only if the one before is in the list.
<1>8. CASE FileDroppedOnWindow
    <2> DEFINE g == generation + 1
    <2>1. /\ g \in 1..MaxDrops /\ generation' = g /\ dropped' = dropped \cup {g}
          /\ timers' = [h \in DOMAIN timers \cup {g} |-> IF h = g THEN Delay ELSE timers[h]]
          /\ pauses' = IF Running = {} THEN pauses \cup {g} ELSE pauses
          /\ UNCHANGED <<deviceVars, chooser, dialogVars, batches, told, replaced>>
        BY <1>0, <1>8 DEF FileDroppedOnWindow, DialogTypeInv
    <2>2. Sent' = Sent /\ Waiting' = Waiting /\ Picked' = Picked
        BY <2>1 DEF Sent, Waiting, Picked, dialogVars
    <2>3. generation \in Nat /\ g \notin 1..generation /\ 1..g = (1..generation) \cup {g}
        BY <1>0 DEF DialogTypeInv
    <2>4. timers' \in [DOMAIN timers' -> 0..Delay] /\ DOMAIN timers' = DOMAIN timers \cup {g}
        BY <1>0, <2>1 DEF DialogTypeInv, Delay
    <2>5. DialogTypeInv'
        <3>1. dropped' \subseteq 1..generation' /\ DOMAIN timers' \subseteq 1..generation'
              /\ replaced' \subseteq 1..generation' /\ (chooser' = NoFiles \/ chooser' \subseteq 1..generation')
            BY <1>0, <2>1, <2>3, <2>4 DEF DialogTypeInv
        <3>2. /\ Sent' \subseteq (1..generation') \cup (MaxDrops + 1..Picked')
              /\ told' \subseteq (1..generation') \cup (MaxDrops + 1..Picked')
            BY <1>0, <2>1, <2>2, <2>3 DEF DialogTypeInv
        <3> QED
            BY <1>0, <2>1, <2>4, <3>1, <3>2 DEF DialogTypeInv, deviceVars, dialogVars
    <2>6. TimersInv'
        <3>1. g \in DOMAIN timers' /\ timers'[g] > 0
            BY <2>1 DEF Delay
        <3> QED
            BY <2>1, <2>4, <3>1 DEF TimersInv, Running, Delay
    <2>7. g \notin dropped \cup Waiting \cup Sent \cup told \cup replaced
        BY <1>0, <2>1, <2>3 DEF DialogTypeInv, Waiting
    <2>8. generation \in 1..generation /\ g \notin pauses' => generation \in dropped
        BY <1>0, <2>1 DEF TimersInv, Running
    <2>9. Together(dropped)'
        <3>1. \A f \in 1..generation : f + 1 \in 1..generation /\ f + 1 \notin pauses' =>
                  (f \in dropped' <=> f + 1 \in dropped')
            BY <1>0, <2>1, <2>3 DEF FatesInv, Together
        <3> QED
            BY <2>1, <2>3, <2>8, <3>1 DEF Together
    <2>10. ASSUME NEW files \in {Waiting, Sent, told, replaced}
           PROVE  \A f \in 1..g : f + 1 \in 1..g /\ f + 1 \notin pauses' =>
                      (f \in files <=> f + 1 \in files)
        <3>1. \A f \in 1..generation : f + 1 \in 1..generation /\ f + 1 \notin pauses' =>
                  (f \in files <=> f + 1 \in files)
            BY <1>0, <2>1, <2>3 DEF FatesInv, Together
        <3>2. g \notin files
            BY <2>7
        <3>3. generation \in 1..generation /\ g \notin pauses' => generation \notin files
            BY <1>0, <2>8 DEF FatesInv
        <3> QED
            BY <2>3, <3>1, <3>2, <3>3
    <2>11. Together(Waiting)' /\ Together(Sent)' /\ Together(told)' /\ Together(replaced)'
        BY <2>1, <2>2, <2>10 DEF Together
    <2>12. /\ 1..g \subseteq dropped' \cup Waiting \cup Sent \cup told \cup replaced
           /\ dropped' \cap (Waiting \cup Sent \cup told \cup replaced) = {}
        BY <1>0, <2>1, <2>3, <2>7 DEF FatesInv
    <2>13. FatesInv'
        BY <1>0, <2>1, <2>2, <2>9, <2>11, <2>12 DEF FatesInv
    <2> QED
        BY <2>5, <2>6, <2>13 DEF DropsInv
<1>9. CASE TimePasses
    <2>1. /\ timers' = [g \in DOMAIN timers |-> IF timers[g] > 0 THEN timers[g] - 1 ELSE 0]
          /\ UNCHANGED <<dropped, generation, deviceVars, chooser, dialogVars, dropHistory>>
        BY <1>9 DEF TimePasses
    <2>2. DOMAIN timers' = DOMAIN timers /\ timers' \in [DOMAIN timers -> 0..Delay]
        BY <1>0, <2>1 DEF DialogTypeInv, Delay
    <2>3. Sent' = Sent /\ Waiting' = Waiting /\ Picked' = Picked
        BY <2>1 DEF Sent, Waiting, Picked, dialogVars, dropHistory
    <2>4. DialogTypeInv'
        BY <1>0, <2>1, <2>2, <2>3 DEF DialogTypeInv, deviceVars, dialogVars, dropHistory
    <2>5. TimersInv'
        <3>1. ASSUME NEW g \in DOMAIN timers, timers'[g] > 0
              PROVE  generation \in DOMAIN timers /\ timers'[g] <= timers'[generation]
            <4>1. timers[g] \in Nat /\ timers[g] > 0 /\ timers'[g] = timers[g] - 1
                BY <1>0, <2>1, <3>1 DEF DialogTypeInv, Delay
            <4>2. generation \in DOMAIN timers /\ timers[g] <= timers[generation]
                BY <1>0, <3>1, <4>1 DEF TimersInv, Running
            <4>3. timers[generation] \in Nat
                BY <1>0, <4>2 DEF DialogTypeInv, Delay
            <4> QED
                BY <2>1, <4>1, <4>2, <4>3
        <3> QED
            BY <1>0, <2>1, <2>2, <3>1 DEF TimersInv, Running
    <2>6. FatesInv'
        BY <1>0, <2>1, <2>3 DEF FatesInv, Together, dropHistory
    <2> QED
        BY <2>4, <2>5, <2>6 DEF DropsInv
\* The timer of the last file takes the list; another one, or one that finds the
\* list empty, does nothing.
<1>10. ASSUME NEW g \in 1..MaxDrops, ProcessDroppedFiles(g)
       PROVE  DropsInv'
    <2>1. /\ g \in DOMAIN timers /\ timers[g] = 0
          /\ timers' = [h \in DOMAIN timers \ {g} |-> timers[h]]
          /\ UNCHANGED <<generation, deviceVars, dialogVars, pauses>>
        BY <1>10 DEF ProcessDroppedFiles, TimerEnds
    <2>2. \/ g # generation /\ UNCHANGED <<dropped, chooser, batches, told, replaced>>
          \/ dropped = {} /\ UNCHANGED <<dropped, chooser, batches, told, replaced>>
          \/ g = generation /\ dropped' = {} /\ Dispatched
        BY <1>10, DispatchMoves DEF ProcessDroppedFiles
    <2>3. Picked' = Picked
        BY <2>1 DEF Picked, dialogVars
    <2>4. DOMAIN timers' = DOMAIN timers \ {g} /\ timers' \in [DOMAIN timers' -> 0..Delay]
        BY <1>0, <2>1 DEF DialogTypeInv
    <2>5. CASE UNCHANGED <<dropped, chooser, batches, told, replaced>>
        <3>1. Sent' = Sent /\ Waiting' = Waiting
            BY <2>5 DEF Sent, Waiting
        <3>2. DialogTypeInv'
            BY <1>0, <2>1, <2>3, <2>4, <2>5, <3>1 DEF DialogTypeInv, deviceVars, dialogVars
        <3>3. TimersInv'
            BY <1>0, <2>1, <2>2, <2>4, <2>5 DEF TimersInv, DialogTypeInv, Running, Delay
        <3>4. FatesInv'
            BY <1>0, <2>1, <2>5, <3>1 DEF FatesInv, Together
        <3> QED
            BY <3>2, <3>3, <3>4 DEF DropsInv
    <2>6. CASE g = generation /\ dropped' = {} /\ Dispatched
        <3>1. \/ /\ Sent' = Sent \cup dropped /\ told' = told
                 /\ Waiting' = Waiting /\ replaced' = replaced
              \/ /\ Sent' = Sent /\ told' = told \cup dropped
                 /\ Waiting' = Waiting /\ replaced' = replaced
              \/ /\ Sent' = Sent /\ told' = told
                 /\ Waiting' = dropped /\ replaced' = replaced \cup Waiting
            BY <2>6 DEF Dispatched, Handed, Waiting
        <3>2. chooser' = chooser \/ chooser' = dropped
            BY <2>6 DEF Dispatched
        <3>3. Waiting \subseteq 1..generation
            BY <1>0 DEF DialogTypeInv, Waiting
        <3>4. DialogTypeInv'
            BY <1>0, <2>1, <2>3, <2>4, <2>6, <3>1, <3>2, <3>3 DEF DialogTypeInv, deviceVars, dialogVars
        <3>5. TimersInv'
            BY <1>0, <2>1, <2>4, <2>6 DEF TimersInv, DialogTypeInv, Running, Delay
        <3>6. \A b, c \in batches' : b # c => b.files \cap c.files = {}
            BY <1>0, <2>6, HandedApart DEF FatesInv, Dispatched
        <3>7. /\ 1..generation \subseteq Waiting' \cup Sent' \cup told' \cup replaced'
              /\ Waiting' \cap (Sent' \cup told' \cup replaced') = {}
              /\ Sent' \cap (told' \cup replaced') = {}
              /\ told' \cap replaced' = {}
            BY <1>0, <3>1 DEF FatesInv
        <3>8. Together(Waiting') /\ Together(Sent') /\ Together(told') /\ Together(replaced')
            BY <1>0, <3>1 DEF FatesInv, Together
        <3>9. Together(dropped)' /\ Together(Waiting)' /\ Together(Sent)' /\ Together(told)' /\ Together(replaced)'
            BY <2>1, <2>6, <3>8 DEF Together
        <3>10. FatesInv'
            BY <2>1, <2>6, <3>6, <3>7, <3>9 DEF FatesInv
        <3> QED
            BY <3>4, <3>5, <3>10 DEF DropsInv
    <2> QED
        BY <2>2, <2>5, <2>6
\* The files of the chooser go to one recipient, or to none.
<1>11. ASSUME chooser # NoFiles, chooser' = NoFiles, Handed(chooser), replaced' = replaced,
              UNCHANGED <<dropped, generation, timers, deviceVars, dialogVars, pauses>>
       PROVE  DropsInv'
    <2>1. Waiting = chooser /\ Waiting' = {} /\ Waiting \subseteq 1..generation
        BY <1>0, <1>11 DEF Waiting, DialogTypeInv
    <2>2. \/ Sent' = Sent \cup Waiting /\ told' = told
          \/ Sent' = Sent /\ told' = told \cup Waiting
        BY <1>11, <2>1 DEF Handed
    <2>3. Picked' = Picked
        BY <1>11 DEF Picked, dialogVars
    <2>4. DialogTypeInv'
        BY <1>0, <1>11, <2>1, <2>2, <2>3 DEF DialogTypeInv, deviceVars, dialogVars
    <2>5. TimersInv'
        BY <1>0, <1>11 DEF TimersInv, Running
    <2>6. \A b, c \in batches' : b # c => b.files \cap c.files = {}
        BY <1>0, <1>11, <2>1, HandedApart DEF FatesInv
    <2>7. /\ 1..generation \subseteq dropped \cup Sent' \cup told' \cup replaced
          /\ dropped \cap (Sent' \cup told' \cup replaced) = {}
          /\ Sent' \cap (told' \cup replaced) = {}
          /\ told' \cap replaced = {}
        BY <1>0, <2>2 DEF FatesInv
    <2>8. Together(Sent') /\ Together(told')
        BY <1>0, <2>2 DEF FatesInv, Together
    <2>9. Together(dropped)' /\ Together(Waiting)' /\ Together(Sent)' /\ Together(told)' /\ Together(replaced)'
        BY <1>0, <1>11, <2>1, <2>8 DEF FatesInv, Together
    <2>10. FatesInv'
        BY <1>11, <2>1, <2>6, <2>7, <2>9 DEF FatesInv
    <2> QED
        BY <2>4, <2>5, <2>10 DEF DropsInv
<1>12. ASSUME NEW d \in Devices, ChooseRecipient(d)
       PROVE  DropsInv'
    BY <1>11, <1>12, StartSendHands DEF ChooseRecipient
<1>13. CASE CancelRecipientChooser
    <2>1. Handed(chooser)
        BY <1>13 DEF CancelRecipientChooser, Handed, Sent
    <2> QED
        BY <1>11, <1>13, <2>1 DEF CancelRecipientChooser
<1> QED
    BY <1>2, <1>3, <1>4, <1>5, <1>6, <1>7, <1>8, <1>9, <1>10, <1>12, <1>13 DEF DropsNext

\* Whatever order the events of a gesture, the timers and the messages come in,
\* and however late: a dropped file is in one place, goes out in one transfer at
\* most, and stays with the files dropped just before and after it.
LEMMA InvImplies == DropsInv => DropsGoTogether
<1> SUFFICES ASSUME DropsInv PROVE DropsGoTogether
    OBVIOUS
<1>1. /\ DOMAIN Fates = 1..5
      /\ Fates[1] = dropped /\ Fates[2] = Waiting /\ Fates[3] = Sent
      /\ Fates[4] = told /\ Fates[5] = replaced
    BY DEF Fates, Waiting
<1>2. ASSUME NEW f \in 1..generation
      PROVE  Cardinality({i \in DOMAIN Fates : f \in Fates[i]}) = 1
    <2>1. PICK k \in 1..5 : f \in Fates[k]
        BY <1>1 DEF DropsInv, FatesInv
    <2>2. \A i \in 1..5 : f \in Fates[i] => i = k
        BY <1>1, <2>1 DEF DropsInv, FatesInv
    <2>3. {i \in DOMAIN Fates : f \in Fates[i]} = {k}
        BY <1>1, <2>1, <2>2
    <2> QED
        BY <2>3, FS_Singleton
<1>3. \A i \in DOMAIN Fates : Together(Fates[i])
    BY <1>1 DEF DropsInv, FatesInv
<1> QED
    BY <1>2, <1>3 DEF DropsGoTogether, DropsInv, FatesInv, Together

THEOREM DroppedFilesStayTogether == DropsSpec => []DropsGoTogether
<1>1. DropsSpec => []DropsInv
    BY InitDrops, DropsStep, PTL DEF DropsSpec
<1> QED
    BY <1>1, InvImplies, PTL

=============================================================================
