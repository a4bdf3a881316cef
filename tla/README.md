# AirDropd: models, checks and proofs

AirDropd receives and sends files over Apple's AirDrop protocol from Windows and
Linux. It is a desktop program (`core/`, iced UI, tokio runtime) plus an open
implementation of the AWDL link layer (`OWDL/`). This directory holds TLA+
models of it, TLC configurations that check them on small instances, and proofs
checked by TLAPS. Line numbers in this text and in `PROJECT.json` refer to
`src/`; `PROJECT.json` maps every definition that models code to its lines.

To check a model: `tlc -workers 2 -config MCIncomingTransfer.cfg
MCIncomingTransfer.tla` (and likewise for the others). To check the proofs:
`tlapm IncomingTransferProofs.tla` and the other `*Proofs.tla`.

## 1. Inventory

### How the program runs

One UI thread runs `AirDropdApp::update` (`core/src/ui/mod.rs`), one message at
a time. A message may start a *task*; the task runs on a multi-threaded tokio
runtime beside the UI and beside the other tasks, and its result comes back as
another message. `AirDropdServices::initialize` (`core/src/lib.rs`) runs once on
a task of its own, started before the window opens. The HTTPS receiver spawns
one task per connection. Timers send the UI `PollIncomingTransfer` (250 ms),
`PollReceived` (500 ms) and similar messages.

Components share state through `Arc<RwLock<..>>` and `Arc<Mutex<..>>`: the
configuration, the AirDrop object, the BLE manager, the discovery tables, the
prompt slot, the progress slot. A lock is held for one read or one write, and
almost never across the whole of an operation; this is where most hazards come
from. A few flags are atomics. Received paths travel on a tokio broadcast
channel.

### Components

| Component | State | Operations | What makes it hard | What makes it correct |
|---|---|---|---|---|
| Receive prompt (`protocols/incoming_transfer.rs`, part of `ui/mod.rs`) | one prompt slot, a oneshot channel per ask, the auto-accept flag, the UI's copy of the prompt | `wait_for_decision`, `peek`, `respond`, `set_auto_accept`; the dialog's two buttons | one slot for many requests, a 120 s timer, answers that do not say what they answer, peek results out of order | no ask stranded, an answer reaches its ask, every ask returns, one "Accept" grants one ask |
| HTTPS receiver (`protocols/http_server.rs`, `cpio_extract.rs`) | per connection: the request being handled; the receive folder | `/Discover`, `/Ask`, `/Upload`, link shortcuts, archive extraction | connections in parallel, names chosen before files are created, archives that break off, bodies in pieces | only whole files and granted links are announced, no saved file is lost, handlers end |
| Received-file feed (`lib.rs`, `ui/mod.rs`) | a broadcast ring of 16 paths, the UI's position in it | send, `PollReceived` | overflow between two polls | nothing is lost within capacity, the newest file is always shown |
| Settings, DJ mode, advertising (`ui/mod.rs`, `lib.rs`, `protocols/airdrop.rs`, `network/ble.rs`) | configuration, form, view, the live flags: auto-accept, mDNS records, BLE beacon | visibility picker, save, reset, DJ mode in and out, `apply_settings`, `initialize` | applies overlap and work from copies; every step can fail | the live services end up as configured |
| Outgoing transfers (`protocols/airdrop_client.rs`, `ui/mod.rs`) | one shared progress slot, UI status, chosen device, a temporary archive each | choose files, discover with retries, ask, build an archive, upload, send a link | several sends share the slot and the quota; files change between their scan and the archive | nothing outlives a send, the quota is overrun by a bound, success means the files have arrived |
| Licensing (`licensing/`) | week, counters, activations per key, registration | activate, deactivate, check and record sends and uploads | check and record are far apart; the week changes in between | limits hold up to that, a registered copy is not limited |
| Web Drop (`protocols/webdrop.rs`, `config.rs`) | guests and their folders, the folders on disk, per connection the form being read | page, upload, folder naming and renaming | uploads in parallel with renames, forms cut anywhere, browsers that vanish | files go to their guest's folder, as they were sent, and none is lost |
| cpio codec (`cpio_extract.rs`, `airdrop_client.rs`) | none | write an archive, read one | sizes, padding, truncation, folders | what was written is read back |
| Device discovery (`network/discovery.rs`) | map of services by name and address | browse tasks, resolve, remove | services that move and go | who is gone leaves the list |
| BLE scanning (`network/ble.rs`) | map of beacons with a smoothed signal and a date | a scan every 2 s, ageing after 45 s | a stack that keeps departed peripherals | likewise |
| Device classification (`discovery.rs`, `ble.rs`) | none | the kind of a device from its records and beacons | a dozen rules whose order matters | the kind is that of the device |
| Device list (`ui/mod.rs`) | rows, frozen or not, names learned by probing | refresh, probe, merge, freeze | refreshes overlap and probe for seconds; maps in any order | rows, kinds and ways in do not depend on the order, ghosts leave, arrivals stay |
| Drag and drop, file dialogs (`ui/mod.rs`) | files dropped, a generation, an open chooser | drop, timer, choose | timers that race with drops | files dropped together go together, each once |
| DJ cabinet (`ui/mod.rs`, `config.rs`) | drawers, their order, the one being renamed | scan, rename, move | the disk changes by itself; renames fail halfway | the order is the DJ's, guests keep their folder |
| Settings file and start-up (`config.rs`, `lib.rs`, `network/firewall.rs`) | `config.toml`, first-run flags | load, migrate, save, `initialize`, the question about the firewall | crashes and failures inside a write, files of older versions | what was saved is read back |
| TLS store (`protocols/tls_store.rs`) | `cert.der`, `key.der` | load or create | two files written one after the other | the certificate fits the key |
| AWDL manager (`protocols/awdl.rs`) | state, configuration, daemon, peers | initialize, start, stop, update, refresh, send data | calls out of turn, failures halfway | the state says what runs |
| OWDL daemon (`OWDL/src`) | peer table, tasks, an event ring, a stop channel | announce, receive, prune, stop | loss, delay, repetition, foreign frames, a stop overtaken by a start | the table holds what others announce, a stopped daemon is silent |
| Views, styles, icons, tray; interface selection; legacy TCP; activity log; plist bodies | none or trivial | drawing, system calls, libraries | | not modelled, section 5 |

### How they interact

* The HTTPS receiver calls `wait_for_decision` for each `/Ask` and sleeps until
  the prompt service returns. The prompt's user is the UI thread, which polls.
* The receiver sends the path of each saved file on the feed; the UI polls it.
* The UI writes the configuration; `apply_settings` copies it to the prompt's
  flag, the mDNS records (through `AirDrop`) and the BLE beacon. The receiver
  reads `discoverable` from the configuration itself at each request.
* DJ mode writes the prompt's flag directly and keeps the earlier setting.
* Sends and Web Drop uploads ask the license store before and record after.
* Discovery and BLE feed the device list, which the UI refreshes by tasks whose
  results come back as messages. The AWDL manager only keeps its own list of
  peers; no part of the UI reads it.
* Dropped files and the device list meet in `ProcessDroppedFiles`, which starts
  a transfer when there is one recipient only.
* `config.toml` is written by whoever changes the configuration, under its lock;
  the guests' folders are on the disk, in the configuration and in the cabinet.

The hazards of each part are listed at their lines in `PROJECT.json`.

## 2. Modules

| Module | Models | Checked by |
|---|---|---|
| `AskGate` | what the prompt promises, abstractly | `gate`, proved as a refinement |
| `IncomingTransfer` | the prompt slot, channels, timers and the dialog | `gate`, proved in `IncomingTransferProofs` |
| `ReceivedFeed` | the broadcast ring and the poll | `server`, proved in `AirDropServerProofs` |
| `AirDropServer` | connections, `/Ask`, `/Upload`, the receive folder; composes `AskGate` and `ReceivedFeed` | `server`, proved in `AirDropServerProofs` |
| `Settings` | applies, start-up, DJ mode | `settings`, `settings_dj`, `settings_off`, proved in `SettingsProofs` |
| `Licensing` | the license and the weekly counters; extended by the next two | `demo`, proved in `DemoProofs` |
| `Sending` | outgoing transfers, the progress slot, the UI's status, the demo quota | `demo`, proved in `DemoProofs` |
| `WebDrop` | guests' uploads, their folders and renames, the choice of names, the demo quota | `demo`, proved in `DemoProofs` |
| `Cpio` | the archive, written and read, over cells | `transfers`, its writer in `UploadsProofs` |
| `Uploads` | one upload from the scan of the files to the answer; over `Cpio` | `transfers`, `archive_grown`, proved in `UploadsProofs` |
| `WebDropPost` | one connection to Web Drop, cell by cell | `transfers`, proved in `UploadsProofs` |
| `Frames` | the OWDL frames, byte by byte | `owdl`, proved in `AwdlProofs` |
| `Owdl` | daemons, their tasks and the network; over `Frames` | `owdl`, `owdl_macs`, proved in `AwdlProofs` |
| `Awdl` | the managers; over `Owdl` | `owdl`, `owdl_macs`, proved in `AwdlProofs` |
| `DeviceKinds` | the rules that tell what a device is | `desktop`, `devices` |
| `DeviceRows` | the merging of services and beacons into rows; over `DeviceKinds` | `desktop`, `devices` |
| `RowMerge` | two refreshes over a world that stands still, in every order | `desktop`, proved in `RowMergeProofs` |
| `Discovery` | the mDNS and BLE sources in a world that moves; over `DeviceRows` | `devices` |
| `DeviceList` | refreshes, probes and the list; over `Discovery` | `devices` |
| `Storage` | `config.toml`, the certificate, start-up, crashes | `desktop`, proved in `DesktopProofs` |
| `Cabinet` | guests' folders and DJ drawers; over `Storage` | `desktop`, proved in `DesktopProofs` |
| `Drops` | dropped files, their timers, the chooser | `transfers`, proved in `DesktopProofs` |
| `MC*` | small instances and compositions | |

An `MC` module that takes components which share no variable has a variable
`side`: a behaviour is of one of them, the others stay as they are. The run is
one, the questions are not mixed.

`AirDropServer` is composed with the abstract gate and not with the slot:
`GateRefinement` proves that the slot implements the gate, for every number of
asks, so whatever the server model shows with `AskGate` it shows for the slot,
and the state space stays small enough to add files and the feed.

### Receive prompt

`pending` is the slot (`Arc<Mutex<Option<PendingAsk>>>`), `phase` is where the
task of an ask stands in `wait_for_decision`, `chan` is its oneshot channel as
both ends left it, `shown` is `pending_incoming`, `peeked` are results of
`peek()` on their way to the UI thread, `click` are the answers and the tasks
that carry them. Each lock of the slot is one action; what happens between two
locks is another. Two points need care and are in the model because the code
does them: overwriting the slot drops the old sender, which wakes the older ask
(`InstallPrompt`), and tokio's `timeout` polls the receiver before the timer, so
an answer that is already there wins (`TimerFires` needs an open channel). After
the timer the receiver is gone *before* the slot is locked again (`TimerFires`,
`TakeAfterTimeout`): an answer in this gap is lost.

Bounds: number of asks (2), peeks under way (2), answers (2). Two asks make one
displace another, time out under another and be answered by the other's answer;
two peeks can arrive out of order; two answers can both be under way.

### HTTPS receiver and feed

`conn` is what the task of each connection is doing; `todo` are the archive
entries not unpacked yet; `chosen` is the name a task found free and has not
created yet; `disk` is the receive folder; `sent`, `cursor`, `shown` are the
ring. Choosing a name and creating the file are two actions, because they are
two system calls and connections run in parallel. Extracting, announcing and
answering are steps in the order of the code. `HandleUpload` covers an upload
refused for its content type, one that is no archive and one whose body ends
early. `beaten`, `replaced` and `backlog` are history variables: they record a
lost race for a name, a file written over, and the longest backlog, and no
action reads them.

Paths below a directory are abstracted to the leaf name here; directories and
the cleaning of names are in `Cpio`.

Bounds: two connections (two requests and one), one file name (so that every
upload competes), names up to "name (1)" (so that the UUID name is reached), a
ring of 2 (so that it overflows), one user answer. Archives: one file; a file
and then one cut off in its data; no archive at all.

### Settings

`cfg` is the shared configuration, `gateAuto`, `mdns` and `ble` are the live
services, `task` are apply tasks at their current step, `boot` is where
`initialize()` stands. `Snapshot` is the copy `apply_settings` makes;
`UnregisterAll` and `RegisterMdnsServices` are the two halves of
`refresh_advertising`, under one lock, and read the configuration again;
`Advertise` uses the copy. Each of these can fail in the way the code lets it:
a withdrawal that fails leaves its record in `mdns` and takes it out of
`registered` (`registered_services`), so no later apply withdraws it
(`Forgotten`); only a publication under the same name replaces it.
`stale`, `failed` and `alone` are history variables that say under which
circumstances a property promises something.

Bounds: two apply tasks, two modes. "everyone" and "receiving off" differ in all
that is published; contacts-only would add nothing the code distinguishes beyond
the text of a record.

### License and outgoing transfers

`Licensing` has the fields of `LicenseFields` (`key`, `prints`, `demo`), what
`machine_fingerprint()` yields now (`machine`: a hash of the host name, which
the user can change) and the day. Days are grouped into spans with the same week
id; `Calendar` gives the id of each. An id is the calendar *year* with the ISO
week, as `current_week_id` writes it, so the week of New Year has two. Each
operation of the store runs under the lock of the configuration and is one
action or a part of one; `CheckSend` and `CheckQrUpload` are there because a
check rolls the counters over even when it refuses.

In `Sending`, `send` is where the task of each transfer stands in
`send_files_inner` or `send_link`, `slot` is the shared `send_progress`, and
`progress`, `status`, `selected` are the UI's. The percentages in the slot are
abstracted to whether it holds one, which is what the UI and the properties tell
apart. The actions follow the awaits of `send_files`: listing the files,
`/Discover` (its retries are one step with either outcome), `/Ask`, building the
archive, chunks, the end of the upload, clearing the slot. Any of them can fail.
`start_send` checks the quota and starts the task in one step of the UI; the UI
counts the transfer in another, when `FileSendCompleted` arrives. `SendLink`
skips the check and the slot and is counted all the same. `fileDone` and
`unlimited` are history variables.

Bounds: two transfers at once, three in all, a limit of one and two spans: a
third starts beside one that the check has let through although it is the
second, before or after the week changed. Three kinds of device: with address
and port, with an address only, known from Bluetooth only. Two keys and two
fingerprints with one activation each reach every refusal of `activate`.

### Web Drop

`folderOf` is `webdrop_devices`, `dirs` and `disk` are what lies under
`WebDrop`, `upload` is the task of each POST. `resolve_webdrop_folder` and
`rename_webdrop_folder` run under the lock of the configuration, so each is one
action; `unique_receive_path` and `File::create` come after the lock is
released, and are an action each (`ChooseName`, `CreateFile`). Once created a
file is reached through its handle, so a rename does not disturb the stream.
`StreamEnds` has both ends the parser accepts: the boundary, and a connection
that ended. A folder name comes from the guest's label; two guests may get the
same folder, and the model lets them. `moved`, `beaten`, `late`, `qrDone` and
`qrUnlimited` are history.

The path of a file is its folder, its name and the number that
`unique_receive_path` adds. When all numbers are taken the code uses a UUID: the
model draws a new number that no one else gets.

Bounds: two uploads at once, two guests, two folders, one name with numbers 0
and 1, at most two files in an upload and three in all: the third file needs the
UUID. A limit of one and the two spans of one ISO week.

`MCDemo` checks `Sending` and `WebDrop` in one run, which is of one *side* or
the other: they share nothing but `Licensing`.

### Archives and uploads, cell by cell

`AirDropServer` and `WebDrop` treat a file as a whole; `Cpio`, `Uploads` and
`WebDropPost` look at what is inside of the connections. Data are sequences of
*cells*: a cell is a magic, a digit, a segment of a path, a line end or a unit
of data, never a character. What depends on the place of something in a stream,
sizes, padding, pieces, delimiters, is kept; what is printed or compressed is
not.

`Cpio` has the writer (`BuildArchive`) and the reader (`ExtractTurn`, one turn
of the loop of `extract_cpio`). Numbers have base 4 and fields have one or two
digits, so that a size can be too large for its field; newc records are padded
to 2 cells. `Uploads` has the scan (`Collect`), the question to the receiver's
user while which the files may change (`FileChanges`), the archive (`Build`),
the chunks, and on the other side the head, the body readers and the archive,
record by record. `up` and `down` are the two directions of the connection,
`Stream` is what the receiver has and will read. A foreign sender's upload is
any of `Foreign`: newc, with a length or in chunks, waiting for `100 Continue`
or not. `Break` ends the connection at any moment, with any part of the data on
its way lost.

`WebDropPost` is one browser: the head, then the form, which `Fill` reads in
pieces of any size. `Kept` is what `MultipartReader` holds back because it could
be the beginning of the delimiter.

Bounds: two files of three are sent, two with one name or one in a folder; a
file has up to 4 cells, which is too large for a size of one digit; one file
changes once. Chunks have 3 cells, a writer waits once 4 are on their way. The
receiver has nothing, a file of that name, or a file where a folder is needed. A
form has up to four parts, one with data that begins like the delimiter, one
without a file, and one field too long.

### OWDL daemons and AWDL managers

`Frames` has the frames of `wire.rs` and `frame.rs` byte by byte; what a daemon
hears (`HeardPsfs`, `HeardData`, `HeardForeign`) is what its parser makes of the
bytes another one wrote. In `Owdl` a daemon is one `AwdlDaemon` value:
`running`, the watch channel `shutdown` (its value and how often it was set),
the starts whose `tasks` have not ended, the ring of events, the peer `table`.
`air` holds the announcements under way: they can be received in any order,
again and again, or be lost. `Awdl` has a manager per machine, its methods (each
under the manager's mutex) and `EndInitialize`, the rest of `initialize` after
its await.

A watch channel keeps only its latest value, so a task sees a stop only if it
looks before the next start, or by the version it has seen: `StartTasks`
subscribes anew, `Told` says what an old task sees.

Both managers are created with one name, as `lib.rs:59` creates every manager
from `AwdlManagerConfig::default()`, and so have one MAC; `update_config`, which
the program itself does not call, can give one of them another. That managers
find each other is no property here: those of the program have one MAC and never
do (`owdl_macs`).

Bounds: two daemons and two machines, of which one is driven and the other
started and left; one announcement per daemon counted apart (later ones are
repetitions), a ring of 1 (so that it overflows), one period until an entry may
be stale, one foreign frame, one reconfiguration. A daemon is stopped once, or
twice where no foreign frame comes and nothing is reconfigured (`MCNext`):
`StopEndsTasks` needs the second stop, and what may be in the tables does not
depend on it.

### Sources and rows of the device list

`DeviceKinds` has the rules of `discovery.rs` and `ble.rs` that decide on a
kind, in the order of the code. A name is an identity and the words the code
would find in it; models and OS versions are the families it recognises.
`DeviceRows` has the three loops of `fetch_devices` (`AddService`, `AddBeacon`,
`MergeRow`), which take one element each: the code walks hash maps, whose order
is new each time, and whoever uses the operators chooses the order.

`RowMerge` takes any world of up to four services and beacons out of a catalogue
of 18 that real devices send, refreshes it twice in any order and compares. What
its theorem needs of a catalogue is `CatalogueAssumption`.
`Discovery` and `DeviceList` are the moving picture: a world that changes within
a `budget`, the maps of the two sources, service types that are `browsed` or
whose browse failed at the start, refreshes that overlap. A refresh has
no identity; the model keeps what each stage holds: `waiting` for the lock of
`device_discovery`, the one `prober` that has it (the guard lives through all of
the probes), `merging`, `arriving`. Lists under `Mode` in every order are worked
out by `Lists`.

Bounds: three changes of one service with two addresses (comes, moves, goes; or
comes, goes, comes), or three of one beacon; two refreshes under way; two signal
values that differ by 2 dB, which the smoothing needs several steps for; one
period until a beacon is left out, where the code has 22.

### The desktop: settings, folders, drops

`Storage` has `config.toml` as the set of fields the file has: a save truncates
the file and writes it, so a failure or a crash leaves any beginning
(`Beginnings`). What `load` makes of a beginning follows from serde's defaults:
a missing required field makes it unreadable, which yields a default
configuration that is not saved, and missing optional fields get defaults.
`certFile` and `keyFile` hold the number of the pair they are of, or a torn part
of it (`Cut`). `boot` is where `initialize()` stands; `prompts` are the firewall
questions. `Cabinet` adds the guests' folders on the disk, the drawers of DJ
mode and their order; a folder is in three places, and `RenameSubmit` changes
them one after the other with every way it can fail. `RemoveFolder` is the
user's file manager. `owed`, `parted` and `behind` are history: the memory is
ahead of the file, a start knew less than the end before it, the user removed a
folder since the start. A rename whose save fails sets none of the last two: the
folder has its new name, the order of the drawers keeps the old one, a *ghost*,
until the next scan.

`Drops` counts time in half delays of the drop timer (`TimePasses`), and timers
that have run out may be heard of in any order (`ProcessDroppedFiles`).

A behaviour of `MCDesktop` is of one side: settings, cabinet, or the rows of the
list, which are checked here because they too need no fairness. The dropped
files are a side of `MCTransfers`. Bounds: two starts, two changes of the configuration,
one failed write, two guests, of whom one or both are known from earlier runs,
three folders, which is enough for a rename that fails, a scan or another rename
into the ghost's name, and a third drawer; three files dropped one by one and one chosen in a dialog, two
reachable devices and one that is not.

## 3. Runs and what they show

| Run | Properties | Shows |
|---|---|---|
| `gate` | `NoOrphanPrompt` | slot and sleeping tasks agree: no live ask is out of reach of an answer, no finished ask is in the slot (except between timer and lock) |
| | `AnswerReachesItsAsk` | an answer goes to the dialog's ask while that ask can be answered |
| | `EveryAskReturns` | a displaced, timed out or answered ask returns |
| | `DialogClears` | the dialog does not stay after its request is over |
| | `ImplementsGate` | the slot refines `AskGate` |
| `server` | `AnnouncedIsWhole` | files of broken archives stay on disk and are never announced; a link announced came with a granted ask |
| | `ReplacedOnlyByRace` | a saved file is written over only by a task that had found its name free before it was created |
| | `NothingLostWithinCapacity`, `NewestIsShown` | the feed loses the oldest of an overflow only |
| | `RequestsFinish` | handlers end, whatever the user and the archive do |
| `settings` | `MdnsFollowsConfig` | mDNS follows the configuration under any overlap, as far as the program knows of its records |
| | `AutoAcceptAsConfigured`, `BleAsConfigured` | the flag and the beacon follow it when changes come one at a time |
| `demo` | `KeyMatchesPrints` | the key is kept exactly while a fingerprint holds it |
| | `NothingLeftBehind` | no progress, status or archive outlives the transfers |
| | `OverrunIsBounded`, `QrOverrunIsBounded` | a demo exceeds its weekly limits by no more than what ran together |
| | `FilesFollowTheirGuest` | files lie in their guest's folder through renames, unless the rename fell between lookup and creation |
| | `FilesAreKept` | no step loses a file; only a lost race for a name truncates one |
| `transfers` | `OkMeansArrived` | a sender that hears of success has all of its files in the receive folder, each whole and under its own path |
| | `GoodSendSucceeds` | this program's upload fails only for a file that grew or is too large, a folder that cannot be made, or a lost connection |
| | `BrokenUploadLeavesNothing` | a chunked upload that breaks off leaves nothing behind |
| | `PartsArriveAsSent` | files of a form arrive as sent, wherever the data is cut; only the last may be cut short by a browser that left |
| | `RequestsEnd` | uploads and forms end for both sides |
| | `DropsGoTogether`, `DropsAreTaken` | each dropped file has one fate, and those dropped together share it |
| `owdl` | `PeersAreAnnounced` | an entry of a peer table is what some other daemon announces, never a mix |
| | `RunningIsServed` | a manager that says Running has a daemon with tasks that no earlier stop will end |
| | `StopEndsTasks` | a stopped daemon falls silent |
| `devices` | `GhostsLeave` | who is gone for good leaves the list for good |
| | `ArrivalsStay` | a service that is there to stay gets a row and keeps one, if its type is browsed |
| `desktop` | `RestartKeepsSettings` | a start finds the settings of the last complete save |
| | `CertificateFitsKey` | the server never listens with a certificate and a key of different pairs |
| | `GuestsKeepTheirFolder` | a guest's files stay together through renames, failures and restarts |
| | `OrderIsTheDjs` | the order of the drawers changes only where the DJ moves one, whatever saves fail; a rename keeps the place only if it could be saved, and a ghost's name can double a drawer |
| | `RowsAreStable` | rows do not depend on the order of the hash maps, but for the signal of a row on Wi-Fi |
| | `ReachableRowsStayReachable` | a device with a way in is listed with one |
| | `NoPeerIsLost` | what is known of a device is in its row, and the list for its kind has it |
| `settings_dj`, `settings_off`, `archive_grown`, `owdl_macs` | one each | see Findings |

Every module has a type invariant as well. Those of `IncomingTransfer`,
`AirDropServer`, `Settings`, `Sending`, `WebDrop` and `Storage` are proved, and
those of `ReceivedFeed`, `Drops`, `Owdl` and `Awdl` as far as their proofs need
them; the others were checked while their modules were built and are kept for
the reader and for later proofs, and no run repeats them.

Deadlock is checked in `settings`, `demo`, `owdl` and `devices`. In the others a behaviour may really end: asks, answers, requests and drops are
bounded and may all be used up (`gate`, `server`, `desktop`), a program that is
down may stay so, a refreshed world is finished at some point (`desktop`), and
so is an upload (`transfers`). What would be a deadlock of the program is
excluded by `EveryAskReturns`, `RequestsFinish`, `RequestsEnd` and
`DropsAreTaken`.

### Fairness

Weak fairness is assumed for what tokio and the iced runtime schedule anyway: a
task that is ready is polled, the timer of a sleeping task fires, the UI's
interval timers fire, a message sent to the UI is handled. Nothing makes a peer
send, a user answer or a setting change.

* `server`: the gate's `Refuse` is fair: this is what `EveryAskReturns` of
  `gate` promises for an ask nobody answers.
* `transfers`: the steps of sender, receiver and Web Drop's reader are fair: a
  task that has data or room goes on, and TCP delivers or breaks. Both ends are
  programs that go on; a peer that falls silent is outside, and neither side has
  a timeout for it. Time passes, and a drop timer that has run out is heard of.
* `owdl`: tasks are polled and `select!` picks among ready branches at random,
  so a task that was told to stop ends some time. No more is asked: the air may
  lose everything, and nobody is made to call `start` or `stop`.
* `devices`: the subscription's timer goes off, the lock of tokio is handed out
  in order, probes end (1.5 s), tasks are polled, messages arrive, mDNS events
  and Bluetooth scans go on. Of several lists under way *some* one arrives, a
  single one may be overtaken. Reaching the main view and freezing are up to the
  user.
* `settings`, `demo` and `desktop` have safety properties only. For a transfer
  beside others no fairness would be justified: neither the response of a
  receiver nor an upload has a timeout, so a silent peer keeps a transfer for
  ever.

### Findings

Each has a run in which TLC finds a violation.

* `settings_dj`: the task of Save ends with `ShowMainView`. A user who saved,
  went back and entered DJ mode before it ended is put on the main view without
  `ExitDjMode`, and auto-accept is not restored.
* `settings_off`: `unregister_all` forgets every record before it withdraws
  them, and a withdrawal that fails is a warning. With receiving off nothing is
  published afterwards that would replace the record: the computer stays in
  others' lists, no later apply withdraws it, and the status text says "you
  won't appear in others' share lists".
* `archive_grown`: a file that has grown since it was measured runs over the end
  of its record; only one that shrank is padded. The receiver refuses the
  archive after the whole upload, where a comment promises that it stays valid.
* `owdl_macs`: the MAC of a daemon, "locally-unique" by its comment, is a hash
  of the device name, and every manager has the default name "AirDropd-Device".
  All computers that run the program have one MAC, each takes the others'
  announcements for the echo of its own (`transport.rs:150`), and none ever
  lists another.

Other differences between what the text says and what the code does came up
while modelling; the models have the code's behaviour, and the properties above
name them as exceptions where they matter.

* A request that timed out takes *whatever* prompt is in the slot, so it can
  withdraw a newer one, which is refused neither answered nor timed out
  (`incoming_transfer.rs:131`).
* Two uploads of one name at the same time: the second truncates the first one's
  file, though both chose a "unique" name (`cpio_extract.rs:105`, `:258`).
* Overlapping applies use copies of the configuration for BLE; the older may
  come last, and the beacon contradicts the configuration (`lib.rs:125`,
  `:147`).
* "Demo: 3 AirDrop sends / week" (`licensing/mod.rs:3`): transfers that start
  before either is counted all pass the check.
* "`Some(percent 0..=100)` while a transfer runs" (`airdrop_client.rs:23`): the
  first of two transfers to end clears the slot under the other (`:72`).
* A phone of unknown make is listed as an iPhone, also in the mode for Apple
  devices (`discovery.rs:567`, `config.rs:20`).
* `DataFrame::parse` skips a MAC more than `encode` writes, so every data frame
  is dropped as somebody else's (`frame.rs:229`, `:242`).
* "Stable device identifier" (`config.rs:102`): a file of an older version, or
  one that cannot be read, gets new ids at every start until something is saved.
* A crash inside the write of `key.der` makes every later start fail there, for
  good; Web Drop, BLE and AWDL are then not started either, while mDNS goes on
  to announce a server that does not listen. The server looks at the key only:
  rustls 0.20 does not compare it with the certificate.
* A folder whose rename could not be saved is split at the next start: the
  guest's new files go to a folder of the old name (`config.rs:355`).
* The form of a browser that leaves inside the last file is taken as complete:
  the part that arrived is kept and announced (`webdrop.rs:566`). A form without
  a line end behind its last delimiter is answered 400 although its files are
  saved.
* `read_http_response` takes `100` for the final answer, and the end of the
  connection for a `100` while it waits for one (`airdrop_client.rs:541`).
* Files dropped while the chooser is open replace those it was opened for,
  without a word (`ui/mod.rs:721`). A row known from Bluetooth only can be
  chosen as their recipient; the files are gone then, with a message.
* A rename that changes the disk but cannot be saved (`config.rs:355`, `:362`)
  costs the drawer its place: the order keeps the old name (`ui/mod.rs:868`), and
  the next scan puts the folder last, under the new name, though the user was
  shown an error. For renames, `OrderIsTheDjs` speaks only of those that were
  saved.
* If another drawer is renamed to the old name before that scan, the order has
  the name twice, and no scan removes one of the two: the drawer is shown twice
  until it is renamed or its folder leaves. So it is after a folder is removed
  outside and its name given to another drawer within the 2 s of a rescan.
  `OrderIsTheDjs` names that step and says nothing while a drawer is shown twice.
* After a rename that failed, Enter does nothing: the text is cleared with the
  error.
* A smoothed signal that does not move makes a beacon vanish after 45 s though
  it is near (`ble.rs:239`); a probe that fails is remembered for five minutes,
  then the row gets another name and its selection is lost; two devices of one
  name are one row.
* A beacon's signal is written over that of a Wi-Fi row of its name
  (`ui/mod.rs:1812`). With two beacons of the name, as of a phone whose Bluetooth
  address has changed, the row has the signal of either, and jumps between the
  two from one refresh to the next; rows known from Bluetooth only take the
  stronger.
* A service type whose browse fails is not browsed until the program is started
  again (`discovery.rs:931`): discovery counts as running, and its devices are
  never listed.

## 4. Proofs

Each module of proofs is about one specification and holds, in this order, the
inductive invariant, what each action does to the state it names, one lemma per
action or group of actions, and at the end the theorems. All of the invariants
below were checked with TLC on the run's instance before they were proved.
Nothing is assumed but the named assumptions of the modules, which TLC evaluates
in every run. `DemoProofs` is about `Sending` and `WebDrop`, `DesktopProofs`
about the composition of `Storage` and `Cabinet` and about `Drops`.

| Theorem | States | Inductive invariant |
|---|---|---|
| `IncomingTransferProofs!SlotInvariant` | `NoOrphanPrompt` | `IInv` |
| `IncomingTransferProofs!AnswerTarget` | `AnswerReachesItsAsk` | `IInv` |
| `IncomingTransferProofs!GateRefinement` | `ImplementsGate` | `IInv` |
| `AirDropServerProofs!TaskInvariant` | types, `Stages` | `TaskInv` |
| `AirDropServerProofs!AnnouncedFiles` | `AnnouncedIsWhole` | `TaskInv`, `FilesInv` |
| `AirDropServerProofs!SavedFilesStay` | `ReplacedOnlyByRace` | `TaskInv`, `NamesInv` |
| `AirDropServerProofs!FeedIsLossless` | `NothingLostWithinCapacity` | `FeedInv` |
| `SettingsProofs!TypeInvariant` | types | `TypeInv` |
| `SettingsProofs!MdnsIsAsConfigured` | `MdnsFollowsConfig` | `MdnsInv` |
| `SettingsProofs!AutoAcceptIsAsConfigured` | `AutoAcceptAsConfigured` | `AloneInv`, `AutoInv` |
| `SettingsProofs!BleIsAsConfigured` | `BleAsConfigured` | `AloneInv`, `BleInv` |
| `DemoProofs!OverrunBound` | `OverrunIsBounded` | `IInv` |
| `DemoProofs!KeyAndPrints` | `KeyMatchesPrints` | `KeyInv` |
| `DemoProofs!TransfersLeaveNothing` | `NothingLeftBehind` | `LeftInv` |
| `DemoProofs!GuestsFiles` | `FilesFollowTheirGuest` | `Placed` and what is in it |
| `DemoProofs!QrOverrunBound` | `QrOverrunIsBounded` | `Counted`, `WeekSeen` |
| `DemoProofs!NoFileIsLost` | `FilesAreKept` | `KeptInv` |
| `AwdlProofs!PsfReadBack` | a frame is read as it was written | - |
| `AwdlProofs!RunningManagersServe` | `RunningIsServed` | `LifeInv` |
| `AwdlProofs!AnnouncedPeers` | `PeersAreAnnounced` | `LifeInv`, `PeersInv` |
| `UploadsProofs!NothingOfABrokenUpload` | `BrokenUploadLeavesNothing` | `OrderInv`, `FrameInv` |
| `UploadsProofs!FormsArriveAsSent` | `PartsArriveAsSent` | `PostInv` |
| `RowMergeProofs!WaysInAreKept` | `ReachableRowsStayReachable` | `KeysInv`, `RowsInv` |
| `DesktopProofs!TypeInvariant` | `StorageTypeOK` | `TypeInv` |
| `DesktopProofs!SettingsAreKept` | `RestartKeepsSettings` | `KeptInv` |
| `DesktopProofs!ServedPairFits` | `CertificateFitsKey` | `TlsInv` |
| `DesktopProofs!OneFolderEach` | `GuestsKeepTheirFolder` | `GuestsInv` |
| `DesktopProofs!DrawersKeepTheirOrder` | `OrderIsTheDjs` | `DrawersInv` |
| `DesktopProofs!DroppedFilesStayTogether` | `DropsGoTogether` | `DropsInv` |

### The receive prompt

`IncomingTransferProofs` proves, for any sets of asks, pollers and clicks:

* `SlotInvariant`: `Spec => [](TypeOK /\ NoOrphanPrompt)`;
* `AnswerTarget`: `Spec => []AnswerReachesItsAsk`;
* `GateRefinement`: `Spec => ImplementsGate`.

The only assumption is `NamesAssumption`: the empty slot and the idle poller are
no asks. None of the properties is inductive alone. `IInv` adds:

* `PhaseInv`: the channel of an ask agrees with its phase and outcome (no
  channel before it waits, closed only after the timer, and so on). Without it
  nothing says that a "waiting" ask has a channel that will wake it.
* `SeenInv`: whatever the dialog, a peek under way or a click names has been in
  the slot, so its channel exists. This is why an answer to an ask that is not
  in the slot finds that ask closed: it was open once, and only the slot holds
  open channels (`NoOrphanPrompt`).
* `ClickInv`: an answer that was given is about some ask.

`AskStepInv` and `UIStepInv` show that each action keeps `IInv`, one step per
action; `NextInv` combines them. For the refinement each action maps to an
action of the gate or to a stutter: `InstallPrompt` and `TakeAfterTimeout`
refuse the ask that was in the slot, if it was open; `Respond` grants, refuses
or wastes the consent; `TimerFires` refuses; `Wake` changes no verdict, because
the verdict was final when the channel was closed. `IInv` is needed for the
last: without `PhaseInv` a wake could turn a refusal into a grant.

### The receiver and the feed

`AirDropServerProofs` is about any connections, requests, archives, names and
user's answers, from `ServerAssumption` (every connection has some requests, no
archive is empty) and `CapacityAssumption`.

* `TaskInv` says what a task has in hand at each stage: a request of its own
  from the prompt on, entries left while it unpacks, a chosen name only between
  the choice and the creation. It also has the receive folder finite, which
  `unique_path` needs to find a number at all.
* `FilesInv`: a link on the disk came with a granted ask; every file that was
  saved or announced is there and whole, or was written over. `AnnouncedIsWhole`
  speaks of announcements only, but these come from `saved`, the list a handler
  keeps until its archive is read to the end; so the invariant must hold of that
  list already. A file of a broken archive is in neither.
* `NamesInv`: a task whose chosen name is on the disk has been beaten to it. For
  a number this follows from the lookup; for a name with a UUID it needs that no
  earlier creation drew the same: a drawn name carries the ask and the entries
  left, and those already on the disk are of earlier asks or of earlier entries.
* `FeedInv`: what was sent and not passed is at most `backlog`. The property
  alone does not say so, and a lagging receiver skips exactly what `backlog`
  has exceeded the capacity by.

### Settings

`SettingsProofs` is about any tasks, services and modes, from `OffAssumption`
and `ModesAssumption`: withdrawn records are no mode, and receiving can be
switched off.

* `MdnsInv`: one task at a time is between withdrawing and publishing, and then
  `registered_services` is empty (this is the lock of `refresh_advertising`), so
  whatever is still out is forgotten or about to be replaced; and records that
  differ from the configuration are about to be made, by a task that has
  not read the configuration yet or by start-up. So the last task to publish
  leaves what is configured, in whatever order tasks end.
* The prompt's flag and the beacon are set from the *copy* an apply has taken.
  Their first invariants, that a difference is about to be repaired by some
  task, were not inductive: a task with an old copy repairs nothing. `AutoInv`
  and `BleInv` add that the copy of a task under way still agrees with the
  configuration, which holds only while changes come one at a time (`AloneInv`):
  this is where the two promise less than `MdnsFollowsConfig`, and why.

### The weekly limit

`DemoProofs` proves `OverrunBound`: `Spec => [](TypeOK /\ OverrunIsBounded)`,
for any limit, calendar, number of transfers at once and set of keys. It assumes
`SendingAssumption` and `LicensingAssumption`: the transfers are finitely many,
and spans have different ids. `OverrunIsBounded` is not inductive: a transfer
may start when the counter allows it, and nothing in the property relates the
counter to what was sent. `IInv` adds

* `Counted`: what was completed in this span is at most what the check will see,
  that is the counter after rolling over;
* `WeekSeen`: the counters belong to a span that has begun. Without it they
  might belong to the next one, and a new span would begin with a counter that
  does not roll over.

A step that starts no file transfer and leaves the counters alone keeps `IInv`
(`QuietStep`); starting one needs the check (`Counted` then gives `fileDone <
SendLimit`, and the number under way is at most that of all transfers);
completing one moves it from those under way to those done.

### The key and what transfers leave

`DemoProofs` also proves `KeyAndPrints`. A set that is bounded must be finite
to have a size at all, which `KeyInv` adds to the property; each operation of
`store.rs` then either empties the set with the key or adds one fingerprint
where the check found room.

`TransfersLeaveNothing` rests on `LeftInv`: a percentage in the shared slot
means that some *file* transfer is still to clear it; what the UI shows belongs
to a transfer it has not heard the end of; and an archive exists only while its
transfer uploads. A transfer that ends clears the slot under another one, which
may fill it again: so the invariant cannot name whose percentage it is, only
that someone is left who will clear it.

### Guests' files and their limit

`DemoProofs` proves, for any number of uploads, guests, folders and names,
any limit and any calendar,

* `GuestsFiles`: `DropSpec => [](DropTypeOK /\ FilesFollowTheirGuest)`;
* `QrOverrunBound`: `DropSpec => []QrOverrunIsBounded`,

from `WebDropAssumption` (uploads at once are finitely many, the mark for no
folder is no folder) and `LicensingAssumption`. Neither property is inductive.
`Placed` says what an upload holds between looking its folder up and creating
the file: its guest, a path in that folder, and, unless the folder was renamed
in between, that it is the guest's folder still. Without it nothing connects the
path that `CreateFile` uses with the configuration. A rename needs `MovedPaths`:
the new name is not among the folders, so no two files get one path. That
`unique_receive_path` finds a number at all is `UniqueNumberType`, which rests
on the well-founded order of the numbers. The limit follows the argument of
`DemoProofs`, with `Counted` and `WeekSeen` over the counter of uploads.

`NoFileIsLost`: `DropSpec => FilesAreKept`, the action property that no step
loses a file. `KeptInv` says of an upload that has chosen a path that the path
is free or that the upload was beaten to it. A rename carries both along, for it
moves the files of a folder to a folder that has none, without making two of one
(`Moved` is a bijection of paths). The number in a path is never one that a UUID
still to be drawn may give.

### OWDL and AWDL

`AwdlProofs` is about any hosts, daemons, names, rings and time-outs, from
`OwdlAssumption` and `AwdlAssumption`.

`RunningManagersServe`: the manager's state and the daemon's are set in
different steps, and a daemon is shared by nobody (`OwnersInv`: no two managers
have the same, and one that was not built has done nothing). The point of the
proof is the watch channel: its value stays `true` from the first stop on, but a
task started later has seen that version and ends only for a newer one (`Told`),
or when the daemon is dropped, which the daemon of a manager is not.

`AnnouncedPeers`: `PeersInv` follows an announcement from the air through the
ring of events to the table. What is on the air was sent by a daemon with the
name it was built with and a number it has reached; what a ring or a table has
is announced by another daemon. Losing, repeating and reordering take nothing
from this, since sequence numbers only grow and names never change. That a
PSF is read as it was written (`PsfsReadBack`) is the lemma `PsfsAreReadBack`,
from `PsfReadBack` below.

`PsfReadBack`, in the same module: what `PsfFrame::parse` finds in the bytes
that `PsfFrame::build` puts together is the MAC, the address, the name and the
sequence number that went in, for a MAC of six bytes, an address of four, a
number below 65535 and any name a frame can hold. `ParseAll` calls itself on the
rest of the bytes; that it is a function at all, and by which equation, follows
from the shortest sequence of bytes for which it would not be (`ParsesExists`,
`ParsesUnique`, `ParseAllTurns`). With that equation a turn of the parser takes
off one TLV (`TlvReadBack`), so the five TLVs of a frame come back in five
turns, and of the two E-Net TLVs each field is found by its tag
(`EnetReadBack`).
The assumptions it adds are of `Frames` and `Owdl`: the mark for "nothing" is no
sequence of bytes (`NoBytesAssumption`); and frames fit (`FramesFit`): the
receiver reads at most 4096 bytes of a datagram (`transport.rs:136`), a name and
the 95 bytes around it are fewer, and no behaviour of the model counts as far as
a sequence number that wraps. A computer's name is far from both limits.

### Broken uploads

`UploadsProofs` proves `NothingOfABrokenUpload`: `UploadsSpec =>
[]BrokenUploadLeavesNothing`, for any files, selections, changes and foreign
senders, any size of chunks below the base of the numbers, and any pieces the
connection hands over. It assumes `UploadsAssumption` (the files are finitely
many and hold cells; a chunk's size is one cell of the stream, so a chunk is
smaller than the base) and `WidthsAssumption`.

The property says that the folder changes only when the sender has written the
end, but the receiver does not see that: it sees a size of 0. Nothing on the way
keeps a 0 out of the data, where a file may well have one. So the proof must say
where sizes are.

* `Framed(cells, at, done)`: chunks begin at the places `at`. Each has a size,
  then a line end, then another place as many cells further on as the size says;
  a size of 0 is only there when the sender is `done`. It says nothing of the
  data in between.
* `FrameInv`: what the receiver has of the body and is still to get (`Coming`)
  is framed, with the first place at its beginning; and while the sender can
  write, another chunk may begin where it ends (`AtEnd`). A sender's chunk
  adds a place (`OneMoreChunk`), its last adds the 0 (`TheLastChunk`), a break
  keeps a beginning (`SameBeginning`), and a chunk that is read moves all of the
  places (`NextFrames`). The pieces the head or the network comes in move cells
  from `up` to `pending`, which leaves `Coming` as it is.
* `OrderInv`: who is where. A sender that has not begun has nothing on its way,
  and one that can still write has not written the end.

That the receiver finds the size needs the first line end to be behind it and
not in it (`FirstSize`), and `Number` to read what `Cell` wrote
(`NumberOfOne`). That all the sender writes is made of cells is the only use of
the archive's form (`ArchiveType`); `Digits` and `FlattenSeq` call themselves,
and `Recursion` says once why such a function exists: what it asks for is always
smaller.

### Forms

`FormsArriveAsSent`, in the same module: `PostSpec => []PartsArriveAsSent`, for
any form a browser sends, cut into any pieces, with the browser leaving
anywhere. What it takes of a form is `RequestsAssumption`:

* no line end in a field's or a file's name, and no delimiter in the data: a
  browser escapes the one and chooses the other so. Beginnings of a delimiter
  may be in the data, anywhere and as often as one likes;
* `device_id` and `device_label` once each and before the files, as the page's
  script appends them (`webdrop.rs:915`). Otherwise a file would be saved for
  whoever the fields before it name;
* the last part of a file's name (`Leaf`) is not empty: a browser sends the name
  of a file. A part named `a/` would be one without a file to the code.

The reader does not see where a part ends. It hands on what is in its buffer but
for the last cells, for they may begin a delimiter, and looks for the delimiter
in what it has kept and the next piece. The proof says at each step where that
is in the form.

* `FormLaid` gives each part its place in the form. `Form` flattens a sequence
  of parts, which is a function that calls itself; `Recursion` is used once
  more, and no step needs it after that.
* `ReadFrom(cells, pos)`: the buffer and what is on its way go on with the form
  behind `pos`, up to its end or to where the browser left.
* `Stage`: with `i` parts done, `pos` is at a delimiter, at a certain line of a
  header, or as many cells into the data as have been handed on. Behind a
  browser that left, no line may come any more.
* `DataEnd` is the heart of it: inside a part's data the delimiter is found at
  the end of the data and nowhere before, and as long as it is not found, the
  buffer ends at most two cells into it. So `Kept`, as many cells as the
  delimiter and the line end before it have, is one more than needed, and two
  fewer are too few (the mutant `KeptTooShort`).
* `KeptField`, `FilesNamed` and `WholeUpTo`: what has been kept of the parts
  before. `Over` is what is left of it when the connection is done: all files
  are whole, but for a last one that a browser left.

### The rows of the device list

`RowMergeProofs` proves `WaysInAreKept`: `Spec => []ReachableRowsStayReachable`,
for any services, beacons, answers to probes and modes, and any order the hash
maps are walked in, from `CatalogueAssumption`:

* services at one address and port are listed under one name: an address and a
  port are one socket of one device, and a probe asks that socket. Two names
  there would have the later service take the earlier one's key in `by_key`, and
  with it its way in;
* `ble_id` is in no service's TXT record: the program writes it into the records
  it makes of beacons and tells them by it;
* a nameless beacon's id is no service's name: such a beacon is listed under a
  name made from its Bluetooth address.

It is asked only of services that can put a way in into the list (`WaysIn`);
the properties of the others do not matter here.

* `KeysInv`: every service passed that makes a way in has its device under its
  address and port, and under its name. The loop over the beacons cannot take it
  away: it changes the signal of a device or adds one at port 0, which no way in
  has (`BeaconAdded`).
* `RowsInv`: every row is of a device that was found and has its name, and a
  device merged with a way in has given its row one. Two devices meet in a row
  by `RowKey`, which for a nameless beacon has its id as well: `NamedAlone`
  keeps such a row apart from that of a service. Within a row `Rank` puts every
  device with a way in before every one without (`RankTells`), so a change of
  the best never loses it, in either order of arrival.

### The desktop

`DesktopProofs` is about the composition of `Storage` and `Cabinet` (`Spec` of
`Cabinet`): any guests, folders and names, any number of starts, changes and
failed writes, from `StorageAssumption`, `NoneAssumption` and
`FoldersAssumption`.

* `KeptInv`: unless something is owed, the file has every field, and what the
  migration makes of it is what the program has. It also needs that the flags of
  an older version agree with the mode, because the migration reads them.
* `TlsInv`: a key that is whole is the certificate's. The key is written after
  the certificate, so a start that was cut off leaves a new certificate only
  where there is no whole key, and the next start makes a new pair or fails.
* `GuestsInv`: the folders of a guest's files are those of the configuration,
  also while the program is down, and of the file before the first start. A file
  whose guests' fields are missing has no guests with files.

* `DrawersInv`: unless the user removed a folder outside (`behind`), the drawers
  are the order, a sequence of folder names. It does not say that the folders
  exist or that none is twice, for a rename whose save failed leaves a ghost.
  `OrderIsTheDjs` has "none is twice" of the step's first state as a premise. A
  scan keeps the order of what it finds and puts what is new behind it
  (`WithoutIs`, `ScanKeeps`); a rename that was saved puts the new name where the
  old one stood, and once unless it is a ghost's (`RelabelledIs`); `ScanInPlace`
  turns the two into the property's statements about pairs. A sorted sequence of
  a set of numbers exists because a number's place among the others is an
  increasing bijection onto 1..n (`PlacesDiffer`, `SortedIs`); that needs
  `Folders` to be finite, as names of at most 48 bytes are.

`DesktopProofs` proves `DroppedFilesStayTogether` for any files, dialogs and
devices. `FatesInv`: the five places a file can be in (the list, the chooser, a
transfer, told, replaced) share no file and hold them all, and of two files that
came less than the delay apart each place has both or neither. `TimersInv` is
why a timer that is heard of takes all or none: while any timer runs, that of
the last file does, and it is not the first to run out.

### Not proved

* `EveryAskReturns`, `DialogClears`, `RequestsFinish`, `NewestIsShown`,
  `RequestsEnd`, `StopEndsTasks`, `GhostsLeave`, `ArrivalsStay`
  and `DropsAreTaken` are liveness under fairness and out of reach of the
  prover; they are checked by TLC only.
* `OkMeansArrived` and `GoodSendSucceeds` need that the reader of an archive
  finds what the writer put in, record by record over data of any length, and
  that a folder and its numbered names are read back from the state the earlier
  records left: an induction over the archive, folders and all. What they rest
  on below that, the chunks, is proved.
* `RowsAreStable` and `NoPeerIsLost` are about the catalogue of real services
  and beacons and not about any: two services of one name whose records
  contradict each other would make a row of either kind, whichever came first,
  as the signal of a row on Wi-Fi already shows in the catalogue.
  They stay with TLC.

## 5. Not modelled

* Views, styles, icons, QR drawing and the tray have no state beyond what they
  draw. Interface selection calls the operating system.
* TLS, certificate generation and property lists are libraries; the bodies of
  `/Discover` and `/Ask` are reduced to what the handlers decide by. Key
  verification of a license is cryptography: a key is valid or not.
* The legacy TCP server on port 7000 is a loop of accept and one read per file,
  kept for compatibility and fed by nothing else here. The activity log is a
  bounded list behind one mutex. `OWDL/src/channel.rs` is used by nothing.
* A receiver that falls silent without closing: a sender waits for ever
  (`airdrop_client.rs:541`); `Uploads` lets connections break, not stall.
* The device list's selection (only that it may vanish, in `Sending`), its
  views, and the hidden window, which suspends refreshes as the freeze does.
* The window and theme settings, and the broadcast name beyond its place in the
  file.
* `fsync`, which the program does not call: a crash is one of the program, not
  of the machine. Two copies of the program at once: nothing prevents them.
* A panic of `sanitize_folder_name` on a long label ends the program (`panic =
  "abort"`); this is `Quit` of `Storage`, at a moment like any other.

## 6. Plan

The components are modelled as far as section 5 says. Of the safety properties
these could still be proved:

1. `OkMeansArrived` and `GoodSendSucceeds` of `Uploads`: that `ExtractTurn`
   takes one record of `BuildArchive` off an archive, with an invariant that
   says which records are unpacked and which are still to come.
2. The other properties of `RowMerge`, once it is said what a catalogue of
   services and beacons may not contradict itself in.
