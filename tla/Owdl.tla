-------------------------------- MODULE Owdl ---------------------------------
(***************************************************************************)
(* The OWDL daemons of a LAN (src/OWDL): daemon.rs, lib.rs, transport.rs   *)
(* and peers.rs.  A daemon is one AwdlDaemon value with its socket; each   *)
(* start gives it four tasks: run_tx announces the daemon every 110 ms in  *)
(* a multicast PSF, run_rx reads the socket into a broadcast ring, one     *)
(* works the ring into the peer table, one prunes the table every 5 s.     *)
(* They leave their loops on the same signal, and in the model together.   *)
(*                                                                         *)
(* The air loses, delays, reorders and duplicates announcements.  They are *)
(* kept as records of what was sent; what a receiver makes of them goes    *)
(* through the bytes of Frames.  A data frame is received when it is sent  *)
(* or not at all.  Time is counted in prune periods, per daemon.           *)
(***************************************************************************)
EXTENDS Frames, FiniteSets

CONSTANTS Daemons,      \* AwdlDaemon values (bound)
          NoDaemon,
          Names,        \* device names, as bytes
          MacOf,        \* derive_local_mac: a hash, so possibly the same for two
          Ipv4Of,       \* the address of the machine that built the daemon
          Payload,      \* an IP packet
          Ring,         \* places in the broadcast ring: 256 in the code
          PeerTimeout,  \* PEER_TIMEOUT_SECS in prune periods: 6 in the code
          MaxSeq,       \* where the model stops counting sequences (bound)
          MaxStops,     \* shutdown signals per daemon (bound)
          MaxForeign    \* data frames of other stations (bound)

\* Datagrams are read into a buffer of this many bytes.
ReceiveBuffer == 4096

ASSUME OwdlAssumption ==
    /\ IsFiniteSet(Daemons) /\ NoDaemon \notin Daemons
    /\ Names \subseteq Seq(Byte) /\ None \notin Names
    /\ MacOf \in [Names -> Seq(Byte)] /\ \A n \in Names : Len(MacOf[n]) = 6
    /\ Ipv4Of \in [Daemons -> Seq(Byte)] /\ \A d \in Daemons : Len(Ipv4Of[d]) = 4
    /\ Ring \in Nat \ {0} /\ PeerTimeout \in Nat \ {0}
    /\ MaxSeq \in Nat \ {0} /\ MaxStops \in Nat /\ MaxForeign \in Nat

\* A PSF has 94 bytes and its name, and its datagram a byte before them; it is
\* not cut.  The sequences stay among the numbers of the model.
ASSUME FramesFit ==
    /\ \A n \in Names : Len(n) + 95 <= ReceiveBuffer
    /\ MaxSeq < 65535

VARIABLES
    name,      \* the device name a daemon was built with, None before
    held,      \* daemons some manager still owns
    running,   \* AwdlDaemon::running
    shutdown,  \* the watch channel: its value and version
    tasks,     \* starts whose tasks have not ended, by the version they have seen
    seq,       \* InfraTransport::sequence
    inbound,   \* TransportEvents in the ring that ev has not read
    table,     \* PeerTable
    air,       \* PSFs under way
    foreign    \* data frames of other stations so far (bound)

daemonVars == <<name, held, running, shutdown, tasks>>
netVars == <<seq, inbound, table, air, foreign>>
owdlVars == <<daemonVars, netVars>>

Macs == {MacOf[n] : n \in Names}
Built == {d \in Daemons : name[d] # None}
Mac(d) == MacOf[name[d]]

\* A PSF on the air.
Packet == [from : Daemons, seq : 1..MaxSeq]

Events == [kind : {"peer"}, mac : Seq(Byte), name : Seq(Byte), ipv4 : Seq(Byte), seq : Nat]
          \cup [kind : {"data"}, mac : Seq(Byte)]

\* age: prune periods begun since last_seen.
Peer == [name : Seq(Byte), ipv4 : Seq(Byte), seq : Nat, age : Nat]

OwdlTypeOK ==
    /\ name \in [Daemons -> Names \cup {None}]
    /\ held \subseteq Built
    /\ running \in [Daemons -> BOOLEAN]
    /\ shutdown \in [Daemons -> [value : BOOLEAN, version : 0..MaxStops]]
    /\ tasks \in [Daemons -> SUBSET (0..MaxStops)]
    /\ \A d \in Daemons, v \in 0..MaxStops :
          v \in tasks[d] => d \in Built /\ v <= shutdown[d].version
    /\ seq \in [Daemons -> 0..MaxSeq]
    /\ \A d \in Daemons :
          /\ Len(inbound[d]) <= Ring
          /\ \A i \in DOMAIN inbound[d] : inbound[d][i] \in Events
          /\ DOMAIN table[d] \subseteq Macs
          /\ \A m \in DOMAIN table[d] : table[d][m] \in Peer
    /\ air \subseteq Packet
    /\ foreign \in 0..MaxForeign

OwdlInit ==
    /\ name = [d \in Daemons |-> None]
    /\ held = {}
    /\ running = [d \in Daemons |-> FALSE]
    /\ shutdown = [d \in Daemons |-> [value |-> FALSE, version |-> 0]]
    /\ tasks = [d \in Daemons |-> {}]
    /\ seq = [d \in Daemons |-> 0]
    /\ inbound = [d \in Daemons |-> <<>>]
    /\ table = [d \in Daemons |-> <<>>]
    /\ air = {}
    /\ foreign = 0

-----------------------------------------------------------------------------
(* DaemonBuilder::build, AwdlDaemon::start and stop, and the end of tasks. *)

\* build() drops the daemon `old` when its owner keeps the new one instead.
Build(d, n, old) ==
    /\ d \notin Built
    /\ name' = [name EXCEPT ![d] = n]
    /\ held' = (held \ {old}) \cup {d}

\* A mutant: a new task has seen nothing yet, and takes an old stop for its own.
StartTasksUnseen(d) ==
    /\ tasks' = [tasks EXCEPT ![d] = @ \cup {0}]
    /\ running' = [running EXCEPT ![d] = TRUE]

\* A task that subscribes has seen the value there is.
StartTasks(d) ==
    /\ tasks' = [tasks EXCEPT ![d] = @ \cup {shutdown[d].version}]
    /\ running' = [running EXCEPT ![d] = TRUE]

\* A mutant: the signal is sent only if it changes the value.
SignalStopOnce(d) ==
    /\ tasks[d] # {} => shutdown[d].value \/ shutdown[d].version < MaxStops
    /\ shutdown' = [shutdown EXCEPT ![d] =
           IF tasks[d] = {} \/ @.value THEN @
           ELSE [value |-> TRUE, version |-> @.version + 1]]
    /\ running' = [running EXCEPT ![d] = FALSE]

\* watch::Sender::send changes nothing when no task listens.
SignalStop(d) ==
    /\ tasks[d] # {} => shutdown[d].version < MaxStops
    /\ shutdown' = [shutdown EXCEPT ![d] =
           IF tasks[d] = {} THEN @ ELSE [value |-> TRUE, version |-> @.version + 1]]
    /\ running' = [running EXCEPT ![d] = FALSE]

\* changed() returns for a newer version, and at once, with an error, when the
\* daemon was dropped; either way the task ends only if the value is true.
Told(d, v) == shutdown[d].value /\ (v < shutdown[d].version \/ d \notin held)

\* select! takes any branch that is ready, so a task may do more work first.
\* What the last event task has not read goes with its receiver.
EndTasks(d, v) ==
    /\ v \in tasks[d] /\ Told(d, v)
    /\ tasks' = [tasks EXCEPT ![d] = @ \ {v}]
    /\ inbound' = [inbound EXCEPT ![d] = IF tasks[d] = {v} THEN <<>> ELSE @]
    /\ UNCHANGED <<name, held, running, shutdown, seq, table, air, foreign>>

-----------------------------------------------------------------------------
(* The tasks.                                                              *)

Served(d) == tasks[d] # {}

\* One round of run_tx.
SendPsf(d) ==
    /\ Served(d)
    /\ LET next == IF seq[d] < MaxSeq THEN seq[d] + 1 ELSE MaxSeq
       IN  /\ seq' = [seq EXCEPT ![d] = next]
           /\ air' = air \cup {[from |-> d, seq |-> next]}
    /\ UNCHANGED <<daemonVars, inbound, table, foreign>>

Lose(p) ==
    /\ p \in air
    /\ air' = air \ {p}
    /\ UNCHANGED <<daemonVars, seq, inbound, table, foreign>>

\* What the bytes of each PSF there can be are parsed to.
HeardPsfs == {[name |-> n, packet |-> p,
               psf |-> ParsePsf[PsfFrame(MacOf[n], n, Ipv4Of[p.from], p.seq)]] :
              n \in Names, p \in Packet}
Psf(p) == (CHOOSE r \in HeardPsfs : r.packet = p /\ r.name = name[p.from]).psf

\* A PSF tells what its sender has put in it.
PsfsReadBack ==
    \A n \in Names, p \in Packet :
        ParsePsf[PsfFrame(MacOf[n], n, Ipv4Of[p.from], p.seq)]
            = [seq |-> p.seq, mac |-> MacOf[n], ipv4 |-> Ipv4Of[p.from], name |-> n]

\* The same for data frames from a daemon, and for those of another station,
\* which have the four MACs that parse expects.
HeardData(src, dst) == ParseData[DataFrame(src, dst, 2048, Payload)]
HeardForeign(src) == ParseData[AwdlBssid \o DataFrame(src, Broadcast, 2048, Payload)]

\* A mutant: the multicast's echo of the daemon's own PSF is not dropped.
PsfEventEcho(d, psf) ==
    IF psf = None THEN <<>>
    ELSE <<[kind |-> "peer", mac |-> psf.mac, name |-> psf.name,
            ipv4 |-> psf.ipv4, seq |-> psf.seq]>>

\* What run_rx of d announces: at most one event.
PsfEvent(d, psf) ==
    IF psf = None \/ psf.mac = Mac(d) THEN <<>>
    ELSE <<[kind |-> "peer", mac |-> psf.mac, name |-> psf.name,
            ipv4 |-> psf.ipv4, seq |-> psf.seq]>>
DataEvent(d, df) ==
    IF df = None \/ df.dst \notin {Mac(d), Broadcast} THEN <<>>
    ELSE <<[kind |-> "data", mac |-> df.src]>>

\* The ring keeps the newest: a full one loses its oldest event, which the
\* event task learns as Err(Lagged) and ignores.
Announce(ring, events) ==
    LET all == ring \o events IN IF Len(all) > Ring THEN Tail(all) ELSE all

\* One round of run_rx; the packet stays, for other sockets and as a duplicate.
Receive(d, p) ==
    /\ Served(d) /\ p \in air
    /\ inbound' = [inbound EXCEPT ![d] = Announce(@, PsfEvent(d, Psf(p)))]
    /\ UNCHANGED <<daemonVars, seq, table, air, foreign>>

\* AwdlDaemon::send.  A data frame reaches some of the sockets, when it is sent.
SendData(d, dst, reached) ==
    /\ d \in held /\ running[d]
    /\ inbound' = [e \in Daemons |->
           IF e \in reached /\ Served(e)
           THEN Announce(inbound[e], DataEvent(e, HeardData(Mac(d), dst)))
           ELSE inbound[e]]
    /\ UNCHANGED <<daemonVars, seq, table, air, foreign>>

ReceiveForeign(d, mac) ==
    /\ Served(d) /\ mac # Mac(d)
    /\ foreign < MaxForeign /\ foreign' = foreign + 1
    /\ inbound' = [inbound EXCEPT ![d] = Announce(@, DataEvent(d, HeardForeign(mac)))]
    /\ UNCHANGED <<daemonVars, seq, table, air>>

Upsert(entries, e) ==
    [m \in DOMAIN entries \cup {e.mac} |->
        IF m = e.mac THEN [name |-> e.name, ipv4 |-> e.ipv4, seq |-> e.seq, age |-> 0]
        ELSE entries[m]]
Touch(entries, mac) ==
    [m \in DOMAIN entries |-> IF m = mac THEN [entries[m] EXCEPT !.age = 0] ELSE entries[m]]

\* One round of the event task.
HandleEvent(d) ==
    /\ Served(d) /\ inbound[d] # <<>>
    /\ LET e == Head(inbound[d])
       IN  table' = [table EXCEPT ![d] =
               IF e.kind = "peer" THEN Upsert(@, e) ELSE Touch(@, e.mac)]
    /\ inbound' = [inbound EXCEPT ![d] = Tail(@)]
    /\ UNCHANGED <<daemonVars, seq, air, foreign>>

\* Five seconds at d: every entry ages, and a prune task removes those last
\* seen 30 s ago or more.  The PeerTimeout-th prune after an entry's last
\* arrival may still find it younger than that, the next one may not.
Aged(entries) == [m \in DOMAIN entries |->
                   [entries[m] EXCEPT !.age = IF @ > PeerTimeout THEN @ ELSE @ + 1]]
Stale(entries) == {m \in DOMAIN entries : entries[m].age > PeerTimeout}
MaybeStale(entries) == {m \in DOMAIN entries : entries[m].age = PeerTimeout}
Period(d) ==
    /\ table[d] # <<>>
    /\ LET aged == Aged(table[d])
       IN  IF Served(d)
           THEN \E edge \in SUBSET MaybeStale(aged) :
                   table' = [table EXCEPT ![d] =
                       [m \in DOMAIN aged \ (Stale(aged) \cup edge) |-> aged[m]]]
           ELSE table' = [table EXCEPT ![d] = aged]
    /\ UNCHANGED <<daemonVars, seq, inbound, air, foreign>>

OwdlStep ==
    \E d \in Daemons :
       \/ \E v \in tasks[d] : EndTasks(d, v)
       \/ SendPsf(d)
       \/ \E m \in Macs : ReceiveForeign(d, m)
       \/ \E p \in air : Receive(d, p)
       \/ HandleEvent(d)
       \/ Period(d)

Loss == \E p \in air : Lose(p)

=============================================================================
