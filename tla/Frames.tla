------------------------------- MODULE Frames --------------------------------
(***************************************************************************)
(* The bytes OWDL puts on the air: wire.rs (big-endian writer and reader)  *)
(* and frame.rs (TLVs, the periodic synchronization frame, data frames).   *)
(* A reader that runs out of bytes returns None, here None, and its caller *)
(* gives up with `?`.  Numbers stay below 2^16 in the model, so the high   *)
(* bytes of a u32 or u64 are 0.                                            *)
(***************************************************************************)
EXTENDS Naturals, Sequences

CONSTANT None

ASSUME NoBytesAssumption == None \notin Seq(0..255)

Byte == 0..255

\* write_u16, write_u32, write_u64: n in k bytes, the value taken mod 2^16.
Number(k, n) == [i \in 1..k |-> CASE i = k     -> n % 256
                                  [] i = k - 1 -> (n \div 256) % 256
                                  [] OTHER     -> 0]
Value(b) == 256 * b[Len(b) - 1] + b[Len(b)]

\* read_bytes(n) at position i: the bytes, or None when fewer remain.
Read(b, i, n) == IF i + n - 1 > Len(b) THEN None ELSE SubSeq(b, i, i + n - 1)
Rest(b, i) == SubSeq(b, i, Len(b))

AwdlBssid == <<0, 37, 0, 255, 148, 115>>
AppleOui == <<0, 23, 242>>
Broadcast == <<255, 255, 255, 255, 255, 255>>

-----------------------------------------------------------------------------
(* Tlv::encode and Tlv::parse_all.                                         *)

ServiceParameters == 1
SynchronizationParameters == 2
ElectionParameters == 3
ChannelSequence == 4
Enet == 7

Tlv(ty, value) == <<ty>> \o Number(2, Len(value)) \o value

\* The TLVs of b, in order; one whose bytes are cut off ends the list.
ParseAll[b \in Seq(Byte)] ==
    IF Len(b) < 3 THEN <<>>
    ELSE LET value == Read(b, 4, Value(SubSeq(b, 2, 3)))
         IN  IF value = None THEN <<>>
             ELSE <<[ty |-> b[1], value |-> value]>> \o ParseAll[Rest(b, Len(value) + 4)]

-----------------------------------------------------------------------------
(* PsfFrame::build and parse.  The election metric is random in the code   *)
(* and never read; the channels are the three social ones.                 *)

AvailabilityWindow == 4096

PsfFrame(mac, deviceName, ipv4, sequence) ==
    <<0, 127>> \o AppleOui \o <<8>> \o Number(2, 1) \o <<0>>
    \o Number(8, sequence) \o Number(8, sequence + 1) \o AwdlBssid
    \o Tlv(ServiceParameters, <<0, 1, 1>>)
    \o Tlv(SynchronizationParameters, Number(8, sequence) \o Number(4, AvailabilityWindow) \o Number(4, 16))
    \o Tlv(ElectionParameters, mac \o <<128, 0, 0, 0>>)
    \o Tlv(ChannelSequence, <<3, 6, 81, 44, 128, 149, 128>>)
    \o Tlv(Enet, mac \o ipv4 \o Number(2, Len(deviceName)) \o deviceName)

\* The Enet TLV: a MAC, then four bytes taken for an address if they are there,
\* then a counted name, None without a whole one.
EnetRest(v) == IF Len(v) >= 6 THEN Rest(v, 7) ELSE v
EnetIpv4[v \in Seq(Byte)] == Read(EnetRest(v), 1, 4)
EnetName[v \in Seq(Byte)] ==
    LET rest == IF EnetIpv4[v] = None THEN EnetRest(v) ELSE Rest(EnetRest(v), 5)
    IN  IF Len(rest) < 2 THEN None ELSE Read(rest, 3, Value(SubSeq(rest, 1, 2)))

EnetMac[v \in Seq(Byte)] == Read(v, 1, 6)

\* The loop over the TLVs keeps the last of each field.
LastOf(tlvs, types, field, default) ==
    LET found == {i \in DOMAIN tlvs : tlvs[i].ty \in types /\ field[tlvs[i].value] # None}
        last  == CHOOSE i \in found : \A j \in found : j <= i
    IN  IF found = {} THEN default ELSE field[tlvs[last].value]

PsfOf(sequence, tlvs) ==
    [seq  |-> sequence,
     mac  |-> LastOf(tlvs, {ElectionParameters, Enet}, EnetMac, AwdlBssid),
     ipv4 |-> LastOf(tlvs, {Enet}, EnetIpv4, <<>>),
     name |-> LastOf(tlvs, {Enet}, EnetName, <<>>)]

ParsePsf[b \in Seq(Byte)] ==
    IF Len(b) < 31 \/ SubSeq(b, 3, 5) # AppleOui THEN None
    ELSE PsfOf(Value(SubSeq(b, 10, 17)), ParseAll[Rest(b, 32)])

-----------------------------------------------------------------------------
(* DataFrame::encode and parse.  They do not agree: encode writes the      *)
(* BSSID, the source and the destination, parse reads a MAC more before    *)
(* them.                                                                   *)

LlcHeader(ethertype) == AppleOui \o Number(2, 0) \o Number(2, 0) \o Number(2, ethertype)

DataFrame(src, dst, ethertype, payload) ==
    AwdlBssid \o src \o dst \o LlcHeader(ethertype) \o payload

\* Four MACs, OUI, protocol id, sequence and ethertype: 33 bytes.
ParseData[b \in Seq(Byte)] ==
    IF Len(b) < 33 THEN None
    ELSE [src |-> SubSeq(b, 13, 18), dst |-> SubSeq(b, 19, 24),
          ethertype |-> Value(SubSeq(b, 32, 33)), payload |-> Rest(b, 34)]

=============================================================================
