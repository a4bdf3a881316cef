-------------------------------- MODULE Cpio --------------------------------
(***************************************************************************)
(* Archives: build_archive with its odc writer (airdrop_client.rs) and     *)
(* extract_gzip_cpio (cpio_extract.rs), as functions.                      *)
(*                                                                         *)
(* An archive is a sequence of cells, which are strings.  A record is its  *)
(* magic, its mode, the length of its name and the size of its data in     *)
(* digits, the name with a closing NUL, and the data.  A name is a path of *)
(* segments; numbers have base 4 and few digits, where the code has octal  *)
(* (odc) or hexadecimal (newc) numbers of a fixed width; and records of    *)
(* newc are padded to Align cells, in the code to 4 bytes.  Fields nobody  *)
(* reads (times, owners, inode) are left out, and compression is a cell    *)
(* before the records.                                                     *)
(***************************************************************************)
EXTENDS Naturals, Sequences, FiniteSets, SequencesExt, TLC

CONSTANTS Clean,      \* segments with characters Windows refuses: what they become
          NameDigits, \* width of the length of a name: 6 octal digits in the code
          SizeDigits, \* width of the size of the data: 11 octal digits in the code
          MaxNameSize \* the longest name the reader takes: 4096

ASSUME WidthsAssumption == NameDigits \in Nat /\ SizeDigits \in Nat

Base == 4
Align == 2

Odc == "070707"
Newc == "070701"
Gzip == "gz"
NUL == "NUL"
Trailer == <<"TRAILER!!!">>

\* The digits.
Cell(d) == <<"0", "1", "2", "3">>[d + 1]
IsDigit(cell) == cell \in {Cell(d) : d \in 0 .. Base - 1}
Digit(cell) == CHOOSE d \in 0 .. Base - 1 : Cell(d) = cell

Digits[n \in Nat] ==
    IF n < Base THEN <<Cell(n)>> ELSE Append(Digits[n \div Base], Cell(n % Base))

\* format!("{:0width$}"): a number that needs more digits gets them, and
\* everything behind it moves.
Field(n, width) ==
    LET digits == Digits[n] IN
    IF Len(digits) >= width THEN digits
    ELSE [i \in 1 .. width - Len(digits) |-> "0"] \o digits

\* parse_octal_field and parse_hex_field
Number(cells) ==
    LET value[i \in 0 .. Len(cells)] ==
            IF i = 0 THEN 0 ELSE Base * value[i - 1] + Digit(cells[i])
    IN  value[Len(cells)]

IsNumber(cells) == \A i \in DOMAIN cells : IsDigit(cells[i])

-----------------------------------------------------------------------------
(* build_archive.  An entry is [name, size], size as collect_entries found *)
(* it; what is read from its file later is a sequence of cells.            *)

\* write_odc_header
OdcHeader(name, mode, size) ==
    <<Odc, mode>> \o Field(Len(name) + 1, NameDigits) \o Field(size, SizeDigits)
        \o name \o <<NUL>>

Zeros(n) == [i \in 1 .. n |-> NUL]

\* A file that became shorter is padded with zeros.
Pad(size, read) == IF size > Len(read) THEN Zeros(size - Len(read)) ELSE <<>>

\* Mutant: a file that became shorter is copied as it is.
FileRecordUnpadded(entry, read) ==
    OdcHeader(<<".">> \o entry.name, "file", entry.size) \o read

\* All that is read is copied, also when the file has grown.
FileRecord(entry, read) ==
    OdcHeader(<<".">> \o entry.name, "file", entry.size) \o read \o Pad(entry.size, read)

Parents(name) == [i \in 1 .. Len(name) - 1 |-> SubSeq(name, 1, i)]

\* The folders of the entries, each once, before all files.
DirRecords(dirs) ==
    FlattenSeq([i \in DOMAIN dirs |->
        IF dirs[i] \in {dirs[j] : j \in 1 .. i - 1} THEN <<>>
        ELSE OdcHeader(<<".">> \o dirs[i], "dir", 0)])

BuildArchive(entries, reads) ==
    <<Gzip>> \o DirRecords(FlattenSeq([i \in DOMAIN entries |-> Parents(entries[i].name)]))
             \o FlattenSeq([i \in DOMAIN entries |-> FileRecord(entries[i], reads[i])])
             \o OdcHeader(Trailer, "none", 0)

-----------------------------------------------------------------------------
(* extract_cpio.  Readers return what they read and the rest, or fail.     *)

From(cells, n) == SubSeq(cells, n + 1, Len(cells))
UpTo(cells, n) == SubSeq(cells, 1, n)

NoRecord == [ok |-> FALSE]

PadOf(size) == (Align - (size % Align)) % Align

\* read_odc_record and read_newc_record, the magic being read.  The modes of
\* both are read leniently; the name ends at its NULs.
ReadRecord(cells) ==
    LET newc == cells[1] = Newc
        header == 2 + NameDigits + SizeDigits
        nameSize == SubSeq(cells, 3, 2 + NameDigits)
        fileSize == SubSeq(cells, 3 + NameDigits, header)
        start == header + Number(nameSize)
        padded == start + (IF newc THEN PadOf(start) ELSE 0)
    IN
    IF /\ cells[1] \in {Odc, Newc}
       /\ Len(cells) >= header
       /\ IsNumber(nameSize) /\ IsNumber(fileSize)
       /\ Number(nameSize) \in 1 .. MaxNameSize
       /\ Len(cells) >= padded
    THEN [ok |-> TRUE, dir |-> cells[2] = "dir",
          name |-> SelectSeq(SubSeq(cells, header + 1, start), LAMBDA c : c # NUL),
          size |-> Number(fileSize),
          pad |-> IF newc THEN PadOf(Number(fileSize)) ELSE 0,
          rest |-> From(cells, padded)]
    ELSE NoRecord

\* sanitize_filename
CleanSegment(s) == IF s \in DOMAIN Clean THEN Clean[s] ELSE s

\* sanitize_relative_path: a path that climbs, or has nothing left, is none.
Sanitize(name) ==
    LET parts == SelectSeq(name, LAMBDA s : s \notin {"", "."}) IN
    IF ".." \in {parts[i] : i \in DOMAIN parts} THEN <<>>
    ELSE [i \in DOMAIN parts |-> CleanSegment(parts[i])]

\* The receive folder maps a path to a file's cells, or to Folder.  A path has
\* the number unique_path gave it, 0 for none.
Folder == <<"folder">>
At(name, number) == [name |-> name, number |-> number]
IsFile(disk, path) == path \in DOMAIN disk /\ disk[path] # Folder

Folders(name) == {At(UpTo(name, i), 0) : i \in 1 .. Len(name)}

\* create_dir_all fails where a file has the name of a folder.
CanMakeFolders(disk, name) == \A f \in Folders(name) : ~IsFile(disk, f)
WithFolders(disk, name) == disk @@ [f \in Folders(name) |-> Folder]

\* unique_path: the numbers, 999 in the code, last here (AirDropServer has the
\* end of them).
UniquePath(disk, name) ==
    At(name, CHOOSE i \in 0 .. Cardinality(DOMAIN disk) :
                /\ At(name, i) \notin DOMAIN disk
                /\ \A j \in 0 .. i - 1 : At(name, j) \in DOMAIN disk)

\* One turn of extract_cpio's loop: the archive goes on with the rest, ends, or
\* is refused.
Turn(verdict, rest, saved, disk) ==
    [verdict |-> verdict, rest |-> rest, saved |-> saved, disk |-> disk]
Ends(saved, disk) == Turn("end", <<>>, saved, disk)
Refused(disk) == Turn("refused", <<>>, <<>>, disk)

\* A record of a folder: it is made if it can be.
FolderTurn(record, name, saved, disk) ==
    LET made == IF CanMakeFolders(disk, name) THEN WithFolders(disk, name) ELSE disk IN
    IF Len(record.rest) < record.size + record.pad THEN Refused(made)
    ELSE Turn("more", From(record.rest, record.size + record.pad), saved, made)

\* A record of a file: its folders are made, a free name is found, and the data
\* written as far as it goes.
FileTurn(record, name, saved, disk) ==
    LET parent == UpTo(name, Len(name) - 1)
        ready == WithFolders(disk, parent)
        path == IF name = <<>> THEN UniquePath(disk, <<"received_file">>)
                               ELSE UniquePath(ready, name)
        there == Len(record.rest)
        written == (path :> UpTo(record.rest, IF there < record.size THEN there ELSE record.size))
                   @@ ready
    IN
    IF ~CanMakeFolders(disk, parent) THEN Refused(disk)
    ELSE IF there < record.size + record.pad THEN Refused(written)
    ELSE Turn("more", From(record.rest, record.size + record.pad), Append(saved, path), written)

\* The end of the data where a record should start is the end of the archive
\* once a file is saved.  An error leaves the files written before it.
ExtractTurn(cells, saved, disk) ==
    LET record == ReadRecord(cells)
        name == Sanitize(record.name)
    IN
    IF cells = <<>> THEN IF saved = <<>> THEN Refused(disk) ELSE Ends(saved, disk)
    ELSE IF ~record.ok THEN Refused(disk)
    ELSE IF record.name = Trailer THEN Ends(saved, disk)
    ELSE IF record.dir \/ (record.size = 0 /\ record.name[Len(record.name)] = "")
         THEN FolderTurn(record, name, saved, disk)
    ELSE FileTurn(record, name, saved, disk)

\* extract_gzip_cpio looks at the first bytes for the format, and hands on what
\* gzip gives.
KnownFormat(cells) == cells # <<>> /\ cells[1] \in {Gzip, Odc, Newc}
Payload(cells) == IF cells[1] = Gzip THEN Tail(cells) ELSE cells

=============================================================================
