------------------------------- MODULE WebDrop -------------------------------
(***************************************************************************)
(* Uploads of guests over Web Drop: receive_upload (protocols/webdrop.rs)  *)
(* with the guest folders of the configuration (resolve_webdrop_folder,    *)
(* rename_webdrop_folder, unique_receive_path of config.rs) and the demo's *)
(* quota (Licensing).                                                      *)
(*                                                                         *)
(* Every POST is a task.  A guest's folder is looked up, or made, under    *)
(* the lock of the configuration, and a rename of a folder runs under the  *)
(* same lock; but finding a free name in the folder and creating the file  *)
(* come later, without it, and are two steps.  Announcing a saved file is  *)
(* ReceivedFeed's part and not repeated here.  The page sends the guest's  *)
(* fields before the files, so an upload is one guest's.                   *)
(***************************************************************************)
EXTENDS Licensing

CONSTANTS Conns,      \* uploads that may be under way at once (bound)
          Guests,     \* keys of webdrop_devices: device ids, or "ip:" addresses
          Folders,    \* sanitized folder names
          NoFolder,   \* a guest not seen yet
          Names,      \* sanitized file names
          LastSuffix, \* "name (999)" in the code
          MaxParts,   \* files in one upload (bound)
          MaxFiles    \* files in all uploads of a behaviour, an upload without
                      \* any counting as one (bound)

ASSUME WebDropAssumption ==
    /\ NoFolder \notin Folders
    /\ LastSuffix \in Nat /\ MaxParts \in Nat /\ MaxFiles \in Nat
    /\ Conns # {} /\ IsFiniteSet(Conns)

VARIABLES
    folderOf,  \* webdrop_devices
    dirs,      \* directories under WebDrop
    disk,      \* the files in them, by path
    upload,    \* each task
    uuids,     \* UUIDs drawn for names
    accepted,  \* files of the uploads that passed the check
    qrDone,    \* uploads counted in the current span (history)
    qrUnlimited \* some check passed for being registered (history)

folderVars == <<folderOf, dirs, disk>>
counts == <<uuids, accepted, qrDone, qrUnlimited>>
dropVars == <<licenseVars, today, demo, folderVars, upload, counts>>

\* A path is a folder, a name and its number; past LastSuffix the name ends in
\* a UUID, here a number of its own.
Paths == Folders \X Names \X Nat
NoPath == <<>>

\* A file knows its guest, and is late when its folder was renamed between
\* lookup and creation.
File == [guest : Guests, late : BOOLEAN]

Upload == [at    : {"idle", "receiving", "resolved", "chosen", "streaming"},
           guest : Guests \cup {NoFolder},
           left  : Nat,                     \* files still to come
           saved : Nat,
           dir   : Folders \cup {NoFolder}, \* device_dir
           path  : Paths \cup {NoPath},
           moved : BOOLEAN,                 \* dir was renamed since (history)
           beaten : BOOLEAN]                \* path was created since (history)

IdleUpload == [at |-> "idle", guest |-> NoFolder, left |-> 0, saved |-> 0,
               dir |-> NoFolder, path |-> NoPath, moved |-> FALSE, beaten |-> FALSE]

DropTypeOK ==
    /\ LicenseTypeOK
    /\ folderOf \in [Guests -> Folders \cup {NoFolder}]
    /\ dirs \in SUBSET Folders
    /\ DOMAIN disk \subseteq Paths
    /\ \A p \in DOMAIN disk : disk[p] \in File /\ p[1] \in dirs
    /\ upload \in [Conns -> Upload]
    /\ uuids \in Nat /\ accepted \in Nat /\ qrDone \in Nat
    /\ qrUnlimited \in BOOLEAN

DropInit ==
    /\ LicenseInit
    /\ folderOf = [g \in Guests |-> NoFolder]
    /\ dirs = {}
    /\ disk = <<>>
    /\ upload = [c \in Conns |-> IdleUpload]
    /\ uuids = 0
    /\ accepted = 0
    /\ qrDone = 0
    /\ qrUnlimited = FALSE

-----------------------------------------------------------------------------
(* receive_upload *)

\* An upload over the demo's limits is answered 400.
UploadRefused(load) ==
    /\ ~QrAllowed(load)
    /\ CheckQrUpload(load)
    /\ UNCHANGED <<licenseVars, today, folderVars, upload, counts>>

BeginUpload(c, g, load, parts) ==
    /\ upload[c].at = "idle"
    /\ accepted < MaxFiles /\ accepted + parts <= MaxFiles
    /\ QrAllowed(load)
    /\ CheckQrUpload(load)
    /\ upload' = [upload EXCEPT ![c] = [IdleUpload EXCEPT !.at = "receiving",
                                          !.guest = g, !.left = parts]]
    /\ accepted' = accepted + (IF parts = 0 THEN 1 ELSE parts)
    /\ qrUnlimited' = (qrUnlimited \/ Registered)
    /\ UNCHANGED <<licenseVars, today, folderVars, uuids, qrDone>>

\* Any error (the peer is gone, a malformed part, a file that cannot be made)
\* is answered 400; files saved before stay, and are not counted.
UploadFails(c) ==
    /\ upload[c].at # "idle"
    /\ upload' = [upload EXCEPT ![c] = IdleUpload]
    /\ UNCHANGED <<licenseVars, today, demo, folderVars, counts>>

\* resolve_webdrop_folder, for every file: a new guest gets the folder of its
\* label, or a "Guest-" name, whoever else has it; the directory is made (again).
ResolveFolder(c) ==
    LET g == upload[c].guest
        wishes == IF folderOf[g] = NoFolder THEN Folders ELSE {folderOf[g]}
    IN
    /\ upload[c].at = "receiving"
    /\ upload[c].left > 0
    /\ \E folder \in wishes :
          /\ folderOf' = [folderOf EXCEPT ![g] = folder]
          /\ \/ /\ dirs' = dirs \cup {folder}
                /\ upload' = [upload EXCEPT ![c] = [@ EXCEPT !.at = "resolved",
                                                      !.dir = folder, !.moved = FALSE]]
             \/ upload' = [upload EXCEPT ![c] = IdleUpload] /\ UNCHANGED dirs
    /\ UNCHANGED <<licenseVars, today, demo, disk, counts>>

Free(dir, n) == {i \in 0 .. LastSuffix : <<dir, n, i>> \notin DOMAIN disk}

\* Mutant: after the first name only the last number is tried.
FirstOrLastNumber(dir, n) ==
    IF 0 \in Free(dir, n) THEN 0 ELSE LastSuffix

\* unique_receive_path: the first free number, or a UUID.
UniqueNumber(dir, n) ==
    IF Free(dir, n) = {} THEN LastSuffix + 1 + uuids
    ELSE CHOOSE i \in Free(dir, n) : \A j \in Free(dir, n) : i <= j

ChooseName(c, n) ==
    LET dir == upload[c].dir IN
    /\ upload[c].at = "resolved"
    /\ upload' = [upload EXCEPT ![c] = [@ EXCEPT !.at = "chosen", !.beaten = FALSE,
                                          !.path = <<dir, n, UniqueNumber(dir, n)>>]]
    /\ uuids' = IF Free(dir, n) = {} THEN uuids + 1 ELSE uuids
    /\ UNCHANGED <<licenseVars, today, demo, folderVars, accepted, qrDone, qrUnlimited>>

\* Uploads whose chosen path exists from now on have been beaten to it.
Beaten(uploads, taken) ==
    [d \in Conns |->
        IF uploads[d].at = "chosen" /\ uploads[d].path \in taken
        THEN [uploads[d] EXCEPT !.beaten = TRUE] ELSE uploads[d]]

\* From here on the file is reached through its handle, wherever it is moved.
Streaming(u) ==
    [IdleUpload EXCEPT !.at = "streaming", !.guest = u.guest, !.left = u.left,
                       !.saved = u.saved]

\* File::create fails when the directory is gone, and truncates a file that is
\* there.
CreateFile(c) ==
    LET p == upload[c].path
        file == [guest |-> upload[c].guest, late |-> upload[c].moved]
    IN
    /\ upload[c].at = "chosen"
    /\ p[1] \in dirs
    /\ disk' = [q \in DOMAIN disk \cup {p} |-> IF q = p THEN file ELSE disk[q]]
    /\ upload' = Beaten([upload EXCEPT ![c] = Streaming(@)], {p})
    /\ UNCHANGED <<licenseVars, today, demo, folderOf, dirs, uuids, accepted, qrDone, qrUnlimited>>

\* The part ends, or the connection does, which counts as the end of the last
\* part.
StreamEnds(c) ==
    /\ upload[c].at = "streaming"
    /\ \E left \in {upload[c].left - 1, 0} :
          upload' = [upload EXCEPT ![c].at = "receiving", ![c].left = left,
                                   ![c].saved = @ + 1]
    /\ UNCHANGED <<licenseVars, today, demo, folderVars, counts>>

\* Mutant: the upload is counted when it was checked, in that week.
EndCountsOldWeek(c) ==
    /\ upload[c].at = "receiving"
    /\ upload[c].left = 0
    /\ demo' = [demo EXCEPT !.qr = @ + 1]
    /\ qrDone' = qrDone + 1
    /\ upload' = [upload EXCEPT ![c] = IdleUpload]
    /\ UNCHANGED <<licenseVars, today, folderVars, uuids, accepted, qrUnlimited>>

\* The end of the body: the upload is counted, once for all its files.
EndOfForm(c) ==
    /\ upload[c].at = "receiving"
    /\ upload[c].left = 0
    /\ IF upload[c].saved > 0
       THEN RecordDemoQrUpload /\ qrDone' = qrDone + 1
       ELSE UNCHANGED <<demo, qrDone>>
    /\ upload' = [upload EXCEPT ![c] = IdleUpload]
    /\ UNCHANGED <<licenseVars, today, folderVars, uuids, accepted, qrUnlimited>>

-----------------------------------------------------------------------------
(* The UI renames a drawer in DJ mode *)

Moved(p, old, new) == IF p[1] = old THEN <<new, p[2], p[3]>> ELSE p

\* Mutant: the guests' entries are left as they were.
RenameKeepsGuests(old, new) ==
    /\ old \in dirs /\ new \notin dirs
    /\ dirs' = (dirs \ {old}) \cup {new}
    /\ disk' = [q \in {Moved(p, old, new) : p \in DOMAIN disk} |-> disk[Moved(q, new, old)]]
    /\ UNCHANGED <<licenseVars, today, demo, folderOf, upload, counts>>

\* rename_webdrop_folder: the directory and every guest who had it.  A folder
\* that has the new name is an error; so is, on Windows, an open file.
RenameFolder(old, new) ==
    LET moved == [q \in {Moved(p, old, new) : p \in DOMAIN disk} |->
                    disk[Moved(q, new, old)]]
        crossed == [c \in Conns |->
                      IF upload[c].dir = old THEN [upload[c] EXCEPT !.moved = TRUE]
                                             ELSE upload[c]]
    IN
    /\ old \in dirs /\ new \notin dirs
    /\ dirs' = (dirs \ {old}) \cup {new}
    /\ disk' = moved
    /\ folderOf' = [g \in Guests |-> IF folderOf[g] = old THEN new ELSE folderOf[g]]
    /\ upload' = Beaten(crossed, DOMAIN moved)
    /\ UNCHANGED <<licenseVars, today, demo, counts>>

-----------------------------------------------------------------------------

DropLicenseStep ==
    /\ (\E k \in Keys : Activate(k)) \/ Deactivate \/ (\E m \in Machines : HostRenamed(m))
    /\ UNCHANGED <<folderVars, upload, counts>>

DropNewSpan ==
    /\ today < Len(Calendar)
    /\ today' = today + 1
    /\ qrDone' = 0
    /\ UNCHANGED <<licenseVars, demo, folderVars, upload, uuids, accepted, qrUnlimited>>

Begin ==
    \E load \in Loads :
        \/ UploadRefused(load)
        \/ \E c \in Conns, g \in Guests, parts \in 0 .. MaxParts :
              BeginUpload(c, g, load, parts)

Work(c) ==
    \/ UploadFails(c) \/ ResolveFolder(c) \/ CreateFile(c) \/ StreamEnds(c) \/ EndOfForm(c)
    \/ \E n \in Names : ChooseName(c, n)

DropNext ==
    \/ Begin
    \/ \E c \in Conns : Work(c)
    \/ \E old, new \in Folders : RenameFolder(old, new)
    \/ DropLicenseStep
    \/ DropNewSpan

DropSpec == DropInit /\ [][DropNext]_dropVars

-----------------------------------------------------------------------------
(* Properties *)

(* A guest's files are in the folder the configuration has for the guest,  *)
(* through renames and uploads in any order, unless the folder was renamed *)
(* after the upload had looked it up and before it created the file        *)
(* (resolve_webdrop_folder, rename_webdrop_folder).                        *)
FilesFollowTheirGuest ==
    \A p \in DOMAIN disk : disk[p].late \/ p[1] = folderOf[disk[p].guest]

(* No step loses a file, a rename least of all, and a file is created      *)
(* under a name that is free, unless another one took it after the upload  *)
(* had found it free (unique_receive_path, then File::create, which        *)
(* truncates; rename_webdrop_folder).                                      *)
FilesAreKept ==
    [][/\ Cardinality(DOMAIN disk') >= Cardinality(DOMAIN disk)
       /\ \A c \in Conns :
             upload[c].at = "chosen" /\ upload'[c].at = "streaming"
                 => upload[c].beaten \/ upload[c].path \notin DOMAIN disk]_dropVars

(* Without a registration at most QrLimit - 1 uploads plus one for each    *)
(* upload that may run at once succeed in a week, the ones still under way *)
(* included, however long they take and whichever of them fail             *)
(* (check_qr_upload, record_demo_qr_upload).                               *)
QrOverrunIsBounded ==
    ~qrUnlimited =>
        qrDone + Cardinality({c \in Conns : upload[c].at # "idle"})
            <= QrLimit - 1 + Cardinality(Conns)

=============================================================================
