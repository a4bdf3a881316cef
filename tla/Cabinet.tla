------------------------------- MODULE Cabinet -------------------------------
(***************************************************************************)
(* The guests' folders of Web Drop and the set cabinet of DJ mode over     *)
(* Storage: resolve_webdrop_folder and rename_webdrop_folder (config.rs),  *)
(* the drawers, their order and their names (ui/mod.rs).                   *)
(*                                                                         *)
(* A folder is in three places: on the disk, in webdrop_devices and in the *)
(* cabinet.  A rename changes them one after the other, and any of them    *)
(* may fail or be the last thing the program does; the disk changes by     *)
(* itself too.  Folders are numbers, in the order of their names in lower  *)
(* case.  The ways of a guest's files are WebDrop's; here a guest has      *)
(* files in a folder or not.                                               *)
(***************************************************************************)
EXTENDS Storage, SequencesExt

\* A name has at most 48 bytes (sanitize_folder_name).
ASSUME FoldersAssumption == Folders \subseteq Nat /\ IsFiniteSet(Folders)

VARIABLES
    dirs,     \* folders under WebDrop
    filesIn,  \* the folders that have files of each guest
    dj,       \* the view is DJ mode
    order,    \* dj_drawer_order
    drawers,  \* dj_drawers
    renaming, \* dj_renaming_folder
    emptied,  \* dj_rename_text was cleared and nothing typed since
    parted,   \* a start knew less of the folders than the end before (history)
    behind    \* the user removed a folder in a file manager (history)

uiVars == <<dj, order, drawers, renaming, emptied>>
diskVars == <<dirs, filesIn, parted, behind>>
cabinetVars == <<uiVars, diskVars>>
vars == <<storageVars, cabinetVars>>
startVars == <<tlsVars, bootVars, splashVars>>

CabinetTypeOK ==
    /\ dirs \subseteq Folders
    /\ filesIn \in [Guests -> SUBSET Folders] /\ \A g \in Guests : filesIn[g] \subseteq dirs
    /\ order \in Seq(Folders) /\ drawers \in Seq(Folders)
    /\ renaming \in Folders \cup {Nil}
    /\ {dj, emptied, parted, behind} \subseteq BOOLEAN

CabinetInit ==
    /\ filesIn = [g \in Guests |-> IF file = Nil THEN {} ELSE {file.of.guests[g]} \ {Nil}]
    /\ dirs = UNION {filesIn[g] : g \in Guests}
    /\ dj = FALSE /\ order = <<>> /\ drawers = <<>> /\ renaming = Nil
    /\ emptied = TRUE /\ parted = FALSE /\ behind = FALSE

\* A program that starts has an empty cabinet.
StartWithCabinet ==
    /\ Start
    /\ dj' = FALSE /\ order' = <<>> /\ drawers' = <<>> /\ renaming' = Nil /\ emptied' = TRUE
    /\ parted' = (parted \/ (owed /\ starts > 0))
    /\ behind' = FALSE
    /\ UNCHANGED <<dirs, filesIn>>

-----------------------------------------------------------------------------
(* Guests                                                                  *)

\* A guest who is known has a folder; a new one gets that of the label, or a
\* "Guest-" name, whoever else has it.  Whether that is saved nobody looks at.
ResolveFolder(g, folder) ==
    /\ webDrop
    /\ \/ /\ cfg.guests[g] = folder
          /\ up /\ UNCHANGED <<runVars, configVars>>
       \/ /\ cfg.guests[g] = Nil
          /\ Change([cfg EXCEPT !.guests[g] = folder])
    /\ IF up' THEN /\ dirs' = dirs \cup {folder}
                   /\ filesIn' = [filesIn EXCEPT ![g] = @ \cup {folder}]
       ELSE UNCHANGED <<dirs, filesIn>>
    /\ UNCHANGED <<startVars, uiVars, parted, behind>>

\* The user has the folder open in a file manager.
RemoveFolder(folder) ==
    /\ folder \in dirs
    /\ dirs' = dirs \ {folder}
    /\ filesIn' = [g \in Guests |-> filesIn[g] \ {folder}]
    /\ behind' = TRUE
    /\ UNCHANGED <<storageVars, uiVars, parted>>

-----------------------------------------------------------------------------
(* The cabinet                                                             *)

\* The place of a number is how many of the set it does not exceed.
Place(numbers, n) == Cardinality({m \in numbers : m <= n})

Sorted(numbers) ==
    [k \in 1..Cardinality(numbers) |-> CHOOSE n \in numbers : Place(numbers, n) = k]

Without(seq, gone) ==
    LET kept == Sorted({i \in DOMAIN seq : seq[i] \notin gone})
    IN  [k \in DOMAIN kept |-> seq[kept[k]]]

\* scan_dj_drawers: what is new comes last, in the order of the names; what is
\* gone leaves.
Scanned(ordered, found) ==
    Without(ordered, Folders \ found) \o Sorted(found \ Range(ordered))

ScanOf(ordered) == order' = Scanned(ordered, dirs') /\ drawers' = order'

InDj == up /\ dj

ShowDjMode ==
    /\ up /\ ~dj /\ ~splash
    /\ dj' = TRUE
    /\ renaming' = Nil /\ emptied' = TRUE
    /\ UNCHANGED <<storageVars, diskVars>>
    /\ ScanOf(order)

ExitDjMode ==
    /\ InDj
    /\ dj' = FALSE
    /\ renaming' = Nil /\ emptied' = TRUE
    /\ UNCHANGED <<storageVars, diskVars, order, drawers>>

\* Every 2 s, and for every file received.
DjScanDrawers ==
    /\ InDj
    /\ UNCHANGED <<storageVars, diskVars, dj, renaming, emptied>>
    /\ ScanOf(order)

\* Another drawer may be right-clicked while one is renamed.
RenameStart(folder) ==
    /\ InDj /\ Contains(drawers, folder)
    /\ renaming' = folder /\ emptied' = FALSE
    /\ UNCHANGED <<storageVars, diskVars, dj, order, drawers>>

RenameInput ==
    /\ InDj /\ renaming # Nil /\ emptied
    /\ emptied' = FALSE
    /\ UNCHANGED <<storageVars, diskVars, dj, order, drawers, renaming>>

\* The text is empty, or the old name.
RenameNothing ==
    /\ InDj /\ Contains(drawers, renaming)
    /\ renaming' = Nil /\ emptied' = TRUE
    /\ UNCHANGED <<storageVars, diskVars, dj, order, drawers>>

\* rename_webdrop_folder, as far as the disk: the folder is there, and none has
\* the new name, unless it is the old one written differently.
CanRename(old, new) == old \in dirs /\ (new \notin dirs \/ new = old)

Moved(old, new, folders) == {IF f = old THEN new ELSE f : f \in folders}

\* Mutant: only the disk is told.
RenamedOnDisk(old, new) == cfg
Renamed(old, new) ==
    [cfg EXCEPT !.guests = [g \in Guests |-> IF @[g] = old THEN new ELSE @[g]]]

MoveFolder(old, new) ==
    /\ dirs' = Moved(old, new, dirs)
    /\ filesIn' = [g \in Guests |-> Moved(old, new, filesIn[g])]

IndexIn(seq, x) == CHOOSE i \in DOMAIN seq : seq[i] = x /\ \A j \in 1..(i - 1) : seq[j] # x
Relabelled(seq, old, new) ==
    IF Contains(seq, old) THEN [seq EXCEPT ![IndexIn(seq, old)] = new] ELSE seq

\* Mutant: the order is not told.
RelabelledNot(old, new) == ScanOf(order)
RelabelAndScan(old, new) == ScanOf(Relabelled(order, old, new))

\* The message of an error opens the field again, empty.
RenameError(old) ==
    /\ renaming' = old /\ emptied' = TRUE
    /\ UNCHANGED <<dj, order, drawers>>

\* DjDrawerRenameSubmit with a text that sanitize_folder_name makes new.  If the
\* save fails the folder has its new name already, and the order the old one.
RenameSubmit(new) ==
    LET old == renaming
    IN  /\ InDj /\ Contains(drawers, old) /\ ~emptied
        /\ \/ /\ CanRename(old, new) /\ MoveFolder(old, new)
              /\ Change(Renamed(old, new))
              /\ UNCHANGED <<parted, behind>>
              /\ IF owed' THEN RenameError(old)
                 ELSE /\ RelabelAndScan(old, new)
                      /\ renaming' = Nil /\ emptied' = TRUE
                      /\ UNCHANGED dj
           \/ \* The program ends between the disk and the file.
              /\ CanRename(old, new) /\ MoveFolder(old, new)
              /\ CanFail /\ failures' = failures + 1 /\ up' = FALSE
              /\ parted' = TRUE
              /\ UNCHANGED <<starts, configVars, uiVars, behind>>
           \/ \* The folder is gone, the name is taken, a file in it is open.
              /\ InDj /\ (CanRename(old, new) => new # old)
              /\ RenameError(old)
              /\ UNCHANGED <<runVars, configVars, diskVars>>
        /\ UNCHANGED startVars

\* swap with the neighbour, then apply_dj_drawer_order: the drawers that are
\* shown, in the new order.
Move(folder, by) ==
    /\ InDj /\ Contains(drawers, folder) /\ Contains(order, folder)
    /\ LET i == IndexIn(order, folder)
           j == i + by
       IN  /\ j \in DOMAIN order
           /\ order' = [order EXCEPT ![i] = order[j], ![j] = order[i]]
    /\ drawers' = Without(order', Folders \ Range(drawers))
    /\ UNCHANGED <<storageVars, diskVars, dj, renaming, emptied>>

CabinetStep ==
    \/ StartWithCabinet
    \/ \E g \in Guests, folder \in Folders : ResolveFolder(g, folder)
    \/ \E folder \in Folders : RemoveFolder(folder) \/ RenameStart(folder) \/ RenameSubmit(folder)
    \/ \E folder \in Folders : Move(folder, 1) \/ Move(folder, -1)
    \/ ShowDjMode \/ ExitDjMode \/ DjScanDrawers \/ RenameInput \/ RenameNothing

\* Earlier runs left nothing, an older version's file or a complete one.
Init ==
    /\ StorageInit({Nil} \cup OldFiles \cup {Whole(c) : c \in Config})
    /\ CabinetInit

Next == CabinetStep \/ (StorageStep /\ UNCHANGED cabinetVars)

Spec == Init /\ [][Next]_vars

-----------------------------------------------------------------------------
(* Properties                                                              *)

\* What a guest uploads stays in one folder, the one the configuration has for
\* the guest, through renames, failed saves and restarts ("the same phone always
\* lands in the same subfolder"), unless the program ended between the rename on
\* the disk and its save, or with a save that had failed.
GuestsKeepTheirFolder ==
    up /\ ~parted => \A g \in Guests : filesIn[g] \subseteq {cfg.guests[g]}

NoDoubles(seq) == \A i, j \in DOMAIN seq : seq[i] = seq[j] => i = j
Before(seq, a, b) == \E i, j \in DOMAIN seq : i < j /\ seq[i] = a /\ seq[j] = b

\* A folder renamed in this step goes on under the new name, if the rename could
\* be saved.  Otherwise the order keeps the old name, a ghost, until the next scan,
\* which takes the folder for a new one: the drawer has lost its place (ui/mod.rs:868).
NameNow(f) ==
    IF f \in dirs \ dirs' /\ dirs' \ dirs # {} /\ ~owed' THEN CHOOSE new \in dirs' \ dirs : TRUE
    ELSE f

\* A folder gets the name of a ghost; if by a rename, its drawer is shown twice.
GhostReturns == (dirs' \ dirs) \cap Range(order) # {}

DjMoves == \E f \in Folders : Move(f, 1) \/ Move(f, -1)

\* The order of the drawers is the DJ's.  Unless the user removed a folder in a
\* file manager, whatever saves fail: only moving a drawer changes which of two
\* comes first; new drawers come last; one that is renamed, and the rename saved,
\* keeps its place; and none comes to be shown twice except when a folder takes
\* the name of a ghost, after which nothing is said as long as it is
\* (scan_dj_drawers, DjDrawerRenameSubmit, apply_dj_drawer_order).
OrderIsTheDjs ==
    [][up /\ up' /\ ~behind' /\ NoDoubles(order) =>
          /\ GhostReturns \/ (NoDoubles(order') /\ NoDoubles(drawers'))
          /\ DjMoves \/ \A a, b \in Range(order) :
                Before(order, a, b) /\ {NameNow(a), NameNow(b)} \subseteq Range(order')
                => Before(order', NameNow(a), NameNow(b))
          /\ DjMoves \/ \A a \in Range(order), b \in Range(order') :
                b \notin {NameNow(f) : f \in Range(order)} /\ NameNow(a) \in Range(order')
                => Before(order', NameNow(a), b)]_vars

=============================================================================
