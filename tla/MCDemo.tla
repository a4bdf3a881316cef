------------------------------- MODULE MCDemo -------------------------------
(***************************************************************************)
(* Sending and WebDrop, which share Licensing, on a small instance; a      *)
(* behaviour is of one side.  Two transfers at once, a limit of one a week *)
(* and a calendar whose one ISO week has two ids because the year ends in  *)
(* it; two uploads at once that send files of one name, two guests, two    *)
(* folders and a limit of one upload.                                      *)
(***************************************************************************)
EXTENDS Sending, WebDrop, TLC

VARIABLE side

licensed == <<licenseVars, today, demo>>
sendVars == <<send, slot, archives, uiVars, history>>
uploadVars == <<folderVars, upload, counts>>

MCInit == side \in {"sends", "drops"} /\ Init /\ DropInit

MCNext ==
    /\ UNCHANGED side
    /\ \/ side = "sends" /\ Next /\ UNCHANGED uploadVars
       \/ side = "drops" /\ DropNext /\ UNCHANGED sendVars

MCSpec == MCInit /\ [][MCNext]_<<side, licensed, sendVars, uploadVars>>

MCCalendar == <<[year |-> 2025, isoWeek |-> 1], [year |-> 2026, isoWeek |-> 1]>>

DemoSymmetry ==
    Permutations(Sends) \cup Permutations(Keys)
    \cup Permutations(Conns) \cup Permutations(Guests) \cup Permutations(Folders)

=============================================================================
