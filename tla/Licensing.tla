------------------------------ MODULE Licensing ------------------------------
(***************************************************************************)
(* The license and the weekly demo counters: licensing/store.rs, with the  *)
(* UI's ActivateLicense and DeactivateLicense (ui/mod.rs).  Both live in   *)
(* the shared configuration, and every operation runs under its lock, so   *)
(* each is one step; what a caller does between two of them is not.        *)
(***************************************************************************)
EXTENDS Integers, Sequences, FiniteSets

CONSTANTS Keys,           \* product keys that validate
          NoKey,          \* license_key is None
          Machines,       \* fingerprints this computer may have: it is a hash
                          \* of the host name, which the user can change
          MaxActivations, \* MAX_ACTIVATIONS_PER_KEY
          SendLimit,      \* DEMO_SENDS_PER_WEEK
          QrLimit,        \* DEMO_QR_UPLOADS_PER_WEEK
          Calendar        \* spans of days with the same year and ISO week

\* A week id is the calendar year with the ISO week's number: it changes at New
\* Year in the middle of a week, and a week's end may have the id the year began
\* with.  The spans of a calendar here are less than a year.
WeekId(d) == <<Calendar[d].year, Calendar[d].isoWeek>>

Spans == 1 .. Len(Calendar)

ASSUME LicensingAssumption ==
    /\ NoKey \notin Keys
    /\ MaxActivations \in Nat \ {0}
    /\ SendLimit \in Nat \ {0}
    /\ QrLimit \in Nat \ {0}
    /\ Calendar \in Seq([year : Nat, isoWeek : Nat])
    /\ Len(Calendar) > 0
    /\ \A d, e \in Spans : d # e => WeekId(d) # WeekId(e)

VARIABLES
    key,     \* license_key
    prints,  \* license_fingerprints
    machine, \* machine_fingerprint() as it is now
    today,   \* the span that holds the current day
    demo     \* the week the counters belong to, and the counters

licenseVars == <<key, prints, machine>>

LicenseTypeOK ==
    /\ key \in Keys \cup {NoKey}
    /\ prints \in SUBSET Machines
    /\ machine \in Machines
    /\ today \in Spans
    /\ demo \in [week : {WeekId(d) : d \in Spans}, sends : Nat, qr : Nat]

LicenseInit ==
    /\ key = NoKey
    /\ prints = {}
    /\ machine \in Machines
    /\ today = 1
    /\ demo = [week |-> WeekId(1), sends |-> 0, qr |-> 0]

\* is_registered: looks at the key, not at this computer's fingerprint.
Registered == key # NoKey

\* roll_week_if_needed
Rolled == IF demo.week = WeekId(today) THEN demo
          ELSE [week |-> WeekId(today), sends |-> 0, qr |-> 0]

\* A key that does not validate changes nothing.
Activate(k) ==
    LET known == IF key \in Keys \ {k} THEN {} ELSE prints IN
    /\ machine \in known \/ Cardinality(known) < MaxActivations
    /\ key' = k
    /\ prints' = known \cup {machine}
    /\ UNCHANGED <<machine, today, demo>>

\* Mutant: the key goes though another fingerprint still holds it.
DeactivateDropsKey ==
    /\ prints' = prints \ {machine}
    /\ key' = NoKey
    /\ UNCHANGED <<machine, today, demo>>

Deactivate ==
    /\ prints' = prints \ {machine}
    /\ key' = IF prints' = {} THEN NoKey ELSE key
    /\ UNCHANGED <<machine, today, demo>>

HostRenamed(m) ==
    /\ machine' = m
    /\ UNCHANGED <<key, prints, today, demo>>

\* Items are one small file, several items or a folder, or too many bytes.
Loads == {"single", "several", "big"}

\* check_send, and its effect on the counters.
SendAllowed(load) ==
    Registered \/ (load = "single" /\ Rolled.sends < SendLimit)

CheckSend(load) ==
    demo' = IF Registered \/ load # "single" THEN demo ELSE Rolled

\* Mutant: the week is not looked at.
RecordStale == demo' = [demo EXCEPT !.sends = @ + 1]

\* record_demo_send, registered or not.
RecordDemoSend == demo' = [Rolled EXCEPT !.sends = @ + 1]

\* check_qr_upload and record_demo_qr_upload.
QrAllowed(load) ==
    Registered \/ (load # "big" /\ Rolled.qr < QrLimit)

CheckQrUpload(load) ==
    demo' = IF Registered \/ load = "big" THEN demo ELSE Rolled

RecordDemoQrUpload == demo' = [Rolled EXCEPT !.qr = @ + 1]

-----------------------------------------------------------------------------

(* The key is kept exactly as long as some fingerprint holds it, and never *)
(* more than MaxActivations do: activating again, activating another key,  *)
(* renaming the computer and deactivating included (store.rs).             *)
KeyMatchesPrints ==
    /\ Registered <=> prints # {}
    /\ Cardinality(prints) <= MaxActivations

=============================================================================
