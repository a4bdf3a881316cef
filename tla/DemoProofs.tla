----------------------------- MODULE DemoProofs ------------------------------
(***************************************************************************)
(* What an unlicensed copy may do, with transfers and uploads under way:   *)
(* the types of Sending and WebDrop, the bounds on overrunning the weekly  *)
(* limits, what becomes of the key and its fingerprints, that nothing is left *)
(* behind, and that files stay with their guest: for any calendar, limits, *)
(* computers, guests, folders and names and any number at once.            *)
(***************************************************************************)
EXTENDS Sending, WebDrop, FiniteSetTheorems, WellFoundedInduction, TLAPS

(* Transfers (Sending) *)

\* The counters belong to a span that has begun.
WeekSeen == \E d \in 1 .. today : demo.week = WeekId(d)

\* What the check will see is at least what was completed.
Counted == fileDone <= Rolled.sends

IInv ==
    /\ TypeOK
    /\ WeekSeen
    /\ Counted
    /\ OverrunIsBounded

-----------------------------------------------------------------------------
(* Lemmas about the counters and the transfers under way *)

\* Rolling keeps the type of the counters and yields those of the current span.
LEMMA RolledType ==
    ASSUME LicenseTypeOK
    PROVE  /\ Rolled \in [week : {WeekId(d) : d \in Spans}, sends : Nat, qr : Nat]
           /\ Rolled.week = WeekId(today)
BY DEF LicenseTypeOK, Rolled

\* The transfers under way are finitely many, at most all.
LEMMA InFlightFinite ==
    /\ IsFiniteSet(InFlight)
    /\ Cardinality(InFlight) \in Nat
    /\ Cardinality(Sends) \in Nat
    /\ Cardinality(InFlight) <= Cardinality(Sends)
<1>1. InFlight \subseteq Sends /\ IsFiniteSet(Sends)
    BY SendingAssumption DEF InFlight
<1> QED
    BY <1>1, FS_Subset, FS_CardinalityType

\* The same in the next state.
LEMMA InFlightFiniteNext ==
    /\ IsFiniteSet(InFlight')
    /\ Cardinality(InFlight') \in Nat
    /\ Cardinality(InFlight') <= Cardinality(Sends)
<1>1. InFlight' \subseteq Sends /\ IsFiniteSet(Sends)
    BY SendingAssumption DEF InFlight
<1> QED
    BY <1>1, FS_Subset, FS_CardinalityType

\* A step that starts no file transfer does not raise their number.
LEMMA FewerInFlight ==
    ASSUME InFlight' \subseteq InFlight
    PROVE  Cardinality(InFlight') <= Cardinality(InFlight)
BY InFlightFinite, FS_Subset

\* A step that leaves the counters, the day and the history alone and starts
\* no file transfer keeps the invariant.
LEMMA QuietStep ==
    ASSUME IInv, TypeOK', InFlight' \subseteq InFlight,
           UNCHANGED <<today, demo, fileDone, unlimited>>
    PROVE  IInv'
<1>1. WeekSeen' /\ Counted'
    BY DEF IInv, WeekSeen, Counted, Rolled, WeekId
<1>2. OverrunIsBounded'
    BY FewerInFlight, InFlightFinite, InFlightFiniteNext, SendingAssumption,
       LicensingAssumption
    DEF IInv, OverrunIsBounded, TypeOK
<1> QED
    BY <1>1, <1>2 DEF IInv

-----------------------------------------------------------------------------
(* Initial states and steps *)

LEMMA InitInv == Init => IInv
<1> SUFFICES ASSUME Init PROVE IInv
    OBVIOUS
<1>1. 1 \in Spans /\ Len(Calendar) \in Nat
    BY LicensingAssumption DEF Spans
<1>2. TypeOK
    BY <1>1 DEF Init, LicenseInit, TypeOK, LicenseTypeOK, Send, IdleSend, Steps
<1>3. WeekSeen /\ Counted
    BY <1>1 DEF Init, LicenseInit, WeekSeen, Counted, Rolled
<1>4. InFlight = {}
    BY DEF Init, InFlight, IdleSend
<1>5. OverrunIsBounded
    BY <1>4, FS_EmptySet, InFlightFinite, LicensingAssumption
    DEF OverrunIsBounded, Init
<1> QED
    BY <1>2, <1>3, <1>5 DEF IInv

\* Every step of a task moves its record to another well-typed one.
LEMMA TaskStepSend ==
    ASSUME TypeOK, NEW s \in Sends, TaskStep(s)
    PROVE  send' \in [Sends -> Send]
<1> USE DEF TypeOK, Send, Steps
<1>1. ASSUME NEW step \in Steps, Goto(s, step) PROVE send' \in [Sends -> Send]
    BY <1>1 DEF Goto
<1>2. ASSUME Fail(s) PROVE send' \in [Sends -> Send]
    BY <1>2 DEF Fail, Goto
<1>3. ASSUME send' = [send EXCEPT ![s].at = "ended", ![s].ok = TRUE]
      PROVE  send' \in [Sends -> Send]
    BY <1>3
<1>4. ASSUME send' = [send EXCEPT ![s].at = "closing", ![s].ok = TRUE]
      PROVE  send' \in [Sends -> Send]
    BY <1>4
<1> QED
    BY <1>1, <1>2, <1>3, <1>4
    DEF TaskStep, CollectEntries, Discover, AskReceiver, BuildArchive,
        UploadChunk, EndUpload, CloseProgress

LEMMA TypeStep == TypeOK /\ [Next]_vars => TypeOK'
<1> SUFFICES ASSUME TypeOK, [Next]_vars PROVE TypeOK'
    OBVIOUS
<1> USE DEF TypeOK, LicenseTypeOK, licenseVars, counters, uiVars, history, unseen
<1>0. Rolled \in [week : {WeekId(d) : d \in Spans}, sends : Nat, qr : Nat]
    BY RolledType
<1>1. ASSUME NEW d \in Devices, DeviceSelected(d) PROVE TypeOK'
    BY <1>1 DEF DeviceSelected
<1>2. ASSUME DeviceDeselected \/ SelectedVanishes PROVE TypeOK'
    BY <1>2 DEF DeviceDeselected, SelectedVanishes
<1>3. ASSUME NEW s \in Sends, NEW d \in Devices, NEW load \in Loads, StartSend(s, d, load)
      PROVE  TypeOK'
    BY <1>0, <1>3 DEF StartSend, Launch, CheckSend, Send, Steps
<1>4. ASSUME NEW load \in Loads, SendRefused(load) PROVE TypeOK'
    BY <1>0, <1>4 DEF SendRefused, CheckSend
<1>5. ASSUME NEW s \in Sends, NEW d \in Devices, SendLink(s, d) PROVE TypeOK'
    BY <1>5 DEF SendLink, Launch, Send, Steps
<1>6. ASSUME PollProgress PROVE TypeOK'
    BY <1>6 DEF PollProgress
<1>7. ASSUME NEW s \in Sends, FileSendCompleted(s) PROVE TypeOK'
    <2>1. send' \in [Sends -> Send]
        BY <1>7 DEF FileSendCompleted, IdleSend, Send, Steps
    <2>2. demo' \in [week : {WeekId(d) : d \in Spans}, sends : Nat, qr : Nat]
        BY <1>0, <1>7 DEF FileSendCompleted, RecordDemoSend
    <2>3. fileDone' \in Nat /\ selected' \in Devices \cup {NoDevice}
        BY <1>7 DEF FileSendCompleted
    <2> QED
        BY <1>7, <2>1, <2>2, <2>3 DEF FileSendCompleted
<1>8. ASSUME NEW s \in Sends, TaskStep(s) PROVE TypeOK'
    <2>1. send' \in [Sends -> Send]
        BY <1>8, TaskStepSend
    <2>2. slot' \in BOOLEAN /\ archives' \in SUBSET Sends
        BY <1>8 DEF TaskStep, CollectEntries, Discover, AskReceiver, BuildArchive,
                    UploadChunk, EndUpload, CloseProgress
    <2>3. UNCHANGED unseen
        BY <1>8 DEF TaskStep, CollectEntries, Discover, AskReceiver, BuildArchive,
                    UploadChunk, EndUpload, CloseProgress
    <2> QED
        BY <2>1, <2>2, <2>3
<1>9. ASSUME LicenseStep PROVE TypeOK'
    BY <1>9 DEF LicenseStep, Activate, Deactivate, HostRenamed
<1>10. ASSUME NewSpan PROVE TypeOK'
    BY <1>10, LicensingAssumption DEF NewSpan, Spans
<1>11. ASSUME UNCHANGED vars PROVE TypeOK'
    BY <1>11 DEF vars
<1> QED
    BY <1>1, <1>2, <1>3, <1>4, <1>5, <1>6, <1>7, <1>8, <1>9, <1>10, <1>11
    DEF Next, UIStep

\* The check rolls the counters over to the current span.
LEMMA CheckSendKeeps ==
    ASSUME IInv, NEW load \in Loads, CheckSend(load), today' = today,
           fileDone' = fileDone
    PROVE  WeekSeen' /\ Counted'
<1>1. today \in 1 .. today
    BY DEF IInv, TypeOK, LicenseTypeOK, Spans
<1>2. CASE demo' = demo
    BY <1>2 DEF IInv, WeekSeen, Counted, Rolled, WeekId
<1>3. CASE demo' = Rolled
    <2>1. Rolled.week = WeekId(today) /\ Rolled' = Rolled
        BY <1>3, RolledType DEF IInv, TypeOK, Rolled, WeekId
    <2> QED
        BY <1>1, <1>3, <2>1 DEF IInv, WeekSeen, Counted, WeekId
<1> QED
    BY <1>2, <1>3 DEF CheckSend

LEMMA StartSendInv ==
    ASSUME IInv, TypeOK', NEW s \in Sends, NEW d \in Devices, NEW load \in Loads,
           StartSend(s, d, load)
    PROVE  IInv'
<1>1. WeekSeen' /\ Counted'
    BY CheckSendKeeps DEF StartSend
<1>2. ASSUME ~unlimited' PROVE fileDone <= SendLimit - 1
    <2>1. ~Registered
        BY <1>2 DEF StartSend
    <2>2. Rolled.sends < SendLimit
        BY <2>1 DEF StartSend, SendAllowed
    <2>3. fileDone \in Nat /\ Rolled.sends \in Nat /\ fileDone <= Rolled.sends
        BY RolledType DEF IInv, TypeOK, Counted
    <2> QED
        BY <2>2, <2>3, LicensingAssumption
<1>3. OverrunIsBounded'
    BY <1>2, InFlightFinite, InFlightFiniteNext, LicensingAssumption
    DEF OverrunIsBounded, StartSend, IInv, TypeOK
<1> QED
    BY <1>1, <1>3 DEF IInv

\* A success is counted in the current span.
LEMMA CompletedInv ==
    ASSUME IInv, TypeOK', NEW s \in Sends, FileSendCompleted(s)
    PROVE  IInv'
<1> USE DEF IInv, TypeOK, LicenseTypeOK
<1>1. today \in 1 .. today /\ today' = today
    BY DEF FileSendCompleted, Spans
<1>2. WeekSeen' /\ Counted'
    <2>1. CASE send[s].ok
        <3>1. demo' = [Rolled EXCEPT !.sends = @ + 1]
            BY <2>1 DEF FileSendCompleted, RecordDemoSend
        <3>2. demo'.week = WeekId(today) /\ demo'.sends = Rolled.sends + 1
            BY <3>1, RolledType
        <3>3. Rolled' = demo'
            BY <1>1, <3>2 DEF Rolled, WeekId
        <3>4. fileDone' <= fileDone + 1
            BY DEF FileSendCompleted
        <3> QED
            BY <1>1, <3>2, <3>3, <3>4, RolledType DEF WeekSeen, Counted, WeekId
    <2>2. CASE ~send[s].ok
        BY <2>2 DEF FileSendCompleted, WeekSeen, Counted, Rolled, WeekId
    <2> QED
        BY <2>1, <2>2
<1>3. OverrunIsBounded'
    <2>1. CASE send[s].link
        <3>1. InFlight' \subseteq InFlight
            BY <2>1 DEF FileSendCompleted, InFlight, IdleSend, Send
        <3> QED
            BY <2>1, <3>1, FewerInFlight, InFlightFinite, InFlightFiniteNext,
               LicensingAssumption
            DEF OverrunIsBounded, FileSendCompleted
    <2>2. CASE ~send[s].link
        <3>1. InFlight' = InFlight \ {s} /\ s \in InFlight
            BY <2>2 DEF FileSendCompleted, InFlight, IdleSend, Send
        <3>2. Cardinality(InFlight') = Cardinality(InFlight) - 1
            BY <3>1, InFlightFinite, FS_RemoveElement
        <3> QED
            BY <2>2, <3>2, InFlightFinite, LicensingAssumption
            DEF OverrunIsBounded, FileSendCompleted
    <2> QED
        BY <2>1, <2>2
<1> QED
    BY <1>2, <1>3

\* A new span starts with nothing completed, and its id is new.
LEMMA NewSpanInv ==
    ASSUME IInv, TypeOK', NewSpan
    PROVE  IInv'
<1> USE DEF IInv, TypeOK, LicenseTypeOK, NewSpan
<1>1. WeekSeen'
    BY LicensingAssumption DEF WeekSeen, WeekId, Spans
<1>2. demo.week # WeekId(today')
    <2>1. PICK d \in 1 .. today : demo.week = WeekId(d)
        BY DEF WeekSeen
    <2>2. d \in Spans /\ today' \in Spans /\ d # today'
        BY LicensingAssumption DEF Spans
    <2> QED
        BY <2>1, <2>2, LicensingAssumption
<1>3. Counted'
    BY <1>2 DEF Counted, Rolled, WeekId
<1>4. OverrunIsBounded'
    BY InFlightFinite, InFlightFiniteNext, LicensingAssumption DEF OverrunIsBounded
<1> QED
    BY <1>1, <1>3, <1>4

LEMMA NextInv == IInv /\ [Next]_vars => IInv'
<1> SUFFICES ASSUME IInv, [Next]_vars PROVE IInv'
    OBVIOUS
<1>0. TypeOK'
    BY TypeStep DEF IInv
<1> USE DEF licenseVars, counters, uiVars, history, unseen
<1>1. ASSUME NEW d \in Devices, DeviceSelected(d) PROVE IInv'
    BY <1>0, <1>1, QuietStep DEF DeviceSelected, InFlight
<1>2. ASSUME DeviceDeselected \/ SelectedVanishes PROVE IInv'
    BY <1>0, <1>2, QuietStep DEF DeviceDeselected, SelectedVanishes, InFlight
<1>3. ASSUME NEW s \in Sends, NEW d \in Devices, NEW load \in Loads, StartSend(s, d, load)
      PROVE  IInv'
    BY <1>0, <1>3, StartSendInv
<1>4. ASSUME NEW load \in Loads, SendRefused(load) PROVE IInv'
    <2>1. WeekSeen' /\ Counted'
        BY <1>4, CheckSendKeeps DEF SendRefused
    <2>2. InFlight' = InFlight
        BY <1>4 DEF SendRefused, InFlight
    <2> QED
        BY <1>0, <1>4, <2>1, <2>2 DEF SendRefused, IInv, OverrunIsBounded
<1>5. ASSUME NEW s \in Sends, NEW d \in Devices, SendLink(s, d) PROVE IInv'
    <2>1. InFlight' \subseteq InFlight
        BY <1>5 DEF SendLink, Launch, InFlight, IInv, TypeOK, Send
    <2> QED
        BY <1>0, <1>5, <2>1, QuietStep DEF SendLink
<1>6. ASSUME PollProgress PROVE IInv'
    BY <1>0, <1>6, QuietStep DEF PollProgress, InFlight
<1>7. ASSUME NEW s \in Sends, FileSendCompleted(s) PROVE IInv'
    BY <1>0, <1>7, CompletedInv
<1>8. ASSUME NEW s \in Sends, TaskStep(s) PROVE IInv'
    <2>1. InFlight' \subseteq InFlight
        BY <1>8 DEF TaskStep, CollectEntries, Discover, AskReceiver, BuildArchive,
                    UploadChunk, EndUpload, CloseProgress, Fail, Goto, From,
                    InFlight, IInv, TypeOK, Send
    <2>2. UNCHANGED <<today, demo, fileDone, unlimited>>
        BY <1>8 DEF TaskStep, CollectEntries, Discover, AskReceiver, BuildArchive,
                    UploadChunk, EndUpload, CloseProgress
    <2> QED
        BY <1>0, <2>1, <2>2, QuietStep
<1>9. ASSUME LicenseStep PROVE IInv'
    BY <1>0, <1>9, QuietStep
    DEF LicenseStep, Activate, Deactivate, HostRenamed, InFlight
<1>10. ASSUME NewSpan PROVE IInv'
    BY <1>0, <1>10, NewSpanInv
<1>11. ASSUME UNCHANGED vars PROVE IInv'
    BY <1>0, <1>11, QuietStep DEF vars, InFlight
<1> QED
    BY <1>1, <1>2, <1>3, <1>4, <1>5, <1>6, <1>7, <1>8, <1>9, <1>10, <1>11
    DEF Next, UIStep

-----------------------------------------------------------------------------
(* The key and its fingerprints *)

KeyInv == TypeOK /\ IsFiniteSet(prints) /\ KeyMatchesPrints

LEMMA KeyInit == Init => KeyInv
<1>1. Init => TypeOK
    BY InitInv DEF IInv
<1> QED
    BY <1>1, FS_EmptySet, LicensingAssumption
    DEF Init, LicenseInit, KeyInv, KeyMatchesPrints, Registered

\* A fingerprint is added where there is room, and only with a key.
LEMMA ActivateKeeps ==
    ASSUME KeyInv, NEW k \in Keys, Activate(k)
    PROVE  IsFiniteSet(prints') /\ KeyMatchesPrints'
<1> DEFINE known == IF key \in Keys \ {k} THEN {} ELSE prints
<1>1. /\ machine \in known \/ Cardinality(known) < MaxActivations
      /\ key' = k /\ prints' = known \cup {machine}
    BY DEF Activate
<1>2. IsFiniteSet(known) /\ Cardinality(known) \in Nat /\ Cardinality(known) <= MaxActivations
    <2>1. IsFiniteSet({}) /\ Cardinality({}) = 0
        BY FS_EmptySet
    <2>2. IsFiniteSet(prints) /\ Cardinality(prints) <= MaxActivations
        BY DEF KeyInv, KeyMatchesPrints
    <2>3. Cardinality(prints) \in Nat
        BY <2>2, FS_CardinalityType
    <2> QED
        BY <2>1, <2>2, <2>3, LicensingAssumption
<1> HIDE DEF known
<1>3. /\ IsFiniteSet(known \cup {machine})
      /\ Cardinality(known \cup {machine})
            = IF machine \in known THEN Cardinality(known) ELSE Cardinality(known) + 1
    BY <1>2, FS_AddElement
<1>4. Cardinality(prints') <= MaxActivations
    BY <1>1, <1>2, <1>3, LicensingAssumption
<1>5. Registered' /\ prints' # {}
    BY <1>1, LicensingAssumption DEF Registered
<1> QED
    BY <1>1, <1>3, <1>4, <1>5 DEF KeyMatchesPrints

\* The key goes with the last fingerprint.
LEMMA DeactivateKeeps ==
    ASSUME KeyInv, Deactivate
    PROVE  IsFiniteSet(prints') /\ KeyMatchesPrints'
<1>1. prints' \subseteq prints /\ (key' = IF prints' = {} THEN NoKey ELSE key)
    BY DEF Deactivate
<1>2. /\ IsFiniteSet(prints') /\ Cardinality(prints') <= Cardinality(prints)
      /\ Cardinality(prints) \in Nat /\ Cardinality(prints') \in Nat
    BY <1>1, FS_Subset, FS_CardinalityType DEF KeyInv
<1>3. Cardinality(prints') <= MaxActivations
    BY <1>2, LicensingAssumption DEF KeyInv, KeyMatchesPrints
<1>4. Registered' <=> prints' # {}
    BY <1>1 DEF KeyInv, KeyMatchesPrints, Registered
<1> QED
    BY <1>2, <1>3, <1>4 DEF KeyMatchesPrints

LEMMA KeyNext == KeyInv /\ [Next]_vars => KeyInv'
<1> SUFFICES ASSUME KeyInv, [Next]_vars PROVE KeyInv'
    OBVIOUS
<1>1. TypeOK'
    BY TypeStep DEF KeyInv
<1>2. ASSUME UNCHANGED <<key, prints>> PROVE KeyInv'
    BY <1>1, <1>2 DEF KeyInv, KeyMatchesPrints, Registered
<1>3. ASSUME LicenseStep PROVE KeyInv'
    BY <1>1, <1>2, <1>3, ActivateKeeps, DeactivateKeeps DEF LicenseStep, HostRenamed, KeyInv
<1>4. ASSUME NEW s \in Sends, TaskStep(s) PROVE UNCHANGED <<key, prints>>
    BY <1>4 DEF TaskStep, CollectEntries, Discover, AskReceiver, BuildArchive, UploadChunk, EndUpload,
                CloseProgress, unseen, licenseVars
<1>5. ASSUME UIStep \/ NewSpan \/ UNCHANGED vars PROVE UNCHANGED <<key, prints>>
    BY <1>5 DEF UIStep, DeviceSelected, DeviceDeselected, SelectedVanishes, StartSend, SendRefused,
                SendLink, PollProgress, FileSendCompleted, NewSpan, vars, licenseVars
<1> QED
    BY <1>2, <1>3, <1>4, <1>5 DEF Next

-----------------------------------------------------------------------------
(* What the transfers leave behind *)

\* Where a file transfer may have set the progress, and has not cleared it yet.
Reporting == {"discovering", "asking", "building", "uploading", "closing"}

\* A link has no archive and reports nothing.  A value in the slot is one that a
\* file transfer will clear; what the UI shows belongs to a transfer it has not
\* heard the end of; an archive is there while it is uploaded.
LeftInv ==
    /\ \A s \in Sends : send[s].link => send[s].at \in {"idle", "discovering", "asking", "ended"}
    /\ slot => \E s \in Sends : ~send[s].link /\ send[s].at \in Reporting
    /\ progress \/ status # "idle" => \E s \in Sends : send[s].at # "idle"
    /\ \A s \in archives : send[s].at = "uploading"

LEMMA LeftInit == Init => LeftInv
BY SendingAssumption DEF Init, IdleSend, LeftInv

\* A step of the UI that starts and ends no transfer.
LEMMA LeftQuiet ==
    ASSUME LeftInv, UNCHANGED <<send, slot, archives>>,
           (progress' => progress \/ slot) /\ (status' # "idle" => status # "idle" \/ slot)
    PROVE  LeftInv'
BY DEF LeftInv, Reporting

LEMMA LaunchLeft ==
    ASSUME TypeOK, LeftInv, NEW s \in Sends, NEW step \in {"scanning", "discovering"},
           NEW link \in BOOLEAN, link => step = "discovering",
           Launch(s, step, link), UNCHANGED <<slot, archives>>
    PROVE  LeftInv'
<1>1. /\ send[s].at = "idle"
      /\ \A r \in Sends : send'[r] = IF r = s THEN [at |-> step, link |-> link, ok |-> FALSE] ELSE send[r]
    BY DEF Launch, TypeOK
<1>2. send'[s].at = step /\ send'[s].link = link /\ \A r \in Sends \ {s} : send'[r] = send[r]
    BY <1>1
<1>3. \A r \in Sends : send[r].at # "idle" => send'[r] = send[r]
    BY <1>1, <1>2
<1>4. archives \subseteq Sends
    BY DEF TypeOK
<1> QED
    BY <1>1, <1>2, <1>3, <1>4 DEF LeftInv, Reporting

LEMMA CompletedLeft ==
    ASSUME TypeOK, LeftInv, NEW s \in Sends, FileSendCompleted(s)
    PROVE  LeftInv'
<1>1. /\ send[s].at = "ended" /\ send'[s] = IdleSend
      /\ \A r \in Sends \ {s} : send'[r] = send[r]
      /\ ~progress' /\ status' = "idle" /\ UNCHANGED <<slot, archives>>
    BY DEF FileSendCompleted, TypeOK
<1>2. \A r \in Sends : send[r].at # "ended" => send'[r] = send[r]
    BY <1>1
<1>3. archives \subseteq Sends
    BY DEF TypeOK
<1> QED
    BY <1>1, <1>2, <1>3 DEF LeftInv, IdleSend, Reporting

\* A task goes on from step to step, and reports to the end.
LEMMA TaskLeft ==
    ASSUME TypeOK, LeftInv, NEW s \in Sends, TaskStep(s)
    PROVE  LeftInv'
<1> USE DEF LeftInv
<1>0. /\ UNCHANGED <<progress, status>> /\ archives \subseteq Sends /\ send[s].at # "idle"
      /\ send \in [Sends -> Send] /\ slot \in BOOLEAN
    BY DEF TaskStep, CollectEntries, Discover, AskReceiver, BuildArchive, UploadChunk, EndUpload,
           CloseProgress, unseen, uiVars, TypeOK, From
\* The step, and what it needs to keep.
<1>1. ASSUME NEW step \in Steps \ {"idle"}, send'[s].at = step, send'[s].link = send[s].link,
             \A r \in Sends \ {s} : send'[r] = send[r],
             send[s].link => step \in {"discovering", "asking", "ended"},
             slot' => slot \/ (~send[s].link /\ step \in Reporting),
             slot' /\ ~send[s].link /\ send[s].at \in Reporting => step \in Reporting,
             \A r \in archives' : IF r = s THEN step = "uploading" ELSE r \in archives
      PROVE  LeftInv'
    <2>1. \A r \in Sends : send'[r].link => send'[r].at \in {"idle", "discovering", "asking", "ended"}
        BY <1>1
    <2>2. slot' => \E r \in Sends : ~send'[r].link /\ send'[r].at \in Reporting
        BY <1>1
    <2>3. progress' \/ status' # "idle" => \E r \in Sends : send'[r].at # "idle"
        BY <1>0, <1>1
    <2>4. \A r \in archives' : send'[r].at = "uploading"
        BY <1>0, <1>1
    <2> QED
        BY <2>1, <2>2, <2>3, <2>4
<1>2. ASSUME NEW step \in Steps, Goto(s, step)
      PROVE  /\ send'[s].at = step /\ send'[s].link = send[s].link
             /\ \A r \in Sends \ {s} : send'[r] = send[r]
    BY <1>0, <1>2 DEF Goto, Send
<1>3. ASSUME Fail(s), UNCHANGED slot, archives' = archives \ {s}
      PROVE  LeftInv'
    <2>1. CASE send[s].link
        BY <1>0, <1>1, <1>2, <1>3, <2>1 DEF Fail, Steps, Reporting
    <2>2. CASE ~send[s].link
        BY <1>0, <1>1, <1>2, <1>3, <2>2 DEF Fail, Steps, Reporting
    <2> QED
        BY <2>1, <2>2
<1>4. send[s].at # "uploading" => archives \ {s} = archives
    BY <1>0
<1>5. CASE CollectEntries(s)
    BY <1>0, <1>1, <1>2, <1>3, <1>4, <1>5 DEF CollectEntries, From, Steps, Reporting
<1>6. CASE Discover(s)
    BY <1>0, <1>1, <1>2, <1>3, <1>4, <1>6 DEF Discover, From, Steps, Reporting
<1>7. CASE AskReceiver(s)
    <2>1. ASSUME send[s].link, send' = [send EXCEPT ![s].at = "ended", ![s].ok = TRUE]
          PROVE  /\ send'[s].at = "ended" /\ send'[s].link = send[s].link
                 /\ \A r \in Sends \ {s} : send'[r] = send[r]
        BY <1>0, <2>1 DEF Send
    <2> QED
        BY <1>0, <1>1, <1>2, <1>3, <1>4, <1>7, <2>1 DEF AskReceiver, From, Steps, Reporting
<1>8. CASE BuildArchive(s)
    BY <1>0, <1>1, <1>2, <1>3, <1>4, <1>8 DEF BuildArchive, From, Steps, Reporting
<1>9. CASE UploadChunk(s)
    BY <1>0, <1>9 DEF UploadChunk, From, Reporting
<1>10. CASE EndUpload(s)
    <2>1. ASSUME send' = [send EXCEPT ![s].at = "closing", ![s].ok = TRUE]
          PROVE  /\ send'[s].at = "closing" /\ send'[s].link = send[s].link
                 /\ \A r \in Sends \ {s} : send'[r] = send[r]
        BY <1>0, <2>1 DEF Send
    <2> QED
        BY <1>0, <1>1, <1>3, <1>10, <2>1 DEF EndUpload, From, Steps, Reporting
<1>11. CASE CloseProgress(s)
    BY <1>0, <1>1, <1>2, <1>4, <1>11 DEF CloseProgress, From, Steps, Reporting
<1> QED
    BY <1>5, <1>6, <1>7, <1>8, <1>9, <1>10, <1>11 DEF TaskStep

LEMMA LeftNext == TypeOK /\ LeftInv /\ [Next]_vars => LeftInv'
<1> SUFFICES ASSUME TypeOK, LeftInv, [Next]_vars PROVE LeftInv'
    OBVIOUS
<1> USE DEF uiVars
<1>1. ASSUME NEW s \in Sends, NEW d \in Devices, NEW load \in Loads, StartSend(s, d, load)
      PROVE  LeftInv'
    BY <1>1, LaunchLeft DEF StartSend
<1>2. ASSUME NEW s \in Sends, NEW d \in Devices, SendLink(s, d) PROVE LeftInv'
    BY <1>2, LaunchLeft DEF SendLink
<1>3. ASSUME \E d \in Devices : DeviceSelected(d) PROVE LeftInv'
    BY <1>3, LeftQuiet DEF DeviceSelected
<1>4. ASSUME DeviceDeselected \/ SelectedVanishes \/ PollProgress PROVE LeftInv'
    BY <1>4, LeftQuiet DEF DeviceDeselected, SelectedVanishes, PollProgress
<1>5. ASSUME \E load \in Loads : SendRefused(load) PROVE LeftInv'
    BY <1>5, LeftQuiet DEF SendRefused
<1>6. ASSUME LicenseStep \/ NewSpan \/ UNCHANGED vars PROVE LeftInv'
    BY <1>6, LeftQuiet DEF LicenseStep, NewSpan, vars
<1> QED
    BY <1>1, <1>2, <1>3, <1>4, <1>5, <1>6, CompletedLeft, TaskLeft DEF Next, UIStep

-----------------------------------------------------------------------------

(* However transfers overlap with each other, with the end of a week and   *)
(* with the license, a demo sends at most SendLimit - 1 files a week plus  *)
(* one for each transfer that can be under way at once (check_send and     *)
(* record_demo_send are a whole transfer apart).                           *)
THEOREM OverrunBound == Spec => [](TypeOK /\ OverrunIsBounded)
<1>1. IInv => TypeOK /\ OverrunIsBounded
    BY DEF IInv
<1> QED
    BY InitInv, NextInv, <1>1, PTL DEF Spec

(* The key is kept exactly as long as a fingerprint holds it, and no more  *)
(* than MaxActivations ever do, whatever is activated, deactivated and     *)
(* renamed (store.rs).                                                     *)
THEOREM KeyAndPrints == Spec => []KeyMatchesPrints
<1>1. KeyInv => KeyMatchesPrints
    BY DEF KeyInv
<1> QED
    BY KeyInit, KeyNext, <1>1, PTL DEF Spec

(* However many transfers overlap and wherever each of them fails, once    *)
(* the UI has heard of the last one's end no progress is shown and no      *)
(* archive is left, though they share one progress slot (send_files,       *)
(* post_upload_streamed, FileSendCompleted).                               *)
THEOREM TransfersLeaveNothing == Spec => []NothingLeftBehind
<1>1. IInv /\ LeftInv => NothingLeftBehind
    BY DEF IInv, TypeOK, LeftInv, NothingLeftBehind, Reporting
<1>2. IInv /\ LeftInv /\ [Next]_vars => IInv' /\ LeftInv'
    BY NextInv, LeftNext DEF IInv
<1> QED
    BY InitInv, LeftInit, <1>1, <1>2, PTL DEF Spec

-----------------------------------------------------------------------------
(* Uploads (WebDrop) *)

\* What an upload under way has: a guest; a file to come until it is saved; a
\* folder, its guest's unless that was renamed; and a path in the folder.
Placed ==
    \A c \in Conns :
        /\ upload[c].at # "idle" => upload[c].guest \in Guests
        /\ upload[c].at \in {"resolved", "chosen", "streaming"} => upload[c].left > 0
        /\ upload[c].at \in {"resolved", "chosen"} =>
              /\ upload[c].dir \in Folders
              /\ upload[c].moved \/ upload[c].dir = folderOf[upload[c].guest]
        /\ upload[c].at = "chosen" => upload[c].path \in Paths /\ upload[c].path[1] = upload[c].dir

\* What the check will see is at least what was counted.
CountedQr == qrDone <= Rolled.qr

FolderInv == DropTypeOK /\ Placed /\ FilesFollowTheirGuest
QuotaInv == WeekSeen /\ CountedQr /\ QrOverrunIsBounded

-----------------------------------------------------------------------------
(* Names and paths *)

\* A set of numbers has a least one.
LEMMA LeastNumber ==
    ASSUME NEW S, S \subseteq Nat, S # {}
    PROVE  \E i \in S : \A j \in S : i <= j
<1>1. PICK R : /\ IsWellFoundedOn(R, Nat)
               /\ \A i, j \in Nat : j < i => <<j, i>> \in R
    <2>1. \A i, j \in Nat : j < i => <<j, i>> \in OpToRel(<, Nat)
        BY DEF OpToRel
    <2> QED
        BY <2>1, NatLessThanWellFounded
<1>2. PICK i \in S : \A j \in S : ~ (<<j, i>> \in R)
    BY <1>1, WFMin
<1>3. \A j \in S : ~ (j < i)
    BY <1>1, <1>2
<1> QED
    BY <1>3

\* unique_receive_path always finds a number.
LEMMA UniqueNumberType ==
    ASSUME DropTypeOK, NEW dir \in Folders, NEW n \in Names
    PROVE  UniqueNumber(dir, n) \in Nat
<1>1. CASE Free(dir, n) = {}
    BY <1>1, WebDropAssumption DEF UniqueNumber, DropTypeOK
<1>2. CASE Free(dir, n) # {}
    <2>1. Free(dir, n) \subseteq Nat
        BY WebDropAssumption DEF Free
    <2>2. \E i \in Free(dir, n) : \A j \in Free(dir, n) : i <= j
        BY <1>2, <2>1, LeastNumber
    <2>3. UniqueNumber(dir, n) \in Free(dir, n)
        BY <1>2, <2>2 DEF UniqueNumber
    <2> QED
        BY <2>1, <2>3
<1> QED
    BY <1>1, <1>2

\* A rename into a folder that is not there leaves each file its own path, and
\* moving back finds it.
LEMMA MovedPaths ==
    ASSUME DropTypeOK, NEW old \in Folders, NEW new \in Folders, old \in dirs, new \notin dirs,
           NEW p \in DOMAIN disk
    PROVE  /\ Moved(p, old, new) \in Paths
           /\ Moved(p, old, new)[1] = IF p[1] = old THEN new ELSE p[1]
           /\ Moved(Moved(p, old, new), new, old) = p
<1>1. p \in Paths /\ p[1] \in dirs
    BY DEF DropTypeOK
<1>2. PICK f \in Folders, n \in Names, i \in Nat : p = <<f, n, i>>
    BY <1>1 DEF Paths
<1> QED
    BY <1>1, <1>2 DEF Moved, Paths

\* Being beaten changes nothing else of an upload.
LEMMA BeatenKeeps ==
    ASSUME NEW uploads \in [Conns -> Upload], NEW taken
    PROVE  /\ Beaten(uploads, taken) \in [Conns -> Upload]
           /\ \A c \in Conns :
                 /\ Beaten(uploads, taken)[c].at = uploads[c].at
                 /\ Beaten(uploads, taken)[c].guest = uploads[c].guest
                 /\ Beaten(uploads, taken)[c].left = uploads[c].left
                 /\ Beaten(uploads, taken)[c].dir = uploads[c].dir
                 /\ Beaten(uploads, taken)[c].path = uploads[c].path
                 /\ Beaten(uploads, taken)[c].moved = uploads[c].moved
<1>1. ASSUME NEW c \in Conns
      PROVE  /\ [uploads[c] EXCEPT !.beaten = TRUE] \in Upload
             /\ [uploads[c] EXCEPT !.beaten = TRUE].at = uploads[c].at
             /\ [uploads[c] EXCEPT !.beaten = TRUE].guest = uploads[c].guest
             /\ [uploads[c] EXCEPT !.beaten = TRUE].left = uploads[c].left
             /\ [uploads[c] EXCEPT !.beaten = TRUE].dir = uploads[c].dir
             /\ [uploads[c] EXCEPT !.beaten = TRUE].path = uploads[c].path
             /\ [uploads[c] EXCEPT !.beaten = TRUE].moved = uploads[c].moved
    BY DEF Upload
<1> QED
    BY <1>1 DEF Beaten

\* An upload that is not under way, and one that streams.
LEMMA IdleType == IdleUpload \in Upload
BY DEF IdleUpload, Upload

LEMMA StreamingType ==
    ASSUME NEW u \in Upload
    PROVE  /\ Streaming(u) \in Upload
           /\ Streaming(u).at = "streaming"
           /\ Streaming(u).guest = u.guest
           /\ Streaming(u).left = u.left
BY DEF Streaming, IdleUpload, Upload

-----------------------------------------------------------------------------
(* Files stay with their guest *)

LEMMA FolderInit == DropInit => FolderInv
<1> SUFFICES ASSUME DropInit PROVE FolderInv
    OBVIOUS
<1>1. LicenseTypeOK
    BY LicensingAssumption DEF DropInit, LicenseInit, LicenseTypeOK, Spans
<1>2. DropTypeOK
    <2>1. DOMAIN disk = {}
        BY DEF DropInit
    <2>2. upload \in [Conns -> Upload]
        BY IdleType DEF DropInit
    <2>3. folderOf \in [Guests -> Folders \cup {NoFolder}] /\ dirs \in SUBSET Folders
        BY DEF DropInit
    <2>4. uuids \in Nat /\ accepted \in Nat /\ qrDone \in Nat /\ qrUnlimited \in BOOLEAN
        BY DEF DropInit
    <2> QED
        BY <1>1, <2>1, <2>2, <2>3, <2>4 DEF DropTypeOK
<1>3. Placed /\ FilesFollowTheirGuest
    BY DEF DropInit, Placed, FilesFollowTheirGuest, IdleUpload
<1> QED
    BY <1>2, <1>3 DEF FolderInv

\* A step that leaves the folders, the files and the uploads alone.
LEMMA FolderQuiet ==
    ASSUME FolderInv, LicenseTypeOK', UNCHANGED <<folderVars, upload>>,
           uuids' \in Nat, accepted' \in Nat, qrDone' \in Nat, qrUnlimited' \in BOOLEAN
    PROVE  FolderInv'
BY DEF FolderInv, DropTypeOK, Placed, FilesFollowTheirGuest, folderVars

\* A step that makes one upload another well-placed one.
LEMMA FolderOneUpload ==
    ASSUME FolderInv, LicenseTypeOK', UNCHANGED folderVars,
           uuids' \in Nat, accepted' \in Nat, qrDone' \in Nat, qrUnlimited' \in BOOLEAN,
           NEW c \in Conns, NEW u \in Upload, upload' = [upload EXCEPT ![c] = u],
           u.at # "idle" => u.guest \in Guests,
           u.at \in {"resolved", "chosen", "streaming"} => u.left > 0,
           u.at \in {"resolved", "chosen"} =>
              u.dir \in Folders /\ (u.moved \/ u.dir = folderOf[u.guest]),
           u.at = "chosen" => u.path \in Paths /\ u.path[1] = u.dir
    PROVE  FolderInv'
<1>1. upload' \in [Conns -> Upload]
    BY DEF FolderInv, DropTypeOK
<1>2. Placed'
    BY DEF FolderInv, DropTypeOK, Placed, folderVars
<1> QED
    BY <1>1, <1>2 DEF FolderInv, DropTypeOK, FilesFollowTheirGuest, folderVars

LEMMA LicenseTypes ==
    ASSUME LicenseTypeOK
    PROVE  /\ \A load \in Loads : CheckQrUpload(load) /\ UNCHANGED <<licenseVars, today>> => LicenseTypeOK'
           /\ RecordDemoQrUpload /\ UNCHANGED <<licenseVars, today>> => LicenseTypeOK'
           /\ DropLicenseStep => LicenseTypeOK'
           /\ DropNewSpan => LicenseTypeOK'
           /\ UNCHANGED <<licenseVars, today, demo>> => LicenseTypeOK'
<1> USE DEF LicenseTypeOK, licenseVars
<1>0. Rolled \in [week : {WeekId(d) : d \in Spans}, sends : Nat, qr : Nat]
    BY DEF Rolled
<1>1. \A load \in Loads : CheckQrUpload(load) /\ UNCHANGED <<licenseVars, today>> => LicenseTypeOK'
    BY <1>0 DEF CheckQrUpload
<1>2. RecordDemoQrUpload /\ UNCHANGED <<licenseVars, today>> => LicenseTypeOK'
    BY <1>0 DEF RecordDemoQrUpload
<1>3. DropLicenseStep => LicenseTypeOK'
    BY DEF DropLicenseStep, Activate, Deactivate, HostRenamed
<1>4. DropNewSpan => LicenseTypeOK'
    BY LicensingAssumption DEF DropNewSpan, Spans
<1>5. UNCHANGED <<licenseVars, today, demo>> => LicenseTypeOK'
    OBVIOUS
<1> QED
    BY <1>1, <1>2, <1>3, <1>4, <1>5

LEMMA ResolveFolderInv ==
    ASSUME FolderInv, NEW c \in Conns, ResolveFolder(c)
    PROVE  FolderInv'
<1> DEFINE g == upload[c].guest
<1>0. LicenseTypeOK'
    BY LicenseTypes DEF FolderInv, DropTypeOK, ResolveFolder
<1>1. g \in Guests /\ upload[c] \in Upload /\ upload[c].left > 0
    BY DEF FolderInv, DropTypeOK, Placed, ResolveFolder
<1>2. PICK folder \in Folders :
          /\ folderOf[g] \in {NoFolder, folder}
          /\ folderOf' = [folderOf EXCEPT ![g] = folder]
          /\ \/ /\ dirs' = dirs \cup {folder}
                /\ upload' = [upload EXCEPT ![c] = [@ EXCEPT !.at = "resolved",
                                                      !.dir = folder, !.moved = FALSE]]
             \/ upload' = [upload EXCEPT ![c] = IdleUpload] /\ UNCHANGED dirs
    BY <1>1 DEF ResolveFolder, FolderInv, DropTypeOK
<1>3. /\ folderOf' \in [Guests -> Folders \cup {NoFolder}]
      /\ \A h \in Guests : folderOf[h] \in Folders => folderOf'[h] = folderOf[h]
      /\ folderOf'[g] = folder
    BY <1>1, <1>2, WebDropAssumption DEF FolderInv, DropTypeOK
<1>4. dirs \subseteq dirs' /\ dirs' \in SUBSET Folders
    BY <1>2 DEF FolderInv, DropTypeOK
<1>5. UNCHANGED <<disk, counts>>
    BY DEF ResolveFolder
<1>6. PICK u \in Upload :
          /\ upload' = [upload EXCEPT ![c] = u]
          /\ u.at \in {"idle", "resolved"}
          /\ u.at = "resolved" => u.guest = g /\ u.left > 0 /\ u.dir = folder
    <2>1. [upload[c] EXCEPT !.at = "resolved", !.dir = folder, !.moved = FALSE] \in Upload
        BY <1>1 DEF Upload
    <2>2. [upload[c] EXCEPT !.at = "resolved", !.dir = folder, !.moved = FALSE].guest = g
          /\ [upload[c] EXCEPT !.at = "resolved", !.dir = folder, !.moved = FALSE].left > 0
          /\ [upload[c] EXCEPT !.at = "resolved", !.dir = folder, !.moved = FALSE].dir = folder
          /\ [upload[c] EXCEPT !.at = "resolved", !.dir = folder, !.moved = FALSE].at = "resolved"
        BY <1>1 DEF Upload
    <2>3. IdleUpload \in Upload /\ IdleUpload.at = "idle"
        BY IdleType DEF IdleUpload
    <2> QED
        BY <1>2, <2>1, <2>2, <2>3
<1>7. DropTypeOK'
    BY <1>0, <1>3, <1>4, <1>5, <1>6 DEF FolderInv, DropTypeOK, counts
<1>8. Placed'
    <2> SUFFICES ASSUME NEW d \in Conns
                 PROVE  /\ upload'[d].at # "idle" => upload'[d].guest \in Guests
                        /\ upload'[d].at \in {"resolved", "chosen", "streaming"} => upload'[d].left > 0
                        /\ upload'[d].at \in {"resolved", "chosen"} =>
                              /\ upload'[d].dir \in Folders
                              /\ upload'[d].moved \/ upload'[d].dir = folderOf'[upload'[d].guest]
                        /\ upload'[d].at = "chosen" => upload'[d].path \in Paths
                                                      /\ upload'[d].path[1] = upload'[d].dir
        BY DEF Placed
    <2>1. CASE d = c
        BY <1>1, <1>3, <1>6, <2>1 DEF FolderInv, DropTypeOK
    <2>2. CASE d # c
        BY <1>3, <1>6, <2>2 DEF FolderInv, DropTypeOK, Placed
    <2> QED
        BY <2>1, <2>2
<1>9. FilesFollowTheirGuest'
    <2> SUFFICES ASSUME NEW p \in DOMAIN disk, ~disk[p].late
                 PROVE  p[1] = folderOf'[disk[p].guest]
        BY <1>5 DEF FilesFollowTheirGuest
    <2>1. p[1] = folderOf[disk[p].guest]
        BY DEF FolderInv, FilesFollowTheirGuest
    <2>2. disk[p].guest \in Guests /\ p[1] \in Folders
        BY DEF FolderInv, DropTypeOK, File
    <2> QED
        BY <1>3, <2>1, <2>2
<1> QED
    BY <1>7, <1>8, <1>9 DEF FolderInv

LEMMA CreateFileInv ==
    ASSUME FolderInv, NEW c \in Conns, CreateFile(c)
    PROVE  FolderInv'
<1> DEFINE p == upload[c].path
           file == [guest |-> upload[c].guest, late |-> upload[c].moved]
           began == [upload EXCEPT ![c] = Streaming(@)]
<1>0. LicenseTypeOK' /\ UNCHANGED <<folderOf, dirs, uuids, accepted, qrDone, qrUnlimited>>
    BY LicenseTypes DEF FolderInv, DropTypeOK, CreateFile
<1>1. /\ upload[c] \in Upload /\ upload[c].guest \in Guests /\ upload[c].left > 0
      /\ p \in Paths /\ p[1] = upload[c].dir /\ p[1] \in dirs
      /\ upload[c].moved \/ p[1] = folderOf[upload[c].guest]
    BY DEF FolderInv, DropTypeOK, Placed, CreateFile
<1>2. /\ DOMAIN disk' = DOMAIN disk \cup {p}
      /\ disk'[p] = file
      /\ \A q \in DOMAIN disk : q # p => disk'[q] = disk[q]
    BY DEF CreateFile
<1>3. file \in File
    BY <1>1 DEF File, Upload
<1>4. began \in [Conns -> Upload]
    BY <1>1, StreamingType DEF FolderInv, DropTypeOK
<1>5. upload' = Beaten(began, {p})
    BY DEF CreateFile
<1>6. /\ upload' \in [Conns -> Upload]
       /\ \A d \in Conns :
             /\ upload'[d].at = began[d].at /\ upload'[d].guest = began[d].guest
             /\ upload'[d].left = began[d].left /\ upload'[d].dir = began[d].dir
             /\ upload'[d].path = began[d].path /\ upload'[d].moved = began[d].moved
    <2> HIDE DEF began, p
    <2> QED BY <1>4, <1>5, BeatenKeeps
<1>7. DropTypeOK'
    <2>1. upload' \in [Conns -> Upload]
        BY <1>6
    <2>2. DOMAIN disk' \subseteq Paths /\ \A q \in DOMAIN disk' : disk'[q] \in File /\ q[1] \in dirs
        BY <1>1, <1>2, <1>3 DEF FolderInv, DropTypeOK
    <2> QED
        BY <1>0, <2>1, <2>2 DEF FolderInv, DropTypeOK
<1>8. Placed'
    <2> SUFFICES ASSUME NEW d \in Conns
                 PROVE  /\ began[d].at # "idle" => began[d].guest \in Guests
                        /\ began[d].at \in {"resolved", "chosen", "streaming"} => began[d].left > 0
                        /\ began[d].at \in {"resolved", "chosen"} =>
                              /\ began[d].dir \in Folders
                              /\ began[d].moved \/ began[d].dir = folderOf[began[d].guest]
                        /\ began[d].at = "chosen" => began[d].path \in Paths
                                                      /\ began[d].path[1] = began[d].dir
        <3> HIDE DEF began
        <3> QED BY <1>0, <1>6 DEF Placed
    <2>1. CASE d = c
        BY <1>1, <2>1, StreamingType DEF FolderInv, DropTypeOK
    <2>2. CASE d # c
        BY <2>2 DEF FolderInv, DropTypeOK, Placed
    <2> QED
        BY <2>1, <2>2
<1>9. FilesFollowTheirGuest'
    BY <1>0, <1>1, <1>2 DEF FolderInv, FilesFollowTheirGuest
<1> QED
    BY <1>7, <1>8, <1>9 DEF FolderInv

LEMMA RenameFolderInv ==
    ASSUME FolderInv, NEW old \in Folders, NEW new \in Folders, RenameFolder(old, new)
    PROVE  FolderInv'
<1> DEFINE moved == [q \in {Moved(p, old, new) : p \in DOMAIN disk} |-> disk[Moved(q, new, old)]]
           crossed == [c \in Conns |->
                         IF upload[c].dir = old THEN [upload[c] EXCEPT !.moved = TRUE] ELSE upload[c]]
<1>0. LicenseTypeOK' /\ UNCHANGED counts
    BY LicenseTypes DEF FolderInv, DropTypeOK, RenameFolder
<1>1. /\ DropTypeOK /\ Placed /\ FilesFollowTheirGuest
      /\ old \in dirs /\ new \notin dirs
      /\ dirs' = (dirs \ {old}) \cup {new}
      /\ disk' = moved
      /\ folderOf' = [g \in Guests |-> IF folderOf[g] = old THEN new ELSE folderOf[g]]
      /\ upload' = Beaten(crossed, DOMAIN moved)
    BY DEF RenameFolder, FolderInv
<1>2. /\ DOMAIN disk' = {Moved(p, old, new) : p \in DOMAIN disk}
      /\ \A p \in DOMAIN disk : disk'[Moved(p, old, new)] = disk[p]
    BY <1>1, MovedPaths
<1>3. crossed \in [Conns -> Upload]
    BY <1>1 DEF DropTypeOK, Upload
<1>4. \A c \in Conns :
          /\ crossed[c].at = upload[c].at /\ crossed[c].guest = upload[c].guest
          /\ crossed[c].left = upload[c].left /\ crossed[c].dir = upload[c].dir
          /\ crossed[c].path = upload[c].path
          /\ crossed[c].moved = (upload[c].moved \/ upload[c].dir = old)
    BY <1>1 DEF DropTypeOK, Upload
<1>5. /\ upload' \in [Conns -> Upload]
      /\ \A c \in Conns :
            /\ upload'[c].at = upload[c].at /\ upload'[c].guest = upload[c].guest
            /\ upload'[c].left = upload[c].left /\ upload'[c].dir = upload[c].dir
            /\ upload'[c].path = upload[c].path
            /\ upload'[c].moved = (upload[c].moved \/ upload[c].dir = old)
    <2> HIDE DEF crossed, moved
    <2> QED BY <1>1, <1>3, <1>4, BeatenKeeps
<1>6. folderOf' \in [Guests -> Folders \cup {NoFolder}] /\ dirs' \in SUBSET Folders
    BY <1>1 DEF DropTypeOK
<1>7. DropTypeOK'
    <2>1. ASSUME NEW p \in DOMAIN disk
          PROVE  /\ Moved(p, old, new) \in Paths
                 /\ disk'[Moved(p, old, new)] \in File
                 /\ Moved(p, old, new)[1] \in dirs'
        BY <1>1, <1>2, MovedPaths DEF DropTypeOK
    <2>2. DOMAIN disk' \subseteq Paths /\ \A q \in DOMAIN disk' : disk'[q] \in File /\ q[1] \in dirs'
        BY <1>2, <2>1
    <2> QED
        BY <1>0, <1>1, <1>5, <1>6, <2>2 DEF DropTypeOK, counts
<1>8. Placed'
    <2> HIDE DEF crossed, moved
    <2>1. \A g \in Guests : folderOf[g] # old => folderOf'[g] = folderOf[g]
        BY <1>1
    <2> SUFFICES ASSUME NEW c \in Conns
                 PROVE  /\ upload'[c].at # "idle" => upload'[c].guest \in Guests
                        /\ upload'[c].at \in {"resolved", "chosen", "streaming"} => upload'[c].left > 0
                        /\ upload'[c].at \in {"resolved", "chosen"} =>
                              /\ upload'[c].dir \in Folders
                              /\ upload'[c].moved \/ upload'[c].dir = folderOf'[upload'[c].guest]
                        /\ upload'[c].at = "chosen" => upload'[c].path \in Paths
                                                      /\ upload'[c].path[1] = upload'[c].dir
        BY DEF Placed
    <2>2. /\ upload[c].at # "idle" => upload[c].guest \in Guests
          /\ upload[c].at \in {"resolved", "chosen", "streaming"} => upload[c].left > 0
          /\ upload[c].at \in {"resolved", "chosen"} =>
                /\ upload[c].dir \in Folders
                /\ upload[c].moved \/ upload[c].dir = folderOf[upload[c].guest]
          /\ upload[c].at = "chosen" => upload[c].path \in Paths /\ upload[c].path[1] = upload[c].dir
        BY <1>1 DEF Placed
    <2>3. /\ upload'[c].at = upload[c].at /\ upload'[c].guest = upload[c].guest
          /\ upload'[c].left = upload[c].left /\ upload'[c].dir = upload[c].dir
          /\ upload'[c].path = upload[c].path
          /\ upload'[c].moved = (upload[c].moved \/ upload[c].dir = old)
        BY <1>5
    <2> QED
        BY <2>1, <2>2, <2>3
<1>9. FilesFollowTheirGuest'
    <2> SUFFICES ASSUME NEW p \in DOMAIN disk, ~disk[p].late
                 PROVE  Moved(p, old, new)[1] = folderOf'[disk[p].guest]
        BY <1>2 DEF FilesFollowTheirGuest
    <2>1. disk[p].guest \in Guests /\ p[1] = folderOf[disk[p].guest]
        BY <1>1 DEF DropTypeOK, File, FilesFollowTheirGuest
    <2> QED
        BY <1>1, <2>1, MovedPaths
<1> QED
    BY <1>7, <1>8, <1>9 DEF FolderInv

\* The other steps of an upload.
LEMMA WorkFolderInv ==
    ASSUME FolderInv, NEW c \in Conns, Work(c)
    PROVE  FolderInv'
<1>0. /\ LicenseTypeOK /\ upload[c] \in Upload /\ upload \in [Conns -> Upload]
      /\ qrDone \in Nat /\ uuids \in Nat /\ accepted \in Nat /\ qrUnlimited \in BOOLEAN
    BY DEF FolderInv, DropTypeOK
<1>1. IdleUpload \in Upload /\ IdleUpload.at = "idle"
    BY IdleType DEF IdleUpload
<1>2. ASSUME UploadFails(c) PROVE FolderInv'
    BY <1>0, <1>1, <1>2, LicenseTypes, FolderOneUpload DEF UploadFails, counts
<1>3. ASSUME StreamEnds(c) PROVE FolderInv'
    <2>1. upload[c].left > 0 /\ upload[c].left \in Nat /\ upload[c].guest \in Guests
        BY <1>0, <1>3 DEF StreamEnds, FolderInv, Placed, Upload
    <2>2. PICK left \in {upload[c].left - 1, 0} :
              upload' = [upload EXCEPT ![c].at = "receiving", ![c].left = left, ![c].saved = @ + 1]
        BY <1>3 DEF StreamEnds
    <2> DEFINE u == [upload[c] EXCEPT !.at = "receiving", !.left = left, !.saved = @ + 1]
    <2>3. u \in Upload /\ u.at = "receiving" /\ u.guest \in Guests
        <3>1. left \in Nat /\ upload[c].saved + 1 \in Nat
            BY <1>0, <2>1 DEF Upload
        <3> QED
            BY <1>0, <2>1, <3>1 DEF Upload
    <2>4. upload' = [upload EXCEPT ![c] = u]
        BY <1>0, <2>2
    <2>5. LicenseTypeOK' /\ UNCHANGED <<folderVars, counts>>
        BY <1>0, <1>3, LicenseTypes DEF StreamEnds
    <2> HIDE DEF u
    <2> QED
        BY <1>0, <2>3, <2>4, <2>5, FolderOneUpload DEF counts
<1>4. ASSUME EndOfForm(c) PROVE FolderInv'
    <2>1. LicenseTypeOK' /\ qrDone' \in Nat
        BY <1>0, <1>4, LicenseTypes DEF EndOfForm
    <2> QED
        BY <1>0, <1>1, <1>4, <2>1, FolderOneUpload DEF EndOfForm
<1>5. ASSUME NEW n \in Names, ChooseName(c, n) PROVE FolderInv'
    <2> DEFINE path == <<upload[c].dir, n, UniqueNumber(upload[c].dir, n)>>
               u == [upload[c] EXCEPT !.at = "chosen", !.beaten = FALSE, !.path = path]
    <2>1. /\ upload[c].left > 0 /\ upload[c].guest \in Guests /\ upload[c].dir \in Folders
          /\ upload[c].moved \/ upload[c].dir = folderOf[upload[c].guest]
        BY <1>5 DEF ChooseName, FolderInv, Placed
    <2>2. path \in Paths /\ path[1] = upload[c].dir
        BY <2>1, UniqueNumberType DEF Paths, FolderInv
    <2>3. /\ u \in Upload /\ u.at = "chosen" /\ u.guest \in Guests /\ u.left > 0
          /\ u.dir \in Folders /\ (u.moved \/ u.dir = folderOf[u.guest])
          /\ u.path \in Paths /\ u.path[1] = u.dir
        <3> HIDE DEF path
        <3> QED BY <1>0, <2>1, <2>2 DEF Upload
    <2>4. upload' = [upload EXCEPT ![c] = u]
        BY <1>5 DEF ChooseName
    <2>5. LicenseTypeOK' /\ UNCHANGED <<folderVars, accepted, qrDone, qrUnlimited>> /\ uuids' \in Nat
        BY <1>0, <1>5, LicenseTypes DEF ChooseName
    <2> HIDE DEF u
    <2> QED
        BY <1>0, <2>3, <2>4, <2>5, FolderOneUpload
<1> QED
    BY <1>2, <1>3, <1>4, <1>5, ResolveFolderInv, CreateFileInv DEF Work

LEMMA BeginFolderInv ==
    ASSUME FolderInv, Begin
    PROVE  FolderInv'
<1>0. LicenseTypeOK /\ qrDone \in Nat /\ uuids \in Nat /\ accepted \in Nat /\ qrUnlimited \in BOOLEAN
    BY DEF FolderInv, DropTypeOK
<1>1. ASSUME NEW load \in Loads, UploadRefused(load) PROVE FolderInv'
    BY <1>0, <1>1, LicenseTypes, FolderQuiet DEF UploadRefused, counts
<1>2. ASSUME NEW load \in Loads, NEW c \in Conns, NEW g \in Guests, NEW parts \in 0 .. MaxParts,
             BeginUpload(c, g, load, parts)
      PROVE  FolderInv'
    <2> DEFINE u == [IdleUpload EXCEPT !.at = "receiving", !.guest = g, !.left = parts]
    <2>1. u \in Upload /\ u.at = "receiving" /\ u.guest = g
        <3>1. parts \in Nat
            BY WebDropAssumption
        <3> QED
            BY <3>1 DEF IdleUpload, Upload
    <2>2. /\ upload' = [upload EXCEPT ![c] = u]
          /\ LicenseTypeOK' /\ accepted' \in Nat /\ qrUnlimited' \in BOOLEAN
          /\ UNCHANGED <<folderVars, uuids, qrDone>>
        BY <1>0, <1>2, LicenseTypes, WebDropAssumption DEF BeginUpload, Registered
    <2> HIDE DEF u
    <2> QED
        BY <1>0, <2>1, <2>2, FolderOneUpload
<1> QED
    BY <1>1, <1>2 DEF Begin

LEMMA FolderNext == FolderInv /\ [DropNext]_dropVars => FolderInv'
<1> SUFFICES ASSUME FolderInv, [DropNext]_dropVars PROVE FolderInv'
    OBVIOUS
<1>0. LicenseTypeOK /\ qrDone \in Nat /\ uuids \in Nat /\ accepted \in Nat /\ qrUnlimited \in BOOLEAN
    BY DEF FolderInv, DropTypeOK
<1>1. ASSUME DropLicenseStep PROVE FolderInv'
    BY <1>0, <1>1, LicenseTypes, FolderQuiet DEF DropLicenseStep, counts
<1>2. ASSUME DropNewSpan PROVE FolderInv'
    BY <1>0, <1>2, LicenseTypes, FolderQuiet DEF DropNewSpan
<1>3. ASSUME UNCHANGED dropVars PROVE FolderInv'
    BY <1>0, <1>3, LicenseTypes, FolderQuiet DEF dropVars, counts
<1> QED
    BY <1>1, <1>2, <1>3, BeginFolderInv, WorkFolderInv, RenameFolderInv DEF DropNext

-----------------------------------------------------------------------------
(* Files are kept                                                          *)

\* A path that was chosen is free or was taken since, and no number is one that
\* a UUID still to be drawn may give.
Unbeaten(c) ==
    /\ upload[c].path[3] <= LastSuffix + uuids
    /\ upload[c].beaten \/ upload[c].path \notin DOMAIN disk

KeptInv ==
    /\ IsFiniteSet(DOMAIN disk)
    /\ \A p \in DOMAIN disk : p[3] <= LastSuffix + uuids
    /\ \A c \in Conns : upload[c].at = "chosen" => Unbeaten(c)

LEMMA KeptInit == DropInit => KeptInv
<1>1. DOMAIN <<>> = {}
    OBVIOUS
<1> QED
    BY <1>1, FS_EmptySet DEF DropInit, KeptInv, IdleUpload

\* unique_receive_path finds what is free.
LEMMA UniqueIsFree ==
    ASSUME DropTypeOK, KeptInv, NEW dir \in Folders, NEW n \in Names
    PROVE  LET i == UniqueNumber(dir, n)
           IN  /\ <<dir, n, i>> \notin DOMAIN disk
               /\ i <= LastSuffix + uuids + 1
               /\ Free(dir, n) # {} => i <= LastSuffix + uuids
<1> DEFINE i == UniqueNumber(dir, n)
<1>0. uuids \in Nat /\ LastSuffix \in Nat
    BY WebDropAssumption DEF DropTypeOK
<1>1. CASE Free(dir, n) = {}
    <2>1. i = LastSuffix + 1 + uuids
        BY <1>1 DEF UniqueNumber
    <2>2. <<dir, n, i>>[3] = i /\ ~(i <= LastSuffix + uuids)
        BY <1>0, <2>1
    <2> QED
        BY <1>0, <1>1, <2>1, <2>2 DEF KeptInv
<1>2. CASE Free(dir, n) # {}
    <2>1. \E j \in Free(dir, n) : \A k \in Free(dir, n) : j <= k
        <3>1. Free(dir, n) \subseteq Nat
            BY <1>0 DEF Free
        <3> QED
            BY <1>2, <3>1, LeastNumber
    <2>2. i \in Free(dir, n)
        BY <1>2, <2>1 DEF UniqueNumber
    <2> QED
        BY <1>0, <2>2 DEF Free
<1> QED
    BY <1>1, <1>2

\* A step that leaves the files alone, and chooses no path.
LEMMA KeptQuiet ==
    ASSUME KeptInv, UNCHANGED <<disk, uuids>>,
           \A c \in Conns : upload'[c].at = "chosen" => upload'[c] = upload[c]
    PROVE  KeptInv'
BY DEF KeptInv, Unbeaten

LEMMA KeptOneUpload ==
    ASSUME DropTypeOK, KeptInv, NEW c \in Conns, UNCHANGED <<disk, uuids>>,
           upload'[c].at # "chosen", \A d \in Conns \ {c} : upload'[d] = upload[d]
    PROVE  KeptInv'
BY KeptQuiet

\* Who is beaten, and that nothing else of an upload tells.
LEMMA BeatenIs ==
    ASSUME NEW uploads \in [Conns -> Upload], NEW taken, NEW c \in Conns
    PROVE  Beaten(uploads, taken)[c].beaten
              <=> uploads[c].beaten \/ (uploads[c].at = "chosen" /\ uploads[c].path \in taken)
<1>1. [uploads[c] EXCEPT !.beaten = TRUE].beaten = TRUE
    BY DEF Upload
<1> QED
    BY <1>1 DEF Beaten

LEMMA ChooseKept ==
    ASSUME FolderInv, KeptInv, NEW c \in Conns, NEW n \in Names, ChooseName(c, n)
    PROVE  KeptInv'
<1> DEFINE dir == upload[c].dir
           path == <<dir, n, UniqueNumber(dir, n)>>
<1>0. uuids \in Nat /\ uuids' \in Nat /\ uuids <= uuids' /\ LastSuffix \in Nat
    BY WebDropAssumption DEF ChooseName, FolderInv, DropTypeOK
<1>1. dir \in Folders /\ upload \in [Conns -> Upload] /\ UNCHANGED disk /\ DropTypeOK
    BY DEF FolderInv, DropTypeOK, Placed, ChooseName, folderVars
<1>2. /\ path \notin DOMAIN disk
      /\ UniqueNumber(dir, n) <= LastSuffix + uuids'
    BY <1>0, <1>1, UniqueIsFree DEF ChooseName
<1>3. upload'[c].path = path /\ \A d \in Conns \ {c} : upload'[d] = upload[d]
    BY <1>1 DEF ChooseName, Upload
<1>4. path[3] <= LastSuffix + uuids'
    BY <1>2
<1>5. Unbeaten(c)'
    BY <1>1, <1>2, <1>3, <1>4 DEF Unbeaten
<1>6. \A p \in DOMAIN disk : p[3] \in Nat
    BY <1>1 DEF DropTypeOK, Paths
<1>7. \A p \in DOMAIN disk' : p[3] <= LastSuffix + uuids'
    BY <1>0, <1>1, <1>6 DEF KeptInv
<1>8. ASSUME NEW d \in Conns \ {c}, upload'[d].at = "chosen" PROVE Unbeaten(d)'
    <2>1. Unbeaten(d) /\ upload[d].path \in Paths /\ upload[d].path[3] \in Nat
        BY <1>3, <1>8 DEF KeptInv, FolderInv, Placed, Paths
    <2> QED
        BY <1>0, <1>1, <1>3, <2>1 DEF Unbeaten
<1> QED
    BY <1>1, <1>5, <1>7, <1>8 DEF KeptInv

LEMMA CreateKept ==
    ASSUME FolderInv, KeptInv, NEW c \in Conns, CreateFile(c)
    PROVE  KeptInv' /\ Cardinality(DOMAIN disk) <= Cardinality(DOMAIN disk')
<1> DEFINE p == upload[c].path
           began == [upload EXCEPT ![c] = Streaming(@)]
<1>1. /\ DOMAIN disk' = DOMAIN disk \cup {p} /\ upload' = Beaten(began, {p}) /\ UNCHANGED uuids
      /\ upload \in [Conns -> Upload] /\ upload[c].at = "chosen"
    BY DEF CreateFile, FolderInv, DropTypeOK
<1>2. /\ began \in [Conns -> Upload] /\ began[c].at = "streaming"
      /\ \A d \in Conns \ {c} : began[d] = upload[d]
    BY <1>1, StreamingType
<1> HIDE DEF began, p
<1>3. /\ \A d \in Conns : /\ upload'[d].at = began[d].at /\ upload'[d].path = began[d].path
                          /\ upload'[d].beaten <=> began[d].beaten \/ (began[d].at = "chosen" /\ began[d].path = p)
    BY <1>1, <1>2, BeatenKeeps, BeatenIs
<1>4. ASSUME NEW d \in Conns, upload'[d].at = "chosen"
      PROVE  Unbeaten(d)'
    <2>1. d # c /\ upload[d].at = "chosen" /\ Unbeaten(d)
        BY <1>2, <1>3, <1>4 DEF KeptInv
    <2>2. upload'[d].path = upload[d].path /\ (upload'[d].beaten <=> upload[d].beaten \/ upload[d].path = p)
        BY <1>2, <1>3, <2>1
    <2> QED
        BY <1>1, <2>1, <2>2 DEF Unbeaten
<1>5. p[3] <= LastSuffix + uuids
    BY <1>1 DEF KeptInv, Unbeaten, p
<1>6. IsFiniteSet(DOMAIN disk') /\ Cardinality(DOMAIN disk) <= Cardinality(DOMAIN disk')
    <2>1. IsFiniteSet(DOMAIN disk) /\ Cardinality(DOMAIN disk) \in Nat
        BY FS_CardinalityType DEF KeptInv
    <2>2. /\ IsFiniteSet(DOMAIN disk \cup {p})
          /\ Cardinality(DOMAIN disk \cup {p})
                = IF p \in DOMAIN disk THEN Cardinality(DOMAIN disk) ELSE Cardinality(DOMAIN disk) + 1
        BY <2>1, FS_AddElement
    <2> QED
        BY <1>1, <2>1, <2>2
<1> QED
    BY <1>1, <1>4, <1>5, <1>6 DEF KeptInv

\* A rename moves the files one by one to other paths.
LEMMA RenameKept ==
    ASSUME FolderInv, KeptInv, NEW old \in Folders, NEW new \in Folders, RenameFolder(old, new)
    PROVE  KeptInv' /\ Cardinality(DOMAIN disk) <= Cardinality(DOMAIN disk')
<1> DEFINE crossed == [c \in Conns |->
                         IF upload[c].dir = old THEN [upload[c] EXCEPT !.moved = TRUE] ELSE upload[c]]
           f == [p \in DOMAIN disk |-> Moved(p, old, new)]
<1>1. /\ DropTypeOK /\ old \in dirs /\ new \notin dirs /\ UNCHANGED uuids
      /\ DOMAIN disk' = {Moved(p, old, new) : p \in DOMAIN disk}
      /\ upload' = Beaten(crossed, DOMAIN disk')
      /\ upload \in [Conns -> Upload]
    BY DEF RenameFolder, FolderInv, DropTypeOK, counts
<1>2. /\ crossed \in [Conns -> Upload]
      /\ \A c \in Conns : /\ crossed[c].at = upload[c].at /\ crossed[c].path = upload[c].path
                          /\ crossed[c].beaten = upload[c].beaten
    BY <1>1 DEF Upload
<1> HIDE DEF crossed
<1>3. \A c \in Conns : /\ upload'[c].at = upload[c].at /\ upload'[c].path = upload[c].path
                       /\ upload'[c].beaten <=> upload[c].beaten
                             \/ (upload[c].at = "chosen" /\ upload[c].path \in DOMAIN disk')
    BY <1>1, <1>2, BeatenKeeps, BeatenIs
<1>4. \A c \in Conns : upload'[c].at = "chosen" => Unbeaten(c)'
    BY <1>1, <1>3 DEF KeptInv, Unbeaten
<1>5. \A p \in DOMAIN disk : Moved(p, old, new)[3] = p[3]
    BY <1>1 DEF DropTypeOK, Paths, Moved
<1>6. \A p \in DOMAIN disk' : p[3] <= LastSuffix + uuids'
    BY <1>1, <1>5 DEF KeptInv
<1>7. ExistsBijection(DOMAIN disk, DOMAIN disk')
    <2>1. f \in [DOMAIN disk -> DOMAIN disk'] /\ \A q \in DOMAIN disk' : \E p \in DOMAIN disk : f[p] = q
        BY <1>1
    <2>2. \A p, q \in DOMAIN disk : f[p] = f[q] => p = q
        BY <1>1, MovedPaths
    <2> HIDE DEF f
    <2>3. f \in Bijection(DOMAIN disk, DOMAIN disk')
        BY <2>1, <2>2 DEF Bijection, Injection, Surjection, IsInjective
    <2> QED
        BY <2>3 DEF ExistsBijection
<1>8. IsFiniteSet(DOMAIN disk') /\ Cardinality(DOMAIN disk) <= Cardinality(DOMAIN disk')
    <2>1. IsFiniteSet(DOMAIN disk) /\ Cardinality(DOMAIN disk) \in Nat
        BY FS_CardinalityType DEF KeptInv
    <2>2. IsFiniteSet(DOMAIN disk') /\ Cardinality(DOMAIN disk') = Cardinality(DOMAIN disk)
        BY <1>7, <2>1, FS_Bijection
    <2> QED
        BY <2>1, <2>2
<1> QED
    BY <1>4, <1>6, <1>8 DEF KeptInv

LEMMA KeptNext ==
    ASSUME FolderInv, KeptInv, [DropNext]_dropVars
    PROVE  KeptInv' /\ Cardinality(DOMAIN disk) <= Cardinality(DOMAIN disk')
<1>0. DropTypeOK /\ upload \in [Conns -> Upload] /\ Cardinality(DOMAIN disk) \in Nat
    BY FS_CardinalityType DEF FolderInv, DropTypeOK, KeptInv
\* A step that leaves the files alone.
<1>1. ASSUME KeptInv', UNCHANGED disk
      PROVE  KeptInv' /\ Cardinality(DOMAIN disk) <= Cardinality(DOMAIN disk')
    BY <1>0, <1>1
<1>2. ASSUME NEW c \in Conns, UploadFails(c) \/ ResolveFolder(c) \/ StreamEnds(c) \/ EndOfForm(c)
      PROVE  KeptInv' /\ UNCHANGED disk
    <2>1. UNCHANGED <<disk, uuids>>
        BY <1>2 DEF UploadFails, ResolveFolder, StreamEnds, EndOfForm, folderVars, counts
    <2>2. upload'[c].at # "chosen" /\ \A d \in Conns \ {c} : upload'[d] = upload[d]
        <3>1. PICK u : upload' = [upload EXCEPT ![c] = u] /\ u.at # "chosen"
            <4>1. CASE UploadFails(c) \/ EndOfForm(c)
                BY <4>1 DEF UploadFails, EndOfForm, IdleUpload
            <4>2. CASE ResolveFolder(c)
                <5>1. ASSUME NEW folder
                      PROVE  [upload[c] EXCEPT !.at = "resolved", !.dir = folder, !.moved = FALSE].at = "resolved"
                    BY <1>0 DEF Upload
                <5> QED
                    BY <4>2, <5>1 DEF ResolveFolder, IdleUpload
            <4>3. CASE StreamEnds(c)
                <5>1. ASSUME NEW left
                      PROVE  [upload[c] EXCEPT !.at = "receiving", !.left = left, !.saved = @ + 1].at = "receiving"
                    BY <1>0 DEF Upload
                <5>2. PICK left : upload' = [upload EXCEPT ![c].at = "receiving", ![c].left = left,
                                                         ![c].saved = @ + 1]
                    BY <4>3 DEF StreamEnds
                <5>3. upload' = [upload EXCEPT ![c] =
                          [upload[c] EXCEPT !.at = "receiving", !.left = left, !.saved = @ + 1]]
                    BY <1>0, <5>2
                <5> QED
                    BY <5>1, <5>3
            <4> QED
                BY <1>2, <4>1, <4>2, <4>3
        <3> QED
            BY <1>0, <3>1
    <2> QED
        BY <1>0, <2>1, <2>2, KeptOneUpload
<1>3. ASSUME NEW c \in Conns, NEW n \in Names, ChooseName(c, n)
      PROVE  KeptInv' /\ UNCHANGED disk
    BY <1>3, ChooseKept DEF ChooseName, folderVars
<1>4. ASSUME Begin
      PROVE  KeptInv' /\ UNCHANGED disk
    <2>1. ASSUME NEW load \in Loads, UploadRefused(load)
          PROVE  KeptInv' /\ UNCHANGED disk
        BY <2>1, KeptQuiet DEF UploadRefused, folderVars, counts
    <2>2. ASSUME NEW load \in Loads, NEW c \in Conns, NEW g \in Guests, NEW parts \in 0 .. MaxParts,
                 BeginUpload(c, g, load, parts)
          PROVE  KeptInv' /\ UNCHANGED disk
        <3>1. UNCHANGED <<disk, uuids>>
            BY <2>2 DEF BeginUpload, folderVars
        <3>2. upload'[c].at # "chosen" /\ \A d \in Conns \ {c} : upload'[d] = upload[d]
            BY <1>0, <2>2 DEF BeginUpload, IdleUpload
        <3> QED
            BY <1>0, <3>1, <3>2, KeptOneUpload
    <2> QED
        BY <1>4, <2>1, <2>2 DEF Begin
<1>5. ASSUME DropLicenseStep \/ DropNewSpan \/ UNCHANGED dropVars
      PROVE  KeptInv' /\ UNCHANGED disk
    BY <1>5, KeptQuiet DEF DropLicenseStep, DropNewSpan, dropVars, folderVars, counts
<1> QED
    BY <1>1, <1>2, <1>3, <1>4, <1>5, CreateKept, RenameKept DEF DropNext, Work

-----------------------------------------------------------------------------
(* The weekly limit *)

UnderWay == {c \in Conns : upload[c].at # "idle"}

\* The uploads under way are finitely many, at most all, now and in the next
\* state.
LEMMA UnderWayFinite ==
    /\ IsFiniteSet(UnderWay) /\ IsFiniteSet(UnderWay')
    /\ Cardinality(UnderWay) \in Nat /\ Cardinality(UnderWay') \in Nat /\ Cardinality(Conns) \in Nat
    /\ Cardinality(UnderWay) <= Cardinality(Conns)
    /\ Cardinality(UnderWay') <= Cardinality(Conns)
    /\ UnderWay' \subseteq UnderWay => Cardinality(UnderWay') <= Cardinality(UnderWay)
<1>1. UnderWay \subseteq Conns /\ UnderWay' \subseteq Conns /\ IsFiniteSet(Conns)
    BY WebDropAssumption DEF UnderWay
<1>2. IsFiniteSet(UnderWay) /\ IsFiniteSet(UnderWay')
    BY <1>1, FS_Subset
<1> QED
    BY <1>1, <1>2, FS_Subset, FS_CardinalityType

\* A step that begins no upload and leaves the counters alone.
LEMMA QuotaQuiet ==
    ASSUME DropTypeOK, QuotaInv, UnderWay' \subseteq UnderWay,
           UNCHANGED <<today, demo, qrDone, qrUnlimited>>
    PROVE  QuotaInv'
<1>1. WeekSeen' /\ CountedQr'
    BY DEF QuotaInv, WeekSeen, CountedQr, Rolled, WeekId
<1>2. QrOverrunIsBounded'
    BY UnderWayFinite, LicensingAssumption DEF QuotaInv, QrOverrunIsBounded, DropTypeOK, UnderWay
<1> QED
    BY <1>1, <1>2 DEF QuotaInv

LEMMA QuotaInit == DropInit => QuotaInv
<1> SUFFICES ASSUME DropInit PROVE QuotaInv
    OBVIOUS
<1>1. UnderWay = {}
    BY DEF DropInit, UnderWay, IdleUpload
<1>2. QrOverrunIsBounded
    BY <1>1, FS_EmptySet, UnderWayFinite, LicensingAssumption DEF QrOverrunIsBounded, DropInit, UnderWay
<1>3. WeekSeen /\ CountedQr
    BY DEF DropInit, LicenseInit, WeekSeen, CountedQr, Rolled
<1> QED
    BY <1>2, <1>3 DEF QuotaInv

\* A check rolls the counters over and counts nothing.
LEMMA CheckKeeps ==
    ASSUME DropTypeOK, QuotaInv, NEW load \in Loads, CheckQrUpload(load),
           today' = today, qrDone' = qrDone
    PROVE  WeekSeen' /\ CountedQr'
<1>0. today \in 1 .. today
    BY DEF DropTypeOK, LicenseTypeOK, Spans
<1>1. CASE demo' = demo
    BY <1>1 DEF QuotaInv, WeekSeen, CountedQr, Rolled, WeekId
<1>2. CASE demo' = Rolled
    <2>1. Rolled.week = WeekId(today) /\ Rolled' = Rolled
        BY <1>2, RolledType DEF DropTypeOK, Rolled, WeekId
    <2> QED
        BY <1>0, <1>2, <2>1 DEF QuotaInv, WeekSeen, CountedQr, WeekId
<1> QED
    BY <1>1, <1>2 DEF CheckQrUpload

\* An upload begins below the limit; the others are at most all but one.
LEMMA BeginQuota ==
    ASSUME DropTypeOK, QuotaInv, Begin
    PROVE  QuotaInv'
<1>1. ASSUME NEW load \in Loads, UploadRefused(load) PROVE QuotaInv'
    <2>1. WeekSeen' /\ CountedQr'
        BY <1>1, CheckKeeps DEF UploadRefused, counts
    <2>2. QrOverrunIsBounded'
        BY <1>1 DEF UploadRefused, counts, QuotaInv, QrOverrunIsBounded
    <2> QED
        BY <2>1, <2>2 DEF QuotaInv
<1>2. ASSUME NEW load \in Loads, NEW c \in Conns, NEW g \in Guests, NEW parts \in 0 .. MaxParts,
             BeginUpload(c, g, load, parts)
      PROVE  QuotaInv'
    <2>1. WeekSeen' /\ CountedQr'
        BY <1>2, CheckKeeps DEF BeginUpload
    <2>2. ASSUME ~qrUnlimited' PROVE qrDone <= QrLimit - 1
        <3>1. Rolled.qr < QrLimit
            BY <1>2, <2>2 DEF BeginUpload, QrAllowed
        <3>2. qrDone \in Nat /\ Rolled.qr \in Nat /\ qrDone <= Rolled.qr
            BY RolledType DEF DropTypeOK, QuotaInv, CountedQr
        <3> QED
            BY <3>1, <3>2, LicensingAssumption
    <2>3. qrDone' = qrDone /\ qrDone \in Nat
        BY <1>2 DEF BeginUpload, DropTypeOK
    <2>4. QrOverrunIsBounded'
        BY <2>2, <2>3, UnderWayFinite, LicensingAssumption DEF QrOverrunIsBounded, UnderWay
    <2> QED
        BY <2>1, <2>4 DEF QuotaInv
<1> QED
    BY <1>1, <1>2 DEF Begin

\* An upload that is counted is under way no more.
LEMMA EndQuota ==
    ASSUME DropTypeOK, QuotaInv, NEW c \in Conns, EndOfForm(c)
    PROVE  QuotaInv'
<1>1. UnderWay' = UnderWay \ {c} /\ c \in UnderWay
    BY DEF EndOfForm, UnderWay, IdleUpload, DropTypeOK
<1>2. CASE upload[c].saved > 0
    <2>1. /\ demo' = [Rolled EXCEPT !.qr = @ + 1] /\ qrDone' = qrDone + 1
          /\ today' = today /\ qrUnlimited' = qrUnlimited
        BY <1>2 DEF EndOfForm, RecordDemoQrUpload
    <2>2. demo'.week = WeekId(today) /\ demo'.qr = Rolled.qr + 1
        BY <2>1, RolledType DEF DropTypeOK
    <2>3. Rolled' = demo'
        BY <2>1, <2>2 DEF Rolled, WeekId
    <2>4. today \in 1 .. today
        BY DEF DropTypeOK, LicenseTypeOK, Spans
    <2>5. WeekSeen' /\ CountedQr'
        BY <2>1, <2>2, <2>3, <2>4, RolledType
        DEF DropTypeOK, QuotaInv, WeekSeen, CountedQr, WeekId
    <2>6. Cardinality(UnderWay') = Cardinality(UnderWay) - 1
        BY <1>1, UnderWayFinite, FS_RemoveElement
    <2>7. QrOverrunIsBounded'
        BY <2>1, <2>6, UnderWayFinite, LicensingAssumption
        DEF QuotaInv, QrOverrunIsBounded, DropTypeOK, UnderWay
    <2> QED
        BY <2>5, <2>7 DEF QuotaInv
<1>3. CASE ~(upload[c].saved > 0)
    BY <1>1, <1>3, QuotaQuiet DEF EndOfForm
<1> QED
    BY <1>2, <1>3

\* A new span starts with nothing counted, and its id is new.
LEMMA NewSpanQuota ==
    ASSUME DropTypeOK, QuotaInv, DropNewSpan
    PROVE  QuotaInv'
<1> USE DEF DropTypeOK, LicenseTypeOK, QuotaInv, DropNewSpan
<1>1. WeekSeen'
    <2>1. PICK d \in 1 .. today : demo.week = WeekId(d)
        BY DEF WeekSeen
    <2>2. d \in 1 .. today'
        BY LicensingAssumption DEF Spans
    <2> QED
        BY <2>1, <2>2 DEF WeekSeen, WeekId
<1>2. demo.week # WeekId(today')
    <2>1. PICK d \in 1 .. today : demo.week = WeekId(d)
        BY DEF WeekSeen
    <2>2. d \in Spans /\ today' \in Spans /\ d # today'
        BY LicensingAssumption DEF Spans
    <2> QED
        BY <2>1, <2>2, LicensingAssumption
<1>3. CountedQr'
    BY <1>2 DEF CountedQr, Rolled, WeekId
<1>4. QrOverrunIsBounded'
    BY UnderWayFinite, LicensingAssumption DEF QrOverrunIsBounded, UnderWay
<1> QED
    BY <1>1, <1>3, <1>4

LEMMA QuotaNext == FolderInv /\ QuotaInv /\ [DropNext]_dropVars => QuotaInv'
<1> SUFFICES ASSUME DropTypeOK, QuotaInv, [DropNext]_dropVars PROVE QuotaInv'
    BY DEF FolderInv
<1>0. upload \in [Conns -> Upload]
    BY DEF DropTypeOK
<1>1. ASSUME NEW c \in Conns, UploadFails(c) PROVE QuotaInv'
    BY <1>0, <1>1, QuotaQuiet DEF UploadFails, counts, UnderWay, IdleUpload
<1>2. ASSUME NEW c \in Conns, ResolveFolder(c) PROVE QuotaInv'
    <2>1. UnderWay' \subseteq UnderWay
        BY <1>0, <1>2 DEF ResolveFolder, UnderWay, IdleUpload
    <2> QED
        BY <1>2, <2>1, QuotaQuiet DEF ResolveFolder, counts
<1>3. ASSUME NEW c \in Conns, NEW n \in Names, ChooseName(c, n) PROVE QuotaInv'
    BY <1>0, <1>3, QuotaQuiet DEF ChooseName, UnderWay
<1>4. ASSUME NEW c \in Conns, CreateFile(c) PROVE QuotaInv'
    <2>1. UnderWay' \subseteq UnderWay
        BY <1>0, <1>4 DEF CreateFile, Beaten, UnderWay
    <2> QED
        BY <1>4, <2>1, QuotaQuiet DEF CreateFile
<1>5. ASSUME NEW c \in Conns, StreamEnds(c) PROVE QuotaInv'
    BY <1>0, <1>5, QuotaQuiet DEF StreamEnds, counts, UnderWay
<1>6. ASSUME NEW old \in Folders, NEW new \in Folders, RenameFolder(old, new) PROVE QuotaInv'
    <2>1. UnderWay' \subseteq UnderWay
        BY <1>0, <1>6 DEF RenameFolder, Beaten, UnderWay
    <2> QED
        BY <1>6, <2>1, QuotaQuiet DEF RenameFolder, counts
<1>7. ASSUME DropLicenseStep PROVE QuotaInv'
    BY <1>7, QuotaQuiet DEF DropLicenseStep, Activate, Deactivate, HostRenamed, counts, UnderWay
<1>8. ASSUME UNCHANGED dropVars PROVE QuotaInv'
    BY <1>8, QuotaQuiet DEF dropVars, counts, UnderWay
<1> QED
    BY <1>1, <1>2, <1>3, <1>4, <1>5, <1>6, <1>7, <1>8, BeginQuota, EndQuota, NewSpanQuota
    DEF DropNext, Work

-----------------------------------------------------------------------------

(* A guest's files stay in the folder of the guest, however uploads of     *)
(* any guests overlap with each other and with renames of the folders,     *)
(* but for a file created after its folder was renamed under it            *)
(* (resolve_webdrop_folder, unique_receive_path, rename_webdrop_folder).   *)
THEOREM GuestsFiles == DropSpec => [](DropTypeOK /\ FilesFollowTheirGuest)
<1>1. FolderInv => DropTypeOK /\ FilesFollowTheirGuest
    BY DEF FolderInv
<1> QED
    BY FolderInit, FolderNext, <1>1, PTL DEF DropSpec

(* However uploads overlap, fail and outlast a week, a demo takes at most  *)
(* QrLimit - 1 uploads in a week and one for each that can be under way at *)
(* once (check_qr_upload and record_demo_qr_upload are a whole upload      *)
(* apart).                                                                 *)
THEOREM QrOverrunBound == DropSpec => []QrOverrunIsBounded
<1>1. QuotaInv => QrOverrunIsBounded
    BY DEF QuotaInv
<1> QED
    BY FolderInit, FolderNext, QuotaInit, QuotaNext, <1>1, PTL DEF DropSpec

(* No step loses a file, a rename of a folder least of all, and a file is  *)
(* created where none is, but for one that another upload or a rename put  *)
(* there after its name was found to be free (unique_receive_path, then    *)
(* File::create).                                                          *)
THEOREM NoFileIsLost == DropSpec => FilesAreKept
<1>1. ASSUME FolderInv, KeptInv, [DropNext]_dropVars
      PROVE  /\ Cardinality(DOMAIN disk') >= Cardinality(DOMAIN disk)
             /\ \A c \in Conns :
                   upload[c].at = "chosen" /\ upload'[c].at = "streaming"
                       => upload[c].beaten \/ upload[c].path \notin DOMAIN disk
    <2>1. Cardinality(DOMAIN disk) \in Nat /\ Cardinality(DOMAIN disk') \in Nat
        BY <1>1, KeptNext, FS_CardinalityType DEF KeptInv
    <2> QED
        BY <1>1, <2>1, KeptNext DEF KeptInv, Unbeaten
<1>2. FolderInv /\ KeptInv /\ [DropNext]_dropVars => FolderInv' /\ KeptInv'
    BY FolderNext, KeptNext
<1> QED
    BY FolderInit, KeptInit, <1>1, <1>2, PTL DEF DropSpec, FilesAreKept

=============================================================================
