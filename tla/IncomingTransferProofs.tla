------------------------ MODULE IncomingTransferProofs ------------------------
(***************************************************************************)
(* Theorems about the receive prompt for any number of requests, polls and *)
(* clicks: the slot invariant, where answers go, and that the slot, its    *)
(* channels and its timers implement the abstract gate.                    *)
(***************************************************************************)
EXTENDS IncomingTransfer, TLAPS

(* A task's channel follows its phase; only a task that returned has an    *)
(* outcome.                                                                *)
PhaseInv ==
    \A a \in Asks :
        /\ chan[a] = "none"
             <=> phase[a] \in {"idle", "unheard"} \/ outcome[a] = "auto"
        /\ phase[a] = "expired" => chan[a] = "closed"
        /\ phase[a] = "waiting" => chan[a] # "closed"
        /\ phase[a] = "done" => chan[a] # "open"
        /\ phase[a] # "done" => outcome[a] = "none"

(* Whatever the UI holds was once in the slot: its ask has installed its   *)
(* prompt.                                                                 *)
Heard(x) == x \in Asks => phase[x] \notin {"idle", "unheard"}

SeenInv ==
    /\ Heard(shown)
    /\ \A p \in Pollers : Heard(peeked[p])
    /\ \A k \in Clicks : Heard(click[k].about)

ClickInv ==
    \A k \in Clicks : click[k].state # "unused" => click[k].about \in Asks

IInv ==
    /\ TypeOK
    /\ NoOrphanPrompt
    /\ AnswerReachesItsAsk
    /\ PhaseInv
    /\ SeenInv
    /\ ClickInv

-----------------------------------------------------------------------------

LEMMA InitInv == Init => IInv
<1> SUFFICES ASSUME Init PROVE IInv
    OBVIOUS
<1>1. TypeOK
    BY DEF Init, TypeOK, AskOrNone, Phases, Channels, Outcomes, ClickRecord
<1>2. NoOrphanPrompt /\ AnswerReachesItsAsk /\ PhaseInv /\ ClickInv
    BY NamesAssumption DEF Init, NoOrphanPrompt, AnswerReachesItsAsk, PhaseInv,
       ClickInv, Open
<1>3. SeenInv
    BY NamesAssumption DEF Init, SeenInv, Heard
<1> QED
    BY <1>1, <1>2, <1>3 DEF IInv

(* The steps of a request's own task. *)
LEMMA AskStepInv ==
    ASSUME IInv, NEW a \in Asks, AskStep(a)
    PROVE  IInv'
<1> USE DEF IInv, AskOrNone
<1>1. CASE WaitForDecision(a)
    <2>1. TypeOK'
        BY <1>1 DEF WaitForDecision, TypeOK, Phases, Outcomes, uiVars, ClickRecord
    <2>2. NoOrphanPrompt' /\ AnswerReachesItsAsk' /\ ClickInv'
        BY <1>1 DEF WaitForDecision, TypeOK, NoOrphanPrompt, AnswerReachesItsAsk,
           ClickInv, Open, uiVars, PhaseInv
    <2>3. PhaseInv'
        BY <1>1 DEF WaitForDecision, TypeOK, PhaseInv, Phases, Outcomes
    <2>4. SeenInv'
        BY <1>1 DEF WaitForDecision, TypeOK, SeenInv, Heard, uiVars, Phases
    <2> QED BY <2>1, <2>2, <2>3, <2>4
<1>2. CASE InstallPrompt(a)
    <2>1. TypeOK'
        BY <1>2 DEF InstallPrompt, DropSender, TypeOK, Phases, Channels, uiVars
    <2>2. NoOrphanPrompt'
        BY <1>2 DEF InstallPrompt, DropSender, TypeOK, NoOrphanPrompt, Open
    <2>3. AnswerReachesItsAsk'
        BY <1>2 DEF InstallPrompt, DropSender, TypeOK, AnswerReachesItsAsk,
           SeenInv, Heard, ClickInv, Open, uiVars
    <2>4. PhaseInv'
        BY <1>2 DEF InstallPrompt, DropSender, TypeOK, PhaseInv, NoOrphanPrompt, Open
    <2>5. SeenInv' /\ ClickInv'
        BY <1>2 DEF InstallPrompt, TypeOK, SeenInv, ClickInv, Heard, uiVars
    <2> QED BY <2>1, <2>2, <2>3, <2>4, <2>5
<1>3. CASE Wake(a)
    <2>1. TypeOK'
        BY <1>3 DEF Wake, TypeOK, Phases, Outcomes, uiVars
    <2>2. NoOrphanPrompt' /\ AnswerReachesItsAsk' /\ ClickInv'
        BY <1>3 DEF Wake, TypeOK, NoOrphanPrompt, AnswerReachesItsAsk, ClickInv,
           Open, uiVars
    <2>3. PhaseInv'
        BY <1>3 DEF Wake, TypeOK, PhaseInv
    <2>4. SeenInv'
        BY <1>3 DEF Wake, TypeOK, SeenInv, Heard, uiVars
    <2> QED BY <2>1, <2>2, <2>3, <2>4
<1>4. CASE TimerFires(a)
    <2>1. TypeOK'
        BY <1>4 DEF TimerFires, TypeOK, Phases, Channels, uiVars
    <2>2. NoOrphanPrompt' /\ AnswerReachesItsAsk' /\ ClickInv'
        BY <1>4 DEF TimerFires, TypeOK, NoOrphanPrompt, AnswerReachesItsAsk,
           ClickInv, Open, uiVars
    <2>3. PhaseInv'
        BY <1>4 DEF TimerFires, TypeOK, PhaseInv
    <2>4. SeenInv'
        BY <1>4 DEF TimerFires, TypeOK, SeenInv, Heard, uiVars
    <2> QED BY <2>1, <2>2, <2>3, <2>4
<1>5. CASE TakeAfterTimeout(a)
    <2>1. TypeOK'
        BY <1>5 DEF TakeAfterTimeout, DropSender, TypeOK, Phases, Channels,
           Outcomes, uiVars
    <2>2. NoOrphanPrompt' /\ AnswerReachesItsAsk' /\ ClickInv'
        BY <1>5, NamesAssumption DEF TakeAfterTimeout, DropSender, TypeOK,
           NoOrphanPrompt, AnswerReachesItsAsk, ClickInv, Open, uiVars
    <2>3. PhaseInv'
        BY <1>5 DEF TakeAfterTimeout, DropSender, TypeOK, PhaseInv
    <2>4. SeenInv'
        BY <1>5 DEF TakeAfterTimeout, TypeOK, SeenInv, Heard, uiVars
    <2> QED BY <2>1, <2>2, <2>3, <2>4
<1> QED
    BY <1>1, <1>2, <1>3, <1>4, <1>5 DEF AskStep

(* The steps of the UI thread and of the tasks it starts. *)
LEMMA UIStepInv ==
    ASSUME IInv,
           \/ \E p \in Pollers : Peek(p) \/ UpdatePendingIncoming(p)
           \/ \E k \in Clicks, b \in BOOLEAN : UserAnswers(k, b)
           \/ \E k \in Clicks : Respond(k)
    PROVE  IInv'
<1> USE DEF IInv, AskOrNone
<1>1. ASSUME NEW p \in Pollers, Peek(p) PROVE IInv'
    <2>1. TypeOK'
        BY <1>1 DEF Peek, TypeOK, gateVars
    <2>2. NoOrphanPrompt' /\ AnswerReachesItsAsk' /\ PhaseInv' /\ ClickInv'
        BY <1>1 DEF Peek, NoOrphanPrompt, AnswerReachesItsAsk, PhaseInv, ClickInv,
           Open, gateVars
    <2>3. SeenInv'
        BY <1>1 DEF Peek, TypeOK, SeenInv, Heard, NoOrphanPrompt, gateVars
    <2> QED BY <2>1, <2>2, <2>3
<1>2. ASSUME NEW p \in Pollers, UpdatePendingIncoming(p) PROVE IInv'
    <2>1. TypeOK'
        BY <1>2 DEF UpdatePendingIncoming, TypeOK, gateVars
    <2>2. NoOrphanPrompt' /\ AnswerReachesItsAsk' /\ PhaseInv' /\ ClickInv'
        BY <1>2 DEF UpdatePendingIncoming, NoOrphanPrompt, AnswerReachesItsAsk,
           PhaseInv, ClickInv, Open, gateVars
    <2>3. SeenInv'
        BY <1>2, NamesAssumption DEF UpdatePendingIncoming, TypeOK, SeenInv, Heard, gateVars
    <2> QED BY <2>1, <2>2, <2>3
<1>3. ASSUME NEW k \in Clicks, NEW b \in BOOLEAN, UserAnswers(k, b) PROVE IInv'
    <2>1. TypeOK'
        BY <1>3 DEF UserAnswers, TypeOK, ClickRecord, gateVars
    <2>2. NoOrphanPrompt' /\ PhaseInv'
        BY <1>3 DEF UserAnswers, NoOrphanPrompt, PhaseInv, Open, gateVars
    <2>3. AnswerReachesItsAsk' /\ ClickInv'
        BY <1>3 DEF UserAnswers, TypeOK, ClickRecord, AnswerReachesItsAsk, ClickInv,
           Open, gateVars
    <2>4. SeenInv'
        BY <1>3, NamesAssumption DEF UserAnswers, TypeOK, ClickRecord, SeenInv, Heard, gateVars
    <2> QED BY <2>1, <2>2, <2>3, <2>4
<1>4. ASSUME NEW k \in Clicks, Respond(k) PROVE IInv'
    <2>1. TypeOK'
        BY <1>4 DEF Respond, TypeOK, ClickRecord, Channels
    <2>2. NoOrphanPrompt' /\ PhaseInv'
        BY <1>4, NamesAssumption DEF Respond, TypeOK, NoOrphanPrompt, PhaseInv, Open
    <2>3. AnswerReachesItsAsk'
        BY <1>4, NamesAssumption DEF Respond, TypeOK, ClickRecord, AnswerReachesItsAsk,
           NoOrphanPrompt, ClickInv, Open
    <2>4. SeenInv' /\ ClickInv'
        BY <1>4 DEF Respond, TypeOK, ClickRecord, SeenInv, ClickInv, Heard
    <2> QED BY <2>1, <2>2, <2>3, <2>4
<1> QED
    BY <1>1, <1>2, <1>3, <1>4

LEMMA NextInv == IInv /\ [Next]_vars => IInv'
<1> SUFFICES ASSUME IInv, [Next]_vars PROVE IInv'
    OBVIOUS
<1>1. ASSUME NEW v \in BOOLEAN, SetAutoAccept(v) PROVE IInv'
    BY <1>1 DEF SetAutoAccept, IInv, TypeOK, NoOrphanPrompt, AnswerReachesItsAsk,
       PhaseInv, SeenInv, Heard, ClickInv, Open, gateVars, uiVars
<1>2. CASE UNCHANGED vars
    BY <1>2 DEF vars, IInv, TypeOK, NoOrphanPrompt, AnswerReachesItsAsk,
       PhaseInv, SeenInv, Heard, ClickInv, Open
<1> QED
    BY <1>1, <1>2, AskStepInv, UIStepInv DEF Next

(* The slot and the sleeping tasks stay in step, for any number of         *)
(* requests: no task sleeps on a live channel whose sender is not in the   *)
(* slot, and no prompt outlives its request.                               *)
THEOREM SlotInvariant == Spec => [](TypeOK /\ NoOrphanPrompt)
<1>1. IInv => TypeOK /\ NoOrphanPrompt
    BY DEF IInv
<1> QED
    BY InitInv, NextInv, <1>1, PTL DEF Spec

(* An answer reaches the ask it was given for unless that ask can no       *)
(* longer be answered.                                                     *)
THEOREM AnswerTarget == Spec => []AnswerReachesItsAsk
<1>1. IInv => AnswerReachesItsAsk
    BY DEF IInv
<1> QED
    BY InitInv, NextInv, <1>1, PTL DEF Spec

-----------------------------------------------------------------------------
(* The refinement.  Every step is one step of the abstract gate, or leaves *)
(* verdicts, consents and the auto-accept flag as they were.               *)

Verdicts == [a \in Asks |-> Verdict(a)]
Consents == {k \in Clicks : click[k].state = "queued" /\ click[k].accept}

(* A verdict is a function of the ask's own phase, channel and outcome. *)
LEMMA SameVerdict ==
    ASSUME NEW a \in Asks,
           phase'[a] = phase[a], chan'[a] = chan[a], outcome'[a] = outcome[a]
    PROVE  Verdict(a)' = Verdict(a)
BY DEF Verdict

(* A slot that changes hands refuses the open ask whose prompt was in it,  *)
(* and no other.                                                           *)
LEMMA StepVerdicts ==
    ASSUME NEW b \in Asks, \A a \in Asks \ {b} : Verdict(a)' = Verdict(a)
    PROVE  Verdicts' = [Verdicts EXCEPT ![b] = Verdict(b)']
BY DEF Verdicts

LEMMA AskStepRefines ==
    ASSUME IInv, NEW a \in Asks, AskStep(a)
    PROVE  [Gate!Next]_(Gate!vars)
<1> USE DEF Gate!vars
<1>c. ASSUME UNCHANGED click PROVE Consents' = Consents
    BY <1>c DEF Consents
<1>s. ASSUME UNCHANGED <<click, autoAccept>>,
             \A b \in Asks : Verdict(b)' = Verdict(b)
      PROVE  UNCHANGED Gate!vars
    BY <1>s
<1>r. ASSUME UNCHANGED <<click, autoAccept>>, NEW b \in Asks,
             \A d \in Asks \ {b} : Verdict(d)' = Verdict(d),
             Verdict(b) = "open", Verdict(b)' = "refused"
      PROVE  Gate!Next
    <2>1. Gate!Refuse(b)
        BY <1>r, <1>c, StepVerdicts DEF Gate!Refuse, Verdicts, Consents
    <2> QED BY <2>1 DEF Gate!Next
<1>1. CASE WaitForDecision(a)
    <2>1. \A d \in Asks \ {a} : Verdict(d)' = Verdict(d)
        BY <1>1, SameVerdict DEF WaitForDecision, IInv, TypeOK
    <2>2. Verdict(a) = "unasked"
        BY <1>1 DEF WaitForDecision, Verdict
    <2>3. Verdict(a)' = IF autoAccept THEN "granted" ELSE "open"
        BY <1>1 DEF WaitForDecision, Verdict, IInv, TypeOK, PhaseInv
    <2>4. Gate!Ask(a)
        BY <1>1, <1>c, <2>1, <2>2, <2>3, StepVerdicts
           DEF WaitForDecision, Gate!Ask, Verdicts, Consents, uiVars
    <2> QED BY <2>4 DEF Gate!Next
<1>2. CASE InstallPrompt(a)
    <2>1. UNCHANGED <<click, autoAccept>>
        BY <1>2 DEF InstallPrompt, uiVars
    <2>2. Verdict(a)' = Verdict(a)
        BY <1>2 DEF InstallPrompt, DropSender, Verdict, IInv, TypeOK
    <2>3. \A d \in Asks \ {a, pending} : Verdict(d)' = Verdict(d)
        BY <1>2, SameVerdict DEF InstallPrompt, DropSender, IInv, TypeOK
    <2>4. ASSUME NEW b \in Asks \ {a}, b = pending, Open(b)
          PROVE  Gate!Next
        <3>1. Verdict(b) = "open"
            BY <2>4 DEF Verdict, Open, IInv, PhaseInv
        <3>2. Verdict(b)' = "refused"
            BY <1>2, <2>4 DEF InstallPrompt, DropSender, Verdict, Open, IInv,
               TypeOK, PhaseInv, NoOrphanPrompt
        <3> QED BY <1>r, <2>1, <2>2, <2>3, <2>4, <3>1, <3>2
    <2>5. CASE ~(pending \in Asks \ {a} /\ Open(pending))
        <3>1. \A d \in Asks \ {a} : Verdict(d)' = Verdict(d)
            BY <1>2, <2>5, SameVerdict DEF InstallPrompt, DropSender, Open, IInv, TypeOK
        <3> QED BY <1>s, <2>1, <2>2, <3>1
    <2> QED BY <2>4, <2>5
<1>3. CASE Wake(a)
    <2>1. UNCHANGED <<click, autoAccept>>
        BY <1>3 DEF Wake, uiVars
    <2>2. \A d \in Asks \ {a} : Verdict(d)' = Verdict(d)
        BY <1>3, SameVerdict DEF Wake, IInv, TypeOK
    <2>3. Verdict(a)' = Verdict(a)
        BY <1>3 DEF Wake, Verdict, IInv, TypeOK, PhaseInv
    <2> QED BY <1>s, <2>1, <2>2, <2>3
<1>4. CASE TimerFires(a)
    <2>1. UNCHANGED <<click, autoAccept>>
        BY <1>4 DEF TimerFires, uiVars
    <2>2. \A d \in Asks \ {a} : Verdict(d)' = Verdict(d)
        BY <1>4, SameVerdict DEF TimerFires, IInv, TypeOK
    <2>3. Verdict(a) = "open" /\ Verdict(a)' = "refused"
        BY <1>4 DEF TimerFires, Verdict, IInv, TypeOK, PhaseInv
    <2> QED BY <1>r, <2>1, <2>2, <2>3
<1>5. CASE TakeAfterTimeout(a)
    <2>1. UNCHANGED <<click, autoAccept>>
        BY <1>5 DEF TakeAfterTimeout, uiVars
    <2>2. Verdict(a)' = Verdict(a)
        BY <1>5 DEF TakeAfterTimeout, DropSender, Verdict, IInv, TypeOK, PhaseInv
    <2>3. \A d \in Asks \ {a, pending} : Verdict(d)' = Verdict(d)
        BY <1>5, SameVerdict DEF TakeAfterTimeout, DropSender, IInv, TypeOK
    <2>4. ASSUME NEW b \in Asks \ {a}, b = pending, Open(b)
          PROVE  Gate!Next
        <3>1. Verdict(b) = "open"
            BY <2>4 DEF Verdict, Open, IInv, PhaseInv
        <3>2. Verdict(b)' = "refused"
            BY <1>5, <2>4 DEF TakeAfterTimeout, DropSender, Verdict, Open, IInv,
               TypeOK, PhaseInv, NoOrphanPrompt
        <3> QED BY <1>r, <2>1, <2>2, <2>3, <2>4, <3>1, <3>2
    <2>5. CASE ~(pending \in Asks \ {a} /\ Open(pending))
        <3>1. \A d \in Asks \ {a} : Verdict(d)' = Verdict(d)
            BY <1>5, <2>5, SameVerdict DEF TakeAfterTimeout, DropSender, Open, IInv, TypeOK
        <3> QED BY <1>s, <2>1, <2>2, <3>1
    <2> QED BY <2>4, <2>5
<1> QED
    BY <1>1, <1>2, <1>3, <1>4, <1>5 DEF AskStep

LEMMA UIStepRefines ==
    ASSUME IInv,
           \/ \E p \in Pollers : Peek(p) \/ UpdatePendingIncoming(p)
           \/ \E k \in Clicks, b \in BOOLEAN : UserAnswers(k, b)
           \/ \E k \in Clicks : Respond(k)
    PROVE  [Gate!Next]_(Gate!vars)
<1> USE DEF Gate!vars
<1>1. ASSUME NEW p \in Pollers, Peek(p) \/ UpdatePendingIncoming(p)
      PROVE  UNCHANGED Gate!vars
    <2>1. UNCHANGED <<click, autoAccept, phase, chan, outcome>>
        BY <1>1 DEF Peek, UpdatePendingIncoming, gateVars
    <2> QED BY <2>1, SameVerdict
<1>2. ASSUME NEW k \in Clicks, NEW b \in BOOLEAN, UserAnswers(k, b)
      PROVE  [Gate!Next]_(Gate!vars)
    <2>1. Verdicts' = Verdicts /\ autoAccept' = autoAccept
        BY <1>2, SameVerdict DEF UserAnswers, gateVars, Verdicts
    <2>2. CASE b
        <3>1. Consents' = Consents \cup {k}
            BY <1>2, <2>2 DEF UserAnswers, Consents, IInv, TypeOK
        <3>2. Gate!Consent(k)
            BY <2>1, <3>1 DEF Gate!Consent, Verdicts, Consents
        <3> QED BY <3>2 DEF Gate!Next
    <2>3. CASE ~b
        <3>1. Consents' = Consents
            BY <1>2, <2>3 DEF UserAnswers, Consents, IInv, TypeOK
        <3> QED BY <2>1, <3>1 DEF Verdicts, Consents
    <2> QED BY <2>2, <2>3
<1>3. ASSUME NEW k \in Clicks, Respond(k)
      PROVE  [Gate!Next]_(Gate!vars)
    <2>1. autoAccept' = autoAccept
        BY <1>3 DEF Respond
    <2>2. Consents' = Consents \ {k}
        BY <1>3 DEF Respond, Consents, IInv, TypeOK
    <2>3. \A d \in Asks \ {pending} : Verdict(d)' = Verdict(d)
        BY <1>3, SameVerdict DEF Respond, IInv, TypeOK
    <2>4. ASSUME NEW b \in Asks, b = pending, Open(b)
          PROVE  Gate!Next
        <3>1. Verdict(b) = "open"
            BY <2>4 DEF Verdict, Open, IInv, PhaseInv
        <3>2. Verdict(b)' = IF click[k].accept THEN "granted" ELSE "refused"
            BY <1>3, <2>4 DEF Respond, Verdict, Open, IInv, TypeOK, PhaseInv,
               NoOrphanPrompt
        <3>3. Verdicts' = [Verdicts EXCEPT ![b] = Verdict(b)']
            BY <2>3, <2>4, StepVerdicts
        <3>4. CASE click[k].accept
            <4>1. k \in Consents
                BY <1>3, <3>4 DEF Respond, Consents
            <4>2. Gate!Grant(b, k)
                BY <2>1, <2>2, <2>4, <3>1, <3>2, <3>3, <3>4, <4>1
                   DEF Gate!Grant, Verdicts, Consents
            <4> QED BY <2>4, <4>2 DEF Gate!Next
        <3>5. CASE ~click[k].accept
            <4>1. Consents' = Consents
                BY <2>2, <3>5 DEF Consents
            <4>2. Gate!Refuse(b)
                BY <2>1, <2>4, <3>1, <3>2, <3>3, <3>5, <4>1
                   DEF Gate!Refuse, Verdicts, Consents
            <4> QED BY <2>4, <4>2 DEF Gate!Next
        <3> QED BY <3>4, <3>5
    <2>5. CASE ~(pending \in Asks /\ Open(pending))
        <3>1. \A d \in Asks : Verdict(d)' = Verdict(d)
            BY <1>3, <2>5, SameVerdict DEF Respond, Open, IInv, TypeOK
        <3>2. Gate!Waste(k)
            BY <2>1, <2>2, <3>1 DEF Gate!Waste, Consents
        <3> QED BY <3>2 DEF Gate!Next
    <2> QED BY <2>4, <2>5
<1> QED
    BY <1>1, <1>2, <1>3

(* No ask is granted without auto-accept or an unspent "Accept", one       *)
(* "Accept" grants at most one ask, and no verdict is revised, for any     *)
(* number of requests, peeks and answers.                                  *)
THEOREM GateRefinement == Spec => ImplementsGate
<1>1. Init => Gate!Init
    <2> SUFFICES ASSUME Init PROVE Gate!Init
        OBVIOUS
    <2>1. \A a \in Asks : Verdict(a) = "unasked"
        BY DEF Init, Verdict
    <2>2. Consents = {}
        BY DEF Init, Consents
    <2> QED BY <2>1, <2>2 DEF Init, Gate!Init, Consents
<1>2. IInv /\ [Next]_vars => [Gate!Next]_(Gate!vars)
    <2> SUFFICES ASSUME IInv, [Next]_vars PROVE [Gate!Next]_(Gate!vars)
        OBVIOUS
    <2>1. ASSUME NEW v \in BOOLEAN, SetAutoAccept(v) PROVE Gate!Next
        <3>1. \A a \in Asks : Verdict(a)' = Verdict(a)
            BY <2>1, SameVerdict DEF SetAutoAccept, gateVars
        <3>2. Gate!SetAuto(v)
            BY <2>1, <3>1 DEF SetAutoAccept, Gate!SetAuto, uiVars
        <3> QED BY <3>2 DEF Gate!Next
    <2>2. CASE UNCHANGED vars
        <3>1. \A a \in Asks : Verdict(a)' = Verdict(a)
            BY <2>2, SameVerdict DEF vars
        <3> QED BY <2>2, <3>1 DEF vars, Gate!vars
    <2> QED BY <2>1, <2>2, AskStepRefines, UIStepRefines DEF Next
<1> QED
    BY InitInv, NextInv, <1>1, <1>2, PTL DEF Spec, ImplementsGate, Gate!Spec

=============================================================================
