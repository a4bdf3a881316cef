--------------------------- MODULE IncomingTransfer ---------------------------
(***************************************************************************)
(* The receive prompt: protocols/incoming_transfer.rs together with the    *)
(* part of ui/mod.rs that shows the prompt and answers it.                 *)
(*                                                                         *)
(* Every /Ask handler calls wait_for_decision, which puts its prompt in    *)
(* ONE shared slot and sleeps on a oneshot channel for at most 120 s.  The *)
(* UI thread polls the slot (peek), keeps a copy of what it saw, and an    *)
(* "Accept" or "Reject" starts a task that answers whatever prompt is in   *)
(* the slot when the task runs.  Each lock of the slot is one step here;   *)
(* what happens between two locks is another.                              *)
(***************************************************************************)
CONSTANTS Asks,     \* calls of wait_for_decision (bound: how many)
          Pollers,  \* peek tasks that may be under way at once (bound)
          Clicks,   \* answers the user gives (bound: how many)
          NoAsk     \* the empty slot, and a dialog that is not shown

Idle == "idle"          \* a poller with no peek under way

ASSUME NamesAssumption == NoAsk \notin Asks /\ Idle \notin Asks

VARIABLES
    pending,     \* the ask whose prompt is in the slot
    autoAccept,  \* the AtomicBool read before prompting
    phase,       \* where each ask's task stands in wait_for_decision
    chan,        \* each ask's oneshot channel, as its two ends left it
    outcome,     \* the branch of wait_for_decision that returned
    shown,       \* the UI's copy, pending_incoming: the dialog on screen
    peeked,      \* results of peek on their way to the UI thread
    click        \* the user's answers and the tasks that carry them

gateVars == <<pending, phase, chan, outcome>>
uiVars == <<shown, peeked, click>>
vars == <<pending, autoAccept, phase, chan, outcome, shown, peeked, click>>

AskOrNone == Asks \cup {NoAsk}

Phases == {"idle",     \* wait_for_decision not called yet
           "unheard",  \* auto-accept was off; the slot not locked yet
           "waiting",  \* prompt installed, asleep on the channel
           "expired",  \* the timer fired; the slot not locked again yet
           "done"}
Channels == {"none", "open", "yes", "no",
             "dropped",  \* the sender was dropped without an answer
             "closed"}   \* the receiver is gone: a send is lost
Outcomes == {"none", "auto", "accepted", "rejected", "displaced", "timeout"}

ClickRecord == [state  : {"unused", "queued", "spent"},
                accept : BOOLEAN,
                about  : AskOrNone,   \* the dialog the user clicked on
                hit    : AskOrNone]   \* the prompt respond() took

TypeOK ==
    /\ pending \in AskOrNone
    /\ autoAccept \in BOOLEAN
    /\ phase \in [Asks -> Phases]
    /\ chan \in [Asks -> Channels]
    /\ outcome \in [Asks -> Outcomes]
    /\ shown \in AskOrNone
    /\ peeked \in [Pollers -> AskOrNone \cup {Idle}]
    /\ click \in [Clicks -> ClickRecord]

Init ==
    /\ pending = NoAsk
    /\ autoAccept \in BOOLEAN
    /\ phase = [a \in Asks |-> "idle"]
    /\ chan = [a \in Asks |-> "none"]
    /\ outcome = [a \in Asks |-> "none"]
    /\ shown = NoAsk
    /\ peeked = [p \in Pollers |-> Idle]
    /\ click = [k \in Clicks |-> [state |-> "unused", accept |-> FALSE,
                                  about |-> NoAsk, hit |-> NoAsk]]

-----------------------------------------------------------------------------
(* The service *)

SetAutoAccept(v) ==
    /\ autoAccept' = v
    /\ UNCHANGED <<gateVars, uiVars>>

\* The call starts: auto-accept returns true before any prompt exists.
WaitForDecision(a) ==
    /\ phase[a] = "idle"
    /\ \/ /\ autoAccept
          /\ phase' = [phase EXCEPT ![a] = "done"]
          /\ outcome' = [outcome EXCEPT ![a] = "auto"]
       \/ /\ ~autoAccept
          /\ phase' = [phase EXCEPT ![a] = "unheard"]
          /\ UNCHANGED outcome
    /\ UNCHANGED <<pending, autoAccept, chan, uiVars>>

\* Overwriting or taking the slot drops the sender that was in it.
DropSender(ch, slot) ==
    [a \in Asks |-> IF a = slot /\ ch[a] = "open" THEN "dropped" ELSE ch[a]]

\* Mutant: the replaced prompt's sender is kept alive.
InstallKeepsOldSender(a) ==
    /\ phase[a] = "unheard"
    /\ pending' = a
    /\ phase' = [phase EXCEPT ![a] = "waiting"]
    /\ chan' = [chan EXCEPT ![a] = "open"]
    /\ UNCHANGED <<autoAccept, outcome, uiVars>>

\* *guard = Some(PendingAsk { .. }): a prompt already there is replaced.
InstallPrompt(a) ==
    /\ phase[a] = "unheard"
    /\ pending' = a
    /\ phase' = [phase EXCEPT ![a] = "waiting"]
    /\ chan' = [DropSender(chan, pending) EXCEPT ![a] = "open"]
    /\ UNCHANGED <<autoAccept, outcome, uiVars>>

\* Mutant: only an answer wakes the task, a dropped sender does not.
WakeOnAnswerOnly(a) ==
    /\ phase[a] = "waiting"
    /\ chan[a] \in {"yes", "no"}
    /\ phase' = [phase EXCEPT ![a] = "done"]
    /\ outcome' = [outcome EXCEPT ![a] =
                     IF chan[a] = "yes" THEN "accepted" ELSE "rejected"]
    /\ UNCHANGED <<pending, autoAccept, chan, uiVars>>

\* The receiver resolves: the answer, or RecvError when the sender is gone.
Wake(a) ==
    /\ phase[a] = "waiting"
    /\ chan[a] \in {"yes", "no", "dropped"}
    /\ phase' = [phase EXCEPT ![a] = "done"]
    /\ outcome' = [outcome EXCEPT ![a] =
                     CASE chan[a] = "yes"     -> "accepted"
                       [] chan[a] = "no"      -> "rejected"
                       [] chan[a] = "dropped" -> "displaced"]
    /\ UNCHANGED <<pending, autoAccept, chan, uiVars>>

\* Mutant: the timer wins over an answer that is already there.
TimerBeatsAnswer(a) ==
    /\ phase[a] = "waiting"
    /\ phase' = [phase EXCEPT ![a] = "expired"]
    /\ chan' = [chan EXCEPT ![a] = "closed"]
    /\ UNCHANGED <<pending, autoAccept, outcome, uiVars>>

\* 120 s passed.  tokio's timeout polls the receiver first, so an answer that
\* is already there wins; otherwise the receiver is dropped here, before the
\* slot is locked again.
TimerFires(a) ==
    /\ phase[a] = "waiting"
    /\ chan[a] = "open"
    /\ phase' = [phase EXCEPT ![a] = "expired"]
    /\ chan' = [chan EXCEPT ![a] = "closed"]
    /\ UNCHANGED <<pending, autoAccept, outcome, uiVars>>

\* Mutant: a timed-out request leaves its prompt in the slot.
TimeoutLeavesPrompt(a) ==
    /\ phase[a] = "expired"
    /\ phase' = [phase EXCEPT ![a] = "done"]
    /\ outcome' = [outcome EXCEPT ![a] = "timeout"]
    /\ UNCHANGED <<pending, chan, autoAccept, uiVars>>

\* pending.lock().await.take(): whatever prompt is there by now.
TakeAfterTimeout(a) ==
    /\ phase[a] = "expired"
    /\ phase' = [phase EXCEPT ![a] = "done"]
    /\ outcome' = [outcome EXCEPT ![a] = "timeout"]
    /\ chan' = DropSender(chan, pending)
    /\ pending' = NoAsk
    /\ UNCHANGED <<autoAccept, uiVars>>

-----------------------------------------------------------------------------
(* The UI thread and the tasks it starts *)

\* PollIncomingTransfer, every 250 ms: peek() locks the slot and copies it.
Peek(p) ==
    /\ peeked[p] = Idle
    /\ peeked' = [peeked EXCEPT ![p] = pending]
    /\ UNCHANGED <<autoAccept, gateVars, shown, click>>

\* Mutant: an empty peek result is ignored.
UpdateOnlyWhenSome(p) ==
    /\ peeked[p] # Idle
    /\ shown' = IF peeked[p] = NoAsk THEN shown ELSE peeked[p]
    /\ peeked' = [peeked EXCEPT ![p] = Idle]
    /\ UNCHANGED <<autoAccept, gateVars, click>>

UpdatePendingIncoming(p) ==
    /\ peeked[p] # Idle
    /\ shown' = peeked[p]
    /\ peeked' = [peeked EXCEPT ![p] = Idle]
    /\ UNCHANGED <<autoAccept, gateVars, click>>

\* Accept/RejectIncomingTransfer: the dialog closes and a task will respond.
UserAnswers(k, accept) ==
    /\ shown # NoAsk
    /\ click[k].state = "unused"
    /\ click' = [click EXCEPT ![k] = [state |-> "queued", accept |-> accept,
                                      about |-> shown, hit |-> NoAsk]]
    /\ shown' = NoAsk
    /\ UNCHANGED <<autoAccept, gateVars, peeked>>

\* respond(): take the slot and send; a send to a closed channel is lost.
Respond(k) ==
    /\ click[k].state = "queued"
    /\ click' = [click EXCEPT ![k].state = "spent", ![k].hit = pending]
    /\ chan' = [a \in Asks |->
                  IF a = pending /\ chan[a] = "open"
                  THEN IF click[k].accept THEN "yes" ELSE "no"
                  ELSE chan[a]]
    /\ pending' = NoAsk
    /\ UNCHANGED <<autoAccept, phase, outcome, shown, peeked>>

-----------------------------------------------------------------------------

AskStep(a) ==
    \/ WaitForDecision(a)
    \/ InstallPrompt(a)
    \/ Wake(a)
    \/ TimerFires(a)
    \/ TakeAfterTimeout(a)

Next ==
    \/ \E v \in BOOLEAN : SetAutoAccept(v)
    \/ \E a \in Asks : AskStep(a)
    \/ \E p \in Pollers : Peek(p) \/ UpdatePendingIncoming(p)
    \/ \E k \in Clicks, b \in BOOLEAN : UserAnswers(k, b)
    \/ \E k \in Clicks : Respond(k)

Spec == Init /\ [][Next]_vars

(* The runtime polls every ready task, the 120 s timer and the 250 ms poll *)
(* timer fire; nothing makes a request arrive or the user answer.          *)
Fairness ==
    /\ \A a \in Asks : /\ WF_vars(InstallPrompt(a))
                       /\ WF_vars(Wake(a))
                       /\ WF_vars(TimerFires(a))
                       /\ WF_vars(TakeAfterTimeout(a))
    /\ \A p \in Pollers : /\ WF_vars(Peek(p))
                          /\ WF_vars(UpdatePendingIncoming(p))
    /\ \A k \in Clicks : WF_vars(Respond(k))

FairSpec == Spec /\ Fairness

-----------------------------------------------------------------------------
(* Properties *)

Open(a) == chan[a] = "open"

(* A task asleep on a live channel has its prompt in the slot, where an    *)
(* answer can reach it, and the slot never holds the prompt of a request   *)
(* that has returned: replacing, answering and two kinds of timeout all    *)
(* keep the slot and the sleeping tasks in step                            *)
(* (incoming_transfer.rs, wait_for_decision and respond).                  *)
NoOrphanPrompt ==
    /\ \A a \in Asks : Open(a) => pending = a /\ phase[a] = "waiting"
    /\ \A a \in Asks : pending = a => Open(a) \/ phase[a] = "expired"

(* An answer goes to the ask whose dialog the user clicked on as long as   *)
(* that ask can still be answered; it can reach another one only after     *)
(* its own was answered, replaced or timed out (ui/mod.rs, Accept- and     *)
(* RejectIncomingTransfer; respond does not name the ask it answers).      *)
AnswerReachesItsAsk ==
    \A k \in Clicks :
        click[k].state = "spent" /\ click[k].hit # click[k].about
            => ~Open(click[k].about)

(* Every /Ask handler that starts waiting returns, whatever the user does  *)
(* and however its prompt is pushed out of the slot.                       *)
EveryAskReturns ==
    \A a \in Asks : phase[a] # "idle" ~> phase[a] = "done"

(* A dialog for a request that is over does not stay on screen: once all   *)
(* requests have returned the polls clear it for good, even when two peek  *)
(* results reach the UI thread out of order.                               *)
DialogClears ==
    <>[](\A a \in Asks : phase[a] \in {"idle", "done"}) => <>[](shown = NoAsk)

-----------------------------------------------------------------------------
(* The abstract gate this implements *)

Verdict(a) ==
    IF phase[a] = "idle" THEN "unasked"
    ELSE IF phase[a] = "unheard" \/ chan[a] = "open" THEN "open"
    ELSE IF outcome[a] = "auto" \/ chan[a] = "yes" THEN "granted"
    ELSE "refused"

Gate == INSTANCE AskGate WITH
    verdict  <- [a \in Asks |-> Verdict(a)],
    consents <- {k \in Clicks : click[k].state = "queued" /\ click[k].accept},
    auto     <- autoAccept

(* The slot, the channels and the timers implement the abstract gate: no   *)
(* ask is granted without auto-accept or an unspent "Accept", one "Accept" *)
(* grants at most one ask, and no verdict is ever revised.                 *)
ImplementsGate == Gate!Spec

=============================================================================
