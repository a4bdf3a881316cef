------------------------------- MODULE AskGate -------------------------------
(***************************************************************************)
(* What the incoming-transfer prompt promises to the /Ask handler and to   *)
(* the user, without the slot, the channels and the timers that implement  *)
(* it: an ask is granted because receiving was automatic when it arrived,  *)
(* or by spending one "Accept" of the user; one "Accept" grants at most    *)
(* one ask; a verdict is final.                                            *)
(***************************************************************************)
CONSTANTS Asks,     \* the /Ask requests of a behaviour
          Clicks    \* the answers the user gives in a behaviour

VARIABLES verdict,  \* what the gate has said about each ask
          consents, \* the user's "Accept" clicks that are not spent yet
          auto      \* accept without asking

vars == <<verdict, consents, auto>>

TypeOK ==
    /\ verdict \in [Asks -> {"unasked", "open", "granted", "refused"}]
    /\ consents \in SUBSET Clicks
    /\ auto \in BOOLEAN

Init ==
    /\ verdict = [a \in Asks |-> "unasked"]
    /\ consents = {}
    /\ auto \in BOOLEAN

SetAuto(v) ==
    /\ auto' = v
    /\ UNCHANGED <<verdict, consents>>

\* A request arrives: granted at once under auto-accept, open otherwise.
Ask(a) ==
    /\ verdict[a] = "unasked"
    /\ verdict' = [verdict EXCEPT ![a] = IF auto THEN "granted" ELSE "open"]
    /\ UNCHANGED <<consents, auto>>

Consent(k) ==
    /\ consents' = consents \cup {k}
    /\ UNCHANGED <<verdict, auto>>

Grant(a, k) ==
    /\ verdict[a] = "open"
    /\ k \in consents
    /\ verdict' = [verdict EXCEPT ![a] = "granted"]
    /\ consents' = consents \ {k}
    /\ UNCHANGED auto

\* A consent that found no open ask to grant.
Waste(k) ==
    /\ consents' = consents \ {k}
    /\ UNCHANGED <<verdict, auto>>

\* Refusing needs nobody's leave: a "Reject", a timeout or a newer prompt.
Refuse(a) ==
    /\ verdict[a] = "open"
    /\ verdict' = [verdict EXCEPT ![a] = "refused"]
    /\ UNCHANGED <<consents, auto>>

Next ==
    \/ \E v \in BOOLEAN : SetAuto(v)
    \/ \E a \in Asks : Ask(a) \/ Refuse(a)
    \/ \E k \in Clicks : Consent(k) \/ Waste(k)
    \/ \E a \in Asks, k \in Clicks : Grant(a, k)

Spec == Init /\ [][Next]_vars

=============================================================================
