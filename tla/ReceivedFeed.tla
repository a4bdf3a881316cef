----------------------------- MODULE ReceivedFeed -----------------------------
(***************************************************************************)
(* The "file received" feed: the tokio broadcast channel created in lib.rs *)
(* and drained by the UI thread in PollReceived (ui/mod.rs).  The channel  *)
(* keeps the last Capacity paths; a receiver that falls further behind is  *)
(* told so once (Lagged) and continues at the oldest path still kept.  The *)
(* UI's loop stops at that error and goes on at the next poll.             *)
(*                                                                         *)
(* The loop never yields, so one poll is one step: a path sent meanwhile   *)
(* is as good as sent just before or just after it.                        *)
(***************************************************************************)
EXTENDS Naturals, Sequences

CONSTANT Capacity  \* broadcast::channel(16); smaller in the model

ASSUME CapacityAssumption == Capacity \in Nat \ {0}

VARIABLES
    sent,     \* every path sent so far, in order; the ring is its tail
    cursor,   \* how many of them the receiver has passed
    shown,    \* positions in sent whose file the UI has announced
    backlog   \* the largest backlog there has been (history)

feedVars == <<sent, cursor, shown, backlog>>

Larger(m, n) == IF m >= n THEN m ELSE n

FeedTypeOK(Paths) ==
    /\ sent \in Seq(Paths)
    /\ cursor \in 0 .. Len(sent)
    /\ shown \in SUBSET (1 .. cursor)
    /\ backlog \in Nat

FeedInit ==
    /\ sent = <<>>
    /\ cursor = 0
    /\ shown = {}
    /\ backlog = 0

\* received_tx.send(path): never blocks, never fails the transfer.
Send(path) ==
    /\ sent' = Append(sent, path)
    /\ backlog' = Larger(backlog, Len(sent) + 1 - cursor)
    /\ UNCHANGED <<cursor, shown>>

Behind == Len(sent) - cursor

\* Mutant: one path per poll is kept, the last.
DrainKeepsLast ==
    /\ Behind \in 1 .. Capacity
    /\ cursor' = Len(sent)
    /\ shown' = shown \cup {Len(sent)}
    /\ UNCHANGED <<sent, backlog>>

\* while let Ok(path) = rx.try_recv(): all paths are still in the ring.
Drain ==
    /\ Behind \in 1 .. Capacity
    /\ cursor' = Len(sent)
    /\ shown' = shown \cup (cursor + 1 .. Len(sent))
    /\ UNCHANGED <<sent, backlog>>

\* Mutant: a receiver that lags starts over at the newest path.
SkipToNewest ==
    /\ Behind > Capacity
    /\ cursor' = Len(sent)
    /\ UNCHANGED <<sent, shown, backlog>>

\* try_recv() returns Lagged: the loop ends at once, the oldest paths are gone.
Skip ==
    /\ Behind > Capacity
    /\ cursor' = Len(sent) - Capacity
    /\ UNCHANGED <<sent, shown, backlog>>

PollReceived == Drain \/ Skip

\* The 500 ms timer keeps polling.
FeedFairness == WF_feedVars(PollReceived)

-----------------------------------------------------------------------------

(* A UI that never falls more than Capacity files behind misses none: all  *)
(* it has passed it has shown, one by one (PollReceived).                  *)
NothingLostWithinCapacity == backlog <= Capacity => shown = 1 .. cursor

(* A burst that overflows the ring costs its oldest paths only: once        *)
(* transfers stop, the last file received has been shown and stays shown.  *)
NewestIsShown == <>[](sent # <<>> => Len(sent) \in shown)

=============================================================================
