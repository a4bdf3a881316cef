-------------------------- MODULE MCIncomingTransfer --------------------------
(***************************************************************************)
(* IncomingTransfer on a small instance: two requests compete for the slot *)
(* and for the timeouts, two peek results can overtake each other, and the *)
(* user answers twice.                                                     *)
(***************************************************************************)
EXTENDS IncomingTransfer

=============================================================================
