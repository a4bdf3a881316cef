------------------------------- MODULE MCAwdl --------------------------------
(***************************************************************************)
(* Two machines; one of the managers can build a second daemon.  Both are  *)
(* created with the name AwdlManagerConfig::default() has, as lib.rs:59    *)
(* creates every manager; only update_config gives one the other name.     *)
(* The MACs stand for the hash of the names.  Daemons are stopped twice    *)
(* only where no foreign frame comes and no configuration changes.         *)
(***************************************************************************)
EXTENDS Awdl

DefaultName == <<65>>
OtherName == <<66, 66>>
MCNames == {DefaultName, OtherName}
MCMacOf == [n \in MCNames |-> <<2, 0, 0, 0, 0, Len(n)>>]
MCConfigName == [h \in Hosts |-> DefaultName]
MCIpv4Of == [d \in Daemons |-> <<192, 168, 1, 10>>]
MCPayload == <<69, 0, 0, 20, 0, 0, 0, 0>>

Undisturbed == foreign' = 0 /\ configs' = 0

MCNext == Next /\ (Undisturbed \/ \A d \in Daemons : shutdown'[d].version <= 1)

MCSpec == Init /\ [][MCNext]_vars /\ Fairness

=============================================================================
