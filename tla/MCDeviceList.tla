----------------------------- MODULE MCDeviceList ----------------------------
(***************************************************************************)
(* A receiver that can be at two addresses, and an anonymous iPhone near.  *)
(***************************************************************************)
EXTENDS DeviceList

MCAd(n, a) == [full |-> NameOf("e3f1", {}), service |-> "AirDrop", txtName |-> None, addr |-> a,
               port |-> 8770, txt |-> [model |-> "mac"]]
MCAdOf == [e \in Names \X Addrs |-> MCAd(e[1], e[2])]
MCNameAt == [n \in Names |-> NameOf("studio", {})]
MCAdvOf == [b \in Beacons |->
    [name |-> NoName, apple |-> <<16>>, makers |-> {}, fastPair |-> FALSE, payload |-> FALSE,
     phoneClass |-> FALSE]]
MCReadings == {-61, -59}
MCBudgets == {[services |-> 3, beacons |-> 0], [services |-> 0, beacons |-> 3]}

=============================================================================
