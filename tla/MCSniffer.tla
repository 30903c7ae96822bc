------------------------------ MODULE MCSniffer ------------------------------
(* A device with two USNs, one of which says its type, and another device. *)
EXTENDS Sniffer

MCUsns == {[uuid |-> "u1", type |-> "rootdevice", ver |-> 0],
           [uuid |-> "u1", type |-> "device:A", ver |-> 1],
           [uuid |-> "u2", type |-> "device:A", ver |-> 1]}

MCDeviceTypes == {"device:A"}

MCLocations == {<<"here">>, <<"there">>}

=============================================================================
