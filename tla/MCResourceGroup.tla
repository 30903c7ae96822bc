--------------------------- MODULE MCResourceGroup ---------------------------
(***************************************************************************)
(* ResourceGroup for TLC.  Two resources of one device type, the second of *)
(* a newer version, so that a search for version 1 finds both and a search *)
(* for version 2 only the second.                                          *)
(***************************************************************************)
EXTENDS ResourceGroup

MCTargets == {[type |-> "device", version |-> v] : v \in 1..2}

MCTargetOf == [r \in Ids |-> [type |-> "device",
                              version |-> IF r = 1 THEN 1 ELSE 2]]

=============================================================================
