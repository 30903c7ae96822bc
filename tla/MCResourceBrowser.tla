-------------------------- MODULE MCResourceBrowser --------------------------
(***************************************************************************)
(* ResourceBrowser for TLC.  One device announces its type in two versions *)
(* and, like a second device, its uuid alone.  The location lists conflict *)
(* or extend one another.                                                  *)
(***************************************************************************)
EXTENDS ResourceBrowser

Usn(uuid, type, ver) == [uuid |-> uuid, type |-> type, ver |-> ver]

MCUsns == {Usn("u1", "device", 1), Usn("u1", "device", 2),
           Usn("u1", "uuid", 0), Usn("u2", "uuid", 0)}

MCLocations == {<<"a">>, <<"b">>, <<"a", "c">>}

Device(ver) == [type |-> "device", ver |-> ver]

All == [type |-> "all", ver |-> 0]

MCTargets == {Device(1), Device(2), All}

\* One device in two versions, and the uuid of another.
FewUsns == {Usn("u1", "device", 1), Usn("u1", "device", 2),
            Usn("u2", "device", 1)}

FewTargets == {Device(1)}

FewLocations == {<<"a">>, <<"b">>}

\* For the version a target leaves behind.
RetargetTargets == {Device(2), [type |-> "device", ver |-> 0]}

=============================================================================
