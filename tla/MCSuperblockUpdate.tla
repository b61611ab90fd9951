-------------------------- MODULE MCSuperblockUpdate --------------------------
(* Instances of SuperblockUpdate for TLC.                                  *)
EXTENDS SuperblockUpdate

CONSTANTS u1, u2, r1, v1, v2

Two == {u1, u2}
One == {u1}
Resizer == {r1}
NoThreads == {}
TwoValues == {v1, v2}
Label == {"label"}
Both == {"label", "uuid"}
Four == <<0, 1, 2, 3>>
All == 0 .. 3
AnyFault == FaultKinds
GrowFault == {"grow"}
Second == {1}
SecondThird == {1, 2}
=============================================================================
