--------------------------- MODULE MCBootLoaderSwap ---------------------------
(* Instances of BootLoaderSwap for TLC.                                    *)
EXTENDS BootLoaderSwap

CONSTANTS t1, f1, f2, g1

OneThread == {t1}
TwoFiles == {f1, f2}
OneGeneration == {g1}
Sizes == [f \in Files |-> IF f = f1 THEN 2 ELSE 1]
AnyFault == FaultKinds
=============================================================================
