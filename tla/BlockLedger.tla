---------------------------- MODULE BlockLedger ----------------------------
(***************************************************************************)
(* What the block-bit flip promises (notes.txt:1): the block bitmap of a   *)
(* group, the free count of its descriptor and the free count of the       *)
(* superblock change together, and a crash brings back the whole state of  *)
(* some earlier journal commit.  The abstract specification that EvfsFlip  *)
(* implements.                                                             *)
(***************************************************************************)
EXTENDS Integers, FiniteSets

CONSTANTS Groups,   \* block groups
          Offsets   \* bit offsets of a group's bitmap

VARIABLES bits,     \* bits[g]: the offsets whose bit is set
          free,     \* free[g]: the free count of group g
          total,    \* the file system's free count
          disk      \* the state of the last commit: [bits, free] per group

vars == <<bits, free, total, disk>>

ClearBits(b) == [g \in Groups |-> Cardinality(Offsets \ b[g])]
AllClear(b) == Cardinality({p \in Groups \X Offsets : p[2] \notin b[p[1]]})

Init == /\ bits \in [Groups -> SUBSET Offsets]
        /\ free = ClearBits(bits)
        /\ total = AllClear(bits)
        /\ disk = [bits |-> bits, free |-> free]

Clear(g, o) == /\ o \in bits[g]
               /\ bits' = [bits EXCEPT ![g] = @ \ {o}]
               /\ free' = [free EXCEPT ![g] = @ + 1]
               /\ total' = total + 1
               /\ UNCHANGED disk

Set(g, o) == /\ o \notin bits[g]
             /\ bits' = [bits EXCEPT ![g] = @ \cup {o}]
             /\ free' = [free EXCEPT ![g] = @ - 1]
             /\ total' = total - 1
             /\ UNCHANGED disk

Commit == /\ disk' = [bits |-> bits, free |-> free]
          /\ UNCHANGED <<bits, free, total>>

Crash == /\ bits' = disk.bits
         /\ free' = disk.free
         /\ total' = AllClear(disk.bits)
         /\ UNCHANGED disk

Next == \/ \E g \in Groups, o \in Offsets : Clear(g, o) \/ Set(g, o)
        \/ Commit
        \/ Crash

Spec == Init /\ [][Next]_vars

=============================================================================
