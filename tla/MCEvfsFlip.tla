---- MODULE MCEvfsFlip ----
(***************************************************************************)
(* Instances of EvfsFlip for TLC.  Block numbers start at 1, as with 1 KiB *)
(* blocks.                                                                 *)
(***************************************************************************)
EXTENDS EvfsFlip, TLC

CONSTANTS t1, t2

(* Two groups of two blocks: t1 flips a bit of the first group, t2 a bit   *)
(* of the second and a bit of a group that does not exist.                 *)
OwnGroups == (t1 :> {2}) @@ (t2 :> {3, 5})

(* Both threads flip bits of one group.                                    *)
OneGroup == (t1 :> {1}) @@ (t2 :> {2})

(* The last bit of the last group is padding when there are three blocks.  *)
Padding == t1 :> {4}

(* Of the states the disk may be in at first, those with the first block   *)
(* of the first group in use, to halve the state space of the fair runs.   *)
MCInit == Init /\ 0 \in bitmap[0]
MCFairSpec == MCInit /\ [][Next]_vars /\ Fairness
====
