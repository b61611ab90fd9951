------------------------------- MODULE MCIoctls -------------------------------
(***************************************************************************)
(* An instance of Ioctls for TLC: every pair of calls, and the triples in  *)
(* which a third call comes between two that exclude or wait for another.  *)
(***************************************************************************)
EXTENDS Ioctls

CONSTANTS t1, t2, t3

Makes(a, b, c) ==
  [t \in Threads |-> CASE t = t1 -> a [] t = t2 -> b [] OTHER -> c]

Triples ==
  {Makes("RESIZE_FS", "SHUTDOWN_DEFAULT", "FLIP_BLOCK_BIT"),
   Makes("RESIZE_FS", "GROUP_ADD", "ALLOC_DA_BLKS"),
   Makes("GROUP_ADD", "SETFSLABEL", "SHUTDOWN_LOGFLUSH"),
   Makes("ALLOC_DA_BLKS", "CHECKPOINT", "SHUTDOWN_DEFAULT"),
   Makes("MIGRATE", "SHUTDOWN_LOGFLUSH", "SHUTDOWN_NOLOGFLUSH")}

CallList ==
  <<"GROUP_EXTEND", "GROUP_ADD", "RESIZE_FS", "SETFSLABEL", "MOVE_EXT", "MIGRATE",
    "ALLOC_DA_BLKS", "FLIP_BLOCK_BIT", "CHECKPOINT", "CHECKPOINT_DRY_RUN",
    "SHUTDOWN_DEFAULT", "SHUTDOWN_LOGFLUSH", "SHUTDOWN_NOLOGFLUSH">>
Pairs == {jk \in (DOMAIN CallList) \X (DOMAIN CallList) : jk[1] <= jk[2]}

PairsAndTriples ==
  {Makes(CallList[jk[1]], CallList[jk[2]], "none") : jk \in Pairs} \cup Triples
=============================================================================
