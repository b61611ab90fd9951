------------------------------ MODULE MCHelpers -------------------------------
(***************************************************************************)
(* One instance for TLC of the parts that share no state with each other:  *)
(* Queries, Dispatch, Codecs and Counters.  A behaviour runs one of them,  *)
(* so that TLC adds up their states and does not multiply them.            *)
(***************************************************************************)
EXTENDS Queries, Dispatch, Codecs, Counters

CONSTANTS a, b,    \* threads, requests and waiters
          i, j     \* inodes

VARIABLE part

IoInodes == [e \in IoEnds |-> IF e = a THEN i ELSE j]
WaitInodes == [w \in Waiters |-> IF w = a THEN i ELSE j]
AllFeatures == SUBSET {"encrypt", "verity"}
UnknownNames == {"UNKNOWN"}

(* Lengths near the boundaries of the blocks and of 16 bits.               *)
BoundaryLens ==
  BlockSizes \cup
  {4 * k : k \in UNION {3 .. 8, 16380 .. 16390, 32764 .. 32770, 49148 .. 49154,
                        65530 .. 65535}}

partVars == <<part, fsmapVars, fieldVars, dispatchVars, sample, lockVars, ioVars, sizeVars>>

Init ==
  /\ part \in {"fsmap", "field", "dispatch", "codecs", "lock", "io", "size"}
  /\ FsmapInit /\ FieldInit /\ DispatchInit /\ CodecsInit
  /\ LockInit /\ IoInit /\ SizeInit

Runs(name) ==
  /\ part = name
  /\ UNCHANGED part
  /\ name # "fsmap" => UNCHANGED fsmapVars
  /\ name # "field" => UNCHANGED fieldVars
  /\ name # "dispatch" => UNCHANGED dispatchVars
  /\ name # "codecs" => UNCHANGED sample
  /\ name # "lock" => UNCHANGED lockVars
  /\ name # "io" => UNCHANGED ioVars
  /\ name # "size" => UNCHANGED sizeVars

Next ==
  \/ Runs("fsmap") /\ FsmapNext
  \/ Runs("field") /\ FieldNext
  \/ Runs("dispatch") /\ DispatchNext
  \/ Runs("codecs") /\ CodecsNext
  \/ Runs("lock") /\ LockNext
  \/ Runs("io") /\ IoNext
  \/ Runs("size") /\ SizeNext

Spec == Init /\ [][Next]_partVars
=============================================================================
