----------------------------- MODULE InodeExchange -----------------------------
(***************************************************************************)
(* What EXT4_IOC_SWAP_BOOT promises: the contents of a file and of the     *)
(* boot loader inode change places in one step or not at all, and a crash  *)
(* goes back to one of the states between such steps.                      *)
(***************************************************************************)
CONSTANTS Files, Boot, First

VARIABLES content, saved

Init ==
  /\ content = [n \in Files \cup {Boot} |-> IF n = Boot THEN First ELSE n]
  /\ saved = content

Exchange(f) ==
  /\ content' = [content EXCEPT ![f] = content[Boot], ![Boot] = content[f]]
  /\ UNCHANGED saved

Save  == saved' = content /\ UNCHANGED content
Crash == content' = saved /\ UNCHANGED saved

Next == (\E f \in Files : Exchange(f)) \/ Save \/ Crash

Spec == Init /\ [][Next]_<<content, saved>>
=============================================================================
