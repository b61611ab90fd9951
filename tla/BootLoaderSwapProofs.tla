------------------------- MODULE BootLoaderSwapProofs -------------------------
(***************************************************************************)
(* EXT4_IOC_SWAP_BOOT for any number of threads, files and blocks: the     *)
(* locks, the page cache, the contents after every failure and every       *)
(* crash, and the exchange that the steps implement.                       *)
(***************************************************************************)
EXTENDS BootLoaderSwap, FiniteSetTheorems, FunctionTheorems, TLAPS

PCs ==
  {"idle", "check", "invalidate", "flush", "wait", "start", "init", "dquot",
   "swap", "markfile", "remark", "markboot", "quota", "revert", "done", "stop",
   "uninval", "unlock"}
Images == [content : Contents, blocks : Int, generation : Generations]

TypeOK ==
  /\ content \in [Inodes -> Contents] /\ blocks \in [Inodes -> Int]
  /\ generation \in [Inodes -> Generations] /\ quota \in Int
  /\ marked \subseteq Inodes /\ aborted \in BOOLEAN
  /\ txn \in [Inodes -> Images] /\ disk \in [inode : [Inodes -> Images], quota : Int]
  /\ pc \in [Threads -> PCs] /\ file \in [Threads -> Files]
  /\ lock \in [Inodes -> Threads \cup {Nobody}]
  /\ inval \in [Files -> Threads \cup {Nobody}]
  /\ handle \in [Threads -> BOOLEAN]
  /\ diff \in [Threads -> Int] /\ saved \in [Threads -> Int]
  /\ dirtyPages \subseteq Files /\ dio \subseteq Files
  /\ pages \in [Files -> Contents \cup {NoPages}]

LEMMA SomeFile == AnyFile \in Files
BY InodesAssumption DEF AnyFile

LEMMA BootIsInode == Boot \in Inodes /\ Boot \notin Files /\ \A f \in Files : f \in Inodes
BY InodesAssumption DEF Inodes

LEMMA WeightInt == \A c : Weight(c) \in Int
BY InodesAssumption DEF Weight

LEMMA ImageType ==
  ASSUME TypeOK, NEW n \in Inodes
  PROVE  Image(n) \in Images
BY DEF TypeOK, Image, Images

(* The space the contents take is a number.                                *)
LEMMA AllUnits == Cardinality(Units(Blocks)) \in Nat
<1> DEFINE Of(f) == {f} \X (0 .. Blocks[f] - 1)
           All == {Of(f) : f \in Files}
           each == [f \in Files |-> Of(f)]
<1>1. ASSUME NEW f \in Files
      PROVE  IsFiniteSet(Of(f))
  <2>1. Blocks[f] - 1 \in Int
    BY InodesAssumption
  <2>2. IsFiniteSet(0 .. Blocks[f] - 1)
    BY <2>1, FS_Interval
  <2>3. IsFiniteSet({f})
    BY FS_Singleton
  <2> QED
    BY <2>2, <2>3, FS_Product
<1>2. each \in Surjection(Files, All)
  BY Fun_IsSurj
<1>3. IsFiniteSet(All)
  <2> HIDE DEF All, each
  <2> QED
    BY <1>2, FS_Surjection, InodesAssumption
<1>4. IsFiniteSet(UNION All)
  <2>1. \A T \in All : IsFiniteSet(T)
    BY <1>1
  <2> HIDE DEF All
  <2> QED
    BY <1>3, <2>1, FS_UNION
<1> QED
  BY <1>4, FS_CardinalityType DEF Units

LEMMA InitUnits == Init => quota = Cardinality(Units(Blocks))
<1> SUFFICES ASSUME Init
             PROVE  Units(blocks) = Units(Blocks)
  BY DEF Init
<1>1. \A f \in Files : blocks[f] = Blocks[f]
  BY InodesAssumption DEF Init, Weight, Inodes
<1> QED
  BY <1>1 DEF Units

-----------------------------------------------------------------------------
(* The locks.                                                              *)
LocksInv == TypeOK /\ Released

LEMMA InitLocks == Init => LocksInv
<1> SUFFICES ASSUME Init
             PROVE  LocksInv
  OBVIOUS
<1>1. content \in [Inodes -> Contents]
  BY InodesAssumption DEF Init, Inodes, Contents
<1>2. blocks \in [Inodes -> Int] /\ generation \in [Inodes -> Generations]
  BY WeightInt DEF Init
<1>3. quota \in Int
  BY InitUnits, AllUnits
<1>4. txn \in [Inodes -> Images] /\ disk \in [inode : [Inodes -> Images], quota : Int]
  BY <1>1, <1>2, <1>3 DEF Init, Image, Images
<1>5. /\ pc \in [Threads -> PCs] /\ file \in [Threads -> Files]
      /\ handle \in [Threads -> BOOLEAN]
      /\ diff \in [Threads -> Int] /\ saved \in [Threads -> Int]
  BY SomeFile DEF Init, PCs
<1>6. /\ lock \in [Inodes -> Threads \cup {Nobody}]
      /\ inval \in [Files -> Threads \cup {Nobody}]
      /\ marked \subseteq Inodes /\ aborted \in BOOLEAN
      /\ dirtyPages \subseteq Files /\ dio \subseteq Files
      /\ pages \in [Files -> Contents \cup {NoPages}]
  BY DEF Init
<1>7. TypeOK
  BY <1>1, <1>2, <1>3, <1>4, <1>5, <1>6 DEF TypeOK
<1>8. Released
  BY InodesAssumption DEF Init, Released, Inodes
<1> QED
  BY <1>7, <1>8 DEF LocksInv

(* No step breaks the types.                                               *)
LEMMA GotoType ==
  ASSUME TypeOK, NEW t \in Threads, NEW from, NEW to \in PCs, Goto(t, from, to)
  PROVE  pc' \in [Threads -> PCs]
BY DEF TypeOK, Goto

LEMMA MarkType ==
  ASSUME TypeOK, NEW n \in Inodes, MarkAgain(n), content' \in [Inodes -> Contents],
         blocks' \in [Inodes -> Int], generation' \in [Inodes -> Generations]
  PROVE  txn' \in [Inodes -> Images] /\ marked' \subseteq Inodes
<1>1. Image(n)' \in Images
  BY DEF Image, Images
<1> QED
  BY <1>1 DEF TypeOK, MarkAgain, Mark

LEMMA ExchangedType ==
  ASSUME TypeOK, NEW f \in Files
  PROVE  Exchanged(f) \in [Inodes -> Contents]
BY BootIsInode DEF TypeOK, Exchanged

(* No step breaks the types.                                               *)
LEMMA NextTypes == TypeOK /\ [Next]_vars => TypeOK'
<1> SUFFICES ASSUME TypeOK, [Next]_vars
             PROVE  TypeOK'
  OBVIOUS
<1> USE DEF TypeOK
<1>1. ASSUME NEW t \in Threads, LockBoth(t)
      PROVE  TypeOK'
  <2>1. pc' \in [Threads -> PCs]
    BY <1>1, GotoType DEF LockBoth, PCs
  <2>2. /\ lock' \in [Inodes -> Threads \cup {Nobody}]
        /\ file' \in [Threads -> Files]
    BY <1>1, BootIsInode DEF LockBoth
  <2> QED
    BY <1>1, <2>1, <2>2 DEF LockBoth, inodes, journal, cache
<1>2. ASSUME NEW t \in Threads, Check(t)
      PROVE  TypeOK'
  BY <1>2 DEF Check, Goto, PCs, inodes, journal, cache, locals
<1>3. ASSUME NEW t \in Threads, TakeInval(t)
      PROVE  TypeOK'
  BY <1>3 DEF TakeInval, Goto, PCs, inodes, journal, cache, locals
<1>4. ASSUME NEW t \in Threads, Flush(t)
      PROVE  TypeOK'
  BY <1>4 DEF Flush, FlushFile, Goto, PCs, inodes, journal, cache, locals
<1>5. ASSUME NEW t \in Threads, WaitAndDrop(t)
      PROVE  TypeOK'
  BY <1>5 DEF WaitAndDrop, Goto, PCs, inodes, journal, cache, locals
<1>6. ASSUME NEW t \in Threads, StartHandle(t)
      PROVE  TypeOK'
  BY <1>6 DEF StartHandle, Goto, PCs, inodes, journal, cache, locals
<1>7. ASSUME NEW t \in Threads, InitBoot(t)
      PROVE  TypeOK'
  <2>1. pc' \in [Threads -> PCs]
    BY <1>7, GotoType DEF InitBoot, PCs
  <2>2. content' \in [Inodes -> Contents]
    BY <1>7 DEF InitBoot, Contents
  <2> QED
    BY <1>7, <2>1, <2>2 DEF InitBoot, journal, cache, locals
<1>8. ASSUME NEW t \in Threads, Dquot(t)
      PROVE  TypeOK'
  <2>1. pc' \in [Threads -> PCs]
    BY <1>8, GotoType DEF Dquot, PCs
  <2>2. diff' \in [Threads -> Int]
    BY <1>8, BootIsInode DEF Dquot, Difference
  <2> QED
    BY <1>8, <2>1, <2>2 DEF Dquot, inodes, journal, cache
<1>9. ASSUME NEW t \in Threads, Swap(t)
      PROVE  TypeOK'
  BY BootIsInode, SomeFile, ImageType, <1>9 DEF Swap, Exchanged, Fresh, Goto, PCs, inodes, journal, cache, locals
<1>10. ASSUME NEW t \in Threads, MarkFile(t)
      PROVE  TypeOK'
  <2>1. pc' \in [Threads -> PCs]
    BY <1>10, GotoType DEF MarkFile, PCs
  <2>2. file[t] \in Inodes /\ (MarkAgain(file[t]) \/ UNCHANGED <<marked, txn>>)
    BY <1>10, BootIsInode DEF MarkFile, MarkAgain
  <2>3. txn' \in [Inodes -> Images] /\ marked' \subseteq Inodes
    BY <1>10, <2>2, MarkType DEF MarkFile, inodes
  <2> QED
    BY <1>10, <2>1, <2>3 DEF MarkFile, inodes, cache, locals
<1>11. ASSUME NEW t \in Threads, Remark(t)
      PROVE  TypeOK'
  <2>1. pc' \in [Threads -> PCs]
    BY <1>11, GotoType DEF Remark, PCs
  <2>2. content' \in [Inodes -> Contents] /\ file[t] \in Inodes
    BY <1>11, BootIsInode, ExchangedType DEF Remark, UndoSwap
  <2>3. txn' \in [Inodes -> Images] /\ marked' \subseteq Inodes
    BY <1>11, <2>2, MarkType DEF Remark
  <2> QED
    BY <1>11, <2>1, <2>2, <2>3 DEF Remark, cache, locals
<1>12. ASSUME NEW t \in Threads, MarkBoot(t)
      PROVE  TypeOK'
  <2>1. pc' \in [Threads -> PCs]
    BY <1>12, GotoType DEF MarkBoot, PCs
  <2>2. blocks' \in [Inodes -> Int] /\ saved' \in [Threads -> Int]
    BY <1>12, BootIsInode DEF MarkBoot
  <2>3. MarkAgain(Boot) \/ UNCHANGED <<marked, txn>>
    BY <1>12 DEF MarkBoot, SaveBoot, MarkAgain
  <2>4. txn' \in [Inodes -> Images] /\ marked' \subseteq Inodes
    BY <1>12, <2>2, <2>3, BootIsInode, MarkType DEF MarkBoot
  <2> QED
    BY <1>12, <2>1, <2>2, <2>4 DEF MarkBoot, cache
<1>13. ASSUME NEW t \in Threads, Charge(t)
      PROVE  TypeOK'
  <2>1. pc' \in [Threads -> PCs]
    BY <1>13, GotoType DEF Charge, PCs
  <2>2. blocks' \in [Inodes -> Int] /\ quota' \in Int /\ file[t] \in Inodes
    BY <1>13, BootIsInode DEF Charge, Charged
  <2>3. MarkAgain(file[t]) \/ UNCHANGED <<marked, txn>>
    BY <1>13 DEF Charge
  <2>4. txn' \in [Inodes -> Images] /\ marked' \subseteq Inodes
    BY <1>13, <2>2, <2>3, MarkType DEF Charge
  <2> QED
    BY <1>13, <2>1, <2>2, <2>4 DEF Charge, cache, locals
<1>14. ASSUME NEW t \in Threads, Revert(t)
      PROVE  TypeOK'
  <2>1. pc' \in [Threads -> PCs]
    BY <1>14, GotoType DEF Revert, PCs
  <2>2. blocks' \in [Inodes -> Int] /\ file[t] \in Inodes
    BY <1>14, BootIsInode DEF Revert
  <2>3. content' \in [Inodes -> Contents]
    BY <1>14, ExchangedType DEF Revert, UndoSwap
  <2>4. txn' \in [Inodes -> Images] /\ marked' \subseteq Inodes
    BY <1>14, <2>2, <2>3, MarkType DEF Revert
  <2> QED
    BY <1>14, <2>1, <2>2, <2>3, <2>4 DEF Revert, cache, locals
<1>15. ASSUME NEW t \in Threads, RevertBoot(t)
      PROVE  TypeOK'
  <2>1. pc' \in [Threads -> PCs]
    BY <1>15, GotoType DEF RevertBoot, PCs
  <2>2. txn' \in [Inodes -> Images] /\ marked' \subseteq Inodes
    BY <1>15, BootIsInode, MarkType DEF RevertBoot, inodes
  <2> QED
    BY <1>15, <2>1, <2>2 DEF RevertBoot, inodes, cache, locals
<1>16. ASSUME NEW t \in Threads, Stop(t)
      PROVE  TypeOK'
  BY <1>16 DEF Stop, Goto, PCs, inodes, journal, cache, locals
<1>17. ASSUME NEW t \in Threads, Uninval(t)
      PROVE  TypeOK'
  BY <1>17 DEF Uninval, DropInval, Goto, PCs, inodes, journal, cache, locals
<1>18. ASSUME NEW t \in Threads, Unlock(t)
      PROVE  TypeOK'
  BY BootIsInode, SomeFile, ImageType, <1>18 DEF Unlock, UnlockTwo, Goto, PCs, inodes, journal, cache, locals
<1>19. ASSUME NEW f \in Files, BufferedWrite(f)
      PROVE  TypeOK'
  BY BootIsInode, <1>19 DEF BufferedWrite, Touch, inodes, journal, cache, locals
<1>20. ASSUME NEW f \in Files, FaultWrite(f)
      PROVE  TypeOK'
  BY BootIsInode, <1>20 DEF FaultWrite, Touch, inodes, journal, cache, locals
<1>21. ASSUME NEW f \in Files, FaultRead(f)
      PROVE  TypeOK'
  BY BootIsInode, <1>21 DEF FaultRead, Touch, inodes, journal, cache, locals
<1>22. ASSUME NEW f \in Files, StartDio(f)
      PROVE  TypeOK'
  BY BootIsInode, <1>22 DEF StartDio, Touch, inodes, journal, cache, locals
<1>23. ASSUME NEW f \in Files, EndDio(f)
      PROVE  TypeOK'
  BY BootIsInode, <1>23 DEF EndDio, Touch, inodes, journal, cache, locals
<1>24. ASSUME NEW f \in Files, Writeback(f)
      PROVE  TypeOK'
  BY BootIsInode, <1>24 DEF Writeback, Touch, inodes, journal, cache, locals
<1>25. CASE Commit
  BY <1>25 DEF Commit, inodes, cache, locals
<1>26. CASE Abort
  BY <1>26 DEF Abort, inodes, cache, locals
<1>27. CASE Crash
  <2>1. /\ pc' \in [Threads -> PCs] /\ file' \in [Threads -> Files]
        /\ handle' \in [Threads -> BOOLEAN]
        /\ diff' \in [Threads -> Int] /\ saved' \in [Threads -> Int]
    BY <1>27, SomeFile DEF Crash, PCs
  <2>2. /\ content' \in [Inodes -> Contents] /\ blocks' \in [Inodes -> Int]
        /\ generation' \in [Inodes -> Generations] /\ quota' \in Int
        /\ txn' \in [Inodes -> Images]
    BY <1>27 DEF Crash, Images
  <2> QED
    BY <1>27, <2>1, <2>2 DEF Crash
<1>28. CASE UNCHANGED vars
  BY <1>28 DEF vars, inodes, journal, cache, locals
<1> QED
  BY <1>1, <1>2, <1>3, <1>4, <1>5, <1>6, <1>7, <1>8, <1>9, <1>10, <1>11,
     <1>12, <1>13, <1>14, <1>15, <1>16, <1>17, <1>18, <1>19, <1>20, <1>21,
     <1>22, <1>23, <1>24, <1>25, <1>26, <1>27, <1>28
     DEF Next, Running, Users

(* Nor the discipline of the locks.                                        *)
LEMMA NextReleased == LocksInv /\ [Next]_vars => Released'
<1> SUFFICES ASSUME LocksInv, [Next]_vars
             PROVE  Released'
  OBVIOUS
<1> USE BootIsInode, InodesAssumption DEF LocksInv, TypeOK, Released
<1>1. ASSUME NEW t \in Threads, LockBoth(t)
      PROVE  Released'
  BY <1>1 DEF LockBoth, Goto, locals
<1>2. ASSUME NEW t \in Threads, Check(t)
      PROVE  Released'
  BY <1>2 DEF Check, Goto, locals
<1>3. ASSUME NEW t \in Threads, TakeInval(t)
      PROVE  Released'
  BY <1>3 DEF TakeInval, Goto, locals
<1>4. ASSUME NEW t \in Threads, Flush(t)
      PROVE  Released'
  BY <1>4 DEF Flush, Goto, locals
<1>5. ASSUME NEW t \in Threads, WaitAndDrop(t)
      PROVE  Released'
  BY <1>5 DEF WaitAndDrop, Goto, locals
<1>6. ASSUME NEW t \in Threads, StartHandle(t)
      PROVE  Released'
  <2>1. CASE Goto(t, "start", "init") /\ handle' = [handle EXCEPT ![t] = TRUE]
    BY <1>6, <2>1 DEF StartHandle, Goto, locals
  <2>2. CASE Goto(t, "start", "uninval") /\ UNCHANGED handle
    BY <1>6, <2>2 DEF StartHandle, Goto, locals
  <2> QED
    BY <1>6, <2>1, <2>2 DEF StartHandle
<1>7. ASSUME NEW t \in Threads, InitBoot(t)
      PROVE  Released'
  BY <1>7 DEF InitBoot, Goto, locals
<1>8. ASSUME NEW t \in Threads, Dquot(t)
      PROVE  Released'
  BY <1>8 DEF Dquot, Goto, locals
<1>9. ASSUME NEW t \in Threads, Swap(t)
      PROVE  Released'
  BY <1>9 DEF Swap, Goto, locals
<1>10. ASSUME NEW t \in Threads, MarkFile(t)
      PROVE  Released'
  BY <1>10 DEF MarkFile, Goto, locals
<1>11. ASSUME NEW t \in Threads, Remark(t)
      PROVE  Released'
  BY <1>11 DEF Remark, Goto, locals
<1>12. ASSUME NEW t \in Threads, MarkBoot(t)
      PROVE  Released'
  BY <1>12 DEF MarkBoot, Goto, locals
<1>13. ASSUME NEW t \in Threads, Charge(t)
      PROVE  Released'
  BY <1>13 DEF Charge, Goto, locals
<1>14. ASSUME NEW t \in Threads, Revert(t)
      PROVE  Released'
  BY <1>14 DEF Revert, Goto, locals
<1>15. ASSUME NEW t \in Threads, RevertBoot(t)
      PROVE  Released'
  BY <1>15 DEF RevertBoot, Goto, locals
<1>16. ASSUME NEW t \in Threads, Stop(t)
      PROVE  Released'
  BY <1>16 DEF Stop, Goto, locals
<1>17. ASSUME NEW t \in Threads, Uninval(t)
      PROVE  Released'
  BY <1>17 DEF Uninval, DropInval, Goto, locals
<1>18. ASSUME NEW t \in Threads, Unlock(t)
      PROVE  Released'
  BY <1>18 DEF Unlock, UnlockTwo, Goto, locals
<1>19. ASSUME NEW f \in Files, BufferedWrite(f)
      PROVE  Released'
  BY <1>19 DEF BufferedWrite, locals
<1>20. ASSUME NEW f \in Files, FaultWrite(f)
      PROVE  Released'
  BY <1>20 DEF FaultWrite, locals
<1>21. ASSUME NEW f \in Files, FaultRead(f)
      PROVE  Released'
  BY <1>21 DEF FaultRead, locals
<1>22. ASSUME NEW f \in Files, StartDio(f)
      PROVE  Released'
  BY <1>22 DEF StartDio, locals
<1>23. ASSUME NEW f \in Files, EndDio(f)
      PROVE  Released'
  BY <1>23 DEF EndDio, locals
<1>24. ASSUME NEW f \in Files, Writeback(f)
      PROVE  Released'
  BY <1>24 DEF Writeback, locals
<1>25. CASE Commit \/ Abort
  BY <1>25 DEF Commit, Abort, locals
<1>26. CASE Crash
  BY <1>26 DEF Crash
<1>27. CASE UNCHANGED vars
  BY <1>27 DEF vars, locals
<1> QED
  BY <1>1, <1>2, <1>3, <1>4, <1>5, <1>6, <1>7, <1>8, <1>9, <1>10, <1>11,
     <1>12, <1>13, <1>14, <1>15, <1>16, <1>17, <1>18, <1>19, <1>20, <1>21,
     <1>22, <1>23, <1>24, <1>25, <1>26, <1>27
     DEF Next, Running, Users

(* A call holds its locks from the place that takes them to the place that *)
(* releases them, on whichever of its exits, and no other call has them.   *)
THEOREM LocksReleased == Spec => []Released
<1>1. LocksInv /\ [Next]_vars => LocksInv'
  BY NextTypes, NextReleased DEF LocksInv
<1>2. LocksInv => Released
  BY DEF LocksInv
<1> QED
  BY InitLocks, <1>1, <1>2, PTL DEF Spec

LEMMA LocksAlways == Spec => []LocksInv
<1>1. LocksInv /\ [Next]_vars => LocksInv'
  BY NextTypes, NextReleased DEF LocksInv
<1> QED
  BY InitLocks, <1>1, PTL DEF Spec

-----------------------------------------------------------------------------
(* The page cache and direct I/O.                                          *)
Dropped ==
  {"start", "init", "dquot", "swap", "markfile", "remark", "markboot", "quota",
   "revert", "done", "stop"}

CacheInv ==
  /\ NoStalePages
  /\ \A t \in Threads :
       /\ pc[t] \in Dropped => pages[file[t]] = NoPages /\ file[t] \notin dio
       /\ pc[t] = "wait" => file[t] \notin dirtyPages

(* The locks of a call keep its file away from the others, and it has the  *)
(* boot loader inode for itself.                                           *)
LEMMA Alone ==
  ASSUME LocksInv
  PROVE  /\ \A t \in Threads, f \in Files : lock[f] = Nobody /\ file[t] = f => pc[t] = "idle"
         /\ \A t \in Threads, f \in Files : inval[f] = Nobody /\ file[t] = f =>
              pc[t] \in {"idle", "check", "invalidate", "unlock"}
         /\ \A t, u \in Threads : pc[t] # "idle" /\ pc[u] # "idle" => t = u
BY BootIsInode, InodesAssumption DEF LocksInv, Released, TypeOK

LEMMA NextCache == LocksInv /\ LocksInv' /\ CacheInv /\ [Next]_vars => CacheInv'
<1> SUFFICES ASSUME LocksInv, LocksInv', CacheInv, [Next]_vars
             PROVE  CacheInv'
  OBVIOUS
<1> USE BootIsInode, Alone DEF CacheInv, NoStalePages, Dropped
<1>1. ASSUME NEW t \in Threads, Check(t)
      PROVE  CacheInv'
  BY <1>1 DEF Check, Goto, inodes, journal, cache, locals, LocksInv, TypeOK
<1>2. ASSUME NEW t \in Threads, TakeInval(t)
      PROVE  CacheInv'
  BY <1>2 DEF TakeInval, Goto, inodes, journal, cache, locals, LocksInv, TypeOK
<1>3. ASSUME NEW t \in Threads, StartHandle(t)
      PROVE  CacheInv'
  BY <1>3 DEF StartHandle, Goto, inodes, journal, cache, locals, LocksInv, TypeOK
<1>4. ASSUME NEW t \in Threads, Dquot(t)
      PROVE  CacheInv'
  BY <1>4 DEF Dquot, Goto, inodes, journal, cache, locals, LocksInv, TypeOK
<1>5. ASSUME NEW t \in Threads, MarkFile(t)
      PROVE  CacheInv'
  BY <1>5 DEF MarkFile, Goto, inodes, journal, cache, locals, LocksInv, TypeOK
<1>6. ASSUME NEW t \in Threads, MarkBoot(t)
      PROVE  CacheInv'
  BY <1>6 DEF MarkBoot, Goto, inodes, journal, cache, locals, LocksInv, TypeOK
<1>7. ASSUME NEW t \in Threads, Charge(t)
      PROVE  CacheInv'
  BY <1>7 DEF Charge, Goto, inodes, journal, cache, locals, LocksInv, TypeOK
<1>8. ASSUME NEW t \in Threads, RevertBoot(t)
      PROVE  CacheInv'
  BY <1>8 DEF RevertBoot, Goto, inodes, journal, cache, locals, LocksInv, TypeOK
<1>9. ASSUME NEW t \in Threads, Stop(t)
      PROVE  CacheInv'
  BY <1>9 DEF Stop, Goto, inodes, journal, cache, locals, LocksInv, TypeOK
<1>10. ASSUME NEW t \in Threads, Uninval(t)
      PROVE  CacheInv'
  BY <1>10 DEF Uninval, Goto, inodes, journal, cache, locals, LocksInv, TypeOK
<1>11. ASSUME NEW t \in Threads, LockBoth(t)
      PROVE  CacheInv'
  BY <1>11 DEF LockBoth, Goto, inodes, journal, cache, locals, LocksInv, TypeOK
<1>12. ASSUME NEW t \in Threads, Unlock(t)
      PROVE  CacheInv'
  BY <1>12 DEF Unlock, Goto, inodes, journal, cache, locals, LocksInv, TypeOK
<1>13. ASSUME NEW t \in Threads, Flush(t)
      PROVE  CacheInv'
  BY <1>13 DEF Flush, FlushFile, Goto, inodes, journal, cache, locals, LocksInv, TypeOK
<1>14. ASSUME NEW t \in Threads, WaitAndDrop(t)
      PROVE  CacheInv'
  BY <1>14 DEF WaitAndDrop, DioDone, Goto, inodes, journal, cache, locals, LocksInv, TypeOK
<1>15. ASSUME NEW t \in Threads, InitBoot(t)
      PROVE  CacheInv'
  BY <1>15 DEF InitBoot, Goto, inodes, journal, cache, locals, LocksInv, TypeOK
<1>16. ASSUME NEW t \in Threads, Swap(t)
      PROVE  CacheInv'
  BY <1>16 DEF Swap, Exchanged, Goto, inodes, journal, cache, locals, LocksInv, TypeOK
<1>17. ASSUME NEW t \in Threads, Remark(t)
      PROVE  CacheInv'
  BY <1>17 DEF Remark, UndoSwap, Exchanged, Goto, inodes, journal, cache, locals, LocksInv, TypeOK
<1>18. ASSUME NEW t \in Threads, Revert(t)
      PROVE  CacheInv'
  BY <1>18 DEF Revert, UndoSwap, Exchanged, Goto, inodes, journal, cache, locals, LocksInv, TypeOK
<1>19. ASSUME NEW f \in Files, BufferedWrite(f)
      PROVE  CacheInv'
  <2>1. /\ pages' = [pages EXCEPT ![f] = content[f]] /\ dirtyPages' = dirtyPages \cup {f}
        /\ UNCHANGED <<content, dio, file, pc>>
    BY <1>19 DEF BufferedWrite, Touch, inodes, locals
  <2>2. \A t \in Threads : pc[t] \in Dropped \cup {"wait"} => file[t] # f
    BY <1>19 DEF BufferedWrite
  <2>3. file \in [Threads -> Files] /\ pages \in [Files -> Contents \cup {NoPages}]
    BY DEF LocksInv, TypeOK
  <2>4. NoStalePages'
    BY <2>1, <2>3
  <2> QED
    BY <2>1, <2>2, <2>3, <2>4
<1>20. ASSUME NEW f \in Files, FaultWrite(f)
      PROVE  CacheInv'
  <2>1. /\ pages' = [pages EXCEPT ![f] = content[f]] /\ dirtyPages' = dirtyPages \cup {f}
        /\ UNCHANGED <<content, dio, file, pc>>
    BY <1>20 DEF FaultWrite, Touch, inodes, locals
  <2>2. \A t \in Threads : pc[t] \in Dropped \cup {"wait"} => file[t] # f
    BY <1>20 DEF FaultWrite
  <2>3. file \in [Threads -> Files] /\ pages \in [Files -> Contents \cup {NoPages}]
    BY DEF LocksInv, TypeOK
  <2>4. NoStalePages'
    BY <2>1, <2>3
  <2> QED
    BY <2>1, <2>2, <2>3, <2>4
<1>21. ASSUME NEW f \in Files, FaultRead(f)
      PROVE  CacheInv'
  <2>1. /\ pages' = [pages EXCEPT ![f] = content[f]] /\ dirtyPages' = dirtyPages
        /\ UNCHANGED <<content, dio, file, pc>>
    BY <1>21 DEF FaultRead, Touch, inodes, locals
  <2>2. \A t \in Threads : pc[t] \in Dropped \cup {"wait"} => file[t] # f
    BY <1>21 DEF FaultRead
  <2>3. file \in [Threads -> Files] /\ pages \in [Files -> Contents \cup {NoPages}]
    BY DEF LocksInv, TypeOK
  <2>4. NoStalePages'
    BY <2>1, <2>3
  <2> QED
    BY <2>1, <2>2, <2>3, <2>4
<1>22. ASSUME NEW f \in Files, StartDio(f)
      PROVE  CacheInv'
  BY <1>22 DEF StartDio, Touch, inodes, locals, LocksInv, TypeOK
<1>23. ASSUME NEW f \in Files, EndDio(f)
      PROVE  CacheInv'
  BY <1>23 DEF EndDio, Touch, inodes, locals, LocksInv, TypeOK
<1>24. ASSUME NEW f \in Files, Writeback(f)
      PROVE  CacheInv'
  BY <1>24 DEF Writeback, Touch, inodes, locals, LocksInv, TypeOK
<1>25. CASE Commit \/ Abort
  BY <1>25 DEF Commit, Abort, inodes, cache, locals
<1>26. CASE Crash
  BY <1>26 DEF Crash
<1>27. CASE UNCHANGED vars
  BY <1>27 DEF vars, inodes, cache, locals
<1> QED
  BY <1>1, <1>2, <1>3, <1>4, <1>5, <1>6, <1>7, <1>8, <1>9, <1>10, <1>11,
     <1>12, <1>13, <1>14, <1>15, <1>16, <1>17, <1>18, <1>19, <1>20, <1>21,
     <1>22, <1>23, <1>24, <1>25, <1>26, <1>27
     DEF Next, Running, Users

LEMMA CacheAlways == Spec => []CacheInv
<1>1. Init => CacheInv
  BY BootIsInode DEF Init, CacheInv, NoStalePages, Dropped
<1> QED
  BY <1>1, LocksAlways, NextCache, PTL DEF Spec

(* No page in the cache is of contents that a swap took away.              *)
THEOREM PagesFresh == Spec => []NoStalePages
<1>1. CacheInv => NoStalePages
  BY DEF CacheInv
<1> QED
  BY <1>1, CacheAlways, PTL

(* No direct I/O is in flight on the file while its contents change.       *)
THEOREM NoDioDuringSwap == Spec => []NoDioAcrossSwap
<1>1. CacheInv => NoDioAcrossSwap
  BY DEF CacheInv, NoDioAcrossSwap, Swapping, Dropped
<1> QED
  BY <1>1, CacheAlways, PTL

(* The pages that the swap drops have all been written.                    *)
THEOREM WrittenBeforeDropped == Spec => NothingDropped
<1>1. CacheInv => [\A t \in Threads : WaitAndDrop(t) => file[t] \notin dirtyPages]_vars
  BY DEF CacheInv, WaitAndDrop, Goto
<1> QED
  BY <1>1, CacheAlways, PTL DEF NothingDropped

-----------------------------------------------------------------------------
(* The contents in memory.  Old(t) is what the inodes held before the swap *)
(* of t, as long as it can go back.                                        *)
Old(t) == Exchanged(file[t])

Apart == \A m, n \in Inodes : Seen(content[m]) = Seen(content[n]) => m = n

Counts ==
  Swapping = {} => /\ \A n \in Inodes : blocks[n] = Weight(content[n])
                   /\ quota = HeldByFiles(blocks[Boot])

(* While t can still go back, the block counts are those from before, the  *)
(* quota too, and diff and saved say what to charge or to restore.         *)
Halfway(t) ==
  /\ pc[t] = "swap" => diff[t] = blocks[file[t]] - blocks[Boot]
  /\ pc[t] \in {"markfile", "remark", "markboot"} => blocks[Boot] = Weight(Old(t)[Boot])
  /\ pc[t] \in {"quota", "revert"} =>
       blocks[Boot] = Weight(content[Boot]) /\ saved[t] = Weight(Old(t)[Boot])
  /\ t \in Swapping =>
       /\ \A n \in Files : blocks[n] = Weight(Old(t)[n])
       /\ quota = HeldByFiles(Weight(content[file[t]]))
       /\ diff[t] = Weight(content[Boot]) - Weight(content[file[t]])

MemoryInv == Apart /\ Counts /\ \A t \in Threads : Halfway(t)

(* What recovery finds.                                                    *)
DiskInv ==
  /\ \A m, n \in Inodes :
       Seen(disk.inode[m].content) = Seen(disk.inode[n].content) => m = n
  /\ \A n \in Inodes : disk.inode[n].blocks = Weight(disk.inode[n].content)
  /\ disk.quota = HeldByFiles(disk.inode[Boot].blocks)

LEMMA SeenWeight == \A c, d : Seen(c) = Seen(d) => Weight(c) = Weight(d)
BY InodesAssumption DEF Seen, Weight

LEMMA SeenFirst == Seen(Unused) = Seen(Empty)
BY DEF Seen

LEMMA HeldInt ==
  \A b \in Int : HeldByFiles(b) \in Int /\ \A d \in Int : HeldByFiles(b) - d = HeldByFiles(b + d)
<1>1. Cardinality(Units(Blocks)) \in Int
  BY AllUnits
<1> QED
  BY <1>1 DEF HeldByFiles

LEMMA ExchangedValues ==
  ASSUME TypeOK, NEW f \in Files
  PROVE  /\ Exchanged(f) \in [Inodes -> Contents]
         /\ Exchanged(f)[f] = content[Boot] /\ Exchanged(f)[Boot] = content[f]
         /\ \A n \in Inodes \ {f, Boot} : Exchanged(f)[n] = content[n]
BY BootIsInode DEF TypeOK, Exchanged

LEMMA ExchangedBack ==
  ASSUME TypeOK, TypeOK', NEW f \in Files, content' = Exchanged(f)
  PROVE  Exchanged(f)' = content
BY BootIsInode DEF TypeOK, Exchanged

LEMMA InitMemory == Init => MemoryInv /\ DiskInv
<1> SUFFICES ASSUME Init
             PROVE  MemoryInv /\ DiskInv
  OBVIOUS
<1>1. Apart
  BY InodesAssumption DEF Init, Apart, Seen, Inodes
<1>2. blocks[Boot] = 0 /\ quota = HeldByFiles(blocks[Boot])
  <2>1. blocks[Boot] = 0
    BY InodesAssumption, BootIsInode DEF Init, Weight
  <2> QED
    BY <2>1, InitUnits, AllUnits DEF HeldByFiles
<1>3. Counts /\ \A t \in Threads : Halfway(t)
  BY <1>2 DEF Init, Counts, Halfway, Swapping
<1>4. /\ disk.quota = quota
      /\ \A n \in Inodes : disk.inode[n].content = content[n] /\ disk.inode[n].blocks = blocks[n]
  BY DEF Init, Image
<1>5. DiskInv
  BY <1>1, <1>2, <1>4, BootIsInode DEF Init, DiskInv, Apart
<1> QED
  BY <1>1, <1>3, <1>5 DEF MemoryInv

(* Every step keeps the contents apart, counted and paid for.              *)
LEMMA NextMemory ==
  LocksInv /\ LocksInv' /\ MemoryInv /\ DiskInv /\ [Next]_vars => MemoryInv'
<1> SUFFICES ASSUME LocksInv, LocksInv', MemoryInv, DiskInv, [Next]_vars
             PROVE  MemoryInv'
  OBVIOUS
<1> USE BootIsInode DEF MemoryInv, LocksInv
<1>1. ASSUME NEW t \in Threads, Check(t)
      PROVE  MemoryInv'
  BY <1>1, Alone DEF Check, Goto, inodes, locals, Apart, Counts, Halfway, Swapping, Old,
     Exchanged, TypeOK
<1>2. ASSUME NEW t \in Threads, TakeInval(t)
      PROVE  MemoryInv'
  BY <1>2, Alone DEF TakeInval, Goto, inodes, locals, Apart, Counts, Halfway, Swapping, Old,
     Exchanged, TypeOK
<1>3. ASSUME NEW t \in Threads, Flush(t)
      PROVE  MemoryInv'
  BY <1>3, Alone DEF Flush, Goto, inodes, locals, Apart, Counts, Halfway, Swapping, Old,
     Exchanged, TypeOK
<1>4. ASSUME NEW t \in Threads, WaitAndDrop(t)
      PROVE  MemoryInv'
  BY <1>4, Alone DEF WaitAndDrop, Goto, inodes, locals, Apart, Counts, Halfway, Swapping, Old,
     Exchanged, TypeOK
<1>5. ASSUME NEW t \in Threads, StartHandle(t)
      PROVE  MemoryInv'
  <2>1. Goto(t, "start", "init") \/ Goto(t, "start", "uninval")
    BY <1>5 DEF StartHandle
  <2>2. /\ pc[t] = "start" /\ pc'[t] \in {"init", "uninval"}
        /\ \A u \in Threads \ {t} : pc[u] = "idle" /\ pc'[u] = "idle"
    BY <2>1, Alone DEF Goto, TypeOK
  <2>3. Swapping = {} /\ Swapping' = {}
    BY <2>2 DEF Swapping
  <2>4. \A u \in Threads : Halfway(u)'
    BY <2>2, <2>3 DEF Halfway
  <2> QED
    BY <1>5, <2>3, <2>4 DEF StartHandle, inodes, Apart, Counts
<1>6. ASSUME NEW t \in Threads, MarkFile(t)
      PROVE  MemoryInv'
  BY <1>6, Alone DEF MarkFile, Goto, inodes, locals, Apart, Counts, Halfway, Swapping, Old,
     Exchanged, TypeOK
<1>7. ASSUME NEW t \in Threads, RevertBoot(t)
      PROVE  MemoryInv'
  BY <1>7, Alone DEF RevertBoot, Goto, inodes, locals, Apart, Counts, Halfway, Swapping, Old,
     Exchanged, TypeOK
<1>8. ASSUME NEW t \in Threads, Stop(t)
      PROVE  MemoryInv'
  BY <1>8, Alone DEF Stop, Goto, inodes, locals, Apart, Counts, Halfway, Swapping, Old,
     Exchanged, TypeOK
<1>9. ASSUME NEW t \in Threads, Uninval(t)
      PROVE  MemoryInv'
  BY <1>9, Alone DEF Uninval, Goto, inodes, locals, Apart, Counts, Halfway, Swapping, Old,
     Exchanged, TypeOK
<1>10. ASSUME NEW t \in Threads, LockBoth(t)
      PROVE  MemoryInv'
  <2>1. \A u \in Threads \ {t} : pc'[u] = pc[u] /\ file'[u] = file[u] /\ diff'[u] = diff[u] /\ saved'[u] = saved[u]
    BY <1>10 DEF LockBoth, Goto, TypeOK
  <2> QED
    BY <1>10, <2>1 DEF LockBoth, Goto, inodes, Apart, Counts, Halfway, Swapping, Old, Exchanged, TypeOK
<1>11. ASSUME NEW t \in Threads, Unlock(t)
      PROVE  MemoryInv'
  <2>1. \A u \in Threads \ {t} : pc'[u] = pc[u] /\ file'[u] = file[u] /\ diff'[u] = diff[u] /\ saved'[u] = saved[u]
    BY <1>11 DEF Unlock, Goto, TypeOK
  <2> QED
    BY <1>11, <2>1 DEF Unlock, Goto, inodes, Apart, Counts, Halfway, Swapping, Old, Exchanged, TypeOK
<1>12. ASSUME NEW t \in Threads, InitBoot(t)
      PROVE  MemoryInv'
  <2>1. /\ content' \in [Inodes -> Contents] /\ UNCHANGED <<blocks, quota, file, diff, saved>>
        /\ \A n \in Inodes : Seen(content'[n]) = Seen(content[n])
    BY <1>12, SeenFirst DEF InitBoot, TypeOK, locals
  <2>2. pc[t] = "init" /\ pc' = [pc EXCEPT ![t] = "dquot"]
    BY <1>12 DEF InitBoot, Goto
  <2>3. Swapping' = {} /\ Swapping = {} /\ \A u \in Threads : pc'[u] # "swap"
    <3>1. \A u \in Threads \ {t} : pc[u] = "idle" /\ pc'[u] = "idle"
      BY <2>2, Alone DEF TypeOK
    <3>2. pc'[t] = "dquot"
      BY <2>2 DEF TypeOK
    <3> QED
      BY <2>2, <3>1, <3>2 DEF Swapping
  <2>4. Apart'
    BY <2>1 DEF Apart
  <2>5. Counts'
    BY <2>1, <2>3, SeenWeight DEF Counts
  <2>6. ASSUME NEW u \in Threads
        PROVE  Halfway(u)'
    BY <2>3 DEF Halfway, Swapping
  <2> QED
    BY <2>4, <2>5, <2>6
<1>13. ASSUME NEW t \in Threads, Dquot(t)
      PROVE  MemoryInv'
  <2>1. UNCHANGED <<content, blocks, quota, file, saved>> /\ pc[t] = "dquot"
    BY <1>13 DEF Dquot, Goto, inodes
  <2>2. Swapping' = {} /\ Swapping = {} /\ \A u \in Threads \ {t} : pc'[u] # "swap"
    BY <1>13, Alone DEF Dquot, Goto, Swapping, TypeOK
  <2>3. pc'[t] = "swap" => diff'[t] = blocks'[file'[t]] - blocks'[Boot]
    BY <1>13 DEF Dquot, Goto, Difference, TypeOK, inodes
  <2>4. Apart' /\ Counts'
    BY <2>1, <2>2 DEF Apart, Counts
  <2>5. ASSUME NEW u \in Threads
        PROVE  Halfway(u)'
    <3>1. pc'[u] \notin {"markfile", "remark", "markboot", "quota", "revert"}
      BY <2>2 DEF Swapping
    <3>2. u \notin Swapping'
      BY <2>2
    <3> QED
      BY <2>2, <2>3, <3>1, <3>2 DEF Halfway
  <2> QED
    BY <2>4, <2>5
<1>14. ASSUME NEW t \in Threads, Swap(t)
      PROVE  MemoryInv'
  <2> DEFINE f == file[t]
  <2>1. /\ f \in Files /\ content' = Exchanged(f) /\ UNCHANGED <<blocks, quota, file, diff, saved>>
        /\ pc[t] = "swap" /\ pc' = [pc EXCEPT ![t] = "markfile"]
    BY <1>14 DEF Swap, Goto, TypeOK, locals
  <2>2. /\ Swapping = {} /\ Swapping' = {t}
        /\ \A u \in Threads \ {t} : pc'[u] = "idle"
    <3>1. \A u \in Threads \ {t} : pc[u] = "idle" /\ pc'[u] = "idle"
      BY <2>1, Alone DEF TypeOK
    <3>2. pc'[t] = "markfile"
      BY <2>1 DEF TypeOK
    <3> QED
      BY <2>1, <3>1, <3>2 DEF Swapping
  <2>3. Old(t)' = content
    BY <2>1, ExchangedBack DEF Old
  <2>4. Apart'
    BY <2>1, ExchangedValues DEF Apart
  <2>5. Counts'
    BY <2>2 DEF Counts
  <2>6. Halfway(t)'
    <3>1. /\ \A n \in Inodes : blocks[n] = Weight(content[n])
          /\ quota = HeldByFiles(blocks[Boot]) /\ diff[t] = blocks[f] - blocks[Boot]
      BY <2>1, <2>2 DEF Counts, Halfway
    <3>2. content'[f] = content[Boot] /\ content'[Boot] = content[f]
      BY <2>1, ExchangedValues
    <3>3. pc'[t] = "markfile"
      BY <2>1 DEF TypeOK
    <3> QED
      BY <2>1, <2>3, <3>1, <3>2, <3>3 DEF Halfway
  <2>7. \A u \in Threads \ {t} : Halfway(u)'
    BY <2>2 DEF Halfway
  <2> QED
    BY <2>4, <2>5, <2>6, <2>7
<1>15. ASSUME NEW t \in Threads, Remark(t)
      PROVE  MemoryInv'
  <2> DEFINE f == file[t]
  <2>1. /\ f \in Files /\ content' = Exchanged(f) /\ UNCHANGED <<blocks, quota, file, diff, saved>>
        /\ pc[t] = "remark" /\ pc' = [pc EXCEPT ![t] = "stop"]
    BY <1>15 DEF Remark, UndoSwap, Goto, TypeOK, locals
  <2>2. t \in Swapping /\ Swapping' = {} /\ \A u \in Threads \ {t} : pc'[u] = "idle"
    BY <2>1, Alone DEF Swapping, TypeOK
  <2>3. Apart'
    BY <2>1, ExchangedValues DEF Apart
  <2>4. Counts'
    <3>1. blocks[Boot] = Weight(content'[Boot]) /\ quota = HeldByFiles(blocks[Boot])
      BY <2>1, <2>2, ExchangedValues DEF Halfway, Old
    <3>2. \A n \in Inodes : blocks[n] = Weight(content'[n])
      BY <2>1, <2>2, <3>1 DEF Halfway, Old, Inodes
    <3> QED
      BY <2>1, <3>1, <3>2 DEF Counts
  <2>5. \A u \in Threads : Halfway(u)'
    BY <2>1, <2>2 DEF Halfway, TypeOK
  <2> QED
    BY <2>3, <2>4, <2>5
<1>16. ASSUME NEW t \in Threads, MarkBoot(t)
      PROVE  MemoryInv'
  <2> DEFINE f == file[t]
  <2>1. /\ f \in Files /\ UNCHANGED <<content, quota, file, diff>> /\ pc[t] = "markboot"
        /\ saved' = [saved EXCEPT ![t] = blocks[Boot]]
        /\ blocks' = [blocks EXCEPT ![Boot] = blocks[f]]
        /\ pc' = [pc EXCEPT ![t] = "quota"] \/ pc' = [pc EXCEPT ![t] = "revert"]
    BY <1>16 DEF MarkBoot, Goto, TypeOK
  <2>2. /\ t \in Swapping /\ t \in Swapping' /\ \A u \in Threads \ {t} : pc'[u] = "idle"
        /\ pc'[t] \in {"quota", "revert"}
    BY <2>1, Alone DEF Swapping, TypeOK
  <2>3. Old(t)' = Old(t)
    BY <2>1 DEF Old, Exchanged
  <2>4. Apart' /\ Counts'
    BY <2>1, <2>2 DEF Apart, Counts
  <2>5. Halfway(t)'
    <3>1. blocks'[Boot] = Weight(content[Boot]) /\ saved'[t] = Weight(Old(t)[Boot])
      BY <2>1, <2>2, ExchangedValues DEF Halfway, Old, TypeOK
    <3>2. \A n \in Files : blocks'[n] = Weight(Old(t)[n])
      BY <2>1, <2>2 DEF Halfway, TypeOK
    <3> QED
      BY <2>1, <2>2, <2>3, <3>1, <3>2 DEF Halfway
  <2>6. \A u \in Threads \ {t} : Halfway(u)'
    BY <2>2 DEF Halfway, Swapping
  <2> QED
    BY <2>4, <2>5, <2>6
<1>17. ASSUME NEW t \in Threads, Charge(t)
      PROVE  MemoryInv'
  <2> DEFINE f == file[t]
  <2>1. /\ f \in Files /\ UNCHANGED <<content, file, diff, saved>> /\ pc[t] = "quota"
        /\ t \in Swapping /\ \A u \in Threads \ {t} : pc[u] = "idle"
    BY <1>17, Alone DEF Charge, Goto, TypeOK, locals, Swapping
  <2>2. CASE pc' = [pc EXCEPT ![t] = "stop"] /\ quota' = Charged(t)
             /\ blocks' = [blocks EXCEPT ![f] = @ - diff[t]]
    <3>1. Swapping' = {} /\ pc'[t] = "stop" /\ \A u \in Threads \ {t} : pc'[u] = "idle"
      BY <2>1, <2>2 DEF Swapping, TypeOK
    <3>2. /\ blocks[Boot] = Weight(content[Boot]) /\ blocks[f] = Weight(content[Boot])
          /\ diff[t] = Weight(content[Boot]) - Weight(content[f])
          /\ quota = HeldByFiles(Weight(content[f]))
      BY <2>1, ExchangedValues DEF Halfway, Old
    <3>3. blocks'[f] = Weight(content[f]) /\ blocks'[Boot] = Weight(content[Boot])
      BY <2>1, <2>2, <3>2, WeightInt DEF TypeOK
    <3>4. ASSUME NEW n \in Files \ {f}
          PROVE  blocks'[n] = Weight(content[n])
      <4>1. n \in Inodes \ {f, Boot} /\ blocks'[n] = blocks[n]
        BY <2>2 DEF TypeOK
      <4>2. blocks[n] = Weight(Old(t)[n])
        BY <2>1 DEF Halfway
      <4> QED
        BY <2>1, <4>1, <4>2, ExchangedValues DEF Old
    <3>5. quota' = HeldByFiles(blocks'[Boot])
      <4>1. Weight(content[f]) \in Int /\ diff[t] \in Int
        BY WeightInt DEF TypeOK
      <4>2. quota' = HeldByFiles(Weight(content[f]) + diff[t])
        BY <2>2, <3>2, <4>1, HeldInt DEF Charged
      <4>3. Weight(content[f]) + diff[t] = Weight(content[Boot])
        BY <3>2, WeightInt
      <4> QED
        BY <3>3, <4>2, <4>3
    <3>6. Counts'
      BY <2>1, <3>3, <3>4, <3>5 DEF Counts, Inodes
    <3>7. Apart' /\ \A u \in Threads : Halfway(u)'
      BY <2>1, <3>1 DEF Apart, Halfway
    <3> QED
      BY <3>6, <3>7
  <2>3. CASE pc' = [pc EXCEPT ![t] = "revert"] /\ UNCHANGED <<blocks, quota>>
    <3>1. pc'[t] = "revert" /\ t \in Swapping' /\ \A u \in Threads \ {t} : pc'[u] = "idle"
      BY <2>1, <2>3 DEF Swapping, TypeOK
    <3>2. Old(t)' = Old(t)
      BY <2>1 DEF Old, Exchanged
    <3>3. Apart' /\ Counts'
      BY <2>1, <3>1 DEF Apart, Counts
    <3>4. Halfway(t)'
      BY <2>1, <2>3, <3>1, <3>2 DEF Halfway
    <3>5. \A u \in Threads \ {t} : Halfway(u)'
      BY <3>1 DEF Halfway, Swapping
    <3> QED
      BY <3>3, <3>4, <3>5
  <2> QED
    BY <1>17, <2>2, <2>3 DEF Charge, Goto
<1>18. ASSUME NEW t \in Threads, Revert(t)
      PROVE  MemoryInv'
  <2> DEFINE f == file[t]
  <2>1. /\ f \in Files /\ content' = Exchanged(f) /\ UNCHANGED <<quota, file, diff, saved>>
        /\ blocks' = [blocks EXCEPT ![Boot] = saved[t]]
        /\ pc[t] = "revert" /\ pc' = [pc EXCEPT ![t] = "done"]
    BY <1>18 DEF Revert, UndoSwap, Goto, TypeOK, locals
  <2>2. /\ t \in Swapping /\ Swapping' = {} /\ pc'[t] = "done"
        /\ \A u \in Threads \ {t} : pc'[u] = "idle"
    BY <2>1, Alone DEF Swapping, TypeOK
  <2>3. Apart'
    BY <2>1, ExchangedValues DEF Apart
  <2>4. Counts'
    <3>1. blocks'[Boot] = saved[t]
      BY <2>1 DEF TypeOK
    <3>2. saved[t] = Weight(content'[Boot])
      BY <2>1 DEF Halfway, Old
    <3>a. quota = HeldByFiles(Weight(content[f]))
      BY <2>2 DEF Halfway
    <3>b. content'[Boot] = content[f]
      BY <2>1, ExchangedValues
    <3>3. quota = HeldByFiles(blocks'[Boot])
      BY <3>a, <3>b, <3>1, <3>2
    <3>4. \A n \in Files : blocks'[n] = Weight(content'[n])
      BY <2>1, <2>2 DEF Halfway, Old, TypeOK
    <3> QED
      BY <2>1, <3>1, <3>2, <3>3, <3>4 DEF Counts, Inodes
  <2>5. \A u \in Threads : Halfway(u)'
    BY <2>2 DEF Halfway
  <2> QED
    BY <2>3, <2>4, <2>5
<1>19. ASSUME NEW f \in Files, BufferedWrite(f)
      PROVE  MemoryInv'
  BY <1>19 DEF BufferedWrite, inodes, locals, Apart, Counts, Halfway, Swapping, Old, Exchanged
<1>20. ASSUME NEW f \in Files, FaultWrite(f)
      PROVE  MemoryInv'
  BY <1>20 DEF FaultWrite, inodes, locals, Apart, Counts, Halfway, Swapping, Old, Exchanged
<1>21. ASSUME NEW f \in Files, FaultRead(f)
      PROVE  MemoryInv'
  BY <1>21 DEF FaultRead, inodes, locals, Apart, Counts, Halfway, Swapping, Old, Exchanged
<1>22. ASSUME NEW f \in Files, StartDio(f)
      PROVE  MemoryInv'
  BY <1>22 DEF StartDio, inodes, locals, Apart, Counts, Halfway, Swapping, Old, Exchanged
<1>23. ASSUME NEW f \in Files, EndDio(f)
      PROVE  MemoryInv'
  BY <1>23 DEF EndDio, inodes, locals, Apart, Counts, Halfway, Swapping, Old, Exchanged
<1>24. ASSUME NEW f \in Files, Writeback(f)
      PROVE  MemoryInv'
  BY <1>24 DEF Writeback, inodes, locals, Apart, Counts, Halfway, Swapping, Old, Exchanged
<1>25. CASE Commit
  BY <1>25 DEF Commit, inodes, locals, Apart, Counts, Halfway, Swapping, Old, Exchanged
<1>26. CASE Abort
  BY <1>26 DEF Abort, inodes, locals, Apart, Counts, Halfway, Swapping, Old, Exchanged
<1>27. CASE Crash
  <2>1. /\ \A n \in Inodes : content'[n] = disk.inode[n].content /\ blocks'[n] = disk.inode[n].blocks
        /\ quota' = disk.quota /\ \A u \in Threads : pc'[u] = "idle"
    BY <1>27 DEF Crash
  <2>2. Swapping' = {}
    BY <2>1 DEF Swapping
  <2> QED
    BY <2>1, <2>2 DEF DiskInv, Apart, Counts, Halfway
<1>28. CASE UNCHANGED vars
  BY <1>28 DEF vars, inodes, locals, Apart, Counts, Halfway, Swapping, Old, Exchanged
<1> QED
  BY <1>1, <1>2, <1>3, <1>4, <1>5, <1>6, <1>7, <1>8, <1>9, <1>10, <1>11,
     <1>12, <1>13, <1>14, <1>15, <1>16, <1>17, <1>18, <1>19, <1>20, <1>21,
     <1>22, <1>23, <1>24, <1>25, <1>26, <1>27, <1>28
     DEF Next, Running, Users

-----------------------------------------------------------------------------
(* The journal.  What a commit would write for n, and how it has to agree  *)
(* with the inode while the journal still takes changes.                   *)
Pending(n) == IF n \in marked THEN txn[n] ELSE disk.inode[n]
Agrees(image, c, b) == Seen(image.content) = Seen(c) /\ image.blocks = b
PendingIsNow(n) == Agrees(Pending(n), content[n], blocks[n])
PendingIsOld(t, n) == Agrees(Pending(n), Old(t)[n], blocks[n])

Reverting(t) ==
  /\ pc[t] \in {"markfile", "remark"} => \A n \in Inodes : PendingIsOld(t, n)
  /\ pc[t] = "markboot" => PendingIsOld(t, Boot)
  /\ pc[t] \in {"markboot", "quota", "revert"} =>
       file[t] \in marked /\ \A n \in Files : PendingIsNow(n)
  /\ pc[t] = "quota" => Boot \in marked /\ PendingIsNow(Boot)
  /\ pc[t] = "revert" /\ Boot \notin marked =>
       Agrees(disk.inode[Boot], Old(t)[Boot], saved[t])
  /\ pc[t] = "done" =>
       /\ \A n \in Files : PendingIsNow(n)
       /\ Boot \notin marked => Agrees(disk.inode[Boot], content[Boot], blocks[Boot])

Between == \A t \in Threads : t \notin Swapping /\ pc[t] # "done"

JournalInv ==
  ~aborted => /\ Between => \A n \in Inodes : PendingIsNow(n)
              /\ \A t \in Threads : Reverting(t)

LEMMA InitJournal == Init => JournalInv
<1> SUFFICES ASSUME Init
             PROVE  JournalInv
  OBVIOUS
<1>1. \A n \in Inodes : PendingIsNow(n)
  BY DEF Init, PendingIsNow, Agrees, Pending, Image
<1>2. \A t \in Threads : Reverting(t)
  BY DEF Init, Reverting
<1> QED
  BY <1>1, <1>2 DEF JournalInv

(* What marking does, if the journal is not aborted.                       *)
LEMMA Marking ==
  ASSUME LocksInv, LocksInv', NEW n \in Inodes, MarkAgain(n), ~aborted, UNCHANGED disk
  PROVE  /\ \A m \in Inodes \ {n} :
              /\ Pending(m)' = Pending(m)
              /\ m \in marked' <=> m \in marked
         /\ n \in marked' => PendingIsNow(n)'
         /\ n \notin marked' => n \notin marked /\ Pending(n)' = Pending(n)
<1> USE DEF LocksInv, TypeOK
<1>1. CASE Mark(n)
  <2>1. /\ txn' = [txn EXCEPT ![n] = Image(n)'] /\ marked' = marked \cup {n}
    BY <1>1 DEF Mark
  <2>2. txn'[n] = Image(n)' /\ \A m \in Inodes \ {n} : txn'[m] = txn[m]
    BY <2>1
  <2>3. Agrees(txn'[n], content'[n], blocks'[n])
    BY <2>2 DEF Image, Agrees
  <2> QED
    BY <2>1, <2>2, <2>3 DEF Pending, PendingIsNow, Agrees
<1>2. CASE n \notin marked /\ UNCHANGED <<marked, txn>>
  BY <1>2 DEF Pending
<1> QED
  BY <1>1, <1>2 DEF MarkAgain

(* A step of t that leaves inodes and journal alone, outside the swap.     *)
Outside == PCs \ {"markfile", "remark", "markboot", "quota", "revert", "done"}

LEMMA OutsideJournal ==
  ASSUME LocksInv, LocksInv', JournalInv, NEW t \in Threads,
         UNCHANGED <<content, blocks, marked, txn, disk, aborted>>,
         pc[t] \in Outside, pc'[t] \in Outside,
         \A u \in Threads \ {t} : pc'[u] = pc[u] /\ file'[u] = file[u] /\ saved'[u] = saved[u]
  PROVE  JournalInv'
<1> SUFFICES ASSUME ~aborted
             PROVE  /\ Between' => \A n \in Inodes : PendingIsNow(n)'
                    /\ \A u \in Threads : Reverting(u)'
  BY DEF JournalInv
<1>1. \A n \in Inodes : PendingIsNow(n)' <=> PendingIsNow(n)
  BY DEF PendingIsNow, Pending, Agrees
<1>2. Between' => Between
  BY DEF Between, Swapping, Outside
<1>3. Reverting(t)'
  BY DEF Reverting, Outside
<1>4. ASSUME NEW u \in Threads \ {t}
      PROVE  Reverting(u)'
  <2>1. Reverting(u)
    BY DEF JournalInv
  <2>2. Old(u)' = Old(u) /\ \A n \in Inodes : PendingIsOld(u, n)' <=> PendingIsOld(u, n)
    BY DEF Old, Exchanged, PendingIsOld, Pending, Agrees
  <2> QED
    BY <1>1, <2>1, <2>2, BootIsInode DEF Reverting, Agrees
<1> QED
  BY <1>1, <1>2, <1>3, <1>4 DEF JournalInv

(* A step of t inside the swap: the others are idle.                       *)
LEMMA InsideJournal ==
  ASSUME LocksInv, NEW t \in Threads, pc[t] \in PCs \ Outside,
         \A u \in Threads \ {t} : pc'[u] = pc[u]
  PROVE  /\ \A u \in Threads \ {t} : Reverting(u)'
         /\ t \in Swapping' \/ pc'[t] = "done" => ~Between'
         /\ ~Between
<1>1. \A u \in Threads \ {t} : pc'[u] = "idle"
  BY Alone DEF Outside
<1> QED
  BY <1>1 DEF Reverting, Between, Swapping, Outside, PCs

(* A step that leaves all of it alone.                                     *)
LEMMA SameJournal ==
  ASSUME LocksInv, JournalInv,
         UNCHANGED <<content, blocks, marked, txn, disk, aborted, pc, file, saved>>
  PROVE  JournalInv'
BY DEF JournalInv, Reverting, Between, Swapping, PendingIsNow, PendingIsOld, Pending, Agrees,
       Old, Exchanged

(* Every step leaves in the journal what is true or what can go back.      *)
LEMMA NextJournal ==
  LocksInv /\ LocksInv' /\ JournalInv /\ [Next]_vars => JournalInv'
<1> SUFFICES ASSUME LocksInv, LocksInv', JournalInv, [Next]_vars
             PROVE  JournalInv'
  OBVIOUS
<1> USE BootIsInode DEF LocksInv
<1>1. ASSUME NEW t \in Threads, LockBoth(t)
      PROVE  JournalInv'
  <2>1. /\ pc[t] \in Outside /\ pc'[t] \in Outside
        /\ \A u \in Threads \ {t} : pc'[u] = pc[u] /\ file'[u] = file[u] /\ saved'[u] = saved[u]
    BY <1>1 DEF LockBoth, Goto, Outside, PCs, TypeOK, locals
  <2> QED
    BY <1>1, <2>1, OutsideJournal DEF LockBoth, inodes, journal
<1>2. ASSUME NEW t \in Threads, Check(t)
      PROVE  JournalInv'
  <2>1. /\ pc[t] \in Outside /\ pc'[t] \in Outside
        /\ \A u \in Threads \ {t} : pc'[u] = pc[u] /\ file'[u] = file[u] /\ saved'[u] = saved[u]
    BY <1>2 DEF Check, Goto, Outside, PCs, TypeOK, locals
  <2> QED
    BY <1>2, <2>1, OutsideJournal DEF Check, inodes, journal
<1>3. ASSUME NEW t \in Threads, TakeInval(t)
      PROVE  JournalInv'
  <2>1. /\ pc[t] \in Outside /\ pc'[t] \in Outside
        /\ \A u \in Threads \ {t} : pc'[u] = pc[u] /\ file'[u] = file[u] /\ saved'[u] = saved[u]
    BY <1>3 DEF TakeInval, Goto, Outside, PCs, TypeOK, locals
  <2> QED
    BY <1>3, <2>1, OutsideJournal DEF TakeInval, inodes, journal
<1>4. ASSUME NEW t \in Threads, Flush(t)
      PROVE  JournalInv'
  <2>1. /\ pc[t] \in Outside /\ pc'[t] \in Outside
        /\ \A u \in Threads \ {t} : pc'[u] = pc[u] /\ file'[u] = file[u] /\ saved'[u] = saved[u]
    BY <1>4 DEF Flush, Goto, Outside, PCs, TypeOK, locals
  <2> QED
    BY <1>4, <2>1, OutsideJournal DEF Flush, inodes, journal
<1>5. ASSUME NEW t \in Threads, WaitAndDrop(t)
      PROVE  JournalInv'
  <2>1. /\ pc[t] \in Outside /\ pc'[t] \in Outside
        /\ \A u \in Threads \ {t} : pc'[u] = pc[u] /\ file'[u] = file[u] /\ saved'[u] = saved[u]
    BY <1>5 DEF WaitAndDrop, Goto, Outside, PCs, TypeOK, locals
  <2> QED
    BY <1>5, <2>1, OutsideJournal DEF WaitAndDrop, inodes, journal
<1>6. ASSUME NEW t \in Threads, Dquot(t)
      PROVE  JournalInv'
  <2>1. /\ pc[t] \in Outside /\ pc'[t] \in Outside
        /\ \A u \in Threads \ {t} : pc'[u] = pc[u] /\ file'[u] = file[u] /\ saved'[u] = saved[u]
    BY <1>6 DEF Dquot, Goto, Outside, PCs, TypeOK, locals
  <2> QED
    BY <1>6, <2>1, OutsideJournal DEF Dquot, inodes, journal
<1>7. ASSUME NEW t \in Threads, Stop(t)
      PROVE  JournalInv'
  <2>1. /\ pc[t] \in Outside /\ pc'[t] \in Outside
        /\ \A u \in Threads \ {t} : pc'[u] = pc[u] /\ file'[u] = file[u] /\ saved'[u] = saved[u]
    BY <1>7 DEF Stop, Goto, Outside, PCs, TypeOK, locals
  <2> QED
    BY <1>7, <2>1, OutsideJournal DEF Stop, inodes, journal
<1>8. ASSUME NEW t \in Threads, Uninval(t)
      PROVE  JournalInv'
  <2>1. /\ pc[t] \in Outside /\ pc'[t] \in Outside
        /\ \A u \in Threads \ {t} : pc'[u] = pc[u] /\ file'[u] = file[u] /\ saved'[u] = saved[u]
    BY <1>8 DEF Uninval, Goto, Outside, PCs, TypeOK, locals
  <2> QED
    BY <1>8, <2>1, OutsideJournal DEF Uninval, inodes, journal
<1>9. ASSUME NEW t \in Threads, Unlock(t)
      PROVE  JournalInv'
  <2>1. /\ pc[t] \in Outside /\ pc'[t] \in Outside
        /\ \A u \in Threads \ {t} : pc'[u] = pc[u] /\ file'[u] = file[u] /\ saved'[u] = saved[u]
    BY <1>9 DEF Unlock, Goto, Outside, PCs, TypeOK, locals
  <2> QED
    BY <1>9, <2>1, OutsideJournal DEF Unlock, inodes, journal
<1>10. ASSUME NEW t \in Threads, StartHandle(t)
      PROVE  JournalInv'
  <2>1. Goto(t, "start", "init") \/ Goto(t, "start", "uninval")
    BY <1>10 DEF StartHandle
  <2>2. /\ pc[t] \in Outside /\ pc'[t] \in Outside
        /\ \A u \in Threads \ {t} : pc'[u] = pc[u]
    BY <2>1 DEF Goto, Outside, PCs, TypeOK
  <2> QED
    BY <1>10, <2>2, OutsideJournal DEF StartHandle, inodes, journal, locals
<1>11. ASSUME NEW t \in Threads, InitBoot(t)
      PROVE  JournalInv'
  <2>1. /\ UNCHANGED <<blocks, marked, txn, disk, aborted>>
        /\ \A n \in Inodes : Seen(content'[n]) = Seen(content[n])
    BY <1>11, SeenFirst DEF InitBoot, TypeOK, journal
  <2>2. pc[t] = "init" /\ pc' = [pc EXCEPT ![t] = "dquot"]
    BY <1>11 DEF InitBoot, Goto
  <2>3. \A u \in Threads \ {t} : pc[u] = "idle" /\ pc'[u] = "idle"
    BY <2>2, Alone DEF TypeOK
  <2>4. Between /\ pc'[t] = "dquot"
    BY <2>2, <2>3 DEF Between, Swapping, TypeOK
  <2>5. \A u \in Threads : Reverting(u)'
    BY <2>3, <2>4 DEF Reverting
  <2>6. ~aborted => \A n \in Inodes : PendingIsNow(n)'
    BY <2>1, <2>4 DEF JournalInv, PendingIsNow, Pending, Agrees
  <2> QED
    BY <2>1, <2>5, <2>6 DEF JournalInv
<1>12. ASSUME NEW t \in Threads, Swap(t)
      PROVE  JournalInv'
  <2>1. /\ file[t] \in Files /\ content' = Exchanged(file[t])
        /\ UNCHANGED <<blocks, marked, txn, disk, aborted, file, saved>>
        /\ pc[t] = "swap" /\ pc' = [pc EXCEPT ![t] = "markfile"]
    BY <1>12 DEF Swap, Goto, TypeOK, locals, journal
  <2>2. \A u \in Threads \ {t} : pc[u] = "idle" /\ pc'[u] = "idle"
    BY <2>1, Alone DEF TypeOK
  <2>3. Between /\ ~Between' /\ pc'[t] = "markfile"
    BY <2>1, <2>2 DEF Between, Swapping, TypeOK
  <2>4. Old(t)' = content
    BY <2>1, ExchangedBack DEF Old
  <2>5. \A u \in Threads \ {t} : Reverting(u)'
    BY <2>2 DEF Reverting
  <2>6. ~aborted => \A n \in Inodes : PendingIsOld(t, n)'
    BY <2>1, <2>3, <2>4 DEF JournalInv, PendingIsNow, PendingIsOld, Pending, Agrees
  <2>7. ~aborted => Reverting(t)'
    BY <2>3, <2>6 DEF Reverting
  <2> QED
    BY <2>1, <2>3, <2>5, <2>7 DEF JournalInv
<1>13. ASSUME NEW t \in Threads, MarkFile(t)
      PROVE  JournalInv'
  <2> DEFINE f == file[t]
  <2>1. /\ f \in Files /\ UNCHANGED <<content, blocks, disk, aborted, file, saved>>
        /\ pc[t] = "markfile" /\ \A u \in Threads \ {t} : pc'[u] = pc[u]
    BY <1>13 DEF MarkFile, Goto, TypeOK, locals, inodes
  <2>2. pc[t] \in PCs \ Outside
    BY <2>1 DEF PCs, Outside
  <2>3. Old(t)' = Old(t)
    BY <2>1 DEF Old, Exchanged
  <2>4. ~aborted => \A n \in Inodes : PendingIsOld(t, n)
    BY <2>1 DEF JournalInv, Reverting
  <2>5. CASE pc' = [pc EXCEPT ![t] = "markboot"] /\ Mark(f)
    <3>1. MarkAgain(f) /\ ~aborted /\ pc'[t] = "markboot" /\ f \in marked'
      BY <2>5 DEF MarkAgain, Mark, TypeOK
    <3>2. PendingIsNow(f)' /\ \A m \in Inodes \ {f} : Pending(m)' = Pending(m)
      BY <2>1, <3>1, Marking
    <3>3. ASSUME NEW n \in Files \ {f}
          PROVE  PendingIsNow(n)'
      <4>1. n \in Inodes \ {f, Boot} /\ Pending(n)' = Pending(n) /\ PendingIsOld(t, n)
        BY <2>4, <3>1, <3>2
      <4>2. Old(t)[n] = content'[n] /\ blocks'[n] = blocks[n]
        BY <2>1, <4>1, ExchangedValues DEF Old
      <4> QED
        BY <4>1, <4>2 DEF PendingIsNow, PendingIsOld
    <3>4. PendingIsOld(t, Boot)'
      <4>1. Boot \in Inodes \ {f} /\ PendingIsOld(t, Boot)
        BY <2>1, <2>4, <3>1
      <4> QED
        BY <2>1, <2>3, <3>2, <4>1 DEF PendingIsOld
    <3>5. Reverting(t)'
      BY <2>1, <3>1, <3>2, <3>3, <3>4 DEF Reverting
    <3>6. t \in Swapping'
      BY <3>1 DEF Swapping
    <3> QED
      BY <2>1, <2>2, <3>5, <3>6, InsideJournal DEF JournalInv
  <2>6. CASE pc' = [pc EXCEPT ![t] = "remark"] /\ UNCHANGED <<marked, txn>>
    <3>1. pc'[t] = "remark" /\ t \in Swapping'
      BY <2>6 DEF TypeOK, Swapping
    <3>2. ~aborted => \A n \in Inodes : PendingIsOld(t, n)'
      BY <2>1, <2>3, <2>4, <2>6 DEF PendingIsOld, Pending
    <3>3. ~aborted => Reverting(t)'
      BY <3>1, <3>2 DEF Reverting
    <3> QED
      BY <2>1, <2>2, <3>1, <3>3, InsideJournal DEF JournalInv
  <2> QED
    BY <1>13, <2>5, <2>6 DEF MarkFile, Goto
<1>14. ASSUME NEW t \in Threads, Remark(t)
      PROVE  JournalInv'
  <2> DEFINE f == file[t]
  <2>1. /\ f \in Files /\ content' = Exchanged(f) /\ MarkAgain(f)
        /\ UNCHANGED <<blocks, disk, aborted, file, saved>>
        /\ pc[t] = "remark" /\ pc' = [pc EXCEPT ![t] = "stop"]
    BY <1>14 DEF Remark, UndoSwap, Goto, TypeOK, locals
  <2>2. pc[t] \in PCs \ Outside /\ pc'[t] = "stop" /\ \A u \in Threads \ {t} : pc'[u] = pc[u]
    BY <2>1 DEF PCs, Outside, TypeOK
  <2>3. ASSUME ~aborted, NEW n \in Inodes
        PROVE  PendingIsNow(n)'
    <3>1. PendingIsOld(t, n)
      BY <2>1, <2>3 DEF JournalInv, Reverting
    <3>2. CASE Pending(n)' = Pending(n)
      BY <2>1, <3>1, <3>2 DEF PendingIsOld, PendingIsNow, Old
    <3>3. CASE n = f /\ n \in marked'
      BY <2>1, <2>3, <3>3, Marking
    <3> QED
      BY <2>1, <2>3, <3>2, <3>3, Marking
  <2>4. Reverting(t)'
    BY <2>2 DEF Reverting
  <2> QED
    BY <2>1, <2>2, <2>3, <2>4, InsideJournal DEF JournalInv
<1>15. ASSUME NEW t \in Threads, MarkBoot(t)
      PROVE  JournalInv'
  <2> DEFINE f == file[t]
  <2>1. /\ f \in Files /\ UNCHANGED <<content, disk, aborted, file>> /\ pc[t] = "markboot"
        /\ saved'[t] = blocks[Boot] /\ \A n \in Files : blocks'[n] = blocks[n]
        /\ \A u \in Threads \ {t} : pc'[u] = pc[u]
    BY <1>15 DEF MarkBoot, Goto, TypeOK
  <2>2. pc[t] \in PCs \ Outside
    BY <2>1 DEF PCs, Outside
  <2>3. Old(t)' = Old(t)
    BY <2>1 DEF Old, Exchanged
  <2>4. ~aborted => /\ PendingIsOld(t, Boot) /\ f \in marked
                    /\ \A n \in Files : PendingIsNow(n)
    BY <2>1 DEF JournalInv, Reverting
  <2>5. CASE pc' = [pc EXCEPT ![t] = "quota"] /\ Mark(Boot)
    <3>1. MarkAgain(Boot) /\ ~aborted /\ pc'[t] = "quota" /\ Boot \in marked'
      BY <2>5 DEF MarkAgain, Mark, TypeOK
    <3>2. /\ PendingIsNow(Boot)'
          /\ \A m \in Inodes \ {Boot} : Pending(m)' = Pending(m) /\ (m \in marked' <=> m \in marked)
      BY <2>1, <3>1, Marking
    <3>3. \A n \in Files : PendingIsNow(n)'
      BY <2>1, <2>4, <3>1, <3>2 DEF PendingIsNow
    <3>4. f \in marked'
      BY <2>1, <2>4, <3>1, <3>2
    <3>5. Reverting(t)' /\ t \in Swapping'
      BY <2>1, <3>1, <3>2, <3>3, <3>4 DEF Reverting, Swapping
    <3> QED
      BY <2>1, <2>2, <3>5, InsideJournal DEF JournalInv
  <2>6. CASE pc' = [pc EXCEPT ![t] = "revert"] /\ UNCHANGED <<marked, txn>>
    <3>1. pc'[t] = "revert" /\ t \in Swapping'
      BY <2>6 DEF TypeOK, Swapping
    <3>2. ~aborted => f \in marked' /\ \A n \in Files : PendingIsNow(n)'
      BY <2>1, <2>4, <2>6 DEF PendingIsNow, Pending
    <3>3. ~aborted /\ Boot \notin marked' => Agrees(disk'.inode[Boot], Old(t)'[Boot], saved'[t])
      BY <2>1, <2>3, <2>4, <2>6 DEF PendingIsOld, Pending
    <3>4. ~aborted => Reverting(t)'
      BY <2>1, <3>1, <3>2, <3>3 DEF Reverting
    <3> QED
      BY <2>1, <2>2, <3>1, <3>4, InsideJournal DEF JournalInv
  <2> QED
    BY <1>15, <2>5, <2>6 DEF MarkBoot, SaveBoot, Goto
<1>16. ASSUME NEW t \in Threads, Charge(t)
      PROVE  JournalInv'
  <2> DEFINE f == file[t]
  <2>1. /\ f \in Files /\ UNCHANGED <<content, disk, aborted, file, saved>>
        /\ pc[t] = "quota" /\ \A u \in Threads \ {t} : pc'[u] = pc[u]
    BY <1>16 DEF Charge, Goto, TypeOK, locals
  <2>2. pc[t] \in PCs \ Outside
    BY <2>1 DEF PCs, Outside
  <2>3. ~aborted => /\ PendingIsNow(Boot) /\ f \in marked /\ Boot \in marked
                    /\ \A n \in Files : PendingIsNow(n)
    BY <2>1 DEF JournalInv, Reverting
  <2>4. CASE /\ pc' = [pc EXCEPT ![t] = "stop"] /\ MarkAgain(f)
             /\ blocks' = [blocks EXCEPT ![f] = @ - diff[t]]
    <3>1. pc'[t] = "stop" /\ \A n \in Inodes \ {f} : blocks'[n] = blocks[n]
      BY <2>4 DEF TypeOK
    <3>2. Reverting(t)'
      BY <3>1 DEF Reverting
    <3>3. ASSUME ~aborted, NEW n \in Inodes
          PROVE  PendingIsNow(n)'
      <4>1. PendingIsNow(n) /\ f \in marked
        BY <2>3, <3>3 DEF Inodes
      <4>2. CASE n = f
        BY <2>1, <2>4, <3>3, <4>1, <4>2, Marking
      <4>3. CASE n # f
        BY <2>1, <2>4, <3>1, <3>3, <4>1, <4>3, Marking DEF PendingIsNow
      <4> QED
        BY <4>2, <4>3
    <3> QED
      BY <2>1, <2>2, <3>2, <3>3, InsideJournal DEF JournalInv
  <2>5. CASE pc' = [pc EXCEPT ![t] = "revert"] /\ UNCHANGED <<blocks, marked, txn>>
    <3>1. pc'[t] = "revert" /\ t \in Swapping'
      BY <2>5 DEF TypeOK, Swapping
    <3>2. ~aborted => f \in marked' /\ Boot \in marked' /\ \A n \in Files : PendingIsNow(n)'
      BY <2>1, <2>3, <2>5 DEF PendingIsNow, Pending
    <3>3. ~aborted => Reverting(t)'
      BY <2>1, <3>1, <3>2 DEF Reverting
    <3> QED
      BY <2>1, <2>2, <3>1, <3>3, InsideJournal DEF JournalInv
  <2> QED
    BY <1>16, <2>4, <2>5 DEF Charge, Goto
<1>17. ASSUME NEW t \in Threads, Revert(t)
      PROVE  JournalInv'
  <2> DEFINE f == file[t]
  <2>1. /\ f \in Files /\ content' = Exchanged(f) /\ MarkAgain(f)
        /\ UNCHANGED <<disk, aborted, file, saved>>
        /\ blocks' = [blocks EXCEPT ![Boot] = saved[t]]
        /\ pc[t] = "revert" /\ pc' = [pc EXCEPT ![t] = "done"]
    BY <1>17 DEF Revert, UndoSwap, Goto, TypeOK, locals
  <2>2. pc[t] \in PCs \ Outside /\ pc'[t] = "done" /\ \A u \in Threads \ {t} : pc'[u] = pc[u]
    BY <2>1 DEF PCs, Outside, TypeOK
  <2>3. ~aborted => /\ f \in marked /\ \A n \in Files : PendingIsNow(n)
                    /\ Boot \notin marked => Agrees(disk.inode[Boot], Old(t)[Boot], saved[t])
    BY <2>1 DEF JournalInv, Reverting
  <2>4. ASSUME ~aborted, NEW n \in Files
        PROVE  PendingIsNow(n)'
    <3>1. CASE n = f
      BY <2>1, <2>3, <2>4, <3>1, Marking
    <3>2. CASE n # f
      <4>1. Pending(n)' = Pending(n) /\ PendingIsNow(n)
        BY <2>1, <2>3, <2>4, <3>2, Marking
      <4>2. content'[n] = content[n] /\ blocks'[n] = blocks[n]
        BY <2>1, <3>2, ExchangedValues DEF TypeOK
      <4> QED
        BY <4>1, <4>2 DEF PendingIsNow
    <3> QED
      BY <3>1, <3>2
  <2>5. ASSUME ~aborted, Boot \notin marked'
        PROVE  Agrees(disk'.inode[Boot], content'[Boot], blocks'[Boot])
    <3>1. Boot \notin marked
      BY <2>1, <2>5, Marking
    <3>2. content'[Boot] = Old(t)[Boot] /\ blocks'[Boot] = saved[t]
      BY <2>1 DEF Old, TypeOK
    <3> QED
      BY <2>1, <2>3, <2>5, <3>1, <3>2
  <2>6. ~aborted => Reverting(t)'
    BY <2>2, <2>4, <2>5 DEF Reverting
  <2> QED
    BY <2>1, <2>2, <2>6, InsideJournal DEF JournalInv
<1>18. ASSUME NEW t \in Threads, RevertBoot(t)
      PROVE  JournalInv'
  <2>1. /\ MarkAgain(Boot) /\ UNCHANGED <<content, blocks, disk, aborted, file, saved>>
        /\ pc[t] = "done" /\ pc' = [pc EXCEPT ![t] = "stop"]
    BY <1>18 DEF RevertBoot, Goto, locals, inodes
  <2>2. pc[t] \in PCs \ Outside /\ pc'[t] = "stop" /\ \A u \in Threads \ {t} : pc'[u] = pc[u]
    BY <2>1 DEF PCs, Outside, TypeOK
  <2>3. ~aborted => /\ \A n \in Files : PendingIsNow(n)
                    /\ Boot \notin marked => Agrees(disk.inode[Boot], content[Boot], blocks[Boot])
    BY <2>1 DEF JournalInv, Reverting
  <2>4. ASSUME ~aborted, NEW n \in Files
        PROVE  PendingIsNow(n)'
    <3>1. n \in Inodes \ {Boot} /\ PendingIsNow(n)
      BY <2>3, <2>4
    <3> QED
      BY <2>1, <2>4, <3>1, Marking DEF PendingIsNow
  <2>5. ASSUME ~aborted
        PROVE  PendingIsNow(Boot)'
    <3>1. CASE Boot \in marked'
      BY <2>1, <2>5, <3>1, Marking
    <3>2. CASE Boot \notin marked'
      <4>1. Boot \notin marked /\ Pending(Boot)' = Pending(Boot)
        BY <2>1, <2>5, <3>2, Marking
      <4> QED
        BY <2>1, <2>3, <2>5, <4>1 DEF PendingIsNow, Pending
    <3> QED
      BY <3>1, <3>2
  <2>6. Reverting(t)'
    BY <2>2 DEF Reverting
  <2> QED
    BY <2>1, <2>2, <2>4, <2>5, <2>6, InsideJournal DEF JournalInv, Inodes
<1>19. ASSUME NEW f \in Files, BufferedWrite(f)
      PROVE  JournalInv'
  BY <1>19, SameJournal DEF BufferedWrite, inodes, journal, locals
<1>20. ASSUME NEW f \in Files, FaultWrite(f)
      PROVE  JournalInv'
  BY <1>20, SameJournal DEF FaultWrite, inodes, journal, locals
<1>21. ASSUME NEW f \in Files, FaultRead(f)
      PROVE  JournalInv'
  BY <1>21, SameJournal DEF FaultRead, inodes, journal, locals
<1>22. ASSUME NEW f \in Files, StartDio(f)
      PROVE  JournalInv'
  BY <1>22, SameJournal DEF StartDio, inodes, journal, locals
<1>23. ASSUME NEW f \in Files, EndDio(f)
      PROVE  JournalInv'
  BY <1>23, SameJournal DEF EndDio, inodes, journal, locals
<1>24. ASSUME NEW f \in Files, Writeback(f)
      PROVE  JournalInv'
  BY <1>24, SameJournal DEF Writeback, inodes, journal, locals
<1>25. CASE Commit
  <2>1. /\ ~aborted /\ UNCHANGED <<content, blocks, pc, aborted>> /\ marked' = {}
        /\ \A n \in Inodes : disk'.inode[n] = Pending(n)
        /\ \A u \in Threads : ~handle[u]
    BY <1>25 DEF Commit, MayCommit, Pending, inodes
  <2>2. \A u \in Threads : u \notin Swapping /\ pc[u] \in Outside
    BY <2>1 DEF Released, Swapping, Outside, TypeOK
  <2>3. Between /\ \A u \in Threads : Reverting(u)'
    BY <2>1, <2>2 DEF Between, Reverting, Outside
  <2>4. \A n \in Inodes : PendingIsNow(n)'
    <3>1. \A n \in Inodes : Pending(n)' = Pending(n)
      BY <2>1 DEF Pending
    <3> QED
      BY <2>1, <2>3, <3>1 DEF JournalInv, PendingIsNow
  <2> QED
    BY <2>3, <2>4 DEF JournalInv
<1>26. CASE Abort
  BY <1>26 DEF Abort, JournalInv
<1>27. CASE Crash
  <2>1. /\ \A n \in Inodes : content'[n] = disk.inode[n].content /\ blocks'[n] = disk.inode[n].blocks
        /\ marked' = {} /\ disk' = disk /\ \A u \in Threads : pc'[u] = "idle"
    BY <1>27 DEF Crash
  <2> QED
    BY <2>1 DEF JournalInv, PendingIsNow, Pending, Agrees, Reverting
<1>28. CASE UNCHANGED vars
  BY <1>28, SameJournal DEF vars, inodes, journal, locals
<1> QED
  BY <1>1, <1>2, <1>3, <1>4, <1>5, <1>6, <1>7, <1>8, <1>9, <1>10, <1>11,
     <1>12, <1>13, <1>14, <1>15, <1>16, <1>17, <1>18, <1>19, <1>20, <1>21,
     <1>22, <1>23, <1>24, <1>25, <1>26, <1>27, <1>28
     DEF Next, Running, Users

(* Only a commit changes the disk, and it writes what is true.             *)
LEMMA CommitWrites ==
  ASSUME LocksInv, JournalInv, Commit
  PROVE  /\ Swapping = {}
         /\ disk'.quota = quota
         /\ \A n \in Inodes : /\ Seen(disk'.inode[n].content) = Seen(content[n])
                              /\ disk'.inode[n].blocks = blocks[n]
<1>1. /\ ~aborted /\ disk'.quota = quota
      /\ \A n \in Inodes : disk'.inode[n] = Pending(n)
      /\ \A u \in Threads : ~handle[u]
  BY DEF Commit, MayCommit, Pending
<1>2. Between /\ Swapping = {}
  BY <1>1 DEF LocksInv, Released, Between, Swapping
<1>3. \A n \in Inodes : PendingIsNow(n)
  BY <1>1, <1>2 DEF JournalInv
<1> QED
  BY <1>1, <1>2, <1>3 DEF PendingIsNow, Agrees

LEMMA NextDisk ==
  LocksInv /\ MemoryInv /\ JournalInv /\ DiskInv /\ [Next]_vars => DiskInv'
<1> SUFFICES ASSUME LocksInv, MemoryInv, JournalInv, DiskInv, [Next]_vars
             PROVE  DiskInv'
  OBVIOUS
<1>1. CASE Commit
  <2>1. /\ \A n \in Inodes : blocks[n] = Weight(content[n])
        /\ quota = HeldByFiles(blocks[Boot])
    BY <1>1, CommitWrites DEF MemoryInv, Counts
  <2> QED
    BY <1>1, <2>1, CommitWrites, SeenWeight, BootIsInode DEF MemoryInv, Apart, DiskInv
<1>2. CASE disk' = disk
  BY <1>2 DEF DiskInv
<1>3. Commit \/ disk' = disk
  BY DEF Next, Running, Users, vars, journal, LockBoth, Check, TakeInval, Flush, WaitAndDrop,
     StartHandle, InitBoot, Dquot, Swap, MarkFile, Remark, MarkBoot, Charge, Revert, RevertBoot,
     Stop, Uninval, Unlock, BufferedWrite, FaultWrite, FaultRead, StartDio, EndDio, Writeback,
     Abort, Crash
<1> QED
  BY <1>1, <1>2, <1>3

ContentsInv == LocksInv /\ MemoryInv /\ JournalInv /\ DiskInv

LEMMA ContentsAlways == Spec => []ContentsInv
<1>1. Init => ContentsInv
  BY InitLocks, InitMemory, InitJournal DEF ContentsInv
<1>2. LocksInv /\ [Next]_vars => LocksInv'
  BY NextTypes, NextReleased DEF LocksInv
<1>3. ContentsInv /\ [Next]_vars => ContentsInv'
  BY <1>2, NextMemory, NextJournal, NextDisk DEF ContentsInv
<1> QED
  BY <1>1, <1>3, PTL DEF Spec

(* Through failures, reverts and crashes no two inodes own the same        *)
(* blocks, every inode counts the blocks it holds, and the quota is what   *)
(* the files hold, on the disk and, between calls, in memory.              *)
THEOREM ContentsKept == Spec => []KeepsContents
<1>1. ContentsInv => CrashKeepsContents
  BY DEF ContentsInv, DiskInv, CrashKeepsContents
<1>2. ContentsInv => MemoryKeepsContents
  BY DEF ContentsInv, MemoryInv, Apart, Counts, MemoryKeepsContents
<1>3. ContentsInv => KeepsContents
  BY <1>1, <1>2 DEF KeepsContents
<1> QED
  BY <1>3, ContentsAlways, PTL

-----------------------------------------------------------------------------
(* The exchange that the steps implement.                                  *)
OnDisk == [n \in Inodes |-> Seen(disk.inode[n].content)]

SettledRight ==
  /\ Swapping = {} => Settled = [n \in Inodes |-> Seen(content[n])]
  /\ \A t \in Swapping : Settled = [n \in Inodes |-> Seen(Old(t)[n])]

LEMMA SettledIs == LocksInv => SettledRight
<1> SUFFICES ASSUME LocksInv
             PROVE  SettledRight
  OBVIOUS
<1>1. ASSUME Swapping = {}
      PROVE  Settled = [n \in Inodes |-> Seen(content[n])]
  BY <1>1 DEF Settled
<1>2. ASSUME NEW t \in Swapping
      PROVE  Settled = [n \in Inodes |-> Seen(Old(t)[n])]
  <2>1. (CHOOSE u \in Swapping : TRUE) = t
    BY Alone DEF Swapping
  <2> QED
    BY <2>1 DEF Settled, Old
<1> QED
  BY <1>1, <1>2 DEF SettledRight

LEMMA SettledIsNext == LocksInv' => SettledRight'
BY SettledIs, PTL

(* As long as nobody enters or leaves the swap, what is settled stays.     *)
LEMMA SettledStays ==
  ASSUME LocksInv, LocksInv', \A n \in Inodes : Seen(content'[n]) = Seen(content[n]),
         Swapping # {} => UNCHANGED content,
         \A t \in Threads : t \in Swapping' <=> t \in Swapping,
         \A t \in Swapping : file'[t] = file[t]
  PROVE  Settled' = Settled
<1>1. CASE Swapping = {}
  <2>1. Swapping' = {}
    BY <1>1 DEF Swapping
  <2>2. Settled' = [n \in Inodes |-> Seen(content'[n])]
    BY <2>1, SettledIs, SettledIsNext DEF SettledRight
  <2> QED
    BY <1>1, <2>2, SettledIs, SettledIsNext DEF SettledRight
<1>2. ASSUME NEW t \in Swapping
      PROVE  Settled' = Settled
  <2>1. t \in Swapping'
    BY DEF Swapping
  <2>2. Old(t)' = Old(t)
    BY <1>2 DEF Old, Exchanged
  <2>3. Settled' = [n \in Inodes |-> Seen(Old(t)'[n])]
    BY <2>1, SettledIs, SettledIsNext DEF SettledRight
  <2> QED
    BY <2>2, <2>3, SettledIs, SettledIsNext DEF SettledRight
<1> QED
  BY <1>1, <1>2

LEMMA InitRefines == Init => Exchange!Init
<1> SUFFICES ASSUME Init
             PROVE  Exchange!Init
  OBVIOUS
<1>1. LocksInv /\ Swapping = {}
  BY InitLocks DEF Init, Swapping
<1>2. Settled = [n \in Inodes |-> Seen(content[n])]
  BY <1>1, SettledIs, SettledIsNext DEF SettledRight
<1>3. \A n \in Inodes : Seen(content[n]) = IF n = Boot THEN Empty ELSE n
  BY InodesAssumption DEF Init, Seen, Inodes
<1>4. Settled = [n \in Files \cup {Boot} |-> IF n = Boot THEN Empty ELSE n]
  BY <1>2, <1>3 DEF Inodes
<1>5. OnDisk = Settled
  BY <1>2 DEF Init, OnDisk, Image
<1> QED
  BY <1>4, <1>5 DEF Exchange!Init, OnDisk

LEMMA NextRefines ==
  ContentsInv /\ ContentsInv' /\ [Next]_vars =>
    [Exchange!Next]_<<Settled, [n \in Inodes |-> Seen(disk.inode[n].content)]>>
<1> SUFFICES ASSUME ContentsInv, ContentsInv', [Next]_vars
             PROVE  Exchange!Next \/ UNCHANGED <<Settled, OnDisk>>
  BY DEF OnDisk
<1>0. LocksInv /\ LocksInv'
  BY DEF ContentsInv
<1> USE <1>0
<1>1. ASSUME NEW t \in Threads, LockBoth(t)
      PROVE  UNCHANGED <<Settled, OnDisk>>
  <2>1. /\ UNCHANGED <<content, disk>>
        /\ \A u \in Threads : u \in Swapping' <=> u \in Swapping
        /\ \A u \in Swapping : file'[u] = file[u]
    BY <1>1 DEF LockBoth, Goto, Swapping, LocksInv, TypeOK, inodes, journal, locals
  <2> QED
    BY <2>1, SettledStays DEF OnDisk
<1>2. ASSUME NEW t \in Threads, Check(t)
      PROVE  UNCHANGED <<Settled, OnDisk>>
  <2>1. /\ UNCHANGED <<content, disk>>
        /\ \A u \in Threads : u \in Swapping' <=> u \in Swapping
        /\ \A u \in Swapping : file'[u] = file[u]
    BY <1>2 DEF Check, Goto, Swapping, LocksInv, TypeOK, inodes, journal, locals
  <2> QED
    BY <2>1, SettledStays DEF OnDisk
<1>3. ASSUME NEW t \in Threads, TakeInval(t)
      PROVE  UNCHANGED <<Settled, OnDisk>>
  <2>1. /\ UNCHANGED <<content, disk>>
        /\ \A u \in Threads : u \in Swapping' <=> u \in Swapping
        /\ \A u \in Swapping : file'[u] = file[u]
    BY <1>3 DEF TakeInval, Goto, Swapping, LocksInv, TypeOK, inodes, journal, locals
  <2> QED
    BY <2>1, SettledStays DEF OnDisk
<1>4. ASSUME NEW t \in Threads, Flush(t)
      PROVE  UNCHANGED <<Settled, OnDisk>>
  <2>1. /\ UNCHANGED <<content, disk>>
        /\ \A u \in Threads : u \in Swapping' <=> u \in Swapping
        /\ \A u \in Swapping : file'[u] = file[u]
    BY <1>4 DEF Flush, Goto, Swapping, LocksInv, TypeOK, inodes, journal, locals
  <2> QED
    BY <2>1, SettledStays DEF OnDisk
<1>5. ASSUME NEW t \in Threads, WaitAndDrop(t)
      PROVE  UNCHANGED <<Settled, OnDisk>>
  <2>1. /\ UNCHANGED <<content, disk>>
        /\ \A u \in Threads : u \in Swapping' <=> u \in Swapping
        /\ \A u \in Swapping : file'[u] = file[u]
    BY <1>5 DEF WaitAndDrop, Goto, Swapping, LocksInv, TypeOK, inodes, journal, locals
  <2> QED
    BY <2>1, SettledStays DEF OnDisk
<1>6. ASSUME NEW t \in Threads, StartHandle(t)
      PROVE  UNCHANGED <<Settled, OnDisk>>
  <2>1. /\ UNCHANGED <<content, disk>>
        /\ \A u \in Threads : u \in Swapping' <=> u \in Swapping
        /\ \A u \in Swapping : file'[u] = file[u]
    BY <1>6 DEF StartHandle, Goto, Swapping, LocksInv, TypeOK, inodes, journal, locals
  <2> QED
    BY <2>1, SettledStays DEF OnDisk
<1>7. ASSUME NEW t \in Threads, Dquot(t)
      PROVE  UNCHANGED <<Settled, OnDisk>>
  <2>1. /\ UNCHANGED <<content, disk>>
        /\ \A u \in Threads : u \in Swapping' <=> u \in Swapping
        /\ \A u \in Swapping : file'[u] = file[u]
    BY <1>7 DEF Dquot, Goto, Swapping, LocksInv, TypeOK, inodes, journal, locals
  <2> QED
    BY <2>1, SettledStays DEF OnDisk
<1>8. ASSUME NEW t \in Threads, MarkFile(t)
      PROVE  UNCHANGED <<Settled, OnDisk>>
  <2>1. /\ UNCHANGED <<content, disk>>
        /\ \A u \in Threads : u \in Swapping' <=> u \in Swapping
        /\ \A u \in Swapping : file'[u] = file[u]
    BY <1>8 DEF MarkFile, Goto, Swapping, LocksInv, TypeOK, inodes, journal, locals
  <2> QED
    BY <2>1, SettledStays DEF OnDisk
<1>9. ASSUME NEW t \in Threads, MarkBoot(t)
      PROVE  UNCHANGED <<Settled, OnDisk>>
  <2>1. /\ UNCHANGED <<content, disk>>
        /\ \A u \in Threads : u \in Swapping' <=> u \in Swapping
        /\ \A u \in Swapping : file'[u] = file[u]
    BY <1>9 DEF MarkBoot, Goto, Swapping, LocksInv, TypeOK, inodes, journal, locals
  <2> QED
    BY <2>1, SettledStays DEF OnDisk
<1>10. ASSUME NEW t \in Threads, RevertBoot(t)
      PROVE  UNCHANGED <<Settled, OnDisk>>
  <2>1. /\ UNCHANGED <<content, disk>>
        /\ \A u \in Threads : u \in Swapping' <=> u \in Swapping
        /\ \A u \in Swapping : file'[u] = file[u]
    BY <1>10 DEF RevertBoot, Goto, Swapping, LocksInv, TypeOK, inodes, journal, locals
  <2> QED
    BY <2>1, SettledStays DEF OnDisk
<1>11. ASSUME NEW t \in Threads, Stop(t)
      PROVE  UNCHANGED <<Settled, OnDisk>>
  <2>1. /\ UNCHANGED <<content, disk>>
        /\ \A u \in Threads : u \in Swapping' <=> u \in Swapping
        /\ \A u \in Swapping : file'[u] = file[u]
    BY <1>11 DEF Stop, Goto, Swapping, LocksInv, TypeOK, inodes, journal, locals
  <2> QED
    BY <2>1, SettledStays DEF OnDisk
<1>12. ASSUME NEW t \in Threads, Uninval(t)
      PROVE  UNCHANGED <<Settled, OnDisk>>
  <2>1. /\ UNCHANGED <<content, disk>>
        /\ \A u \in Threads : u \in Swapping' <=> u \in Swapping
        /\ \A u \in Swapping : file'[u] = file[u]
    BY <1>12 DEF Uninval, Goto, Swapping, LocksInv, TypeOK, inodes, journal, locals
  <2> QED
    BY <2>1, SettledStays DEF OnDisk
<1>13. ASSUME NEW t \in Threads, Unlock(t)
      PROVE  UNCHANGED <<Settled, OnDisk>>
  <2>1. /\ UNCHANGED <<content, disk>>
        /\ \A u \in Threads : u \in Swapping' <=> u \in Swapping
        /\ \A u \in Swapping : file'[u] = file[u]
    BY <1>13 DEF Unlock, Goto, Swapping, LocksInv, TypeOK, inodes, journal, locals
  <2> QED
    BY <2>1, SettledStays DEF OnDisk
<1>14. ASSUME NEW t \in Threads, InitBoot(t)
      PROVE  UNCHANGED <<Settled, OnDisk>>
  <2>1. /\ UNCHANGED <<disk, file>> /\ pc[t] = "init"
        /\ \A n \in Inodes : Seen(content'[n]) = Seen(content[n])
        /\ \A u \in Threads : u \in Swapping' <=> u \in Swapping
    BY <1>14, SeenFirst DEF InitBoot, Goto, Swapping, LocksInv, TypeOK, journal, locals
  <2>2. Swapping = {}
    BY <2>1, Alone DEF Swapping
  <2> QED
    BY <2>1, <2>2, SettledStays DEF OnDisk
<1>15. ASSUME NEW t \in Threads, Swap(t)
      PROVE  UNCHANGED <<Settled, OnDisk>>
  <2>1. /\ file[t] \in Files /\ content' = Exchanged(file[t]) /\ UNCHANGED <<disk, file>>
        /\ pc[t] = "swap" /\ pc'[t] = "markfile"
    BY <1>15 DEF Swap, Goto, LocksInv, TypeOK, locals, journal
  <2>2. Swapping = {} /\ t \in Swapping'
    BY <2>1, Alone DEF Swapping
  <2>3. Old(t)' = content
    BY <2>1, ExchangedBack DEF Old, LocksInv
  <2>4. Settled' = [n \in Inodes |-> Seen(Old(t)'[n])]
    BY <2>2, SettledIs, SettledIsNext DEF SettledRight
  <2> QED
    BY <2>1, <2>2, <2>3, <2>4, SettledIs, SettledIsNext DEF SettledRight, OnDisk
<1>16. ASSUME NEW t \in Threads, Remark(t)
      PROVE  UNCHANGED <<Settled, OnDisk>>
  <2>1. /\ content' = Old(t) /\ UNCHANGED <<disk, file>> /\ t \in Swapping
        /\ pc'[t] \in {"stop", "done"} /\ \A u \in Threads \ {t} : pc'[u] = pc[u]
    BY <1>16 DEF Remark, UndoSwap, Old, Goto, Swapping, LocksInv, TypeOK, locals
  <2>2. Swapping' = {}
    BY <2>1, Alone DEF Swapping
  <2>3. Settled' = [n \in Inodes |-> Seen(content'[n])]
    BY <2>2, SettledIs, SettledIsNext DEF SettledRight
  <2> QED
    BY <2>1, <2>3, SettledIs, SettledIsNext DEF SettledRight, OnDisk
<1>17. ASSUME NEW t \in Threads, Revert(t)
      PROVE  UNCHANGED <<Settled, OnDisk>>
  <2>1. /\ content' = Old(t) /\ UNCHANGED <<disk, file>> /\ t \in Swapping
        /\ pc'[t] \in {"stop", "done"} /\ \A u \in Threads \ {t} : pc'[u] = pc[u]
    BY <1>17 DEF Revert, UndoSwap, Old, Goto, Swapping, LocksInv, TypeOK, locals
  <2>2. Swapping' = {}
    BY <2>1, Alone DEF Swapping
  <2>3. Settled' = [n \in Inodes |-> Seen(content'[n])]
    BY <2>2, SettledIs, SettledIsNext DEF SettledRight
  <2> QED
    BY <2>1, <2>3, SettledIs, SettledIsNext DEF SettledRight, OnDisk
<1>18. ASSUME NEW t \in Threads, Charge(t)
      PROVE  Exchange!Next \/ UNCHANGED <<Settled, OnDisk>>
  <2> DEFINE f == file[t]
  <2>1. /\ f \in Files /\ UNCHANGED <<content, disk, file>> /\ t \in Swapping
        /\ \A u \in Threads \ {t} : pc'[u] = pc[u]
    BY <1>18 DEF Charge, Goto, Swapping, LocksInv, TypeOK, locals
  <2>2. CASE pc'[t] = "stop"
    <3>1. Swapping' = {}
      BY <2>1, <2>2, Alone DEF Swapping
    <3>2. /\ Settled' = [n \in Inodes |-> Seen(content[n])]
          /\ Settled = [n \in Inodes |-> Seen(Old(t)[n])]
      BY <2>1, <3>1, SettledIs, SettledIsNext DEF SettledRight
    <3>3. /\ Old(t)[f] = content[Boot] /\ Old(t)[Boot] = content[f]
          /\ \A n \in Inodes \ {f, Boot} : Old(t)[n] = content[n]
      BY <2>1, ExchangedValues DEF Old, LocksInv
    <3>4. Settled' = [Settled EXCEPT ![f] = Settled[Boot], ![Boot] = Settled[f]]
      BY <2>1, <3>2, <3>3, BootIsInode
    <3>5. OnDisk' = OnDisk
      BY <2>1 DEF OnDisk
    <3>6. Exchange!Exchange(f)
      BY <3>4, <3>5 DEF Exchange!Exchange, OnDisk
    <3> QED
      BY <2>1, <3>6 DEF Exchange!Next
  <2>3. CASE pc'[t] = "revert"
    <3>1. \A u \in Threads : u \in Swapping' <=> u \in Swapping
      BY <2>1, <2>3 DEF Swapping
    <3> QED
      BY <2>1, <3>1, SettledStays DEF OnDisk
  <2>4. pc'[t] \in {"stop", "revert"}
    BY <1>18 DEF Charge, Goto, LocksInv, TypeOK
  <2> QED
    BY <2>2, <2>3, <2>4
<1>19. ASSUME NEW f \in Files, BufferedWrite(f)
      PROVE  UNCHANGED <<Settled, OnDisk>>
  BY <1>19 DEF BufferedWrite, inodes, journal, locals, Settled, Swapping, Exchanged, OnDisk
<1>20. ASSUME NEW f \in Files, FaultWrite(f)
      PROVE  UNCHANGED <<Settled, OnDisk>>
  BY <1>20 DEF FaultWrite, inodes, journal, locals, Settled, Swapping, Exchanged, OnDisk
<1>21. ASSUME NEW f \in Files, FaultRead(f)
      PROVE  UNCHANGED <<Settled, OnDisk>>
  BY <1>21 DEF FaultRead, inodes, journal, locals, Settled, Swapping, Exchanged, OnDisk
<1>22. ASSUME NEW f \in Files, StartDio(f)
      PROVE  UNCHANGED <<Settled, OnDisk>>
  BY <1>22 DEF StartDio, inodes, journal, locals, Settled, Swapping, Exchanged, OnDisk
<1>23. ASSUME NEW f \in Files, EndDio(f)
      PROVE  UNCHANGED <<Settled, OnDisk>>
  BY <1>23 DEF EndDio, inodes, journal, locals, Settled, Swapping, Exchanged, OnDisk
<1>24. ASSUME NEW f \in Files, Writeback(f)
      PROVE  UNCHANGED <<Settled, OnDisk>>
  BY <1>24 DEF Writeback, inodes, journal, locals, Settled, Swapping, Exchanged, OnDisk
<1>25. ASSUME Commit
      PROVE  Exchange!Next
  <2>1. /\ UNCHANGED <<content, pc, file>> /\ Swapping = {}
        /\ \A n \in Inodes : Seen(disk'.inode[n].content) = Seen(content[n])
    BY <1>25, CommitWrites DEF Commit, inodes, locals, ContentsInv
  <2>2. Settled' = Settled /\ OnDisk' = Settled
    BY <2>1, SettledStays, SettledIs, SettledIsNext DEF SettledRight, OnDisk, Swapping
  <2> QED
    BY <2>2 DEF Exchange!Next, Exchange!Save, OnDisk
<1>26. ASSUME Abort
      PROVE  UNCHANGED <<Settled, OnDisk>>
  BY <1>26 DEF Abort, inodes, locals, Settled, Swapping, Exchanged, OnDisk
<1>27. ASSUME Crash
      PROVE  Exchange!Next
  <2>1. /\ \A n \in Inodes : content'[n] = disk.inode[n].content
        /\ disk' = disk /\ Swapping' = {}
    BY <1>27 DEF Crash, Swapping
  <2>2. Settled' = OnDisk /\ OnDisk' = OnDisk
    BY <2>1, SettledIs, SettledIsNext DEF SettledRight, OnDisk
  <2> QED
    BY <2>2 DEF Exchange!Next, Exchange!Crash, OnDisk
<1>28. ASSUME UNCHANGED vars
      PROVE  UNCHANGED <<Settled, OnDisk>>
  BY <1>28 DEF vars, inodes, journal, locals, Settled, Swapping, Exchanged, OnDisk
<1> QED
  BY <1>1, <1>2, <1>3, <1>4, <1>5, <1>6, <1>7, <1>8, <1>9, <1>10, <1>11,
     <1>12, <1>13, <1>14, <1>15, <1>16, <1>17, <1>18, <1>19, <1>20, <1>21,
     <1>22, <1>23, <1>24, <1>25, <1>26, <1>27, <1>28
     DEF Next, Running, Users

(* The steps of the ioctl, its failures, reverts and the crashes implement *)
(* an exchange of two contents in one step, saved whole or not at all.     *)
THEOREM SwapImplementsExchange == Spec => ImplementsExchange
<1>1. Spec => [][Next]_vars /\ Init
  BY DEF Spec
<1> QED
  BY <1>1, ContentsAlways, InitRefines, NextRefines, PTL DEF ImplementsExchange, Exchange!Spec
=============================================================================
