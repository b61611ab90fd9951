---------------------------- MODULE CountersProofs ----------------------------
(***************************************************************************)
(* The group lock, the counter of unwritten I/O and i_disksize are safe    *)
(* for any number of threads, requests, waiters and inodes.                *)
(***************************************************************************)
EXTENDS Counters, FiniteSetTheorems, TLAPS

-----------------------------------------------------------------------------
(* The group lock.                                                         *)
LockTypeOK ==
  /\ lpc \in [Lockers -> {"out", "relax", "missed", "spin", "in"}]
  /\ s_lock_busy \in Int
LockInv == LockTypeOK /\ GroupLockSafe

(* At most one thread is between taking and releasing the lock of a group, *)
(* and the contention counter stays between 0 and its limit.               *)
THEOREM LockIsSafe == LockSpec => []GroupLockSafe
<1>1. LockInit => LockInv
  BY LockersAssumption
  DEF LockInit, LockInv, LockTypeOK, GroupLockSafe, NoLocker, EXT4_MAX_CONTENTION
<1>2. LockInv /\ [LockNext]_lockVars => LockInv'
  <2> SUFFICES ASSUME LockInv, [LockNext]_lockVars
               PROVE  LockInv'
    OBVIOUS
  <2> USE LockersAssumption
      DEF LockInv, LockTypeOK, GroupLockSafe, NoLocker, LockGo, EXT4_MAX_CONTENTION
  <2>1. ASSUME NEW t \in Lockers, TryLock(t)
        PROVE  LockInv'
    BY <2>1 DEF TryLock
  <2>2. ASSUME NEW t \in Lockers, Relax(t)
        PROVE  LockInv'
    BY <2>2 DEF Relax
  <2>3. ASSUME NEW t \in Lockers, Bump(t)
        PROVE  LockInv'
    BY <2>3 DEF Bump, Least
  <2>4. ASSUME NEW t \in Lockers, Spin(t)
        PROVE  LockInv'
    BY <2>4 DEF Spin
  <2>5. ASSUME NEW t \in Lockers, Unlock(t)
        PROVE  LockInv'
    BY <2>5 DEF Unlock
  <2>6. CASE UNCHANGED lockVars
    BY <2>6 DEF lockVars
  <2> QED
    BY <2>1, <2>2, <2>3, <2>4, <2>5, <2>6 DEF LockNext
<1>3. LockInv => GroupLockSafe
  BY DEF LockInv
<1> QED
  BY <1>1, <1>2, <1>3, PTL DEF LockSpec

-----------------------------------------------------------------------------
(* Unwritten I/O.                                                          *)
IoTypeOK ==
  /\ ioflag \in [IoEnds -> BOOLEAN]
  /\ iopc \in [IoEnds -> {"rest", "inc", "dec", "wake"}]
  /\ i_unwritten \in [Inodes -> Int]
  /\ wpc \in [Waiters -> {"out", "queued", "asleep"}]

(* Between the change of its flag and that of the counter a request is on  *)
(* its way up with the flag set, or on its way down with the flag clear.   *)
Underway ==
  \A e \in IoEnds : /\ iopc[e] = "inc" => ioflag[e]
                    /\ iopc[e] \in {"dec", "wake"} => ~ioflag[e]
IoInv == IoTypeOK /\ Underway /\ UnwrittenSafe

LEMMA CountedFinite ==
  ASSUME NEW i
  PROVE  IsFiniteSet(Counted(i)) /\ Cardinality(Counted(i)) \in Nat
<1>1. Counted(i) \in SUBSET IoEnds
  BY DEF Counted
<1>2. IsFiniteSet(Counted(i))
  BY <1>1, IoEndsAssumption, FS_Subset
<1> QED
  BY <1>2, FS_CardinalityType

LEMMA InodeOf ==
  /\ \A e \in IoEnds : IoInode[e] \in Inodes
  /\ \A w \in Waiters : WaitInode[w] \in Inodes
BY DEF Inodes

(* A step that leaves the counters alone, and which requests they count.   *)
LEMMA SameCount ==
  ASSUME IoInv, i_unwritten' = i_unwritten, \A i \in Inodes : Counted(i)' = Counted(i)
  PROVE  \A i \in Inodes : i_unwritten'[i] = Cardinality(Counted(i)')
BY DEF IoInv, UnwrittenSafe

(* The counter of an inode is the number of its requests that are set or   *)
(* about to be counted down, and no waiter sleeps through its wakeup.      *)
THEOREM UnwrittenIsSafe == IoSpec => []UnwrittenSafe
<1>1. IoInit => IoInv
  <2> SUFFICES ASSUME IoInit
               PROVE  IoInv
    OBVIOUS
  <2>1. IoTypeOK /\ Underway
    BY DEF IoInit, IoTypeOK, Underway
  <2>2. \A i \in Inodes : Counted(i) = {}
    BY DEF IoInit, Counted
  <2>3. \A i \in Inodes : i_unwritten[i] = Cardinality(Counted(i))
    BY <2>2, FS_EmptySet DEF IoInit
  <2>4. \A w \in Waiters : wpc[w] # "asleep"
    BY DEF IoInit
  <2> QED
    BY <2>1, <2>3, <2>4 DEF IoInv, UnwrittenSafe
<1>2. IoInv /\ [IoNext]_ioVars => IoInv'
  <2> SUFFICES ASSUME IoInv, [IoNext]_ioVars
               PROVE  IoInv'
    OBVIOUS
  <2> USE InodeOf DEF IoInv, IoTypeOK, Underway
  <2>1. ASSUME NEW e \in IoEnds, SetFlag(e)
        PROVE  IoInv'
    <3>1. IoTypeOK' /\ Underway'
      BY <2>1 DEF SetFlag
    <3>2. \A i \in Inodes : Counted(i)' = Counted(i)
      BY <2>1 DEF SetFlag, Counted
    <3>3. i_unwritten' = i_unwritten
      BY <2>1 DEF SetFlag
    <3>4. \A w \in Waiters : wpc'[w] = "asleep" /\ i_unwritten'[WaitInode[w]] = 0 =>
            \E f \in IoEnds : iopc'[f] = "wake"
      BY <2>1 DEF SetFlag, UnwrittenSafe
    <3> QED
      BY <3>1, <3>2, <3>3, <3>4, SameCount DEF UnwrittenSafe
  <2>2. ASSUME NEW e \in IoEnds, Increment(e)
        PROVE  IoInv'
    <3>1. IoTypeOK' /\ Underway'
      BY <2>2 DEF Increment
    <3>2. ASSUME NEW i \in Inodes
          PROVE  i_unwritten'[i] = Cardinality(Counted(i)')
      <4>1. CASE i = IoInode[e]
        <5>1. Counted(i)' = Counted(i) \cup {e} /\ e \notin Counted(i)
          BY <2>2, <4>1 DEF Increment, Counted
        <5>2. Cardinality(Counted(i)') = Cardinality(Counted(i)) + 1
          BY <5>1, CountedFinite, FS_AddElement
        <5> QED
          BY <2>2, <4>1, <5>2 DEF Increment, UnwrittenSafe
      <4>2. CASE i # IoInode[e]
        <5>1. Counted(i)' = Counted(i)
          BY <2>2, <4>2 DEF Increment, Counted
        <5> QED
          BY <2>2, <4>2, <5>1 DEF Increment, UnwrittenSafe
      <4> QED
        BY <4>1, <4>2
    <3>3. ASSUME NEW w \in Waiters, wpc'[w] = "asleep", i_unwritten'[WaitInode[w]] = 0
          PROVE  \E f \in IoEnds : iopc'[f] = "wake"
      <4>1. i_unwritten[IoInode[e]] >= 0
        BY CountedFinite DEF UnwrittenSafe
      <4>2. WaitInode[w] # IoInode[e]
        BY <2>2, <3>3, <4>1 DEF Increment
      <4>3. PICK f \in IoEnds : iopc[f] = "wake"
        BY <2>2, <3>3, <4>2 DEF Increment, UnwrittenSafe
      <4> QED
        BY <2>2, <4>3 DEF Increment
    <3> QED
      BY <3>1, <3>2, <3>3 DEF UnwrittenSafe
  <2>3. ASSUME NEW e \in IoEnds, ClearFlag(e)
        PROVE  IoInv'
    <3>1. IoTypeOK' /\ Underway'
      BY <2>3 DEF ClearFlag
    <3>2. \A i \in Inodes : Counted(i)' = Counted(i)
      BY <2>3 DEF ClearFlag, Counted
    <3>3. i_unwritten' = i_unwritten
      BY <2>3 DEF ClearFlag
    <3>4. \A w \in Waiters : wpc'[w] = "asleep" /\ i_unwritten'[WaitInode[w]] = 0 =>
            \E f \in IoEnds : iopc'[f] = "wake"
      BY <2>3 DEF ClearFlag, UnwrittenSafe
    <3> QED
      BY <3>1, <3>2, <3>3, <3>4, SameCount DEF UnwrittenSafe
  <2>4. ASSUME NEW e \in IoEnds, Decrement(e)
        PROVE  IoInv'
    <3>1. IoTypeOK' /\ Underway'
      BY <2>4 DEF Decrement
    <3>2. ASSUME NEW i \in Inodes
          PROVE  i_unwritten'[i] = Cardinality(Counted(i)')
      <4>1. CASE i = IoInode[e]
        <5>1. Counted(i)' = Counted(i) \ {e} /\ e \in Counted(i)
          BY <2>4, <4>1 DEF Decrement, Counted
        <5>2. Cardinality(Counted(i)') = Cardinality(Counted(i)) - 1
          BY <5>1, CountedFinite, FS_RemoveElement
        <5> QED
          BY <2>4, <4>1, <5>2 DEF Decrement, UnwrittenSafe
      <4>2. CASE i # IoInode[e]
        <5>1. Counted(i)' = Counted(i)
          BY <2>4, <4>2 DEF Decrement, Counted
        <5> QED
          BY <2>4, <4>2, <5>1 DEF Decrement, UnwrittenSafe
      <4> QED
        BY <4>1, <4>2
    <3>3. ASSUME NEW w \in Waiters, wpc'[w] = "asleep", i_unwritten'[WaitInode[w]] = 0
          PROVE  \E f \in IoEnds : iopc'[f] = "wake"
      <4>1. CASE WaitInode[w] = IoInode[e]
        BY <2>4, <3>3, <4>1 DEF Decrement
      <4>2. CASE WaitInode[w] # IoInode[e]
        <5>1. PICK f \in IoEnds : iopc[f] = "wake"
          BY <2>4, <3>3, <4>2 DEF Decrement, UnwrittenSafe
        <5> QED
          BY <2>4, <5>1 DEF Decrement
      <4> QED
        BY <4>1, <4>2
    <3> QED
      BY <3>1, <3>2, <3>3 DEF UnwrittenSafe
  <2>5. ASSUME NEW e \in IoEnds, Wake(e)
        PROVE  IoInv'
    <3>1. IoTypeOK' /\ Underway'
      BY <2>5 DEF Wake
    <3>2. \A i \in Inodes : Counted(i)' = Counted(i)
      BY <2>5 DEF Wake, Counted
    <3>3. i_unwritten' = i_unwritten
      BY <2>5 DEF Wake
    <3>4. \A w \in Waiters : wpc'[w] # "asleep"
      BY <2>5 DEF Wake
    <3> QED
      BY <3>1, <3>2, <3>3, <3>4, SameCount DEF UnwrittenSafe
  <2>6. ASSUME NEW w \in Waiters, Queue(w) \/ Look(w)
        PROVE  IoInv'
    <3>1. IoTypeOK' /\ Underway'
      BY <2>6 DEF Queue, Look
    <3>2. \A i \in Inodes : Counted(i)' = Counted(i)
      BY <2>6 DEF Queue, Look, Counted
    <3>3. i_unwritten' = i_unwritten /\ iopc' = iopc
      BY <2>6 DEF Queue, Look
    <3>4. \A v \in Waiters : wpc'[v] = "asleep" /\ i_unwritten'[WaitInode[v]] = 0 =>
            wpc[v] = "asleep" /\ i_unwritten[WaitInode[v]] = 0
      BY <2>6 DEF Queue, Look
    <3>5. \A v \in Waiters : wpc'[v] = "asleep" /\ i_unwritten'[WaitInode[v]] = 0 =>
            \E f \in IoEnds : iopc'[f] = "wake"
      BY <3>3, <3>4 DEF UnwrittenSafe
    <3> QED
      BY <3>1, <3>2, <3>3, <3>5, SameCount DEF UnwrittenSafe
  <2>7. CASE UNCHANGED ioVars
    BY <2>7 DEF ioVars, UnwrittenSafe, Counted
  <2> QED
    BY <2>1, <2>2, <2>3, <2>4, <2>5, <2>6, <2>7 DEF IoNext
<1>3. IoInv => UnwrittenSafe
  BY DEF IoInv
<1> QED
  BY <1>1, <1>2, <1>3, PTL DEF IoSpec

-----------------------------------------------------------------------------
(* i_disksize.                                                             *)
SizeTypeOK ==
  /\ i_size \in Nat /\ i_disksize \in Nat
  /\ dpc \in [Writers -> {"out", "look", "update", "locked"}]
  /\ newsize \in [Writers -> Nat]

(* While a writer has i_rwsem, i_size is at least what it wrote up to.     *)
Covered == \A w \in Writers : dpc[w] # "out" => newsize[w] <= i_size
SizeInv == SizeTypeOK /\ Covered /\ SizesOrdered
OnlyTruncated == i_disksize' < i_disksize => i_size' < i_size

LEMMA SizeStep == SizeInv /\ [SizeNext]_sizeVars => SizeInv' /\ OnlyTruncated
<1> SUFFICES ASSUME SizeInv, [SizeNext]_sizeVars
             PROVE  SizeInv' /\ OnlyTruncated
  OBVIOUS
<1> USE MaxSizeAssumption
    DEF SizeInv, SizeTypeOK, Covered, SizesOrdered, OnlyTruncated, SizeGo, RwsemFree
<1>1. ASSUME NEW w \in Writers, RaiseSize(w)
      PROVE  SizeInv' /\ OnlyTruncated
  BY <1>1 DEF RaiseSize
<1>2. ASSUME NEW w \in Writers, LookAtDisksize(w)
      PROVE  SizeInv' /\ OnlyTruncated
  BY <1>2 DEF LookAtDisksize
<1>3. ASSUME NEW w \in Writers, TakeDataSem(w)
      PROVE  SizeInv' /\ OnlyTruncated
  BY <1>3 DEF TakeDataSem
<1>4. ASSUME NEW w \in Writers, UpdateDisksize(w)
      PROVE  SizeInv' /\ OnlyTruncated
  BY <1>4 DEF UpdateDisksize, Raises
<1>5. ASSUME DelayedWrite
      PROVE  SizeInv' /\ OnlyTruncated
  BY <1>5 DEF DelayedWrite
<1>6. ASSUME Writeback
      PROVE  SizeInv' /\ OnlyTruncated
  BY <1>6 DEF Writeback
<1>7. ASSUME Truncate
      PROVE  SizeInv' /\ OnlyTruncated
  BY <1>7 DEF Truncate
<1>8. CASE UNCHANGED sizeVars
  BY <1>8 DEF sizeVars
<1> QED
  BY <1>1, <1>2, <1>3, <1>4, <1>5, <1>6, <1>7, <1>8 DEF SizeNext

(* The size on disk never exceeds the size in memory, and goes back only   *)
(* with it.                                                                *)
THEOREM SizesAreSafe ==
  SizeSpec => []SizesOrdered /\ [][i_disksize' < i_disksize => i_size' < i_size]_sizeVars
<1>1. SizeInit => SizeInv
  BY DEF SizeInit, SizeInv, SizeTypeOK, Covered, SizesOrdered
<1>2. SizeInv /\ [SizeNext]_sizeVars => SizeInv' /\ OnlyTruncated
  BY SizeStep
<1>3. SizeInv => SizesOrdered
  BY DEF SizeInv
<1> QED
  BY <1>1, <1>2, <1>3, PTL DEF SizeSpec, OnlyTruncated

(* All three are safe, side by side.                                       *)
THEOREM AlwaysSafe == LockSpec /\ IoSpec /\ SizeSpec => CountersSafe
BY LockIsSafe, UnwrittenIsSafe, SizesAreSafe, PTL DEF CountersSafe
=============================================================================
