------------------------------- MODULE Counters -------------------------------
(***************************************************************************)
(* Three pieces of shared state that ext4.h changes in small inline        *)
(* functions: the group lock with its contention counter, the counter of   *)
(* unwritten I/O with its waiters, and i_disksize, which is looked at      *)
(* before its lock is taken.  They have no state in common; each has an    *)
(* initial predicate and a next-state relation of its own.                 *)
(***************************************************************************)
EXTENDS Integers, FiniteSets

CONSTANTS Lockers,    \* threads that take one group lock
          IoEnds,     \* I/O requests of IoInode
          Waiters,    \* threads that wait for the unwritten I/O of WaitInode
          IoInode, WaitInode,  \* functions to inodes; the inodes share a wait queue
          Writers,    \* threads that extend a file under i_rwsem
          MaxSize     \* bound on the size of the file

ASSUME MaxSizeAssumption == MaxSize \in Nat
ASSUME LockersAssumption == "none" \notin Lockers
ASSUME IoEndsAssumption == IsFiniteSet(IoEnds)

NoLocker == "none"
Least(a, b) == IF a < b THEN a ELSE b

-----------------------------------------------------------------------------
(* The group lock.                                                         *)
EXT4_MAX_CONTENTION == 8

VARIABLES lpc,         \* where a locker is
          holder,      \* who has the lock
          s_lock_busy
lockVars == <<lpc, holder, s_lock_busy>>

LockInit ==
  /\ lpc = [t \in Lockers |-> "out"]
  /\ holder = NoLocker
  /\ s_lock_busy = 0

LockGo(t, to) == lpc' = [lpc EXCEPT ![t] = to]

TryLock(t) ==
  /\ lpc[t] = "out"
  /\ IF holder = NoLocker THEN holder' = t /\ LockGo(t, "relax")
                          ELSE UNCHANGED holder /\ LockGo(t, "missed")
  /\ UNCHANGED s_lock_busy

(* The lock was free: the file system is less busy.                        *)
Relax(t) ==
  /\ lpc[t] = "relax"
  /\ s_lock_busy' = IF s_lock_busy = 0 THEN 0 ELSE s_lock_busy - 1
  /\ LockGo(t, "in")
  /\ UNCHANGED holder

(* It was not: the file system is busier, and the locker waits.            *)
Bump(t) ==
  /\ lpc[t] = "missed"
  /\ s_lock_busy' = Least(s_lock_busy + 1, EXT4_MAX_CONTENTION)
  /\ LockGo(t, "spin")
  /\ UNCHANGED holder

Spin(t) ==
  /\ lpc[t] = "spin" /\ holder = NoLocker
  /\ holder' = t
  /\ LockGo(t, "in")
  /\ UNCHANGED s_lock_busy

Unlock(t) ==
  /\ lpc[t] = "in"
  /\ holder' = NoLocker
  /\ LockGo(t, "out")
  /\ UNCHANGED s_lock_busy

LockNext == \E t \in Lockers : TryLock(t) \/ Relax(t) \/ Bump(t) \/ Spin(t) \/ Unlock(t)

(* The group is changed by one at a time, and the counter of contention    *)
(* stays between its limits.                                               *)
GroupLockSafe ==
  /\ \A t \in Lockers : lpc[t] \in {"relax", "in"} <=> holder = t
  /\ s_lock_busy \in 0 .. EXT4_MAX_CONTENTION

-----------------------------------------------------------------------------
(* Unwritten I/O.                                                          *)
VARIABLES ioflag,      \* EXT4_IO_END_UNWRITTEN of a request
          iopc,        \* where its owner is
          i_unwritten,
          wpc          \* where a waiter is
ioVars == <<ioflag, iopc, i_unwritten, wpc>>

Inodes == {IoInode[e] : e \in IoEnds} \cup {WaitInode[w] : w \in Waiters}

IoInit ==
  /\ ioflag = [e \in IoEnds |-> FALSE] /\ iopc = [e \in IoEnds |-> "rest"]
  /\ i_unwritten = [i \in Inodes |-> 0]
  /\ wpc = [w \in Waiters |-> "out"]

(* A request whose flag is already set, or clear, changes nothing.         *)
SetFlag(e) ==
  /\ iopc[e] = "rest" /\ ~ioflag[e]
  /\ ioflag' = [ioflag EXCEPT ![e] = TRUE]
  /\ iopc' = [iopc EXCEPT ![e] = "inc"]
  /\ UNCHANGED <<i_unwritten, wpc>>

Increment(e) ==
  /\ iopc[e] = "inc"
  /\ i_unwritten' = [i_unwritten EXCEPT ![IoInode[e]] = @ + 1]
  /\ iopc' = [iopc EXCEPT ![e] = "rest"]
  /\ UNCHANGED <<ioflag, wpc>>

ClearFlag(e) ==
  /\ iopc[e] = "rest" /\ ioflag[e]
  /\ ioflag' = [ioflag EXCEPT ![e] = FALSE]
  /\ iopc' = [iopc EXCEPT ![e] = "dec"]
  /\ UNCHANGED <<i_unwritten, wpc>>

Decrement(e) ==
  /\ iopc[e] = "dec"
  /\ i_unwritten' = [i_unwritten EXCEPT ![IoInode[e]] = @ - 1]
  /\ iopc' = [iopc EXCEPT ![e] = IF i_unwritten[IoInode[e]] = 1 THEN "wake" ELSE "rest"]
  /\ UNCHANGED <<ioflag, wpc>>

(* wake_up_all of the queue, which other inodes share.                     *)
Wake(e) ==
  /\ iopc[e] = "wake"
  /\ wpc' = [w \in Waiters |-> IF wpc[w] = "asleep" THEN "queued" ELSE wpc[w]]
  /\ iopc' = [iopc EXCEPT ![e] = "rest"]
  /\ UNCHANGED <<ioflag, i_unwritten>>

(* wait_event: on the queue first, then the look at the counter.           *)
Queue(w) ==
  /\ wpc[w] = "out"
  /\ wpc' = [wpc EXCEPT ![w] = "queued"]
  /\ UNCHANGED <<ioflag, iopc, i_unwritten>>

Look(w) ==
  /\ wpc[w] = "queued"
  /\ wpc' = [wpc EXCEPT ![w] = IF i_unwritten[WaitInode[w]] = 0 THEN "out" ELSE "asleep"]
  /\ UNCHANGED <<ioflag, iopc, i_unwritten>>

IoNext ==
  \/ \E e \in IoEnds : SetFlag(e) \/ Increment(e) \/ ClearFlag(e) \/ Decrement(e) \/ Wake(e)
  \/ \E w \in Waiters : Queue(w) \/ Look(w)

(* The counter is the number of requests that count, and nobody sleeps on  *)
(* a counter that is zero unless somebody is about to wake the queue.      *)
Counted(i) ==
  {e \in IoEnds : IoInode[e] = i /\ ((ioflag[e] /\ iopc[e] # "inc") \/ iopc[e] = "dec")}
UnwrittenSafe ==
  /\ \A i \in Inodes : i_unwritten[i] = Cardinality(Counted(i))
  /\ \A w \in Waiters : wpc[w] = "asleep" /\ i_unwritten[WaitInode[w]] = 0 =>
       \E e \in IoEnds : iopc[e] = "wake"

-----------------------------------------------------------------------------
(* i_disksize.                                                             *)
VARIABLES i_size, i_disksize,
          dpc,         \* where a writer is
          newsize,     \* its argument
          i_data_sem   \* who has it
sizeVars == <<i_size, i_disksize, dpc, newsize, i_data_sem>>

SizeInit ==
  /\ i_size = 0 /\ i_disksize = 0 /\ i_data_sem = NoLocker
  /\ dpc = [w \in Writers |-> "out"] /\ newsize = [w \in Writers |-> 0]

RwsemFree == \A w \in Writers : dpc[w] = "out"
SizeGo(w, to) == dpc' = [dpc EXCEPT ![w] = to]

(* ext4_update_inode_size, under i_rwsem, raises i_size ...                *)
RaiseSize(w) ==
  /\ RwsemFree
  /\ \E n \in 1 .. MaxSize :
       /\ newsize' = [newsize EXCEPT ![w] = n]
       /\ i_size' = IF n > i_size THEN n ELSE i_size
  /\ SizeGo(w, "look")
  /\ UNCHANGED <<i_disksize, i_data_sem>>

(* ... and looks at i_disksize without i_data_sem.                         *)
LookAtDisksize(w) ==
  /\ dpc[w] = "look"
  /\ SizeGo(w, IF newsize[w] > i_disksize THEN "update" ELSE "out")
  /\ UNCHANGED <<i_size, i_disksize, newsize, i_data_sem>>

TakeDataSem(w) ==
  /\ dpc[w] = "update" /\ i_data_sem = NoLocker
  /\ i_data_sem' = w
  /\ SizeGo(w, "locked")
  /\ UNCHANGED <<i_size, i_disksize, newsize>>

(* ext4_update_i_disksize looks once more.                                 *)
RaisesAlways(w) == TRUE
Raises(w) == newsize[w] > i_disksize
UpdateDisksize(w) ==
  /\ dpc[w] = "locked"
  /\ i_disksize' = IF Raises(w) THEN newsize[w] ELSE i_disksize
  /\ i_data_sem' = NoLocker
  /\ SizeGo(w, "out")
  /\ UNCHANGED <<i_size, newsize>>

(* A delayed write raises i_size alone; writeback follows it, without      *)
(* i_rwsem; truncate has both locks.                                       *)
DelayedWrite ==
  /\ RwsemFree
  /\ \E n \in i_size + 1 .. MaxSize : i_size' = n
  /\ UNCHANGED <<i_disksize, dpc, newsize, i_data_sem>>
Writeback ==
  /\ i_data_sem = NoLocker
  /\ \E n \in i_disksize + 1 .. i_size : i_disksize' = n
  /\ UNCHANGED <<i_size, dpc, newsize, i_data_sem>>
Truncate ==
  /\ RwsemFree /\ i_data_sem = NoLocker
  /\ \E n \in 0 .. i_size - 1 : i_size' = n /\ i_disksize' = n
  /\ UNCHANGED <<dpc, newsize, i_data_sem>>

SizeNext ==
  \/ \E w \in Writers : RaiseSize(w) \/ LookAtDisksize(w) \/ TakeDataSem(w) \/ UpdateDisksize(w)
  \/ DelayedWrite \/ Writeback \/ Truncate

(* The size on disk never runs ahead of the size in memory.                *)
SizesOrdered == i_disksize <= i_size

-----------------------------------------------------------------------------
LockSpec == LockInit /\ [][LockNext]_lockVars
IoSpec == IoInit /\ [][IoNext]_ioVars
SizeSpec == SizeInit /\ [][SizeNext]_sizeVars

(* The counters say what they count, no waiter misses its wakeup, and only *)
(* a truncation takes i_disksize back: the look without the lock, which    *)
(* writeback may overtake, does not.                                       *)
CountersSafe ==
  /\ [](GroupLockSafe /\ UnwrittenSafe /\ SizesOrdered)
  /\ [][i_disksize' < i_disksize => i_size' < i_size]_sizeVars
=============================================================================
