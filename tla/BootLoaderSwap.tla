---------------------------- MODULE BootLoaderSwap ----------------------------
(***************************************************************************)
(* EXT4_IOC_SWAP_BOOT: swap_inode_boot_loader of ioctl.c, called by        *)
(* several threads for several files, beside writers, readers and direct   *)
(* I/O on those files, the journal and crashes.  All that swap_inode_data  *)
(* exchanges (extents, sizes, times, version, the flags that should swap)  *)
(* is one value, the content of the inode.                                 *)
(***************************************************************************)
EXTENDS Integers, FiniteSets

CONSTANTS Threads,
          Files,       \* inodes the caller may swap
          Boot,        \* EXT4_BOOT_LOADER_INO
          Blocks,      \* Blocks[f]: i_blocks of the content f is made with
          Unused,      \* content of a boot loader inode never used
          Empty,       \* content given to it at its first use
          Nobody,      \* no thread
          NoPages,     \* no page of the file is cached
          Generations, \* values of get_random_u32
          Faults       \* calls that may fail: subset of FaultKinds

FaultKinds == {"flush", "start", "dquot", "markfile", "markboot", "quota",
               "abort"}

ASSUME InodesAssumption ==
  /\ Boot \notin Files /\ IsFiniteSet(Files) /\ Files # {}
  /\ Blocks \in [Files -> Nat]
  /\ Unused \notin Files /\ Empty \notin Files /\ Unused # Empty
  /\ Nobody \notin Threads /\ NoPages \notin Files \cup {Unused, Empty}
  /\ Generations # {} /\ Faults \subseteq FaultKinds

Inodes == Files \cup {Boot}

VARIABLES
  content,     \* content[n]: what inode n holds
  blocks,      \* blocks[n]: i_blocks and i_bytes
  generation,  \* generation[n]: i_generation, which i_csum_seed follows
  quota,       \* space charged to the owner of the files
  marked,      \* inodes whose current state is in the running transaction
  txn,         \* txn[n]: the state of n last put into the transaction
  disk,        \* what recovery finds: [inode, quota]
  aborted,     \* the journal is aborted
  pc, file,    \* the next step of t, and its inode argument
  lock,        \* lock[n]: the thread that holds n's i_rwsem, or Nobody
  inval,       \* inval[f]: the thread that holds f's invalidate_lock
  handle,      \* t has an open handle
  diff,        \* the local diff
  saved,       \* the locals blocks and bytes
  dirtyPages,  \* files with page cache data not yet written
  pages,       \* pages[f]: the content the cached pages of f belong to
  dio          \* files with direct I/O in flight

inodes  == <<content, blocks, generation, quota>>
journal == <<marked, txn, disk, aborted>>
cache   == <<dirtyPages, pages, dio>>
locals  == <<file, diff, saved>>
vars == <<inodes, journal, cache, locals, pc, lock, inval, handle>>

Contents == Files \cup {Unused, Empty}
Weight(c) == IF c \in Files THEN Blocks[c] ELSE 0
Image(n) == [content |-> content[n], blocks |-> blocks[n],
             generation |-> generation[n]]
AnyFile == CHOOSE f \in Files : TRUE

(* The space of the files, as a set with one element for each block.  What *)
(* all contents take is theirs but for what the boot loader inode holds.   *)
Units(b) == UNION {{f} \X (0 .. b[f] - 1) : f \in Files}
HeldByFiles(inBoot) == Cardinality(Units(Blocks)) - inBoot

Init ==
  /\ content = [n \in Inodes |-> IF n = Boot THEN Unused ELSE n]
  /\ blocks = [n \in Inodes |-> Weight(content[n])]
  /\ \E g \in Generations : generation = [n \in Inodes |-> g]
  /\ quota = Cardinality(Units(blocks))
  /\ marked = {} /\ txn = [n \in Inodes |-> Image(n)] /\ aborted = FALSE
  /\ disk = [inode |-> txn, quota |-> quota]
  /\ pc = [t \in Threads |-> "idle"] /\ file = [t \in Threads |-> AnyFile]
  /\ lock = [n \in Inodes |-> Nobody] /\ inval = [f \in Files |-> Nobody]
  /\ handle = [t \in Threads |-> FALSE]
  /\ diff = [t \in Threads |-> 0] /\ saved = [t \in Threads |-> 0]
  /\ dirtyPages = {} /\ dio = {} /\ pages = [f \in Files |-> NoPages]

-----------------------------------------------------------------------------
Goto(t, from, to) == pc[t] = from /\ pc' = [pc EXCEPT ![t] = to]

(* ext4_iget of the boot loader inode and lock_two_nondirectories, which   *)
(* takes the two locks in the order of their addresses.                    *)
LockBoth(t) ==
  /\ Goto(t, "idle", "check")
  /\ lock[Boot] = Nobody
  /\ \E f \in Files :
       /\ lock[f] = Nobody
       /\ file' = [file EXCEPT ![t] = f]
       /\ lock' = [lock EXCEPT ![f] = t, ![Boot] = t]
  /\ UNCHANGED <<inodes, journal, cache, diff, saved, inval, handle>>

(* Links, type, swap file, encryption, data journalling, inline data;      *)
(* read-only, append-only, immutable, ownership and capability.            *)
Check(t) ==
  /\ \/ Goto(t, "check", "unlock")
     \/ Goto(t, "check", "invalidate")
  /\ UNCHANGED <<inodes, journal, cache, locals, lock, inval, handle>>

SkipInval(t) ==
  /\ Goto(t, "invalidate", "flush")
  /\ UNCHANGED <<inodes, journal, cache, locals, lock, inval, handle>>
TakeInval(t) ==
  /\ Goto(t, "invalidate", "flush")
  /\ inval[file[t]] = Nobody
  /\ inval' = [inval EXCEPT ![file[t]] = t]
  /\ UNCHANGED <<inodes, journal, cache, locals, lock, handle>>

(* filemap_write_and_wait of both mappings.                                *)
FlushNothing(t) == dirtyPages
FlushFile(t) == dirtyPages \ {file[t]}

Flush(t) ==
  /\ \/ Goto(t, "flush", "wait") /\ dirtyPages' = FlushFile(t)
     \/ "flush" \in Faults /\ Goto(t, "flush", "uninval") /\ UNCHANGED dirtyPages
  /\ UNCHANGED <<inodes, journal, pages, dio, locals, lock, inval, handle>>

(* inode_dio_wait, truncate_inode_pages                                    *)
NoWait(t) == TRUE
DioDone(t) == file[t] \notin dio

WaitAndDrop(t) ==
  /\ Goto(t, "wait", "start")
  /\ DioDone(t)
  /\ pages' = [pages EXCEPT ![file[t]] = NoPages]
  /\ dirtyPages' = dirtyPages \ {file[t]}
  /\ UNCHANGED <<inodes, journal, dio, locals, lock, inval, handle>>

StartHandle(t) ==
  /\ \/ /\ ~aborted
        /\ Goto(t, "start", "init")
        /\ handle' = [handle EXCEPT ![t] = TRUE]
     \/ /\ aborted \/ "start" \in Faults
        /\ Goto(t, "start", "uninval")
        /\ UNCHANGED handle
  /\ UNCHANGED <<inodes, journal, cache, locals, lock, inval>>

(* A boot loader inode that was never used becomes an empty regular file.  *)
InitBoot(t) ==
  /\ Goto(t, "init", "dquot")
  /\ content' = [content EXCEPT ![Boot] = IF @ = Unused THEN Empty ELSE @]
  /\ UNCHANGED <<blocks, generation, quota, journal, cache, locals, lock, inval,
                 handle>>

(* dquot_initialize, then the difference in size is computed.              *)
Difference(t) == blocks[file[t]] - blocks[Boot]

Dquot(t) ==
  /\ \/ /\ Goto(t, "dquot", "swap")
        /\ diff' = [diff EXCEPT ![t] = Difference(t)]
     \/ /\ "dquot" \in Faults
        /\ Goto(t, "dquot", "stop")
        /\ UNCHANGED diff
  /\ UNCHANGED <<inodes, journal, cache, file, saved, lock, inval, handle>>

-----------------------------------------------------------------------------
Exchanged(f) == [content EXCEPT ![f] = content[Boot], ![Boot] = content[f]]
Fresh(f) == {[generation EXCEPT ![f] = a, ![Boot] = b] :
               a \in Generations, b \in Generations}

(* swap_inode_data, new generations, new checksum seeds.                   *)
Swap(t) ==
  /\ Goto(t, "swap", "markfile")
  /\ content' = Exchanged(file[t])
  /\ generation' \in Fresh(file[t])
  /\ UNCHANGED <<blocks, quota, journal, cache, locals, lock, inval, handle>>

(* ext4_mark_inode_dirty: the inode's state goes into the transaction.     *)
Mark(n) ==
  /\ ~aborted
  /\ txn' = [txn EXCEPT ![n] = Image(n)']
  /\ marked' = marked \cup {n}

(* The block of an inode that is in the transaction already is at hand:    *)
(* marking that inode again fails only if the journal is aborted.          *)
MarkAgain(n) ==
  \/ Mark(n)
  \/ (aborted \/ n \notin marked) /\ UNCHANGED <<marked, txn>>

MarkFile(t) ==
  /\ UNCHANGED <<inodes, disk, aborted, cache, locals, lock, inval, handle>>
  /\ \/ /\ Goto(t, "markfile", "markboot")
        /\ Mark(file[t])
     \/ /\ aborted \/ "markfile" \in Faults
        /\ Goto(t, "markfile", "remark")
        /\ UNCHANGED <<marked, txn>>

(* "No need to update quota information": the first revert.                *)
KeepSwap(t) == UNCHANGED content
UndoSwap(t) == content' = Exchanged(file[t])

Remark(t) ==
  /\ UNCHANGED <<blocks, generation, quota, disk, aborted, cache, locals, lock,
                 inval, handle>>
  /\ Goto(t, "remark", "stop")
  /\ UndoSwap(t)
  /\ MarkAgain(file[t])

(* The boot loader inode takes the file's block count and is marked.       *)
SkipBoot(t) == UNCHANGED <<marked, txn>>
SaveBoot(t) == Mark(Boot)

MarkBoot(t) ==
  /\ UNCHANGED <<content, generation, quota, disk, aborted, cache, file, diff,
                 lock, inval, handle>>
  /\ saved' = [saved EXCEPT ![t] = blocks[Boot]]
  /\ blocks' = [blocks EXCEPT ![Boot] = blocks[file[t]]]
  /\ \/ /\ Goto(t, "markboot", "quota")
        /\ SaveBoot(t)
     \/ /\ aborted \/ "markboot" \in Faults
        /\ Goto(t, "markboot", "revert")
        /\ UNCHANGED <<marked, txn>>

(* dquot_free_space, dquot_alloc_space: the quota, the file's block count, *)
(* and the inode marked with it.                                           *)
Charged(t) == quota - diff[t]

Charge(t) ==
  /\ UNCHANGED <<content, generation, disk, aborted, cache, locals, lock, inval,
                 handle>>
  /\ \/ /\ Goto(t, "quota", "stop")
        /\ blocks' = [blocks EXCEPT ![file[t]] = @ - diff[t]]
        /\ quota' = Charged(t)
        /\ MarkAgain(file[t])
     \/ /\ diff[t] < 0 /\ "quota" \in Faults
        /\ Goto(t, "quota", "revert")
        /\ UNCHANGED <<blocks, quota, marked, txn>>

(* revert: block count, contents, both inodes marked again.                *)
Revert(t) ==
  /\ UNCHANGED <<generation, quota, disk, aborted, cache, locals, lock, inval,
                 handle>>
  /\ Goto(t, "revert", "done")
  /\ blocks' = [blocks EXCEPT ![Boot] = saved[t]]
  /\ UndoSwap(t)
  /\ MarkAgain(file[t])

RevertBoot(t) ==
  /\ UNCHANGED <<inodes, disk, aborted, cache, locals, lock, inval, handle>>
  /\ Goto(t, "done", "stop")
  /\ MarkAgain(Boot)

-----------------------------------------------------------------------------
(* The exits: err_out1, err_out, journal_err_out.                          *)
Stop(t) ==
  /\ Goto(t, "stop", "uninval")
  /\ handle' = [handle EXCEPT ![t] = FALSE]
  /\ UNCHANGED <<inodes, journal, cache, locals, lock, inval>>

KeepInval(t) == inval
DropInval(t) == [inval EXCEPT ![file[t]] = Nobody]

Uninval(t) ==
  /\ Goto(t, "uninval", "unlock")
  /\ inval' = DropInval(t)
  /\ UNCHANGED <<inodes, journal, cache, locals, lock, handle>>

UnlockOne(t) == [lock EXCEPT ![file[t]] = Nobody]
UnlockTwo(t) == [lock EXCEPT ![file[t]] = Nobody, ![Boot] = Nobody]

Unlock(t) ==
  /\ Goto(t, "unlock", "idle")
  /\ lock' = UnlockTwo(t)
  /\ file' = [file EXCEPT ![t] = AnyFile]
  /\ diff' = [diff EXCEPT ![t] = 0]
  /\ saved' = [saved EXCEPT ![t] = 0]
  /\ UNCHANGED <<inodes, journal, cache, inval, handle>>

-----------------------------------------------------------------------------
(* The other users of the files: buffered and direct I/O start under the   *)
(* inode lock, page faults under the invalidate lock.                      *)
Touch(f) == pages' = [pages EXCEPT ![f] = content[f]]

BufferedWrite(f) ==
  /\ lock[f] = Nobody /\ Touch(f) /\ dirtyPages' = dirtyPages \cup {f}
  /\ UNCHANGED <<inodes, journal, dio, locals, pc, lock, inval, handle>>

FaultWrite(f) ==
  /\ inval[f] = Nobody /\ Touch(f) /\ dirtyPages' = dirtyPages \cup {f}
  /\ UNCHANGED <<inodes, journal, dio, locals, pc, lock, inval, handle>>

FaultRead(f) ==
  /\ inval[f] = Nobody /\ Touch(f)
  /\ UNCHANGED <<inodes, journal, dirtyPages, dio, locals, pc, lock, inval, handle>>

StartDio(f) ==
  /\ lock[f] = Nobody /\ f \notin dio /\ dio' = dio \cup {f}
  /\ UNCHANGED <<inodes, journal, dirtyPages, pages, locals, pc, lock, inval, handle>>

EndDio(f) ==
  /\ f \in dio /\ dio' = dio \ {f}
  /\ UNCHANGED <<inodes, journal, dirtyPages, pages, locals, pc, lock, inval, handle>>

Writeback(f) ==
  /\ f \in dirtyPages /\ dirtyPages' = dirtyPages \ {f}
  /\ UNCHANGED <<inodes, journal, pages, dio, locals, pc, lock, inval, handle>>

-----------------------------------------------------------------------------
(* jbd2, power failure and recovery.                                       *)
MayCommit == \A t \in Threads : ~handle[t]

Commit ==
  /\ ~aborted /\ MayCommit /\ marked # {}
  /\ disk' = [inode |-> [n \in Inodes |-> IF n \in marked THEN txn[n]
                                          ELSE disk.inode[n]],
              quota |-> quota]
  /\ marked' = {}
  /\ UNCHANGED <<inodes, txn, aborted, cache, locals, pc, lock, inval, handle>>

Abort ==
  /\ "abort" \in Faults /\ ~aborted /\ aborted' = TRUE
  /\ UNCHANGED <<inodes, marked, txn, disk, cache, locals, pc, lock, inval, handle>>

Crash ==
  /\ content' = [n \in Inodes |-> disk.inode[n].content]
  /\ blocks' = [n \in Inodes |-> disk.inode[n].blocks]
  /\ generation' = [n \in Inodes |-> disk.inode[n].generation]
  /\ quota' = disk.quota
  /\ marked' = {} /\ txn' = disk.inode /\ aborted' = FALSE
  /\ pc' = [t \in Threads |-> "idle"] /\ file' = [t \in Threads |-> AnyFile]
  /\ lock' = [n \in Inodes |-> Nobody] /\ inval' = [f \in Files |-> Nobody]
  /\ handle' = [t \in Threads |-> FALSE]
  /\ diff' = [t \in Threads |-> 0] /\ saved' = [t \in Threads |-> 0]
  /\ dirtyPages' = {} /\ dio' = {} /\ pages' = [f \in Files |-> NoPages]
  /\ UNCHANGED disk

Running(t) ==
  \/ Check(t) \/ TakeInval(t) \/ Flush(t) \/ WaitAndDrop(t) \/ StartHandle(t)
  \/ InitBoot(t) \/ Dquot(t) \/ Swap(t) \/ MarkFile(t) \/ Remark(t)
  \/ MarkBoot(t) \/ Charge(t) \/ Revert(t) \/ RevertBoot(t)
  \/ Stop(t) \/ Uninval(t) \/ Unlock(t)

Users(f) ==
  \/ BufferedWrite(f) \/ FaultWrite(f) \/ FaultRead(f)
  \/ StartDio(f) \/ EndDio(f) \/ Writeback(f)

Next ==
  \/ \E t \in Threads : LockBoth(t) \/ Running(t)
  \/ \E f \in Files : Users(f)
  \/ Commit \/ Abort \/ Crash

Spec == Init /\ [][Next]_vars

(* A call that has the locks runs on; direct I/O ends; the locks are taken *)
(* by those who wait for them.                                             *)
FairSpec ==
  /\ Spec
  /\ \A t \in Threads : WF_vars(Running(t)) /\ SF_vars(LockBoth(t))
  /\ \A f \in Files : WF_vars(EndDio(f))

-----------------------------------------------------------------------------
(* A call holds its two inode locks from lock_two_nondirectories on, the   *)
(* invalidate lock and the handle in between, and nothing after its        *)
(* return, whichever of its eight exits it took.                           *)
Released ==
  \A t \in Threads :
    /\ \A n \in Inodes : lock[n] = t <=> pc[t] # "idle" /\ n \in {file[t], Boot}
    /\ \A f \in Files : inval[f] = t <=>
         f = file[t] /\ pc[t] \notin {"idle", "check", "invalidate", "unlock"}
    /\ handle[t] <=> pc[t] \in {"init", "dquot", "swap", "markfile", "markboot",
                               "quota", "done", "remark", "revert", "stop"}

(* After a crash no two inodes own the same blocks, no contents are lost,  *)
(* every inode counts the blocks of what it holds and the quota is what    *)
(* the files hold: both inodes and the quota change in one transaction,    *)
(* and a reverted swap leaves no half of it there.                         *)
CrashKeepsContents ==
  /\ \A m, n \in Inodes :
       disk.inode[m].content = disk.inode[n].content => m = n
  /\ \A n \in Inodes :
       disk.inode[n].blocks = Weight(disk.inode[n].content)
  /\ disk.quota = HeldByFiles(disk.inode[Boot].blocks)

(* The same in memory, whenever no call is between its swap and its end.   *)
Swapping == {t \in Threads : pc[t] \in {"markfile", "remark", "markboot",
                                        "quota", "revert"}}
MemoryKeepsContents ==
  Swapping = {} =>
    /\ \A m, n \in Inodes : content[m] = content[n] => m = n
    /\ \A n \in Inodes : blocks[n] = Weight(content[n])
    /\ quota = HeldByFiles(blocks[Boot])

KeepsContents == CrashKeepsContents /\ MemoryKeepsContents

(* No page in the cache shows the contents a file had before a swap.       *)
NoStalePages ==
  \A f \in Files : pages[f] \in {NoPages, content[f]}

(* No direct I/O is in flight on a file while its contents change places.  *)
NoDioAcrossSwap == \A t \in Swapping : file[t] \notin dio

(* truncate_inode_pages drops nothing that was not written.                *)
NothingDropped ==
  [][\A t \in Threads : WaitAndDrop(t) => file[t] \notin dirtyPages]_vars

(* The contents a holder of the locks would find: a swap counts from the   *)
(* moment the quota agrees to it.                                          *)
Seen(c) == IF c = Unused THEN Empty ELSE c
Settled ==
  [n \in Inodes |->
     Seen(LET t == CHOOSE u \in Swapping : TRUE
          IN  IF Swapping = {} THEN content[n] ELSE Exchanged(file[t])[n])]

Exchange ==
  INSTANCE InodeExchange WITH
    First <- Empty,
    content <- Settled,
    saved <- [n \in Inodes |-> Seen(disk.inode[n].content)]

(* The steps, failures and crashes of the ioctl implement the exchange.    *)
ImplementsExchange == Exchange!Spec

(* Every call that has its locks releases them.                            *)
SwapReturns == \A t \in Threads : pc[t] = "check" ~> pc[t] = "idle"
=============================================================================
