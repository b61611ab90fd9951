# A verification project for the evfs changes to ext4

The repository holds the files of an ext4 tree (Linux 6.8) that its author
changes to get "evfs" ioctls, two test programs and the scripts that rebuild and
remount the module. The one new operation so far flips the bit of a block in the
block bitmap (`ext4-evfs.c`); it is reached through the ioctl dispatcher
(`ioctl.c`), beside the ioctls that ext4 already has, and works on the structures
of `ext4.h`. jbd2, the block and inode allocators, the buffer cache and the rest
of ext4 are not in the repository: where a module needs them they are modelled
from how these three files use them, and PROJECT.json marks them external.

Paths below are relative to `src/linux-6.8/fs/ext4/`.

## Inventory

| Component | State it keeps | Operations | What makes it hard | What must hold |
|---|---|---|---|---|
| Block bit flip (`ext4-evfs.c` 21-139) | bitmap of each group, group descriptors (free count, two checksums), the percpu free counter, one journal handle per call | `EXT4_IOC_FLIP_BLOCK_BIT`, `EXT4_IOC32_PRINTHELLO` | plain loads and stores without the group lock, failures after the change was made, commits and crashes in between | bitmap, counts and checksums agree; nothing escapes the journal; every exit releases what the call took; calls return |
| Superblock update (`ioctl.c` 38-276, 1106-1232) | label and UUID in the primary and the backup superblocks, `EXT4_FLAGS_RESIZING` | set label, set UUID, get label, get UUID | a loop over backups of which any may fail, journalled writes first and unjournalled ones after, exclusion with online resize by a flag | one updater at a time; a bad backup is not overwritten; success reaches every backup; the flag is always cleared |
| Boot loader swap (`ioctl.c` 310-524) | the data, sizes, flags, generations and block counts of two inodes, quota, page cache | `swap_inode_boot_loader` | eight exits, two of them revert a swap already made; writers, mapped pages and direct I/O on the same file | data is swapped entirely or not at all; locks and handle are released; no stale page |
| File attributes (`ioctl.c` 526-804, 984-1028, 1248-1292) | `i_flags`, `S_IMMUTABLE`, `S_DAX`, `i_projid` and its quota, `i_generation` | `FS_IOC_SETFLAGS`, `FS_IOC_FSSETXATTR`, `EXT4_IOC_SETVERSION` | one call changes them in up to four transactions with an error exit after each; S_DAX outlives the flag; pages are flushed before the flag is set | immutable files do not change; incompatible flags are never both set; success means all; only a failed `dqget` parts project and quota |
| Online resize (`ioctl.c` 944-982, 1293-1331, 1443-1481, 1709-1725) | group count, block count, overhead, `EXT4_FLAGS_RESIZING` | `GROUP_ADD`, `GROUP_EXTEND`, `RESIZE_FS` | write access to the mount, exclusion by a flag, the journal is flushed after the change, group count read before the exclusion, overhead updated after it | resizers exclude one another; the flag and the mount reference are released; success means that the new groups are on disk, that their tables will be initialised and that the overhead is theirs |
| Shutdown and checkpoint (`ioctl.c` 807-859, 1061-1104) | `EXT4_FLAGS_SHUTDOWN`, journal | `EXT4_IOC_SHUTDOWN`, `EXT4_IOC_CHECKPOINT` | the flag is set before or after the journal is flushed, depending on the mode | what was complete before a flushing shutdown survives it; while the device is frozen, and after a shutdown, nothing changes |
| Defragmentation, migration, allocation (`ioctl.c` 1333-1441) | write access, the inode lock, a reference to the donor file | `MOVE_EXT`, `MIGRATE`, `ALLOC_DA_BLKS`, `SWAP_BOOT` | they wait for freezes and locks that resizers and shutdowns hold | every exit gives back what it took; calls return |
| Dispatch (`ioctl.c` 1234-1706) | none of its own | `ext4_ioctl`, `ext4_compat_ioctl` | numbers and structures differ with the width of the program; 32-bit numbers are translated one by one, and one that is not listed is refused | both widths reach the same handlers; none copies more than the argument has |
| Queries (`ioctl.c` 861-942, 1033-1059, 1143-1193) | none | fsmap, extent status cache, label, UUID | records go one by one into a user buffer that may be full, the last one is marked afterwards; a setter may be at work | every mapping told once, the mark on the last only; no torn answer |
| Numeric helpers (`ext4.h` 851-918, 1994-1996, 2336-2442, 3282-3338) | none | block numbers to groups, lo/hi halves, record lengths, timestamps with extra bits | width, boundaries, values that two encodings share | decode after encode is the identity on the values the code meets |
| Group locks and counters (`ext4.h` 3380-3405, 3462-3505, 3806-3825) | contention counter, unwritten I/O counter, `i_disksize` | `ext4_lock_group`, `ext4_set_io_unwritten_flag`, `ext4_update_inode_size`, ... | counters that several threads change, a look without the lock, a wait queue that inodes share | mutual exclusion; counters exact and in range; no wakeup missed; `i_disksize` only grows, up to `i_size` |
| Test programs, scripts, build log | none | `test_hello_ioctl.c`, `test_data_bitflip.c`, `*.sh` | - | - |

The components meet in the buffers and the journal: every ioctl that changes
metadata opens a jbd2 handle, takes write access to a buffer, changes it in
place, marks it dirty and closes the handle; a transaction commits when no handle
on it is open, and a crash leaves what the last commit wrote. The superblock
update and the resizers meet in `EXT4_FLAGS_RESIZING`; all ioctls but the flip, the
checkpoint and the queries meet in the write access to the mount, which a shutdown
waits for; resizers, checkpoints and shutdowns meet in the barrier of the journal.
The boot loader swap and the attribute ioctls meet in the inode locks. The hazards of each component are
listed, line by line, in PROJECT.json.

## Modules

| Module | Models |
|---|---|
| `BlockLedger` | what the flip promises: bit, group count and total change in one step, and a crash restores one whole commit |
| `EvfsFlip` | `__ext4_evfs_ioctl`, step by step, with the journal it uses |
| `MCEvfsFlip`, `EvfsFlipProofs` | its instances for TLC; its theorems |
| `SuperblockUpdate` | `ext4_update_superblocks_fn` for label and UUID, beside a resizer |
| `MCSuperblockUpdate`, `SuperblockUpdateProofs` | its instances; its theorems |
| `InodeExchange` | what the boot loader swap promises: two contents change places in one step, a crash restores what was saved |
| `BootLoaderSwap` | `swap_inode_boot_loader`, beside the other users of the files |
| `MCBootLoaderSwap`, `BootLoaderSwapProofs` | its instance; its theorems |
| `FileAttributes` | `ext4_fileattr_set` with setflags and setproject, and `EXT4_IOC_SETVERSION` |
| `MCFileAttributes`, `FileAttributesProofs` | its instances; its theorems |
| `Ioctls` | all ioctls that change metadata, beside one another: what they share and how they keep out of each other's way |
| `MCIoctls`, `IoctlsProofs` | its instance; its theorems |
| `Queries`, `QueriesProofs` | GETFSMAP with the loop of its caller; GETFSLABEL and GETFSUUID beside a setter; their theorem and that of `Dispatch` |
| `Dispatch` | which handler a command reaches, from a 64-bit and from a 32-bit program |
| `Codecs`, `CodecsProofs` | the encoders and decoders of `ext4.h`; the theorem that they are inverse |
| `Counters`, `CountersProofs` | the group lock, the unwritten I/O counter, `i_disksize`; their theorem |
| `MCHelpers` | one instance of the last four |

In those with threads `pc[t]` is the next step of thread `t`, an action is a stretch of
code in which no other thread can see or change an intermediate state that the
properties distinguish, and jbd2 is the same small thing: open handles, what is in
the running transaction, `Commit` when no handle is open, `Abort` after which
nothing is written, and `Crash`, which throws away memory and continues from the
last commit.

### EvfsFlip

| Variable or action | Code |
|---|---|
| `bitmap`, `desc`, `freeclusters` | the cached bitmap, `struct ext4_group_desc`, `s_freeclusters_counter` |
| `word`, `count`, `wasSet`, `held`, `ret` | registers and locals of a call; references on `bitmap_bh`; `err` |
| `Call`, `Read`, `StartHandle`, `GetAccess` | ext4-evfs.c 29-77, each with its failure |
| `TestBit`, `LoadWord`, `StoreWord` | `ext4_test_bit`, then `__set_bit_le` or `__clear_bit_le`: a load and a store |
| `LoadCount`, `StoreCount`, `PercpuCount` | 93-106 |
| `SumBitmap`, `SetBitmapSum`, `SumDesc`, `SetDescSum` | 108-111: computing a checksum and storing it are separate steps |
| `DirtyBitmap`, `DirtyDesc`, `CloseHandle`, `Release` | 117-134 |

A bitmap is one machine word. A checksum is the value it was computed over, so
"the checksum is right" means it was computed over what is there now. Block
numbers, group numbers and counts wrap at the width the code gives them
(`BlockMod`, `GroupMod`, `CountMod`).

### SuperblockUpdate

| Variable or action | Code (`ioctl.c`) |
|---|---|
| `resizing` | `EXT4_FLAGS_RESIZING` |
| `sb`, `bad` | the cached superblocks; backups with a wrong checksum |
| `txn`, `log`, `disk` | superblocks in the running transaction, in the journal, and what recovery would find |
| `limit`, `pos`, `i`, `handle`, `used` | `ngroups`, `grp`, `i`, `handle` and the credits used |
| `TakeFlag`, `Busy`, `StartHandle` | 198-216 |
| `UpdatePrimary` | 55-93 |
| `SkipGroup`, `UpdateJournalled`, `UpdateDirect`, `BadChecksum`, `BackupFails` | one round of the loop 236-264 with `ext4_update_backup_sb` 105-173 |
| `StopEarly`, `CloseJournal`, `Out`, `DropWrite` | 249-260, 266-276, and the return to the ioctl |
| `BeginResize`, `Grow`, `Flush`, `EndResize` | the resize ioctls as far as they touch the same state |

A superblock is its label and UUID. `Visits` is what `ext4_list_backups` would
return, any increasing sequence that starts with group 0. A backup written past
the journal reaches the disk at once unless an older copy of it is still in the
journal, in which case recovery would replay that copy over it.

### BootLoaderSwap

| Variable or action | Code (`ioctl.c`) |
|---|---|
| `content` | all that `swap_inode_data` exchanges, as one value |
| `blocks`, `generation`, `quota` | `i_blocks` and `i_bytes`; `i_generation`, which `i_csum_seed` follows; the dquot |
| `lock`, `inval`, `handle` | `i_rwsem` of both inodes, the invalidate lock, the journal handle |
| `pages`, `dirtyPages`, `dio` | to which content cached pages belong; unwritten data; direct I/O in flight |
| `LockBoth` ... `InitBoot` | 384-451 |
| `Swap`, `MarkFile`, `Remark`, `MarkBoot`, `Charge`, `Revert`, `RevertBoot` | 453-512, with both reverts |
| `Stop`, `Uninval`, `Unlock` | `err_out1`, `err_out`, `journal_err_out` |

### FileAttributes

| Variable or action | Code (`ioctl.c`) |
|---|---|
| `flags`, `immutable`, `dax` | `i_flags` of the ext4 inode; `S_IMMUTABLE` and `S_DAX` of the VFS inode, which change at other moments |
| `projid`, `charged` | `i_projid`, and the project in whose quota the inode is counted, which a transfer leaves; `Astray` once the inode was read again with another project, whose dquot it then gets |
| `raw`, `disk` | the inode in the buffer cache, and what recovery would find |
| `Check` | 1000-1020, `ext4_ioctl_check_immutable`, and the refusals of 597-634 |
| `DioWait`, `Flush` | 642-648 |
| `ChangeFlags`, `SetInodeFlags`, `JournalFlag`, `Migrate` | 661-709 |
| `SetProject` ... `MarkProject` | `ext4_ioctl_setproject` |
| `CallSetVersion` ... `DropWrite` | 1248-1292 |
| `Evict` | the inode leaves memory and is read again; only then does `S_DAX` change |

There is one inode. Of the flags one of each kind is kept: immutable, the two
that are changed apart, one exclusive to DAX, one for directories only, one that
nothing looks at, one that is visible but not settable, one that is neither.

### Ioctls

The modules above follow one operation to its last step; this one has all of
them, each reduced to the calls that take, change or give back what others share.
A handler is a sequence of rows, and a row is a call and the place the code goes
to when it fails; `GroupExtend`, read from top to bottom, is the case
`EXT4_IOC_GROUP_EXTEND`.

| Variable or action | Code |
|---|---|
| `resizing`, `shutdown` | `EXT4_FLAGS_RESIZING`, `EXT4_FLAGS_SHUTDOWN`, with who set them |
| `writers`, `freezers`, `ilock`, `donors` | `mnt_want_write_file`, `bdev_freeze`, `inode_lock`, `fdget` |
| `handles`, `barrier` | open handles; `jbd2_journal_lock_updates` |
| `txn`, `aborted`, `durable`, `owe` | what the running transaction holds, made with or without write access to the mount; who aborted the journal; the group count on disk; for which calls something is not yet on disk |
| `ngroups`, `o_group`, `added`, `asked`, `overhead` | `s_groups_count`; the local of `RESIZE_FS`; groups a call added; groups in requests for lazy initialisation; the size that `s_overhead_clusters` is of |
| `Begin`, `End`, `Want`, `Drop`, `LockUpdates`, `Flush`, `UnlockUpdates`, `Lazy` | ioctl.c 944-982, 1293-1331, 1443-1481 |
| `StartHandle`, `StopHandle`, `WorkFails` | the one transaction, or the several, that a call makes |
| `Alive`, `Freeze`, `Drain`, `SetShutdown`, `Thaw`, `ForceCommit`, `AbortJournal`, `ClearDiscard` | ioctl.c 807-846 |

A crash is not an action of this module: `durable` and `owe` say at every moment
what one would leave behind.

### Queries, Dispatch, Codecs, Counters

They share no state, so `MCHelpers` runs one of them at a time (`part`), and each
has its own initial predicate and next-state relation. In `Queries` the caller is
part of the model: it comes back for more until it sees the mark. `ext4_getfsmap`,
outside these files, hands over mappings in order and aborts when the buffer is
full. In `Dispatch` a command number is a name and the size of the argument, since
that is what differs between the widths (`EXT4_IOC`, `EXT4_IOC32`); any number may
come from a program of either width, and a reply is the handler and the bytes it
copies. `Codecs` has one operator per encoder and decoder and
a variable that takes any value a caller may pass; a 32-bit field holds `Word`
values, and the 16-bit field of a directory record is as it is. `Counters` has
three small machines, in which each atomic operation of the code is an action.

## What the runs show

Passing runs:

| Run | Question | Distinct states |
|---|---|---|
| `flip_disjoint` | Threads that flip bits of different groups, with every fault, commit, abort and crash: is everything consistent, does nothing leak, does every call return and every flip reach the disk, does the whole implement `BlockLedger`? | 0.2 million |
| `sb_race` | Two setters and a resizer, damaged backups, crashes: the flag, completeness, what recovery finds | 0.5 million |
| `sb_faults` | One setter, any step may fail, one backup may be damaged: credits, what every exit releases (handle, mount, `EXT4_FLAGS_RESIZING`), return of every call | 0.4 million |
| `boot_faults` | One thread, two files, their users, every fault and crashes: whole contents, no stale pages, locks released, calls return, `InodeExchange` implemented | 0.3 million |
| `attr_flags` | One thread, every combination of five flags on four kinds of inode, the generation, all faults | 2.0 million |
| `attr_project` | Two threads, immutable flag and project, with and without quota and room for a project: exits, the one way out of the quota of the project, return of every call | 0.1 million |
| `ioctls` | Every pair of calls and five triples, with refusals, failing transactions, commits, an aborted journal and a remount: exits, completeness of a resize, durability of a success, quiet after a freeze or a shutdown, return of every call | 0.4 million |
| `helpers` | The mappings a caller learns of, torn reads, what the two entries of the dispatcher make of every number, round trips of the codecs, lock and counters | 3700 |

What the properties of `ioctls` leave open is as telling as what they say.
`ResizeComplete` holds also for a resize that returns EBUSY: `ext4_resize_end`
clears the flag and then updates the overhead, which needs the flag again, so that
a resize that went well may report that another was under way. `SuccessIsDurable`
has two exceptions for shutdowns: one that finds the flag set returns 0 while the
first may still be flushing, and LOGFLUSH ignores the error of its commit
(`ioctl.c` 832), so that it returns 0 after an I/O error lost what it was to flush.
`Quiet` speaks of changes made with write access to the mount: the flip takes
none, and changes a bitmap while the device is frozen.

Runs that end in a violation, each a disagreement between the code and what the
repository says of it:

| Run | What happens |
|---|---|
| `flip_one_group` | Two calls flip different bits of one group. Neither takes `ext4_lock_group`; one update of the word or of the count is lost, and the journal commits a free count that differs from the bitmap. `notes.txt` asks for the opposite. |
| `flip_padding` | The number just past the last block is not refused; the padding bit it maps to is flipped and counted as a free block. |
| `attr_dax` | A call that adds the DAX flag and data journalling at once gets both: each is compared with the old flags only. |
| `attr_mapped` | A page that is faulted in for writing after the flush and before `S_IMMUTABLE` is set stays writable in an immutable file, which the comment above the flush excludes. |

Smaller disagreements are visible in the models and have no run of their own:

- A backup with a wrong checksum is left alone, and `ext4_update_backup_sb` still
  returns 1, "the modification was successful" (`ioctl.c` 100, 146-152, 172); it
  uses up one of the two journalled slots, and the caller's branch for a bad
  checksum is never taken (`BadChecksum`).
- A boot loader swap that fails after the exchange is undone under "Revert all
  changes" (`ioctl.c` 506), except for the two new generations and the checksum
  seeds that follow them (`Revert` leaves `generation` alone).
- `ext4_ioctl_check_immutable` (`KeepsRest`) compares the wanted flags, masked to
  those users can set, with all of the old ones: an immutable file that has another
  flag is refused the very flags it shows, which the comment above says is not an
  error.
- `ext4_ioctl_setproject` ignores an error of `dqget` (`ioctl.c` 773-787): with quota
  on it then skips the transfer, sets the project and returns 0. The inode stays
  counted in the project it left, and asking again does not help: the project is
  already the wanted one, so the call returns at once (`SetProject`). Once the inode is
  read again it has the dquot of a project that never counted it (`Astray`).
  `QuotaFollows` states that nothing else comes to this.
- A 32-bit program cannot flip a bit: `ext4_compat_ioctl` lists neither of the two
  commands that `__ext4_evfs_ioctl` adds, although `ext4.h` defines both under "ioctl
  commands in 32 bit emulation" (746-758), and only in a kernel built for it
  (`CompatAgrees`).
- `EXT4_IOC_GROUP_ADD` copies `struct ext4_new_group_data`, "in kernel space" (`ext4.h`
  661), from a pointer to the shorter `struct ext4_new_group_input` (`ioctl.c`
  1385-1388); the 32-bit entry copies the fields it needs (`Copies`, `Group_add32`).
- The clamp of a time to 32 bits (`ext4.h` 895) casts before it compares, so a time
  after 2038 wraps in a small inode (`SetTime`); `RoundTrips` therefore asks nothing
  of such a time.

For every property of a passing run PROJECT.json names a changed definition (a
dropped wait, a swapped sign, an exit that keeps a lock) under which TLC finds
the property violated: those definitions stand in the modules just before the
ones they replace.

### Bounds, and why they are enough

- Flip: two groups of two blocks and two threads. A race needs two threads; a
  group needs two bits so that one can be kept while the other changes; two groups
  are needed for calls that must not disturb one another. One number that maps to
  no group is among the targets of `flip_disjoint`.
- Superblock update: four groups, all with a backup: the primary, two journalled
  backups and one written past the journal; one group can be added. Two values
  are enough to tell old from new. Two setters and a resizer race in `sb_race`,
  where only the growing itself may fail; every other fault is in `sb_faults`, with
  one setter, which no other thread can then disturb.
- Boot loader swap: one thread and two files of different sizes, so that each of
  the branches on the sign of `diff` is taken. A second thread would add only
  waiting: every swap holds the lock of the boot loader inode from its first step
  to its last. Page faults, direct I/O, writes and writeback interleave with it.
- File attributes: one inode. `attr_flags` has five flags at once; `attr_project`
  has two threads, two projects, a file and directories, with and without the
  project feature, quota and inodes large enough for a project. Its journal does not abort (`attr_flags` has that).
- Ioctls: each thread makes one call, since what a call leaves behind is all that a
  later one sees of it. Every pair of the thirteen calls runs, the same call twice
  included, and the triples in which a third call can come between two that
  exclude or wait for one another. `RESIZE_FS` adds up to two groups, so that "the
  first new group" and "all new groups" differ.
- Helpers: four mappings and buffers of up to three records, so that a buffer is
  full in the middle, exactly at the end, and not at all. Fields of 8 values in
  place of 2^32, with all values that fit; record lengths near every boundary of
  the real 16-bit field. Two lockers, two requests of different inodes on one wait
  queue, two waiters, two writers beside writeback and truncation.
- Nothing else is counted without bound: there is no bound on the number of calls,
  commits and crashes in the other runs. Deadlock is checked in every run but
  `ioctls`, which ends when each thread has made its call. The disk of
  `flip_disjoint` starts with the first block of the first group in use.

### Fairness

A thread inside a call keeps running (weak fairness of its steps): the kernel
schedules it, and the I/O it waits for ends with success or an error. In
`EvfsFlip` `kjournald2` commits from time to time (`s_commit_interval`), and a thread
that waits for a handle is not starved by commits, each of which wakes it (strong
fairness). In `BootLoaderSwap` and `FileAttributes` direct I/O ends, and an inode
lock that is released again and again is in the end handed to a thread that waits
for it (strong fairness: the rwsem queues its waiters). In `Ioctls` weak fairness of
each thread is enough, since nothing that is waited for there is taken again and
again: each thread makes one call; a transaction is not assumed to fail unless no
handle can be had. No new call, no write by
another user, no fault, no crash is ever assumed to happen.

## What is proved

The theorems hold for any number of threads, groups, blocks, files and values, and
any faults, from the assumptions named `...Assumption` in the modules (and
`CountFits`: the clear bits of a group can be counted in its descriptor). TLC
evaluates them in every run of those modules.

**EvfsFlip** (`EvfsFlipProofs`). `BaseInvariant` is an inductive invariant of
types, resources and the existence of the group; `TypeCorrect` and
`ResourcesReleased` follow. `ChangesAreJournalled` adds `Marked`: memory that
differs from the disk is dirty metadata, or belongs to a call that has yet to
mark it. These hold even when calls race. Others hold for the behaviours in which at
most one call per group is between its test and its last checksum
(`Spec /\ []Exclusive`): without the exclusion they are false, as `flip_one_group`
shows. Their invariant `IndInv` needs three strengthenings. `Phases` says, for a
call at each step of its critical section, how its registers and the bitmap and
descriptor of its group stand to one another; exclusion makes it stable.
`CounterLag` says that the percpu counter lags the descriptors by the calls that
are about to update it. `Marked` makes a commit copy only whole groups, whence
`CrashConsistent`. `FlipImplementsLedger` is the refinement of `BlockLedger`: the
count a group will have once its calls have written theirs is at every moment the
number of its clear bits (`FreeThenIs`), the total that is due changes only where a
bit is stored (`TotalThenStep`), and the sum of such counts is the number of all
clear bits (`AllClearIsTotal`, by a bijection put together from one for each group).
`DisjointExclude` discharges the condition for threads whose targets lie in different
groups, such as those of `flip_disjoint`, so that `DisjointImplementsLedger` has none.

Exclusion is needed only where calls meet. The part of `IndInv` that speaks of one
group is an invariant by itself (`GroupInv`): `RacesStayInTheirGroup` shows that a
group in which calls exclude one another is consistent, in memory and after a crash,
although they race in every other group, and `SoleCallerIsSafe` that this needs no
lock for a group whose blocks one thread alone asks for. `NobodyElsesBit`, an action
property without any condition, bounds the harm of a race: no step, be it a store
from a stale word or a crash, changes a bit that no caller asks for, because such a
bit is the same in the bitmap, in the word a call is about to store and on disk
(`BystandersAgree`).

**What the violations come from.** Each of the four properties that a run refutes has
a theorem with the condition under which it holds for every instance, so that the
condition is the whole of the defect. `FreeCountsStayOnDisk`: the count on disk is
right if calls exclude one another per group, as the group lock would have it.
`FreeBlocksCounted`: it counts free blocks only, if besides callers ask for existing
blocks (`TargetsExist`, the missing range check) and the groups cover the blocks of the
file system in numbers that fit their types (`GeometryFits`). The padding bits, set at
first, then stay set, which follows from `NobodyElsesBit`. `OnlyAskedTogether`: DAX and a
flag that excludes it meet only if a call asks for DAX and journalled data at once.
`FlushIsEnough`: an immutable file has no writable page, if no page is faulted in for
writing while a call that sets the flag is between its flush and its end; the invalidate
lock, which the boot loader swap takes for that (`ioctl.c` 409), would see to it.

**SuperblockUpdate** (`SuperblockUpdateProofs`). `Base` is inductive: types, the
roles of updaters and resizers (`Roles`), what a thread holds at each step
(`Control`), the exclusion by the flag (`FlagHeld`), and how many credits the
loop has used by round `i` (`Credits`). `TypeCorrect`, `FlagExclusive`,
`CreditsEnough` and `NothingHeld` follow. `SuccessIsComplete` adds `Progress`: at
round `pos` the primary and every intact backup before `pos` hold the argument,
and the group count is the one read at the start; it is stable because the flag
keeps every other thread outside. `PrimaryIsFirst` and `DamageKept` are action
properties proved from the same invariants; the latter needs `Damaged`, that a
damaged backup is the same in memory and on disk, so that a crash does not seem to
overwrite it. `DirectWritesSurvive` needs to know which
backups are journalled: `Counting` says that `i` is the number of backups seen so far
(a cardinality), so that every call journals the same two. Then the journal
holds no copy of another backup, but for the moments between the growing of a resizer
and its flush, in which the flag keeps updaters away (`CleanInv`), and what is written
past the journal is on the disk (`AllOnDisk`). `UpdatedTogether` assumes
`UpdatesWhole`: no single write of a superblock fails half way; handles, growing and
the journal still may. Then the primary and the journalled backups are equal unless a
call with an open handle is between the first and the last of them (`Same`), and the
disk differs from memory only in what the running transaction has (`Match`), which
is not committed while a handle is open.

**BootLoaderSwap** (`BootLoaderSwapProofs`). `LocksInv`, what the call inside holds
at each step and that no other is inside, is inductive and gives `LocksReleased`.
`CacheInv`, that from the dropping of the pages to the release of the invalidate lock
no stale page is cached and no direct I/O is in flight, gives `PagesFresh` and
`NoDioDuringSwap`; `WrittenBeforeDropped` is an action property. `ContentsKept` needs
`MemoryInv` and `JournalInv`: a call between the exchange and its end or its revert
knows the old contents, and contents, block counts and quota are the old ones, the new
ones or a named mixture (`Halfway`, `Old`), and what the journal will write agrees
with memory when no call is there (`Between`). `SwapImplementsExchange` is the
refinement of `InodeExchange`: the mapping shows the old contents while a call may
still revert its exchange, so that an exchange that is reverted never took place.

**FileAttributes** (`FileAttributesProofs`). `HoldsInv`, what a call holds at each
step, gives `AllReleased`. `DataInv` adds what a call has done by the step it is at
(`SoFar`), which the inode lock keeps other calls from undoing, and that the buffer
has the inode as it is but between a change and its marking (`RawInv`); from it follow
`SuccessComplete` and `ImmutableUntouched`. `DaxNeverJournalled` is about `S_DAX`,
which an inode that journals its data never gets; both flags can be set, as `attr_dax`
shows. `NoDioLeft`: direct I/O has ended when the flag is looked at under the lock, and
the lock keeps new I/O from starting (`Dry`).

A few lemmas say once what every step does to the flags and the project
(`CallIsFramed`, `CallMovesFlags`, `OutsideFlags`, `CallMovesProject`) and serve the
other theorems. `QuotaAlwaysFollows` is an action property: of all steps only one of a
call whose `dqget` failed parts the project in memory from the one the inode is
charged to, and the two are parted on disk only by a commit after such a call. It
needs `RawInv`, since an eviction reads the project from the buffer and a commit
writes it from there, while the charge is the quota's. `OthersNeverChange` is an action property: flags outside those that users may
modify are never changed, in memory, in the buffer or by recovery. `OnlyAskedTogether`
carries what `dax_compatible` found to the moment the flags are stored (`Compatible`), and
`FlushIsEnough` carries the absence of writable pages from the flush to the flag
(`SealInv`).

**Ioctls** (`IoctlsProofs`), for any number of threads and any choice of their calls.
A handler is a table, so the proof begins with facts about rows: at which positions a
call holds the flag, write access, a lock (`FlagAt`, `WriteAt`, ...), that a row takes
or gives back exactly what its step does and every exit leads to a position that fits
(`Row`), and in which order what matters is done (`Order`); a lemma for each handler
checks its rows (`...Sound`). `HoldsInv` says that a thread holds what its position
says, and `ExitsRelease` follows. `FrozenOrShutIsQuiet` adds `QuietInv`: a device
that has been drained stays without writers, and a call that set the shutdown flag
did so while it was frozen or goes on to abort the journal (`Stays`).
`SuccessReachesDisk` adds `DurableInv`: a call that is still owed something has its
flush or commit ahead of it, or an error, or another call aborted the journal or
shut down first (`Owes`). `ResizesComplete` adds `ResizeInv`: the groups of a call
lie between the count it read and the count now (`Counted`), they are asked for once
its request is made, and only `begin` makes a call busy (`Completes`).

`clear_bit_unlock` and `jbd2_journal_unlock_updates` do not look at who set the flag or
raised the barrier. `NobodyReleasesForAnother`, an action property, shows that no call
loses what it holds, or gains anything, by a step of another, and
`CriticalSectionsExclude` that two calls are never both between `begin` and `end`,
under the barrier or inside the inode lock, on error paths too.

**Codecs, Counters, Queries, Dispatch**. `AlwaysRoundTrips`: every decoder undoes its encoder,
for fields of any width, by a theorem for each codec. `AlwaysSafe`: mutual exclusion of
the group lock and the range of its contention counter; the counter of unwritten I/O
is the number of requests that count, a cardinality, and no waiter sleeps through its
wakeup; the size on disk never exceeds the size in memory and goes back only with it.
`AlwaysTruthful`: a caller that follows the records learns of every mapping once, in
order, whatever the size of its buffer, and no label or UUID is half of two values.
`CompatAlwaysAgrees` holds for any numbers, the unknown ones included: a lemma for
each kind of number says where the 32-bit entry leads (`LongTranslated`,
`SamePassed`, `RestRefused`, `CompatAnswers`), that the numbers of the other width
meet no case (`OthersRefused`), and that what is copied was declared (`CopiesFit`).

## What is only model-checked

- Liveness: `CallsReturn`, `DirtyReachesDisk`, `SwapReturns`. The proof
  system has no support for ENABLED, which fairness is defined by.

## What is left out

- Fast commits, journal modes other than ordered, and file systems without a
  journal.
- The block allocator and its buddy cache; the flip changes a bitmap beside it, and
  what the allocator then believes is outside the repository (`ext4-evfs.c` 59 and 84
  in the list of hazards).
- In the superblock update: a UUID change while features pin the UUID, which is
  refused before anything is touched. The overhead update, which goes through the
  same function with a third callback, is in `Ioctls`.
- In the boot loader swap: `i_csum_seed` itself, preallocations and the extent
  status cache, which hold nothing that the properties tell apart.
- In the attributes: `d_mark_dontcache`, which makes an eviction more likely; the
  capability checks, which are a refusal that may or may not happen; the block of an inode to which write access was
  granted is assumed to be markable unless the journal is aborted, here and in the
  swap.
- In `Ioctls`: a file system without journal, group checksums or lazy initialisation
  of inode tables, for which some rows are skipped; crashes, of which `durable` and
  `owe` speak; what an operation does to the disk beyond its transactions.
- Queries that copy one value to the caller: the extent status cache, GETVERSION,
  GETSTATE, `ext4_fileattr_get`. FITRIM, the encryption and the verity ioctls, each of
  which is a check and one call of code outside the repository: `Dispatch` has them
  as handlers that are reached or not.
- In `ext4.h`: layouts, constants, the tables of features and the prototypes of code
  that is not in the repository; the error policy and the state bits of an inode,
  which are single bit operations; which is most of that file, and why the map covers
  a small share of it.
- Test programs, scripts and the build log: no state of their own.

## What could follow

1. The composition of `Ioctls` with `EvfsFlip`, in which the one handle of a
   flip becomes its ten steps.
