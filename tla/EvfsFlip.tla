------------------------------ MODULE EvfsFlip ------------------------------
(***************************************************************************)
(* EXT4_IOC_FLIP_BLOCK_BIT: __ext4_evfs_ioctl of ext4-evfs.c, called by    *)
(* several threads, over the buffers it changes and the jbd2 journal it    *)
(* changes them through.  An action is one step between two points where   *)
(* another thread's step can be observed: the bit operations (__set_bit_le *)
(* and __clear_bit_le, ext4.h) and the updates of the counts and checksums *)
(* are plain loads and stores, so each is a load step and a store step.    *)
(* The bitmap of a group fits one machine word here.  A checksum is the    *)
(* value it was computed over.                                             *)
(***************************************************************************)
EXTENDS Integers, FiniteSets

CONSTANTS Threads,         \* processes with the file system open
          Targets,         \* Targets[t]: the block numbers t may ask for
          GroupsCount,     \* s_groups_count
          BlocksPerGroup,  \* s_blocks_per_group, clusters of one block
          FirstDataBlock,  \* s_first_data_block
          BlocksCount,     \* s_blocks_count: blocks are below this number
          BlockMod,        \* 2^64, the width of ext4_fsblk_t
          GroupMod,        \* 2^32, the width of ext4_group_t
          CountMod         \* 2^16 or 2^32: the width of bg_free_blocks_count

ASSUME SizeAssumption ==
  /\ GroupsCount \in Nat \ {0}
  /\ BlocksPerGroup \in Nat \ {0}
  /\ FirstDataBlock \in Nat
  /\ BlocksCount \in Nat
  /\ BlockMod \in Nat \ {0}
  /\ GroupMod \in Nat \ {0}
  /\ CountMod \in Nat \ {0}

ASSUME ThreadsAssumption == IsFiniteSet(Threads)

ASSUME TargetsAssumption == \A t \in Threads : Targets[t] \subseteq Nat

ASSUME CountFits == BlocksPerGroup < CountMod

Groups  == 0 .. GroupsCount - 1
Offsets == 0 .. BlocksPerGroup - 1

(* ext4_get_group_no_and_offset: 64-bit subtraction and division, the      *)
(* quotient cut to the width of ext4_group_t.                              *)
Relative(b) == (b - FirstDataBlock) % BlockMod
GroupOf(b)  == (Relative(b) \div BlocksPerGroup) % GroupMod
OffsetOfPastEnd(b) == (Relative(b) % BlocksPerGroup) + 1
OffsetOf(b) == Relative(b) % BlocksPerGroup

(* The offsets of a group that stand for blocks of the file system; the    *)
(* rest of the last group's bitmap is padding, whose bits mkfs sets.       *)
RealOffsets(g) ==
  {o \in Offsets : FirstDataBlock + g * BlocksPerGroup + o < BlocksCount}

VARIABLES
  bitmap,        \* bitmap[g]: offsets whose bit is set in the cached bitmap
  desc,          \* desc[g]: the cached group descriptor
  freeclusters,  \* s_freeclusters_counter
  handles,       \* threads with an open handle on the running transaction
  dirty,         \* groups whose bitmap buffer is dirty metadata
  gdtDirty,      \* the descriptor block is dirty metadata
  locked,        \* a commit has locked the running transaction
  aborted,       \* the journal is aborted
  committed,     \* what recovery restores: [bits, desc]
  pc,            \* pc[t]: the next step of t's call
  block,         \* block[t]: block_number
  wasSet,        \* wasSet[t]: was_set
  word,          \* word[t]: the bitmap word t holds in a register
  count,         \* count[t]: the free count t holds in a register
  held,          \* held[t]: references t holds on bitmap_bh
  ret            \* ret[t]: err, then whether t's last call succeeded

memory  == <<bitmap, desc, freeclusters>>
journal == <<handles, dirty, gdtDirty, locked, aborted, committed>>
locals  == <<block, wasSet, word, count>>
vars == <<memory, journal, pc, locals, held, ret>>

Counts == 0 .. CountMod - 1

(* The sum of the groups' free counts, counted as a set: group g puts one  *)
(* element per unit of its count into it.                                  *)
FreeUnits(d) == {u \in Groups \X Counts : u[2] < d[u[1]].free}
TotalFree(d) == Cardinality(FreeUnits(d))

Sums   == [free : Counts, bitmapCsum : SUBSET Offsets]
Descs  == [free : Counts, bitmapCsum : SUBSET Offsets, csum : Sums]
PCs    == {"idle", "read", "start", "access", "test", "load", "store",
           "loadcount", "storecount", "percpu", "sumbitmap", "setbitmapsum",
           "sumdesc", "setdescsum", "dirtybitmap", "dirtydesc", "stop", "out"}

group(t) == GroupOf(block[t])
offset(t) == OffsetOf(block[t])

(* A descriptor as mkfs leaves it: counts and checksums match the bitmap.  *)
CleanDesc(b) ==
  LET n == Cardinality(Offsets \ b)
  IN  [free |-> n, bitmapCsum |-> b, csum |-> [free |-> n, bitmapCsum |-> b]]

Init ==
  /\ bitmap \in {b \in [Groups -> SUBSET Offsets] :
                   \A g \in Groups : Offsets \ RealOffsets(g) \subseteq b[g]}
  /\ desc = [g \in Groups |-> CleanDesc(bitmap[g])]
  /\ freeclusters = TotalFree(desc)
  /\ handles = {} /\ dirty = {} /\ gdtDirty = FALSE
  /\ locked = FALSE /\ aborted = FALSE
  /\ committed = [bits |-> bitmap, desc |-> desc]
  /\ pc     = [t \in Threads |-> "idle"]
  /\ block  = [t \in Threads |-> FirstDataBlock]
  /\ wasSet = [t \in Threads |-> FALSE]
  /\ word   = [t \in Threads |-> {}]
  /\ count  = [t \in Threads |-> 0]
  /\ held   = [t \in Threads |-> 0]
  /\ ret    = [t \in Threads |-> "ok"]

-----------------------------------------------------------------------------
Goto(t, from, to) == pc[t] = from /\ pc' = [pc EXCEPT ![t] = to]
SetRet(t, r) == ret' = [ret EXCEPT ![t] = r]

(* A return: the locals of the call go with its stack frame.               *)
Return(t, from, r) ==
  /\ Goto(t, from, "idle")
  /\ SetRet(t, r)
  /\ block'  = [block EXCEPT ![t] = FirstDataBlock]
  /\ wasSet' = [wasSet EXCEPT ![t] = FALSE]
  /\ word'   = [word EXCEPT ![t] = {}]
  /\ count'  = [count EXCEPT ![t] = 0]

(* The cases of the switch that touch nothing, and a failed copy_from_user *)
Refuse(t) ==
  /\ pc[t] = "idle"
  /\ \E r \in {"ok", "err"} : SetRet(t, r)
  /\ UNCHANGED <<memory, journal, pc, locals, held>>

Call(t) ==
  /\ Goto(t, "idle", "read")
  /\ \E b \in Targets[t] : block' = [block EXCEPT ![t] = b]
  /\ UNCHANGED <<memory, journal, wasSet, word, count, held, ret>>

(* ext4_read_block_bitmap fails for a group that does not exist or on an   *)
(* I/O error; ext4_get_group_desc can fail after it, and then the bitmap   *)
(* is released.                                                            *)
Read(t) ==
  \/ /\ group(t) \in Groups
     /\ Goto(t, "read", "start")
     /\ held' = [held EXCEPT ![t] = @ + 1]
     /\ UNCHANGED <<memory, journal, locals, ret>>
  \/ /\ Return(t, "read", "err")
     /\ UNCHANGED <<memory, journal, held>>

KeepRef(n) == n
Release(n) == n - 1

(* ext4_journal_start_sb waits while a commit locks the transaction, and   *)
(* fails on an aborted journal or for lack of memory.                      *)
StartHandle(t) ==
  /\ ~locked /\ ~aborted
  /\ Goto(t, "start", "access")
  /\ handles' = handles \cup {t}
  /\ UNCHANGED <<memory, dirty, gdtDirty, locked, aborted, committed,
                 locals, held, ret>>

StartFails(t) ==
  /\ Return(t, "start", "err")
  /\ held' = [held EXCEPT ![t] = Release(@)]
  /\ UNCHANGED <<memory, journal>>

(* Write access to the bitmap and to the descriptor block: both or out.    *)
GetAccess(t) ==
  \/ /\ ~aborted
     /\ Goto(t, "access", "test")
     /\ UNCHANGED <<memory, journal, locals, held, ret>>
  \/ /\ Goto(t, "access", "out")
     /\ SetRet(t, "err")
     /\ UNCHANGED <<memory, journal, locals, held>>

TestBit(t) ==
  /\ Goto(t, "test", "load")
  /\ wasSet' = [wasSet EXCEPT ![t] = offset(t) \in bitmap[group(t)]]
  /\ UNCHANGED <<memory, journal, block, word, count, held, ret>>

LoadWord(t) ==
  /\ Goto(t, "load", "store")
  /\ word' = [word EXCEPT ![t] = bitmap[group(t)]]
  /\ UNCHANGED <<memory, journal, block, wasSet, count, held, ret>>

FlippedOnlySets(w, o, set) == w \cup {o}
Flipped(w, o, set) == IF set THEN w \ {o} ELSE w \cup {o}

StoreWord(t) ==
  /\ Goto(t, "store", "loadcount")
  /\ bitmap' = [bitmap EXCEPT ![group(t)] = Flipped(word[t], offset(t), wasSet[t])]
  /\ UNCHANGED <<desc, freeclusters, journal, locals, held, ret>>

Delta(set) == IF set THEN 1 ELSE -1
NextCountSwapped(n, set) == (n - Delta(set)) % CountMod
NextCount(n, set) == (n + Delta(set)) % CountMod

free_clusters_set(d, n) == [d EXCEPT !.free = n]
bitmap_csum_set(d, b)   == [d EXCEPT !.bitmapCsum = b]
desc_csum_set(d, s)     == [d EXCEPT !.csum = s]

LoadCount(t) ==
  /\ Goto(t, "loadcount", "storecount")
  /\ count' = [count EXCEPT ![t] = desc[group(t)].free]
  /\ UNCHANGED <<memory, journal, block, wasSet, word, held, ret>>

StoreCount(t) ==
  /\ Goto(t, "storecount", "percpu")
  /\ desc' = [desc EXCEPT ![group(t)] =
                free_clusters_set(@, NextCount(count[t], wasSet[t]))]
  /\ UNCHANGED <<bitmap, freeclusters, journal, locals, held, ret>>

(* percpu_counter_add and _sub are atomic.                                 *)
NextTotalAddOnly(n, set) == n + 1
NextTotal(n, set) == n + Delta(set)

PercpuCount(t) ==
  /\ Goto(t, "percpu", "sumbitmap")
  /\ freeclusters' = NextTotal(freeclusters, wasSet[t])
  /\ UNCHANGED <<bitmap, desc, journal, locals, held, ret>>

(* ext4_block_bitmap_csum_set, then ext4_group_desc_csum_set.              *)
SumBitmap(t) ==
  /\ Goto(t, "sumbitmap", "setbitmapsum")
  /\ word' = [word EXCEPT ![t] = bitmap[group(t)]]
  /\ UNCHANGED <<memory, journal, block, wasSet, count, held, ret>>

SetBitmapSum(t) ==
  /\ Goto(t, "setbitmapsum", "sumdesc")
  /\ desc' = [desc EXCEPT ![group(t)] = bitmap_csum_set(@, word[t])]
  /\ UNCHANGED <<bitmap, freeclusters, journal, locals, held, ret>>

SumDesc(t) ==
  /\ Goto(t, "sumdesc", "setdescsum")
  /\ count' = [count EXCEPT ![t] = desc[group(t)].free]
  /\ word' = [word EXCEPT ![t] = desc[group(t)].bitmapCsum]
  /\ UNCHANGED <<memory, journal, block, wasSet, held, ret>>

SetDescSum(t) ==
  /\ Goto(t, "setdescsum", "dirtybitmap")
  /\ desc' = [desc EXCEPT ![group(t)] =
                desc_csum_set(@, [free |-> count[t], bitmapCsum |-> word[t]])]
  /\ UNCHANGED <<bitmap, freeclusters, journal, locals, held, ret>>

(* ext4_handle_dirty_metadata fails only on an aborted journal: the change *)
(* stays in the cached buffers.                                            *)
DirtyFails(t, from) ==
  /\ aborted
  /\ Goto(t, from, "out")
  /\ SetRet(t, "err")
  /\ UNCHANGED <<memory, journal, locals, held>>

DirtyBitmap(t) ==
  \/ /\ ~aborted
     /\ Goto(t, "dirtybitmap", "dirtydesc")
     /\ dirty' = dirty \cup {group(t)}
     /\ UNCHANGED <<memory, handles, gdtDirty, locked, aborted, committed,
                    locals, held, ret>>
  \/ DirtyFails(t, "dirtybitmap")

SkipGdt(d) == d
MarkGdt(d) == TRUE

DirtyDesc(t) ==
  \/ /\ ~aborted
     /\ Goto(t, "dirtydesc", "stop")
     /\ gdtDirty' = MarkGdt(gdtDirty)
     /\ UNCHANGED <<memory, handles, dirty, locked, aborted, committed,
                    locals, held, ret>>
  \/ DirtyFails(t, "dirtydesc")

(* The normal exit returns what ext4_journal_stop returns; out_journal     *)
(* keeps the error it was reached with.                                    *)
LeaveOpen(t)   == handles' = handles
CloseHandle(t) == handles' = handles \ {t}

Stop(t) ==
  /\ \/ Return(t, "stop", IF aborted THEN "err" ELSE "ok")
     \/ Return(t, "out", ret[t])
  /\ CloseHandle(t)
  /\ held' = [held EXCEPT ![t] = Release(@)]
  /\ UNCHANGED <<memory, dirty, gdtDirty, locked, aborted, committed>>

Step(t) ==
  \/ Read(t) \/ GetAccess(t)
  \/ TestBit(t) \/ LoadWord(t) \/ StoreWord(t)
  \/ LoadCount(t) \/ StoreCount(t) \/ PercpuCount(t)
  \/ SumBitmap(t) \/ SetBitmapSum(t) \/ SumDesc(t) \/ SetDescSum(t)
  \/ DirtyBitmap(t) \/ DirtyDesc(t) \/ Stop(t)

-----------------------------------------------------------------------------
(* jbd2: a commit locks the running transaction, waits for its handles and *)
(* writes the dirty buffers as one unit.                                   *)
LockTransaction ==
  /\ ~locked /\ ~aborted
  /\ handles # {} \/ dirty # {} \/ gdtDirty
  /\ locked' = TRUE
  /\ UNCHANGED <<memory, handles, dirty, gdtDirty, aborted, committed,
                 pc, locals, held, ret>>

CommitEarly == TRUE
MayCommit  == handles = {}

Commit ==
  /\ locked /\ ~aborted /\ MayCommit
  /\ committed' =
       [bits |-> [g \in Groups |-> IF g \in dirty THEN bitmap[g]
                                   ELSE committed.bits[g]],
        desc |-> IF gdtDirty THEN desc ELSE committed.desc]
  /\ dirty' = {} /\ gdtDirty' = FALSE /\ locked' = FALSE
  /\ UNCHANGED <<memory, handles, aborted, pc, locals, held, ret>>

Abort ==
  /\ ~aborted
  /\ aborted' = TRUE
  /\ UNCHANGED <<memory, handles, dirty, gdtDirty, locked, committed,
                 pc, locals, held, ret>>

(* A crash, journal recovery and a new mount, which counts the free        *)
(* clusters of the descriptors.                                            *)
Crash ==
  /\ bitmap' = committed.bits
  /\ desc' = committed.desc
  /\ freeclusters' = TotalFree(committed.desc)
  /\ handles' = {} /\ dirty' = {} /\ gdtDirty' = FALSE
  /\ locked' = FALSE /\ aborted' = FALSE
  /\ pc'     = [t \in Threads |-> "idle"]
  /\ block'  = [t \in Threads |-> FirstDataBlock]
  /\ wasSet' = [t \in Threads |-> FALSE]
  /\ word'   = [t \in Threads |-> {}]
  /\ count'  = [t \in Threads |-> 0]
  /\ held'   = [t \in Threads |-> 0]
  /\ ret'    = [t \in Threads |-> "ok"]
  /\ UNCHANGED committed

Environment == LockTransaction \/ Commit \/ Abort \/ Crash

Next == \/ \E t \in Threads : \/ Refuse(t) \/ Call(t)
                              \/ StartHandle(t) \/ StartFails(t) \/ Step(t)
        \/ Environment

Spec == Init /\ [][Next]_vars

(* Threads are scheduled; a thread that waits for a handle gets an aborted *)
(* journal's error, and is not starved by the commits, each of which wakes *)
(* it.  kjournald2 commits every s_commit_interval.                        *)
Fairness == /\ \A t \in Threads : /\ WF_vars(Step(t))
                                  /\ WF_vars(aborted /\ StartFails(t))
                                  /\ SF_vars(StartHandle(t))
            /\ WF_vars(LockTransaction) /\ WF_vars(Commit)
FairSpec == Spec /\ Fairness

-----------------------------------------------------------------------------
TypeOK ==
  /\ bitmap \in [Groups -> SUBSET Offsets]
  /\ desc \in [Groups -> Descs]
  /\ freeclusters \in Int
  /\ handles \subseteq Threads /\ dirty \subseteq Groups
  /\ gdtDirty \in BOOLEAN /\ locked \in BOOLEAN /\ aborted \in BOOLEAN
  /\ committed \in [bits : [Groups -> SUBSET Offsets],
                    desc : [Groups -> Descs]]
  /\ pc \in [Threads -> PCs]
  /\ block \in [Threads -> Nat]
  /\ wasSet \in [Threads -> BOOLEAN]
  /\ word \in [Threads -> SUBSET Offsets]
  /\ count \in [Threads -> Counts]
  /\ held \in [Threads -> Nat]
  /\ ret \in [Threads -> {"ok", "err"}]

(* The steps between the store of the bit and the last checksum.           *)
Midway == {"loadcount", "storecount", "percpu", "sumbitmap", "setbitmapsum",
           "sumdesc", "setdescsum"}

(* What ext4_lock_group would have to cover: no two calls are between the  *)
(* test of a bit and the store of the checksum in one group.               *)
Critical == {"load", "store"} \cup Midway
Exclusive == \A t, u \in Threads :
  t # u /\ pc[t] \in Critical /\ pc[u] \in Critical => group(t) # group(u)

Quiet(g) == \A t \in Threads : pc[t] \in Midway => group(t) # g

(* A bitmap and a descriptor that e2fsck would accept.                     *)
Whole(b, d) == /\ d.free = Cardinality(Offsets \ b)
               /\ d.bitmapCsum = b
               /\ d.csum = [free |-> d.free, bitmapCsum |-> b]

(* Outside the window between storing a bit and storing the descriptor's   *)
(* checksum, the free count and both checksums of a group match its bitmap *)
(* (notes.txt:1).                                                          *)
GroupConsistent == \A g \in Groups : Quiet(g) => Whole(bitmap[g], desc[g])

(* Once no call is between its bit and the percpu counter, the free count  *)
(* of the superblock is the sum of the groups' free counts.                *)
SuperblockConsistent ==
  (\A t \in Threads : pc[t] \notin Midway) => freeclusters = TotalFree(desc)

(* What a crash restores is whole: no commit splits a flip.                *)
CrashConsistent ==
  \A g \in Groups : Whole(committed.bits[g], committed.desc[g])

(* A change that is not on disk is in the running transaction, or belongs  *)
(* to a call that has not returned, or the journal is aborted.             *)
NothingLost ==
  \A g \in Groups :
    \/ aborted
    \/ \E t \in handles : group(t) = g
    \/ /\ g \in dirty \/ bitmap[g] = committed.bits[g]
       /\ gdtDirty \/ desc[g] = committed.desc[g]

(* A call that has returned, on whatever path, has closed its handle and   *)
(* dropped its reference on the bitmap buffer, and dropped it once.        *)
NoLeak == \A t \in Threads :
            /\ held[t] = (IF pc[t] \in {"idle", "read"} THEN 0 ELSE 1)
            /\ t \in handles <=> pc[t] \notin {"idle", "read", "start"}

(* The free count of a group on disk is the number of its clear bits.      *)
FreeCountOnDisk == \A g \in Groups :
  committed.desc[g].free = Cardinality(Offsets \ committed.bits[g])

(* Counts what the free count of a group should count: clear bits of       *)
(* blocks that exist (ext4.h: bg_free_blocks_count is a count of blocks).  *)
FreeMatchesBlocks ==
  \A g \in Groups : Quiet(g) =>
    desc[g].free = Cardinality(RealOffsets(g) \ bitmap[g])

(* Every call returns, whatever commits, aborts and crashes do.            *)
CallsReturn == \A t \in Threads : pc[t] # "idle" ~> pc[t] = "idle"

(* A flipped bit reaches the disk, or the journal is aborted.              *)
DirtyReachesDisk == (dirty # {}) ~> (dirty = {} \/ aborted)

-----------------------------------------------------------------------------
(* The inductive invariant behind the properties above: what each step of  *)
(* a call has in its registers, and how the memory of its group stands.    *)
GroupExists == \A t \in Threads : pc[t] \notin {"idle", "read"} =>
                                   group(t) \in Groups

Phase(t, b, d) ==
  /\ pc[t] \in {"load", "store"} => (wasSet[t] <=> offset(t) \in b)
  /\ pc[t] = "store" => word[t] = b
  /\ pc[t] \in {"loadcount", "storecount"} =>
       d.free + Delta(wasSet[t]) = Cardinality(Offsets \ b)
  /\ pc[t] \in {"percpu", "sumbitmap", "setbitmapsum", "sumdesc",
                "setdescsum"} => d.free = Cardinality(Offsets \ b)
  /\ pc[t] \in {"storecount", "setdescsum"} => count[t] = d.free
  /\ pc[t] = "setbitmapsum" => word[t] = b
  /\ pc[t] \in {"sumdesc", "setdescsum"} => d.bitmapCsum = b
  /\ pc[t] = "setdescsum" => word[t] = b

Phases == \A t \in Threads : pc[t] \in Critical =>
            Phase(t, bitmap[group(t)], desc[group(t)])

(* The calls at one of the steps that clear, and that set, their bit.      *)
Clearing(steps) == {t \in Threads : pc[t] \in steps /\ wasSet[t]}
Setting(steps)  == {t \in Threads : pc[t] \in steps /\ ~wasSet[t]}

(* The percpu counter lags the descriptors by the calls about to write it. *)
CounterLag == freeclusters + Cardinality(Clearing({"percpu"}))
                           - Cardinality(Setting({"percpu"}))
              = TotalFree(desc)

(* Changed memory that is not yet dirty metadata belongs to a call that    *)
(* has yet to mark it.                                                     *)
Unmarked == Midway \cup {"dirtybitmap", "dirtydesc"}
Marked ==
  aborted \/ /\ \A t \in Threads : pc[t] = "dirtydesc" => group(t) \in dirty
             /\ \A g \in Groups :
                  \/ \E t \in Threads : pc[t] \in Unmarked /\ group(t) = g
                  \/ /\ g \in dirty \/ bitmap[g] = committed.bits[g]
                     /\ gdtDirty \/ desc[g] = committed.desc[g]

(* Inductive for the behaviours in which Exclusive holds throughout.       *)
IndInv == /\ TypeOK /\ NoLeak /\ GroupExists /\ Phases /\ GroupConsistent
          /\ CounterLag /\ Marked /\ CrashConsistent

-----------------------------------------------------------------------------
(* EvfsFlip implements BlockLedger: a flip takes place when its bit is     *)
(* stored, and the counts it has yet to write are added.                   *)
BeforeCount == {"loadcount", "storecount"}
BeforeTotal == {"loadcount", "storecount", "percpu"}
In(g) == {t \in Threads : group(t) = g}

FreeThen == [g \in Groups |->
  desc[g].free + Cardinality(Clearing(BeforeCount) \cap In(g))
               - Cardinality(Setting(BeforeCount) \cap In(g))]
TotalThen == freeclusters + Cardinality(Clearing(BeforeTotal))
                          - Cardinality(Setting(BeforeTotal))
OnDisk == [bits |-> committed.bits,
           free |-> [g \in Groups |-> committed.desc[g].free]]

Ledger == INSTANCE BlockLedger WITH
  bits <- bitmap, free <- FreeThen, total <- TotalThen, disk <- OnDisk

(* Flips are atomic and a crash restores one whole commit.                 *)
ImplementsLedger == Ledger!Spec
=============================================================================
