--------------------------- MODULE SuperblockUpdate ---------------------------
(***************************************************************************)
(* The label and UUID ioctls of ioctl.c: ext4_update_superblocks_fn writes *)
(* the primary superblock and two backups through one jbd2 handle and the  *)
(* remaining backups straight to the disk, under EXT4_FLAGS_RESIZING.  The *)
(* resize ioctls, which take the same flag, appear as far as they touch    *)
(* the same state: they add groups through the journal and flush it before *)
(* they clear the flag.  A superblock is its label and its UUID; whether a *)
(* backup's checksum is valid is kept beside it.                           *)
(***************************************************************************)
EXTENDS Integers, Sequences, FiniteSets

CONSTANTS Updaters,      \* threads that set the label or the UUID
          Resizers,      \* threads that resize the file system
          Values,        \* labels and UUIDs
          Fields,        \* which of "label" and "uuid" may be set
          Visits,        \* group 0, then what ext4_list_backups returns
          HasSuper,      \* ext4_bg_has_super
          PrimaryGroup,  \* the group of s_sbh
          MinGroups,     \* s_groups_count when mounted first
          MaxGroups,     \* bound on s_groups_count
          MayBeBad,      \* groups whose backup may have a bad checksum
          Faults         \* calls that may fail: subset of FaultKinds

FaultKinds == {"start", "primary", "backup", "grow", "abort"}

ASSUME ThreadsAssumption == Updaters \cap Resizers = {}

ASSUME VisitsAssumption ==
  /\ Visits \in Seq(Nat) /\ Visits # <<>> /\ Visits[1] = 0
  /\ \A j, k \in DOMAIN Visits : j < k => Visits[j] < Visits[k]

ASSUME GroupsAssumption ==
  /\ MinGroups \in Nat /\ MaxGroups \in Nat
  /\ 0 < MinGroups /\ MinGroups <= MaxGroups
  /\ PrimaryGroup \in 0 .. MinGroups - 1
  /\ PrimaryGroup \in HasSuper
  /\ MayBeBad \subseteq 0 .. MaxGroups - 1
  /\ PrimaryGroup \notin MayBeBad

ASSUME KindsAssumption ==
  /\ Fields \subseteq {"label", "uuid"}
  /\ Faults \subseteq FaultKinds
  /\ Values # {}

Threads == Updaters \cup Resizers
Groups  == 0 .. MaxGroups - 1

VARIABLES
  resizing,    \* EXT4_FLAGS_RESIZING
  ngroups,     \* s_groups_count
  sb,          \* sb[g]: the cached superblock of group g
  bad,         \* groups whose backup fails its checksum
  txn,         \* superblocks in the running transaction
  log,         \* superblocks with a committed copy in the journal
  aborted,     \* the journal is aborted
  disk,        \* what recovery finds: [sb, ngroups, bad]
  pc,          \* pc[t]: the next step of t
  writers,     \* threads inside mnt_want_write_file
  field, arg,  \* func and its argument
  limit,       \* the local ngroups
  pos,         \* grp, as an index of Visits
  i,           \* the local i
  handle,      \* t has an open handle
  used,        \* credits of the handle t has used
  err          \* the local err

store  == <<sb, bad, txn, log, disk, ngroups, aborted>>
locals == <<field, arg, limit, pos, i, handle, used>>
vars   == <<resizing, store, pc, writers, locals, err>>

Superblocks == [{"label", "uuid"} -> Values]
PCs == {"idle", "flag", "start", "primary", "visit", "stopearly",
        "outjournal", "out", "drop", "grow", "flush", "end"}

(* No call holds anything on its stack.                                    *)
NoArg == CHOOSE v \in Values : TRUE

Init ==
  /\ resizing = FALSE /\ ngroups = MinGroups
  /\ \E v \in Values : sb = [g \in Groups |-> [f \in {"label", "uuid"} |-> v]]
  /\ bad \in SUBSET MayBeBad
  /\ txn = {} /\ log = {} /\ aborted = FALSE
  /\ disk = [sb |-> sb, ngroups |-> ngroups, bad |-> bad]
  /\ pc = [t \in Threads |-> "idle"] /\ writers = {}
  /\ field = [t \in Threads |-> "label"] /\ arg = [t \in Threads |-> NoArg]
  /\ limit = [t \in Threads |-> 0] /\ pos = [t \in Threads |-> 1]
  /\ i = [t \in Threads |-> 0] /\ used = [t \in Threads |-> 0]
  /\ handle = [t \in Threads |-> FALSE]
  /\ err = [t \in Threads |-> "ok"]

-----------------------------------------------------------------------------
Goto(t, from, to) == pc[t] = from /\ pc' = [pc EXCEPT ![t] = to]
SetErr(t, e) == err' = [err EXCEPT ![t] = e]

(* The callbacks ext4_sb_setlabel and ext4_sb_setuuid on the copy of g.    *)
func(t, g) == [sb EXCEPT ![g] = [@ EXCEPT ![field[t]] = arg[t]]]

(* A call without capability, with a bad argument, for a UUID the features *)
(* pin or on a read-only mount returns before this and touches nothing.    *)
Call(t) ==
  /\ Goto(t, "idle", "flag")
  /\ writers' = writers \cup {t}
  /\ \E f \in Fields, v \in Values :
       field' = [field EXCEPT ![t] = f] /\ arg' = [arg EXCEPT ![t] = v]
  /\ UNCHANGED <<resizing, store, limit, pos, i, handle, used, err>>

(* test_and_set_bit_lock                                                   *)
MayTakeAlways == TRUE
MayTake == ~resizing

TakeFlag(t) ==
  /\ MayTake
  /\ resizing' = TRUE
  /\ Goto(t, "flag", "start")
  /\ UNCHANGED <<store, writers, locals, err>>

Busy(t) ==
  /\ ~MayTake
  /\ Goto(t, "flag", "drop")
  /\ SetErr(t, "busy")
  /\ UNCHANGED <<resizing, store, writers, locals>>

StartHandle(t) ==
  /\ ~aborted
  /\ Goto(t, "start", "primary")
  /\ handle' = [handle EXCEPT ![t] = TRUE]
  /\ UNCHANGED <<resizing, store, writers, field, arg, limit, pos, i, used, err>>

StartFails(t) ==
  /\ aborted \/ "start" \in Faults
  /\ Goto(t, "start", "out")
  /\ SetErr(t, "err")
  /\ UNCHANGED <<resizing, store, writers, locals>>

-----------------------------------------------------------------------------
(* ext4_get_groups_count                                                   *)
GroupsCount == ngroups

(* ext4_update_primary_sb, then primary_grp and ngroups are read.          *)
UpdatePrimary(t) ==
  /\ ~aborted
  /\ Goto(t, "primary", "visit")
  /\ sb' = func(t, PrimaryGroup)
  /\ txn' = txn \cup {PrimaryGroup}
  /\ used' = [used EXCEPT ![t] = @ + 1]
  /\ limit' = [limit EXCEPT ![t] = GroupsCount]
  /\ UNCHANGED <<resizing, bad, log, disk, ngroups, aborted, writers,
                 field, arg, pos, i, handle, err>>

(* No write access; or the change is made and cannot be marked dirty, or   *)
(* is marked dirty and sync_dirty_buffer fails.                            *)
PrimaryFails(t) ==
  /\ aborted \/ "primary" \in Faults
  /\ Goto(t, "primary", "outjournal")
  /\ SetErr(t, "err")
  /\ \/ UNCHANGED <<sb, txn, used>>
     \/ sb' = func(t, PrimaryGroup) /\ UNCHANGED <<txn, used>>
     \/ /\ sb' = func(t, PrimaryGroup)
        /\ txn' = txn \cup {PrimaryGroup}
        /\ used' = [used EXCEPT ![t] = @ + 1]
  /\ UNCHANGED <<resizing, bad, log, disk, ngroups, aborted, writers,
                 field, arg, limit, pos, i, handle>>

-----------------------------------------------------------------------------
(* The loop over the backups.                                              *)
grp(t) == Visits[pos[t]]
Remains(t) == pos[t] <= Len(Visits) /\ grp(t) < limit[t]
Visiting(t) == pc[t] = "visit" /\ Remains(t)

SameGroup(t) == UNCHANGED <<pos, pc, i>>
NextGroup(t) ==
  /\ pos' = [pos EXCEPT ![t] = @ + 1]
  /\ UNCHANGED <<pc, i>>

(* `i += ret; if (handle && i > 1)' after a visit that returned 1.         *)
TwoDoneLate(t) == handle[t] /\ i[t] + 1 > 2
TwoDoneEarly(t) == handle[t] /\ i[t] + 1 > 0
TwoDone(t) == handle[t] /\ i[t] + 1 > 1

Counted(t) ==
  /\ i' = [i EXCEPT ![t] = @ + 1]
  /\ IF TwoDone(t)
     THEN pc' = [pc EXCEPT ![t] = "stopearly"] /\ UNCHANGED pos
     ELSE pos' = [pos EXCEPT ![t] = @ + 1] /\ UNCHANGED pc

(* The primary's group, or no superblock in the group: 0 is returned.      *)
SkipGroup(t) ==
  /\ Visiting(t)
  /\ grp(t) = PrimaryGroup \/ grp(t) \notin HasSuper
  /\ NextGroup(t)
  /\ UNCHANGED <<resizing, store, writers, field, arg, limit, handle, used, err>>

IsBackup(t) == Visiting(t) /\ grp(t) # PrimaryGroup /\ grp(t) \in HasSuper

(* "Invalid checksum for backup superblock": err is still 0 at out_bh, so  *)
(* the visit returns 1 as one that changed the backup does.                *)
BadChecksum(t) ==
  /\ IsBackup(t) /\ grp(t) \in bad
  /\ handle[t] => ~aborted
  /\ Counted(t)
  /\ UNCHANGED <<resizing, store, writers, field, arg, limit, handle, used, err>>

IntactAlways(t) == IsBackup(t)
Intact(t) == IsBackup(t) /\ grp(t) \notin bad

UpdateJournalled(t) ==
  /\ Intact(t) /\ handle[t] /\ ~aborted
  /\ sb' = func(t, grp(t))
  /\ txn' = txn \cup {grp(t)}
  /\ used' = [used EXCEPT ![t] = @ + 1]
  /\ Counted(t)
  /\ UNCHANGED <<resizing, bad, log, disk, ngroups, aborted, writers,
                 field, arg, limit, handle, err>>

(* mark_buffer_dirty and sync_dirty_buffer.  Were there still an older copy *)
(* of the block in the journal, recovery would write that one over it.     *)
Written(g, copy) ==
  IF g \in log THEN disk ELSE [disk EXCEPT !.sb = [@ EXCEPT ![g] = copy]]

UpdateDirect(t) ==
  /\ Intact(t) /\ ~handle[t]
  /\ sb' = func(t, grp(t))
  /\ disk' = Written(grp(t), sb'[grp(t)])
  /\ Counted(t)
  /\ UNCHANGED <<resizing, bad, txn, log, ngroups, aborted, writers,
                 field, arg, limit, handle, used, err>>

(* The backup cannot be read or accessed; or the change is made and cannot *)
(* be marked dirty or written.                                             *)
Failed(t) == Goto(t, "visit", "outjournal") /\ SetErr(t, "err")

BackupFails(t) ==
  /\ IsBackup(t)
  /\ "backup" \in Faults \/ (aborted /\ handle[t])
  /\ Failed(t)
  /\ sb' \in {sb} \cup {func(t, g) : g \in {grp(t)} \ bad}
  /\ UNCHANGED <<resizing, bad, txn, log, disk, ngroups, aborted, writers, locals>>

(* "the rest is not journalled": ext4_journal_stop inside the loop.        *)
StopEarly(t) ==
  /\ handle' = [handle EXCEPT ![t] = FALSE]
  /\ used' = [used EXCEPT ![t] = 0]
  /\ \/ /\ Goto(t, "stopearly", "visit")
        /\ ~aborted
        /\ pos' = [pos EXCEPT ![t] = @ + 1]
        /\ UNCHANGED err
     \/ /\ Goto(t, "stopearly", "out")
        /\ aborted
        /\ SetErr(t, "err")
        /\ UNCHANGED pos
  /\ UNCHANGED <<resizing, store, writers, field, arg, limit, i>>

LoopEnds(t) ==
  /\ ~Remains(t)
  /\ Goto(t, "visit", "outjournal")
  /\ UNCHANGED <<resizing, store, writers, locals, err>>

(* out_journal: the handle is stopped, if it is still open; its error does *)
(* not hide an earlier one.                                                *)
StoppedOnSuccess(t) == [handle EXCEPT ![t] = @ /\ err[t] # "ok"]
Stopped(t) == [handle EXCEPT ![t] = FALSE]

CloseJournal(t) ==
  /\ Goto(t, "outjournal", "out")
  /\ handle' = Stopped(t)
  /\ used' = [used EXCEPT ![t] = 0]
  /\ err' = IF handle[t] /\ aborted THEN [err EXCEPT ![t] = "err"] ELSE err
  /\ UNCHANGED <<resizing, store, writers, field, arg, limit, pos, i>>

KeepFlag(t) == Goto(t, "out", "drop") /\ UNCHANGED resizing
ClearFlag(t) == Goto(t, "out", "drop") /\ resizing' = FALSE

Out(t) ==
  /\ ClearFlag(t)
  /\ UNCHANGED <<store, writers, locals, err>>

(* mnt_drop_write_file, and the return: the locals go.                     *)
DropWrite(t) ==
  /\ Goto(t, "drop", "idle")
  /\ writers' = writers \ {t}
  /\ field' = [field EXCEPT ![t] = "label"]
  /\ arg' = [arg EXCEPT ![t] = NoArg]
  /\ limit' = [limit EXCEPT ![t] = 0]
  /\ pos' = [pos EXCEPT ![t] = 1]
  /\ i' = [i EXCEPT ![t] = 0]
  /\ SetErr(t, "ok")
  /\ UNCHANGED <<resizing, store, handle, used>>

-----------------------------------------------------------------------------
(* The resize ioctls.  ext4_resize_begin finds the flag set: nothing       *)
(* happens, and that call is not modelled.                                 *)
BeginResize(t) ==
  /\ MayTake
  /\ resizing' = TRUE
  /\ Goto(t, "idle", "grow")
  /\ UNCHANGED <<store, writers, locals, err>>

(* A group is added; every backup becomes a copy of the primary.           *)
Grow(t) ==
  /\ Goto(t, "grow", "flush")
  /\ ~aborted /\ ngroups < MaxGroups
  /\ ngroups' = ngroups + 1
  /\ LET copies == {g \in HasSuper : g <= ngroups} \cap Groups
     IN  /\ sb' = [g \in Groups |-> IF g \in copies THEN sb[PrimaryGroup]
                                                    ELSE sb[g]]
         /\ bad' = bad \ copies
         /\ txn' = txn \cup copies
  /\ UNCHANGED <<resizing, log, disk, aborted, writers, locals, err>>

GrowFails(t) ==
  /\ aborted \/ ngroups = MaxGroups \/ "grow" \in Faults
  /\ Goto(t, "grow", "flush")
  /\ UNCHANGED <<resizing, store, writers, locals, err>>

(* The state recovery finds once the running transaction is committed.     *)
Committed ==
  [sb |-> [g \in Groups |-> IF g \in txn THEN sb[g] ELSE disk.sb[g]],
   ngroups |-> ngroups,
   bad |-> disk.bad \ (txn \ bad)]

NoHandles == \A t \in Threads : ~handle[t]

(* jbd2_journal_flush under jbd2_journal_lock_updates: commit, write every *)
(* block home, empty the journal.                                          *)
CommitOnly == disk' = Committed /\ txn' = {} /\ log' = log \cup txn
Flushed == disk' = Committed /\ txn' = {} /\ log' = {}

Flush(t) ==
  /\ Goto(t, "flush", "end")
  /\ IF aborted THEN UNCHANGED <<disk, txn, log>>
     ELSE NoHandles /\ Flushed
  /\ UNCHANGED <<resizing, sb, bad, ngroups, aborted, writers, locals, err>>

EndResize(t) ==
  /\ Goto(t, "end", "idle")
  /\ resizing' = FALSE
  /\ UNCHANGED <<store, writers, locals, err>>

-----------------------------------------------------------------------------
(* jbd2, power failure and recovery.                                       *)
Commit ==
  /\ ~aborted /\ NoHandles /\ txn # {}
  /\ CommitOnly
  /\ UNCHANGED <<resizing, sb, bad, ngroups, aborted, pc, writers, locals, err>>

Checkpoint ==
  /\ ~aborted /\ log # {}
  /\ log' = {}
  /\ UNCHANGED <<resizing, sb, bad, ngroups, aborted, disk, txn, pc, writers,
                 locals, err>>

Abort ==
  /\ "abort" \in Faults /\ ~aborted
  /\ aborted' = TRUE
  /\ UNCHANGED <<resizing, sb, bad, txn, log, disk, ngroups, pc, writers,
                 locals, err>>

Crash ==
  /\ sb' = disk.sb /\ ngroups' = disk.ngroups /\ bad' = disk.bad
  /\ txn' = {} /\ log' = {} /\ aborted' = FALSE
  /\ resizing' = FALSE /\ writers' = {}
  /\ pc' = [t \in Threads |-> "idle"]
  /\ field' = [t \in Threads |-> "label"] /\ arg' = [t \in Threads |-> NoArg]
  /\ limit' = [t \in Threads |-> 0] /\ pos' = [t \in Threads |-> 1]
  /\ i' = [t \in Threads |-> 0] /\ used' = [t \in Threads |-> 0]
  /\ handle' = [t \in Threads |-> FALSE]
  /\ err' = [t \in Threads |-> "ok"]
  /\ UNCHANGED disk

Grows(t) == Grow(t) \/ GrowFails(t) \/ Flush(t) \/ EndResize(t)

Visit(t) ==
  \/ SkipGroup(t) \/ BadChecksum(t) \/ UpdateJournalled(t)
  \/ UpdateDirect(t) \/ BackupFails(t) \/ LoopEnds(t)

Updates(t) ==
  \/ TakeFlag(t) \/ Busy(t) \/ StartHandle(t) \/ StartFails(t)
  \/ UpdatePrimary(t) \/ PrimaryFails(t) \/ Visit(t)
  \/ StopEarly(t) \/ CloseJournal(t) \/ Out(t) \/ DropWrite(t)

Next ==
  \/ \E t \in Updaters : Call(t) \/ Updates(t)
  \/ \E t \in Resizers : BeginResize(t) \/ Grows(t)
  \/ Commit \/ Checkpoint \/ Abort \/ Crash

Spec == Init /\ [][Next]_vars

(* A thread inside a call keeps running.                                   *)
FairSpec ==
  /\ Spec
  /\ \A t \in Updaters : WF_vars(Updates(t))
  /\ \A t \in Resizers : WF_vars(Grows(t))

-----------------------------------------------------------------------------
TypeOK ==
  /\ resizing \in BOOLEAN /\ aborted \in BOOLEAN
  /\ ngroups \in MinGroups .. MaxGroups
  /\ sb \in [Groups -> Superblocks]
  /\ bad \subseteq MayBeBad
  /\ txn \subseteq Groups /\ log \subseteq Groups
  /\ disk \in [sb : [Groups -> Superblocks], ngroups : MinGroups .. MaxGroups,
               bad : SUBSET MayBeBad]
  /\ pc \in [Threads -> PCs] /\ writers \subseteq Threads
  /\ field \in [Threads -> {"label", "uuid"}] /\ arg \in [Threads -> Values]
  /\ limit \in [Threads -> 0 .. MaxGroups]
  /\ pos \in [Threads -> 1 .. Len(Visits) + 1]
  /\ i \in [Threads -> Nat] /\ used \in [Threads -> Nat]
  /\ handle \in [Threads -> BOOLEAN]
  /\ err \in [Threads -> {"ok", "err", "busy"}]

Inside == {t \in Threads : pc[t] \notin {"idle", "flag", "drop"}}

(* EXT4_FLAGS_RESIZING is set exactly while one thread is between its      *)
(* test_and_set_bit_lock and its clear_bit_unlock, whichever exit it takes *)
(* (ext4_update_superblocks_fn, ext4_resize_begin, ext4_resize_end).       *)
FlagHeld ==
  /\ \A s, t \in Inside : s = t
  /\ resizing <=> Inside # {}

(* The handle was started with 3 credits and no call uses more: the loop   *)
(* stops the handle before a third backup could be journalled.             *)
CreditsSuffice ==
  \A t \in Threads : used[t] <= 3 /\ (used[t] > 0 => handle[t])

(* No exit of a label or UUID ioctl, after whatever fault, leaves its      *)
(* handle open, keeps its write access to the mount, stops a handle twice, *)
(* or leaves the flag set, which would refuse every later call.            *)
NoLeak ==
  /\ resizing => Inside # {}
  /\ \A t \in Threads :
       /\ pc[t] \in {"idle", "flag", "start", "out", "drop"} => ~handle[t]
       /\ pc[t] \in {"primary", "stopearly"} => handle[t]
       /\ t \in writers <=> t \in Updaters /\ pc[t] # "idle"

(* The groups of the loop, and those whose backups it journals: the first  *)
(* two of them.                                                            *)
Backups(n) == {g \in Groups \cap HasSuper :
                 g # PrimaryGroup /\ g < n /\ \E k \in DOMAIN Visits : Visits[k] = g}
Before(g)  == {h \in Backups(MaxGroups) : h < g}
Journalled == {g \in Backups(MaxGroups) : Cardinality(Before(g)) < 2}

Succeeds(t) == t \in Updaters /\ pc[t] = "out" /\ err[t] = "ok"

(* When a call succeeds, the primary and every intact backup that exists   *)
(* at that moment hold its argument: no group was added meanwhile, no      *)
(* other call wrote between, no backup was passed over.                    *)
UpdatedEverywhere ==
  \A t \in Threads : Succeeds(t) =>
    \A g \in {PrimaryGroup} \cup (Backups(ngroups) \ bad) :
      sb[g][field[t]] = arg[t]

(* The backups past the second are written past the journal, and their new *)
(* contents are what recovery finds: no older copy of them is left in the  *)
(* journal, because the same two backups are journalled by every call and  *)
(* the resize ioctls flush the journal before they clear the flag.         *)
DirectSurvives ==
  \A t \in Threads : Succeeds(t) =>
    \A g \in Backups(ngroups) \ (bad \cup Journalled) :
      disk.sb[g][field[t]] = arg[t]

(* A backup whose checksum is wrong is not overwritten with one that is    *)
(* right: its evidence of damage stays (ext4_update_backup_sb).            *)
BadBackupsKept == [][\A g \in bad \cap bad' : sb'[g] = sb[g]]_vars

(* A backup only ever takes a value that the primary holds at that moment: *)
(* the primary is changed first, and by one call at a time.                *)
PrimaryFirst ==
  [][\/ Crash
     \/ \A g \in Groups \ {PrimaryGroup}, f \in {"label", "uuid"} :
          sb'[g][f] # sb[g][f] => sb'[g][f] = sb'[PrimaryGroup][f]]_vars

(* If no call fails, recovery finds the primary and the two journalled     *)
(* backups equal, wherever the machine stops: they share one transaction.  *)
JournalledTogether ==
  \A g \in Journalled : g < disk.ngroups /\ g \notin disk.bad =>
    disk.sb[g] = disk.sb[PrimaryGroup]

(* A call that has asked for the flag returns.                             *)
CallsReturn == \A t \in Updaters : pc[t] = "flag" ~> pc[t] = "idle"
=============================================================================
