-------------------------------- MODULE Ioctls --------------------------------
(***************************************************************************)
(* The ioctls of ioctl.c that change metadata, together: online resize,    *)
(* shutdown, checkpoint, defragmentation, migration and the rest, with the *)
(* flip of ext4-evfs.c.  What they share is what can go wrong between      *)
(* them: EXT4_FLAGS_RESIZING, write access to the mount, the inode lock,   *)
(* the journal with its barrier, EXT4_FLAGS_SHUTDOWN, and a freeze of the  *)
(* block device.                                                           *)
(*                                                                         *)
(* A handler is a sequence of rows <<step, exit>>, one for each call that  *)
(* takes, changes or gives back shared state: exit is the step the code    *)
(* goes on with when this one fails, "go" for the next one and "ret" for   *)
(* return.  How a setter writes its superblocks and a flip its bitmap is   *)
(* in SuperblockUpdate and EvfsFlip; here that is one journal handle.      *)
(* The file system has a journal, block group checksums and inode tables   *)
(* that are initialised lazily.                                            *)
(***************************************************************************)
EXTENDS Integers, Sequences, FiniteSetsExt

CONSTANTS Threads,    \* each makes one call
          Scenarios,  \* which thread makes which call, or none
          MinGroups,  \* s_groups_count at first
          MaxGroups,  \* bound on s_groups_count
          MayRemount  \* the file system may be made read-only

NoThread == "none"

ASSUME NamesAssumption == Threads \cap {NoThread, "error"} = {}

ASSUME GroupsAssumption ==
  MinGroups \in Nat \ {0} /\ MaxGroups \in Nat /\ MinGroups <= MaxGroups

-----------------------------------------------------------------------------
(* The handlers.                                                           *)
FlushNoUnlock == << <<"barrier", "go">>, <<"flush", "go">> >>
FlushJournal == << <<"barrier", "go">>, <<"flush", "go">>, <<"unbarrier", "go">> >>

GroupExtend ==
  << <<"begin", "ret">>, <<"check", "end">>, <<"want", "end">>, <<"work", "go">> >>
  \o FlushJournal \o << <<"drop", "go">>, <<"end", "go">> >>

GroupAdd ==
  << <<"check", "ret">>, <<"begin", "ret">>, <<"check", "end">>,
     <<"want", "end">>, <<"grow", "go">> >>
  \o FlushJournal
  \o << <<"drop", "go">>, <<"lazy", "go">>, <<"end", "go">> >>

(* ext4_resize_fs adds groups in several transactions, and then            *)
(* ext4_resize_end updates the overhead, which takes the flag once more.   *)
UpdateOverhead ==
  << <<"writable", "ret">>, <<"begin", "ret">>, <<"overhead", "go">>, <<"end", "go">> >>
ResizeFsExit(exit) ==
  << <<"check", "ret">>, <<"begin", "ret">>, <<"want", exit>>,
     <<"grow", "go">>, <<"grow", "go">> >>
  \o FlushJournal
  \o << <<"drop", "go">>, <<"lazy", "go">>, <<"end", "go">> >> \o UpdateOverhead
ResizeFsKeepFlag == ResizeFsExit("ret")
ResizeFs == ResizeFsExit("end")

(* The setters take the flag themselves, in ext4_update_superblocks_fn.    *)
SetLabel ==
  << <<"check", "ret">>, <<"want", "ret">>, <<"begin", "drop">>,
     <<"work", "go">>, <<"end", "go">>, <<"drop", "go">> >>

MoveExt ==
  << <<"check", "ret">>, <<"fdget", "ret">>, <<"check", "fdput">>,
     <<"want", "fdput">>, <<"work", "go">>, <<"work", "go">>, <<"drop", "go">>,
     <<"check", "go">>, <<"fdput", "go">> >>

Migrate ==
  << <<"check", "ret">>, <<"want", "ret">>, <<"lock", "go">>,
     <<"work", "go">>, <<"work", "go">>, <<"unlock", "go">>, <<"drop", "go">> >>

(* SWAP_BOOT has the same rows; what it does is in BootLoaderSwap.         *)
AllocDaBlks ==
  << <<"check", "ret">>, <<"want", "ret">>, <<"work", "go">>, <<"drop", "go">> >>

FlipBlockBit == << <<"check", "ret">>, <<"work", "go">> >>

(* With DRY_RUN it ends after its checks.                                  *)
Checkpoint == << <<"check", "ret">> >> \o FlushJournal
CheckpointDryRun == << <<"check", "ret">> >>

Asked == << <<"check", "ret">>, <<"alive", "ret">> >>

ShutdownThawFirst ==
  Asked \o << <<"freeze", "go">>, <<"drain", "ret">>, <<"thaw", "go">>,
              <<"setflag", "go">>, <<"nodiscard", "go">> >>
ShutdownDefault ==
  Asked \o << <<"freeze", "go">>, <<"drain", "ret">>, <<"setflag", "go">>,
              <<"thaw", "go">>, <<"nodiscard", "go">> >>

ShutdownAbortFirst ==
  Asked \o << <<"setflag", "go">>, <<"abort", "go">>, <<"commit", "go">>,
              <<"nodiscard", "go">> >>
ShutdownLogflush ==
  Asked \o << <<"setflag", "go">>, <<"commit", "go">>, <<"abort", "go">>,
              <<"nodiscard", "go">> >>

ShutdownNologflush ==
  Asked \o << <<"setflag", "go">>, <<"abort", "go">>, <<"nodiscard", "go">> >>

Handler ==
  [GROUP_EXTEND |-> GroupExtend, GROUP_ADD |-> GroupAdd, RESIZE_FS |-> ResizeFs,
   SETFSLABEL |-> SetLabel, MOVE_EXT |-> MoveExt, MIGRATE |-> Migrate,
   ALLOC_DA_BLKS |-> AllocDaBlks, FLIP_BLOCK_BIT |-> FlipBlockBit,
   CHECKPOINT |-> Checkpoint, CHECKPOINT_DRY_RUN |-> CheckpointDryRun,
   SHUTDOWN_DEFAULT |-> ShutdownDefault, SHUTDOWN_LOGFLUSH |-> ShutdownLogflush,
   SHUTDOWN_NOLOGFLUSH |-> ShutdownNologflush]

(* Calls after which everything that was complete before is on disk.       *)
Flushing == {"GROUP_EXTEND", "GROUP_ADD", "RESIZE_FS", "CHECKPOINT",
             "SHUTDOWN_DEFAULT", "SHUTDOWN_LOGFLUSH"}

ASSUME ScenariosAssumption ==
  Scenarios \subseteq [Threads -> DOMAIN Handler \cup {"none"}]

VARIABLES
  resizing,   \* who set EXT4_FLAGS_RESIZING; empty when the bit is clear
  shutdown,   \* who set EXT4_FLAGS_SHUTDOWN; empty when the bit is clear
  discard,    \* the DISCARD mount option
  ro,         \* sb_rdonly
  writers,    \* threads between mnt_want_write_file and mnt_drop_write_file
  freezers,   \* threads between bdev_freeze and bdev_thaw
  ilock,      \* holder of the inode lock
  donors,     \* threads that hold the donor file of MOVE_EXT
  handles,    \* threads with an open journal handle
  barrier,    \* holder of jbd2_journal_lock_updates
  txn,        \* what the running transaction holds: "guarded" changes, made
              \* with write access to the mount, and "bare" ones
  aborted,    \* who aborted the journal, or NoThread
  ngroups,    \* s_groups_count
  durable,    \* the group count on disk
  asked,      \* groups whose lazy initialisation was asked for
  overhead,   \* group count that s_overhead_clusters was computed for
  pc,         \* position in the handler; 0 before the call
  cmd, err,   \* the call and its err
  o_group,    \* the local o_group of RESIZE_FS
  added,      \* groups the call has added
  owe         \* calls for which something is not yet on disk that was
              \* complete when they were made, or that they did themselves

flags == <<resizing, shutdown, discard, ro>>
locks == <<writers, freezers, ilock, donors, handles, barrier>>
store == <<txn, aborted, ngroups, durable, asked, overhead, owe>>
call  == <<pc, cmd, err, o_group, added>>
vars  == <<flags, locks, store, call>>

Groups == 0 .. MaxGroups - 1

Init ==
  /\ resizing = {} /\ shutdown = {} /\ discard = TRUE /\ ro = FALSE
  /\ writers = {} /\ freezers = {} /\ donors = {} /\ handles = {}
  /\ ilock = NoThread /\ barrier = NoThread /\ aborted = NoThread
  /\ txn = {} /\ asked = {} /\ owe = {}
  /\ ngroups = MinGroups /\ durable = MinGroups /\ overhead = MinGroups
  /\ pc = [t \in Threads |-> 0] /\ err = [t \in Threads |-> "ok"]
  /\ cmd \in Scenarios
  /\ o_group = [t \in Threads |-> 0] /\ added = [t \in Threads |-> {}]

-----------------------------------------------------------------------------
(* Moving through a handler.                                               *)
Rows(t) == Len(Handler[cmd[t]])
Inside(t) == pc[t] > 0 /\ pc[t] <= Rows(t)
Finished(t) == pc[t] > 0 /\ pc[t] > Rows(t)
Step(t) == Handler[cmd[t]][pc[t]][1]
Exit(t) == Handler[cmd[t]][pc[t]][2]
At(t, steps) == Inside(t) /\ Step(t) \in steps

Advance(t) == pc' = [pc EXCEPT ![t] = @ + 1] /\ UNCHANGED <<cmd, err, o_group, added>>

(* The row that the exit of the current one leads to.                      *)
After(t) ==
  IF Exit(t) = "go" THEN pc[t] + 1
  ELSE IF Exit(t) = "ret" THEN Rows(t) + 1
  ELSE Min({k \in pc[t] + 1 .. Rows(t) : Handler[cmd[t]][k][1] = Exit(t)})

(* The first error is the one that is returned.                            *)
Fail(t, e) ==
  /\ pc' = [pc EXCEPT ![t] = After(t)]
  /\ err' = [err EXCEPT ![t] = IF @ = "ok" THEN e ELSE @]
  /\ UNCHANGED <<cmd, o_group, added>>

Leave(t) == pc' = [pc EXCEPT ![t] = After(t)] /\ UNCHANGED <<cmd, err, o_group, added>>

(* Everything in the running transaction reaches the disk.                 *)
Persist ==
  /\ txn' = {} /\ durable' = ngroups /\ owe' = {}
  /\ UNCHANGED <<aborted, ngroups, asked, overhead>>

-----------------------------------------------------------------------------
Call(t) ==
  /\ pc[t] = 0 /\ cmd[t] # "none"
  /\ pc' = [pc EXCEPT ![t] = 1]
  /\ o_group' = [o_group EXCEPT ![t] = ngroups]
  /\ owe' = IF cmd[t] \in Flushing /\ txn # {} THEN owe \cup {t} ELSE owe
  /\ UNCHANGED <<flags, locks, txn, aborted, ngroups, durable, asked, overhead,
                 cmd, err, added>>

(* Capabilities, modes, features, arguments and copies from and to the     *)
(* caller: each may refuse.                                                *)
Check(t) ==
  /\ At(t, {"check"})
  /\ Advance(t) \/ Fail(t, "refused")
  /\ UNCHANGED <<flags, locks, store>>

(* test_and_set_bit_lock, in ext4_resize_begin and in                      *)
(* ext4_update_superblocks_fn.                                             *)
MayBegin == resizing = {}

Begin(t) ==
  /\ At(t, {"begin"})
  /\ IF MayBegin THEN resizing' = resizing \cup {t} /\ Advance(t)
                 ELSE UNCHANGED resizing /\ Fail(t, "busy")
  /\ UNCHANGED <<shutdown, discard, ro, locks, store>>

End(t) ==
  /\ At(t, {"end"})
  /\ resizing' = {}
  /\ Advance(t)
  /\ UNCHANGED <<shutdown, discard, ro, locks, store>>

(* mnt_want_write_file waits while the file system is frozen.              *)
MayWrite == freezers = {}

Want(t) ==
  /\ At(t, {"want"})
  /\ MayWrite
  /\ IF ro THEN UNCHANGED writers /\ Fail(t, "rofs")
           ELSE writers' = writers \cup {t} /\ Advance(t)
  /\ UNCHANGED <<flags, freezers, ilock, donors, handles, barrier, store>>

Drop(t) ==
  /\ At(t, {"drop"})
  /\ writers' = writers \ {t}
  /\ Advance(t)
  /\ UNCHANGED <<flags, freezers, ilock, donors, handles, barrier, store>>

GetDonor(t) ==
  /\ At(t, {"fdget"})
  /\ \/ donors' = donors \cup {t} /\ Advance(t)
     \/ UNCHANGED donors /\ Fail(t, "badf")
  /\ UNCHANGED <<flags, writers, freezers, ilock, handles, barrier, store>>

PutDonor(t) ==
  /\ At(t, {"fdput"})
  /\ donors' = donors \ {t}
  /\ Advance(t)
  /\ UNCHANGED <<flags, writers, freezers, ilock, handles, barrier, store>>

LockInode(t) ==
  /\ At(t, {"lock"})
  /\ ilock = NoThread
  /\ ilock' = t
  /\ Advance(t)
  /\ UNCHANGED <<flags, writers, freezers, donors, handles, barrier, store>>

UnlockInode(t) ==
  /\ At(t, {"unlock"})
  /\ ilock' = NoThread
  /\ Advance(t)
  /\ UNCHANGED <<flags, writers, freezers, donors, handles, barrier, store>>

-----------------------------------------------------------------------------
(* A transaction of the call.  The code skips the rest of its work after   *)
(* an error; the overhead is updated whatever came before.                 *)
Work == {"work", "grow", "overhead"}

Skip(t) ==
  /\ At(t, {"work", "grow", "lazy"}) /\ t \notin handles
  /\ err[t] # "ok"
  /\ Advance(t)
  /\ UNCHANGED <<flags, locks, store>>

Due(t) == At(t, Work) /\ t \notin handles /\ (err[t] = "ok" \/ Step(t) = "overhead")

(* ext4_journal_start                                                      *)
MayStart == ~ro /\ shutdown = {} /\ aborted = NoThread

StartHandle(t) ==
  /\ Due(t) /\ MayStart /\ barrier = NoThread
  /\ handles' = handles \cup {t}
  /\ UNCHANGED <<flags, writers, freezers, ilock, donors, barrier, store, call>>

(* It is refused, or an allocation or a read fails before a change.        *)
WorkFails(t) ==
  /\ Due(t)
  /\ Fail(t, "failed")
  /\ UNCHANGED <<flags, locks, store>>

Guarded(t) == IF t \in writers THEN "guarded" ELSE "bare"

(* The callback set_overhead reads s_overhead when it is called, and that  *)
(* follows the group count.                                                *)
NewOverhead(t) == ngroups

(* ext4_journal_stop fails on an aborted journal; the flip ignores that.   *)
StopHandle(t) ==
  /\ t \in handles
  /\ handles' = handles \ {t}
  /\ IF aborted = NoThread
     THEN /\ txn' = txn \cup {Guarded(t)}
          /\ owe' = IF cmd[t] \in Flushing /\ Step(t) # "overhead" THEN owe \cup {t} ELSE owe
     ELSE UNCHANGED <<txn, owe>>
  /\ IF Step(t) = "grow" /\ ngroups < MaxGroups
     THEN ngroups' = ngroups + 1 /\ added' = [added EXCEPT ![t] = @ \cup {ngroups}]
     ELSE UNCHANGED <<ngroups, added>>
  /\ overhead' = IF Step(t) = "overhead" THEN NewOverhead(t) ELSE overhead
  /\ pc' = [pc EXCEPT ![t] = @ + 1]
  /\ err' = IF aborted # NoThread /\ err[t] = "ok" /\ cmd[t] # "FLIP_BLOCK_BIT"
            THEN [err EXCEPT ![t] = "failed"] ELSE err
  /\ UNCHANGED <<flags, writers, freezers, ilock, donors, barrier,
                 aborted, durable, asked, cmd, o_group>>

(* jbd2_journal_lock_updates keeps new handles out, jbd2_journal_flush     *)
(* comes when the open ones are closed.                                    *)
LockUpdates(t) ==
  /\ At(t, {"barrier"})
  /\ barrier = NoThread
  /\ barrier' = t
  /\ Advance(t)
  /\ UNCHANGED <<flags, writers, freezers, ilock, donors, handles, store>>

Flush(t) ==
  /\ At(t, {"flush"})
  /\ handles = {}
  /\ IF aborted = NoThread THEN Persist /\ Advance(t)
                           ELSE UNCHANGED store /\ Fail(t, "failed")
  /\ UNCHANGED <<flags, locks>>

UnlockUpdates(t) ==
  /\ At(t, {"unbarrier"})
  /\ barrier' = NoThread
  /\ Advance(t)
  /\ UNCHANGED <<flags, writers, freezers, ilock, donors, handles, store>>

(* ext4_register_li_request, from the group of the request for GROUP_ADD   *)
(* and from o_group for RESIZE_FS if the count has grown since.            *)
FirstNewLast(t) == ngroups - 1
FirstNew(t) == IF cmd[t] = "GROUP_ADD" THEN Min(added[t] \cup {ngroups}) ELSE o_group[t]

Lazy(t) ==
  /\ At(t, {"lazy"})
  /\ err[t] = "ok"
  /\ \/ asked' = asked \cup FirstNew(t) .. ngroups - 1 /\ Advance(t)
     \/ FirstNew(t) < ngroups /\ UNCHANGED asked /\ Fail(t, "nomem")
  /\ UNCHANGED <<flags, locks, txn, aborted, ngroups, durable, overhead, owe>>

(* ext4_update_overhead returns 0 on a read-only file system.              *)
Writable(t) ==
  /\ At(t, {"writable"})
  /\ IF ro THEN Leave(t) ELSE Advance(t)
  /\ UNCHANGED <<flags, locks, store>>

-----------------------------------------------------------------------------
(* ext4_force_shutdown: nothing to do if it is done, or being done.        *)
Alive(t) ==
  /\ At(t, {"alive"})
  /\ IF shutdown # {} THEN Leave(t) ELSE Advance(t)
  /\ UNCHANGED <<flags, locks, store>>

(* bdev_freeze: no new writers, then the old ones leave, then everything   *)
(* is written.                                                             *)
Freeze(t) ==
  /\ At(t, {"freeze"})
  /\ freezers' = freezers \cup {t}
  /\ Advance(t)
  /\ UNCHANGED <<flags, writers, ilock, donors, handles, barrier, store>>

Drain(t) ==
  /\ At(t, {"drain"})
  /\ writers = {} /\ handles = {} /\ barrier = NoThread
  /\ IF aborted = NoThread
     THEN Persist /\ Advance(t) /\ UNCHANGED freezers
     ELSE UNCHANGED store /\ Fail(t, "failed") /\ freezers' = freezers \ {t}
  /\ UNCHANGED <<flags, writers, ilock, donors, handles, barrier>>

SetShutdown(t) ==
  /\ At(t, {"setflag"})
  /\ shutdown' = shutdown \cup {t}
  /\ Advance(t)
  /\ UNCHANGED <<resizing, discard, ro, locks, store>>

Thaw(t) ==
  /\ At(t, {"thaw"})
  /\ freezers' = freezers \ {t}
  /\ Advance(t)
  /\ UNCHANGED <<flags, writers, ilock, donors, handles, barrier, store>>

(* The error of ext4_force_commit is ignored.                              *)
ForceCommit(t) ==
  /\ At(t, {"commit"})
  /\ \/ aborted = NoThread /\ handles = {} /\ Persist
     \/ aborted # NoThread /\ UNCHANGED store
  /\ Advance(t)
  /\ UNCHANGED <<flags, locks>>

AbortJournal(t) ==
  /\ At(t, {"abort"})
  /\ aborted' = IF aborted = NoThread THEN t ELSE aborted
  /\ Advance(t)
  /\ UNCHANGED <<flags, locks, txn, ngroups, durable, asked, overhead, owe>>

ClearDiscard(t) ==
  /\ At(t, {"nodiscard"})
  /\ discard' = FALSE
  /\ Advance(t)
  /\ UNCHANGED <<resizing, shutdown, ro, locks, store>>

-----------------------------------------------------------------------------
(* The periodic commit, an I/O error in it, and a remount.                 *)
Commit ==
  /\ txn # {} /\ handles = {} /\ aborted = NoThread
  /\ Persist
  /\ UNCHANGED <<flags, locks, call>>

CommitFails ==
  /\ txn # {} /\ handles = {} /\ aborted = NoThread
  /\ aborted' = "error"
  /\ UNCHANGED <<flags, locks, txn, ngroups, durable, asked, overhead, owe, call>>

RemountReadonly ==
  /\ MayRemount /\ ~ro
  /\ writers = {} /\ freezers = {} /\ handles = {}
  /\ ro' = TRUE
  /\ UNCHANGED <<resizing, shutdown, discard, locks, store, call>>

Locked(t) == Want(t) \/ LockInode(t) \/ StartHandle(t) \/ LockUpdates(t) \/ Flush(t)
Free(t) ==
  \/ Check(t) \/ Begin(t) \/ End(t) \/ Drop(t) \/ GetDonor(t) \/ PutDonor(t)
  \/ UnlockInode(t) \/ Skip(t) \/ StopHandle(t) \/ UnlockUpdates(t) \/ Lazy(t)
  \/ Writable(t) \/ Alive(t) \/ Freeze(t) \/ Drain(t) \/ SetShutdown(t)
  \/ Thaw(t) \/ ForceCommit(t) \/ AbortJournal(t) \/ ClearDiscard(t)

(* A call that waits goes on; that its work fails is not owed to it,       *)
(* unless no handle can be had.                                            *)
Proceed(t) == Inside(t) /\ (Locked(t) \/ Free(t) \/ (~MayStart /\ WorkFails(t)))

Next ==
  \/ \E t \in Threads : Call(t) \/ Locked(t) \/ Free(t) \/ WorkFails(t)
  \/ Commit \/ CommitFails \/ RemountReadonly

Spec == Init /\ [][Next]_vars
FairSpec == Spec /\ \A t \in Threads : WF_vars(Proceed(t))

-----------------------------------------------------------------------------
(* A call that has returned holds nothing: flag, write access, inode lock, *)
(* donor, handle, barrier or freeze, whichever exit it took.               *)
Released ==
  \A t \in Threads : Finished(t) =>
    /\ t \notin resizing \cup writers \cup freezers \cup donors \cup handles
    /\ t \notin {ilock, barrier}

(* A resize that went well, but for the overhead update that comes last,   *)
(* has asked for the lazy initialisation of all of its groups: o_group,    *)
(* read before others were excluded, may be too small but not too large.   *)
(* When RESIZE_FS succeeds the superblocks tell the overhead with its      *)
(* groups too, unless the file system was made read-only in between.       *)
ResizeComplete ==
  \A t \in Threads : Finished(t) =>
    /\ err[t] \in {"ok", "busy"} => added[t] \subseteq asked
    /\ err[t] = "ok" /\ cmd[t] = "RESIZE_FS" =>
         ro \/ \A g \in added[t] : overhead > g

(* When a resize, a checkpoint or a shutdown that flushes returns success, *)
(* what was complete when it was called and what it did is on disk; the    *)
(* overhead, which RESIZE_FS updates after its flush, is left out.  Of a   *)
(* shutdown that holds for the call that sets the flag, unless another     *)
(* shutdown or an I/O error had already aborted the journal.               *)
SuccessIsDurable ==
  \A t \in Threads : Finished(t) /\ err[t] = "ok" /\ t \in owe =>
    /\ cmd[t] \in {"SHUTDOWN_DEFAULT", "SHUTDOWN_LOGFLUSH"}
    /\ t \in shutdown => aborted \notin {NoThread, t}

(* While the block device is frozen, and after a call that shut the file   *)
(* system down has returned, nothing that was changed with write access    *)
(* waits to be written and no call is about to make such a change; only an *)
(* aborted journal, which writes nothing, may still hold some.  After the  *)
(* shutdown nothing is discarded either.                                   *)
Frozen == \E t \in freezers : ~At(t, {"drain"})
ShutDown == \E t \in shutdown : Finished(t)
Quiet ==
  /\ Frozen \/ ShutDown =>
       aborted # NoThread \/ ("guarded" \notin txn /\ handles \cap writers = {})
  /\ Frozen => writers = {}
  /\ ShutDown => ~discard

(* Every call returns: each thread makes one, so again and again there is  *)
(* a moment with no call under way.                                        *)
CallsReturn == []<>(\A t \in Threads : pc[t] = 0 \/ Finished(t))
=============================================================================
