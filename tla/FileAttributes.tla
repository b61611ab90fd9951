---------------------------- MODULE FileAttributes ----------------------------
(***************************************************************************)
(* The flags, the project and the generation of one inode, as ioctl.c      *)
(* changes them: ext4_fileattr_set with ext4_ioctl_check_immutable,        *)
(* ext4_ioctl_setflags and ext4_ioctl_setproject, and EXT4_IOC_SETVERSION, *)
(* called by several threads beside mapped writes, direct I/O, quota, the  *)
(* journal, eviction of the inode and crashes.                             *)
(***************************************************************************)
EXTENDS FiniteSets, Naturals

CONSTANTS Threads,
          Flags,        \* the flags of this instance: subset of AllFlags
          Projects,     \* project ids
          DefProject,   \* EXT4_DEF_PROJID
          Generations,
          Mounts,       \* features of the file system, kind of the inode
          Nobody,       \* no thread
          Astray,       \* counted in a project the inode no longer knows of
          Faults        \* calls that may fail: subset of FaultKinds

Settable == {"IMMUTABLE", "JOURNAL_DATA", "EXTENTS", "DAX", "CASEFOLD", "NODUMP"}
AllFlags == Settable \cup {"VERITY", "HUGE_FILE"}
Modifiable == Flags \cap Settable                  \* EXT4_FL_USER_MODIFIABLE
Visible == Flags \ {"HUGE_FILE"}                   \* EXT4_FL_USER_VISIBLE
DirectoryOnly == {"CASEFOLD"}                        \* not in EXT4_REG_FLMASK
DaxMutExcl == {"VERITY", "JOURNAL_DATA"}           \* EXT4_DAX_MUT_EXCL
Separate == {"JOURNAL_DATA", "EXTENTS"}            \* changed after the others

FaultKinds == {"flush", "start", "reserve", "journal", "migrate", "dquot",
               "locate", "expand", "dqget", "transfer", "write", "abort"}
Features == [dir : BOOLEAN, project : BOOLEAN, quota : BOOLEAN,
             oldInodes : BOOLEAN, casefold : BOOLEAN, csum : BOOLEAN,
             building : BOOLEAN, quotaFile : BOOLEAN]

ASSUME AttributesAssumption ==
  /\ Flags \subseteq AllFlags
  /\ DefProject \in Projects /\ Astray \notin Projects
  /\ Generations # {} /\ Mounts # {} /\ Mounts \subseteq Features
  /\ Nobody \notin Threads /\ Faults \subseteq FaultKinds

VARIABLES
  mount,       \* the features, which never change
  flags,       \* i_flags of the ext4 inode
  immutable,   \* S_IMMUTABLE of the VFS inode
  dax,         \* S_DAX of the VFS inode
  projid, generation,
  charged,     \* the project whose quota the inode is counted in, and whose
               \* dquot it holds or will be given; else Astray
  raw,         \* the inode in the buffer cache
  disk,        \* what recovery finds: [inode, charged]
  aborted,     \* the journal is aborted
  pc, asked,   \* the next step of t, and its arguments
  old,         \* oldflags; the project when the call began
  err,         \* the outcome so far: "none", "immutable", "failed"
  lock,        \* the thread that holds the inode's i_rwsem, or Nobody
  handle, iloc, \* t has an open handle, a reference to the inode's block
  writer,      \* t has mnt_want_write_file
  dio,         \* direct I/O is in flight
  writable     \* a mapped page can be written without a fault

inode  == <<flags, immutable, dax, projid, generation, charged>>
store  == <<raw, disk, aborted>>
held   == <<lock, handle, iloc, writer>>
locals == <<asked, old, err>>
io     == <<dio, writable>>
vars == <<mount, inode, store, held, locals, io, pc>>

Image == [flags |-> flags, projid |-> projid, generation |-> generation]
NoCall == [flags |-> {}, projid |-> DefProject,
           generation |-> CHOOSE g \in Generations : TRUE]

(* ext4_should_enable_dax, when the inode is read                          *)
ShouldDax(f) == ~mount.dir /\ "DAX" \in f /\ f \cap DaxMutExcl = {}

(* Inodes of EXT4_GOOD_OLD_INODE_SIZE have no room for i_projid            *)
StoresProject == mount.project /\ ~mount.oldInodes

Init ==
  /\ mount \in Mounts
  /\ flags \in {f \in SUBSET Flags :
                  /\ ~({"DAX"} \subseteq f /\ f \cap DaxMutExcl # {})
                  /\ ~mount.dir => f \cap DirectoryOnly = {}}
  /\ immutable = ("IMMUTABLE" \in flags) /\ dax = ShouldDax(flags)
  /\ projid \in (IF StoresProject THEN Projects ELSE {DefProject})
  /\ generation = NoCall.generation /\ charged = projid
  /\ raw = Image /\ disk = [inode |-> raw, charged |-> charged]
  /\ aborted = FALSE
  /\ pc = [t \in Threads |-> "idle"]
  /\ asked = [t \in Threads |-> NoCall] /\ old = [t \in Threads |-> NoCall]
  /\ err = [t \in Threads |-> "none"] /\ lock = Nobody
  /\ handle = [t \in Threads |-> FALSE] /\ iloc = [t \in Threads |-> FALSE]
  /\ writer = [t \in Threads |-> FALSE]
  /\ dio = FALSE /\ writable = FALSE

-----------------------------------------------------------------------------
Goto(t, from, to) == pc[t] = from /\ pc' = [pc EXCEPT ![t] = to]
Fail(t, from, to) == Goto(t, from, to) /\ err' = [err EXCEPT ![t] = "failed"]
MayFail(kind) == kind \in Faults

(* The parts that the operations share: ext4_journal_start,                *)
(* ext4_reserve_inode_write, ext4_mark_iloc_dirty, ext4_journal_stop.      *)
StartHandle(t, from, to, out) ==
  /\ UNCHANGED <<mount, inode, store, lock, iloc, writer, asked, old, io>>
  /\ \/ /\ ~aborted
        /\ Goto(t, from, to) /\ handle' = [handle EXCEPT ![t] = TRUE]
        /\ UNCHANGED err
     \/ /\ aborted \/ MayFail("start")
        /\ Fail(t, from, out) /\ UNCHANGED handle

Reserve(t, from, to, out) ==
  /\ UNCHANGED <<mount, inode, store, lock, handle, writer, asked, old, io>>
  /\ \/ /\ Goto(t, from, to) /\ iloc' = [iloc EXCEPT ![t] = TRUE]
        /\ UNCHANGED err
     \/ /\ aborted \/ MayFail("reserve")
        /\ Fail(t, from, out) /\ UNCHANGED iloc

(* With write access at hand it fails only if the journal is aborted; the  *)
(* reference to the block is dropped either way.                           *)
MarkIloc(t, from, to) ==
  /\ UNCHANGED <<mount, inode, disk, aborted, lock, handle, writer, asked, old, io>>
  /\ iloc' = [iloc EXCEPT ![t] = FALSE]
  /\ \/ ~aborted /\ Goto(t, from, to) /\ raw' = Image /\ UNCHANGED err
     \/ aborted /\ Fail(t, from, to) /\ UNCHANGED raw

StopHandle(t, from, to) ==
  /\ Goto(t, from, to) /\ handle' = [handle EXCEPT ![t] = FALSE]
  /\ UNCHANGED <<mount, inode, store, lock, iloc, writer, locals, io>>

-----------------------------------------------------------------------------
(* A call waits for the inode lock, which the VFS takes.                   *)
CallSetattr(t) ==
  /\ Goto(t, "idle", "lock")
  /\ \E f \in SUBSET Flags, p \in Projects :
       asked' = [asked EXCEPT ![t] = [NoCall EXCEPT !.flags = f, !.projid = p]]
  /\ UNCHANGED <<mount, inode, store, held, old, err, io>>

Lock(t, from, to) ==
  /\ Goto(t, from, to)
  /\ lock = Nobody /\ lock' = t
  /\ old' = [old EXCEPT ![t] = Image]
  /\ UNCHANGED <<mount, inode, store, handle, iloc, writer, asked, err, io>>

(* flags &= EXT4_FL_USER_MODIFIABLE                                        *)
Wanted(t) == asked[t].flags \cap Modifiable
Changes(t, f) == (f \in Wanted(t)) # (f \in old[t].flags)

(* The checks of ext4_fileattr_set itself: EXT4_FL_USER_VISIBLE and        *)
(* ext4_mask_flags.                                                        *)
Acceptable(t) ==
  /\ asked[t].flags \subseteq Visible
  /\ mount.dir \/ Wanted(t) \cap DirectoryOnly = {}

(* ext4_ioctl_check_immutable                                              *)
KeepsRestAnyFlags(t) ==
  "IMMUTABLE" \in flags /\ "IMMUTABLE" \in Wanted(t) =>
    (mount.project => projid = asked[t].projid)
KeepsRest(t) ==
  "IMMUTABLE" \in flags /\ "IMMUTABLE" \in Wanted(t) =>
    /\ flags \ {"IMMUTABLE"} = Wanted(t) \ {"IMMUTABLE"}
    /\ mount.project => projid = asked[t].projid

(* dax_compatible, with the flags as they are and as they are wanted       *)
DaxCompatible(t) ==
  /\ "DAX" \in Wanted(t) => old[t].flags \cap DaxMutExcl = {} /\ ~mount.building
  /\ Wanted(t) \cap DaxMutExcl # {} => "DAX" \notin old[t].flags

CasefoldAllowed(t) == Changes(t, "CASEFOLD") => mount.casefold /\ mount.dir

(* Some refusals depend on what is left out: the capability for            *)
(* JOURNAL_DATA, a directory that is not empty.                            *)
MayBeRefused(t) == Changes(t, "JOURNAL_DATA") \/ Changes(t, "CASEFOLD")

Allowed(t) ==
  /\ Acceptable(t) /\ ~mount.quotaFile /\ DaxCompatible(t) /\ CasefoldAllowed(t)

MustDrain(t) == ~mount.dir /\ ~immutable /\ "IMMUTABLE" \in Wanted(t)

Check(t) ==
  /\ \/ /\ Acceptable(t) /\ ~KeepsRest(t)
        /\ Goto(t, "check", "unlock")
        /\ err' = [err EXCEPT ![t] = "immutable"]
     \/ /\ ~Acceptable(t) \/ (KeepsRest(t) /\ (~Allowed(t) \/ MayBeRefused(t)))
        /\ Fail(t, "check", "unlock")
     \/ /\ KeepsRest(t) /\ Allowed(t)
        /\ Goto(t, "check", IF MustDrain(t) THEN "diowait" ELSE "start")
        /\ UNCHANGED err
  /\ UNCHANGED <<mount, inode, store, held, asked, old, io>>

(* inode_dio_wait, filemap_write_and_wait                                  *)
DioIgnored == TRUE
DioDone == ~dio

DioWait(t) ==
  /\ Goto(t, "diowait", "flush") /\ DioDone
  /\ UNCHANGED <<mount, inode, store, held, locals, io>>

Flush(t) ==
  /\ \/ Goto(t, "flush", "start") /\ writable' = FALSE /\ UNCHANGED err
     \/ MayFail("flush") /\ Fail(t, "flush", "unlock") /\ UNCHANGED writable
  /\ UNCHANGED <<mount, inode, store, held, asked, old, dio>>

(* The loop over the 32 flags.                                             *)
EveryFlag(t) == Wanted(t) \cup (flags \ Modifiable)
Others(t) == (Wanted(t) \ Separate) \cup (flags \ (Modifiable \ Separate))

ChangeFlags(t) ==
  /\ Goto(t, "loop", "setinode")
  /\ flags' = Others(t)
  /\ UNCHANGED <<mount, immutable, dax, projid, generation, charged, store, held,
                 locals, io>>

(* ext4_set_inode_flags(inode, false): S_DAX stays as it is                *)
InodeFlags == "IMMUTABLE" \in flags

SetInodeFlags(t) ==
  /\ Goto(t, "setinode", "mark")
  /\ immutable' = InodeFlags
  /\ UNCHANGED <<mount, flags, dax, projid, generation, charged, store, held,
                 locals, io>>

StopFlags(t) ==
  /\ Goto(t, "stop", IF err[t] = "none" THEN "journal" ELSE "unlock")
  /\ handle' = [handle EXCEPT ![t] = FALSE]
  /\ UNCHANGED <<mount, inode, store, lock, iloc, writer, locals, io>>

(* ext4_change_inode_journal_flag, ext4_ext_migrate, ext4_ind_migrate each *)
(* change one flag, in a transaction of their own, or fail.                *)
Toggle(t, flag) ==
  LET new == (flags \ {flag}) \cup (Wanted(t) \cap {flag}) IN
  /\ ~aborted
  /\ flags' = new /\ raw' = [raw EXCEPT !.flags = new]

DaxBusy == dax

JournalFlag(t) ==
  /\ UNCHANGED <<mount, immutable, dax, projid, generation, charged, disk,
                 aborted, held, asked, old, io>>
  /\ \/ /\ ~Changes(t, "JOURNAL_DATA") /\ Goto(t, "journal", "migrate")
        /\ UNCHANGED <<flags, raw, err>>
     \/ /\ Changes(t, "JOURNAL_DATA") /\ ~DaxBusy /\ Goto(t, "journal", "migrate")
        /\ Toggle(t, "JOURNAL_DATA") /\ UNCHANGED err
     \/ /\ Changes(t, "JOURNAL_DATA")
        /\ DaxBusy \/ aborted \/ MayFail("journal")
        /\ Fail(t, "journal", "unlock") /\ UNCHANGED <<flags, raw>>

IgnoreMigrate(t) == Goto(t, "migrate", "project") /\ UNCHANGED err
MigrateFails(t) == Fail(t, "migrate", "unlock")

Migrate(t) ==
  /\ UNCHANGED <<mount, immutable, dax, projid, generation, charged, disk,
                 aborted, held, asked, old, io>>
  /\ \/ /\ ~Changes(t, "EXTENTS") /\ Goto(t, "migrate", "project")
        /\ UNCHANGED <<flags, raw, err>>
     \/ /\ Changes(t, "EXTENTS") /\ Goto(t, "migrate", "project")
        /\ Toggle(t, "EXTENTS") /\ UNCHANGED err
     \/ /\ Changes(t, "EXTENTS")
        /\ aborted \/ MayFail("migrate")
        /\ MigrateFails(t) /\ UNCHANGED <<flags, raw>>

-----------------------------------------------------------------------------
(* ext4_ioctl_setproject                                                   *)
SetProject(t) ==
  /\ LET p == asked[t].projid IN
     \/ /\ StoresProject /\ p # projid
        /\ Goto(t, "project", "dquot") /\ UNCHANGED err
     \/ /\ IF mount.project THEN StoresProject /\ p = projid ELSE p = DefProject
        /\ Goto(t, "project", "unlock") /\ UNCHANGED err
     \/ /\ IF mount.project THEN mount.oldInodes ELSE p # DefProject
        /\ Fail(t, "project", "unlock")
  /\ UNCHANGED <<mount, inode, store, held, asked, old, io>>

DquotInit(t) ==
  /\ \/ Goto(t, "dquot", "locate") /\ UNCHANGED err
     \/ MayFail("dquot") /\ Fail(t, "dquot", "unlock")
  /\ UNCHANGED <<mount, inode, store, held, asked, old, io>>

Locate(t) ==
  /\ \/ Goto(t, "locate", "expand") /\ iloc' = [iloc EXCEPT ![t] = TRUE]
        /\ UNCHANGED err
     \/ MayFail("locate") /\ Fail(t, "locate", "unlock") /\ UNCHANGED iloc
  /\ UNCHANGED <<mount, inode, store, lock, handle, writer, asked, old, io>>

(* If i_projid does not fit, ext4_expand_extra_isize makes room and drops  *)
(* the reference; otherwise it is dropped here.                            *)
KeepIloc(t) == iloc
DropIloc(t) == [iloc EXCEPT ![t] = FALSE]

Expand(t) ==
  /\ iloc' = DropIloc(t)
  /\ \/ Goto(t, "expand", "pstart") /\ UNCHANGED err
     \/ (aborted \/ MayFail("expand")) /\ Fail(t, "expand", "unlock")
  /\ UNCHANGED <<mount, inode, store, lock, handle, writer, asked, old, io>>

(* dqget, __dquot_transfer and the new project. When dqget fails, as it    *)
(* does without project quota, the transfer is skipped and the project is  *)
(* set all the same; when the transfer fails the project stays.            *)
ProjectAnyway(t) == asked[t].projid
ProjectAfterFailure(t) == projid

NoDquot == ~mount.quota \/ MayFail("dqget")

Transfer(t) ==
  /\ UNCHANGED <<mount, flags, immutable, dax, generation, store, held, asked,
                 old, io>>
  /\ \/ /\ mount.quota /\ Goto(t, "transfer", "pmark")
        /\ charged' = IF charged = Astray THEN Astray ELSE asked[t].projid
        /\ projid' = asked[t].projid /\ UNCHANGED err
     \/ /\ NoDquot /\ Goto(t, "transfer", "pmark")
        /\ projid' = asked[t].projid /\ UNCHANGED <<charged, err>>
     \/ /\ mount.quota /\ MayFail("transfer")
        /\ Fail(t, "transfer", "pmark")
        /\ projid' = ProjectAfterFailure(t) /\ UNCHANGED charged

MarkProject(t) == MarkIloc(t, "pmark", "pstop")

KeepLock == lock
DropLock == Nobody

Unlock(t) ==
  /\ Goto(t, "unlock", "idle")
  /\ lock' = DropLock
  /\ asked' = [asked EXCEPT ![t] = NoCall]
  /\ old' = [old EXCEPT ![t] = NoCall]
  /\ err' = [err EXCEPT ![t] = "none"]
  /\ UNCHANGED <<mount, inode, store, handle, iloc, writer, io>>

-----------------------------------------------------------------------------
(* EXT4_IOC_SETVERSION, refused with metadata_csum                         *)
CallSetVersion(t) ==
  /\ ~mount.csum
  /\ \E g \in Generations : asked' = [asked EXCEPT ![t] = [NoCall EXCEPT !.generation = g]]
  /\ writer' = [writer EXCEPT ![t] = TRUE]
  /\ \/ Goto(t, "idle", "vlock") /\ UNCHANGED err
     \/ MayFail("write") /\ Fail(t, "idle", "vdrop")
  /\ UNCHANGED <<mount, inode, store, lock, handle, iloc, old, io>>

SetGeneration(t) ==
  /\ Goto(t, "vset", "vmark")
  /\ generation' = asked[t].generation
  /\ UNCHANGED <<mount, flags, immutable, dax, projid, charged, store, held,
                 locals, io>>

UnlockVersion(t) ==
  /\ Goto(t, "vunlock", "vdrop")
  /\ lock' = DropLock
  /\ UNCHANGED <<mount, inode, store, handle, iloc, writer, locals, io>>

DropWrite(t) ==
  /\ Goto(t, "vdrop", "idle")
  /\ writer' = [writer EXCEPT ![t] = FALSE]
  /\ asked' = [asked EXCEPT ![t] = NoCall]
  /\ old' = [old EXCEPT ![t] = NoCall]
  /\ err' = [err EXCEPT ![t] = "none"]
  /\ UNCHANGED <<mount, inode, store, lock, handle, iloc, io>>

-----------------------------------------------------------------------------
(* Direct I/O starts under the inode lock, a write fault does not; both    *)
(* are refused on an immutable inode.                                      *)
StartDio ==
  /\ ~dio /\ ~mount.dir /\ lock = Nobody /\ ~immutable /\ dio' = TRUE
  /\ UNCHANGED <<mount, inode, store, held, locals, pc, writable>>

EndDio ==
  /\ dio /\ dio' = FALSE
  /\ UNCHANGED <<mount, inode, store, held, locals, pc, writable>>

FaultWrite ==
  /\ ~writable /\ ~mount.dir /\ ~immutable /\ writable' = TRUE
  /\ UNCHANGED <<mount, inode, store, held, locals, pc, dio>>

Writeback ==
  /\ writable /\ writable' = FALSE
  /\ UNCHANGED <<mount, inode, store, held, locals, pc, dio>>

-----------------------------------------------------------------------------
(* The inode leaves memory when nobody uses it, and is read again: it then *)
(* gets the dquot of the project it was read with.                         *)
Recount(c, p) == IF mount.quota /\ c # p THEN Astray ELSE c

Read(i, c) ==
  /\ flags' = i.flags /\ projid' = i.projid /\ generation' = i.generation
  /\ immutable' = ("IMMUTABLE" \in i.flags) /\ dax' = ShouldDax(i.flags)
  /\ charged' = Recount(c, i.projid)

Evict ==
  /\ \A t \in Threads : pc[t] = "idle"
  /\ ~dio /\ ~writable
  /\ Read(raw, charged)
  /\ UNCHANGED <<mount, store, held, locals, io, pc>>

(* jbd2, power failure and recovery                                        *)
Commit ==
  /\ ~aborted /\ \A t \in Threads : ~handle[t]
  /\ disk' = [inode |-> raw, charged |-> charged]
  /\ UNCHANGED <<mount, inode, raw, aborted, held, locals, io, pc>>

Abort ==
  /\ MayFail("abort") /\ ~aborted /\ aborted' = TRUE
  /\ UNCHANGED <<mount, inode, raw, disk, held, locals, io, pc>>

Crash ==
  /\ Read(disk.inode, disk.charged)
  /\ raw' = disk.inode /\ aborted' = FALSE
  /\ pc' = [t \in Threads |-> "idle"]
  /\ asked' = [t \in Threads |-> NoCall] /\ old' = [t \in Threads |-> NoCall]
  /\ err' = [t \in Threads |-> "none"] /\ lock' = Nobody
  /\ handle' = [t \in Threads |-> FALSE] /\ iloc' = [t \in Threads |-> FALSE]
  /\ writer' = [t \in Threads |-> FALSE]
  /\ dio' = FALSE /\ writable' = FALSE
  /\ UNCHANGED <<mount, disk>>

Setattr(t) ==
  \/ Check(t) \/ DioWait(t) \/ Flush(t)
  \/ StartHandle(t, "start", "reserve", "unlock")
  \/ Reserve(t, "reserve", "loop", "stop")
  \/ ChangeFlags(t) \/ SetInodeFlags(t) \/ MarkIloc(t, "mark", "stop")
  \/ StopFlags(t) \/ JournalFlag(t) \/ Migrate(t)

Setproject(t) ==
  \/ SetProject(t) \/ DquotInit(t) \/ Locate(t) \/ Expand(t)
  \/ StartHandle(t, "pstart", "preserve", "unlock")
  \/ Reserve(t, "preserve", "transfer", "pstop")
  \/ Transfer(t) \/ MarkProject(t) \/ StopHandle(t, "pstop", "unlock")
  \/ Unlock(t)

SetVersion(t) ==
  \/ StartHandle(t, "vstart", "vreserve", "vunlock")
  \/ Reserve(t, "vreserve", "vset", "vstop")
  \/ SetGeneration(t) \/ MarkIloc(t, "vmark", "vstop")
  \/ StopHandle(t, "vstop", "vunlock") \/ UnlockVersion(t) \/ DropWrite(t)

TakeLock(t) == Lock(t, "lock", "check") \/ Lock(t, "vlock", "vstart")
Running(t) == Setattr(t) \/ Setproject(t) \/ SetVersion(t)

Next ==
  \/ \E t \in Threads :
       CallSetattr(t) \/ CallSetVersion(t) \/ TakeLock(t) \/ Running(t)
  \/ StartDio \/ EndDio \/ FaultWrite \/ Writeback
  \/ Evict \/ Commit \/ Abort \/ Crash

Spec == Init /\ [][Next]_vars

(* Steps are taken, direct I/O ends, and the lock is handed to those who   *)
(* wait for it.                                                            *)
FairSpec ==
  /\ Spec
  /\ \A t \in Threads : WF_vars(Running(t)) /\ SF_vars(TakeLock(t))
  /\ WF_vars(EndDio)

-----------------------------------------------------------------------------
(* On each of its exits a call has closed its handle, dropped the          *)
(* reference to the inode's block and the write access to the mount, and   *)
(* unlocked the inode.                                                     *)
Released ==
  \A t \in Threads :
    /\ pc[t] \in {"idle", "unlock", "vunlock", "vdrop"} => ~handle[t] /\ ~iloc[t]
    /\ pc[t] \in {"idle", "vdrop"} => lock # t
    /\ pc[t] = "idle" => ~writer[t]

(* A call that returns 0 did all it was asked: the flags that users may    *)
(* change are the ones asked for, the two that are changed apart too, the  *)
(* project is, the generation is, and all of it is in the journal.         *)
SuccessMeansAll ==
  \A t \in Threads : err[t] = "none" =>
    /\ pc[t] = "unlock" =>
         /\ flags \cap Modifiable = Wanted(t)
         /\ mount.project => projid = asked[t].projid
    /\ pc[t] = "vunlock" => generation = asked[t].generation
    /\ pc[t] \in {"unlock", "vunlock"} => raw = Image

(* "If immutable is set and we are not clearing it, we're not allowed to   *)
(* change anything else in the inode": such a call of ext4_fileattr_set    *)
(* changes nothing, in any of its steps.                                   *)
ImmutableKept ==
  \A t \in Threads :
    /\ lock = t
    /\ pc[t] \notin {"vstart", "vreserve", "vset", "vmark", "vstop", "vunlock"}
    /\ "IMMUTABLE" \in old[t].flags /\ "IMMUTABLE" \in Wanted(t)
    => Image = old[t]

(* "Changes to the journaling mode can cause unsafe changes to S_DAX if    *)
(* the inode is DAX": data is never journalled while the inode is used     *)
(* with DAX, though the flag was cleared long before S_DAX is.             *)
DaxNotJournalled == ~(dax /\ "JOURNAL_DATA" \in flags)

(* No direct I/O is in flight on an immutable file.                        *)
NoDioToImmutable == ~(immutable /\ dio)

(* The inode is counted in the quota of its project. The only call after   *)
(* which it is not is one that returned 0 although its dqget failed; an    *)
(* error, an abort or an eviction never parts them, and what a crash       *)
(* restores is wrong only if it was committed after such a call.           *)
FollowsNow == aborted \/ charged = projid
FollowsOnDisk == disk.charged = disk.inode.projid
SkippedTransfer(t) ==
  /\ pc[t] = "transfer" /\ MayFail("dqget")
  /\ projid' = asked[t].projid /\ UNCHANGED <<charged, err>>

QuotaKept ==
  mount.project /\ mount.quota =>
    /\ FollowsNow /\ ~FollowsNow' =>
         \/ \E t \in Threads : SkippedTransfer(t)
         \/ ~FollowsOnDisk /\ Crash
    /\ FollowsOnDisk /\ ~FollowsOnDisk' => ~FollowsNow

QuotaFollows == [][QuotaKept]_vars

(* "Flags which are mutually exclusive to DAX".                            *)
DaxExclusive == ~("DAX" \in flags /\ flags \cap DaxMutExcl # {})

(* "The flush marks all the pages readonly, so any subsequent attempt to   *)
(* write to the file (particularly mmap pages) will come through the       *)
(* filesystem and fail."                                                   *)
WritesFail == ~(immutable /\ writable)

(* Every call gets the lock and returns.                                   *)
CallsReturn ==
  \A t \in Threads : pc[t] \in {"lock", "vlock"} ~> pc[t] = "idle"
=============================================================================
