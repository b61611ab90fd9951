------------------------- MODULE FileAttributesProofs -------------------------
(***************************************************************************)
(* FS_IOC_SETFLAGS, FS_IOC_FSSETXATTR and EXT4_IOC_SETVERSION for any      *)
(* number of threads, any flags and projects: what every exit has          *)
(* released, what success means, what an immutable file keeps, and which   *)
(* step alone parts the project from the quota the inode is counted in.    *)
(***************************************************************************)
EXTENDS FileAttributes, TLAPS

Before == {"check", "diowait", "flush", "start", "reserve", "loop"}
Settled == {"project", "dquot", "locate", "expand", "pstart", "preserve", "transfer"}
Attr ==
  Before \cup Settled \cup
  {"setinode", "mark", "stop", "journal", "migrate", "pmark", "pstop", "unlock"}
Ver == {"vstart", "vreserve", "vset", "vmark", "vstop", "vunlock"}
PCs == Attr \cup Ver \cup {"idle", "lock", "vlock", "vdrop"}
Images == [flags : SUBSET Flags, projid : Projects, generation : Generations]
Charges == Projects \cup {Astray}
Outcomes == {"none", "immutable", "failed"}

TypeOK ==
  /\ mount \in Features
  /\ flags \subseteq Flags /\ projid \in Projects /\ charged \in Charges
  /\ generation \in Generations /\ immutable \in BOOLEAN /\ dax \in BOOLEAN
  /\ raw \in Images /\ disk \in [inode : Images, charged : Charges]
  /\ aborted \in BOOLEAN /\ dio \in BOOLEAN /\ writable \in BOOLEAN
  /\ pc \in [Threads -> PCs] /\ lock \in Threads \cup {Nobody}
  /\ asked \in [Threads -> Images] /\ old \in [Threads -> Images]
  /\ err \in [Threads -> Outcomes]
  /\ handle \in [Threads -> BOOLEAN] /\ iloc \in [Threads -> BOOLEAN]
  /\ writer \in [Threads -> BOOLEAN]

(* What a call holds in each of its steps, and where it may have failed.   *)
Holds(t) ==
  /\ lock = t <=> pc[t] \in Attr \cup Ver
  /\ handle[t] <=> pc[t] \in {"reserve", "loop", "setinode", "mark", "stop", "preserve",
                              "transfer", "pmark", "pstop", "vreserve", "vset", "vmark", "vstop"}
  /\ iloc[t] <=> pc[t] \in {"loop", "setinode", "mark", "expand", "transfer", "pmark",
                            "vset", "vmark"}
  /\ writer[t] <=> pc[t] \in Ver \cup {"vlock", "vdrop"}
  /\ err[t] # "none" => pc[t] \in {"stop", "unlock", "pmark", "pstop", "vstop", "vunlock", "vdrop"}

HoldsInv == TypeOK /\ \A t \in Threads : Holds(t)

LEMMA NoCallType == NoCall \in Images
BY AttributesAssumption DEF NoCall, Images

LEMMA ImageType == TypeOK => Image \in Images
BY DEF TypeOK, Image, Images

LEMMA InitHolds == Init => HoldsInv
<1> SUFFICES ASSUME Init
             PROVE  HoldsInv
  OBVIOUS
<1>1. /\ mount \in Features /\ flags \subseteq Flags /\ projid \in Projects
      /\ charged \in Charges /\ generation \in Generations
  BY NoCallType, AttributesAssumption DEF Init, Images, Charges
<1>2. raw \in Images /\ disk \in [inode : Images, charged : Charges]
  BY <1>1 DEF Init, Image, Images
<1>3. /\ asked \in [Threads -> Images] /\ old \in [Threads -> Images]
  BY NoCallType DEF Init
<1>4. /\ pc \in [Threads -> PCs] /\ err \in [Threads -> Outcomes]
      /\ handle \in [Threads -> BOOLEAN] /\ iloc \in [Threads -> BOOLEAN]
      /\ writer \in [Threads -> BOOLEAN]
  BY DEF Init, PCs, Outcomes
<1>7. immutable \in BOOLEAN /\ dax \in BOOLEAN
  <2>1. immutable = ("IMMUTABLE" \in flags) /\ dax = ShouldDax(flags)
    BY DEF Init
  <2>2. ShouldDax(flags) \in BOOLEAN
    BY DEF ShouldDax
  <2> QED
    BY <2>1, <2>2
<1>5. /\ aborted \in BOOLEAN /\ dio \in BOOLEAN /\ writable \in BOOLEAN
      /\ lock \in Threads \cup {Nobody}
  BY DEF Init
<1>6. \A t \in Threads : Holds(t)
  BY AttributesAssumption DEF Init, Holds, Attr, Before, Settled, Ver
<1> QED
  BY <1>1, <1>2, <1>3, <1>4, <1>5, <1>6, <1>7 DEF HoldsInv, TypeOK

LEMMA GotoType ==
  ASSUME TypeOK, NEW t \in Threads, NEW from, NEW to \in PCs, Goto(t, from, to)
  PROVE  pc' \in [Threads -> PCs]
BY DEF TypeOK, Goto

LEMMA FailType ==
  ASSUME TypeOK, NEW t \in Threads, NEW from, NEW to \in PCs, Fail(t, from, to)
  PROVE  pc' \in [Threads -> PCs] /\ err' \in [Threads -> Outcomes]
BY DEF TypeOK, Fail, Goto, Outcomes

LEMMA ToggleType ==
  ASSUME TypeOK, NEW t \in Threads, NEW flag, Toggle(t, flag)
  PROVE  /\ flags' = (flags \ {flag}) \cup (Wanted(t) \cap {flag}) /\ flags' \subseteq Flags
         /\ raw' = [flags |-> flags', projid |-> raw.projid, generation |-> raw.generation]
         /\ raw' \in Images /\ ~aborted
<1>1. flags' = (flags \ {flag}) \cup (Wanted(t) \cap {flag}) /\ ~aborted
  BY DEF Toggle
<1>2. flags' \subseteq Flags
  BY <1>1 DEF TypeOK, Wanted, Modifiable
<1>3. raw' = [raw EXCEPT !.flags = flags']
  BY <1>1 DEF Toggle
<1>4. raw' = [flags |-> flags', projid |-> raw.projid, generation |-> raw.generation]
  BY <1>3 DEF TypeOK, Images
<1> QED
  BY <1>1, <1>2, <1>4 DEF TypeOK, Images

(* The arguments of a call.                                                *)
LEMMA AskedType ==
  ASSUME TypeOK, NEW t \in Threads, CallSetattr(t) \/ CallSetVersion(t)
  PROVE  /\ asked' \in [Threads -> Images]
         /\ \A u \in Threads \ {t} : asked'[u] = asked[u]
<1>1. \A f \in SUBSET Flags, q \in Projects : [NoCall EXCEPT !.flags = f, !.projid = q] \in Images
  BY NoCallType DEF Images
<1>2. \A g \in Generations : [NoCall EXCEPT !.generation = g] \in Images
  BY NoCallType DEF Images
<1>3. \E r \in Images : asked' = [asked EXCEPT ![t] = r]
  BY <1>1, <1>2 DEF CallSetattr, CallSetVersion
<1> QED
  BY <1>3 DEF TypeOK

(* No step breaks the types.                                               *)
LEMMA NextTypes == TypeOK /\ [Next]_vars => TypeOK'
<1> SUFFICES ASSUME TypeOK, [Next]_vars
             PROVE  TypeOK'
  OBVIOUS
<1> USE NoCallType, ImageType DEF TypeOK
<1>1. ASSUME NEW t \in Threads, CallSetattr(t)
      PROVE  TypeOK'
  <2>1. pc' \in [Threads -> PCs] /\ asked' \in [Threads -> Images]
    BY <1>1, GotoType, AskedType DEF CallSetattr, PCs, Attr
  <2> QED
    BY <1>1, <2>1 DEF CallSetattr, inode, store, held, io
<1>2. ASSUME NEW t \in Threads, CallSetVersion(t)
      PROVE  TypeOK'
  <2>1. /\ pc' \in [Threads -> PCs] /\ asked' \in [Threads -> Images]
        /\ err' \in [Threads -> Outcomes]
    BY <1>2, GotoType, FailType, AskedType DEF CallSetVersion, PCs, Attr
  <2> QED
    BY <1>2, <2>1 DEF CallSetVersion, inode, store, io
<1>3. ASSUME NEW t \in Threads, Lock(t, "lock", "check")
      PROVE  TypeOK'
  <2>1. pc' \in [Threads -> PCs] /\ err' \in [Threads -> Outcomes]
    BY <1>3, GotoType, FailType DEF Lock, PCs, Attr, Before, Settled, Ver, locals
  <2> QED
    BY <1>3, <2>1 DEF Lock, inode, store, held, locals, io
<1>4. ASSUME NEW t \in Threads, Lock(t, "vlock", "vstart")
      PROVE  TypeOK'
  <2>1. pc' \in [Threads -> PCs] /\ err' \in [Threads -> Outcomes]
    BY <1>4, GotoType, FailType DEF Lock, PCs, Attr, Before, Settled, Ver, locals
  <2> QED
    BY <1>4, <2>1 DEF Lock, inode, store, held, locals, io
<1>5. ASSUME NEW t \in Threads, Check(t)
      PROVE  TypeOK'
  <2>1. pc' \in [Threads -> PCs] /\ err' \in [Threads -> Outcomes]
    <3>1. CASE \E to \in {"unlock", "diowait", "start"} :
                 Goto(t, "check", to) /\ (UNCHANGED err \/ err' = [err EXCEPT ![t] = "immutable"])
      BY <3>1, GotoType DEF PCs, Attr, Before, Outcomes
    <3>2. CASE Fail(t, "check", "unlock")
      BY <3>2, FailType DEF PCs, Attr
    <3> QED
      BY <1>5, <3>1, <3>2 DEF Check
  <2> QED
    BY <1>5, <2>1 DEF Check, inode, store, held, locals, io
<1>6. ASSUME NEW t \in Threads, DioWait(t)
      PROVE  TypeOK'
  <2>1. pc' \in [Threads -> PCs] /\ err' \in [Threads -> Outcomes]
    BY <1>6, GotoType, FailType DEF DioWait, PCs, Attr, Before, Settled, Ver, locals
  <2> QED
    BY <1>6, <2>1 DEF DioWait, inode, store, held, locals, io
<1>7. ASSUME NEW t \in Threads, Flush(t)
      PROVE  TypeOK'
  <2>1. pc' \in [Threads -> PCs] /\ err' \in [Threads -> Outcomes]
    BY <1>7, GotoType, FailType DEF Flush, PCs, Attr, Before, Settled, Ver, locals
  <2> QED
    BY <1>7, <2>1 DEF Flush, inode, store, held, locals, io
<1>8. ASSUME NEW t \in Threads, StartHandle(t, "start", "reserve", "unlock")
      PROVE  TypeOK'
  <2>1. pc' \in [Threads -> PCs] /\ err' \in [Threads -> Outcomes]
    BY <1>8, GotoType, FailType DEF StartHandle, PCs, Attr, Before, Settled, Ver, locals
  <2> QED
    BY <1>8, <2>1 DEF StartHandle, inode, store, held, locals, io
<1>9. ASSUME NEW t \in Threads, StartHandle(t, "pstart", "preserve", "unlock")
      PROVE  TypeOK'
  <2>1. pc' \in [Threads -> PCs] /\ err' \in [Threads -> Outcomes]
    BY <1>9, GotoType, FailType DEF StartHandle, PCs, Attr, Before, Settled, Ver, locals
  <2> QED
    BY <1>9, <2>1 DEF StartHandle, inode, store, held, locals, io
<1>10. ASSUME NEW t \in Threads, StartHandle(t, "vstart", "vreserve", "vunlock")
      PROVE  TypeOK'
  <2>1. pc' \in [Threads -> PCs] /\ err' \in [Threads -> Outcomes]
    BY <1>10, GotoType, FailType DEF StartHandle, PCs, Attr, Before, Settled, Ver, locals
  <2> QED
    BY <1>10, <2>1 DEF StartHandle, inode, store, held, locals, io
<1>11. ASSUME NEW t \in Threads, Reserve(t, "reserve", "loop", "stop")
      PROVE  TypeOK'
  <2>1. pc' \in [Threads -> PCs] /\ err' \in [Threads -> Outcomes]
    BY <1>11, GotoType, FailType DEF Reserve, PCs, Attr, Before, Settled, Ver, locals
  <2> QED
    BY <1>11, <2>1 DEF Reserve, inode, store, held, locals, io
<1>12. ASSUME NEW t \in Threads, Reserve(t, "preserve", "transfer", "pstop")
      PROVE  TypeOK'
  <2>1. pc' \in [Threads -> PCs] /\ err' \in [Threads -> Outcomes]
    BY <1>12, GotoType, FailType DEF Reserve, PCs, Attr, Before, Settled, Ver, locals
  <2> QED
    BY <1>12, <2>1 DEF Reserve, inode, store, held, locals, io
<1>13. ASSUME NEW t \in Threads, Reserve(t, "vreserve", "vset", "vstop")
      PROVE  TypeOK'
  <2>1. pc' \in [Threads -> PCs] /\ err' \in [Threads -> Outcomes]
    BY <1>13, GotoType, FailType DEF Reserve, PCs, Attr, Before, Settled, Ver, locals
  <2> QED
    BY <1>13, <2>1 DEF Reserve, inode, store, held, locals, io
<1>14. ASSUME NEW t \in Threads, ChangeFlags(t)
      PROVE  TypeOK'
  <2>1. pc' \in [Threads -> PCs]
    BY <1>14, GotoType DEF ChangeFlags, PCs, Attr
  <2>2. flags' \subseteq Flags
    BY <1>14 DEF ChangeFlags, Others, Wanted, Modifiable
  <2> QED
    BY <1>14, <2>1, <2>2 DEF ChangeFlags, store, held, locals, io
<1>15. ASSUME NEW t \in Threads, SetInodeFlags(t)
      PROVE  TypeOK'
  <2>1. pc' \in [Threads -> PCs]
    BY <1>15, GotoType DEF SetInodeFlags, PCs, Attr
  <2>2. immutable' \in BOOLEAN
    BY <1>15 DEF SetInodeFlags, InodeFlags
  <2> QED
    BY <1>15, <2>1, <2>2 DEF SetInodeFlags, store, held, locals, io
<1>16. ASSUME NEW t \in Threads, MarkIloc(t, "mark", "stop")
      PROVE  TypeOK'
  <2>1. pc' \in [Threads -> PCs] /\ err' \in [Threads -> Outcomes]
    BY <1>16, GotoType, FailType DEF MarkIloc, PCs, Attr, Before, Settled, Ver, locals
  <2> QED
    BY <1>16, <2>1 DEF MarkIloc, inode, store, held, locals, io
<1>17. ASSUME NEW t \in Threads, MarkProject(t)
      PROVE  TypeOK'
  <2>1. pc' \in [Threads -> PCs] /\ err' \in [Threads -> Outcomes]
    BY <1>17, GotoType, FailType DEF MarkProject, MarkIloc, PCs, Attr, Before, Settled,
       Ver, locals
  <2> QED
    BY <1>17, <2>1 DEF MarkProject, MarkIloc, inode, store, held, locals, io
<1>18. ASSUME NEW t \in Threads, MarkIloc(t, "vmark", "vstop")
      PROVE  TypeOK'
  <2>1. pc' \in [Threads -> PCs] /\ err' \in [Threads -> Outcomes]
    BY <1>18, GotoType, FailType DEF MarkIloc, PCs, Attr, Before, Settled, Ver, locals
  <2> QED
    BY <1>18, <2>1 DEF MarkIloc, inode, store, held, locals, io
<1>19. ASSUME NEW t \in Threads, StopFlags(t)
      PROVE  TypeOK'
  <2>1. pc' \in [Threads -> PCs] /\ err' \in [Threads -> Outcomes]
    BY <1>19, GotoType, FailType DEF StopFlags, PCs, Attr, Before, Settled, Ver, locals
  <2> QED
    BY <1>19, <2>1 DEF StopFlags, inode, store, held, locals, io
<1>20. ASSUME NEW t \in Threads, JournalFlag(t)
      PROVE  TypeOK'
  <2>1. /\ flags' \subseteq Flags /\ raw' \in Images
        /\ pc' \in [Threads -> PCs] /\ err' \in [Threads -> Outcomes]
    BY <1>20, ToggleType, GotoType, FailType DEF JournalFlag, PCs, Attr, Settled
  <2> QED
    BY <1>20, <2>1 DEF JournalFlag, held, io
<1>21. ASSUME NEW t \in Threads, Migrate(t)
      PROVE  TypeOK'
  <2>1. /\ flags' \subseteq Flags /\ raw' \in Images
        /\ pc' \in [Threads -> PCs] /\ err' \in [Threads -> Outcomes]
    BY <1>21, ToggleType, GotoType, FailType DEF Migrate, MigrateFails, PCs, Attr,
       Settled
  <2> QED
    BY <1>21, <2>1 DEF Migrate, held, io
<1>22. ASSUME NEW t \in Threads, SetProject(t)
      PROVE  TypeOK'
  <2>1. pc' \in [Threads -> PCs] /\ err' \in [Threads -> Outcomes]
    BY <1>22, GotoType, FailType DEF SetProject, PCs, Attr, Before, Settled, Ver, locals
  <2> QED
    BY <1>22, <2>1 DEF SetProject, inode, store, held, locals, io
<1>23. ASSUME NEW t \in Threads, DquotInit(t)
      PROVE  TypeOK'
  <2>1. pc' \in [Threads -> PCs] /\ err' \in [Threads -> Outcomes]
    BY <1>23, GotoType, FailType DEF DquotInit, PCs, Attr, Before, Settled, Ver, locals
  <2> QED
    BY <1>23, <2>1 DEF DquotInit, inode, store, held, locals, io
<1>24. ASSUME NEW t \in Threads, Locate(t)
      PROVE  TypeOK'
  <2>1. pc' \in [Threads -> PCs] /\ err' \in [Threads -> Outcomes]
    BY <1>24, GotoType, FailType DEF Locate, PCs, Attr, Before, Settled, Ver, locals
  <2> QED
    BY <1>24, <2>1 DEF Locate, inode, store, held, locals, io
<1>25. ASSUME NEW t \in Threads, Expand(t)
      PROVE  TypeOK'
  <2>1. pc' \in [Threads -> PCs] /\ err' \in [Threads -> Outcomes]
    BY <1>25, GotoType, FailType DEF Expand, DropIloc, PCs, Attr, Before, Settled, Ver,
       locals
  <2> QED
    BY <1>25, <2>1 DEF Expand, DropIloc, inode, store, held, locals, io
<1>26. ASSUME NEW t \in Threads, Transfer(t)
      PROVE  TypeOK'
  <2>1. pc' \in [Threads -> PCs] /\ err' \in [Threads -> Outcomes]
    BY <1>26, GotoType, FailType DEF Transfer, PCs, Attr
  <2>2. charged' \in Charges /\ projid' \in Projects
    BY <1>26 DEF Transfer, ProjectAfterFailure, Images, Charges
  <2> QED
    BY <1>26, <2>1, <2>2 DEF Transfer, store, held, io
<1>27. ASSUME NEW t \in Threads, StopHandle(t, "pstop", "unlock")
      PROVE  TypeOK'
  <2>1. pc' \in [Threads -> PCs] /\ err' \in [Threads -> Outcomes]
    BY <1>27, GotoType, FailType DEF StopHandle, PCs, Attr, Before, Settled, Ver, locals
  <2> QED
    BY <1>27, <2>1 DEF StopHandle, inode, store, held, locals, io
<1>28. ASSUME NEW t \in Threads, StopHandle(t, "vstop", "vunlock")
      PROVE  TypeOK'
  <2>1. pc' \in [Threads -> PCs] /\ err' \in [Threads -> Outcomes]
    BY <1>28, GotoType, FailType DEF StopHandle, PCs, Attr, Before, Settled, Ver, locals
  <2> QED
    BY <1>28, <2>1 DEF StopHandle, inode, store, held, locals, io
<1>29. ASSUME NEW t \in Threads, Unlock(t)
      PROVE  TypeOK'
  <2>1. pc' \in [Threads -> PCs] /\ err' \in [Threads -> Outcomes]
    BY <1>29, GotoType DEF Unlock, DropLock, PCs, Attr, Outcomes
  <2> QED
    BY <1>29, <2>1 DEF Unlock, DropLock, inode, store, held, locals, io
<1>30. ASSUME NEW t \in Threads, SetGeneration(t)
      PROVE  TypeOK'
  <2>1. pc' \in [Threads -> PCs] /\ err' \in [Threads -> Outcomes]
    BY <1>30, GotoType, FailType DEF SetGeneration, PCs, Attr, Before, Settled, Ver, locals
  <2>2. generation' \in Generations
    BY <1>30 DEF SetGeneration, Images
  <2> QED
    BY <1>30, <2>1, <2>2 DEF SetGeneration, inode, store, held, locals, io
<1>31. ASSUME NEW t \in Threads, UnlockVersion(t)
      PROVE  TypeOK'
  <2>1. pc' \in [Threads -> PCs] /\ err' \in [Threads -> Outcomes]
    BY <1>31, GotoType DEF UnlockVersion, PCs, Attr, locals
  <2> QED
    BY <1>31, <2>1 DEF UnlockVersion, DropLock, inode, store, held, locals, io
<1>32. ASSUME NEW t \in Threads, DropWrite(t)
      PROVE  TypeOK'
  <2>1. pc' \in [Threads -> PCs] /\ err' \in [Threads -> Outcomes]
    BY <1>32, GotoType DEF DropWrite, PCs, Attr, Outcomes
  <2> QED
    BY <1>32, <2>1 DEF DropWrite, inode, store, held, locals, io
<1>33. CASE StartDio
  BY <1>33 DEF StartDio, PCs, Outcomes, Images, inode, store, held, locals, io
<1>34. CASE EndDio
  BY <1>34 DEF EndDio, PCs, Outcomes, Images, inode, store, held, locals, io
<1>35. CASE FaultWrite
  BY <1>35 DEF FaultWrite, PCs, Outcomes, Images, inode, store, held, locals, io
<1>36. CASE Writeback
  BY <1>36 DEF Writeback, PCs, Outcomes, Images, inode, store, held, locals, io
<1>37. CASE Evict
  BY <1>37 DEF Evict, Read, Recount, ShouldDax, PCs, Outcomes, Images, Charges, inode,
     store, held, locals, io
<1>38. CASE Commit
  BY <1>38 DEF Commit, PCs, Outcomes, Images, inode, store, held, locals, io
<1>39. CASE Abort
  BY <1>39 DEF Abort, PCs, Outcomes, Images, inode, store, held, locals, io
<1>40. CASE Crash
  <2>1. /\ flags' \subseteq Flags /\ projid' \in Projects /\ generation' \in Generations
        /\ charged' \in Charges /\ raw' \in Images
        /\ immutable' \in BOOLEAN /\ dax' \in BOOLEAN
    BY <1>40 DEF Crash, Read, Recount, ShouldDax, Images, Charges
  <2>2. /\ pc' \in [Threads -> PCs] /\ err' \in [Threads -> Outcomes]
        /\ asked' \in [Threads -> Images] /\ old' \in [Threads -> Images]
    BY <1>40 DEF Crash, PCs, Outcomes
  <2>3. /\ handle' \in [Threads -> BOOLEAN] /\ iloc' \in [Threads -> BOOLEAN]
        /\ writer' \in [Threads -> BOOLEAN]
    BY <1>40 DEF Crash
  <2> QED
    BY <1>40, <2>1, <2>2, <2>3 DEF Crash
<1>41. CASE UNCHANGED vars
  BY <1>41 DEF vars, inode, store, held, locals, io
<1> QED
  BY <1>1, <1>2, <1>3, <1>4, <1>5, <1>6, <1>7, <1>8, <1>9, <1>10, <1>11,
     <1>12, <1>13, <1>14, <1>15, <1>16, <1>17, <1>18, <1>19, <1>20, <1>21,
     <1>22, <1>23, <1>24, <1>25, <1>26, <1>27, <1>28, <1>29, <1>30, <1>31,
     <1>32, <1>33, <1>34, <1>35, <1>36, <1>37, <1>38, <1>39, <1>40, <1>41
     DEF Next, Running, Setattr, Setproject, SetVersion, TakeLock

(* Nor what a call holds.                                                  *)
LEMMA NextHolds == HoldsInv /\ [Next]_vars => \A t \in Threads : Holds(t)'
<1> SUFFICES ASSUME HoldsInv, [Next]_vars
             PROVE  \A u \in Threads : Holds(u)'
  OBVIOUS
<1> USE AttributesAssumption DEF HoldsInv, TypeOK, Holds
<1>1. ASSUME NEW t \in Threads, CallSetattr(t)
      PROVE  \A u \in Threads : Holds(u)'
  BY <1>1 DEF CallSetattr, Goto, Fail, Attr, Before, Settled, Ver,
     held, locals
<1>2. ASSUME NEW t \in Threads, CallSetVersion(t)
      PROVE  \A u \in Threads : Holds(u)'
  BY <1>2 DEF CallSetVersion, Goto, Fail, Attr, Before, Settled, Ver,
     held, locals
<1>3. ASSUME NEW t \in Threads, Lock(t, "lock", "check")
      PROVE  \A u \in Threads : Holds(u)'
  BY <1>3 DEF Lock, Goto, Fail, Attr, Before, Settled, Ver,
     held, locals
<1>4. ASSUME NEW t \in Threads, Lock(t, "vlock", "vstart")
      PROVE  \A u \in Threads : Holds(u)'
  BY <1>4 DEF Lock, Goto, Fail, Attr, Before, Settled, Ver,
     held, locals
<1>5. ASSUME NEW t \in Threads, Check(t)
      PROVE  \A u \in Threads : Holds(u)'
  BY <1>5 DEF Check, Goto, Fail, Attr, Before, Settled, Ver,
     held, locals
<1>6. ASSUME NEW t \in Threads, DioWait(t)
      PROVE  \A u \in Threads : Holds(u)'
  BY <1>6 DEF DioWait, Goto, Fail, Attr, Before, Settled, Ver,
     held, locals
<1>7. ASSUME NEW t \in Threads, Flush(t)
      PROVE  \A u \in Threads : Holds(u)'
  BY <1>7 DEF Flush, Goto, Fail, Attr, Before, Settled, Ver,
     held, locals
<1>8. ASSUME NEW t \in Threads, StartHandle(t, "start", "reserve", "unlock")
      PROVE  \A u \in Threads : Holds(u)'
  BY <1>8 DEF StartHandle, Goto, Fail, Attr, Before, Settled, Ver,
     held, locals
<1>9. ASSUME NEW t \in Threads, StartHandle(t, "pstart", "preserve", "unlock")
      PROVE  \A u \in Threads : Holds(u)'
  BY <1>9 DEF StartHandle, Goto, Fail, Attr, Before, Settled, Ver,
     held, locals
<1>10. ASSUME NEW t \in Threads, StartHandle(t, "vstart", "vreserve", "vunlock")
      PROVE  \A u \in Threads : Holds(u)'
  BY <1>10 DEF StartHandle, Goto, Fail, Attr, Before, Settled, Ver,
     held, locals
<1>11. ASSUME NEW t \in Threads, Reserve(t, "reserve", "loop", "stop")
      PROVE  \A u \in Threads : Holds(u)'
  BY <1>11 DEF Reserve, Goto, Fail, Attr, Before, Settled, Ver,
     held, locals
<1>12. ASSUME NEW t \in Threads, Reserve(t, "preserve", "transfer", "pstop")
      PROVE  \A u \in Threads : Holds(u)'
  BY <1>12 DEF Reserve, Goto, Fail, Attr, Before, Settled, Ver,
     held, locals
<1>13. ASSUME NEW t \in Threads, Reserve(t, "vreserve", "vset", "vstop")
      PROVE  \A u \in Threads : Holds(u)'
  BY <1>13 DEF Reserve, Goto, Fail, Attr, Before, Settled, Ver,
     held, locals
<1>14. ASSUME NEW t \in Threads, ChangeFlags(t)
      PROVE  \A u \in Threads : Holds(u)'
  BY <1>14 DEF ChangeFlags, Goto, Fail, Attr, Before, Settled, Ver,
     held, locals
<1>15. ASSUME NEW t \in Threads, SetInodeFlags(t)
      PROVE  \A u \in Threads : Holds(u)'
  BY <1>15 DEF SetInodeFlags, Goto, Fail, Attr, Before, Settled, Ver,
     held, locals
<1>16. ASSUME NEW t \in Threads, MarkIloc(t, "mark", "stop")
      PROVE  \A u \in Threads : Holds(u)'
  BY <1>16 DEF MarkIloc, Goto, Fail, Attr, Before, Settled, Ver,
     held, locals
<1>17. ASSUME NEW t \in Threads, MarkProject(t)
      PROVE  \A u \in Threads : Holds(u)'
  BY <1>17 DEF MarkProject, MarkIloc, Goto, Fail, Attr, Before, Settled, Ver,
     held, locals
<1>18. ASSUME NEW t \in Threads, MarkIloc(t, "vmark", "vstop")
      PROVE  \A u \in Threads : Holds(u)'
  BY <1>18 DEF MarkIloc, Goto, Fail, Attr, Before, Settled, Ver,
     held, locals
<1>19. ASSUME NEW t \in Threads, StopFlags(t)
      PROVE  \A u \in Threads : Holds(u)'
  BY <1>19 DEF StopFlags, Goto, Fail, Attr, Before, Settled, Ver,
     held, locals
<1>20. ASSUME NEW t \in Threads, JournalFlag(t)
      PROVE  \A u \in Threads : Holds(u)'
  BY <1>20 DEF JournalFlag, Goto, Fail, Attr, Before, Settled, Ver,
     held, locals
<1>21. ASSUME NEW t \in Threads, Migrate(t)
      PROVE  \A u \in Threads : Holds(u)'
  BY <1>21 DEF Migrate, MigrateFails, Goto, Fail, Attr, Before, Settled, Ver,
     held, locals
<1>22. ASSUME NEW t \in Threads, SetProject(t)
      PROVE  \A u \in Threads : Holds(u)'
  BY <1>22 DEF SetProject, StoresProject, Goto, Fail, Attr, Before, Settled, Ver,
     held, locals
<1>23. ASSUME NEW t \in Threads, DquotInit(t)
      PROVE  \A u \in Threads : Holds(u)'
  BY <1>23 DEF DquotInit, Goto, Fail, Attr, Before, Settled, Ver,
     held, locals
<1>24. ASSUME NEW t \in Threads, Locate(t)
      PROVE  \A u \in Threads : Holds(u)'
  BY <1>24 DEF Locate, Goto, Fail, Attr, Before, Settled, Ver,
     held, locals
<1>25. ASSUME NEW t \in Threads, Expand(t)
      PROVE  \A u \in Threads : Holds(u)'
  BY <1>25 DEF Expand, DropIloc, Goto, Fail, Attr, Before, Settled, Ver,
     held, locals
<1>26. ASSUME NEW t \in Threads, Transfer(t)
      PROVE  \A u \in Threads : Holds(u)'
  BY <1>26 DEF Transfer, ProjectAfterFailure, Goto, Fail, Attr, Before, Settled, Ver,
     held, locals
<1>27. ASSUME NEW t \in Threads, StopHandle(t, "pstop", "unlock")
      PROVE  \A u \in Threads : Holds(u)'
  BY <1>27 DEF StopHandle, Goto, Fail, Attr, Before, Settled, Ver,
     held, locals
<1>28. ASSUME NEW t \in Threads, StopHandle(t, "vstop", "vunlock")
      PROVE  \A u \in Threads : Holds(u)'
  BY <1>28 DEF StopHandle, Goto, Fail, Attr, Before, Settled, Ver,
     held, locals
<1>29. ASSUME NEW t \in Threads, Unlock(t)
      PROVE  \A u \in Threads : Holds(u)'
  BY <1>29 DEF Unlock, DropLock, Goto, Fail, Attr, Before, Settled, Ver,
     held, locals
<1>30. ASSUME NEW t \in Threads, SetGeneration(t)
      PROVE  \A u \in Threads : Holds(u)'
  BY <1>30 DEF SetGeneration, Goto, Fail, Attr, Before, Settled, Ver,
     held, locals
<1>31. ASSUME NEW t \in Threads, UnlockVersion(t)
      PROVE  \A u \in Threads : Holds(u)'
  BY <1>31 DEF UnlockVersion, DropLock, Goto, Fail, Attr, Before, Settled, Ver,
     held, locals
<1>32. ASSUME NEW t \in Threads, DropWrite(t)
      PROVE  \A u \in Threads : Holds(u)'
  BY <1>32 DEF DropWrite, Goto, Fail, Attr, Before, Settled, Ver,
     held, locals
<1>33. CASE StartDio
  BY <1>33 DEF StartDio, Attr, Before, Settled, Ver, held, locals
<1>34. CASE EndDio
  BY <1>34 DEF EndDio, Attr, Before, Settled, Ver, held, locals
<1>35. CASE FaultWrite
  BY <1>35 DEF FaultWrite, Attr, Before, Settled, Ver, held, locals
<1>36. CASE Writeback
  BY <1>36 DEF Writeback, Attr, Before, Settled, Ver, held, locals
<1>37. CASE Evict
  BY <1>37 DEF Evict, Attr, Before, Settled, Ver, held, locals
<1>38. CASE Commit
  BY <1>38 DEF Commit, Attr, Before, Settled, Ver, held, locals
<1>39. CASE Abort
  BY <1>39 DEF Abort, Attr, Before, Settled, Ver, held, locals
<1>40. CASE Crash
  BY <1>40 DEF Crash, Attr, Before, Settled, Ver, held, locals
<1>41. CASE UNCHANGED vars
  BY <1>41 DEF vars, held, locals
<1> QED
  BY <1>1, <1>2, <1>3, <1>4, <1>5, <1>6, <1>7, <1>8, <1>9, <1>10, <1>11,
     <1>12, <1>13, <1>14, <1>15, <1>16, <1>17, <1>18, <1>19, <1>20, <1>21,
     <1>22, <1>23, <1>24, <1>25, <1>26, <1>27, <1>28, <1>29, <1>30, <1>31,
     <1>32, <1>33, <1>34, <1>35, <1>36, <1>37, <1>38, <1>39, <1>40, <1>41
     DEF Next, Running, Setattr, Setproject, SetVersion, TakeLock

LEMMA HoldsAlways == Spec => []HoldsInv
<1>1. HoldsInv /\ [Next]_vars => HoldsInv'
  BY NextTypes, NextHolds DEF HoldsInv
<1> QED
  BY InitHolds, <1>1, PTL DEF Spec

(* Every exit has closed the handle, dropped the block of the inode and    *)
(* the write access, and unlocked.                                         *)
THEOREM AllReleased == Spec => []Released
<1>1. HoldsInv => Released
  BY AttributesAssumption DEF HoldsInv, Holds, Released, Attr, Before, Settled, Ver
<1> QED
  BY <1>1, HoldsAlways, PTL

-----------------------------------------------------------------------------
(* What a call has done so far.  First, Second and Third are the flags     *)
(* after the loop, after the journal flag and after the migration.         *)
First(t) == (Wanted(t) \ Separate) \cup (old[t].flags \ (Modifiable \ Separate))
Second(t) == (First(t) \ {"JOURNAL_DATA"}) \cup (Wanted(t) \cap {"JOURNAL_DATA"})
Third(t) == (Second(t) \ {"EXTENTS"}) \cup (Wanted(t) \cap {"EXTENTS"})

StaysImmutable(t) == "IMMUTABLE" \in old[t].flags /\ "IMMUTABLE" \in Wanted(t)

(* What the checks have made sure of.                                      *)
AskedNothing(t) ==
  StaysImmutable(t) =>
    /\ old[t].flags \ {"IMMUTABLE"} = Wanted(t) \ {"IMMUTABLE"}
    /\ mount.project => old[t].projid = asked[t].projid

FlagsSoFar(t) ==
  /\ pc[t] \in Before => Image = old[t]
  /\ pc[t] \in {"setinode", "mark", "journal"} => flags = First(t)
  /\ pc[t] = "stop" /\ err[t] = "none" => flags = First(t)
  /\ pc[t] = "migrate" => flags = Second(t)
  /\ pc[t] \in Settled \cup {"pmark", "pstop"} => flags = Third(t)
  /\ pc[t] = "unlock" /\ err[t] = "none" => flags = Third(t)

ProjectSoFar(t) ==
  /\ pc[t] \in Attr \ {"check", "unlock"} => AskedNothing(t)
  /\ pc[t] \in Attr \ {"pmark", "pstop", "unlock"} => projid = old[t].projid
  /\ pc[t] \in (Settled \ {"project"}) \cup {"pmark", "pstop"} =>
       mount.project /\ asked[t].projid # old[t].projid
  /\ pc[t] \in {"pmark", "pstop"} /\ err[t] = "none" => projid = asked[t].projid
  /\ pc[t] = "unlock" /\ err[t] = "none" => (mount.project => projid = asked[t].projid)

SavedSoFar(t) ==
  /\ pc[t] \in {"reserve", "loop", "journal", "migrate"} \cup Settled => raw = Image
  /\ pc[t] \in {"stop", "pstop", "unlock", "vstop", "vunlock"} /\ err[t] = "none" => raw = Image

GenerationSoFar(t) ==
  /\ pc[t] = "vmark" => generation = asked[t].generation
  /\ pc[t] \in {"vstop", "vunlock"} /\ err[t] = "none" => generation = asked[t].generation

Kept(t) == pc[t] \in Attr /\ StaysImmutable(t) => Image = old[t]

SoFar(t) ==
  FlagsSoFar(t) /\ ProjectSoFar(t) /\ SavedSoFar(t) /\ GenerationSoFar(t) /\ Kept(t)

(* Unless the journal is aborted, the buffer has the inode as it is,       *)
(* between the change and ext4_mark_iloc_dirty excepted.                   *)
RawInv ==
  ~aborted /\ (\A t \in Threads : pc[t] \notin {"setinode", "mark", "pmark", "vmark"}) =>
    raw = Image

DataInv == RawInv /\ \A t \in Threads : SoFar(t)

LEMMA WholeThird ==
  ASSUME TypeOK, NEW t \in Threads
  PROVE  Third(t) \cap Modifiable = Wanted(t)
BY DEF Third, Second, First, Wanted, Modifiable, Separate, Settable

(* What the two separate steps find is as the call found it.               *)
LEMMA NotYet ==
  ASSUME TypeOK, NEW t \in Threads
  PROVE  /\ ~Changes(t, "JOURNAL_DATA") => Second(t) = First(t)
         /\ ~Changes(t, "EXTENTS") => Third(t) = Second(t)
BY DEF Third, Second, First, Wanted, Modifiable, Separate, Settable, Changes

LEMMA AllKept ==
  ASSUME TypeOK, NEW t \in Threads, AskedNothing(t), StaysImmutable(t)
  PROVE  /\ First(t) = old[t].flags /\ Second(t) = old[t].flags /\ Third(t) = old[t].flags
         /\ ~Changes(t, "JOURNAL_DATA") /\ ~Changes(t, "EXTENTS")
<1>1. Wanted(t) = old[t].flags
  BY DEF AskedNothing, StaysImmutable
<1>2. Wanted(t) \subseteq Modifiable
  BY DEF Wanted
<1> QED
  BY <1>1, <1>2 DEF First, Second, Third, Changes

LEMMA OneAtATime ==
  ASSUME HoldsInv, NEW t \in Threads, NEW u \in Threads \ {t},
         pc[t] \in Attr \cup Ver \/ lock = Nobody
  PROVE  pc[u] \notin Attr \cup Ver
BY AttributesAssumption DEF HoldsInv, Holds

LEMMA Idle ==
  ASSUME NEW t \in Threads, pc[t] \notin Attr \cup Ver
  PROVE  SoFar(t)
BY DEF SoFar, FlagsSoFar, ProjectSoFar, SavedSoFar, GenerationSoFar, Kept, Attr, Before,
   Settled, Ver

LEMMA IdleNext ==
  ASSUME NEW t \in Threads, pc'[t] \notin Attr \cup Ver
  PROVE  SoFar(t)'
BY DEF SoFar, FlagsSoFar, ProjectSoFar, SavedSoFar, GenerationSoFar, Kept, Attr, Before,
   Settled, Ver

(* A step that leaves the inode and the calls alone.                       *)
LEMMA SameSoFar ==
  ASSUME NEW t \in Threads, SoFar(t), UNCHANGED <<mount, inode, raw>>,
         pc'[t] = pc[t], asked'[t] = asked[t], old'[t] = old[t], err'[t] = err[t]
  PROVE  SoFar(t)'
BY DEF SoFar, FlagsSoFar, ProjectSoFar, SavedSoFar, GenerationSoFar, Kept, Image, inode,
   First, Second, Third, StaysImmutable, AskedNothing, Wanted

LEMMA InitData == Init => DataInv
BY Idle DEF Init, DataInv, RawInv, Attr, Before, Settled, Ver

LEMMA SameGoals ==
  ASSUME NEW t \in Threads, mount' = mount, asked'[t] = asked[t], old'[t] = old[t]
  PROVE  /\ Wanted(t)' = Wanted(t) /\ First(t)' = First(t)
         /\ Second(t)' = Second(t) /\ Third(t)' = Third(t)
         /\ StaysImmutable(t)' <=> StaysImmutable(t)
         /\ AskedNothing(t)' <=> AskedNothing(t)
<1>1. Wanted(t)' = Wanted(t)
  BY DEF Wanted
<1>2. First(t)' = First(t)
  BY <1>1 DEF First
<1>3. Second(t)' = Second(t)
  BY <1>1, <1>2 DEF Second
<1>4. Third(t)' = Third(t)
  BY <1>1, <1>3 DEF Third
<1>5. StaysImmutable(t)' <=> StaysImmutable(t)
  BY <1>1 DEF StaysImmutable
<1> QED
  BY <1>1, <1>2, <1>3, <1>4, <1>5 DEF AskedNothing

(* No step breaks what the calls have done so far.                         *)
LEMMA NextData == HoldsInv /\ HoldsInv' /\ DataInv /\ [Next]_vars => DataInv'
<1> SUFFICES ASSUME HoldsInv, HoldsInv', DataInv, [Next]_vars
             PROVE  DataInv'
  OBVIOUS
<1>a. \A t \in Threads : SoFar(t) /\ Holds(t)
  BY DEF DataInv, HoldsInv
<1>b. RawInv /\ TypeOK
  BY DEF DataInv, HoldsInv
<1> USE <1>a, <1>b
<1>1. ASSUME NEW t \in Threads, CallSetattr(t)
      PROVE  DataInv'
  <2>1. SoFar(t)'
    BY <1>1, IdleNext DEF CallSetattr, Goto, Fail, TypeOK, Attr, Before, Settled, Ver
  <2>2. ASSUME NEW u \in Threads \ {t}
        PROVE  SoFar(u)'
    BY <1>1, <2>2, SameSoFar, AskedType DEF CallSetattr, Goto, Fail, TypeOK, inode,
       store, held, locals, io
  <2>3. RawInv'
    BY <1>1 DEF CallSetattr, Goto, Fail, TypeOK, RawInv, Image, inode, store, held,
       locals, io
  <2> QED
    BY <2>1, <2>2, <2>3 DEF DataInv
<1>2. ASSUME NEW t \in Threads, CallSetVersion(t)
      PROVE  DataInv'
  <2>1. SoFar(t)'
    BY <1>2, IdleNext DEF CallSetVersion, Goto, Fail, TypeOK, Attr, Before, Settled, Ver
  <2>2. ASSUME NEW u \in Threads \ {t}
        PROVE  SoFar(u)'
    BY <1>2, <2>2, SameSoFar, AskedType DEF CallSetVersion, Goto, Fail, TypeOK, inode,
       store, held, locals, io
  <2>3. RawInv'
    BY <1>2 DEF CallSetVersion, Goto, Fail, TypeOK, RawInv, Image, inode, store, held,
       locals, io
  <2> QED
    BY <2>1, <2>2, <2>3 DEF DataInv
<1>3. ASSUME NEW t \in Threads, Lock(t, "lock", "check")
      PROVE  DataInv'
  <2>1. SoFar(t)'
    BY <1>3 DEF Lock, Goto, TypeOK, Attr, Before, Settled, Ver, Image, inode,
       SoFar, FlagsSoFar, ProjectSoFar, SavedSoFar, GenerationSoFar, Kept
  <2>2. ASSUME NEW u \in Threads \ {t}
        PROVE  SoFar(u)'
    BY <1>3, <2>2, SameSoFar DEF Lock, Goto, Fail, TypeOK, inode, store, held, locals,
       io
  <2>3. RawInv'
    BY <1>3 DEF Lock, Goto, Fail, TypeOK, RawInv, Image, inode, store, held, locals, io
  <2> QED
    BY <2>1, <2>2, <2>3 DEF DataInv
<1>4. ASSUME NEW t \in Threads, Lock(t, "vlock", "vstart")
      PROVE  DataInv'
  <2>1. SoFar(t)'
    BY <1>4 DEF Lock, Goto, TypeOK, Attr, Before, Settled, Ver, Image, inode,
       SoFar, FlagsSoFar, ProjectSoFar, SavedSoFar, GenerationSoFar, Kept
  <2>2. ASSUME NEW u \in Threads \ {t}
        PROVE  SoFar(u)'
    BY <1>4, <2>2, SameSoFar DEF Lock, Goto, Fail, TypeOK, inode, store, held, locals,
       io
  <2>3. RawInv'
    BY <1>4 DEF Lock, Goto, Fail, TypeOK, RawInv, Image, inode, store, held, locals, io
  <2> QED
    BY <2>1, <2>2, <2>3 DEF DataInv
<1>5. ASSUME NEW t \in Threads, Check(t)
      PROVE  DataInv'
  <2>b. KeepsRest(t) => AskedNothing(t)
    BY <1>5 DEF Check, Goto, Fail, KeepsRest, AskedNothing, StaysImmutable,
       FlagsSoFar, SoFar,
       Before, Image
  <2>a. /\ Wanted(t)' = Wanted(t) /\ First(t)' = First(t)
        /\ Second(t)' = Second(t) /\ Third(t)' = Third(t)
        /\ StaysImmutable(t)' <=> StaysImmutable(t)
        /\ AskedNothing(t)' <=> AskedNothing(t)
    BY <1>5, SameGoals DEF Check, Goto, Fail, locals
  <2>1. SoFar(t)'
    BY <1>5, <2>a, <2>b DEF Check, Goto, Fail, TypeOK, Holds, Attr, Before, Settled,
       Ver, Image,
       SoFar, FlagsSoFar, ProjectSoFar, SavedSoFar, GenerationSoFar, Kept, inode, store, held, locals, io
  <2>2. ASSUME NEW u \in Threads \ {t}
        PROVE  SoFar(u)'
    BY <1>5, <2>2, SameSoFar DEF Check, Goto, Fail, TypeOK, inode, store, held,
       locals, io
  <2>3. RawInv'
    BY <1>5 DEF Check, Goto, Fail, TypeOK, RawInv, Image, inode, store, held, locals, io
  <2> QED
    BY <2>1, <2>2, <2>3 DEF DataInv
<1>6. ASSUME NEW t \in Threads, DioWait(t)
      PROVE  DataInv'
  <2>a. /\ Wanted(t)' = Wanted(t) /\ First(t)' = First(t)
        /\ Second(t)' = Second(t) /\ Third(t)' = Third(t)
        /\ StaysImmutable(t)' <=> StaysImmutable(t)
        /\ AskedNothing(t)' <=> AskedNothing(t)
    BY <1>6, SameGoals DEF DioWait, Goto, Fail, locals
  <2>1. SoFar(t)'
    BY <1>6, <2>a DEF DioWait, Goto, Fail, TypeOK, Holds, Attr, Before, Settled, Ver,
       Image,
       SoFar, FlagsSoFar, ProjectSoFar, SavedSoFar, GenerationSoFar, Kept, inode, store, held, locals, io
  <2>2. ASSUME NEW u \in Threads \ {t}
        PROVE  SoFar(u)'
    BY <1>6, <2>2, SameSoFar DEF DioWait, Goto, Fail, TypeOK, inode, store, held,
       locals, io
  <2>3. RawInv'
    BY <1>6 DEF DioWait, Goto, Fail, TypeOK, RawInv, Image, inode, store, held,
       locals, io
  <2> QED
    BY <2>1, <2>2, <2>3 DEF DataInv
<1>7. ASSUME NEW t \in Threads, Flush(t)
      PROVE  DataInv'
  <2>a. /\ Wanted(t)' = Wanted(t) /\ First(t)' = First(t)
        /\ Second(t)' = Second(t) /\ Third(t)' = Third(t)
        /\ StaysImmutable(t)' <=> StaysImmutable(t)
        /\ AskedNothing(t)' <=> AskedNothing(t)
    BY <1>7, SameGoals DEF Flush, Goto, Fail, locals
  <2>1. SoFar(t)'
    BY <1>7, <2>a DEF Flush, Goto, Fail, TypeOK, Holds, Attr, Before, Settled, Ver,
       Image,
       SoFar, FlagsSoFar, ProjectSoFar, SavedSoFar, GenerationSoFar, Kept, inode, store, held, locals, io
  <2>2. ASSUME NEW u \in Threads \ {t}
        PROVE  SoFar(u)'
    BY <1>7, <2>2, SameSoFar DEF Flush, Goto, Fail, TypeOK, inode, store, held,
       locals, io
  <2>3. RawInv'
    BY <1>7 DEF Flush, Goto, Fail, TypeOK, RawInv, Image, inode, store, held, locals, io
  <2> QED
    BY <2>1, <2>2, <2>3 DEF DataInv
<1>8. ASSUME NEW t \in Threads, StartHandle(t, "start", "reserve", "unlock")
      PROVE  DataInv'
  <2>b. ~aborted => raw = Image
    <3>1. \A u \in Threads \ {t} : pc[u] \notin Attr \cup Ver
      BY <1>8, OneAtATime DEF StartHandle, Goto, Fail, Attr, Before
    <3> QED
      BY <1>8, <3>1 DEF RawInv, StartHandle, Goto, Fail, Attr, Ver
  <2>a. /\ Wanted(t)' = Wanted(t) /\ First(t)' = First(t)
        /\ Second(t)' = Second(t) /\ Third(t)' = Third(t)
        /\ StaysImmutable(t)' <=> StaysImmutable(t)
        /\ AskedNothing(t)' <=> AskedNothing(t)
    BY <1>8, SameGoals DEF StartHandle, Goto, Fail, locals
  <2>1. SoFar(t)'
    BY <1>8, <2>a, <2>b DEF StartHandle, Goto, Fail, TypeOK, Holds, Attr, Before,
       Settled, Ver, Image,
       SoFar, FlagsSoFar, ProjectSoFar, SavedSoFar, GenerationSoFar, Kept, inode, store, held, locals, io
  <2>2. ASSUME NEW u \in Threads \ {t}
        PROVE  SoFar(u)'
    BY <1>8, <2>2, SameSoFar DEF StartHandle, Goto, Fail, TypeOK, inode, store, held,
       locals, io
  <2>3. RawInv'
    BY <1>8 DEF StartHandle, Goto, Fail, TypeOK, RawInv, Image, inode, store, held,
       locals, io
  <2> QED
    BY <2>1, <2>2, <2>3 DEF DataInv
<1>9. ASSUME NEW t \in Threads, StartHandle(t, "pstart", "preserve", "unlock")
      PROVE  DataInv'
  <2>a. /\ Wanted(t)' = Wanted(t) /\ First(t)' = First(t)
        /\ Second(t)' = Second(t) /\ Third(t)' = Third(t)
        /\ StaysImmutable(t)' <=> StaysImmutable(t)
        /\ AskedNothing(t)' <=> AskedNothing(t)
    BY <1>9, SameGoals DEF StartHandle, Goto, Fail, locals
  <2>1. SoFar(t)'
    BY <1>9, <2>a DEF StartHandle, Goto, Fail, TypeOK, Holds, Attr, Before, Settled,
       Ver, Image,
       SoFar, FlagsSoFar, ProjectSoFar, SavedSoFar, GenerationSoFar, Kept, inode, store, held, locals, io
  <2>2. ASSUME NEW u \in Threads \ {t}
        PROVE  SoFar(u)'
    BY <1>9, <2>2, SameSoFar DEF StartHandle, Goto, Fail, TypeOK, inode, store, held,
       locals, io
  <2>3. RawInv'
    BY <1>9 DEF StartHandle, Goto, Fail, TypeOK, RawInv, Image, inode, store, held,
       locals, io
  <2> QED
    BY <2>1, <2>2, <2>3 DEF DataInv
<1>10. ASSUME NEW t \in Threads, StartHandle(t, "vstart", "vreserve", "vunlock")
      PROVE  DataInv'
  <2>a. /\ Wanted(t)' = Wanted(t) /\ First(t)' = First(t)
        /\ Second(t)' = Second(t) /\ Third(t)' = Third(t)
        /\ StaysImmutable(t)' <=> StaysImmutable(t)
        /\ AskedNothing(t)' <=> AskedNothing(t)
    BY <1>10, SameGoals DEF StartHandle, Goto, Fail, locals
  <2>1. SoFar(t)'
    BY <1>10, <2>a DEF StartHandle, Goto, Fail, TypeOK, Holds, Attr, Before, Settled,
       Ver, Image,
       SoFar, FlagsSoFar, ProjectSoFar, SavedSoFar, GenerationSoFar, Kept, inode, store, held, locals, io
  <2>2. ASSUME NEW u \in Threads \ {t}
        PROVE  SoFar(u)'
    BY <1>10, <2>2, SameSoFar DEF StartHandle, Goto, Fail, TypeOK, inode, store, held,
       locals, io
  <2>3. RawInv'
    BY <1>10 DEF StartHandle, Goto, Fail, TypeOK, RawInv, Image, inode, store, held,
       locals, io
  <2> QED
    BY <2>1, <2>2, <2>3 DEF DataInv
<1>11. ASSUME NEW t \in Threads, Reserve(t, "reserve", "loop", "stop")
      PROVE  DataInv'
  <2>a. /\ Wanted(t)' = Wanted(t) /\ First(t)' = First(t)
        /\ Second(t)' = Second(t) /\ Third(t)' = Third(t)
        /\ StaysImmutable(t)' <=> StaysImmutable(t)
        /\ AskedNothing(t)' <=> AskedNothing(t)
    BY <1>11, SameGoals DEF Reserve, Goto, Fail, locals
  <2>1. SoFar(t)'
    BY <1>11, <2>a DEF Reserve, Goto, Fail, TypeOK, Holds, Attr, Before, Settled, Ver,
       Image,
       SoFar, FlagsSoFar, ProjectSoFar, SavedSoFar, GenerationSoFar, Kept, inode, store, held, locals, io
  <2>2. ASSUME NEW u \in Threads \ {t}
        PROVE  SoFar(u)'
    BY <1>11, <2>2, SameSoFar DEF Reserve, Goto, Fail, TypeOK, inode, store, held,
       locals, io
  <2>3. RawInv'
    BY <1>11 DEF Reserve, Goto, Fail, TypeOK, RawInv, Image, inode, store, held,
       locals, io
  <2> QED
    BY <2>1, <2>2, <2>3 DEF DataInv
<1>12. ASSUME NEW t \in Threads, Reserve(t, "preserve", "transfer", "pstop")
      PROVE  DataInv'
  <2>a. /\ Wanted(t)' = Wanted(t) /\ First(t)' = First(t)
        /\ Second(t)' = Second(t) /\ Third(t)' = Third(t)
        /\ StaysImmutable(t)' <=> StaysImmutable(t)
        /\ AskedNothing(t)' <=> AskedNothing(t)
    BY <1>12, SameGoals DEF Reserve, Goto, Fail, locals
  <2>1. SoFar(t)'
    BY <1>12, <2>a DEF Reserve, Goto, Fail, TypeOK, Holds, Attr, Before, Settled, Ver,
       Image,
       SoFar, FlagsSoFar, ProjectSoFar, SavedSoFar, GenerationSoFar, Kept, inode, store, held, locals, io
  <2>2. ASSUME NEW u \in Threads \ {t}
        PROVE  SoFar(u)'
    BY <1>12, <2>2, SameSoFar DEF Reserve, Goto, Fail, TypeOK, inode, store, held,
       locals, io
  <2>3. RawInv'
    BY <1>12 DEF Reserve, Goto, Fail, TypeOK, RawInv, Image, inode, store, held,
       locals, io
  <2> QED
    BY <2>1, <2>2, <2>3 DEF DataInv
<1>13. ASSUME NEW t \in Threads, Reserve(t, "vreserve", "vset", "vstop")
      PROVE  DataInv'
  <2>a. /\ Wanted(t)' = Wanted(t) /\ First(t)' = First(t)
        /\ Second(t)' = Second(t) /\ Third(t)' = Third(t)
        /\ StaysImmutable(t)' <=> StaysImmutable(t)
        /\ AskedNothing(t)' <=> AskedNothing(t)
    BY <1>13, SameGoals DEF Reserve, Goto, Fail, locals
  <2>1. SoFar(t)'
    BY <1>13, <2>a DEF Reserve, Goto, Fail, TypeOK, Holds, Attr, Before, Settled, Ver,
       Image,
       SoFar, FlagsSoFar, ProjectSoFar, SavedSoFar, GenerationSoFar, Kept, inode, store, held, locals, io
  <2>2. ASSUME NEW u \in Threads \ {t}
        PROVE  SoFar(u)'
    BY <1>13, <2>2, SameSoFar DEF Reserve, Goto, Fail, TypeOK, inode, store, held,
       locals, io
  <2>3. RawInv'
    BY <1>13 DEF Reserve, Goto, Fail, TypeOK, RawInv, Image, inode, store, held,
       locals, io
  <2> QED
    BY <2>1, <2>2, <2>3 DEF DataInv
<1>14. ASSUME NEW t \in Threads, ChangeFlags(t)
      PROVE  DataInv'
  <2>b. pc[t] = "loop" /\ flags = old[t].flags
    BY <1>14 DEF ChangeFlags, Goto, SoFar, FlagsSoFar, Before, Image
  <2>c. flags' = First(t) /\ AskedNothing(t)
    BY <1>14, <2>b DEF ChangeFlags, Others, First, SoFar, ProjectSoFar, Attr, Before
  <2>d. StaysImmutable(t) => flags' = flags
    BY <2>b, <2>c, AllKept
  <2>a. /\ Wanted(t)' = Wanted(t) /\ First(t)' = First(t)
        /\ Second(t)' = Second(t) /\ Third(t)' = Third(t)
        /\ StaysImmutable(t)' <=> StaysImmutable(t)
        /\ AskedNothing(t)' <=> AskedNothing(t)
    BY <1>14, SameGoals DEF ChangeFlags, Goto, Fail, locals
  <2>1. SoFar(t)'
    BY <1>14, <2>a, <2>b, <2>c, <2>d DEF ChangeFlags, Goto, Fail, TypeOK, Holds, Attr,
       Before, Settled, Ver, Image,
       SoFar, FlagsSoFar, ProjectSoFar, SavedSoFar, GenerationSoFar, Kept, inode, store, held, locals, io
  <2>2. ASSUME NEW u \in Threads \ {t}
        PROVE  SoFar(u)'
    BY <1>14, <2>2, OneAtATime, IdleNext DEF ChangeFlags, Goto, Fail, TypeOK, Attr,
       Before, Settled, Ver
  <2>3. RawInv'
    BY <1>14 DEF ChangeFlags, Goto, Fail, TypeOK, RawInv, Image, inode, store, held,
       locals, io
  <2> QED
    BY <2>1, <2>2, <2>3 DEF DataInv
<1>15. ASSUME NEW t \in Threads, SetInodeFlags(t)
      PROVE  DataInv'
  <2>a. /\ Wanted(t)' = Wanted(t) /\ First(t)' = First(t)
        /\ Second(t)' = Second(t) /\ Third(t)' = Third(t)
        /\ StaysImmutable(t)' <=> StaysImmutable(t)
        /\ AskedNothing(t)' <=> AskedNothing(t)
    BY <1>15, SameGoals DEF SetInodeFlags, Goto, Fail, locals
  <2>1. SoFar(t)'
    BY <1>15, <2>a DEF SetInodeFlags, Goto, Fail, TypeOK, Holds, Attr, Before,
       Settled, Ver, Image,
       SoFar, FlagsSoFar, ProjectSoFar, SavedSoFar, GenerationSoFar, Kept, inode, store, held, locals, io
  <2>2. ASSUME NEW u \in Threads \ {t}
        PROVE  SoFar(u)'
    BY <1>15, <2>2, OneAtATime, IdleNext DEF SetInodeFlags, Goto, Fail, TypeOK, Attr,
       Before, Settled, Ver
  <2>3. RawInv'
    BY <1>15 DEF SetInodeFlags, Goto, Fail, TypeOK, RawInv, Image, inode, store, held,
       locals, io
  <2> QED
    BY <2>1, <2>2, <2>3 DEF DataInv
<1>16. ASSUME NEW t \in Threads, MarkIloc(t, "mark", "stop")
      PROVE  DataInv'
  <2>a. /\ Wanted(t)' = Wanted(t) /\ First(t)' = First(t)
        /\ Second(t)' = Second(t) /\ Third(t)' = Third(t)
        /\ StaysImmutable(t)' <=> StaysImmutable(t)
        /\ AskedNothing(t)' <=> AskedNothing(t)
    BY <1>16, SameGoals DEF MarkIloc, Goto, Fail, locals
  <2>1. SoFar(t)'
    BY <1>16, <2>a DEF MarkIloc, Goto, Fail, TypeOK, Holds, Attr, Before, Settled,
       Ver, Image,
       SoFar, FlagsSoFar, ProjectSoFar, SavedSoFar, GenerationSoFar, Kept, inode, store, held, locals, io
  <2>2. ASSUME NEW u \in Threads \ {t}
        PROVE  SoFar(u)'
    BY <1>16, <2>2, OneAtATime, IdleNext DEF MarkIloc, Goto, Fail, TypeOK, Attr,
       Before, Settled, Ver
  <2>3. RawInv'
    BY <1>16 DEF MarkIloc, Goto, Fail, TypeOK, RawInv, Image, inode, store, held,
       locals, io
  <2> QED
    BY <2>1, <2>2, <2>3 DEF DataInv
<1>17. ASSUME NEW t \in Threads, MarkProject(t)
      PROVE  DataInv'
  <2>a. /\ Wanted(t)' = Wanted(t) /\ First(t)' = First(t)
        /\ Second(t)' = Second(t) /\ Third(t)' = Third(t)
        /\ StaysImmutable(t)' <=> StaysImmutable(t)
        /\ AskedNothing(t)' <=> AskedNothing(t)
    BY <1>17, SameGoals DEF MarkProject, MarkIloc, Goto, Fail, locals
  <2>1. SoFar(t)'
    BY <1>17, <2>a DEF MarkProject, MarkIloc, Goto, Fail, TypeOK, Holds, Attr, Before,
       Settled, Ver, Image,
       SoFar, FlagsSoFar, ProjectSoFar, SavedSoFar, GenerationSoFar, Kept, inode, store, held, locals, io
  <2>2. ASSUME NEW u \in Threads \ {t}
        PROVE  SoFar(u)'
    BY <1>17, <2>2, OneAtATime, IdleNext DEF MarkProject, MarkIloc, Goto, Fail,
       TypeOK, Attr, Before, Settled, Ver
  <2>3. RawInv'
    BY <1>17 DEF MarkProject, MarkIloc, Goto, Fail, TypeOK, RawInv, Image, inode,
       store, held, locals, io
  <2> QED
    BY <2>1, <2>2, <2>3 DEF DataInv
<1>18. ASSUME NEW t \in Threads, MarkIloc(t, "vmark", "vstop")
      PROVE  DataInv'
  <2>a. /\ Wanted(t)' = Wanted(t) /\ First(t)' = First(t)
        /\ Second(t)' = Second(t) /\ Third(t)' = Third(t)
        /\ StaysImmutable(t)' <=> StaysImmutable(t)
        /\ AskedNothing(t)' <=> AskedNothing(t)
    BY <1>18, SameGoals DEF MarkIloc, Goto, Fail, locals
  <2>1. SoFar(t)'
    BY <1>18, <2>a DEF MarkIloc, Goto, Fail, TypeOK, Holds, Attr, Before, Settled,
       Ver, Image,
       SoFar, FlagsSoFar, ProjectSoFar, SavedSoFar, GenerationSoFar, Kept, inode, store, held, locals, io
  <2>2. ASSUME NEW u \in Threads \ {t}
        PROVE  SoFar(u)'
    BY <1>18, <2>2, OneAtATime, IdleNext DEF MarkIloc, Goto, Fail, TypeOK, Attr,
       Before, Settled, Ver
  <2>3. RawInv'
    BY <1>18 DEF MarkIloc, Goto, Fail, TypeOK, RawInv, Image, inode, store, held,
       locals, io
  <2> QED
    BY <2>1, <2>2, <2>3 DEF DataInv
<1>19. ASSUME NEW t \in Threads, StopFlags(t)
      PROVE  DataInv'
  <2>a. /\ Wanted(t)' = Wanted(t) /\ First(t)' = First(t)
        /\ Second(t)' = Second(t) /\ Third(t)' = Third(t)
        /\ StaysImmutable(t)' <=> StaysImmutable(t)
        /\ AskedNothing(t)' <=> AskedNothing(t)
    BY <1>19, SameGoals DEF StopFlags, Goto, Fail, locals
  <2>1. SoFar(t)'
    BY <1>19, <2>a DEF StopFlags, Goto, Fail, TypeOK, Holds, Attr, Before, Settled,
       Ver, Image,
       SoFar, FlagsSoFar, ProjectSoFar, SavedSoFar, GenerationSoFar, Kept, inode, store, held, locals, io
  <2>2. ASSUME NEW u \in Threads \ {t}
        PROVE  SoFar(u)'
    BY <1>19, <2>2, SameSoFar DEF StopFlags, Goto, Fail, TypeOK, inode, store, held,
       locals, io
  <2>3. RawInv'
    BY <1>19 DEF StopFlags, Goto, Fail, TypeOK, RawInv, Image, inode, store, held,
       locals, io
  <2> QED
    BY <2>1, <2>2, <2>3 DEF DataInv
<1>20. ASSUME NEW t \in Threads, JournalFlag(t)
      PROVE  DataInv'
  <2>b. pc[t] = "journal" /\ flags = First(t) /\ AskedNothing(t) /\ raw = Image
    BY <1>20 DEF JournalFlag, Goto, Fail, SoFar, FlagsSoFar, ProjectSoFar, SavedSoFar,
       Attr, Settled
  <2>c. ~Changes(t, "JOURNAL_DATA") => Second(t) = First(t)
    BY NotYet
  <2>d. StaysImmutable(t) => ~Changes(t, "JOURNAL_DATA")
    BY <2>b, AllKept
  <2>e. ASSUME Toggle(t, "JOURNAL_DATA")
        PROVE  /\ flags' = Second(t) /\ ~aborted
             /\ raw' = [flags |-> flags', projid |-> projid, generation |-> generation]
    BY <2>b, <2>e, ToggleType DEF Second, Image, Toggle
  <2>f. \/ flags' = flags /\ raw' = raw
        \/ Toggle(t, "JOURNAL_DATA") /\ Changes(t, "JOURNAL_DATA")
    BY <1>20 DEF JournalFlag
  <2>g. raw' = Image'
    <3>1. UNCHANGED <<projid, generation>>
      BY <1>20 DEF JournalFlag
    <3> QED
      BY <2>b, <2>e, <2>f, <3>1 DEF Image
  <2>h. pc'[t] = "migrate" => flags' = Second(t)
    BY <1>20, <2>b, <2>c, <2>e DEF JournalFlag, Goto, Fail, TypeOK
  <2>i. StaysImmutable(t) => Image' = Image
    <3>1. UNCHANGED <<projid, generation>>
      BY <1>20 DEF JournalFlag
    <3> QED
      BY <2>d, <2>f, <3>1 DEF Image
  <2>a. /\ Wanted(t)' = Wanted(t) /\ First(t)' = First(t)
        /\ Second(t)' = Second(t) /\ Third(t)' = Third(t)
        /\ StaysImmutable(t)' <=> StaysImmutable(t)
        /\ AskedNothing(t)' <=> AskedNothing(t)
    BY <1>20, SameGoals DEF JournalFlag, Goto, Fail, locals
  <2>j. /\ pc[t] = "journal"
        /\ \/ pc'[t] = "unlock" /\ err'[t] = "failed"
           \/ pc'[t] = "migrate" /\ err'[t] = err[t]
    BY <1>20 DEF JournalFlag, Goto, Fail, TypeOK
  <2>1. SoFar(t)'
    BY <1>20, <2>a, <2>b, <2>g, <2>h, <2>i, <2>j DEF SoFar, FlagsSoFar, ProjectSoFar,
       SavedSoFar,
       GenerationSoFar, Kept, Attr, Before, Settled, Ver, JournalFlag
  <2>2. ASSUME NEW u \in Threads \ {t}
        PROVE  SoFar(u)'
    BY <1>20, <2>2, OneAtATime, IdleNext DEF JournalFlag, Goto, Fail, TypeOK, Attr,
       Before, Settled, Ver
  <2>3. RawInv'
    BY <2>g DEF RawInv
  <2> QED
    BY <2>1, <2>2, <2>3 DEF DataInv
<1>21. ASSUME NEW t \in Threads, Migrate(t)
      PROVE  DataInv'
  <2>b. pc[t] = "migrate" /\ flags = Second(t) /\ AskedNothing(t) /\ raw = Image
    BY <1>21 DEF Migrate, MigrateFails, Goto, Fail, SoFar, FlagsSoFar, ProjectSoFar,
       SavedSoFar, Attr, Settled
  <2>c. ~Changes(t, "EXTENTS") => Third(t) = Second(t)
    BY NotYet
  <2>d. StaysImmutable(t) => ~Changes(t, "EXTENTS")
    BY <2>b, AllKept
  <2>e. ASSUME Toggle(t, "EXTENTS")
        PROVE  /\ flags' = Third(t) /\ ~aborted
             /\ raw' = [flags |-> flags', projid |-> projid, generation |-> generation]
    BY <2>b, <2>e, ToggleType DEF Third, Image, Toggle
  <2>f. \/ flags' = flags /\ raw' = raw
        \/ Toggle(t, "EXTENTS") /\ Changes(t, "EXTENTS")
    BY <1>21 DEF Migrate, MigrateFails
  <2>g. raw' = Image'
    <3>1. UNCHANGED <<projid, generation>>
      BY <1>21 DEF Migrate, MigrateFails
    <3> QED
      BY <2>b, <2>e, <2>f, <3>1 DEF Image
  <2>h. pc'[t] = "project" => flags' = Third(t)
    BY <1>21, <2>b, <2>c, <2>e DEF Migrate, MigrateFails, Goto, Fail, TypeOK
  <2>i. StaysImmutable(t) => Image' = Image
    <3>1. UNCHANGED <<projid, generation>>
      BY <1>21 DEF Migrate, MigrateFails
    <3> QED
      BY <2>d, <2>f, <3>1 DEF Image
  <2>a. /\ Wanted(t)' = Wanted(t) /\ First(t)' = First(t)
        /\ Second(t)' = Second(t) /\ Third(t)' = Third(t)
        /\ StaysImmutable(t)' <=> StaysImmutable(t)
        /\ AskedNothing(t)' <=> AskedNothing(t)
    BY <1>21, SameGoals DEF Migrate, MigrateFails, Goto, Fail, locals
  <2>j. /\ pc[t] = "migrate"
        /\ \/ pc'[t] = "unlock" /\ err'[t] = "failed"
           \/ pc'[t] = "project" /\ err'[t] = err[t]
    BY <1>21 DEF Migrate, MigrateFails, Goto, Fail, TypeOK
  <2>1. SoFar(t)'
    BY <1>21, <2>a, <2>b, <2>g, <2>h, <2>i, <2>j DEF SoFar, FlagsSoFar, ProjectSoFar,
       SavedSoFar,
       GenerationSoFar, Kept, Attr, Before, Settled, Ver, Migrate
  <2>2. ASSUME NEW u \in Threads \ {t}
        PROVE  SoFar(u)'
    BY <1>21, <2>2, OneAtATime, IdleNext DEF Migrate, MigrateFails, Goto, Fail,
       TypeOK, Attr, Before, Settled, Ver
  <2>3. RawInv'
    BY <2>g DEF RawInv
  <2> QED
    BY <2>1, <2>2, <2>3 DEF DataInv
<1>22. ASSUME NEW t \in Threads, SetProject(t)
      PROVE  DataInv'
  <2>a. /\ Wanted(t)' = Wanted(t) /\ First(t)' = First(t)
        /\ Second(t)' = Second(t) /\ Third(t)' = Third(t)
        /\ StaysImmutable(t)' <=> StaysImmutable(t)
        /\ AskedNothing(t)' <=> AskedNothing(t)
    BY <1>22, SameGoals DEF SetProject, StoresProject, Goto, Fail, locals
  <2>1. SoFar(t)'
    BY <1>22, <2>a DEF SetProject, StoresProject, Goto, Fail, TypeOK, Holds, Attr, Before, Settled,
       Ver, Image,
       SoFar, FlagsSoFar, ProjectSoFar, SavedSoFar, GenerationSoFar, Kept, inode, store, held, locals, io
  <2>2. ASSUME NEW u \in Threads \ {t}
        PROVE  SoFar(u)'
    BY <1>22, <2>2, SameSoFar DEF SetProject, StoresProject, Goto, Fail, TypeOK, inode, store, held,
       locals, io
  <2>3. RawInv'
    BY <1>22 DEF SetProject, StoresProject, Goto, Fail, TypeOK, RawInv, Image, inode, store, held,
       locals, io
  <2> QED
    BY <2>1, <2>2, <2>3 DEF DataInv
<1>23. ASSUME NEW t \in Threads, DquotInit(t)
      PROVE  DataInv'
  <2>a. /\ Wanted(t)' = Wanted(t) /\ First(t)' = First(t)
        /\ Second(t)' = Second(t) /\ Third(t)' = Third(t)
        /\ StaysImmutable(t)' <=> StaysImmutable(t)
        /\ AskedNothing(t)' <=> AskedNothing(t)
    BY <1>23, SameGoals DEF DquotInit, Goto, Fail, locals
  <2>1. SoFar(t)'
    BY <1>23, <2>a DEF DquotInit, Goto, Fail, TypeOK, Holds, Attr, Before, Settled,
       Ver, Image,
       SoFar, FlagsSoFar, ProjectSoFar, SavedSoFar, GenerationSoFar, Kept, inode, store, held, locals, io
  <2>2. ASSUME NEW u \in Threads \ {t}
        PROVE  SoFar(u)'
    BY <1>23, <2>2, SameSoFar DEF DquotInit, Goto, Fail, TypeOK, inode, store, held,
       locals, io
  <2>3. RawInv'
    BY <1>23 DEF DquotInit, Goto, Fail, TypeOK, RawInv, Image, inode, store, held,
       locals, io
  <2> QED
    BY <2>1, <2>2, <2>3 DEF DataInv
<1>24. ASSUME NEW t \in Threads, Locate(t)
      PROVE  DataInv'
  <2>a. /\ Wanted(t)' = Wanted(t) /\ First(t)' = First(t)
        /\ Second(t)' = Second(t) /\ Third(t)' = Third(t)
        /\ StaysImmutable(t)' <=> StaysImmutable(t)
        /\ AskedNothing(t)' <=> AskedNothing(t)
    BY <1>24, SameGoals DEF Locate, Goto, Fail, locals
  <2>1. SoFar(t)'
    BY <1>24, <2>a DEF Locate, Goto, Fail, TypeOK, Holds, Attr, Before, Settled, Ver,
       Image,
       SoFar, FlagsSoFar, ProjectSoFar, SavedSoFar, GenerationSoFar, Kept, inode, store, held, locals, io
  <2>2. ASSUME NEW u \in Threads \ {t}
        PROVE  SoFar(u)'
    BY <1>24, <2>2, SameSoFar DEF Locate, Goto, Fail, TypeOK, inode, store, held,
       locals, io
  <2>3. RawInv'
    BY <1>24 DEF Locate, Goto, Fail, TypeOK, RawInv, Image, inode, store, held,
       locals, io
  <2> QED
    BY <2>1, <2>2, <2>3 DEF DataInv
<1>25. ASSUME NEW t \in Threads, Expand(t)
      PROVE  DataInv'
  <2>a. /\ Wanted(t)' = Wanted(t) /\ First(t)' = First(t)
        /\ Second(t)' = Second(t) /\ Third(t)' = Third(t)
        /\ StaysImmutable(t)' <=> StaysImmutable(t)
        /\ AskedNothing(t)' <=> AskedNothing(t)
    BY <1>25, SameGoals DEF Expand, DropIloc, Goto, Fail, locals
  <2>1. SoFar(t)'
    BY <1>25, <2>a DEF Expand, DropIloc, Goto, Fail, TypeOK, Holds, Attr, Before,
       Settled, Ver, Image,
       SoFar, FlagsSoFar, ProjectSoFar, SavedSoFar, GenerationSoFar, Kept, inode, store, held, locals, io
  <2>2. ASSUME NEW u \in Threads \ {t}
        PROVE  SoFar(u)'
    BY <1>25, <2>2, SameSoFar DEF Expand, DropIloc, Goto, Fail, TypeOK, inode, store,
       held, locals, io
  <2>3. RawInv'
    BY <1>25 DEF Expand, DropIloc, Goto, Fail, TypeOK, RawInv, Image, inode, store,
       held, locals, io
  <2> QED
    BY <2>1, <2>2, <2>3 DEF DataInv
<1>26. ASSUME NEW t \in Threads, Transfer(t)
      PROVE  DataInv'
  <2>b. AskedNothing(t) /\ mount.project /\ asked[t].projid # old[t].projid
    BY <1>26 DEF Transfer, Goto, Fail, SoFar, ProjectSoFar, Attr, Settled
  <2>c. ~StaysImmutable(t)
    BY <2>b DEF AskedNothing
  <2>a. /\ Wanted(t)' = Wanted(t) /\ First(t)' = First(t)
        /\ Second(t)' = Second(t) /\ Third(t)' = Third(t)
        /\ StaysImmutable(t)' <=> StaysImmutable(t)
        /\ AskedNothing(t)' <=> AskedNothing(t)
    BY <1>26, SameGoals DEF Transfer, ProjectAfterFailure, Goto, Fail, locals
  <2>1. SoFar(t)'
    BY <1>26, <2>a, <2>b, <2>c DEF Transfer, ProjectAfterFailure, Goto, Fail, TypeOK,
       Holds, Attr, Before, Settled, Ver, Image,
       SoFar, FlagsSoFar, ProjectSoFar, SavedSoFar, GenerationSoFar, Kept, inode, store, held, locals, io
  <2>2. ASSUME NEW u \in Threads \ {t}
        PROVE  SoFar(u)'
    BY <1>26, <2>2, OneAtATime, IdleNext DEF Transfer, ProjectAfterFailure, Goto,
       Fail, TypeOK, Attr, Before, Settled, Ver
  <2>3. RawInv'
    BY <1>26 DEF Transfer, ProjectAfterFailure, Goto, Fail, TypeOK, RawInv, Image,
       inode, store, held, locals, io
  <2> QED
    BY <2>1, <2>2, <2>3 DEF DataInv
<1>27. ASSUME NEW t \in Threads, StopHandle(t, "pstop", "unlock")
      PROVE  DataInv'
  <2>a. /\ Wanted(t)' = Wanted(t) /\ First(t)' = First(t)
        /\ Second(t)' = Second(t) /\ Third(t)' = Third(t)
        /\ StaysImmutable(t)' <=> StaysImmutable(t)
        /\ AskedNothing(t)' <=> AskedNothing(t)
    BY <1>27, SameGoals DEF StopHandle, Goto, Fail, locals
  <2>1. SoFar(t)'
    BY <1>27, <2>a DEF StopHandle, Goto, Fail, TypeOK, Holds, Attr, Before, Settled,
       Ver, Image,
       SoFar, FlagsSoFar, ProjectSoFar, SavedSoFar, GenerationSoFar, Kept, inode, store, held, locals, io
  <2>2. ASSUME NEW u \in Threads \ {t}
        PROVE  SoFar(u)'
    BY <1>27, <2>2, SameSoFar DEF StopHandle, Goto, Fail, TypeOK, inode, store, held,
       locals, io
  <2>3. RawInv'
    BY <1>27 DEF StopHandle, Goto, Fail, TypeOK, RawInv, Image, inode, store, held,
       locals, io
  <2> QED
    BY <2>1, <2>2, <2>3 DEF DataInv
<1>28. ASSUME NEW t \in Threads, StopHandle(t, "vstop", "vunlock")
      PROVE  DataInv'
  <2>a. /\ Wanted(t)' = Wanted(t) /\ First(t)' = First(t)
        /\ Second(t)' = Second(t) /\ Third(t)' = Third(t)
        /\ StaysImmutable(t)' <=> StaysImmutable(t)
        /\ AskedNothing(t)' <=> AskedNothing(t)
    BY <1>28, SameGoals DEF StopHandle, Goto, Fail, locals
  <2>1. SoFar(t)'
    BY <1>28, <2>a DEF StopHandle, Goto, Fail, TypeOK, Holds, Attr, Before, Settled,
       Ver, Image,
       SoFar, FlagsSoFar, ProjectSoFar, SavedSoFar, GenerationSoFar, Kept, inode, store, held, locals, io
  <2>2. ASSUME NEW u \in Threads \ {t}
        PROVE  SoFar(u)'
    BY <1>28, <2>2, SameSoFar DEF StopHandle, Goto, Fail, TypeOK, inode, store, held,
       locals, io
  <2>3. RawInv'
    BY <1>28 DEF StopHandle, Goto, Fail, TypeOK, RawInv, Image, inode, store, held,
       locals, io
  <2> QED
    BY <2>1, <2>2, <2>3 DEF DataInv
<1>29. ASSUME NEW t \in Threads, Unlock(t)
      PROVE  DataInv'
  <2>1. SoFar(t)'
    BY <1>29, IdleNext DEF Unlock, DropLock, Goto, Fail, TypeOK, Attr, Before,
       Settled, Ver
  <2>2. ASSUME NEW u \in Threads \ {t}
        PROVE  SoFar(u)'
    BY <1>29, <2>2, SameSoFar DEF Unlock, DropLock, Goto, Fail, TypeOK, inode, store,
       held, locals, io
  <2>3. RawInv'
    BY <1>29 DEF Unlock, DropLock, Goto, Fail, TypeOK, RawInv, Image, inode, store,
       held, locals, io
  <2> QED
    BY <2>1, <2>2, <2>3 DEF DataInv
<1>30. ASSUME NEW t \in Threads, SetGeneration(t)
      PROVE  DataInv'
  <2>a. /\ Wanted(t)' = Wanted(t) /\ First(t)' = First(t)
        /\ Second(t)' = Second(t) /\ Third(t)' = Third(t)
        /\ StaysImmutable(t)' <=> StaysImmutable(t)
        /\ AskedNothing(t)' <=> AskedNothing(t)
    BY <1>30, SameGoals DEF SetGeneration, Goto, Fail, locals
  <2>1. SoFar(t)'
    BY <1>30, <2>a DEF SetGeneration, Goto, Fail, TypeOK, Holds, Attr, Before,
       Settled, Ver, Image,
       SoFar, FlagsSoFar, ProjectSoFar, SavedSoFar, GenerationSoFar, Kept, inode, store, held, locals, io
  <2>2. ASSUME NEW u \in Threads \ {t}
        PROVE  SoFar(u)'
    BY <1>30, <2>2, OneAtATime, IdleNext DEF SetGeneration, Goto, Fail, TypeOK, Attr,
       Before, Settled, Ver
  <2>3. RawInv'
    BY <1>30 DEF SetGeneration, Goto, Fail, TypeOK, RawInv, Image, inode, store, held,
       locals, io
  <2> QED
    BY <2>1, <2>2, <2>3 DEF DataInv
<1>31. ASSUME NEW t \in Threads, UnlockVersion(t)
      PROVE  DataInv'
  <2>1. SoFar(t)'
    BY <1>31, IdleNext DEF UnlockVersion, DropLock, Goto, Fail, TypeOK, Attr, Before,
       Settled, Ver
  <2>2. ASSUME NEW u \in Threads \ {t}
        PROVE  SoFar(u)'
    BY <1>31, <2>2, SameSoFar DEF UnlockVersion, DropLock, Goto, Fail, TypeOK, inode,
       store, held, locals, io
  <2>3. RawInv'
    BY <1>31 DEF UnlockVersion, DropLock, Goto, Fail, TypeOK, RawInv, Image, inode,
       store, held, locals, io
  <2> QED
    BY <2>1, <2>2, <2>3 DEF DataInv
<1>32. ASSUME NEW t \in Threads, DropWrite(t)
      PROVE  DataInv'
  <2>1. SoFar(t)'
    BY <1>32, IdleNext DEF DropWrite, Goto, Fail, TypeOK, Attr, Before, Settled, Ver
  <2>2. ASSUME NEW u \in Threads \ {t}
        PROVE  SoFar(u)'
    BY <1>32, <2>2, SameSoFar DEF DropWrite, Goto, Fail, TypeOK, inode, store, held,
       locals, io
  <2>3. RawInv'
    BY <1>32 DEF DropWrite, Goto, Fail, TypeOK, RawInv, Image, inode, store, held,
       locals, io
  <2> QED
    BY <2>1, <2>2, <2>3 DEF DataInv
<1>33. CASE StartDio
  <2>1. ASSUME NEW u \in Threads
        PROVE  SoFar(u)'
    BY <1>33, <2>1, SameSoFar DEF StartDio, inode, store, held, locals, io
  <2>2. RawInv'
    BY <1>33 DEF StartDio, RawInv, Image, TypeOK, Images, inode, store, held, locals, io
  <2> QED
    BY <2>1, <2>2 DEF DataInv
<1>34. CASE EndDio
  <2>1. ASSUME NEW u \in Threads
        PROVE  SoFar(u)'
    BY <1>34, <2>1, SameSoFar DEF EndDio, inode, store, held, locals, io
  <2>2. RawInv'
    BY <1>34 DEF EndDio, RawInv, Image, TypeOK, Images, inode, store, held, locals, io
  <2> QED
    BY <2>1, <2>2 DEF DataInv
<1>35. CASE FaultWrite
  <2>1. ASSUME NEW u \in Threads
        PROVE  SoFar(u)'
    BY <1>35, <2>1, SameSoFar DEF FaultWrite, inode, store, held, locals, io
  <2>2. RawInv'
    BY <1>35 DEF FaultWrite, RawInv, Image, TypeOK, Images, inode, store, held,
       locals, io
  <2> QED
    BY <2>1, <2>2 DEF DataInv
<1>36. CASE Writeback
  <2>1. ASSUME NEW u \in Threads
        PROVE  SoFar(u)'
    BY <1>36, <2>1, SameSoFar DEF Writeback, inode, store, held, locals, io
  <2>2. RawInv'
    BY <1>36 DEF Writeback, RawInv, Image, TypeOK, Images, inode, store, held, locals,
       io
  <2> QED
    BY <2>1, <2>2 DEF DataInv
<1>37. CASE Evict
  <2>1. ASSUME NEW u \in Threads
        PROVE  SoFar(u)'
    BY <1>37, <2>1, IdleNext DEF Evict, Attr, Before, Settled, Ver
  <2>2. RawInv'
    BY <1>37 DEF Evict, Read, ShouldDax, RawInv, Image, TypeOK, Images, inode, store,
       held, locals, io
  <2> QED
    BY <2>1, <2>2 DEF DataInv
<1>38. CASE Commit
  <2>1. ASSUME NEW u \in Threads
        PROVE  SoFar(u)'
    BY <1>38, <2>1, SameSoFar DEF Commit, inode, store, held, locals, io
  <2>2. RawInv'
    BY <1>38 DEF Commit, RawInv, Image, TypeOK, Images, inode, store, held, locals, io
  <2> QED
    BY <2>1, <2>2 DEF DataInv
<1>39. CASE Abort
  <2>1. ASSUME NEW u \in Threads
        PROVE  SoFar(u)'
    BY <1>39, <2>1, SameSoFar DEF Abort, inode, store, held, locals, io
  <2>2. RawInv'
    BY <1>39 DEF Abort, RawInv, Image, TypeOK, Images, inode, store, held, locals, io
  <2> QED
    BY <2>1, <2>2 DEF DataInv
<1>40. CASE Crash
  <2>1. ASSUME NEW u \in Threads
        PROVE  SoFar(u)'
    BY <1>40, <2>1, IdleNext DEF Crash, Attr, Before, Settled, Ver
  <2>2. RawInv'
    BY <1>40 DEF Crash, Read, ShouldDax, RawInv, Image, TypeOK, Images, inode, store,
       held, locals, io
  <2> QED
    BY <2>1, <2>2 DEF DataInv
<1>41. CASE UNCHANGED vars
  <2>1. ASSUME NEW u \in Threads
        PROVE  SoFar(u)'
    BY <1>41, <2>1, SameSoFar DEF vars, locals, store
  <2>2. RawInv'
    BY <1>41 DEF vars, RawInv, Image, inode, store
  <2> QED
    BY <2>1, <2>2 DEF DataInv
<1> QED
  BY <1>1, <1>2, <1>3, <1>4, <1>5, <1>6, <1>7, <1>8, <1>9, <1>10, <1>11,
     <1>12, <1>13, <1>14, <1>15, <1>16, <1>17, <1>18, <1>19, <1>20, <1>21,
     <1>22, <1>23, <1>24, <1>25, <1>26, <1>27, <1>28, <1>29, <1>30, <1>31,
     <1>32, <1>33, <1>34, <1>35, <1>36, <1>37, <1>38, <1>39, <1>40, <1>41
     DEF Next, Running, Setattr, Setproject, SetVersion, TakeLock

LEMMA DataAlways == Spec => [](HoldsInv /\ DataInv)
<1>1. DataInv /\ HoldsInv /\ HoldsInv' /\ [Next]_vars => DataInv'
  BY NextData
<1> QED
  BY InitData, HoldsAlways, <1>1, PTL DEF Spec

(* A call that returns 0 did all it was asked, and the journal has it.     *)
THEOREM SuccessComplete == Spec => []SuccessMeansAll
<1>1. HoldsInv /\ DataInv => SuccessMeansAll
  <2> SUFFICES ASSUME HoldsInv, DataInv, NEW t \in Threads, err[t] = "none"
               PROVE  /\ pc[t] = "unlock" =>
                           /\ flags \cap Modifiable = Wanted(t)
                           /\ mount.project => projid = asked[t].projid
                      /\ pc[t] = "vunlock" => generation = asked[t].generation
                      /\ pc[t] \in {"unlock", "vunlock"} => raw = Image
    BY DEF SuccessMeansAll
  <2>1. Third(t) \cap Modifiable = Wanted(t)
    BY WholeThird DEF HoldsInv
  <2> QED
    BY <2>1 DEF DataInv, SoFar, FlagsSoFar, ProjectSoFar, SavedSoFar, GenerationSoFar
<1> QED
  BY <1>1, DataAlways, PTL

(* A call that leaves an immutable file immutable changes nothing of it.   *)
THEOREM ImmutableUntouched == Spec => []ImmutableKept
<1>1. HoldsInv /\ DataInv => ImmutableKept
  BY DEF HoldsInv, Holds, DataInv, SoFar, Kept, ImmutableKept, StaysImmutable, Ver
<1> QED
  BY <1>1, DataAlways, PTL

-----------------------------------------------------------------------------
(* The flags that a step may change.                                       *)
LEMMA OthersKeep ==
  ASSUME TypeOK, NEW t \in Threads
  PROVE  /\ "JOURNAL_DATA" \in Others(t) <=> "JOURNAL_DATA" \in flags
         /\ "IMMUTABLE" \in Others(t) <=> "IMMUTABLE" \in Wanted(t)
BY DEF TypeOK, Others, Wanted, Modifiable, Separate, Settable

LEMMA DaxNext == TypeOK /\ DaxNotJournalled /\ [Next]_vars => DaxNotJournalled'
<1> SUFFICES ASSUME TypeOK, DaxNotJournalled, [Next]_vars
             PROVE  DaxNotJournalled'
  OBVIOUS
<1> USE DEF DaxNotJournalled
<1>1. ASSUME NEW t \in Threads, CallSetattr(t)
      PROVE  DaxNotJournalled'
  BY <1>1 DEF CallSetattr, inode, store, held, locals, io
<1>2. ASSUME NEW t \in Threads, CallSetVersion(t)
      PROVE  DaxNotJournalled'
  BY <1>2 DEF CallSetVersion, inode, store, held, locals, io
<1>3. ASSUME NEW t \in Threads, Lock(t, "lock", "check")
      PROVE  DaxNotJournalled'
  BY <1>3 DEF Lock, inode, store, held, locals, io
<1>4. ASSUME NEW t \in Threads, Lock(t, "vlock", "vstart")
      PROVE  DaxNotJournalled'
  BY <1>4 DEF Lock, inode, store, held, locals, io
<1>5. ASSUME NEW t \in Threads, Check(t)
      PROVE  DaxNotJournalled'
  BY <1>5 DEF Check, inode, store, held, locals, io
<1>6. ASSUME NEW t \in Threads, DioWait(t)
      PROVE  DaxNotJournalled'
  BY <1>6 DEF DioWait, inode, store, held, locals, io
<1>7. ASSUME NEW t \in Threads, Flush(t)
      PROVE  DaxNotJournalled'
  BY <1>7 DEF Flush, inode, store, held, locals, io
<1>8. ASSUME NEW t \in Threads, StartHandle(t, "start", "reserve", "unlock")
      PROVE  DaxNotJournalled'
  BY <1>8 DEF StartHandle, inode, store, held, locals, io
<1>9. ASSUME NEW t \in Threads, StartHandle(t, "pstart", "preserve", "unlock")
      PROVE  DaxNotJournalled'
  BY <1>9 DEF StartHandle, inode, store, held, locals, io
<1>10. ASSUME NEW t \in Threads, StartHandle(t, "vstart", "vreserve", "vunlock")
      PROVE  DaxNotJournalled'
  BY <1>10 DEF StartHandle, inode, store, held, locals, io
<1>11. ASSUME NEW t \in Threads, Reserve(t, "reserve", "loop", "stop")
      PROVE  DaxNotJournalled'
  BY <1>11 DEF Reserve, inode, store, held, locals, io
<1>12. ASSUME NEW t \in Threads, Reserve(t, "preserve", "transfer", "pstop")
      PROVE  DaxNotJournalled'
  BY <1>12 DEF Reserve, inode, store, held, locals, io
<1>13. ASSUME NEW t \in Threads, Reserve(t, "vreserve", "vset", "vstop")
      PROVE  DaxNotJournalled'
  BY <1>13 DEF Reserve, inode, store, held, locals, io
<1>14. ASSUME NEW t \in Threads, ChangeFlags(t)
      PROVE  DaxNotJournalled'
  BY <1>14, OthersKeep DEF ChangeFlags
<1>15. ASSUME NEW t \in Threads, SetInodeFlags(t)
      PROVE  DaxNotJournalled'
  BY <1>15 DEF SetInodeFlags, inode, store, held, locals, io
<1>16. ASSUME NEW t \in Threads, MarkIloc(t, "mark", "stop")
      PROVE  DaxNotJournalled'
  BY <1>16 DEF MarkIloc, inode, store, held, locals, io
<1>17. ASSUME NEW t \in Threads, MarkProject(t)
      PROVE  DaxNotJournalled'
  BY <1>17 DEF MarkProject, MarkIloc, inode, store, held, locals, io
<1>18. ASSUME NEW t \in Threads, MarkIloc(t, "vmark", "vstop")
      PROVE  DaxNotJournalled'
  BY <1>18 DEF MarkIloc, inode, store, held, locals, io
<1>19. ASSUME NEW t \in Threads, StopFlags(t)
      PROVE  DaxNotJournalled'
  BY <1>19 DEF StopFlags, inode, store, held, locals, io
<1>20. ASSUME NEW t \in Threads, JournalFlag(t)
      PROVE  DaxNotJournalled'
  <2>1. flags' = flags \/ ~dax
    BY <1>20 DEF JournalFlag, DaxBusy
  <2> QED
    BY <1>20, <2>1 DEF JournalFlag
<1>21. ASSUME NEW t \in Threads, Migrate(t)
      PROVE  DaxNotJournalled'
  <2>1. flags' = flags \/ Toggle(t, "EXTENTS")
    BY <1>21 DEF Migrate
  <2>2. "JOURNAL_DATA" \in flags' => "JOURNAL_DATA" \in flags
    BY <2>1, ToggleType
  <2> QED
    BY <1>21, <2>2 DEF Migrate
<1>22. ASSUME NEW t \in Threads, SetProject(t)
      PROVE  DaxNotJournalled'
  BY <1>22 DEF SetProject, inode, store, held, locals, io
<1>23. ASSUME NEW t \in Threads, DquotInit(t)
      PROVE  DaxNotJournalled'
  BY <1>23 DEF DquotInit, inode, store, held, locals, io
<1>24. ASSUME NEW t \in Threads, Locate(t)
      PROVE  DaxNotJournalled'
  BY <1>24 DEF Locate, inode, store, held, locals, io
<1>25. ASSUME NEW t \in Threads, Expand(t)
      PROVE  DaxNotJournalled'
  BY <1>25 DEF Expand, DropIloc, inode, store, held, locals, io
<1>26. ASSUME NEW t \in Threads, Transfer(t)
      PROVE  DaxNotJournalled'
  BY <1>26 DEF Transfer, ProjectAfterFailure, inode, store, held, locals, io
<1>27. ASSUME NEW t \in Threads, StopHandle(t, "pstop", "unlock")
      PROVE  DaxNotJournalled'
  BY <1>27 DEF StopHandle, inode, store, held, locals, io
<1>28. ASSUME NEW t \in Threads, StopHandle(t, "vstop", "vunlock")
      PROVE  DaxNotJournalled'
  BY <1>28 DEF StopHandle, inode, store, held, locals, io
<1>29. ASSUME NEW t \in Threads, Unlock(t)
      PROVE  DaxNotJournalled'
  BY <1>29 DEF Unlock, DropLock, inode, store, held, locals, io
<1>30. ASSUME NEW t \in Threads, SetGeneration(t)
      PROVE  DaxNotJournalled'
  BY <1>30 DEF SetGeneration, inode, store, held, locals, io
<1>31. ASSUME NEW t \in Threads, UnlockVersion(t)
      PROVE  DaxNotJournalled'
  BY <1>31 DEF UnlockVersion, DropLock, inode, store, held, locals, io
<1>32. ASSUME NEW t \in Threads, DropWrite(t)
      PROVE  DaxNotJournalled'
  BY <1>32 DEF DropWrite, inode, store, held, locals, io
<1>33. CASE StartDio
  BY <1>33 DEF StartDio, inode, store, held, locals, io
<1>34. CASE EndDio
  BY <1>34 DEF EndDio, inode, store, held, locals, io
<1>35. CASE FaultWrite
  BY <1>35 DEF FaultWrite, inode, store, held, locals, io
<1>36. CASE Writeback
  BY <1>36 DEF Writeback, inode, store, held, locals, io
<1>37. CASE Evict
  BY <1>37 DEF Evict, Read, ShouldDax, DaxMutExcl
<1>38. CASE Commit
  BY <1>38 DEF Commit, inode, store, held, locals, io
<1>39. CASE Abort
  BY <1>39 DEF Abort, inode, store, held, locals, io
<1>40. CASE Crash
  BY <1>40 DEF Crash, Read, ShouldDax, DaxMutExcl
<1>41. CASE UNCHANGED vars
  BY <1>41 DEF vars, inode
<1> QED
  BY <1>1, <1>2, <1>3, <1>4, <1>5, <1>6, <1>7, <1>8, <1>9, <1>10, <1>11,
     <1>12, <1>13, <1>14, <1>15, <1>16, <1>17, <1>18, <1>19, <1>20, <1>21,
     <1>22, <1>23, <1>24, <1>25, <1>26, <1>27, <1>28, <1>29, <1>30, <1>31,
     <1>32, <1>33, <1>34, <1>35, <1>36, <1>37, <1>38, <1>39, <1>40, <1>41
     DEF Next, Running, Setattr, Setproject, SetVersion, TakeLock

(* Data is never journalled while the inode is used with DAX.              *)
THEOREM DaxNeverJournalled == Spec => []DaxNotJournalled
<1>1. Init => DaxNotJournalled
  BY DEF Init, DaxNotJournalled, ShouldDax, DaxMutExcl
<1>2. HoldsInv => TypeOK
  BY DEF HoldsInv
<1> QED
  BY <1>1, <1>2, DaxNext, HoldsAlways, PTL DEF Spec

-----------------------------------------------------------------------------
(* A call that is to make the inode immutable has waited for direct I/O,   *)
(* and with the lock keeps it from starting again.                         *)
Dry(t) ==
  /\ pc[t] \in {"flush", "start", "reserve", "loop"} /\ "IMMUTABLE" \in Wanted(t) =>
       immutable \/ ~dio
  /\ pc[t] = "setinode" /\ "IMMUTABLE" \in flags => immutable \/ ~dio

DioInv ==
  /\ dio => ~mount.dir
  /\ \A t \in Threads : Dry(t)
  /\ NoDioToImmutable

(* The lock keeps all but its holder from these steps.                     *)
LEMMA DryElsewhere ==
  ASSUME NEW t \in Threads, pc'[t] \notin Attr
  PROVE  Dry(t)'
BY DEF Dry, Attr, Before

LEMMA DioNext == HoldsInv /\ HoldsInv' /\ DioInv /\ [Next]_vars => DioInv'
<1> SUFFICES ASSUME HoldsInv, HoldsInv', DioInv, [Next]_vars
             PROVE  DioInv'
  OBVIOUS
<1>a. /\ TypeOK /\ \A t \in Threads : Holds(t) /\ Dry(t)
      /\ dio => ~mount.dir
      /\ NoDioToImmutable
  BY DEF HoldsInv, DioInv
<1> USE <1>a
<1>1. ASSUME NEW t \in Threads, CallSetattr(t)
      PROVE  DioInv'
  <2>1. Dry(t)'
    BY <1>1 DEF CallSetattr, Goto, Fail, TypeOK, Dry, Wanted, inode, store, held,
       locals, io
  <2>2. ASSUME NEW u \in Threads \ {t}
        PROVE  Dry(u)'
    BY <1>1, <2>2, AskedType DEF CallSetattr, Goto, Fail, TypeOK, Dry, Wanted, inode,
       store, held, locals, io
  <2>3. /\ dio' => ~mount'.dir
        /\ NoDioToImmutable'
    BY <1>1 DEF CallSetattr, NoDioToImmutable, inode, store, held, locals, io
  <2> QED
    BY <2>1, <2>2, <2>3 DEF DioInv
<1>2. ASSUME NEW t \in Threads, CallSetVersion(t)
      PROVE  DioInv'
  <2>1. Dry(t)'
    BY <1>2 DEF CallSetVersion, Goto, Fail, TypeOK, Dry, Wanted, inode, store, held,
       locals, io
  <2>2. ASSUME NEW u \in Threads \ {t}
        PROVE  Dry(u)'
    BY <1>2, <2>2, AskedType DEF CallSetVersion, Goto, Fail, TypeOK, Dry, Wanted,
       inode, store, held, locals, io
  <2>3. /\ dio' => ~mount'.dir
        /\ NoDioToImmutable'
    BY <1>2 DEF CallSetVersion, NoDioToImmutable, inode, store, held, locals, io
  <2> QED
    BY <2>1, <2>2, <2>3 DEF DioInv
<1>3. ASSUME NEW t \in Threads, Lock(t, "lock", "check")
      PROVE  DioInv'
  <2>1. Dry(t)'
    BY <1>3 DEF Lock, Goto, Fail, TypeOK, Dry, Wanted, inode, store, held, locals, io
  <2>2. ASSUME NEW u \in Threads \ {t}
        PROVE  Dry(u)'
    BY <1>3, <2>2 DEF Lock, Goto, Fail, TypeOK, Dry, Wanted, inode, store, held,
       locals, io
  <2>3. /\ dio' => ~mount'.dir
        /\ NoDioToImmutable'
    BY <1>3 DEF Lock, NoDioToImmutable, inode, store, held, locals, io
  <2> QED
    BY <2>1, <2>2, <2>3 DEF DioInv
<1>4. ASSUME NEW t \in Threads, Lock(t, "vlock", "vstart")
      PROVE  DioInv'
  <2>1. Dry(t)'
    BY <1>4 DEF Lock, Goto, Fail, TypeOK, Dry, Wanted, inode, store, held, locals, io
  <2>2. ASSUME NEW u \in Threads \ {t}
        PROVE  Dry(u)'
    BY <1>4, <2>2 DEF Lock, Goto, Fail, TypeOK, Dry, Wanted, inode, store, held,
       locals, io
  <2>3. /\ dio' => ~mount'.dir
        /\ NoDioToImmutable'
    BY <1>4 DEF Lock, NoDioToImmutable, inode, store, held, locals, io
  <2> QED
    BY <2>1, <2>2, <2>3 DEF DioInv
<1>5. ASSUME NEW t \in Threads, Check(t)
      PROVE  DioInv'
  <2>a. pc'[t] = "start" /\ "IMMUTABLE" \in Wanted(t) => immutable \/ ~dio
    BY <1>5 DEF Check, Goto, Fail, TypeOK, MustDrain
  <2>1. Dry(t)'
    BY <1>5, <2>a DEF Check, Goto, Fail, TypeOK, Dry, Wanted, inode, store, held,
       locals, io
  <2>2. ASSUME NEW u \in Threads \ {t}
        PROVE  Dry(u)'
    BY <1>5, <2>2 DEF Check, Goto, Fail, TypeOK, Dry, Wanted, inode, store, held,
       locals, io
  <2>3. /\ dio' => ~mount'.dir
        /\ NoDioToImmutable'
    BY <1>5, <2>a DEF Check, NoDioToImmutable, inode, store, held, locals, io
  <2> QED
    BY <2>1, <2>2, <2>3 DEF DioInv
<1>6. ASSUME NEW t \in Threads, DioWait(t)
      PROVE  DioInv'
  <2>1. Dry(t)'
    BY <1>6 DEF DioWait, DioDone, Goto, Fail, TypeOK, Dry, Wanted, inode, store, held,
       locals, io
  <2>2. ASSUME NEW u \in Threads \ {t}
        PROVE  Dry(u)'
    BY <1>6, <2>2 DEF DioWait, DioDone, Goto, Fail, TypeOK, Dry, Wanted, inode, store,
       held, locals, io
  <2>3. /\ dio' => ~mount'.dir
        /\ NoDioToImmutable'
    BY <1>6 DEF DioWait, DioDone, NoDioToImmutable, inode, store, held, locals, io
  <2> QED
    BY <2>1, <2>2, <2>3 DEF DioInv
<1>7. ASSUME NEW t \in Threads, Flush(t)
      PROVE  DioInv'
  <2>1. Dry(t)'
    BY <1>7 DEF Flush, Goto, Fail, TypeOK, Dry, Wanted, inode, store, held, locals, io
  <2>2. ASSUME NEW u \in Threads \ {t}
        PROVE  Dry(u)'
    BY <1>7, <2>2 DEF Flush, Goto, Fail, TypeOK, Dry, Wanted, inode, store, held,
       locals, io
  <2>3. /\ dio' => ~mount'.dir
        /\ NoDioToImmutable'
    BY <1>7 DEF Flush, NoDioToImmutable, inode, store, held, locals, io
  <2> QED
    BY <2>1, <2>2, <2>3 DEF DioInv
<1>8. ASSUME NEW t \in Threads, StartHandle(t, "start", "reserve", "unlock")
      PROVE  DioInv'
  <2>1. Dry(t)'
    BY <1>8 DEF StartHandle, Goto, Fail, TypeOK, Dry, Wanted, inode, store, held,
       locals, io
  <2>2. ASSUME NEW u \in Threads \ {t}
        PROVE  Dry(u)'
    BY <1>8, <2>2 DEF StartHandle, Goto, Fail, TypeOK, Dry, Wanted, inode, store,
       held, locals, io
  <2>3. /\ dio' => ~mount'.dir
        /\ NoDioToImmutable'
    BY <1>8 DEF StartHandle, NoDioToImmutable, inode, store, held, locals, io
  <2> QED
    BY <2>1, <2>2, <2>3 DEF DioInv
<1>9. ASSUME NEW t \in Threads, StartHandle(t, "pstart", "preserve", "unlock")
      PROVE  DioInv'
  <2>1. Dry(t)'
    BY <1>9 DEF StartHandle, Goto, Fail, TypeOK, Dry, Wanted, inode, store, held,
       locals, io
  <2>2. ASSUME NEW u \in Threads \ {t}
        PROVE  Dry(u)'
    BY <1>9, <2>2 DEF StartHandle, Goto, Fail, TypeOK, Dry, Wanted, inode, store,
       held, locals, io
  <2>3. /\ dio' => ~mount'.dir
        /\ NoDioToImmutable'
    BY <1>9 DEF StartHandle, NoDioToImmutable, inode, store, held, locals, io
  <2> QED
    BY <2>1, <2>2, <2>3 DEF DioInv
<1>10. ASSUME NEW t \in Threads, StartHandle(t, "vstart", "vreserve", "vunlock")
      PROVE  DioInv'
  <2>1. Dry(t)'
    BY <1>10 DEF StartHandle, Goto, Fail, TypeOK, Dry, Wanted, inode, store, held,
       locals, io
  <2>2. ASSUME NEW u \in Threads \ {t}
        PROVE  Dry(u)'
    BY <1>10, <2>2 DEF StartHandle, Goto, Fail, TypeOK, Dry, Wanted, inode, store,
       held, locals, io
  <2>3. /\ dio' => ~mount'.dir
        /\ NoDioToImmutable'
    BY <1>10 DEF StartHandle, NoDioToImmutable, inode, store, held, locals, io
  <2> QED
    BY <2>1, <2>2, <2>3 DEF DioInv
<1>11. ASSUME NEW t \in Threads, Reserve(t, "reserve", "loop", "stop")
      PROVE  DioInv'
  <2>1. Dry(t)'
    BY <1>11 DEF Reserve, Goto, Fail, TypeOK, Dry, Wanted, inode, store, held, locals,
       io
  <2>2. ASSUME NEW u \in Threads \ {t}
        PROVE  Dry(u)'
    BY <1>11, <2>2 DEF Reserve, Goto, Fail, TypeOK, Dry, Wanted, inode, store, held,
       locals, io
  <2>3. /\ dio' => ~mount'.dir
        /\ NoDioToImmutable'
    BY <1>11 DEF Reserve, NoDioToImmutable, inode, store, held, locals, io
  <2> QED
    BY <2>1, <2>2, <2>3 DEF DioInv
<1>12. ASSUME NEW t \in Threads, Reserve(t, "preserve", "transfer", "pstop")
      PROVE  DioInv'
  <2>1. Dry(t)'
    BY <1>12 DEF Reserve, Goto, Fail, TypeOK, Dry, Wanted, inode, store, held, locals,
       io
  <2>2. ASSUME NEW u \in Threads \ {t}
        PROVE  Dry(u)'
    BY <1>12, <2>2 DEF Reserve, Goto, Fail, TypeOK, Dry, Wanted, inode, store, held,
       locals, io
  <2>3. /\ dio' => ~mount'.dir
        /\ NoDioToImmutable'
    BY <1>12 DEF Reserve, NoDioToImmutable, inode, store, held, locals, io
  <2> QED
    BY <2>1, <2>2, <2>3 DEF DioInv
<1>13. ASSUME NEW t \in Threads, Reserve(t, "vreserve", "vset", "vstop")
      PROVE  DioInv'
  <2>1. Dry(t)'
    BY <1>13 DEF Reserve, Goto, Fail, TypeOK, Dry, Wanted, inode, store, held, locals,
       io
  <2>2. ASSUME NEW u \in Threads \ {t}
        PROVE  Dry(u)'
    BY <1>13, <2>2 DEF Reserve, Goto, Fail, TypeOK, Dry, Wanted, inode, store, held,
       locals, io
  <2>3. /\ dio' => ~mount'.dir
        /\ NoDioToImmutable'
    BY <1>13 DEF Reserve, NoDioToImmutable, inode, store, held, locals, io
  <2> QED
    BY <2>1, <2>2, <2>3 DEF DioInv
<1>14. ASSUME NEW t \in Threads, ChangeFlags(t)
      PROVE  DioInv'
  <2>1. Dry(t)'
    BY <1>14, OthersKeep DEF ChangeFlags, Goto, Fail, TypeOK, Dry, Wanted, inode,
       store, held, locals, io
  <2>2. ASSUME NEW u \in Threads \ {t}
        PROVE  Dry(u)'
    BY <1>14, <2>2, OneAtATime, DryElsewhere DEF ChangeFlags, Goto, Fail, TypeOK,
       Attr, Before, Settled, Ver
  <2>3. /\ dio' => ~mount'.dir
        /\ NoDioToImmutable'
    BY <1>14, OthersKeep DEF ChangeFlags, NoDioToImmutable, inode, store, held,
       locals, io
  <2> QED
    BY <2>1, <2>2, <2>3 DEF DioInv
<1>15. ASSUME NEW t \in Threads, SetInodeFlags(t)
      PROVE  DioInv'
  <2>1. Dry(t)'
    BY <1>15 DEF SetInodeFlags, Goto, Fail, TypeOK, Dry, Wanted, inode, store, held,
       locals, io
  <2>2. ASSUME NEW u \in Threads \ {t}
        PROVE  Dry(u)'
    BY <1>15, <2>2, OneAtATime, DryElsewhere DEF SetInodeFlags, Goto, Fail, TypeOK,
       Attr, Before, Settled, Ver
  <2>3. /\ dio' => ~mount'.dir
        /\ NoDioToImmutable'
    BY <1>15 DEF SetInodeFlags, NoDioToImmutable, inode, store, held, locals, io,
       InodeFlags, Dry, Goto
  <2> QED
    BY <2>1, <2>2, <2>3 DEF DioInv
<1>16. ASSUME NEW t \in Threads, MarkIloc(t, "mark", "stop")
      PROVE  DioInv'
  <2>1. Dry(t)'
    BY <1>16 DEF MarkIloc, Goto, Fail, TypeOK, Dry, Wanted, inode, store, held,
       locals, io
  <2>2. ASSUME NEW u \in Threads \ {t}
        PROVE  Dry(u)'
    BY <1>16, <2>2, OneAtATime, DryElsewhere DEF MarkIloc, Goto, Fail, TypeOK, Attr,
       Before, Settled, Ver
  <2>3. /\ dio' => ~mount'.dir
        /\ NoDioToImmutable'
    BY <1>16 DEF MarkIloc, NoDioToImmutable, inode, store, held, locals, io
  <2> QED
    BY <2>1, <2>2, <2>3 DEF DioInv
<1>17. ASSUME NEW t \in Threads, MarkProject(t)
      PROVE  DioInv'
  <2>1. Dry(t)'
    BY <1>17 DEF MarkProject, MarkIloc, Goto, Fail, TypeOK, Dry, Wanted, inode, store,
       held, locals, io
  <2>2. ASSUME NEW u \in Threads \ {t}
        PROVE  Dry(u)'
    BY <1>17, <2>2, OneAtATime, DryElsewhere DEF MarkProject, MarkIloc, Goto, Fail,
       TypeOK, Attr, Before, Settled, Ver
  <2>3. /\ dio' => ~mount'.dir
        /\ NoDioToImmutable'
    BY <1>17 DEF MarkProject, MarkIloc, NoDioToImmutable, inode, store, held, locals, io
  <2> QED
    BY <2>1, <2>2, <2>3 DEF DioInv
<1>18. ASSUME NEW t \in Threads, MarkIloc(t, "vmark", "vstop")
      PROVE  DioInv'
  <2>1. Dry(t)'
    BY <1>18 DEF MarkIloc, Goto, Fail, TypeOK, Dry, Wanted, inode, store, held,
       locals, io
  <2>2. ASSUME NEW u \in Threads \ {t}
        PROVE  Dry(u)'
    BY <1>18, <2>2, OneAtATime, DryElsewhere DEF MarkIloc, Goto, Fail, TypeOK, Attr,
       Before, Settled, Ver
  <2>3. /\ dio' => ~mount'.dir
        /\ NoDioToImmutable'
    BY <1>18 DEF MarkIloc, NoDioToImmutable, inode, store, held, locals, io
  <2> QED
    BY <2>1, <2>2, <2>3 DEF DioInv
<1>19. ASSUME NEW t \in Threads, StopFlags(t)
      PROVE  DioInv'
  <2>1. Dry(t)'
    BY <1>19 DEF StopFlags, Goto, Fail, TypeOK, Dry, Wanted, inode, store, held,
       locals, io
  <2>2. ASSUME NEW u \in Threads \ {t}
        PROVE  Dry(u)'
    BY <1>19, <2>2 DEF StopFlags, Goto, Fail, TypeOK, Dry, Wanted, inode, store, held,
       locals, io
  <2>3. /\ dio' => ~mount'.dir
        /\ NoDioToImmutable'
    BY <1>19 DEF StopFlags, NoDioToImmutable, inode, store, held, locals, io
  <2> QED
    BY <2>1, <2>2, <2>3 DEF DioInv
<1>20. ASSUME NEW t \in Threads, JournalFlag(t)
      PROVE  DioInv'
  <2>1. Dry(t)'
    BY <1>20 DEF JournalFlag, Goto, Fail, TypeOK, Dry, Wanted, inode, store, held,
       locals, io
  <2>2. ASSUME NEW u \in Threads \ {t}
        PROVE  Dry(u)'
    BY <1>20, <2>2, OneAtATime, DryElsewhere DEF JournalFlag, Goto, Fail, TypeOK,
       Attr, Before, Settled, Ver
  <2>3. /\ dio' => ~mount'.dir
        /\ NoDioToImmutable'
    BY <1>20 DEF JournalFlag, NoDioToImmutable, inode, store, held, locals, io
  <2> QED
    BY <2>1, <2>2, <2>3 DEF DioInv
<1>21. ASSUME NEW t \in Threads, Migrate(t)
      PROVE  DioInv'
  <2>1. Dry(t)'
    BY <1>21 DEF Migrate, MigrateFails, Goto, Fail, TypeOK, Dry, Wanted, inode, store,
       held, locals, io
  <2>2. ASSUME NEW u \in Threads \ {t}
        PROVE  Dry(u)'
    BY <1>21, <2>2, OneAtATime, DryElsewhere DEF Migrate, MigrateFails, Goto, Fail,
       TypeOK, Attr, Before, Settled, Ver
  <2>3. /\ dio' => ~mount'.dir
        /\ NoDioToImmutable'
    BY <1>21 DEF Migrate, MigrateFails, NoDioToImmutable, inode, store, held, locals, io
  <2> QED
    BY <2>1, <2>2, <2>3 DEF DioInv
<1>22. ASSUME NEW t \in Threads, SetProject(t)
      PROVE  DioInv'
  <2>1. Dry(t)'
    BY <1>22 DEF SetProject, StoresProject, Goto, Fail, TypeOK, Dry, Wanted, inode, store, held,
       locals, io
  <2>2. ASSUME NEW u \in Threads \ {t}
        PROVE  Dry(u)'
    BY <1>22, <2>2 DEF SetProject, StoresProject, Goto, Fail, TypeOK, Dry, Wanted, inode, store,
       held, locals, io
  <2>3. /\ dio' => ~mount'.dir
        /\ NoDioToImmutable'
    BY <1>22 DEF SetProject, NoDioToImmutable, inode, store, held, locals, io
  <2> QED
    BY <2>1, <2>2, <2>3 DEF DioInv
<1>23. ASSUME NEW t \in Threads, DquotInit(t)
      PROVE  DioInv'
  <2>1. Dry(t)'
    BY <1>23 DEF DquotInit, Goto, Fail, TypeOK, Dry, Wanted, inode, store, held,
       locals, io
  <2>2. ASSUME NEW u \in Threads \ {t}
        PROVE  Dry(u)'
    BY <1>23, <2>2 DEF DquotInit, Goto, Fail, TypeOK, Dry, Wanted, inode, store, held,
       locals, io
  <2>3. /\ dio' => ~mount'.dir
        /\ NoDioToImmutable'
    BY <1>23 DEF DquotInit, NoDioToImmutable, inode, store, held, locals, io
  <2> QED
    BY <2>1, <2>2, <2>3 DEF DioInv
<1>24. ASSUME NEW t \in Threads, Locate(t)
      PROVE  DioInv'
  <2>1. Dry(t)'
    BY <1>24 DEF Locate, Goto, Fail, TypeOK, Dry, Wanted, inode, store, held, locals, io
  <2>2. ASSUME NEW u \in Threads \ {t}
        PROVE  Dry(u)'
    BY <1>24, <2>2 DEF Locate, Goto, Fail, TypeOK, Dry, Wanted, inode, store, held,
       locals, io
  <2>3. /\ dio' => ~mount'.dir
        /\ NoDioToImmutable'
    BY <1>24 DEF Locate, NoDioToImmutable, inode, store, held, locals, io
  <2> QED
    BY <2>1, <2>2, <2>3 DEF DioInv
<1>25. ASSUME NEW t \in Threads, Expand(t)
      PROVE  DioInv'
  <2>1. Dry(t)'
    BY <1>25 DEF Expand, DropIloc, Goto, Fail, TypeOK, Dry, Wanted, inode, store,
       held, locals, io
  <2>2. ASSUME NEW u \in Threads \ {t}
        PROVE  Dry(u)'
    BY <1>25, <2>2 DEF Expand, DropIloc, Goto, Fail, TypeOK, Dry, Wanted, inode,
       store, held, locals, io
  <2>3. /\ dio' => ~mount'.dir
        /\ NoDioToImmutable'
    BY <1>25 DEF Expand, DropIloc, NoDioToImmutable, inode, store, held, locals, io
  <2> QED
    BY <2>1, <2>2, <2>3 DEF DioInv
<1>26. ASSUME NEW t \in Threads, Transfer(t)
      PROVE  DioInv'
  <2>1. Dry(t)'
    BY <1>26 DEF Transfer, ProjectAfterFailure, Goto, Fail, TypeOK, Dry, Wanted,
       inode, store, held, locals, io
  <2>2. ASSUME NEW u \in Threads \ {t}
        PROVE  Dry(u)'
    BY <1>26, <2>2, OneAtATime, DryElsewhere DEF Transfer, ProjectAfterFailure, Goto,
       Fail, TypeOK, Attr, Before, Settled, Ver
  <2>3. /\ dio' => ~mount'.dir
        /\ NoDioToImmutable'
    BY <1>26 DEF Transfer, ProjectAfterFailure, NoDioToImmutable, inode, store, held,
       locals, io
  <2> QED
    BY <2>1, <2>2, <2>3 DEF DioInv
<1>27. ASSUME NEW t \in Threads, StopHandle(t, "pstop", "unlock")
      PROVE  DioInv'
  <2>1. Dry(t)'
    BY <1>27 DEF StopHandle, Goto, Fail, TypeOK, Dry, Wanted, inode, store, held,
       locals, io
  <2>2. ASSUME NEW u \in Threads \ {t}
        PROVE  Dry(u)'
    BY <1>27, <2>2 DEF StopHandle, Goto, Fail, TypeOK, Dry, Wanted, inode, store,
       held, locals, io
  <2>3. /\ dio' => ~mount'.dir
        /\ NoDioToImmutable'
    BY <1>27 DEF StopHandle, NoDioToImmutable, inode, store, held, locals, io
  <2> QED
    BY <2>1, <2>2, <2>3 DEF DioInv
<1>28. ASSUME NEW t \in Threads, StopHandle(t, "vstop", "vunlock")
      PROVE  DioInv'
  <2>1. Dry(t)'
    BY <1>28 DEF StopHandle, Goto, Fail, TypeOK, Dry, Wanted, inode, store, held,
       locals, io
  <2>2. ASSUME NEW u \in Threads \ {t}
        PROVE  Dry(u)'
    BY <1>28, <2>2 DEF StopHandle, Goto, Fail, TypeOK, Dry, Wanted, inode, store,
       held, locals, io
  <2>3. /\ dio' => ~mount'.dir
        /\ NoDioToImmutable'
    BY <1>28 DEF StopHandle, NoDioToImmutable, inode, store, held, locals, io
  <2> QED
    BY <2>1, <2>2, <2>3 DEF DioInv
<1>29. ASSUME NEW t \in Threads, Unlock(t)
      PROVE  DioInv'
  <2>1. Dry(t)'
    BY <1>29 DEF Unlock, DropLock, Goto, Fail, TypeOK, Dry, Wanted, inode, store,
       held, locals, io
  <2>2. ASSUME NEW u \in Threads \ {t}
        PROVE  Dry(u)'
    BY <1>29, <2>2 DEF Unlock, DropLock, Goto, Fail, TypeOK, Dry, Wanted, inode,
       store, held, locals, io
  <2>3. /\ dio' => ~mount'.dir
        /\ NoDioToImmutable'
    BY <1>29 DEF Unlock, DropLock, NoDioToImmutable, inode, store, held, locals, io
  <2> QED
    BY <2>1, <2>2, <2>3 DEF DioInv
<1>30. ASSUME NEW t \in Threads, SetGeneration(t)
      PROVE  DioInv'
  <2>1. Dry(t)'
    BY <1>30 DEF SetGeneration, Goto, Fail, TypeOK, Dry, Wanted, inode, store, held,
       locals, io
  <2>2. ASSUME NEW u \in Threads \ {t}
        PROVE  Dry(u)'
    BY <1>30, <2>2, OneAtATime, DryElsewhere DEF SetGeneration, Goto, Fail, TypeOK,
       Attr, Before, Settled, Ver
  <2>3. /\ dio' => ~mount'.dir
        /\ NoDioToImmutable'
    BY <1>30 DEF SetGeneration, NoDioToImmutable, inode, store, held, locals, io
  <2> QED
    BY <2>1, <2>2, <2>3 DEF DioInv
<1>31. ASSUME NEW t \in Threads, UnlockVersion(t)
      PROVE  DioInv'
  <2>1. Dry(t)'
    BY <1>31 DEF UnlockVersion, DropLock, Goto, Fail, TypeOK, Dry, Wanted, inode,
       store, held, locals, io
  <2>2. ASSUME NEW u \in Threads \ {t}
        PROVE  Dry(u)'
    BY <1>31, <2>2 DEF UnlockVersion, DropLock, Goto, Fail, TypeOK, Dry, Wanted,
       inode, store, held, locals, io
  <2>3. /\ dio' => ~mount'.dir
        /\ NoDioToImmutable'
    BY <1>31 DEF UnlockVersion, DropLock, NoDioToImmutable, inode, store, held,
       locals, io
  <2> QED
    BY <2>1, <2>2, <2>3 DEF DioInv
<1>32. ASSUME NEW t \in Threads, DropWrite(t)
      PROVE  DioInv'
  <2>1. Dry(t)'
    BY <1>32 DEF DropWrite, Goto, Fail, TypeOK, Dry, Wanted, inode, store, held,
       locals, io
  <2>2. ASSUME NEW u \in Threads \ {t}
        PROVE  Dry(u)'
    BY <1>32, <2>2 DEF DropWrite, Goto, Fail, TypeOK, Dry, Wanted, inode, store, held,
       locals, io
  <2>3. /\ dio' => ~mount'.dir
        /\ NoDioToImmutable'
    BY <1>32 DEF DropWrite, NoDioToImmutable, inode, store, held, locals, io
  <2> QED
    BY <2>1, <2>2, <2>3 DEF DioInv
<1>33. CASE StartDio
  <2>1. ASSUME NEW u \in Threads
        PROVE  Dry(u)'
    <3>1. pc'[u] \notin Attr
      BY <1>33, AttributesAssumption DEF StartDio, Holds
    <3> QED
      BY <3>1, DryElsewhere
  <2>2. /\ dio' => ~mount'.dir
        /\ NoDioToImmutable'
    BY <1>33 DEF StartDio, NoDioToImmutable, inode, store, held, locals, io
  <2> QED
    BY <2>1, <2>2 DEF DioInv
<1>34. CASE EndDio
  <2>1. ASSUME NEW u \in Threads
        PROVE  Dry(u)'
    BY <1>34 DEF EndDio, Dry, Wanted, inode, store, held, locals, io
  <2>2. /\ dio' => ~mount'.dir
        /\ NoDioToImmutable'
    BY <1>34 DEF EndDio, NoDioToImmutable, inode, store, held, locals, io
  <2> QED
    BY <2>1, <2>2 DEF DioInv
<1>35. CASE FaultWrite
  <2>1. ASSUME NEW u \in Threads
        PROVE  Dry(u)'
    BY <1>35 DEF FaultWrite, Dry, Wanted, inode, store, held, locals, io
  <2>2. /\ dio' => ~mount'.dir
        /\ NoDioToImmutable'
    BY <1>35 DEF FaultWrite, NoDioToImmutable, inode, store, held, locals, io
  <2> QED
    BY <2>1, <2>2 DEF DioInv
<1>36. CASE Writeback
  <2>1. ASSUME NEW u \in Threads
        PROVE  Dry(u)'
    BY <1>36 DEF Writeback, Dry, Wanted, inode, store, held, locals, io
  <2>2. /\ dio' => ~mount'.dir
        /\ NoDioToImmutable'
    BY <1>36 DEF Writeback, NoDioToImmutable, inode, store, held, locals, io
  <2> QED
    BY <2>1, <2>2 DEF DioInv
<1>37. CASE Evict
  <2>1. ASSUME NEW u \in Threads
        PROVE  Dry(u)'
    BY <1>37, DryElsewhere DEF Evict, Attr, Before, Settled
  <2>2. /\ dio' => ~mount'.dir
        /\ NoDioToImmutable'
    BY <1>37 DEF Evict, NoDioToImmutable, inode, store, held, locals, io
  <2> QED
    BY <2>1, <2>2 DEF DioInv
<1>38. CASE Commit
  <2>1. ASSUME NEW u \in Threads
        PROVE  Dry(u)'
    BY <1>38 DEF Commit, Dry, Wanted, inode, store, held, locals, io
  <2>2. /\ dio' => ~mount'.dir
        /\ NoDioToImmutable'
    BY <1>38 DEF Commit, NoDioToImmutable, inode, store, held, locals, io
  <2> QED
    BY <2>1, <2>2 DEF DioInv
<1>39. CASE Abort
  <2>1. ASSUME NEW u \in Threads
        PROVE  Dry(u)'
    BY <1>39 DEF Abort, Dry, Wanted, inode, store, held, locals, io
  <2>2. /\ dio' => ~mount'.dir
        /\ NoDioToImmutable'
    BY <1>39 DEF Abort, NoDioToImmutable, inode, store, held, locals, io
  <2> QED
    BY <2>1, <2>2 DEF DioInv
<1>40. CASE Crash
  <2>1. ASSUME NEW u \in Threads
        PROVE  Dry(u)'
    BY <1>40, DryElsewhere DEF Crash, Attr, Before, Settled
  <2>2. /\ dio' => ~mount'.dir
        /\ NoDioToImmutable'
    BY <1>40 DEF Crash, NoDioToImmutable, inode, store, held, locals, io
  <2> QED
    BY <2>1, <2>2 DEF DioInv
<1>41. CASE UNCHANGED vars
  BY <1>41 DEF vars, DioInv, Dry, Wanted, NoDioToImmutable, inode, locals, io
<1> QED
  BY <1>1, <1>2, <1>3, <1>4, <1>5, <1>6, <1>7, <1>8, <1>9, <1>10, <1>11,
     <1>12, <1>13, <1>14, <1>15, <1>16, <1>17, <1>18, <1>19, <1>20, <1>21,
     <1>22, <1>23, <1>24, <1>25, <1>26, <1>27, <1>28, <1>29, <1>30, <1>31,
     <1>32, <1>33, <1>34, <1>35, <1>36, <1>37, <1>38, <1>39, <1>40, <1>41
     DEF Next, Running, Setattr, Setproject, SetVersion, TakeLock

(* No direct I/O is in flight on an immutable file: inode_dio_wait under   *)
(* the lock of the inode is enough.                                        *)
THEOREM NoDioLeft == Spec => []NoDioToImmutable
<1>1. Init => DioInv
  BY DEF Init, DioInv, Dry, NoDioToImmutable
<1>2. DioInv => NoDioToImmutable
  BY DEF DioInv
<1> QED
  BY <1>1, <1>2, DioNext, HoldsAlways, PTL DEF Spec

-----------------------------------------------------------------------------
(* What a step of a call leaves alone, for the properties of the flags     *)

CallStep(t) == CallSetattr(t) \/ CallSetVersion(t) \/ TakeLock(t) \/ Running(t)
Outside ==
  StartDio \/ EndDio \/ FaultWrite \/ Writeback \/ Evict \/ Commit \/ Abort \/ Crash

(* The steps of the loop over the flags, and those that may follow it.     *)
Looping == {"start", "reserve", "loop", "setinode"}
Checked == Attr \ {"check", "unlock"}

(* It is about the call of t alone, which keeps its arguments once it has  *)
(* been checked.                                                           *)
Framed(t) ==
  /\ mount' = mount /\ disk' = disk
  /\ \A u \in Threads \ {t} :
       pc'[u] = pc[u] /\ asked'[u] = asked[u] /\ old'[u] = old[u]
  /\ pc'[t] \in Checked =>
       /\ pc[t] \in Checked \/ (Check(t) /\ Allowed(t))
       /\ asked'[t] = asked[t] /\ old'[t] = old[t]
  /\ pc'[t] \in Looping =>
       \/ pc[t] \in Looping
       \/ ~writable'
       \/ Check(t) /\ ~MustDrain(t)
  /\ writable' => writable
  /\ immutable' = immutable \/ SetInodeFlags(t)

LEMMA CallIsFramed ==
  ASSUME TypeOK, NEW t \in Threads, CallStep(t)
  PROVE  Framed(t)
<1> USE DEF Framed, TypeOK, Attr, Before, Settled, Checked, Looping, Goto, Fail, inode,
            store, held, locals, io
<1>1. CASE CallSetattr(t) \/ CallSetVersion(t)
  <2>1. pc'[t] \in {"lock", "vlock", "vdrop"}
    BY <1>1 DEF CallSetattr, CallSetVersion
  <2>2. \E i : asked' = [asked EXCEPT ![t] = i]
    BY <1>1 DEF CallSetattr, CallSetVersion
  <2>3. \A u \in Threads \ {t} :
          pc'[u] = pc[u] /\ asked'[u] = asked[u] /\ old'[u] = old[u]
    BY <1>1, <2>2 DEF CallSetattr, CallSetVersion
  <2>4. UNCHANGED <<mount, disk, writable, immutable>>
    BY <1>1 DEF CallSetattr, CallSetVersion
  <2> QED BY <2>1, <2>3, <2>4
<1>2. CASE TakeLock(t)
  BY <1>2 DEF TakeLock, Lock
<1>3. CASE Check(t)
  BY <1>3 DEF Check
<1>4. CASE DioWait(t) \/ Flush(t)
  BY <1>4 DEF DioWait, Flush
<1>5. ASSUME NEW from, NEW to, NEW out, StartHandle(t, from, to, out),
             from \in Checked \/ to \notin Attr,
             out \in {"unlock", "vunlock"}, to \notin Looping \/ from \in Looping
      PROVE  Framed(t)
  BY <1>5 DEF StartHandle
<1>6. ASSUME NEW from, NEW to, NEW out, Reserve(t, from, to, out),
             from \in Checked \/ (to \notin Attr /\ out \notin Attr),
             out \notin Looping, to \notin Looping \/ from \in Looping
      PROVE  Framed(t)
  BY <1>6 DEF Reserve
<1>7. CASE ChangeFlags(t) \/ SetInodeFlags(t)
  BY <1>7 DEF ChangeFlags, SetInodeFlags
<1>8. ASSUME NEW from, NEW to, MarkIloc(t, from, to), to \notin Looping,
             from \in Checked \/ to \notin Attr
      PROVE  Framed(t)
  BY <1>8 DEF MarkIloc
<1>9. CASE StopFlags(t) \/ JournalFlag(t) \/ Migrate(t)
  BY <1>9 DEF StopFlags, JournalFlag, Migrate, MigrateFails
<1>10. CASE SetProject(t) \/ DquotInit(t) \/ Locate(t) \/ Expand(t) \/ Transfer(t)
  BY <1>10 DEF SetProject, DquotInit, Locate, Expand, Transfer
<1>11. CASE StopHandle(t, "pstop", "unlock") \/ StopHandle(t, "vstop", "vunlock")
  BY <1>11 DEF StopHandle
<1>12. CASE Unlock(t) \/ UnlockVersion(t) \/ DropWrite(t) \/ SetGeneration(t)
  BY <1>12 DEF Unlock, UnlockVersion, DropWrite, SetGeneration
<1>13. /\ "start" \in Checked /\ "reserve" \in Checked /\ "pstart" \in Checked
       /\ "preserve" \in Checked /\ "mark" \in Checked /\ "pmark" \in Checked
       /\ "vreserve" \notin Attr /\ "vset" \notin Attr /\ "vstop" \notin Attr
       /\ "start" \in Looping /\ "reserve" \in Looping
       /\ {"preserve", "transfer", "stop", "pstop", "vreserve", "vset", "vstop"}
            \cap Looping = {}
  OBVIOUS
<1>14. CASE StartHandle(t, "start", "reserve", "unlock")
  BY <1>5, <1>13, <1>14
<1>15. CASE StartHandle(t, "pstart", "preserve", "unlock")
  BY <1>5, <1>13, <1>15
<1>16. CASE StartHandle(t, "vstart", "vreserve", "vunlock")
  BY <1>5, <1>13, <1>16
<1>17. CASE Reserve(t, "reserve", "loop", "stop")
  BY <1>6, <1>13, <1>17
<1>18. CASE Reserve(t, "preserve", "transfer", "pstop")
  BY <1>6, <1>13, <1>18
<1>19. CASE Reserve(t, "vreserve", "vset", "vstop")
  BY <1>6, <1>13, <1>19
<1>20. CASE MarkIloc(t, "mark", "stop")
  BY <1>8, <1>13, <1>20
<1>21. CASE MarkProject(t)
  BY <1>8, <1>13, <1>21 DEF MarkProject
<1>22. CASE MarkIloc(t, "vmark", "vstop")
  BY <1>8, <1>13, <1>22
<1> QED
  BY <1>1, <1>2, <1>3, <1>4, <1>7, <1>9, <1>10, <1>11, <1>12, <1>14, <1>15, <1>16,
     <1>17, <1>18, <1>19, <1>20, <1>21, <1>22
     DEF CallStep, Running, Setattr, Setproject, SetVersion

(* The flags themselves change in three steps of a call, and the buffer    *)
(* has them as they are then, or has them marked later.                    *)
FlagMove(t) ==
  \/ flags' = flags /\ raw'.flags \in {raw.flags, flags}
  \/ ChangeFlags(t)
  \/ JournalFlag(t) /\ Toggle(t, "JOURNAL_DATA")
  \/ Migrate(t) /\ Toggle(t, "EXTENTS")

LEMMA CallMovesFlags ==
  ASSUME TypeOK, NEW t \in Threads, CallStep(t)
  PROVE  FlagMove(t)
<1> USE DEF FlagMove, inode, store
<1>1. CASE CallSetattr(t) \/ CallSetVersion(t) \/ TakeLock(t)
  BY <1>1 DEF CallSetattr, CallSetVersion, TakeLock, Lock
<1>2. CASE Check(t) \/ DioWait(t) \/ Flush(t)
  BY <1>2 DEF Check, DioWait, Flush
<1>3. ASSUME NEW from, NEW to, NEW out,
             StartHandle(t, from, to, out) \/ Reserve(t, from, to, out)
      PROVE  FlagMove(t)
  BY <1>3 DEF StartHandle, Reserve
<1>4. ASSUME NEW from, NEW to, MarkIloc(t, from, to) \/ StopHandle(t, from, to)
      PROVE  FlagMove(t)
  BY <1>4 DEF MarkIloc, StopHandle, Image
<1>5. CASE SetInodeFlags(t) \/ StopFlags(t) \/ SetGeneration(t) \/ Transfer(t)
  BY <1>5 DEF SetInodeFlags, StopFlags, SetGeneration, Transfer
<1>6. CASE JournalFlag(t) \/ Migrate(t)
  BY <1>6 DEF JournalFlag, Migrate
<1>7. CASE SetProject(t) \/ DquotInit(t) \/ Locate(t) \/ Expand(t)
  BY <1>7 DEF SetProject, DquotInit, Locate, Expand
<1>8. CASE Unlock(t) \/ UnlockVersion(t) \/ DropWrite(t)
  BY <1>8 DEF Unlock, UnlockVersion, DropWrite
<1> QED
  BY <1>1, <1>2, <1>3, <1>4, <1>5, <1>6, <1>7, <1>8
     DEF CallStep, Running, Setattr, Setproject, SetVersion, MarkProject

(* Beside the calls, the flags and the buffer come from the buffer or from *)
(* the disk, and the disk from the buffer.                                 *)
LEMMA OutsideFlags ==
  ASSUME Outside \/ UNCHANGED vars
  PROVE  /\ mount' = mount
         /\ flags' \in {flags, raw.flags, disk.inode.flags}
         /\ raw'.flags \in {raw.flags, disk.inode.flags}
         /\ disk'.inode.flags \in {disk.inode.flags, raw.flags}
         /\ \/ UNCHANGED <<pc, asked, old>>
            \/ \A t \in Threads : pc'[t] = "idle"
<1> USE DEF inode, store, locals
<1>1. CASE StartDio \/ EndDio \/ FaultWrite \/ Writeback
  BY <1>1 DEF StartDio, EndDio, FaultWrite, Writeback
<1>2. CASE Evict
  BY <1>2 DEF Evict, Read
<1>3. CASE Commit \/ Abort
  BY <1>3 DEF Commit, Abort
<1>4. CASE Crash
  BY <1>4 DEF Crash, Read
<1>5. CASE UNCHANGED vars
  BY <1>5 DEF vars
<1> QED
  BY <1>1, <1>2, <1>3, <1>4, <1>5 DEF Outside

LEMMA NextCases ==
  ASSUME [Next]_vars
  PROVE  (\E t \in Threads : CallStep(t)) \/ Outside \/ UNCHANGED vars
BY DEF Next, CallStep, Outside

-----------------------------------------------------------------------------
(* The project and the quota the inode is counted in                       *)

LEMMA CallMovesProject ==
  ASSUME NEW t \in Threads, CallStep(t)
  PROVE  /\ UNCHANGED <<disk, aborted>>
         /\ UNCHANGED <<projid, charged>> \/ Transfer(t)
<1> USE DEF inode, store
<1>1. CASE CallSetattr(t) \/ CallSetVersion(t) \/ TakeLock(t)
  BY <1>1 DEF CallSetattr, CallSetVersion, TakeLock, Lock
<1>2. CASE Check(t) \/ DioWait(t) \/ Flush(t)
  BY <1>2 DEF Check, DioWait, Flush
<1>3. ASSUME NEW from, NEW to, NEW out,
             StartHandle(t, from, to, out) \/ Reserve(t, from, to, out)
      PROVE  UNCHANGED <<disk, aborted, projid, charged>>
  BY <1>3 DEF StartHandle, Reserve
<1>4. ASSUME NEW from, NEW to, MarkIloc(t, from, to) \/ StopHandle(t, from, to)
      PROVE  UNCHANGED <<disk, aborted, projid, charged>>
  BY <1>4 DEF MarkIloc, StopHandle
<1>5. CASE ChangeFlags(t) \/ SetInodeFlags(t) \/ StopFlags(t)
  BY <1>5 DEF ChangeFlags, SetInodeFlags, StopFlags
<1>6. CASE JournalFlag(t) \/ Migrate(t) \/ SetGeneration(t)
  BY <1>6 DEF JournalFlag, Migrate, SetGeneration
<1>7. CASE SetProject(t) \/ DquotInit(t) \/ Locate(t) \/ Expand(t)
  BY <1>7 DEF SetProject, DquotInit, Locate, Expand
<1>8. CASE Transfer(t)
  BY <1>8 DEF Transfer
<1>9. CASE Unlock(t) \/ UnlockVersion(t) \/ DropWrite(t)
  BY <1>9 DEF Unlock, UnlockVersion, DropWrite
<1> QED
  BY <1>1, <1>2, <1>3, <1>4, <1>5, <1>6, <1>7, <1>8, <1>9
     DEF CallStep, Running, Setattr, Setproject, SetVersion, MarkProject

LEMMA QuotaNext ==
  ASSUME HoldsInv, DataInv, [Next]_vars
  PROVE  QuotaKept
<1> SUFFICES ASSUME mount.quota
             PROVE  /\ FollowsNow /\ ~FollowsNow' =>
                         \/ \E t \in Threads : SkippedTransfer(t)
                         \/ ~FollowsOnDisk /\ Crash
                    /\ FollowsOnDisk /\ ~FollowsOnDisk' => ~FollowsNow
  BY DEF QuotaKept
<1>a. TypeOK /\ RawInv /\ \A t \in Threads : Holds(t)
  BY DEF HoldsInv, DataInv
<1> USE DEF FollowsNow, FollowsOnDisk
<1>1. ASSUME NEW t \in Threads, Transfer(t)
      PROVE  FollowsNow /\ ~FollowsNow' => SkippedTransfer(t)
  <2>1. CASE projid' = projid /\ charged' = charged
    BY <1>1, <2>1 DEF Transfer, store
  <2>2. CASE charged' = asked[t].projid /\ projid' = asked[t].projid
    BY <2>2
  <2>3. CASE /\ MayFail("dqget") /\ pc[t] = "transfer"
             /\ projid' = asked[t].projid /\ UNCHANGED <<charged, err>>
    BY <2>3 DEF SkippedTransfer
  <2>4. CASE charged = Astray /\ charged' = Astray
    BY <1>a, <1>1, <2>4, AttributesAssumption DEF Transfer, store, TypeOK
  <2> QED
    BY <1>1, <2>1, <2>2, <2>3, <2>4
       DEF Transfer, NoDquot, ProjectAfterFailure, Goto
<1>2. ASSUME NEW t \in Threads, CallStep(t)
      PROVE  /\ FollowsNow /\ ~FollowsNow' => SkippedTransfer(t)
             /\ FollowsOnDisk => FollowsOnDisk'
  BY <1>1, <1>2, CallMovesProject
<1>3. CASE StartDio \/ EndDio \/ FaultWrite \/ Writeback
  BY <1>3 DEF StartDio, EndDio, FaultWrite, Writeback, inode, store
<1>4. CASE Evict
  <2>1. ~aborted => raw.projid = projid
    BY <1>4, <1>a DEF Evict, RawInv, Image
  <2> QED
    BY <1>4, <2>1 DEF Evict, Read, Recount, store
<1>5. CASE Commit
  <2>1. ~aborted /\ raw.projid = projid
    BY <1>5, <1>a DEF Commit, RawInv, Image, Holds
  <2> QED
    BY <1>5, <2>1 DEF Commit, inode
<1>6. CASE Abort
  BY <1>6 DEF Abort, inode
<1>7. CASE Crash
  BY <1>7 DEF Crash, Read, Recount
<1>8. CASE UNCHANGED vars
  BY <1>8 DEF vars, inode, store
<1> QED
  BY <1>2, <1>3, <1>4, <1>5, <1>6, <1>7, <1>8, NextCases DEF Outside

(* The only step that takes the inode out of the quota of its project is   *)
(* that of a call whose dqget failed and which goes on to return 0: no     *)
(* error, abort, eviction or crash does, for any number of threads and     *)
(* projects; and recovery finds them apart only if the journal was given   *)
(* them so.                                                                *)
THEOREM QuotaAlwaysFollows == Spec => QuotaFollows
<1>1. HoldsInv /\ DataInv /\ [Next]_vars => QuotaKept
  BY QuotaNext
<1> QED
  BY <1>1, DataAlways, PTL DEF Spec, QuotaFollows

-----------------------------------------------------------------------------
(* The flags that users may not change                                     *)

RestKept == flags' \ Modifiable = flags \ Modifiable
RestAgrees ==
  /\ raw.flags \ Modifiable = flags \ Modifiable
  /\ disk.inode.flags \ Modifiable = flags \ Modifiable

LEMMA RestNext ==
  ASSUME HoldsInv, RestAgrees, [Next]_vars
  PROVE  RestKept /\ RestAgrees'
<1>0. TypeOK
  BY DEF HoldsInv
<1>1. ASSUME NEW t \in Threads, CallStep(t)
      PROVE  RestKept /\ RestAgrees'
  <2>1. disk' = disk /\ FlagMove(t)
    BY <1>0, <1>1, CallIsFramed, CallMovesFlags DEF Framed
  <2>2. CASE flags' = flags /\ raw'.flags \in {raw.flags, flags}
    BY <2>1, <2>2 DEF RestKept, RestAgrees
  <2>3. CASE ChangeFlags(t)
    <3>1. Others(t) \ Modifiable = flags \ Modifiable
      BY DEF Others, Wanted, Modifiable, Separate
    <3>2. raw' = raw /\ flags' = Others(t)
      BY <2>3 DEF ChangeFlags, store
    <3> QED BY <2>1, <3>1, <3>2 DEF RestKept, RestAgrees
  <2>4. ASSUME NEW flag \in Flags \cap Settable, Toggle(t, flag)
        PROVE  RestKept /\ RestAgrees'
    <3>1. /\ flags' = (flags \ {flag}) \cup (Wanted(t) \cap {flag})
          /\ raw'.flags = flags'
      BY <1>0, <2>4 DEF Toggle, TypeOK, Images
    <3>2. flags' \ Modifiable = flags \ Modifiable
      BY <2>4, <3>1 DEF Modifiable
    <3> QED BY <2>1, <3>1, <3>2 DEF RestKept, RestAgrees
  <2>5. ASSUME NEW flag, flag \notin Flags, Toggle(t, flag)
        PROVE  RestKept /\ RestAgrees'
    <3>1. /\ flags' = (flags \ {flag}) \cup (Wanted(t) \cap {flag})
          /\ raw'.flags = flags'
      BY <1>0, <2>5 DEF Toggle, TypeOK, Images
    <3>2. flags' = flags
      BY <1>0, <2>5, <3>1 DEF Wanted, Modifiable, TypeOK
    <3> QED BY <2>1, <3>1, <3>2 DEF RestKept, RestAgrees
  <2>6. {"JOURNAL_DATA", "EXTENTS"} \subseteq Settable
    BY DEF Settable
  <2> QED BY <2>1, <2>2, <2>3, <2>4, <2>5, <2>6 DEF FlagMove
<1>2. CASE Outside \/ UNCHANGED vars
  BY <1>2, OutsideFlags DEF RestAgrees, RestKept
<1> QED BY <1>1, <1>2, NextCases

(* No sequence of calls, failures, evictions and crashes changes a flag    *)
(* that is not in EXT4_FL_USER_MODIFIABLE, although the flags are written  *)
(* back as a whole, by three steps of a call.                              *)
THEOREM OthersNeverChange == Spec => [][RestKept]_vars
<1>1. Init => RestAgrees
  BY DEF Init, RestAgrees, Image
<1>2. HoldsInv /\ RestAgrees /\ [Next]_vars => RestKept /\ RestAgrees'
  BY RestNext
<1> QED BY <1>1, <1>2, HoldsAlways, PTL DEF Spec

-----------------------------------------------------------------------------
(* DAX and what excludes it, when no call asks for both                    *)

AskedApart == \A t \in Threads : ~ ({"DAX", "JOURNAL_DATA"} \subseteq Wanted(t))

Apart(f) == ~ ("DAX" \in f /\ f \cap DaxMutExcl # {})

(* What dax_compatible has made sure of stays so while the call runs.      *)
Compatible(t) ==
  pc[t] \in Checked =>
    /\ "DAX" \in Wanted(t) => old[t].flags \cap DaxMutExcl = {}
    /\ Wanted(t) \cap DaxMutExcl # {} => "DAX" \notin old[t].flags

ApartInv ==
  /\ Apart(flags) /\ Apart(raw.flags) /\ Apart(disk.inode.flags)
  /\ \A t \in Threads : Compatible(t)

LEMMA CompatibleNext ==
  ASSUME HoldsInv, ApartInv, [Next]_vars
  PROVE  \A t \in Threads : Compatible(t)'
<1> SUFFICES ASSUME NEW u \in Threads, pc'[u] \in Checked
             PROVE  Compatible(u)'
  BY DEF Compatible
<1>0. TypeOK
  BY DEF HoldsInv
<1>1. ASSUME NEW t \in Threads, CallStep(t)
      PROVE  Compatible(u)'
  <2>1. Framed(t)
    BY <1>0, <1>1, CallIsFramed
  <2>2. asked'[u] = asked[u] /\ old'[u] = old[u]
    BY <2>1 DEF Framed
  <2>3. Wanted(u)' = Wanted(u)
    BY <2>2 DEF Wanted
  <2>4. CASE pc[u] \in Checked
    BY <2>2, <2>3, <2>4 DEF ApartInv, Compatible
  <2>5. CASE pc[u] \notin Checked
    <3>1. u = t /\ Allowed(t)
      BY <2>1, <2>5 DEF Framed
    <3> QED BY <2>2, <2>3, <3>1 DEF Compatible, Allowed, DaxCompatible
  <2> QED BY <2>4, <2>5
<1>2. CASE Outside \/ UNCHANGED vars
  <2>1. UNCHANGED <<pc, asked, old>>
    BY <1>2, OutsideFlags DEF Checked, Attr, Before, Settled
  <2> QED BY <2>1 DEF ApartInv, Compatible, Wanted
<1> QED BY <1>1, <1>2, NextCases

LEMMA ApartNext ==
  ASSUME HoldsInv, DataInv, AskedApart, ApartInv, [Next]_vars
  PROVE  ApartInv'
<1>0. TypeOK
  BY DEF HoldsInv
<1>1. \A t \in Threads : Compatible(t)'
  BY CompatibleNext
<1>2. ASSUME NEW t \in Threads, CallStep(t)
      PROVE  Apart(flags') /\ Apart(raw'.flags) /\ Apart(disk'.inode.flags)
  <2>1. disk' = disk /\ FlagMove(t)
    BY <1>0, <1>2, CallIsFramed, CallMovesFlags DEF Framed
  <2>2. CASE flags' = flags /\ raw'.flags \in {raw.flags, flags}
    BY <2>1, <2>2 DEF ApartInv
  <2>3. CASE ChangeFlags(t)
    <3>1. pc[t] = "loop" /\ flags' = Others(t) /\ raw' = raw
      BY <2>3 DEF ChangeFlags, Goto, store
    <3>2. flags = old[t].flags
      BY <3>1 DEF DataInv, SoFar, FlagsSoFar, Before, Image
    <3>3. "DAX" \in Wanted(t) => flags \cap DaxMutExcl = {}
      BY <3>1, <3>2 DEF ApartInv, Compatible, Checked, Attr, Before
    <3>4. /\ "DAX" \in Others(t) => "DAX" \in Wanted(t)
          /\ Others(t) \cap DaxMutExcl \subseteq flags
      BY <1>0 DEF Others, Wanted, Modifiable, Separate, Settable, DaxMutExcl, TypeOK
    <3> QED BY <2>1, <3>1, <3>3, <3>4 DEF Apart, ApartInv
  <2>4. CASE JournalFlag(t) /\ Toggle(t, "JOURNAL_DATA")
    <3>1. /\ pc[t] = "journal"
          /\ flags' = (flags \ {"JOURNAL_DATA"}) \cup (Wanted(t) \cap {"JOURNAL_DATA"})
          /\ raw'.flags = flags'
      BY <1>0, <2>4 DEF JournalFlag, Toggle, Goto, Fail, TypeOK, Images
    <3>2. flags = First(t)
      BY <3>1 DEF DataInv, SoFar, FlagsSoFar
    <3>3. "DAX" \in First(t) => "DAX" \in Wanted(t)
      BY <1>0 DEF First, Wanted, Modifiable, Separate, Settable, TypeOK, Images
    <3>4. Apart(flags)
      BY DEF ApartInv
    <3>5. Apart(flags')
      BY <3>1, <3>2, <3>3, <3>4 DEF Apart, AskedApart, DaxMutExcl
    <3> QED BY <2>1, <3>1, <3>5 DEF ApartInv
  <2>5. CASE Migrate(t) /\ Toggle(t, "EXTENTS")
    <3>1. /\ flags' = (flags \ {"EXTENTS"}) \cup (Wanted(t) \cap {"EXTENTS"})
          /\ raw'.flags = flags'
      BY <1>0, <2>5 DEF Toggle, TypeOK, Images
    <3>2. Apart(flags)
      BY DEF ApartInv
    <3>3. Apart(flags')
      BY <3>1, <3>2 DEF Apart, DaxMutExcl
    <3> QED BY <2>1, <3>1, <3>3 DEF ApartInv
  <2> QED BY <2>1, <2>2, <2>3, <2>4, <2>5 DEF FlagMove
<1>3. CASE Outside \/ UNCHANGED vars
  <2>1. Apart(flags') /\ Apart(raw'.flags) /\ Apart(disk'.inode.flags)
    BY <1>3, OutsideFlags DEF ApartInv
  <2> QED BY <1>1, <2>1 DEF ApartInv, Apart
<1>4. ASSUME NEW t \in Threads, CallStep(t)
      PROVE  ApartInv'
  BY <1>1, <1>2, <1>4 DEF ApartInv, Apart
<1> QED BY <1>3, <1>4, NextCases

(* A file has DAX and a flag that excludes it only if some call asked for  *)
(* both at once: dax_compatible, which looks at the wanted and the old     *)
(* flags pairwise, is enough for all others, over failures, evictions and  *)
(* crashes, and however calls follow one another.                          *)
THEOREM OnlyAskedTogether == Spec /\ []AskedApart => []DaxExclusive
<1>1. Init => ApartInv
  BY DEF Init, ApartInv, Apart, Image, Compatible, Checked, Attr, Before, Settled
<1>2. HoldsInv /\ DataInv /\ AskedApart /\ ApartInv /\ [Next]_vars => ApartInv'
  BY ApartNext
<1>3. ApartInv => DaxExclusive
  BY DEF ApartInv, Apart, DaxExclusive
<1> QED BY <1>1, <1>2, <1>3, DataAlways, PTL DEF Spec

-----------------------------------------------------------------------------
(* Mapped pages, when write faults wait for a call past its flush          *)

(* A call that will set the immutable flag is past its flush.              *)
Sealing(t) == pc[t] \in Looping /\ "IMMUTABLE" \in Wanted(t)

FaultsWait == FaultWrite => \A t \in Threads : ~Sealing(t)

SealInv ==
  /\ writable => ~mount.dir
  /\ WritesFail
  /\ \A t \in Threads : Sealing(t) => immutable \/ ~writable

LEMMA CallKeepsSealed ==
  ASSUME HoldsInv, DataInv, SealInv, NEW t \in Threads, CallStep(t)
  PROVE  SealInv'
<1>1. TypeOK /\ Framed(t)
  BY CallIsFramed DEF HoldsInv
<1>2. writable' => writable /\ ~mount'.dir
  BY <1>1 DEF Framed, SealInv
<1>3. ASSUME SetInodeFlags(t), immutable', writable
      PROVE  immutable
  <2>1. pc[t] = "setinode" /\ "IMMUTABLE" \in flags
    BY <1>3 DEF SetInodeFlags, InodeFlags, Goto
  <2>2. flags = First(t)
    BY <2>1 DEF DataInv, SoFar, FlagsSoFar
  <2>3. "IMMUTABLE" \in Wanted(t)
    BY <1>1, <2>1, <2>2 DEF First, Wanted, Modifiable, Separate, Settable, TypeOK
  <2> QED BY <1>3, <2>1, <2>3 DEF SealInv, Sealing, Looping
<1>4. WritesFail'
  BY <1>1, <1>2, <1>3 DEF Framed, SealInv, WritesFail
<1>5. ASSUME NEW u \in Threads, Sealing(u)', writable'
      PROVE  immutable'
  <2>1. pc'[u] \in Looping /\ pc'[u] \in Checked /\ writable
    BY <1>2, <1>5 DEF Sealing, Looping, Checked, Attr, Before
  <2>2. "IMMUTABLE" \in Wanted(u)
    BY <1>1, <1>5, <2>1 DEF Framed, Sealing, Wanted
  <2>3. CASE pc[u] \in Looping
    <3>1. immutable
      BY <2>1, <2>2, <2>3 DEF SealInv, Sealing
    <3>2. ~SetInodeFlags(t)
      <4>1. CASE u = t
        BY <1>1, <2>1, <4>1 DEF SetInodeFlags, Goto, TypeOK, Looping
      <4>2. CASE u # t
        BY <2>3, <4>2, OneAtATime DEF SetInodeFlags, Goto, Looping, Attr, Before
      <4> QED BY <4>1, <4>2
    <3> QED BY <1>1, <3>1, <3>2 DEF Framed
  <2>4. CASE pc[u] \notin Looping
    <3>1. u = t /\ Check(t) /\ ~MustDrain(t)
      BY <1>1, <1>5, <2>1, <2>4 DEF Framed
    <3>2. immutable
      BY <2>1, <2>2, <3>1 DEF MustDrain, SealInv
    <3> QED BY <3>1, <3>2 DEF Check, inode
  <2> QED BY <2>3, <2>4
<1> QED BY <1>2, <1>4, <1>5 DEF SealInv

LEMMA OutsideKeepsSealed ==
  ASSUME SealInv, FaultsWait, Outside \/ UNCHANGED vars
  PROVE  SealInv'
<1> USE DEF SealInv, WritesFail, Sealing, Wanted, inode, locals, io
<1>1. CASE StartDio \/ EndDio \/ Writeback \/ Commit \/ Abort
  BY <1>1 DEF StartDio, EndDio, Writeback, Commit, Abort
<1>2. CASE FaultWrite
  BY <1>2 DEF FaultWrite, FaultsWait
<1>3. CASE Evict
  BY <1>3 DEF Evict
<1>4. CASE Crash
  BY <1>4 DEF Crash
<1>5. CASE UNCHANGED vars
  BY <1>5 DEF vars
<1> QED BY <1>1, <1>2, <1>3, <1>4, <1>5 DEF Outside

(* Were write faults to wait for a call that is past its flush and before  *)
(* S_IMMUTABLE, as the invalidate lock would make them, no page of an      *)
(* immutable file could be written: that window is all that the run        *)
(* attr_mapped refutes.                                                    *)
THEOREM FlushIsEnough == Spec /\ [][FaultsWait]_vars => []WritesFail
<1>1. Init => SealInv
  BY DEF Init, SealInv, WritesFail, Sealing, Looping
<1>2. HoldsInv /\ DataInv /\ SealInv /\ [Next]_vars /\ [FaultsWait]_vars => SealInv'
  <2> SUFFICES ASSUME HoldsInv, DataInv, SealInv, [Next]_vars, [FaultsWait]_vars
               PROVE  SealInv'
    OBVIOUS
  <2>1. ASSUME NEW t \in Threads, CallStep(t) PROVE SealInv'
    BY <2>1, CallKeepsSealed
  <2>2. FaultsWait \/ UNCHANGED vars
    OBVIOUS
  <2>3. UNCHANGED vars => FaultsWait
    BY DEF FaultsWait, FaultWrite, vars, io
  <2> QED BY <2>1, <2>2, <2>3, OutsideKeepsSealed, NextCases
<1>3. SealInv => WritesFail
  BY DEF SealInv
<1> QED BY <1>1, <1>2, <1>3, DataAlways, PTL DEF Spec
=============================================================================
