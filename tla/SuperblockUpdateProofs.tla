------------------------ MODULE SuperblockUpdateProofs ------------------------
(***************************************************************************)
(* Proofs about SuperblockUpdate, for every set of threads, every number   *)
(* of groups and every list of backups.                                    *)
(***************************************************************************)
EXTENDS SuperblockUpdate, FiniteSetTheorems, TLAPS

-----------------------------------------------------------------------------
(* The inductive invariant                                                 *)

(* Updaters and resizers run their own code.                               *)
Roles ==
  /\ \A t \in Updaters : pc[t] \notin {"grow", "flush", "end"}
  /\ \A t \in Resizers : pc[t] \in {"idle", "grow", "flush", "end"}

(* What a call holds at each of its steps.                                 *)
Control ==
  \A t \in Threads :
    /\ pc[t] \in {"idle", "flag", "start", "out", "drop", "grow", "flush",
                  "end"} => ~handle[t]
    /\ pc[t] \in {"primary", "stopearly"} => handle[t]
    /\ t \in writers <=> t \in Updaters /\ pc[t] # "idle"
    /\ pc[t] = "stopearly" => pos[t] <= Len(Visits)
    /\ pc[t] \in {"idle", "flag", "start", "primary", "grow", "flush", "end"} =>
         pos[t] = 1 /\ i[t] = 0 /\ used[t] = 0
    /\ pc[t] \in {"idle", "flag", "start", "primary", "visit", "stopearly",
                  "grow", "flush", "end"} =>
         err[t] = "ok"

(* Credits are used by the primary and by backups that i counts.           *)
Credits ==
  \A t \in Threads :
    /\ ~handle[t] => used[t] = 0
    /\ pc[t] = "visit" /\ handle[t] => i[t] <= 1 /\ used[t] <= i[t] + 1
    /\ used[t] <= 3

Base == TypeOK /\ Roles /\ Control /\ FlagHeld /\ Credits

(* The two halves of the type invariant.                                   *)
StoreType ==
  /\ resizing \in BOOLEAN /\ aborted \in BOOLEAN
  /\ ngroups \in MinGroups .. MaxGroups
  /\ sb \in [Groups -> Superblocks]
  /\ bad \subseteq MayBeBad
  /\ txn \subseteq Groups /\ log \subseteq Groups
  /\ disk \in [sb : [Groups -> Superblocks], ngroups : MinGroups .. MaxGroups,
               bad : SUBSET MayBeBad]

LocalType ==
  /\ pc \in [Threads -> PCs] /\ writers \subseteq Threads
  /\ field \in [Threads -> {"label", "uuid"}] /\ arg \in [Threads -> Values]
  /\ limit \in [Threads -> 0 .. MaxGroups]
  /\ pos \in [Threads -> 1 .. Len(Visits) + 1]
  /\ i \in [Threads -> Nat] /\ used \in [Threads -> Nat]
  /\ handle \in [Threads -> BOOLEAN]
  /\ err \in [Threads -> {"ok", "err", "busy"}]

(* They make the whole.                                                    *)
LEMMA TypeParts == TypeOK <=> StoreType /\ LocalType
BY DEF TypeOK, StoreType, LocalType

(* Every thread is an updater or a resizer, not both.                      *)
LEMMA ThreadKinds ==
  /\ Threads = Updaters \cup Resizers
  /\ \A t \in Updaters : t \notin Resizers /\ t \in Threads
  /\ \A t \in Resizers : t \notin Updaters /\ t \in Threads
BY ThreadsAssumption DEF Threads

(* Positions in the list of backups.                                       *)
LEMMA VisitsFacts ==
  /\ Len(Visits) \in Nat /\ Len(Visits) >= 1
  /\ \A k \in 1 .. Len(Visits) : Visits[k] \in Nat
  /\ \A j, k \in 1 .. Len(Visits) : j < k => Visits[j] < Visits[k]
BY VisitsAssumption

(* The sizes, and the place of the primary superblock.                     *)
LEMMA GroupsFacts ==
  /\ MinGroups \in Nat /\ MaxGroups \in Nat /\ 0 < MinGroups
  /\ MinGroups <= MaxGroups
  /\ PrimaryGroup \in Groups /\ PrimaryGroup \in Nat /\ PrimaryGroup < MinGroups
  /\ PrimaryGroup \notin MayBeBad
  /\ MayBeBad \subseteq Groups
BY GroupsAssumption DEF Groups

(* The callbacks return a superblock for a superblock.                     *)
LEMMA FuncType ==
  ASSUME TypeOK, NEW t \in Threads, NEW g \in Groups
  PROVE  func(t, g) \in [Groups -> Superblocks]
<1>1. [sb[g] EXCEPT ![field[t]] = arg[t]] \in Superblocks
  BY DEF TypeOK, Superblocks
<1> QED BY <1>1 DEF func, TypeOK

(* The group a call visits exists.                                         *)
LEMMA VisitedExists ==
  ASSUME TypeOK, NEW t \in Threads, Visiting(t)
  PROVE  /\ grp(t) \in Groups
         /\ pos[t] \in 1 .. Len(Visits)
BY VisitsFacts, GroupsFacts DEF Visiting, Remains, grp, TypeOK, Groups

(* A visit that returned 1 is counted: the loop goes on to the next group, *)
(* or to the early end of the handle.                                      *)
LEMMA CountedStep ==
  ASSUME TypeOK, NEW t \in Threads, Counted(t), pc[t] = "visit"
  PROVE  /\ i'[t] = i[t] + 1
         /\ TwoDone(t) => pc'[t] = "stopearly" /\ pos'[t] = pos[t]
         /\ ~TwoDone(t) => pc'[t] = "visit" /\ pos'[t] = pos[t] + 1
         /\ \A u \in Threads \ {t} : pc'[u] = pc[u] /\ pos'[u] = pos[u] /\ i'[u] = i[u]
<1>1. i' = [i EXCEPT ![t] = @ + 1]
  BY DEF Counted
<1>2. CASE TwoDone(t)
  <2>1. pc' = [pc EXCEPT ![t] = "stopearly"] /\ pos' = pos
    BY <1>2 DEF Counted
  <2> QED BY <1>1, <1>2, <2>1 DEF TypeOK
<1>3. CASE ~TwoDone(t)
  <2>1. pos' = [pos EXCEPT ![t] = @ + 1] /\ pc' = pc
    BY <1>3 DEF Counted
  <2> QED BY <1>1, <1>3, <2>1 DEF TypeOK
<1> QED BY <1>2, <1>3

(* What a commit leaves on the disk is of the right type.                  *)
LEMMA CommittedType ==
  ASSUME TypeOK
  PROVE  Committed \in [sb : [Groups -> Superblocks],
                        ngroups : MinGroups .. MaxGroups,
                        bad : SUBSET MayBeBad]
BY DEF Committed, TypeOK

(* So is what a direct write leaves.                                       *)
LEMMA WrittenType ==
  ASSUME TypeOK, NEW g \in Groups, NEW copy \in Superblocks
  PROVE  Written(g, copy) \in [sb : [Groups -> Superblocks],
                               ngroups : MinGroups .. MaxGroups,
                               bad : SUBSET MayBeBad]
BY DEF Written, TypeOK

(* The assumptions make the initial state one of the right type.           *)
LEMMA InitBase == Init => Base
<1> SUFFICES ASSUME Init PROVE Base
  OBVIOUS
<1>1. NoArg \in Values
  BY KindsAssumption DEF NoArg
<1>2. TypeOK
  <2>1. sb \in [Groups -> Superblocks]
    BY DEF Init, Superblocks
  <2>2. StoreType
    <3>1. disk \in [sb : [Groups -> Superblocks], ngroups : MinGroups .. MaxGroups,
                   bad : SUBSET MayBeBad]
      BY <2>1, GroupsFacts DEF Init
    <3> QED BY <2>1, <3>1, GroupsFacts DEF Init, StoreType
  <2>3. LocalType
    BY <1>1, GroupsFacts, VisitsFacts DEF Init, LocalType, PCs
  <2> QED BY <2>2, <2>3, TypeParts
<1>3. Roles /\ Control
  BY ThreadKinds, VisitsFacts DEF Init, Roles, Control
<1>4. FlagHeld /\ Credits
  BY DEF Init, FlagHeld, Inside, Credits
<1> QED BY <1>2, <1>3, <1>4 DEF Base

-----------------------------------------------------------------------------
(* Every step preserves it                                                 *)

(* A step keeps every variable in its type.                                *)
LEMMA StoreTypeStep ==
  ASSUME TypeOK, [Next]_vars
  PROVE  StoreType'
<1>1. ASSUME NEW t \in Updaters, Call(t) PROVE StoreType'
  BY <1>1, TypeParts, ThreadKinds
  DEF Call, Goto, StoreType, store, locals
<1>2. ASSUME NEW t \in Updaters, TakeFlag(t) PROVE StoreType'
  BY <1>2, TypeParts, ThreadKinds
  DEF TakeFlag, MayTake, Goto, StoreType, store, locals
<1>3. ASSUME NEW t \in Updaters, Busy(t) PROVE StoreType'
  BY <1>3, TypeParts, ThreadKinds
  DEF Busy, MayTake, Goto, SetErr, StoreType, store, locals
<1>4. ASSUME NEW t \in Updaters, StartHandle(t) PROVE StoreType'
  BY <1>4, TypeParts, ThreadKinds
  DEF StartHandle, Goto, StoreType, store, locals
<1>5. ASSUME NEW t \in Updaters, StartFails(t) PROVE StoreType'
  BY <1>5, TypeParts, ThreadKinds
  DEF StartFails, Goto, SetErr, StoreType, store, locals
<1>6. ASSUME NEW t \in Updaters, UpdatePrimary(t) PROVE StoreType'
  <2>2. func(t, PrimaryGroup) \in [Groups -> Superblocks]
    BY FuncType, ThreadKinds, VisitsFacts, GroupsFacts
  <2> QED
    BY <1>6, <2>2, TypeParts, ThreadKinds, VisitsFacts, GroupsFacts
    DEF UpdatePrimary, StoreType, store, locals
<1>7. ASSUME NEW t \in Updaters, PrimaryFails(t) PROVE StoreType'
  <2>2. func(t, PrimaryGroup) \in [Groups -> Superblocks]
    BY FuncType, ThreadKinds, VisitsFacts, GroupsFacts
  <2> QED
    BY <1>7, <2>2, TypeParts, ThreadKinds, VisitsFacts, GroupsFacts
    DEF PrimaryFails, StoreType, store, locals
<1>8. ASSUME NEW t \in Updaters, SkipGroup(t) PROVE StoreType'
  BY <1>8, TypeParts, ThreadKinds
  DEF SkipGroup, Visiting, Remains, NextGroup, StoreType, store, locals
<1>9. ASSUME NEW t \in Updaters, BadChecksum(t) PROVE StoreType'
  BY <1>9, TypeParts, ThreadKinds
  DEF BadChecksum, IsBackup, Visiting, Remains, Counted, TwoDone, StoreType,
      store, locals
<1>10. ASSUME NEW t \in Updaters, UpdateJournalled(t) PROVE StoreType'
  <2>1. grp(t) \in Groups
    BY <1>10, ThreadKinds, VisitedExists DEF UpdateJournalled, Intact,
        IsBackup
  <2>2. func(t, grp(t)) \in [Groups -> Superblocks]
    BY <2>1, FuncType, ThreadKinds, VisitsFacts, GroupsFacts
  <2> QED
    BY <1>10, <2>1, <2>2, TypeParts, ThreadKinds, VisitsFacts, GroupsFacts
    DEF UpdateJournalled, StoreType, store, locals
<1>11. ASSUME NEW t \in Updaters, UpdateDirect(t) PROVE StoreType'
  <2>1. grp(t) \in Groups
    BY <1>11, ThreadKinds, VisitedExists DEF UpdateDirect, Intact, IsBackup
  <2>2. func(t, grp(t)) \in [Groups -> Superblocks]
    BY <2>1, FuncType, ThreadKinds, VisitsFacts, GroupsFacts
  <2>3. sb'[grp(t)] \in Superblocks
    BY <1>11, <2>1, <2>2 DEF UpdateDirect
  <2>4. disk' = Written(grp(t), sb'[grp(t)])
    BY <1>11 DEF UpdateDirect
  <2> HIDE DEF Written
  <2> QED
    BY <1>11, <2>1, <2>2, <2>3, <2>4, WrittenType, TypeParts
    DEF UpdateDirect, StoreType, store, locals
<1>12. ASSUME NEW t \in Updaters, BackupFails(t) PROVE StoreType'
  <2>1. grp(t) \in Groups
    BY <1>12, ThreadKinds, VisitedExists DEF BackupFails, Intact, IsBackup
  <2>2. func(t, grp(t)) \in [Groups -> Superblocks]
    BY <2>1, FuncType, ThreadKinds, VisitsFacts, GroupsFacts
  <2> QED
    BY <1>12, <2>1, <2>2, TypeParts, ThreadKinds, VisitsFacts, GroupsFacts
    DEF BackupFails, StoreType, store, locals
<1>13. ASSUME NEW t \in Updaters, LoopEnds(t) PROVE StoreType'
  BY <1>13, TypeParts, ThreadKinds
  DEF LoopEnds, Goto, Remains, StoreType, store, locals
<1>14. ASSUME NEW t \in Updaters, StopEarly(t) PROVE StoreType'
  BY <1>14, TypeParts, ThreadKinds
  DEF StopEarly, Goto, SetErr, StoreType, store, locals
<1>15. ASSUME NEW t \in Updaters, CloseJournal(t) PROVE StoreType'
  BY <1>15, TypeParts, ThreadKinds
  DEF CloseJournal, Goto, Stopped, StoreType, store, locals
<1>16. ASSUME NEW t \in Updaters, Out(t) PROVE StoreType'
  BY <1>16, TypeParts, ThreadKinds
  DEF Out, ClearFlag, Goto, StoreType, store, locals
<1>17. ASSUME NEW t \in Updaters, DropWrite(t) PROVE StoreType'
  BY <1>17, TypeParts, ThreadKinds
  DEF DropWrite, Goto, SetErr, StoreType, store, locals
<1>18. ASSUME NEW t \in Resizers, BeginResize(t) PROVE StoreType'
  BY <1>18, TypeParts, ThreadKinds
  DEF BeginResize, MayTake, Goto, StoreType, store, locals
<1>19. ASSUME NEW t \in Resizers, Grow(t) PROVE StoreType'
  <2>1. ngroups' \in MinGroups .. MaxGroups
    BY <1>19, TypeParts, ThreadKinds, VisitsFacts, GroupsFacts DEF Grow,
        StoreType
  <2>2. sb' \in [Groups -> Superblocks]
    BY <1>19, TypeParts, ThreadKinds, VisitsFacts, GroupsFacts DEF Grow,
        StoreType
  <2>3. bad' \subseteq MayBeBad /\ txn' \subseteq Groups
    BY <1>19, TypeParts DEF Grow, StoreType
  <2> QED BY <1>19, <2>1, <2>2, <2>3, TypeParts DEF Grow, StoreType, store,
      locals
<1>20. ASSUME NEW t \in Resizers, GrowFails(t) PROVE StoreType'
  BY <1>20, TypeParts, ThreadKinds
  DEF GrowFails, Goto, StoreType, store, locals
<1>21. ASSUME NEW t \in Resizers, Flush(t) PROVE StoreType'
  BY <1>21, CommittedType, TypeParts
  DEF Flush, Goto, Flushed, StoreType, store, locals
<1>22. ASSUME NEW t \in Resizers, EndResize(t) PROVE StoreType'
  BY <1>22, TypeParts, ThreadKinds
  DEF EndResize, Goto, StoreType, store, locals
<1>23. ASSUME Commit PROVE StoreType'
  BY <1>23, CommittedType, TypeParts
  DEF Commit, CommitOnly, StoreType, store, locals
<1>24. ASSUME Checkpoint PROVE StoreType'
  BY <1>24, TypeParts, ThreadKinds
  DEF Checkpoint, StoreType, store, locals
<1>25. ASSUME Abort PROVE StoreType'
  BY <1>25, TypeParts, ThreadKinds
  DEF Abort, StoreType, store, locals
<1>26. ASSUME Crash PROVE StoreType'
  BY <1>26, TypeParts, ThreadKinds
  DEF Crash, StoreType, store, locals
<1>27. ASSUME UNCHANGED vars PROVE StoreType'
  BY <1>27, TypeParts, ThreadKinds DEF vars, store, locals, StoreType
<1> QED
  BY <1>1, <1>2, <1>3, <1>4, <1>5, <1>6, <1>7, <1>8, <1>9, <1>10, <1>11,
      <1>12, <1>13, <1>14, <1>15, <1>16, <1>17, <1>18, <1>19, <1>20, <1>21,
      <1>22, <1>23, <1>24, <1>25, <1>26, <1>27 DEF Next, Updates, Visit, Grows

(* The variables of the threads keep their types.                          *)
LEMMA LocalTypeStep ==
  ASSUME TypeOK, Control, [Next]_vars
  PROVE  LocalType'
<1>1. ASSUME NEW t \in Updaters, Call(t) PROVE LocalType'
  <2>1. PICK f \in Fields, v \in Values :
          /\ field' = [field EXCEPT ![t] = f]
          /\ arg' = [arg EXCEPT ![t] = v]
    BY <1>1 DEF Call
  <2>2. /\ field' \in [Threads -> {"label", "uuid"}]
        /\ arg' \in [Threads -> Values]
    BY <2>1, KindsAssumption, TypeParts DEF LocalType
  <2>3. /\ pc' \in [Threads -> PCs]
        /\ writers' \subseteq Threads
    BY <1>1, TypeParts, ThreadKinds DEF Call, Goto, LocalType, PCs
  <2> QED BY <1>1, <2>2, <2>3, TypeParts DEF Call, LocalType, store
<1>2. ASSUME NEW t \in Updaters, TakeFlag(t) PROVE LocalType'
  BY <1>2, TypeParts, ThreadKinds, VisitsFacts, GroupsFacts
  DEF TakeFlag, MayTake, Goto, LocalType, PCs, store, locals
<1>3. ASSUME NEW t \in Updaters, Busy(t) PROVE LocalType'
  BY <1>3, TypeParts, ThreadKinds, VisitsFacts, GroupsFacts
  DEF Busy, MayTake, Goto, SetErr, LocalType, PCs, store, locals
<1>4. ASSUME NEW t \in Updaters, StartHandle(t) PROVE LocalType'
  BY <1>4, TypeParts, ThreadKinds, VisitsFacts, GroupsFacts
  DEF StartHandle, Goto, LocalType, PCs, store, locals
<1>5. ASSUME NEW t \in Updaters, StartFails(t) PROVE LocalType'
  BY <1>5, TypeParts, ThreadKinds, VisitsFacts, GroupsFacts
  DEF StartFails, Goto, SetErr, LocalType, PCs, store, locals
<1>6. ASSUME NEW t \in Updaters, UpdatePrimary(t) PROVE LocalType'
  <2>1. used' \in [Threads -> Nat]
    <3>1. used' = used \/ used' = [used EXCEPT ![t] = used[t] + 1]
      BY <1>6 DEF UpdatePrimary
    <3>2. used \in [Threads -> Nat] /\ t \in Threads
      BY TypeParts, ThreadKinds DEF LocalType
    <3> QED BY <3>1, <3>2
  <2>2. limit' \in [Threads -> 0 .. MaxGroups]
    BY <1>6, TypeParts, ThreadKinds, GroupsFacts
    DEF UpdatePrimary, GroupsCount, StoreType, LocalType
  <2> QED BY <1>6, <2>1, <2>2, TypeParts, ThreadKinds DEF UpdatePrimary, Goto,
      GroupsCount, LocalType, PCs, store, locals
<1>7. ASSUME NEW t \in Updaters, PrimaryFails(t) PROVE LocalType'
  <2>1. used' \in [Threads -> Nat]
    <3>1. used' = used \/ used' = [used EXCEPT ![t] = used[t] + 1]
      BY <1>7 DEF PrimaryFails
    <3>2. used \in [Threads -> Nat] /\ t \in Threads
      BY TypeParts, ThreadKinds DEF LocalType
    <3> QED BY <3>1, <3>2
  <2>2. limit' \in [Threads -> 0 .. MaxGroups]
    BY <1>7, TypeParts, ThreadKinds, GroupsFacts
    DEF PrimaryFails, GroupsCount, StoreType, LocalType
  <2> QED BY <1>7, <2>1, <2>2, TypeParts, ThreadKinds DEF PrimaryFails, Goto,
      SetErr, LocalType, PCs, store, locals
<1>8. ASSUME NEW t \in Updaters, SkipGroup(t) PROVE LocalType'
  <2>1. pos[t] \in 1 .. Len(Visits)
    BY <1>8, ThreadKinds, VisitedExists DEF SkipGroup, Intact, IsBackup
  <2>2. /\ pc' \in [Threads -> PCs]
        /\ pos' \in [Threads -> 1 .. Len(Visits) + 1]
        /\ i' \in [Threads -> Nat]
    BY <1>8, <2>1, TypeParts, ThreadKinds, VisitsFacts
    DEF SkipGroup, NextGroup, LocalType, PCs
  <2> QED BY <1>8, <2>2, TypeParts, ThreadKinds DEF SkipGroup, LocalType, PCs,
      store, locals
<1>9. ASSUME NEW t \in Updaters, BadChecksum(t) PROVE LocalType'
  <2>1. pos[t] \in 1 .. Len(Visits)
    BY <1>9, ThreadKinds, VisitedExists DEF BadChecksum, Intact, IsBackup
  <2>2. Counted(t) /\ writers' = writers
    BY <1>9 DEF BadChecksum
  <2>3. i' \in [Threads -> Nat]
    BY <2>2, TypeParts, ThreadKinds DEF Counted, LocalType
  <2>5. pc' \in [Threads -> PCs]
    <3>1. pc' = pc \/ pc' = [pc EXCEPT ![t] = "stopearly"]
      BY <2>2 DEF Counted
    <3> QED BY <3>1, TypeParts, ThreadKinds DEF LocalType, PCs
  <2>4. pos' \in [Threads -> 1 .. Len(Visits) + 1]
    BY <2>1, <2>2, TypeParts, ThreadKinds, VisitsFacts DEF Counted, LocalType
  <2> QED
    BY <1>9, <2>2, <2>3, <2>4, <2>5, TypeParts, ThreadKinds
    DEF BadChecksum, LocalType
<1>10. ASSUME NEW t \in Updaters, UpdateJournalled(t) PROVE LocalType'
  <2>1. pos[t] \in 1 .. Len(Visits)
    BY <1>10, ThreadKinds, VisitedExists DEF UpdateJournalled, Intact,
        IsBackup
  <2>2. Counted(t) /\ writers' = writers
    BY <1>10 DEF UpdateJournalled
  <2>3. i' \in [Threads -> Nat]
    BY <2>2, TypeParts, ThreadKinds DEF Counted, LocalType
  <2>5. pc' \in [Threads -> PCs]
    <3>1. pc' = pc \/ pc' = [pc EXCEPT ![t] = "stopearly"]
      BY <2>2 DEF Counted
    <3> QED BY <3>1, TypeParts, ThreadKinds DEF LocalType, PCs
  <2>4. pos' \in [Threads -> 1 .. Len(Visits) + 1]
    BY <2>1, <2>2, TypeParts, ThreadKinds, VisitsFacts DEF Counted, LocalType
  <2> QED
    BY <1>10, <2>2, <2>3, <2>4, <2>5, TypeParts, ThreadKinds
    DEF UpdateJournalled, LocalType
<1>11. ASSUME NEW t \in Updaters, UpdateDirect(t) PROVE LocalType'
  <2>1. pos[t] \in 1 .. Len(Visits)
    BY <1>11, ThreadKinds, VisitedExists DEF UpdateDirect, Intact, IsBackup
  <2>2. Counted(t) /\ writers' = writers
    BY <1>11 DEF UpdateDirect
  <2>3. i' \in [Threads -> Nat]
    BY <2>2, TypeParts, ThreadKinds DEF Counted, LocalType
  <2>5. pc' \in [Threads -> PCs]
    <3>1. pc' = pc \/ pc' = [pc EXCEPT ![t] = "stopearly"]
      BY <2>2 DEF Counted
    <3> QED BY <3>1, TypeParts, ThreadKinds DEF LocalType, PCs
  <2>4. pos' \in [Threads -> 1 .. Len(Visits) + 1]
    BY <2>1, <2>2, TypeParts, ThreadKinds, VisitsFacts DEF Counted, LocalType
  <2> QED
    BY <1>11, <2>2, <2>3, <2>4, <2>5, TypeParts, ThreadKinds
    DEF UpdateDirect, LocalType
<1>12. ASSUME NEW t \in Updaters, BackupFails(t) PROVE LocalType'
  BY <1>12, TypeParts, ThreadKinds, VisitsFacts, GroupsFacts
  DEF BackupFails, IsBackup, Visiting, Remains, Failed, Goto, SetErr,
      LocalType, PCs, store, locals
<1>13. ASSUME NEW t \in Updaters, LoopEnds(t) PROVE LocalType'
  BY <1>13, TypeParts, ThreadKinds, VisitsFacts, GroupsFacts
  DEF LoopEnds, Goto, Remains, LocalType, PCs, store, locals
<1>14. ASSUME NEW t \in Updaters, StopEarly(t) PROVE LocalType'
  <2>1. CASE pos' = pos
    BY <1>14, <2>1, TypeParts, ThreadKinds DEF StopEarly, Goto, SetErr,
        LocalType, PCs, store, locals
  <2>2. CASE pos' = [pos EXCEPT ![t] = pos[t] + 1]
    <3>1. pc[t] = "stopearly" /\ pos[t] \in 1 .. Len(Visits)
      BY <1>14, TypeParts, ThreadKinds, VisitsFacts
      DEF StopEarly, Goto, Control, LocalType
    <3>2. pos' \in [Threads -> 1 .. Len(Visits) + 1]
      BY <2>2, <3>1, TypeParts, ThreadKinds, VisitsFacts DEF LocalType
    <3>3. /\ pc' \in [Threads -> PCs] /\ used' \in [Threads -> Nat]
          /\ handle' \in [Threads -> BOOLEAN]
          /\ err' \in [Threads -> {"ok", "err", "busy"}]
      BY <1>14, TypeParts, ThreadKinds
      DEF StopEarly, Goto, SetErr, LocalType, PCs
    <3> QED BY <1>14, <3>2, <3>3, TypeParts
        DEF StopEarly, Goto, SetErr, LocalType, PCs, store, locals
  <2> QED BY <1>14, <2>1, <2>2 DEF StopEarly
<1>15. ASSUME NEW t \in Updaters, CloseJournal(t) PROVE LocalType'
  BY <1>15, TypeParts, ThreadKinds, VisitsFacts, GroupsFacts
  DEF CloseJournal, Goto, Stopped, LocalType, PCs, store, locals
<1>16. ASSUME NEW t \in Updaters, Out(t) PROVE LocalType'
  BY <1>16, TypeParts, ThreadKinds, VisitsFacts, GroupsFacts
  DEF Out, ClearFlag, Goto, LocalType, PCs, store, locals
<1>17. ASSUME NEW t \in Updaters, DropWrite(t) PROVE LocalType'
  <2>1. NoArg \in Values
    BY KindsAssumption DEF NoArg
  <2> QED
    BY <1>17, <2>1, TypeParts, ThreadKinds, VisitsFacts, GroupsFacts
    DEF DropWrite, Goto, SetErr, LocalType, PCs, store, locals
<1>18. ASSUME NEW t \in Resizers, BeginResize(t) PROVE LocalType'
  BY <1>18, TypeParts, ThreadKinds, VisitsFacts, GroupsFacts
  DEF BeginResize, MayTake, Goto, LocalType, PCs, store, locals
<1>19. ASSUME NEW t \in Resizers, Grow(t) PROVE LocalType'
  BY <1>19, TypeParts, ThreadKinds, VisitsFacts, GroupsFacts
  DEF Grow, Goto, LocalType, PCs, store, locals
<1>20. ASSUME NEW t \in Resizers, GrowFails(t) PROVE LocalType'
  BY <1>20, TypeParts, ThreadKinds, VisitsFacts, GroupsFacts
  DEF GrowFails, Goto, LocalType, PCs, store, locals
<1>21. ASSUME NEW t \in Resizers, Flush(t) PROVE LocalType'
  BY <1>21, TypeParts, ThreadKinds, VisitsFacts, GroupsFacts
  DEF Flush, Goto, Flushed, LocalType, PCs, store, locals
<1>22. ASSUME NEW t \in Resizers, EndResize(t) PROVE LocalType'
  BY <1>22, TypeParts, ThreadKinds, VisitsFacts, GroupsFacts
  DEF EndResize, Goto, LocalType, PCs, store, locals
<1>23. ASSUME Commit PROVE LocalType'
  BY <1>23, TypeParts, ThreadKinds, VisitsFacts, GroupsFacts
  DEF Commit, CommitOnly, LocalType, PCs, store, locals
<1>24. ASSUME Checkpoint PROVE LocalType'
  BY <1>24, TypeParts, ThreadKinds, VisitsFacts, GroupsFacts
  DEF Checkpoint, LocalType, PCs, store, locals
<1>25. ASSUME Abort PROVE LocalType'
  BY <1>25, TypeParts, ThreadKinds, VisitsFacts, GroupsFacts
  DEF Abort, LocalType, PCs, store, locals
<1>26. ASSUME Crash PROVE LocalType'
  <2>1. NoArg \in Values
    BY KindsAssumption DEF NoArg
  <2> QED
    BY <1>26, <2>1, TypeParts, ThreadKinds, VisitsFacts, GroupsFacts
    DEF Crash, LocalType, PCs, store, locals
<1>27. ASSUME UNCHANGED vars PROVE LocalType'
  BY <1>27, TypeParts, ThreadKinds, VisitsFacts, GroupsFacts DEF vars, store,
      locals, LocalType
<1> QED
  BY <1>1, <1>2, <1>3, <1>4, <1>5, <1>6, <1>7, <1>8, <1>9, <1>10, <1>11,
      <1>12, <1>13, <1>14, <1>15, <1>16, <1>17, <1>18, <1>19, <1>20, <1>21,
      <1>22, <1>23, <1>24, <1>25, <1>26, <1>27 DEF Next, Updates, Visit, Grows

(* Together: the type invariant is preserved.                              *)
LEMMA TypeStep ==
  ASSUME TypeOK, Control, [Next]_vars
  PROVE  TypeOK'
<1>1. StoreType' /\ LocalType'
  BY StoreTypeStep, LocalTypeStep
<1> QED BY <1>1 DEF TypeOK, StoreType, LocalType

(* No step makes a thread run the other kind's code.                       *)
LEMMA RolesStep ==
  ASSUME TypeOK, Roles, [Next]_vars
  PROVE  Roles'
<1>1. ASSUME NEW t \in Updaters, Call(t) PROVE Roles'
  BY <1>1, ThreadKinds
  DEF Call, Goto, TypeOK, Roles
<1>2. ASSUME NEW t \in Updaters, TakeFlag(t) PROVE Roles'
  BY <1>2, ThreadKinds
  DEF TakeFlag, MayTake, Goto, TypeOK, Roles
<1>3. ASSUME NEW t \in Updaters, Busy(t) PROVE Roles'
  BY <1>3, ThreadKinds
  DEF Busy, MayTake, Goto, SetErr, TypeOK, Roles
<1>4. ASSUME NEW t \in Updaters, StartHandle(t) PROVE Roles'
  BY <1>4, ThreadKinds
  DEF StartHandle, Goto, TypeOK, Roles
<1>5. ASSUME NEW t \in Updaters, StartFails(t) PROVE Roles'
  BY <1>5, ThreadKinds
  DEF StartFails, Goto, SetErr, TypeOK, Roles
<1>6. ASSUME NEW t \in Updaters, UpdatePrimary(t) PROVE Roles'
  BY <1>6, ThreadKinds
  DEF UpdatePrimary, Goto, GroupsCount, TypeOK, Roles
<1>7. ASSUME NEW t \in Updaters, PrimaryFails(t) PROVE Roles'
  BY <1>7, ThreadKinds
  DEF PrimaryFails, Goto, SetErr, TypeOK, Roles
<1>8. ASSUME NEW t \in Updaters, SkipGroup(t) PROVE Roles'
  BY <1>8, ThreadKinds
  DEF SkipGroup, Visiting, Remains, NextGroup, TypeOK, Roles
<1>9. ASSUME NEW t \in Updaters, BadChecksum(t) PROVE Roles'
  <2>1. t \in Threads /\ pc[t] = "visit" /\ Counted(t)
    BY <1>9, ThreadKinds DEF BadChecksum, IsBackup, Visiting
  <2>2. /\ pc'[t] \in {"visit", "stopearly"}
        /\ \A u \in Threads \ {t} : pc'[u] = pc[u]
    BY <2>1, CountedStep
  <2> QED BY <2>2, ThreadKinds DEF Roles
<1>10. ASSUME NEW t \in Updaters, UpdateJournalled(t) PROVE Roles'
  <2>1. t \in Threads /\ pc[t] = "visit" /\ Counted(t)
    BY <1>10, ThreadKinds DEF UpdateJournalled, Intact, IsBackup, Visiting
  <2>2. /\ pc'[t] \in {"visit", "stopearly"}
        /\ \A u \in Threads \ {t} : pc'[u] = pc[u]
    BY <2>1, CountedStep
  <2> QED BY <2>2, ThreadKinds DEF Roles
<1>11. ASSUME NEW t \in Updaters, UpdateDirect(t) PROVE Roles'
  <2>1. t \in Threads /\ pc[t] = "visit" /\ Counted(t)
    BY <1>11, ThreadKinds DEF UpdateDirect, Intact, IsBackup, Visiting
  <2>2. /\ pc'[t] \in {"visit", "stopearly"}
        /\ \A u \in Threads \ {t} : pc'[u] = pc[u]
    BY <2>1, CountedStep
  <2> QED BY <2>2, ThreadKinds DEF Roles
<1>12. ASSUME NEW t \in Updaters, BackupFails(t) PROVE Roles'
  BY <1>12, ThreadKinds
  DEF BackupFails, IsBackup, Visiting, Remains, Failed, Goto, SetErr, TypeOK,
      Roles
<1>13. ASSUME NEW t \in Updaters, LoopEnds(t) PROVE Roles'
  BY <1>13, ThreadKinds
  DEF LoopEnds, Goto, Remains, TypeOK, Roles
<1>14. ASSUME NEW t \in Updaters, StopEarly(t) PROVE Roles'
  <2>1. /\ pc'[t] \in {"visit", "out"}
        /\ \A u \in Threads \ {t} : pc'[u] = pc[u]
    BY <1>14, ThreadKinds DEF StopEarly, Goto, TypeOK
  <2> QED BY <2>1, ThreadKinds DEF Roles
<1>15. ASSUME NEW t \in Updaters, CloseJournal(t) PROVE Roles'
  BY <1>15, ThreadKinds
  DEF CloseJournal, Goto, Stopped, TypeOK, Roles
<1>16. ASSUME NEW t \in Updaters, Out(t) PROVE Roles'
  BY <1>16, ThreadKinds
  DEF Out, ClearFlag, Goto, TypeOK, Roles
<1>17. ASSUME NEW t \in Updaters, DropWrite(t) PROVE Roles'
  BY <1>17, ThreadKinds
  DEF DropWrite, Goto, SetErr, TypeOK, Roles
<1>18. ASSUME NEW t \in Resizers, BeginResize(t) PROVE Roles'
  BY <1>18, ThreadKinds
  DEF BeginResize, MayTake, Goto, TypeOK, Roles
<1>19. ASSUME NEW t \in Resizers, Grow(t) PROVE Roles'
  BY <1>19, ThreadKinds
  DEF Grow, Goto, TypeOK, Roles
<1>20. ASSUME NEW t \in Resizers, GrowFails(t) PROVE Roles'
  BY <1>20, ThreadKinds
  DEF GrowFails, Goto, TypeOK, Roles
<1>21. ASSUME NEW t \in Resizers, Flush(t) PROVE Roles'
  BY <1>21, ThreadKinds
  DEF Flush, Goto, Flushed, TypeOK, Roles
<1>22. ASSUME NEW t \in Resizers, EndResize(t) PROVE Roles'
  BY <1>22, ThreadKinds
  DEF EndResize, Goto, TypeOK, Roles
<1>23. ASSUME Commit PROVE Roles'
  BY <1>23, ThreadKinds
  DEF Commit, CommitOnly, TypeOK, Roles
<1>24. ASSUME Checkpoint PROVE Roles'
  BY <1>24, ThreadKinds
  DEF Checkpoint, TypeOK, Roles
<1>25. ASSUME Abort PROVE Roles'
  BY <1>25, ThreadKinds
  DEF Abort, TypeOK, Roles
<1>26. ASSUME Crash PROVE Roles'
  BY <1>26, ThreadKinds
  DEF Crash, TypeOK, Roles
<1>27. ASSUME UNCHANGED vars PROVE Roles'
  BY <1>27, ThreadKinds DEF vars, store, locals, TypeOK, Roles
<1> QED
  BY <1>1, <1>2, <1>3, <1>4, <1>5, <1>6, <1>7, <1>8, <1>9, <1>10, <1>11,
      <1>12, <1>13, <1>14, <1>15, <1>16, <1>17, <1>18, <1>19, <1>20, <1>21,
      <1>22, <1>23, <1>24, <1>25, <1>26, <1>27 DEF Next, Updates, Visit, Grows

(* A call holds at each step what it should.                               *)
LEMMA ControlStep ==
  ASSUME TypeOK, Roles, Control, Credits, [Next]_vars
  PROVE  Control'
<1>1. ASSUME NEW t \in Updaters, Call(t) PROVE Control'
  <2>1. /\ pc[t] = "idle" /\ pc' = [pc EXCEPT ![t] = "flag"]
        /\ writers' = writers \cup {t}
        /\ UNCHANGED <<pos, i, handle, used, err>>
    BY <1>1 DEF Call, Goto
  <2> QED BY <2>1, ThreadKinds DEF TypeOK, Control, Roles
<1>2. ASSUME NEW t \in Updaters, TakeFlag(t) PROVE Control'
  BY <1>2, ThreadKinds, VisitsFacts
  DEF TakeFlag, MayTake, Goto, TypeOK, Roles, Control, store, locals, Credits
<1>3. ASSUME NEW t \in Updaters, Busy(t) PROVE Control'
  BY <1>3, ThreadKinds, VisitsFacts
  DEF Busy, MayTake, Goto, SetErr, TypeOK, Roles, Control, store, locals,
      Credits
<1>4. ASSUME NEW t \in Updaters, StartHandle(t) PROVE Control'
  BY <1>4, ThreadKinds, VisitsFacts
  DEF StartHandle, Goto, TypeOK, Roles, Control, store, locals, Credits
<1>5. ASSUME NEW t \in Updaters, StartFails(t) PROVE Control'
  BY <1>5, ThreadKinds, VisitsFacts
  DEF StartFails, Goto, SetErr, TypeOK, Roles, Control, store, locals, Credits
<1>6. ASSUME NEW t \in Updaters, UpdatePrimary(t) PROVE Control'
  BY <1>6, ThreadKinds, VisitsFacts
  DEF UpdatePrimary, Goto, GroupsCount, TypeOK, Roles, Control, store, locals,
      Credits
<1>7. ASSUME NEW t \in Updaters, PrimaryFails(t) PROVE Control'
  BY <1>7, ThreadKinds, VisitsFacts
  DEF PrimaryFails, Goto, SetErr, TypeOK, Roles, Control, store, locals,
      Credits
<1>8. ASSUME NEW t \in Updaters, SkipGroup(t) PROVE Control'
  BY <1>8, ThreadKinds, VisitsFacts
  DEF SkipGroup, Visiting, Remains, NextGroup, TypeOK, Roles, Control, store,
      locals, Credits
<1>9. ASSUME NEW t \in Updaters, BadChecksum(t) PROVE Control'
  <2>1. t \in Threads /\ pc[t] = "visit" /\ Counted(t) /\ pos[t] <= Len(Visits)
    BY <1>9, ThreadKinds DEF BadChecksum, IsBackup, Visiting, Remains
  <2>2. UNCHANGED <<writers, handle, err, used>>
    BY <1>9 DEF BadChecksum
  <2>3. /\ i'[t] = i[t] + 1
        /\ TwoDone(t) => pc'[t] = "stopearly" /\ pos'[t] = pos[t]
        /\ ~TwoDone(t) => pc'[t] = "visit" /\ pos'[t] = pos[t] + 1
        /\ \A u \in Threads \ {t} : pc'[u] = pc[u] /\ pos'[u] = pos[u] /\ i'[u] = i[u]
    BY <2>1, CountedStep
  <2>4. /\ \A u \in Threads : used[u] \in Nat /\ i[u] \in Nat /\ handle[u] \in BOOLEAN
        /\ used \in [Threads -> Nat]
    BY DEF TypeOK
  <2>5. /\ pc'[t] \in {"visit", "stopearly"}
        /\ pc'[t] = "stopearly" => handle'[t] /\ pos'[t] <= Len(Visits)
    BY <2>1, <2>2, <2>3 DEF TwoDone
  <2>6. /\ err'[t] = "ok" /\ (t \in writers' <=> t \in Updaters)
        /\ \A u \in Threads \ {t} : used'[u] = used[u]
    BY <2>1, <2>2, <2>4 DEF Control
  <2>7. /\ \A u \in Threads \ {t} : pc'[u] = pc[u] /\ pos'[u] = pos[u] /\ i'[u] = i[u]
        /\ UNCHANGED <<writers, handle, err>>
    BY <2>2, <2>3
  <2> QED BY <2>5, <2>6, <2>7 DEF Control
<1>10. ASSUME NEW t \in Updaters, UpdateJournalled(t) PROVE Control'
  <2>1. t \in Threads /\ pc[t] = "visit" /\ Counted(t) /\ pos[t] <= Len(Visits) /\ handle[t]
    BY <1>10, ThreadKinds DEF UpdateJournalled, Intact, IsBackup, Visiting, Remains
  <2>2. UNCHANGED <<writers, handle, err>> /\ used' = [used EXCEPT ![t] = @ + 1]
    BY <1>10 DEF UpdateJournalled
  <2>3. /\ i'[t] = i[t] + 1
        /\ TwoDone(t) => pc'[t] = "stopearly" /\ pos'[t] = pos[t]
        /\ ~TwoDone(t) => pc'[t] = "visit" /\ pos'[t] = pos[t] + 1
        /\ \A u \in Threads \ {t} : pc'[u] = pc[u] /\ pos'[u] = pos[u] /\ i'[u] = i[u]
    BY <2>1, CountedStep
  <2>4. /\ \A u \in Threads : used[u] \in Nat /\ i[u] \in Nat /\ handle[u] \in BOOLEAN
        /\ used \in [Threads -> Nat]
    BY DEF TypeOK
  <2>5. /\ pc'[t] \in {"visit", "stopearly"}
        /\ pc'[t] = "stopearly" => handle'[t] /\ pos'[t] <= Len(Visits)
    BY <2>1, <2>2, <2>3 DEF TwoDone
  <2>6. /\ err'[t] = "ok" /\ (t \in writers' <=> t \in Updaters)
        /\ \A u \in Threads \ {t} : used'[u] = used[u]
    BY <2>1, <2>2, <2>4 DEF Control
  <2>7. /\ \A u \in Threads \ {t} : pc'[u] = pc[u] /\ pos'[u] = pos[u] /\ i'[u] = i[u]
        /\ UNCHANGED <<writers, handle, err>>
    BY <2>2, <2>3
  <2> QED BY <2>5, <2>6, <2>7 DEF Control
<1>11. ASSUME NEW t \in Updaters, UpdateDirect(t) PROVE Control'
  <2>1. t \in Threads /\ pc[t] = "visit" /\ Counted(t) /\ pos[t] <= Len(Visits) /\ ~handle[t]
    BY <1>11, ThreadKinds DEF UpdateDirect, Intact, IsBackup, Visiting, Remains
  <2>2. UNCHANGED <<writers, handle, err, used>>
    BY <1>11 DEF UpdateDirect
  <2>3. /\ i'[t] = i[t] + 1
        /\ TwoDone(t) => pc'[t] = "stopearly" /\ pos'[t] = pos[t]
        /\ ~TwoDone(t) => pc'[t] = "visit" /\ pos'[t] = pos[t] + 1
        /\ \A u \in Threads \ {t} : pc'[u] = pc[u] /\ pos'[u] = pos[u] /\ i'[u] = i[u]
    BY <2>1, CountedStep
  <2>4. /\ \A u \in Threads : used[u] \in Nat /\ i[u] \in Nat /\ handle[u] \in BOOLEAN
        /\ used \in [Threads -> Nat]
    BY DEF TypeOK
  <2>5. /\ pc'[t] \in {"visit", "stopearly"}
        /\ pc'[t] = "stopearly" => handle'[t] /\ pos'[t] <= Len(Visits)
    BY <2>1, <2>2, <2>3 DEF TwoDone
  <2>6. /\ err'[t] = "ok" /\ (t \in writers' <=> t \in Updaters)
        /\ \A u \in Threads \ {t} : used'[u] = used[u]
    BY <2>1, <2>2, <2>4 DEF Control
  <2>7. /\ \A u \in Threads \ {t} : pc'[u] = pc[u] /\ pos'[u] = pos[u] /\ i'[u] = i[u]
        /\ UNCHANGED <<writers, handle, err>>
    BY <2>2, <2>3
  <2> QED BY <2>5, <2>6, <2>7 DEF Control
<1>12. ASSUME NEW t \in Updaters, BackupFails(t) PROVE Control'
  BY <1>12, ThreadKinds, VisitsFacts
  DEF BackupFails, IsBackup, Visiting, Remains, Failed, Goto, SetErr, TypeOK,
      Roles, Control, store, locals, Credits
<1>13. ASSUME NEW t \in Updaters, LoopEnds(t) PROVE Control'
  BY <1>13, ThreadKinds, VisitsFacts
  DEF LoopEnds, Goto, Remains, TypeOK, Roles, Control, store, locals, Credits
<1>14. ASSUME NEW t \in Updaters, StopEarly(t) PROVE Control'
  BY <1>14, ThreadKinds, VisitsFacts
  DEF StopEarly, Goto, SetErr, TypeOK, Roles, Control, store, locals, Credits
<1>15. ASSUME NEW t \in Updaters, CloseJournal(t) PROVE Control'
  BY <1>15, ThreadKinds, VisitsFacts
  DEF CloseJournal, Goto, Stopped, TypeOK, Roles, Control, store, locals,
      Credits
<1>16. ASSUME NEW t \in Updaters, Out(t) PROVE Control'
  BY <1>16, ThreadKinds, VisitsFacts
  DEF Out, ClearFlag, Goto, TypeOK, Roles, Control, store, locals, Credits
<1>17. ASSUME NEW t \in Updaters, DropWrite(t) PROVE Control'
  BY <1>17, ThreadKinds, VisitsFacts
  DEF DropWrite, Goto, SetErr, TypeOK, Roles, Control, store, locals, Credits
<1>18. ASSUME NEW t \in Resizers, BeginResize(t) PROVE Control'
  BY <1>18, ThreadKinds, VisitsFacts
  DEF BeginResize, MayTake, Goto, TypeOK, Roles, Control, store, locals,
      Credits
<1>19. ASSUME NEW t \in Resizers, Grow(t) PROVE Control'
  BY <1>19, ThreadKinds, VisitsFacts
  DEF Grow, Goto, TypeOK, Roles, Control, store, locals, Credits
<1>20. ASSUME NEW t \in Resizers, GrowFails(t) PROVE Control'
  BY <1>20, ThreadKinds, VisitsFacts
  DEF GrowFails, Goto, TypeOK, Roles, Control, store, locals, Credits
<1>21. ASSUME NEW t \in Resizers, Flush(t) PROVE Control'
  BY <1>21, ThreadKinds, VisitsFacts
  DEF Flush, Goto, Flushed, TypeOK, Roles, Control, store, locals, Credits
<1>22. ASSUME NEW t \in Resizers, EndResize(t) PROVE Control'
  BY <1>22, ThreadKinds, VisitsFacts
  DEF EndResize, Goto, TypeOK, Roles, Control, store, locals, Credits
<1>23. ASSUME Commit PROVE Control'
  BY <1>23, ThreadKinds, VisitsFacts
  DEF Commit, CommitOnly, TypeOK, Roles, Control, store, locals, Credits
<1>24. ASSUME Checkpoint PROVE Control'
  BY <1>24, ThreadKinds, VisitsFacts
  DEF Checkpoint, TypeOK, Roles, Control, store, locals, Credits
<1>25. ASSUME Abort PROVE Control'
  BY <1>25, ThreadKinds, VisitsFacts
  DEF Abort, TypeOK, Roles, Control, store, locals, Credits
<1>26. ASSUME Crash PROVE Control'
  BY <1>26, ThreadKinds, VisitsFacts
  DEF Crash, TypeOK, Roles, Control, store, locals, Credits
<1>27. ASSUME UNCHANGED vars PROVE Control'
  BY <1>27, ThreadKinds, VisitsFacts DEF vars, store, locals, TypeOK, Roles,
      Control, Credits
<1> QED
  BY <1>1, <1>2, <1>3, <1>4, <1>5, <1>6, <1>7, <1>8, <1>9, <1>10, <1>11,
      <1>12, <1>13, <1>14, <1>15, <1>16, <1>17, <1>18, <1>19, <1>20, <1>21,
      <1>22, <1>23, <1>24, <1>25, <1>26, <1>27 DEF Next, Updates, Visit, Grows

(* The flag follows the threads in and out of the section.                 *)
LEMMA FlagStep ==
  ASSUME TypeOK, Roles, FlagHeld, [Next]_vars
  PROVE  FlagHeld'
<1>1. ASSUME NEW t \in Updaters, Call(t) PROVE FlagHeld'
  BY <1>1, ThreadKinds
  DEF Call, Goto, TypeOK, Roles, FlagHeld, Inside, store, locals
<1>2. ASSUME NEW t \in Updaters, TakeFlag(t) PROVE FlagHeld'
  BY <1>2, ThreadKinds
  DEF TakeFlag, MayTake, Goto, TypeOK, Roles, FlagHeld, Inside, store, locals
<1>3. ASSUME NEW t \in Updaters, Busy(t) PROVE FlagHeld'
  BY <1>3, ThreadKinds
  DEF Busy, MayTake, Goto, SetErr, TypeOK, Roles, FlagHeld, Inside, store,
      locals
<1>4. ASSUME NEW t \in Updaters, StartHandle(t) PROVE FlagHeld'
  BY <1>4, ThreadKinds
  DEF StartHandle, Goto, TypeOK, Roles, FlagHeld, Inside, store, locals
<1>5. ASSUME NEW t \in Updaters, StartFails(t) PROVE FlagHeld'
  BY <1>5, ThreadKinds
  DEF StartFails, Goto, SetErr, TypeOK, Roles, FlagHeld, Inside, store, locals
<1>6. ASSUME NEW t \in Updaters, UpdatePrimary(t) PROVE FlagHeld'
  BY <1>6, ThreadKinds
  DEF UpdatePrimary, Goto, GroupsCount, TypeOK, Roles, FlagHeld, Inside,
      store, locals
<1>7. ASSUME NEW t \in Updaters, PrimaryFails(t) PROVE FlagHeld'
  BY <1>7, ThreadKinds
  DEF PrimaryFails, Goto, SetErr, TypeOK, Roles, FlagHeld, Inside, store,
      locals
<1>8. ASSUME NEW t \in Updaters, SkipGroup(t) PROVE FlagHeld'
  BY <1>8, ThreadKinds
  DEF SkipGroup, Visiting, Remains, NextGroup, TypeOK, Roles, FlagHeld,
      Inside, store, locals
<1>9. ASSUME NEW t \in Updaters, BadChecksum(t) PROVE FlagHeld'
  <2>1. resizing' = resizing /\ pc[t] = "visit" /\ pc' \in
          {pc, [pc EXCEPT ![t] = "stopearly"]}
    BY <1>9 DEF BadChecksum, Intact, IsBackup, Visiting, Counted
  <2>2. Inside' = Inside
    BY <2>1, ThreadKinds DEF Inside, TypeOK
  <2> QED BY <2>1, <2>2 DEF FlagHeld
<1>10. ASSUME NEW t \in Updaters, UpdateJournalled(t) PROVE FlagHeld'
  <2>1. resizing' = resizing /\ pc[t] = "visit" /\ pc' \in
          {pc, [pc EXCEPT ![t] = "stopearly"]}
    BY <1>10 DEF UpdateJournalled, Intact, IsBackup, Visiting, Counted
  <2>2. Inside' = Inside
    BY <2>1, ThreadKinds DEF Inside, TypeOK
  <2> QED BY <2>1, <2>2 DEF FlagHeld
<1>11. ASSUME NEW t \in Updaters, UpdateDirect(t) PROVE FlagHeld'
  <2>1. resizing' = resizing /\ pc[t] = "visit" /\ pc' \in
          {pc, [pc EXCEPT ![t] = "stopearly"]}
    BY <1>11 DEF UpdateDirect, Intact, IsBackup, Visiting, Counted
  <2>2. Inside' = Inside
    BY <2>1, ThreadKinds DEF Inside, TypeOK
  <2> QED BY <2>1, <2>2 DEF FlagHeld
<1>12. ASSUME NEW t \in Updaters, BackupFails(t) PROVE FlagHeld'
  BY <1>12, ThreadKinds
  DEF BackupFails, IsBackup, Visiting, Remains, Failed, Goto, SetErr, TypeOK,
      Roles, FlagHeld, Inside, store, locals
<1>13. ASSUME NEW t \in Updaters, LoopEnds(t) PROVE FlagHeld'
  BY <1>13, ThreadKinds
  DEF LoopEnds, Goto, Remains, TypeOK, Roles, FlagHeld, Inside, store, locals
<1>14. ASSUME NEW t \in Updaters, StopEarly(t) PROVE FlagHeld'
  <2>1. resizing' = resizing /\ pc[t] = "stopearly" /\ pc' \in
          {[pc EXCEPT ![t] = "visit"], [pc EXCEPT ![t] = "out"]}
    BY <1>14 DEF StopEarly, Goto
  <2>2. Inside' = Inside
    BY <2>1, ThreadKinds DEF Inside, TypeOK
  <2> QED BY <2>1, <2>2 DEF FlagHeld
<1>15. ASSUME NEW t \in Updaters, CloseJournal(t) PROVE FlagHeld'
  BY <1>15, ThreadKinds
  DEF CloseJournal, Goto, Stopped, TypeOK, Roles, FlagHeld, Inside, store,
      locals
<1>16. ASSUME NEW t \in Updaters, Out(t) PROVE FlagHeld'
  <2>1. t \in Inside /\ t \notin Inside' /\ ~resizing'
    BY <1>16, ThreadKinds DEF Out, ClearFlag, Goto, Inside, TypeOK
  <2>2. Inside' \subseteq Inside
    BY <1>16, ThreadKinds DEF Out, ClearFlag, Goto, Inside, TypeOK
  <2> QED BY <2>1, <2>2 DEF FlagHeld
<1>17. ASSUME NEW t \in Updaters, DropWrite(t) PROVE FlagHeld'
  BY <1>17, ThreadKinds
  DEF DropWrite, Goto, SetErr, TypeOK, Roles, FlagHeld, Inside, store, locals
<1>18. ASSUME NEW t \in Resizers, BeginResize(t) PROVE FlagHeld'
  BY <1>18, ThreadKinds
  DEF BeginResize, MayTake, Goto, TypeOK, Roles, FlagHeld, Inside, store,
      locals
<1>19. ASSUME NEW t \in Resizers, Grow(t) PROVE FlagHeld'
  BY <1>19, ThreadKinds
  DEF Grow, Goto, TypeOK, Roles, FlagHeld, Inside, store, locals
<1>20. ASSUME NEW t \in Resizers, GrowFails(t) PROVE FlagHeld'
  BY <1>20, ThreadKinds
  DEF GrowFails, Goto, TypeOK, Roles, FlagHeld, Inside, store, locals
<1>21. ASSUME NEW t \in Resizers, Flush(t) PROVE FlagHeld'
  BY <1>21, ThreadKinds
  DEF Flush, Goto, Flushed, TypeOK, Roles, FlagHeld, Inside, store, locals
<1>22. ASSUME NEW t \in Resizers, EndResize(t) PROVE FlagHeld'
  <2>1. t \in Inside /\ t \notin Inside' /\ ~resizing'
    BY <1>22, ThreadKinds DEF EndResize, Goto, Inside, TypeOK
  <2>2. Inside' \subseteq Inside
    BY <1>22, ThreadKinds DEF EndResize, Goto, Inside, TypeOK
  <2> QED BY <2>1, <2>2 DEF FlagHeld
<1>23. ASSUME Commit PROVE FlagHeld'
  BY <1>23, ThreadKinds
  DEF Commit, CommitOnly, TypeOK, Roles, FlagHeld, Inside, store, locals
<1>24. ASSUME Checkpoint PROVE FlagHeld'
  BY <1>24, ThreadKinds
  DEF Checkpoint, TypeOK, Roles, FlagHeld, Inside, store, locals
<1>25. ASSUME Abort PROVE FlagHeld'
  BY <1>25, ThreadKinds
  DEF Abort, TypeOK, Roles, FlagHeld, Inside, store, locals
<1>26. ASSUME Crash PROVE FlagHeld'
  BY <1>26, ThreadKinds
  DEF Crash, TypeOK, Roles, FlagHeld, Inside, store, locals
<1>27. ASSUME UNCHANGED vars PROVE FlagHeld'
  BY <1>27, ThreadKinds DEF vars, store, locals, TypeOK, Roles, FlagHeld,
      Inside
<1> QED
  BY <1>1, <1>2, <1>3, <1>4, <1>5, <1>6, <1>7, <1>8, <1>9, <1>10, <1>11,
      <1>12, <1>13, <1>14, <1>15, <1>16, <1>17, <1>18, <1>19, <1>20, <1>21,
      <1>22, <1>23, <1>24, <1>25, <1>26, <1>27 DEF Next, Updates, Visit, Grows

(* i bounds the credits used while the handle is open.                     *)
LEMMA CreditsStep ==
  ASSUME TypeOK, Roles, Control, Credits, [Next]_vars
  PROVE  Credits'
<1>1. ASSUME NEW t \in Updaters, Call(t) PROVE Credits'
  BY <1>1, ThreadKinds
  DEF Call, Goto, TypeOK, Roles, Control, Credits, store, locals
<1>2. ASSUME NEW t \in Updaters, TakeFlag(t) PROVE Credits'
  BY <1>2, ThreadKinds
  DEF TakeFlag, MayTake, Goto, TypeOK, Roles, Control, Credits, store, locals
<1>3. ASSUME NEW t \in Updaters, Busy(t) PROVE Credits'
  BY <1>3, ThreadKinds
  DEF Busy, MayTake, Goto, SetErr, TypeOK, Roles, Control, Credits, store,
      locals
<1>4. ASSUME NEW t \in Updaters, StartHandle(t) PROVE Credits'
  BY <1>4, ThreadKinds
  DEF StartHandle, Goto, TypeOK, Roles, Control, Credits, store, locals
<1>5. ASSUME NEW t \in Updaters, StartFails(t) PROVE Credits'
  BY <1>5, ThreadKinds
  DEF StartFails, Goto, SetErr, TypeOK, Roles, Control, Credits, store, locals
<1>6. ASSUME NEW t \in Updaters, UpdatePrimary(t) PROVE Credits'
  BY <1>6, ThreadKinds
  DEF UpdatePrimary, Goto, GroupsCount, TypeOK, Roles, Control, Credits,
      store, locals
<1>7. ASSUME NEW t \in Updaters, PrimaryFails(t) PROVE Credits'
  BY <1>7, ThreadKinds
  DEF PrimaryFails, Goto, SetErr, TypeOK, Roles, Control, Credits, store,
      locals
<1>8. ASSUME NEW t \in Updaters, SkipGroup(t) PROVE Credits'
  BY <1>8, ThreadKinds
  DEF SkipGroup, Visiting, Remains, NextGroup, TypeOK, Roles, Control,
      Credits, store, locals
<1>9. ASSUME NEW t \in Updaters, BadChecksum(t) PROVE Credits'
  <2>1. t \in Threads /\ pc[t] = "visit" /\ Counted(t) /\ pos[t] <= Len(Visits)
    BY <1>9, ThreadKinds DEF BadChecksum, IsBackup, Visiting, Remains
  <2>2. UNCHANGED <<writers, handle, err, used>>
    BY <1>9 DEF BadChecksum
  <2>3. /\ i'[t] = i[t] + 1
        /\ TwoDone(t) => pc'[t] = "stopearly" /\ pos'[t] = pos[t]
        /\ ~TwoDone(t) => pc'[t] = "visit" /\ pos'[t] = pos[t] + 1
        /\ \A u \in Threads \ {t} : pc'[u] = pc[u] /\ pos'[u] = pos[u] /\ i'[u] = i[u]
    BY <2>1, CountedStep
  <2>4. /\ \A u \in Threads : used[u] \in Nat /\ i[u] \in Nat /\ handle[u] \in BOOLEAN
        /\ used \in [Threads -> Nat]
    BY DEF TypeOK
  <2> QED BY <2>1, <2>2, <2>3, <2>4, ThreadKinds DEF Credits, TwoDone
<1>10. ASSUME NEW t \in Updaters, UpdateJournalled(t) PROVE Credits'
  <2>1. t \in Threads /\ pc[t] = "visit" /\ Counted(t) /\ pos[t] <= Len(Visits) /\ handle[t]
    BY <1>10, ThreadKinds DEF UpdateJournalled, Intact, IsBackup, Visiting, Remains
  <2>2. UNCHANGED <<writers, handle, err>> /\ used' = [used EXCEPT ![t] = @ + 1]
    BY <1>10 DEF UpdateJournalled
  <2>3. /\ i'[t] = i[t] + 1
        /\ TwoDone(t) => pc'[t] = "stopearly" /\ pos'[t] = pos[t]
        /\ ~TwoDone(t) => pc'[t] = "visit" /\ pos'[t] = pos[t] + 1
        /\ \A u \in Threads \ {t} : pc'[u] = pc[u] /\ pos'[u] = pos[u] /\ i'[u] = i[u]
    BY <2>1, CountedStep
  <2>4. /\ \A u \in Threads : used[u] \in Nat /\ i[u] \in Nat /\ handle[u] \in BOOLEAN
        /\ used \in [Threads -> Nat]
    BY DEF TypeOK
  <2> QED BY <2>1, <2>2, <2>3, <2>4, ThreadKinds DEF Credits, TwoDone
<1>11. ASSUME NEW t \in Updaters, UpdateDirect(t) PROVE Credits'
  <2>1. t \in Threads /\ pc[t] = "visit" /\ Counted(t) /\ pos[t] <= Len(Visits) /\ ~handle[t]
    BY <1>11, ThreadKinds DEF UpdateDirect, Intact, IsBackup, Visiting, Remains
  <2>2. UNCHANGED <<writers, handle, err, used>>
    BY <1>11 DEF UpdateDirect
  <2>3. /\ i'[t] = i[t] + 1
        /\ TwoDone(t) => pc'[t] = "stopearly" /\ pos'[t] = pos[t]
        /\ ~TwoDone(t) => pc'[t] = "visit" /\ pos'[t] = pos[t] + 1
        /\ \A u \in Threads \ {t} : pc'[u] = pc[u] /\ pos'[u] = pos[u] /\ i'[u] = i[u]
    BY <2>1, CountedStep
  <2>4. /\ \A u \in Threads : used[u] \in Nat /\ i[u] \in Nat /\ handle[u] \in BOOLEAN
        /\ used \in [Threads -> Nat]
    BY DEF TypeOK
  <2> QED BY <2>1, <2>2, <2>3, <2>4, ThreadKinds DEF Credits, TwoDone
<1>12. ASSUME NEW t \in Updaters, BackupFails(t) PROVE Credits'
  BY <1>12, ThreadKinds
  DEF BackupFails, IsBackup, Visiting, Remains, Failed, Goto, SetErr, TypeOK,
      Roles, Control, Credits, store, locals
<1>13. ASSUME NEW t \in Updaters, LoopEnds(t) PROVE Credits'
  BY <1>13, ThreadKinds
  DEF LoopEnds, Goto, Remains, TypeOK, Roles, Control, Credits, store, locals
<1>14. ASSUME NEW t \in Updaters, StopEarly(t) PROVE Credits'
  BY <1>14, ThreadKinds
  DEF StopEarly, Goto, SetErr, TypeOK, Roles, Control, Credits, store, locals
<1>15. ASSUME NEW t \in Updaters, CloseJournal(t) PROVE Credits'
  BY <1>15, ThreadKinds
  DEF CloseJournal, Goto, Stopped, TypeOK, Roles, Control, Credits, store,
      locals
<1>16. ASSUME NEW t \in Updaters, Out(t) PROVE Credits'
  BY <1>16, ThreadKinds
  DEF Out, ClearFlag, Goto, TypeOK, Roles, Control, Credits, store, locals
<1>17. ASSUME NEW t \in Updaters, DropWrite(t) PROVE Credits'
  BY <1>17, ThreadKinds
  DEF DropWrite, Goto, SetErr, TypeOK, Roles, Control, Credits, store, locals
<1>18. ASSUME NEW t \in Resizers, BeginResize(t) PROVE Credits'
  BY <1>18, ThreadKinds
  DEF BeginResize, MayTake, Goto, TypeOK, Roles, Control, Credits, store,
      locals
<1>19. ASSUME NEW t \in Resizers, Grow(t) PROVE Credits'
  BY <1>19, ThreadKinds
  DEF Grow, Goto, TypeOK, Roles, Control, Credits, store, locals
<1>20. ASSUME NEW t \in Resizers, GrowFails(t) PROVE Credits'
  BY <1>20, ThreadKinds
  DEF GrowFails, Goto, TypeOK, Roles, Control, Credits, store, locals
<1>21. ASSUME NEW t \in Resizers, Flush(t) PROVE Credits'
  BY <1>21, ThreadKinds
  DEF Flush, Goto, Flushed, TypeOK, Roles, Control, Credits, store, locals
<1>22. ASSUME NEW t \in Resizers, EndResize(t) PROVE Credits'
  BY <1>22, ThreadKinds
  DEF EndResize, Goto, TypeOK, Roles, Control, Credits, store, locals
<1>23. ASSUME Commit PROVE Credits'
  BY <1>23, ThreadKinds
  DEF Commit, CommitOnly, TypeOK, Roles, Control, Credits, store, locals
<1>24. ASSUME Checkpoint PROVE Credits'
  BY <1>24, ThreadKinds
  DEF Checkpoint, TypeOK, Roles, Control, Credits, store, locals
<1>25. ASSUME Abort PROVE Credits'
  BY <1>25, ThreadKinds
  DEF Abort, TypeOK, Roles, Control, Credits, store, locals
<1>26. ASSUME Crash PROVE Credits'
  BY <1>26, ThreadKinds
  DEF Crash, TypeOK, Roles, Control, Credits, store, locals
<1>27. ASSUME UNCHANGED vars PROVE Credits'
  BY <1>27, ThreadKinds DEF vars, store, locals, TypeOK, Roles, Control,
      Credits
<1> QED
  BY <1>1, <1>2, <1>3, <1>4, <1>5, <1>6, <1>7, <1>8, <1>9, <1>10, <1>11,
      <1>12, <1>13, <1>14, <1>15, <1>16, <1>17, <1>18, <1>19, <1>20, <1>21,
      <1>22, <1>23, <1>24, <1>25, <1>26, <1>27 DEF Next, Updates, Visit, Grows

(* The inductive invariant holds in every reachable state.                 *)
THEOREM BaseInvariant == Spec => []Base
<1>1. Base /\ [Next]_vars => Base'
  BY TypeStep, RolesStep, ControlStep, FlagStep, CreditsStep DEF Base
<1> QED BY <1>1, InitBase, PTL DEF Spec

(* The state is of the right type in every reachable state.                *)
THEOREM TypeCorrect == Spec => []TypeOK
<1>1. Base => TypeOK
  BY DEF Base
<1> QED BY <1>1, BaseInvariant, PTL

(* At most one thread is between taking and clearing EXT4_FLAGS_RESIZING,  *)
(* and the flag is set exactly then: label and UUID changes exclude one    *)
(* another and online resize, and no exit forgets the flag.                *)
THEOREM FlagExclusive == Spec => []FlagHeld
<1>1. Base => FlagHeld
  BY DEF Base
<1> QED BY <1>1, BaseInvariant, PTL

(* Three credits are enough for any number of backups.                     *)
THEOREM CreditsEnough == Spec => []CreditsSuffice
<1>1. Base => CreditsSuffice
  BY DEF Base, Credits, CreditsSuffice
<1> QED BY <1>1, BaseInvariant, PTL

(* Every exit has stopped the handle, once, cleared the flag, and dropped  *)
(* the write access.                                                       *)
THEOREM NothingHeld == Spec => []NoLeak
<1>1. Base => NoLeak
  BY DEF Base, Control, FlagHeld, NoLeak
<1> QED BY <1>1, BaseInvariant, PTL

-----------------------------------------------------------------------------
(* Damaged backups                                                         *)

(* What the cache holds of a damaged backup is what the disk holds.        *)
Damaged == \A g \in bad : disk.sb[g] = sb[g]

(* The callbacks change one copy, in one field.                            *)
LEMMA FuncChanges ==
  ASSUME TypeOK, NEW t \in Threads, NEW g \in Groups
  PROVE  /\ func(t, g)[g][field[t]] = arg[t]
         /\ \A f \in {"label", "uuid"} :
              f # field[t] => func(t, g)[g][f] = sb[g][f]
         /\ \A h \in Groups : h # g => func(t, g)[h] = sb[h]
<1>1. /\ sb[g] \in Superblocks /\ field[t] \in {"label", "uuid"}
      /\ sb \in [Groups -> Superblocks]
  BY DEF TypeOK
<1>2. func(t, g)[g] = [sb[g] EXCEPT ![field[t]] = arg[t]]
  BY <1>1 DEF func
<1>3. \A h \in Groups : h # g => func(t, g)[h] = sb[h]
  BY <1>1 DEF func
<1> QED BY <1>1, <1>2, <1>3 DEF Superblocks

(* Writing an intact copy leaves the damaged ones alone.                   *)
LEMMA FuncKeepsBad ==
  ASSUME TypeOK, NEW t \in Threads, NEW g \in Groups, g \notin bad
  PROVE  \A h \in bad : func(t, g)[h] = sb[h]
<1> TAKE h \in bad
<1>1. h \in Groups /\ h # g
  BY GroupsFacts DEF TypeOK
<1> QED BY <1>1, FuncChanges

(* Cache and disk agree on damaged backups after every step.               *)
LEMMA DamagedStep ==
  ASSUME TypeOK, Damaged, [Next]_vars
  PROVE  Damaged'
<1>1. ASSUME NEW t \in Updaters, Call(t) PROVE Damaged'
  BY <1>1
  DEF Call, Goto, Damaged, store, locals
<1>2. ASSUME NEW t \in Updaters, TakeFlag(t) PROVE Damaged'
  BY <1>2
  DEF TakeFlag, MayTake, Goto, Damaged, store, locals
<1>3. ASSUME NEW t \in Updaters, Busy(t) PROVE Damaged'
  BY <1>3
  DEF Busy, MayTake, Goto, SetErr, Damaged, store, locals
<1>4. ASSUME NEW t \in Updaters, StartHandle(t) PROVE Damaged'
  BY <1>4
  DEF StartHandle, Goto, Damaged, store, locals
<1>5. ASSUME NEW t \in Updaters, StartFails(t) PROVE Damaged'
  BY <1>5
  DEF StartFails, Goto, SetErr, Damaged, store, locals
<1>6. ASSUME NEW t \in Updaters, UpdatePrimary(t) PROVE Damaged'
  <2>1. PrimaryGroup \in Groups /\ PrimaryGroup \notin bad
    BY GroupsFacts DEF TypeOK
  <2>2. \A h \in bad : func(t, PrimaryGroup)[h] = sb[h]
    BY <2>1, FuncKeepsBad, ThreadKinds
  <2> QED BY <1>6, <2>1, <2>2 DEF UpdatePrimary, Written, TypeOK, Damaged,
      store, locals
<1>7. ASSUME NEW t \in Updaters, PrimaryFails(t) PROVE Damaged'
  <2>1. PrimaryGroup \in Groups /\ PrimaryGroup \notin bad
    BY GroupsFacts DEF TypeOK
  <2>2. \A h \in bad : func(t, PrimaryGroup)[h] = sb[h]
    BY <2>1, FuncKeepsBad, ThreadKinds
  <2> QED BY <1>7, <2>1, <2>2 DEF PrimaryFails, Written, TypeOK, Damaged,
      store, locals
<1>8. ASSUME NEW t \in Updaters, SkipGroup(t) PROVE Damaged'
  BY <1>8
  DEF SkipGroup, Visiting, Remains, NextGroup, Damaged, store, locals
<1>9. ASSUME NEW t \in Updaters, BadChecksum(t) PROVE Damaged'
  BY <1>9
  DEF BadChecksum, IsBackup, Visiting, Remains, Counted, TwoDone, Damaged,
      store, locals
<1>10. ASSUME NEW t \in Updaters, UpdateJournalled(t) PROVE Damaged'
  <2>1. grp(t) \in Groups /\ grp(t) \notin bad
    BY <1>10, ThreadKinds, VisitedExists DEF UpdateJournalled, Intact,
        IsBackup
  <2>2. \A h \in bad : func(t, grp(t))[h] = sb[h]
    BY <2>1, FuncKeepsBad, ThreadKinds
  <2> QED BY <1>10, <2>1, <2>2 DEF UpdateJournalled, Written, TypeOK, Damaged,
      store, locals
<1>11. ASSUME NEW t \in Updaters, UpdateDirect(t) PROVE Damaged'
  <2>1. grp(t) \in Groups /\ grp(t) \notin bad
    BY <1>11, ThreadKinds, VisitedExists DEF UpdateDirect, Intact, IsBackup
  <2>2. \A h \in bad : func(t, grp(t))[h] = sb[h]
    BY <2>1, FuncKeepsBad, ThreadKinds
  <2> QED BY <1>11, <2>1, <2>2 DEF UpdateDirect, Written, TypeOK, Damaged,
      store, locals
<1>12. ASSUME NEW t \in Updaters, BackupFails(t) PROVE Damaged'
  <2>1. grp(t) \in Groups
    BY <1>12, ThreadKinds, VisitedExists DEF BackupFails, IsBackup
  <2>2. CASE sb' = sb
    BY <1>12, <2>2 DEF BackupFails, Damaged
  <2>3. CASE grp(t) \notin bad /\ sb' = func(t, grp(t))
    <3>1. \A h \in bad : func(t, grp(t))[h] = sb[h]
      BY <2>1, <2>3, FuncKeepsBad, ThreadKinds
    <3> QED BY <1>12, <2>3, <3>1 DEF BackupFails, Damaged
  <2> QED BY <1>12, <2>2, <2>3 DEF BackupFails
<1>13. ASSUME NEW t \in Updaters, LoopEnds(t) PROVE Damaged'
  BY <1>13
  DEF LoopEnds, Goto, Remains, Damaged, store, locals
<1>14. ASSUME NEW t \in Updaters, StopEarly(t) PROVE Damaged'
  BY <1>14
  DEF StopEarly, Goto, SetErr, Damaged, store, locals
<1>15. ASSUME NEW t \in Updaters, CloseJournal(t) PROVE Damaged'
  BY <1>15
  DEF CloseJournal, Goto, Stopped, Damaged, store, locals
<1>16. ASSUME NEW t \in Updaters, Out(t) PROVE Damaged'
  BY <1>16
  DEF Out, ClearFlag, Goto, Damaged, store, locals
<1>17. ASSUME NEW t \in Updaters, DropWrite(t) PROVE Damaged'
  BY <1>17
  DEF DropWrite, Goto, SetErr, Damaged, store, locals
<1>18. ASSUME NEW t \in Resizers, BeginResize(t) PROVE Damaged'
  BY <1>18
  DEF BeginResize, MayTake, Goto, Damaged, store, locals
<1>19. ASSUME NEW t \in Resizers, Grow(t) PROVE Damaged'
  <2>1. \A g \in bad' : g \in bad /\ sb'[g] = sb[g]
    BY <1>19, GroupsFacts DEF Grow, TypeOK
  <2> QED BY <1>19, <2>1 DEF Grow, Damaged
<1>20. ASSUME NEW t \in Resizers, GrowFails(t) PROVE Damaged'
  BY <1>20
  DEF GrowFails, Goto, Damaged, store, locals
<1>21. ASSUME NEW t \in Resizers, Flush(t) PROVE Damaged'
  <2>1. \A g \in bad : Committed.sb[g] = sb[g]
    BY GroupsFacts DEF Committed, Damaged, TypeOK
  <2> QED BY <1>21, <2>1 DEF Flush, Flushed, Damaged
<1>22. ASSUME NEW t \in Resizers, EndResize(t) PROVE Damaged'
  BY <1>22
  DEF EndResize, Goto, Damaged, store, locals
<1>23. ASSUME Commit PROVE Damaged'
  <2>1. \A g \in bad : Committed.sb[g] = sb[g]
    BY GroupsFacts DEF Committed, Damaged, TypeOK
  <2> QED BY <1>23, <2>1 DEF Commit, CommitOnly, Damaged
<1>24. ASSUME Checkpoint PROVE Damaged'
  BY <1>24
  DEF Checkpoint, Damaged, store, locals
<1>25. ASSUME Abort PROVE Damaged'
  BY <1>25
  DEF Abort, Damaged, store, locals
<1>26. ASSUME Crash PROVE Damaged'
  BY <1>26 DEF Crash, Damaged
<1>27. ASSUME UNCHANGED vars PROVE Damaged'
  BY <1>27 DEF vars, store, locals, Damaged
<1> QED
  BY <1>1, <1>2, <1>3, <1>4, <1>5, <1>6, <1>7, <1>8, <1>9, <1>10, <1>11,
      <1>12, <1>13, <1>14, <1>15, <1>16, <1>17, <1>18, <1>19, <1>20, <1>21,
      <1>22, <1>23, <1>24, <1>25, <1>26, <1>27 DEF Next, Updates, Visit, Grows

(* No step but recovery rewrites a damaged backup, and recovery finds it    *)
(* as it was.                                                              *)
LEMMA KeptStep ==
  ASSUME TypeOK, Damaged, [Next]_vars
  PROVE  \A g \in bad \cap bad' : sb'[g] = sb[g]
<1>1. ASSUME NEW t \in Updaters, Call(t) PROVE \A g \in bad \cap bad' : sb'[g]
    = sb[g]
  BY <1>1
  DEF Call, Goto, store, locals
<1>2. ASSUME NEW t \in Updaters, TakeFlag(t) PROVE \A g \in bad \cap bad' :
    sb'[g] = sb[g]
  BY <1>2
  DEF TakeFlag, MayTake, Goto, store, locals
<1>3. ASSUME NEW t \in Updaters, Busy(t) PROVE \A g \in bad \cap bad' : sb'[g]
    = sb[g]
  BY <1>3
  DEF Busy, MayTake, Goto, SetErr, store, locals
<1>4. ASSUME NEW t \in Updaters, StartHandle(t) PROVE \A g \in bad \cap bad' :
    sb'[g] = sb[g]
  BY <1>4
  DEF StartHandle, Goto, store, locals
<1>5. ASSUME NEW t \in Updaters, StartFails(t) PROVE \A g \in bad \cap bad' :
    sb'[g] = sb[g]
  BY <1>5
  DEF StartFails, Goto, SetErr, store, locals
<1>6. ASSUME NEW t \in Updaters, UpdatePrimary(t) PROVE \A g \in bad \cap bad'
    : sb'[g] = sb[g]
  <2>1. PrimaryGroup \in Groups /\ PrimaryGroup \notin bad
    BY GroupsFacts DEF TypeOK
  <2>2. \A h \in bad : func(t, PrimaryGroup)[h] = sb[h]
    BY <2>1, FuncKeepsBad, ThreadKinds
  <2> QED BY <1>6, <2>1, <2>2 DEF UpdatePrimary
<1>7. ASSUME NEW t \in Updaters, PrimaryFails(t) PROVE \A g \in bad \cap bad'
    : sb'[g] = sb[g]
  <2>1. PrimaryGroup \in Groups /\ PrimaryGroup \notin bad
    BY GroupsFacts DEF TypeOK
  <2>2. \A h \in bad : func(t, PrimaryGroup)[h] = sb[h]
    BY <2>1, FuncKeepsBad, ThreadKinds
  <2> QED BY <1>7, <2>1, <2>2 DEF PrimaryFails
<1>8. ASSUME NEW t \in Updaters, SkipGroup(t) PROVE \A g \in bad \cap bad' :
    sb'[g] = sb[g]
  BY <1>8
  DEF SkipGroup, Visiting, Remains, NextGroup, store, locals
<1>9. ASSUME NEW t \in Updaters, BadChecksum(t) PROVE \A g \in bad \cap bad' :
    sb'[g] = sb[g]
  BY <1>9
  DEF BadChecksum, IsBackup, Visiting, Remains, Counted, TwoDone, store,
      locals
<1>10. ASSUME NEW t \in Updaters, UpdateJournalled(t) PROVE \A g \in bad \cap
    bad' : sb'[g] = sb[g]
  <2>1. grp(t) \in Groups /\ grp(t) \notin bad
    BY <1>10, ThreadKinds, VisitedExists DEF UpdateJournalled, Intact,
        IsBackup
  <2>2. \A h \in bad : func(t, grp(t))[h] = sb[h]
    BY <2>1, FuncKeepsBad, ThreadKinds
  <2> QED BY <1>10, <2>1, <2>2 DEF UpdateJournalled
<1>11. ASSUME NEW t \in Updaters, UpdateDirect(t) PROVE \A g \in bad \cap bad'
    : sb'[g] = sb[g]
  <2>1. grp(t) \in Groups /\ grp(t) \notin bad
    BY <1>11, ThreadKinds, VisitedExists DEF UpdateDirect, Intact, IsBackup
  <2>2. \A h \in bad : func(t, grp(t))[h] = sb[h]
    BY <2>1, FuncKeepsBad, ThreadKinds
  <2> QED BY <1>11, <2>1, <2>2 DEF UpdateDirect
<1>12. ASSUME NEW t \in Updaters, BackupFails(t) PROVE \A g \in bad \cap bad'
    : sb'[g] = sb[g]
  <2>1. grp(t) \in Groups
    BY <1>12, ThreadKinds, VisitedExists DEF BackupFails, IsBackup
  <2>2. CASE sb' = sb
    BY <1>12, <2>2 DEF BackupFails
  <2>3. CASE grp(t) \notin bad /\ sb' = func(t, grp(t))
    <3>1. \A h \in bad : func(t, grp(t))[h] = sb[h]
      BY <2>1, <2>3, FuncKeepsBad, ThreadKinds
    <3> QED BY <1>12, <2>3, <3>1 DEF BackupFails
  <2> QED BY <1>12, <2>2, <2>3 DEF BackupFails
<1>13. ASSUME NEW t \in Updaters, LoopEnds(t) PROVE \A g \in bad \cap bad' :
    sb'[g] = sb[g]
  BY <1>13
  DEF LoopEnds, Goto, Remains, store, locals
<1>14. ASSUME NEW t \in Updaters, StopEarly(t) PROVE \A g \in bad \cap bad' :
    sb'[g] = sb[g]
  BY <1>14
  DEF StopEarly, Goto, SetErr, store, locals
<1>15. ASSUME NEW t \in Updaters, CloseJournal(t) PROVE \A g \in bad \cap bad'
    : sb'[g] = sb[g]
  BY <1>15
  DEF CloseJournal, Goto, Stopped, store, locals
<1>16. ASSUME NEW t \in Updaters, Out(t) PROVE \A g \in bad \cap bad' : sb'[g]
    = sb[g]
  BY <1>16
  DEF Out, ClearFlag, Goto, store, locals
<1>17. ASSUME NEW t \in Updaters, DropWrite(t) PROVE \A g \in bad \cap bad' :
    sb'[g] = sb[g]
  BY <1>17
  DEF DropWrite, Goto, SetErr, store, locals
<1>18. ASSUME NEW t \in Resizers, BeginResize(t) PROVE \A g \in bad \cap bad'
    : sb'[g] = sb[g]
  BY <1>18
  DEF BeginResize, MayTake, Goto, store, locals
<1>19. ASSUME NEW t \in Resizers, Grow(t) PROVE \A g \in bad \cap bad' :
    sb'[g] = sb[g]
  BY <1>19, GroupsFacts DEF Grow, TypeOK
<1>20. ASSUME NEW t \in Resizers, GrowFails(t) PROVE \A g \in bad \cap bad' :
    sb'[g] = sb[g]
  BY <1>20
  DEF GrowFails, Goto, store, locals
<1>21. ASSUME NEW t \in Resizers, Flush(t) PROVE \A g \in bad \cap bad' :
    sb'[g] = sb[g]
  BY <1>21
  DEF Flush, Goto, Flushed, store, locals
<1>22. ASSUME NEW t \in Resizers, EndResize(t) PROVE \A g \in bad \cap bad' :
    sb'[g] = sb[g]
  BY <1>22
  DEF EndResize, Goto, store, locals
<1>23. ASSUME Commit PROVE \A g \in bad \cap bad' : sb'[g] = sb[g]
  BY <1>23
  DEF Commit, CommitOnly, store, locals
<1>24. ASSUME Checkpoint PROVE \A g \in bad \cap bad' : sb'[g] = sb[g]
  BY <1>24
  DEF Checkpoint, store, locals
<1>25. ASSUME Abort PROVE \A g \in bad \cap bad' : sb'[g] = sb[g]
  BY <1>25
  DEF Abort, store, locals
<1>26. ASSUME Crash PROVE \A g \in bad \cap bad' : sb'[g] = sb[g]
  BY <1>26 DEF Crash, Damaged
<1>27. ASSUME UNCHANGED vars PROVE \A g \in bad \cap bad' : sb'[g] = sb[g]
  BY <1>27 DEF vars, store, locals
<1> QED
  BY <1>1, <1>2, <1>3, <1>4, <1>5, <1>6, <1>7, <1>8, <1>9, <1>10, <1>11,
      <1>12, <1>13, <1>14, <1>15, <1>16, <1>17, <1>18, <1>19, <1>20, <1>21,
      <1>22, <1>23, <1>24, <1>25, <1>26, <1>27 DEF Next, Updates, Visit, Grows

(* A backup whose checksum is wrong is never given new contents: it stays  *)
(* as it was until resize rewrites it whole.                               *)
THEOREM DamageKept == Spec => BadBackupsKept
<1>1. Init => Damaged
  BY DEF Init, Damaged
<1>2. TypeOK /\ Damaged /\ [Next]_vars => Damaged'
  BY DamagedStep
<1>3. TypeOK /\ Damaged /\ [Next]_vars =>
        [\A g \in bad \cap bad' : sb'[g] = sb[g]]_vars
  BY KeptStep
<1> QED BY <1>1, <1>2, <1>3, TypeCorrect, PTL DEF Spec, BadBackupsKept

-----------------------------------------------------------------------------
(* Success means every intact backup                                       *)

(* While a call has met no error the primary holds its argument and no     *)
(* group has been added since it read the number of groups.                *)
Reached(t) ==
  /\ limit[t] = ngroups
  /\ sb[PrimaryGroup][field[t]] = arg[t]

(* The intact backups among the first n visits hold it too.                *)
Wanted(t, k) ==
  /\ Visits[k] < limit[t] /\ Visits[k] # PrimaryGroup
  /\ Visits[k] \in HasSuper /\ Visits[k] \notin bad

Passed(t, n) ==
  \A k \in 1 .. n : Wanted(t, k) => sb[Visits[k]][field[t]] = arg[t]

Progress ==
  \A t \in Updaters :
    /\ pc[t] = "visit" => Reached(t) /\ Passed(t, pos[t] - 1)
    /\ pc[t] = "stopearly" => Reached(t) /\ Passed(t, pos[t])
    /\ pc[t] \in {"outjournal", "out"} /\ err[t] = "ok" =>
         Reached(t) /\ Passed(t, Len(Visits))

ProgressOf(t) ==
  /\ pc[t] = "visit" => Reached(t) /\ Passed(t, pos[t] - 1)
  /\ pc[t] = "stopearly" => Reached(t) /\ Passed(t, pos[t])
  /\ pc[t] \in {"outjournal", "out"} /\ err[t] = "ok" =>
       Reached(t) /\ Passed(t, Len(Visits))

(* While one thread holds the flag every other one is outside.             *)
LEMMA OthersOutside ==
  ASSUME Base, NEW t \in Threads, t \in Inside
  PROVE  \A s \in Threads : s # t => pc[s] \in {"idle", "flag", "drop"}
BY DEF Base, FlagHeld, Inside

(* Setting a field of one superblock to the argument of a call undoes      *)
(* nothing the call has done.                                              *)
LEMMA FuncKeepsDone ==
  ASSUME TypeOK, NEW t \in Threads, NEW g \in Groups, NEW h \in Groups
  PROVE  /\ sb[h][field[t]] = arg[t] => func(t, g)[h][field[t]] = arg[t]
         /\ func(t, g)[g][field[t]] = arg[t]
<1>1. CASE h = g
  BY <1>1, FuncChanges
<1>2. CASE h # g
  BY <1>2, FuncChanges
<1> QED BY <1>1, <1>2

(* A visit that leaves the backup holding the argument, or finds nothing   *)
(* it wants there, extends what has been passed.                           *)
LEMMA PassedGrows ==
  ASSUME TypeOK, NEW t \in Threads, Passed(t, pos[t] - 1), ~Wanted(t, pos[t])
  PROVE  Passed(t, pos[t])
BY VisitsFacts DEF Passed, TypeOK

(* A visit that writes the backup extends what has been passed.            *)
LEMMA PassedByWrite ==
  ASSUME TypeOK, NEW t \in Threads, Visiting(t),
         Reached(t), Passed(t, pos[t] - 1),
         sb' = func(t, grp(t)),
         UNCHANGED <<bad, ngroups, field, arg, limit>>
  PROVE  /\ Reached(t)'
         /\ \A k \in 1 .. pos[t] : Wanted(t, k) => sb'[Visits[k]][field[t]] = arg[t]
<1>1. grp(t) \in Groups /\ pos[t] \in 1 .. Len(Visits)
  BY VisitedExists
<1>2. Reached(t)'
  BY <1>1, FuncKeepsDone, GroupsFacts DEF Reached
<1>3. ASSUME NEW k \in 1 .. pos[t], Wanted(t, k)
      PROVE  sb'[Visits[k]][field[t]] = arg[t]
  <2>1. k \in 1 .. Len(Visits) /\ pos[t] \in Nat
    BY <1>1, VisitsFacts
  <2>2. Visits[k] \in Groups
    BY <1>3, <2>1, VisitsFacts, GroupsFacts DEF Wanted, TypeOK, Groups
  <2>3. CASE k = pos[t]
    BY <1>1, <2>3, FuncKeepsDone DEF grp
  <2>4. CASE k # pos[t]
    <3>1. k \in 1 .. pos[t] - 1
      BY <2>1, <2>4
    <3>2. sb[Visits[k]][field[t]] = arg[t]
      BY <1>3, <3>1 DEF Passed
    <3> QED BY <1>1, <2>2, <3>2, FuncKeepsDone
  <2> QED BY <2>3, <2>4
<1> QED BY <1>2, <1>3

(* At the end of the loop nothing is left that the call wants.             *)
LEMMA NothingLeft ==
  ASSUME TypeOK, NEW t \in Threads, Passed(t, pos[t] - 1), ~Remains(t)
  PROVE  Passed(t, Len(Visits))
<1>1. pos[t] \in 1 .. Len(Visits) + 1 /\ limit[t] \in Nat
  BY GroupsFacts DEF TypeOK
<1>2. ASSUME NEW k \in 1 .. Len(Visits), Wanted(t, k)
      PROVE  k \in 1 .. pos[t] - 1
  <2>1. CASE pos[t] = Len(Visits) + 1
    BY <2>1, VisitsFacts
  <2>2. CASE pos[t] \in 1 .. Len(Visits)
    <3>1. ~(Visits[pos[t]] < limit[t])
      BY <2>2, VisitsFacts DEF Remains, grp
    <3>2. Visits[k] < Visits[pos[t]]
      BY <1>1, <1>2, <2>2, <3>1, VisitsFacts DEF Wanted
    <3> QED BY <2>2, <3>2, VisitsFacts
  <2> QED BY <1>1, <2>1, <2>2, VisitsFacts
<1> QED BY <1>2 DEF Passed

(* No step undoes what a call in progress has reached.                     *)
LEMMA ProgressStep ==
  ASSUME Base, Progress, [Next]_vars
  PROVE  \A s \in Updaters : ProgressOf(s)'
<1>1. ASSUME NEW t \in Updaters, Call(t) PROVE \A s \in Updaters :
    ProgressOf(s)'
  <2>1. \A s \in Updaters : s # t => UNCHANGED <<pc[s], err[s], limit[s],
           pos[s], field[s], arg[s], sb, bad, ngroups>>
    <3>1. PICK f \in Fields, v \in Values :
            /\ field' = [field EXCEPT ![t] = f]
            /\ arg' = [arg EXCEPT ![t] = v]
      BY <1>1 DEF Call
    <3> QED BY <1>1, <3>1, ThreadKinds DEF Call, Goto, Base, TypeOK, store
  <2>2. \A s \in Updaters : s # t => ProgressOf(s)'
    BY <2>1 DEF Progress, ProgressOf, Reached, Passed, Wanted
  <2>3. t \in Updaters => ProgressOf(t)'
    <3>1. pc'[t] = "flag"
      BY <1>1, ThreadKinds DEF Call, Goto, Base, TypeOK
    <3> QED BY <3>1 DEF ProgressOf
  <2> QED BY <2>2, <2>3
<1>2. ASSUME NEW t \in Updaters, TakeFlag(t) PROVE \A s \in Updaters :
    ProgressOf(s)'
  <2>1. \A s \in Updaters : s # t => UNCHANGED <<pc[s], err[s], limit[s],
           pos[s], field[s], arg[s], sb, bad, ngroups>>
    BY <1>2, ThreadKinds DEF TakeFlag, MayTake, Goto, Base, TypeOK, store,
        locals
  <2>2. \A s \in Updaters : s # t => ProgressOf(s)'
    BY <2>1 DEF Progress, ProgressOf, Reached, Passed, Wanted
  <2>3. t \in Updaters => ProgressOf(t)'
    BY <1>2, ThreadKinds DEF TakeFlag, MayTake, Goto, Base, TypeOK, ProgressOf
  <2> QED BY <2>2, <2>3
<1>3. ASSUME NEW t \in Updaters, Busy(t) PROVE \A s \in Updaters :
    ProgressOf(s)'
  <2>1. \A s \in Updaters : s # t => UNCHANGED <<pc[s], err[s], limit[s],
           pos[s], field[s], arg[s], sb, bad, ngroups>>
    BY <1>3, ThreadKinds DEF Busy, MayTake, Goto, SetErr, Base, TypeOK, store,
        locals
  <2>2. \A s \in Updaters : s # t => ProgressOf(s)'
    BY <2>1 DEF Progress, ProgressOf, Reached, Passed, Wanted
  <2>3. t \in Updaters => ProgressOf(t)'
    BY <1>3, ThreadKinds DEF Busy, MayTake, Goto, SetErr, Base, TypeOK,
        ProgressOf
  <2> QED BY <2>2, <2>3
<1>4. ASSUME NEW t \in Updaters, StartHandle(t) PROVE \A s \in Updaters :
    ProgressOf(s)'
  <2>1. t \in Inside
    BY <1>4, ThreadKinds DEF StartHandle, Goto, Inside
  <2>2. \A s \in Threads : s # t => pc[s] \in {"idle", "flag", "drop"} /\
      pc'[s] = pc[s]
    BY <1>4, <2>1, OthersOutside, ThreadKinds DEF StartHandle, Goto, Base,
        TypeOK
  <2>3. \A s \in Updaters : s # t => ProgressOf(s)'
    BY <2>2, ThreadKinds DEF ProgressOf
  <2>4. pc'[t] = "primary"
    BY <1>4, ThreadKinds DEF StartHandle, Goto, Base, TypeOK
  <2>5. ProgressOf(t)'
    BY <2>4 DEF ProgressOf
  <2> QED BY <2>3, <2>5
<1>5. ASSUME NEW t \in Updaters, StartFails(t) PROVE \A s \in Updaters :
    ProgressOf(s)'
  <2>1. t \in Inside
    BY <1>5, ThreadKinds DEF StartFails, Goto, Inside
  <2>2. \A s \in Threads : s # t => pc[s] \in {"idle", "flag", "drop"} /\
      pc'[s] = pc[s]
    BY <1>5, <2>1, OthersOutside, ThreadKinds DEF StartFails, Goto, Base,
        TypeOK
  <2>3. \A s \in Updaters : s # t => ProgressOf(s)'
    BY <2>2, ThreadKinds DEF ProgressOf
  <2>4. err'[t] = "err" /\ pc'[t] \notin {"visit", "stopearly"}
    BY <1>5, ThreadKinds DEF StartFails, Goto, SetErr, Base, TypeOK
  <2>5. ProgressOf(t)'
    BY <2>4 DEF ProgressOf
  <2> QED BY <2>3, <2>5
<1>6. ASSUME NEW t \in Updaters, UpdatePrimary(t) PROVE \A s \in Updaters :
    ProgressOf(s)'
  <2>1. t \in Inside
    BY <1>6, ThreadKinds DEF UpdatePrimary, Goto, Inside
  <2>2. \A s \in Threads : s # t => pc[s] \in {"idle", "flag", "drop"} /\
      pc'[s] = pc[s]
    BY <1>6, <2>1, OthersOutside, ThreadKinds DEF UpdatePrimary, Goto, Base,
        TypeOK
  <2>3. \A s \in Updaters : s # t => ProgressOf(s)'
    BY <2>2, ThreadKinds DEF ProgressOf
  <2>4. pc'[t] = "visit" /\ pos'[t] = 1
    BY <1>6, ThreadKinds DEF UpdatePrimary, Goto, Base, TypeOK, Control
  <2>5. Reached(t)'
    BY <1>6, FuncChanges, ThreadKinds, GroupsFacts
    DEF UpdatePrimary, GroupsCount, Reached, Base, TypeOK
  <2>6. ProgressOf(t)'
    BY <2>4, <2>5 DEF ProgressOf, Passed
  <2> QED BY <2>3, <2>6
<1>7. ASSUME NEW t \in Updaters, PrimaryFails(t) PROVE \A s \in Updaters :
    ProgressOf(s)'
  <2>1. t \in Inside
    BY <1>7, ThreadKinds DEF PrimaryFails, Goto, Inside
  <2>2. \A s \in Threads : s # t => pc[s] \in {"idle", "flag", "drop"} /\
      pc'[s] = pc[s]
    BY <1>7, <2>1, OthersOutside, ThreadKinds DEF PrimaryFails, Goto, Base,
        TypeOK
  <2>3. \A s \in Updaters : s # t => ProgressOf(s)'
    BY <2>2, ThreadKinds DEF ProgressOf
  <2>4. err'[t] = "err" /\ pc'[t] \notin {"visit", "stopearly"}
    BY <1>7, ThreadKinds DEF PrimaryFails, Goto, SetErr, Base, TypeOK
  <2>5. ProgressOf(t)'
    BY <2>4 DEF ProgressOf
  <2> QED BY <2>3, <2>5
<1>8. ASSUME NEW t \in Updaters, SkipGroup(t) PROVE \A s \in Updaters :
    ProgressOf(s)'
  <2>1. t \in Inside
    BY <1>8, ThreadKinds DEF SkipGroup, Visiting, NextGroup, Inside
  <2>2. \A s \in Threads : s # t => pc[s] \in {"idle", "flag", "drop"} /\
      pc'[s] = pc[s]
    BY <1>8, <2>1, OthersOutside, ThreadKinds DEF SkipGroup, Visiting,
        NextGroup, Base, TypeOK
  <2>3. \A s \in Updaters : s # t => ProgressOf(s)'
    BY <2>2, ThreadKinds DEF ProgressOf
  <2>4. Visiting(t) /\ ~Wanted(t, pos[t])
    BY <1>8 DEF SkipGroup, IsBackup, Wanted, grp, Visiting
  <2>5. Reached(t) /\ Passed(t, pos[t] - 1)
    BY <2>4 DEF Visiting, Progress
  <2>6. Passed(t, pos[t])
    BY <2>4, <2>5, PassedGrows, ThreadKinds DEF Base
  <2>7. \/ pc'[t] = "stopearly" /\ pos'[t] = pos[t]
        \/ pc'[t] = "visit" /\ pos'[t] = pos[t] + 1
    BY <1>8, <2>4, ThreadKinds
    DEF SkipGroup, Counted, NextGroup, Visiting, Base, TypeOK
  <2>8. pos[t] \in Nat /\ (pos[t] + 1) - 1 = pos[t]
    BY ThreadKinds, VisitsFacts DEF Base, TypeOK
  <2>9. UNCHANGED <<sb, bad, ngroups, field, arg, limit>>
    BY <1>8 DEF SkipGroup, store
  <2>10. ProgressOf(t)'
    BY <2>5, <2>6, <2>7, <2>8, <2>9 DEF ProgressOf, Reached, Passed, Wanted
  <2> QED BY <2>3, <2>10
<1>9. ASSUME NEW t \in Updaters, BadChecksum(t) PROVE \A s \in Updaters :
    ProgressOf(s)'
  <2>1. t \in Inside
    BY <1>9, ThreadKinds DEF BadChecksum, IsBackup, Visiting, Counted, Inside
  <2>0. pc' = pc \/ pc' = [pc EXCEPT ![t] = "stopearly"]
    BY <1>9 DEF BadChecksum, Counted
  <2>2. \A s \in Threads : s # t => pc[s] \in {"idle", "flag", "drop"} /\
      pc'[s] = pc[s]
    BY <2>0, <2>1, OthersOutside, ThreadKinds DEF Base, TypeOK
  <2>3. \A s \in Updaters : s # t => ProgressOf(s)'
    BY <2>2, ThreadKinds DEF ProgressOf
  <2>4. Visiting(t) /\ ~Wanted(t, pos[t])
    BY <1>9 DEF BadChecksum, IsBackup, Wanted, grp, Visiting
  <2>5. Reached(t) /\ Passed(t, pos[t] - 1)
    BY <2>4 DEF Visiting, Progress
  <2>6. Passed(t, pos[t])
    BY <2>4, <2>5, PassedGrows, ThreadKinds DEF Base
  <2>7. \/ pc'[t] = "stopearly" /\ pos'[t] = pos[t]
        \/ pc'[t] = "visit" /\ pos'[t] = pos[t] + 1
    BY <1>9, <2>4, ThreadKinds
    DEF BadChecksum, Counted, NextGroup, Visiting, Base, TypeOK
  <2>8. pos[t] \in Nat /\ (pos[t] + 1) - 1 = pos[t]
    BY ThreadKinds, VisitsFacts DEF Base, TypeOK
  <2>9. UNCHANGED <<sb, bad, ngroups, field, arg, limit>>
    BY <1>9 DEF BadChecksum, store
  <2>10. ProgressOf(t)'
    BY <2>5, <2>6, <2>7, <2>8, <2>9 DEF ProgressOf, Reached, Passed, Wanted
  <2> QED BY <2>3, <2>10
<1>10. ASSUME NEW t \in Updaters, UpdateJournalled(t) PROVE \A s \in Updaters
    : ProgressOf(s)'
  <2>1. t \in Inside
    BY <1>10, ThreadKinds DEF UpdateJournalled, Intact, IsBackup, Visiting,
        Counted, Inside
  <2>0. pc' = pc \/ pc' = [pc EXCEPT ![t] = "stopearly"]
    BY <1>10 DEF UpdateJournalled, Counted
  <2>2. \A s \in Threads : s # t => pc[s] \in {"idle", "flag", "drop"} /\
      pc'[s] = pc[s]
    BY <2>0, <2>1, OthersOutside, ThreadKinds DEF Base, TypeOK
  <2>3. \A s \in Updaters : s # t => ProgressOf(s)'
    BY <2>2, ThreadKinds DEF ProgressOf
  <2>4. Visiting(t) /\ Counted(t) /\ sb' = func(t, grp(t))
        /\ UNCHANGED <<bad, ngroups, field, arg, limit>>
    BY <1>10 DEF UpdateJournalled, Intact, IsBackup
  <2>5. Reached(t) /\ Passed(t, pos[t] - 1)
    BY <2>4 DEF Visiting, Progress
  <2>6. /\ Reached(t)'
        /\ \A k \in 1 .. pos[t] : Wanted(t, k) => sb'[Visits[k]][field[t]] =
            arg[t]
    BY <2>4, <2>5, PassedByWrite, ThreadKinds DEF Base
  <2>7. \/ pc'[t] = "stopearly" /\ pos'[t] = pos[t]
        \/ pc'[t] = "visit" /\ pos'[t] = pos[t] + 1
    BY <2>4, ThreadKinds DEF Counted, Visiting, Base, TypeOK
  <2>8. pos[t] \in Nat /\ (pos[t] + 1) - 1 = pos[t]
    BY ThreadKinds, VisitsFacts DEF Base, TypeOK
  <2>9. ProgressOf(t)'
    BY <2>4, <2>6, <2>7, <2>8 DEF ProgressOf, Passed, Wanted
  <2> QED BY <2>3, <2>9
<1>11. ASSUME NEW t \in Updaters, UpdateDirect(t) PROVE \A s \in Updaters :
    ProgressOf(s)'
  <2>1. t \in Inside
    BY <1>11, ThreadKinds DEF UpdateDirect, Intact, IsBackup, Visiting,
        Counted, Inside
  <2>0. pc' = pc \/ pc' = [pc EXCEPT ![t] = "stopearly"]
    BY <1>11 DEF UpdateDirect, Counted
  <2>2. \A s \in Threads : s # t => pc[s] \in {"idle", "flag", "drop"} /\
      pc'[s] = pc[s]
    BY <2>0, <2>1, OthersOutside, ThreadKinds DEF Base, TypeOK
  <2>3. \A s \in Updaters : s # t => ProgressOf(s)'
    BY <2>2, ThreadKinds DEF ProgressOf
  <2>4. Visiting(t) /\ Counted(t) /\ sb' = func(t, grp(t))
        /\ UNCHANGED <<bad, ngroups, field, arg, limit>>
    BY <1>11 DEF UpdateDirect, Intact, IsBackup
  <2>5. Reached(t) /\ Passed(t, pos[t] - 1)
    BY <2>4 DEF Visiting, Progress
  <2>6. /\ Reached(t)'
        /\ \A k \in 1 .. pos[t] : Wanted(t, k) => sb'[Visits[k]][field[t]] =
            arg[t]
    BY <2>4, <2>5, PassedByWrite, ThreadKinds DEF Base
  <2>7. \/ pc'[t] = "stopearly" /\ pos'[t] = pos[t]
        \/ pc'[t] = "visit" /\ pos'[t] = pos[t] + 1
    BY <2>4, ThreadKinds DEF Counted, Visiting, Base, TypeOK
  <2>8. pos[t] \in Nat /\ (pos[t] + 1) - 1 = pos[t]
    BY ThreadKinds, VisitsFacts DEF Base, TypeOK
  <2>9. ProgressOf(t)'
    BY <2>4, <2>6, <2>7, <2>8 DEF ProgressOf, Passed, Wanted
  <2> QED BY <2>3, <2>9
<1>12. ASSUME NEW t \in Updaters, BackupFails(t) PROVE \A s \in Updaters :
    ProgressOf(s)'
  <2>1. t \in Inside
    BY <1>12, ThreadKinds DEF BackupFails, IsBackup, Visiting, Failed, Goto,
        Inside
  <2>2. \A s \in Threads : s # t => pc[s] \in {"idle", "flag", "drop"} /\
      pc'[s] = pc[s]
    BY <1>12, <2>1, OthersOutside, ThreadKinds DEF BackupFails, IsBackup,
        Visiting, Failed, Goto, Base, TypeOK
  <2>3. \A s \in Updaters : s # t => ProgressOf(s)'
    BY <2>2, ThreadKinds DEF ProgressOf
  <2>4. err'[t] = "err" /\ pc'[t] \notin {"visit", "stopearly"}
    BY <1>12, ThreadKinds DEF BackupFails, IsBackup, Visiting, Failed, Goto,
        SetErr, Base, TypeOK
  <2>5. ProgressOf(t)'
    BY <2>4 DEF ProgressOf
  <2> QED BY <2>3, <2>5
<1>13. ASSUME NEW t \in Updaters, LoopEnds(t) PROVE \A s \in Updaters :
    ProgressOf(s)'
  <2>1. t \in Inside
    BY <1>13, ThreadKinds DEF LoopEnds, Goto, Inside
  <2>2. \A s \in Threads : s # t => pc[s] \in {"idle", "flag", "drop"} /\
      pc'[s] = pc[s]
    BY <1>13, <2>1, OthersOutside, ThreadKinds DEF LoopEnds, Goto, Base,
        TypeOK
  <2>3. \A s \in Updaters : s # t => ProgressOf(s)'
    BY <2>2, ThreadKinds DEF ProgressOf
  <2>4. pc[t] = "visit" /\ pc'[t] = "outjournal" /\ ~Remains(t)
        /\ UNCHANGED <<sb, bad, ngroups, field, arg, limit, err>>
    BY <1>13, ThreadKinds DEF LoopEnds, Goto, Base, TypeOK, store, locals
  <2>5. Reached(t) /\ Passed(t, Len(Visits))
    BY <2>4, NothingLeft, ThreadKinds DEF Progress, Base
  <2>6. ProgressOf(t)'
    BY <2>4, <2>5 DEF ProgressOf, Reached, Passed, Wanted
  <2> QED BY <2>3, <2>6
<1>14. ASSUME NEW t \in Updaters, StopEarly(t) PROVE \A s \in Updaters :
    ProgressOf(s)'
  <2>1. t \in Inside
    BY <1>14, ThreadKinds DEF StopEarly, Goto, Inside
  <2>2. \A s \in Threads : s # t => pc[s] \in {"idle", "flag", "drop"} /\
      pc'[s] = pc[s]
    BY <1>14, <2>1, OthersOutside, ThreadKinds DEF StopEarly, Goto, Base,
        TypeOK
  <2>3. \A s \in Updaters : s # t => ProgressOf(s)'
    BY <2>2, ThreadKinds DEF ProgressOf
  <2>4. /\ pc[t] = "stopearly"
        /\ UNCHANGED <<sb, bad, ngroups, field, arg, limit>>
        /\ \/ pc'[t] = "visit" /\ pos'[t] = pos[t] + 1
           \/ pc'[t] = "out" /\ err'[t] = "err"
    BY <1>14, ThreadKinds DEF StopEarly, Goto, SetErr, Base, TypeOK, store
  <2>5. Reached(t) /\ Passed(t, pos[t])
    BY <2>4 DEF Progress
  <2>6. pos[t] \in Nat /\ (pos[t] + 1) - 1 = pos[t]
    BY ThreadKinds, VisitsFacts DEF Base, TypeOK
  <2>7. ProgressOf(t)'
    BY <2>4, <2>5, <2>6 DEF ProgressOf, Reached, Passed, Wanted
  <2> QED BY <2>3, <2>7
<1>15. ASSUME NEW t \in Updaters, CloseJournal(t) PROVE \A s \in Updaters :
    ProgressOf(s)'
  <2>1. t \in Inside
    BY <1>15, ThreadKinds DEF CloseJournal, Goto, Inside
  <2>2. \A s \in Threads : s # t => pc[s] \in {"idle", "flag", "drop"} /\
      pc'[s] = pc[s]
    BY <1>15, <2>1, OthersOutside, ThreadKinds DEF CloseJournal, Goto, Base,
        TypeOK
  <2>3. \A s \in Updaters : s # t => ProgressOf(s)'
    BY <2>2, ThreadKinds DEF ProgressOf
  <2>4. /\ pc[t] = "outjournal" /\ pc'[t] = "out"
        /\ err'[t] = "ok" => err[t] = "ok"
        /\ UNCHANGED <<sb, bad, ngroups, field, arg, limit>>
    BY <1>15, ThreadKinds DEF CloseJournal, Goto, Base, TypeOK, store
  <2>5. ProgressOf(t)'
    BY <2>4 DEF Progress, ProgressOf, Reached, Passed, Wanted
  <2> QED BY <2>3, <2>5
<1>16. ASSUME NEW t \in Updaters, Out(t) PROVE \A s \in Updaters :
    ProgressOf(s)'
  <2>1. t \in Inside
    BY <1>16, ThreadKinds DEF Out, ClearFlag, Goto, Inside
  <2>2. \A s \in Threads : s # t => pc[s] \in {"idle", "flag", "drop"} /\
      pc'[s] = pc[s]
    BY <1>16, <2>1, OthersOutside, ThreadKinds DEF Out, ClearFlag, Goto, Base,
        TypeOK
  <2>3. \A s \in Updaters : s # t => ProgressOf(s)'
    BY <2>2, ThreadKinds DEF ProgressOf
  <2>4. pc'[t] = "drop"
    BY <1>16, ThreadKinds DEF Out, ClearFlag, Goto, Base, TypeOK
  <2>5. ProgressOf(t)'
    BY <2>4 DEF ProgressOf
  <2> QED BY <2>3, <2>5
<1>17. ASSUME NEW t \in Updaters, DropWrite(t) PROVE \A s \in Updaters :
    ProgressOf(s)'
  <2>1. \A s \in Updaters : s # t => UNCHANGED <<pc[s], err[s], limit[s],
           pos[s], field[s], arg[s], sb, bad, ngroups>>
    BY <1>17, ThreadKinds DEF DropWrite, Goto, SetErr, Base, TypeOK, store,
        locals
  <2>2. \A s \in Updaters : s # t => ProgressOf(s)'
    BY <2>1 DEF Progress, ProgressOf, Reached, Passed, Wanted
  <2>3. t \in Updaters => ProgressOf(t)'
    BY <1>17, ThreadKinds DEF DropWrite, Goto, SetErr, Base, TypeOK,
        ProgressOf
  <2> QED BY <2>2, <2>3
<1>18. ASSUME NEW t \in Resizers, BeginResize(t) PROVE \A s \in Updaters :
    ProgressOf(s)'
  <2>1. \A s \in Updaters : s # t => UNCHANGED <<pc[s], err[s], limit[s],
           pos[s], field[s], arg[s], sb, bad, ngroups>>
    BY <1>18, ThreadKinds DEF BeginResize, MayTake, Goto, Base, TypeOK, store,
        locals
  <2>2. \A s \in Updaters : s # t => ProgressOf(s)'
    BY <2>1 DEF Progress, ProgressOf, Reached, Passed, Wanted
  <2>3. t \in Updaters => ProgressOf(t)'
    BY <1>18, ThreadKinds DEF BeginResize, MayTake, Goto, Base, TypeOK,
        ProgressOf
  <2> QED BY <2>2, <2>3
<1>19. ASSUME NEW t \in Resizers, Grow(t) PROVE \A s \in Updaters :
    ProgressOf(s)'
  <2>1. t \in Inside
    BY <1>19, ThreadKinds DEF Grow, Goto, Inside
  <2>2. \A s \in Threads : s # t => pc[s] \in {"idle", "flag", "drop"} /\
      pc'[s] = pc[s]
    BY <1>19, <2>1, OthersOutside, ThreadKinds DEF Grow, Goto, Base, TypeOK
  <2>3. \A s \in Updaters : s # t => ProgressOf(s)'
    BY <2>2, ThreadKinds DEF ProgressOf
  <2> QED BY <2>3, ThreadKinds
<1>20. ASSUME NEW t \in Resizers, GrowFails(t) PROVE \A s \in Updaters :
    ProgressOf(s)'
  <2>1. t \in Inside
    BY <1>20, ThreadKinds DEF GrowFails, Goto, Inside
  <2>2. \A s \in Threads : s # t => pc[s] \in {"idle", "flag", "drop"} /\
      pc'[s] = pc[s]
    BY <1>20, <2>1, OthersOutside, ThreadKinds DEF GrowFails, Goto, Base,
        TypeOK
  <2>3. \A s \in Updaters : s # t => ProgressOf(s)'
    BY <2>2, ThreadKinds DEF ProgressOf
  <2> QED BY <2>3, ThreadKinds
<1>21. ASSUME NEW t \in Resizers, Flush(t) PROVE \A s \in Updaters :
    ProgressOf(s)'
  <2>1. t \in Inside
    BY <1>21, ThreadKinds DEF Flush, Goto, Inside
  <2>2. \A s \in Threads : s # t => pc[s] \in {"idle", "flag", "drop"} /\
      pc'[s] = pc[s]
    BY <1>21, <2>1, OthersOutside, ThreadKinds DEF Flush, Goto, Base, TypeOK
  <2>3. \A s \in Updaters : s # t => ProgressOf(s)'
    BY <2>2, ThreadKinds DEF ProgressOf
  <2> QED BY <2>3, ThreadKinds
<1>22. ASSUME NEW t \in Resizers, EndResize(t) PROVE \A s \in Updaters :
    ProgressOf(s)'
  <2>1. t \in Inside
    BY <1>22, ThreadKinds DEF EndResize, Goto, Inside
  <2>2. \A s \in Threads : s # t => pc[s] \in {"idle", "flag", "drop"} /\
      pc'[s] = pc[s]
    BY <1>22, <2>1, OthersOutside, ThreadKinds DEF EndResize, Goto, Base,
        TypeOK
  <2>3. \A s \in Updaters : s # t => ProgressOf(s)'
    BY <2>2, ThreadKinds DEF ProgressOf
  <2> QED BY <2>3, ThreadKinds
<1>23. ASSUME Commit PROVE \A s \in Updaters : ProgressOf(s)'
  BY <1>23 DEF Commit, ProgressOf, Progress, Reached, Passed, Wanted, locals
<1>24. ASSUME Checkpoint PROVE \A s \in Updaters : ProgressOf(s)'
  BY <1>24 DEF Checkpoint, ProgressOf, Progress, Reached, Passed, Wanted,
      locals
<1>25. ASSUME Abort PROVE \A s \in Updaters : ProgressOf(s)'
  BY <1>25 DEF Abort, ProgressOf, Progress, Reached, Passed, Wanted, locals
<1>26. ASSUME Crash PROVE \A s \in Updaters : ProgressOf(s)'
  BY <1>26, ThreadKinds DEF Crash, ProgressOf
<1>27. ASSUME UNCHANGED vars PROVE \A s \in Updaters : ProgressOf(s)'
  BY <1>27 DEF vars, store, locals, ProgressOf, Progress, Reached, Passed,
      Wanted
<1> QED
  BY <1>1, <1>2, <1>3, <1>4, <1>5, <1>6, <1>7, <1>8, <1>9, <1>10, <1>11,
      <1>12, <1>13, <1>14, <1>15, <1>16, <1>17, <1>18, <1>19, <1>20, <1>21,
      <1>22, <1>23, <1>24, <1>25, <1>26, <1>27 DEF Next, Updates, Visit, Grows

(* The invariant strengthened with the progress of the loop.               *)
THEOREM BaseAndProgress == Spec => [](Base /\ Progress)
<1>1. Init => Progress
  BY ThreadKinds DEF Init, Progress
<1>2. (\A s \in Updaters : ProgressOf(s)') => Progress'
  BY DEF Progress, ProgressOf
<1>3. Base /\ Progress /\ [Next]_vars => Progress'
  BY <1>2, ProgressStep
<1> QED BY <1>1, <1>3, BaseInvariant, PTL DEF Spec

(* A call that returns success has changed the primary and every intact    *)
(* backup of the file system as it is then, for every number of groups and *)
(* backups, whatever failed, raced or crashed before.                      *)
THEOREM SuccessIsComplete == Spec => []UpdatedEverywhere
<1>1. Base /\ Progress => UpdatedEverywhere
  <2> SUFFICES ASSUME Base, Progress, NEW t \in Threads, Succeeds(t),
                      NEW g \in {PrimaryGroup} \cup (Backups(ngroups) \ bad)
               PROVE  sb[g][field[t]] = arg[t]
    BY DEF UpdatedEverywhere
  <2>1. Reached(t) /\ Passed(t, Len(Visits))
    BY DEF Succeeds, Progress
  <2>2. CASE g = PrimaryGroup
    BY <2>1, <2>2 DEF Reached
  <2>3. CASE g \in Backups(ngroups) \ bad
    <3>1. PICK k \in DOMAIN Visits : Visits[k] = g
      BY <2>3 DEF Backups
    <3>2. k \in 1 .. Len(Visits)
      BY <3>1, VisitsAssumption
    <3>3. Wanted(t, k)
      BY <2>1, <2>3, <3>1 DEF Wanted, Backups, Reached
    <3> QED BY <2>1, <3>1, <3>2, <3>3 DEF Passed
  <2> QED BY <2>2, <2>3
<1> QED BY <1>1, BaseAndProgress, PTL

-----------------------------------------------------------------------------
(* The primary is first                                                    *)

(* A backup changes only to what the primary holds.                        *)
Follows ==
  \A g \in Groups \ {PrimaryGroup}, f \in {"label", "uuid"} :
    sb'[g][f] # sb[g][f] => sb'[g][f] = sb'[PrimaryGroup][f]

(* A step that leaves every superblock alone is harmless.                  *)
LEMMA SameFollows ==
  ASSUME UNCHANGED sb
  PROVE  Follows
BY DEF Follows

(* A call that writes a backup does so while the primary has its argument. *)
LEMMA WriteFollows ==
  ASSUME TypeOK, NEW t \in Threads, NEW g \in Groups, sb' = func(t, g),
         g = PrimaryGroup \/ Reached(t)
  PROVE  Follows
<1> SUFFICES ASSUME NEW h \in Groups \ {PrimaryGroup}, NEW f \in {"label", "uuid"},
                    sb'[h][f] # sb[h][f]
             PROVE  sb'[h][f] = sb'[PrimaryGroup][f]
  BY DEF Follows
<1>1. h = g /\ f = field[t]
  BY FuncChanges
<1>2. sb'[h][f] = arg[t]
  BY <1>1, FuncChanges
<1>3. sb'[PrimaryGroup][f] = sb[PrimaryGroup][f]
  BY <1>1, FuncChanges, GroupsFacts
<1> QED BY <1>1, <1>2, <1>3 DEF Reached

(* Every step but a crash lets the backups follow the primary.             *)
LEMMA FollowsStep ==
  ASSUME Base, Progress, [Next]_vars
  PROVE  Crash \/ Follows
<1>1. ASSUME NEW t \in Updaters, Call(t) PROVE Crash \/ Follows
  BY <1>1, SameFollows DEF Call, store
<1>2. ASSUME NEW t \in Updaters, TakeFlag(t) PROVE Crash \/ Follows
  BY <1>2, SameFollows DEF TakeFlag, store
<1>3. ASSUME NEW t \in Updaters, Busy(t) PROVE Crash \/ Follows
  BY <1>3, SameFollows DEF Busy, store
<1>4. ASSUME NEW t \in Updaters, StartHandle(t) PROVE Crash \/ Follows
  BY <1>4, SameFollows DEF StartHandle, store
<1>5. ASSUME NEW t \in Updaters, StartFails(t) PROVE Crash \/ Follows
  BY <1>5, SameFollows DEF StartFails, store
<1>6. ASSUME NEW t \in Updaters, UpdatePrimary(t) PROVE Crash \/ Follows
  BY <1>6, WriteFollows, ThreadKinds, GroupsFacts DEF UpdatePrimary, Base
<1>7. ASSUME NEW t \in Updaters, PrimaryFails(t) PROVE Crash \/ Follows
  <2>1. sb' = sb \/ sb' = func(t, PrimaryGroup)
    BY <1>7 DEF PrimaryFails
  <2> QED BY <2>1, SameFollows, WriteFollows, ThreadKinds, GroupsFacts
      DEF Base
<1>8. ASSUME NEW t \in Updaters, SkipGroup(t) PROVE Crash \/ Follows
  BY <1>8, SameFollows DEF SkipGroup, store
<1>9. ASSUME NEW t \in Updaters, BadChecksum(t) PROVE Crash \/ Follows
  BY <1>9, SameFollows DEF BadChecksum, store
<1>10. ASSUME NEW t \in Updaters, UpdateJournalled(t) PROVE Crash \/ Follows
  <2>1. Visiting(t) /\ (sb' = sb \/ sb' = func(t, grp(t)))
    BY <1>10 DEF UpdateJournalled, Intact, IsBackup
  <2>2. grp(t) \in Groups /\ Reached(t)
    BY <2>1, VisitedExists, ThreadKinds DEF Base, Progress, Visiting
  <2> QED BY <2>1, <2>2, SameFollows, WriteFollows, ThreadKinds DEF Base
<1>11. ASSUME NEW t \in Updaters, UpdateDirect(t) PROVE Crash \/ Follows
  <2>1. Visiting(t) /\ (sb' = sb \/ sb' = func(t, grp(t)))
    BY <1>11 DEF UpdateDirect, Intact, IsBackup
  <2>2. grp(t) \in Groups /\ Reached(t)
    BY <2>1, VisitedExists, ThreadKinds DEF Base, Progress, Visiting
  <2> QED BY <2>1, <2>2, SameFollows, WriteFollows, ThreadKinds DEF Base
<1>12. ASSUME NEW t \in Updaters, BackupFails(t) PROVE Crash \/ Follows
  <2>1. Visiting(t) /\ (sb' = sb \/ sb' = func(t, grp(t)))
    BY <1>12 DEF BackupFails, Intact, IsBackup
  <2>2. grp(t) \in Groups /\ Reached(t)
    BY <2>1, VisitedExists, ThreadKinds DEF Base, Progress, Visiting
  <2> QED BY <2>1, <2>2, SameFollows, WriteFollows, ThreadKinds DEF Base
<1>13. ASSUME NEW t \in Updaters, LoopEnds(t) PROVE Crash \/ Follows
  BY <1>13, SameFollows DEF LoopEnds, store
<1>14. ASSUME NEW t \in Updaters, StopEarly(t) PROVE Crash \/ Follows
  BY <1>14, SameFollows DEF StopEarly, store
<1>15. ASSUME NEW t \in Updaters, CloseJournal(t) PROVE Crash \/ Follows
  BY <1>15, SameFollows DEF CloseJournal, store
<1>16. ASSUME NEW t \in Updaters, Out(t) PROVE Crash \/ Follows
  BY <1>16, SameFollows DEF Out, store
<1>17. ASSUME NEW t \in Updaters, DropWrite(t) PROVE Crash \/ Follows
  BY <1>17, SameFollows DEF DropWrite, store
<1>18. ASSUME NEW t \in Resizers, BeginResize(t) PROVE Crash \/ Follows
  BY <1>18, SameFollows DEF BeginResize, store
<1>19. ASSUME NEW t \in Resizers, Grow(t) PROVE Crash \/ Follows
  <2>1. \A g \in Groups : sb'[g] = sb[g] \/ sb'[g] = sb[PrimaryGroup]
    BY <1>19 DEF Grow
  <2>2. sb'[PrimaryGroup] = sb[PrimaryGroup]
    BY <2>1, GroupsFacts
  <2> QED BY <2>1, <2>2 DEF Follows
<1>20. ASSUME NEW t \in Resizers, GrowFails(t) PROVE Crash \/ Follows
  BY <1>20, SameFollows DEF GrowFails, store
<1>21. ASSUME NEW t \in Resizers, Flush(t) PROVE Crash \/ Follows
  BY <1>21, SameFollows DEF Flush, store
<1>22. ASSUME NEW t \in Resizers, EndResize(t) PROVE Crash \/ Follows
  BY <1>22, SameFollows DEF EndResize, store
<1>23. ASSUME Commit PROVE Crash \/ Follows
  BY <1>23, SameFollows DEF Commit, store
<1>24. ASSUME Checkpoint PROVE Crash \/ Follows
  BY <1>24, SameFollows DEF Checkpoint, store
<1>25. ASSUME Abort PROVE Crash \/ Follows
  BY <1>25, SameFollows DEF Abort, store
<1>26. ASSUME Crash PROVE Crash \/ Follows
  BY <1>26
<1>27. ASSUME UNCHANGED vars PROVE Crash \/ Follows
  BY <1>27, SameFollows DEF vars, store, locals, Base, Follows
<1> QED
  BY <1>1, <1>2, <1>3, <1>4, <1>5, <1>6, <1>7, <1>8, <1>9, <1>10, <1>11,
      <1>12, <1>13, <1>14, <1>15, <1>16, <1>17, <1>18, <1>19, <1>20, <1>21,
      <1>22, <1>23, <1>24, <1>25, <1>26, <1>27 DEF Next, Updates, Visit, Grows

(* Apart from recovery, no step gives a backup a value that the primary    *)
(* does not hold.                                                          *)
THEOREM PrimaryIsFirst == Spec => PrimaryFirst
<1>1. Base /\ Progress /\ [Next]_vars =>
        [\/ Crash
         \/ \A g \in Groups \ {PrimaryGroup}, f \in {"label", "uuid"} :
              sb'[g][f] # sb[g][f] => sb'[g][f] = sb'[PrimaryGroup][f]]_vars
  BY FollowsStep DEF Follows
<1> QED BY <1>1, BaseAndProgress, PTL DEF Spec, PrimaryFirst

-----------------------------------------------------------------------------
(* The two backups that are journalled                                     *)

(* The backups among the first k - 1 visits.                               *)
Seen(k) == {g \in Backups(MaxGroups) : \E j \in 1 .. k - 1 : Visits[j] = g}
SeenCount(k) == Cardinality(Seen(k))

(* Each visit to a backup adds one.                                        *)
LEMMA SeenNext ==
  ASSUME NEW k \in 1 .. Len(Visits)
  PROVE  /\ IsFiniteSet(Seen(k)) /\ IsFiniteSet(Seen(k + 1))
         /\ SeenCount(k) \in Nat /\ SeenCount(k + 1) \in Nat
         /\ Visits[k] \in Backups(MaxGroups) => SeenCount(k + 1) = SeenCount(k) + 1
         /\ Visits[k] \notin Backups(MaxGroups) => SeenCount(k + 1) = SeenCount(k)
         /\ Seen(k) \subseteq Seen(k + 1)
<1>1. /\ Seen(k) \subseteq 0 .. MaxGroups - 1
      /\ Seen(k + 1) \subseteq 0 .. MaxGroups - 1
      /\ IsFiniteSet(0 .. MaxGroups - 1)
  BY FS_Interval, GroupsFacts DEF Seen, Backups, Groups
<1>2. IsFiniteSet(Seen(k)) /\ IsFiniteSet(Seen(k + 1))
  BY <1>1, FS_Subset
<1>3. SeenCount(k) \in Nat /\ SeenCount(k + 1) \in Nat
  BY <1>2, FS_CardinalityType DEF SeenCount
<1>4. k \in Nat /\ \A j \in 1 .. k : j = k \/ j \in 1 .. k - 1
  BY VisitsFacts
<1>5. Seen(k) \subseteq Seen(k + 1)
  BY <1>4 DEF Seen
<1>6. CASE Visits[k] \in Backups(MaxGroups)
  <2>1. Seen(k + 1) = Seen(k) \cup {Visits[k]}
    BY <1>4, <1>6 DEF Seen
  <2>2. \A j \in 1 .. k - 1 : Visits[j] # Visits[k]
    <3> TAKE j \in 1 .. k - 1
    <3>1. j \in 1 .. Len(Visits) /\ j < k
      BY <1>4, VisitsFacts
    <3> QED BY <3>1, VisitsFacts
  <2>3. Visits[k] \notin Seen(k)
    BY <2>2 DEF Seen
  <2> QED BY <1>2, <1>3, <1>5, <1>6, <2>1, <2>3, FS_AddElement DEF SeenCount
<1>7. CASE Visits[k] \notin Backups(MaxGroups)
  <2>1. Seen(k + 1) = Seen(k)
    BY <1>4, <1>5, <1>7 DEF Seen
  <2> QED BY <1>2, <1>3, <1>5, <1>7, <2>1 DEF SeenCount
<1> QED BY <1>6, <1>7

(* At first none.                                                          *)
LEMMA SeenNone == SeenCount(1) = 0
<1>1. Seen(1) = {}
  BY DEF Seen
<1> QED BY <1>1, FS_EmptySet DEF SeenCount

(* What is seen before a backup is what is before it.                      *)
LEMMA SeenIsBefore ==
  ASSUME NEW k \in 1 .. Len(Visits)
  PROVE  Before(Visits[k]) = Seen(k)
<1>1. ASSUME NEW g \in Backups(MaxGroups), g < Visits[k]
      PROVE  g \in Seen(k)
  <2>1. PICK j \in 1 .. Len(Visits) : Visits[j] = g
    BY VisitsAssumption DEF Backups
  <2>2. ~(k < j) /\ j # k
    BY <1>1, <2>1, VisitsFacts
  <2> QED BY <2>1, <2>2, VisitsFacts DEF Seen
<1>2. ASSUME NEW g \in Seen(k)
      PROVE  g < Visits[k]
  <2>1. PICK j \in 1 .. k - 1 : Visits[j] = g
    BY DEF Seen
  <2>2. j \in 1 .. Len(Visits) /\ j < k
    BY VisitsFacts
  <2> QED BY <2>1, <2>2, VisitsFacts
<1> QED BY <1>1, <1>2 DEF Before, Seen

(* The group of a visit is journalled if fewer than two were seen.         *)
LEMMA SeenJournalled ==
  ASSUME NEW k \in 1 .. Len(Visits), Visits[k] \in Backups(MaxGroups)
  PROVE  Visits[k] \in Journalled <=> SeenCount(k) < 2
BY SeenIsBefore DEF Journalled, SeenCount

(* Once two were seen, all that are journalled were.                       *)
LEMMA SeenAllJournalled ==
  ASSUME NEW k \in 1 .. Len(Visits), SeenCount(k + 1) >= 2,
         NEW g \in Journalled
  PROVE  g \in Seen(k + 1)
<1>1. g \in Backups(MaxGroups) /\ Cardinality(Before(g)) < 2
  BY DEF Journalled
<1>2. PICK m \in 1 .. Len(Visits) : Visits[m] = g
  BY <1>1, VisitsAssumption DEF Backups
<1>3. CASE m <= k
  <2>1. m \in 1 .. (k + 1) - 1
    BY <1>3, VisitsFacts
  <2> QED BY <1>1, <1>2, <2>1 DEF Seen
<1>4. CASE k < m
  <2>1. Seen(k + 1) \subseteq Seen(m)
    BY <1>4, VisitsFacts DEF Seen
  <2>2. Before(g) = Seen(m)
    BY <1>2, SeenIsBefore
  <2>3. IsFiniteSet(Seen(m)) /\ SeenCount(m) \in Nat /\ SeenCount(k + 1) \in Nat
    BY SeenNext
  <2>4. SeenCount(k + 1) <= SeenCount(m)
    BY <2>1, <2>3, FS_Subset DEF SeenCount
  <2> QED BY <1>1, <2>2, <2>3, <2>4 DEF SeenCount
<1> QED BY <1>3, <1>4, VisitsFacts

(* While the handle is open i counts the backups seen; the loop stops it   *)
(* at the second.                                                          *)
CountOf(t) ==
  /\ pc[t] = "visit" /\ handle[t] => SeenCount(pos[t]) = i[t]
  /\ pc[t] = "visit" /\ ~handle[t] => SeenCount(pos[t]) >= 2
  /\ pc[t] = "stopearly" => SeenCount(pos[t] + 1) >= 2

Counting == \A t \in Updaters : CountOf(t)

(* A group that has a backup and is visited is one of the backups.         *)
LEMMA VisitedBackup ==
  ASSUME Base, NEW t \in Threads, Visiting(t)
  PROVE  /\ pos[t] \in 1 .. Len(Visits) /\ grp(t) = Visits[pos[t]]
         /\ IsBackup(t) <=> grp(t) \in Backups(MaxGroups)
         /\ grp(t) \in Groups
<1>1. /\ grp(t) \in Groups /\ pos[t] \in 1 .. Len(Visits)
      /\ grp(t) = Visits[pos[t]]
  BY VisitedExists DEF Base, grp
<1>2. grp(t) < MaxGroups
  BY <1>1, GroupsFacts DEF Groups
<1>3. pos[t] \in DOMAIN Visits
  BY <1>1, VisitsAssumption
<1> QED BY <1>1, <1>2, <1>3 DEF IsBackup, Backups

(* A visit counted by i.                                                   *)
LEMMA CountedOnce ==
  ASSUME Base, NEW t \in Updaters, CountOf(t), IsBackup(t), Counted(t), handle' = handle
  PROVE  CountOf(t)'
<1>1. /\ pos[t] \in 1 .. Len(Visits)
      /\ SeenCount(pos[t]) \in Nat
      /\ SeenCount(pos[t] + 1) = SeenCount(pos[t]) + 1
  BY ThreadKinds, VisitedBackup, SeenNext DEF IsBackup
<1>2. pc[t] = "visit" /\ i[t] \in Nat
  BY ThreadKinds DEF IsBackup, Visiting, Base, TypeOK
<1>3. handle[t] => i[t] <= 1
  BY <1>2, ThreadKinds DEF Base, Credits
<1>4. i'[t] = i[t] + 1
  BY ThreadKinds DEF Counted, Base, TypeOK
<1>5. CASE TwoDone(t)
  <2>1. pc'[t] = "stopearly" /\ pos' = pos
    BY <1>5, ThreadKinds DEF Counted, Base, TypeOK
  <2>2. SeenCount(pos[t] + 1) >= 2
    BY <1>1, <1>2, <1>5 DEF TwoDone, CountOf
  <2> QED BY <2>1, <2>2 DEF CountOf
<1>6. CASE ~TwoDone(t)
  <2>1. pc' = pc /\ pos'[t] = pos[t] + 1
    BY <1>6, ThreadKinds DEF Counted, Base, TypeOK
  <2> QED BY <1>1, <1>2, <1>4, <2>1 DEF CountOf
<1> QED BY <1>5, <1>6

(* No step miscounts.                                                      *)
LEMMA CountStep ==
  ASSUME Base, Counting, [Next]_vars
  PROVE  \A s \in Updaters : CountOf(s)'
<1>1. ASSUME NEW t \in Updaters, Call(t)
      PROVE  \A s \in Updaters : CountOf(s)'
  <2>1. \A s \in Updaters : s # t => CountOf(s)'
    BY <1>1, ThreadKinds DEF Call, Goto, locals, Base, TypeOK, Counting, CountOf
  <2>2. CountOf(t)'
    BY <1>1, ThreadKinds DEF Call, Goto, locals, Base, TypeOK, Counting, CountOf
  <2> QED BY <2>1, <2>2
<1>2. ASSUME NEW t \in Updaters, TakeFlag(t)
      PROVE  \A s \in Updaters : CountOf(s)'
  <2>1. \A s \in Updaters : s # t => CountOf(s)'
    BY <1>2, ThreadKinds DEF TakeFlag, MayTake, Goto, locals, Base, TypeOK,
       Counting, CountOf
  <2>2. CountOf(t)'
    BY <1>2, ThreadKinds DEF TakeFlag, MayTake, Goto, locals, Base, TypeOK,
       Counting, CountOf
  <2> QED BY <2>1, <2>2
<1>3. ASSUME NEW t \in Updaters, Busy(t)
      PROVE  \A s \in Updaters : CountOf(s)'
  <2>1. \A s \in Updaters : s # t => CountOf(s)'
    BY <1>3, ThreadKinds DEF Busy, MayTake, Goto, SetErr, locals, Base, TypeOK,
       Counting, CountOf
  <2>2. CountOf(t)'
    BY <1>3, ThreadKinds DEF Busy, MayTake, Goto, SetErr, locals, Base, TypeOK,
       Counting, CountOf
  <2> QED BY <2>1, <2>2
<1>4. ASSUME NEW t \in Updaters, StartHandle(t)
      PROVE  \A s \in Updaters : CountOf(s)'
  <2>1. \A s \in Updaters : s # t => CountOf(s)'
    BY <1>4, ThreadKinds DEF StartHandle, Goto, locals, Base, TypeOK, Counting,
       CountOf
  <2>2. CountOf(t)'
    BY <1>4, ThreadKinds DEF StartHandle, Goto, locals, Base, TypeOK, Counting,
       CountOf
  <2> QED BY <2>1, <2>2
<1>5. ASSUME NEW t \in Updaters, StartFails(t)
      PROVE  \A s \in Updaters : CountOf(s)'
  <2>1. \A s \in Updaters : s # t => CountOf(s)'
    BY <1>5, ThreadKinds DEF StartFails, Goto, SetErr, locals, Base, TypeOK,
       Counting, CountOf
  <2>2. CountOf(t)'
    BY <1>5, ThreadKinds DEF StartFails, Goto, SetErr, locals, Base, TypeOK,
       Counting, CountOf
  <2> QED BY <2>1, <2>2
<1>6. ASSUME NEW t \in Updaters, UpdatePrimary(t)
      PROVE  \A s \in Updaters : CountOf(s)'
  <2>1. \A s \in Updaters : s # t => CountOf(s)'
    BY <1>6, ThreadKinds DEF UpdatePrimary, Goto, locals, Base, TypeOK, Counting,
       CountOf
  <2>2. CountOf(t)'
    <3>1. pos[t] = 1 /\ i[t] = 0 /\ handle[t]
      BY <1>6, ThreadKinds DEF UpdatePrimary, Goto, Base, Control
    <3> QED
      BY <1>6, <3>1, SeenNone, ThreadKinds DEF UpdatePrimary, Goto, Base, TypeOK,
         CountOf
  <2> QED BY <2>1, <2>2
<1>7. ASSUME NEW t \in Updaters, PrimaryFails(t)
      PROVE  \A s \in Updaters : CountOf(s)'
  <2>1. \A s \in Updaters : s # t => CountOf(s)'
    BY <1>7, ThreadKinds DEF PrimaryFails, Goto, SetErr, locals, Base, TypeOK,
       Counting, CountOf
  <2>2. CountOf(t)'
    BY <1>7, ThreadKinds DEF PrimaryFails, Goto, SetErr, locals, Base, TypeOK,
       Counting, CountOf
  <2> QED BY <2>1, <2>2
<1>8. ASSUME NEW t \in Updaters, SkipGroup(t)
      PROVE  \A s \in Updaters : CountOf(s)'
  <2>1. \A s \in Updaters : s # t => CountOf(s)'
    BY <1>8, ThreadKinds DEF SkipGroup, Visiting, NextGroup, locals, Base, TypeOK,
       Counting, CountOf
  <2>2. CountOf(t)'
    <3>1. /\ pos[t] \in 1 .. Len(Visits) /\ Visits[pos[t]] \notin Backups(MaxGroups)
      BY <1>8, ThreadKinds, VisitedBackup DEF SkipGroup, IsBackup
    <3>2. SeenCount(pos[t] + 1) = SeenCount(pos[t])
      BY <3>1, SeenNext
    <3> QED
      BY <1>8, <3>2, ThreadKinds DEF SkipGroup, Visiting, NextGroup, Base, TypeOK,
         Counting, CountOf
  <2> QED BY <2>1, <2>2
<1>9. ASSUME NEW t \in Updaters, BadChecksum(t)
      PROVE  \A s \in Updaters : CountOf(s)'
  <2>1. \A s \in Updaters : s # t => CountOf(s)'
    BY <1>9, ThreadKinds DEF BadChecksum, IsBackup, Visiting, Counted, locals,
       Base, TypeOK, Counting, CountOf
  <2>2. CountOf(t)'
    BY <1>9, CountedOnce DEF BadChecksum, Counting
  <2> QED BY <2>1, <2>2
<1>10. ASSUME NEW t \in Updaters, UpdateJournalled(t)
      PROVE  \A s \in Updaters : CountOf(s)'
  <2>1. \A s \in Updaters : s # t => CountOf(s)'
    BY <1>10, ThreadKinds DEF UpdateJournalled, Intact, IsBackup, Visiting,
       Counted, locals, Base, TypeOK, Counting, CountOf
  <2>2. CountOf(t)'
    BY <1>10, CountedOnce DEF UpdateJournalled, Intact, Counting
  <2> QED BY <2>1, <2>2
<1>11. ASSUME NEW t \in Updaters, UpdateDirect(t)
      PROVE  \A s \in Updaters : CountOf(s)'
  <2>1. \A s \in Updaters : s # t => CountOf(s)'
    BY <1>11, ThreadKinds DEF UpdateDirect, Intact, IsBackup, Visiting, Counted,
       locals, Base, TypeOK, Counting, CountOf
  <2>2. CountOf(t)'
    BY <1>11, CountedOnce DEF UpdateDirect, Intact, Counting
  <2> QED BY <2>1, <2>2
<1>12. ASSUME NEW t \in Updaters, BackupFails(t)
      PROVE  \A s \in Updaters : CountOf(s)'
  <2>1. \A s \in Updaters : s # t => CountOf(s)'
    BY <1>12, ThreadKinds DEF BackupFails, IsBackup, Visiting, Failed, Goto,
       SetErr, locals, Base, TypeOK, Counting, CountOf
  <2>2. CountOf(t)'
    BY <1>12, ThreadKinds DEF BackupFails, IsBackup, Visiting, Failed, Goto,
       SetErr, locals, Base, TypeOK, Counting, CountOf
  <2> QED BY <2>1, <2>2
<1>13. ASSUME NEW t \in Updaters, LoopEnds(t)
      PROVE  \A s \in Updaters : CountOf(s)'
  <2>1. \A s \in Updaters : s # t => CountOf(s)'
    BY <1>13, ThreadKinds DEF LoopEnds, Goto, locals, Base, TypeOK, Counting,
       CountOf
  <2>2. CountOf(t)'
    BY <1>13, ThreadKinds DEF LoopEnds, Goto, locals, Base, TypeOK, Counting,
       CountOf
  <2> QED BY <2>1, <2>2
<1>14. ASSUME NEW t \in Updaters, StopEarly(t)
      PROVE  \A s \in Updaters : CountOf(s)'
  <2>1. \A s \in Updaters : s # t => CountOf(s)'
    BY <1>14, ThreadKinds DEF StopEarly, Goto, SetErr, locals, Base, TypeOK,
       Counting, CountOf
  <2>2. CountOf(t)'
    BY <1>14, ThreadKinds DEF StopEarly, Goto, SetErr, locals, Base, TypeOK,
       Counting, CountOf
  <2> QED BY <2>1, <2>2
<1>15. ASSUME NEW t \in Updaters, CloseJournal(t)
      PROVE  \A s \in Updaters : CountOf(s)'
  <2>1. \A s \in Updaters : s # t => CountOf(s)'
    BY <1>15, ThreadKinds DEF CloseJournal, Goto, Stopped, locals, Base, TypeOK,
       Counting, CountOf
  <2>2. CountOf(t)'
    BY <1>15, ThreadKinds DEF CloseJournal, Goto, Stopped, locals, Base, TypeOK,
       Counting, CountOf
  <2> QED BY <2>1, <2>2
<1>16. ASSUME NEW t \in Updaters, Out(t)
      PROVE  \A s \in Updaters : CountOf(s)'
  <2>1. \A s \in Updaters : s # t => CountOf(s)'
    BY <1>16, ThreadKinds DEF Out, ClearFlag, Goto, locals, Base, TypeOK,
       Counting, CountOf
  <2>2. CountOf(t)'
    BY <1>16, ThreadKinds DEF Out, ClearFlag, Goto, locals, Base, TypeOK,
       Counting, CountOf
  <2> QED BY <2>1, <2>2
<1>17. ASSUME NEW t \in Updaters, DropWrite(t)
      PROVE  \A s \in Updaters : CountOf(s)'
  <2>1. \A s \in Updaters : s # t => CountOf(s)'
    BY <1>17, ThreadKinds DEF DropWrite, Goto, SetErr, locals, Base, TypeOK,
       Counting, CountOf
  <2>2. CountOf(t)'
    BY <1>17, ThreadKinds DEF DropWrite, Goto, SetErr, locals, Base, TypeOK,
       Counting, CountOf
  <2> QED BY <2>1, <2>2
<1>18. ASSUME NEW t \in Resizers, BeginResize(t)
      PROVE  \A s \in Updaters : CountOf(s)'
  BY <1>18, ThreadKinds DEF BeginResize, MayTake, Goto, locals, Base, TypeOK,
     Counting, CountOf
<1>19. ASSUME NEW t \in Resizers, Grow(t)
      PROVE  \A s \in Updaters : CountOf(s)'
  BY <1>19, ThreadKinds DEF Grow, Goto, locals, Base, TypeOK, Counting, CountOf
<1>20. ASSUME NEW t \in Resizers, GrowFails(t)
      PROVE  \A s \in Updaters : CountOf(s)'
  BY <1>20, ThreadKinds DEF GrowFails, Goto, locals, Base, TypeOK, Counting, CountOf
<1>21. ASSUME NEW t \in Resizers, Flush(t)
      PROVE  \A s \in Updaters : CountOf(s)'
  BY <1>21, ThreadKinds DEF Flush, Goto, Flushed, locals, Base, TypeOK, Counting,
     CountOf
<1>22. ASSUME NEW t \in Resizers, EndResize(t)
      PROVE  \A s \in Updaters : CountOf(s)'
  BY <1>22, ThreadKinds DEF EndResize, Goto, locals, Base, TypeOK, Counting, CountOf
<1>23. ASSUME Commit
      PROVE  \A s \in Updaters : CountOf(s)'
  BY <1>23 DEF Commit, locals, Counting, CountOf
<1>24. ASSUME Checkpoint
      PROVE  \A s \in Updaters : CountOf(s)'
  BY <1>24 DEF Checkpoint, locals, Counting, CountOf
<1>25. ASSUME Abort
      PROVE  \A s \in Updaters : CountOf(s)'
  BY <1>25 DEF Abort, locals, Counting, CountOf
<1>26. ASSUME Crash
      PROVE  \A s \in Updaters : CountOf(s)'
  BY <1>26, ThreadKinds DEF Crash, CountOf
<1>27. ASSUME UNCHANGED vars
      PROVE  \A s \in Updaters : CountOf(s)'
  BY <1>27 DEF vars, locals, Counting, CountOf
<1> QED
  BY <1>1, <1>2, <1>3, <1>4, <1>5, <1>6, <1>7, <1>8, <1>9, <1>10, <1>11,
     <1>12, <1>13, <1>14, <1>15, <1>16, <1>17, <1>18, <1>19, <1>20, <1>21,
     <1>22, <1>23, <1>24, <1>25, <1>26, <1>27 DEF Next, Updates, Visit, Grows

(* So i counts them in every state.                                        *)
LEMMA CountInvariant == Spec => [](Base /\ Counting)
<1>1. Init => Counting
  BY ThreadKinds DEF Init, Counting, CountOf
<1>2. Base /\ Counting /\ [Next]_vars => Counting'
  BY CountStep DEF Counting
<1> QED BY <1>1, <1>2, BaseInvariant, PTL DEF Spec

-----------------------------------------------------------------------------
(* What is written past the journal stays                                  *)

Direct == Backups(MaxGroups) \ Journalled
Clean == (txn \cup log) \cap Direct = {}

(* The journal holds no copy of a backup that is written past it, but for  *)
(* the moments between the growing of a resizer and its flush.             *)
CleanInv ==
  /\ ~aborted /\ (\A r \in Resizers : pc[r] # "flush") => Clean
  /\ \A t \in Updaters : pc[t] \in {"primary", "visit", "stopearly"} => Clean

(* The backup that a visit journals is one of the two.                     *)
LEMMA VisitJournalled ==
  ASSUME Base, NEW t \in Updaters, CountOf(t), IsBackup(t)
  PROVE  /\ handle[t] => grp(t) \in Journalled
         /\ ~handle[t] => grp(t) \in Direct
<1>1. /\ pos[t] \in 1 .. Len(Visits) /\ grp(t) = Visits[pos[t]]
      /\ grp(t) \in Backups(MaxGroups)
  BY ThreadKinds, VisitedBackup DEF IsBackup
<1>2. SeenCount(pos[t]) \in Nat
  BY <1>1, SeenNext
<1>3. grp(t) \in Journalled <=> SeenCount(pos[t]) < 2
  BY <1>1, SeenJournalled
<1>4. handle[t] => SeenCount(pos[t]) < 2
  BY ThreadKinds DEF IsBackup, Visiting, CountOf, Base, Credits, TypeOK
<1>5. ~handle[t] => SeenCount(pos[t]) >= 2
  BY DEF IsBackup, Visiting, CountOf
<1> QED BY <1>1, <1>2, <1>3, <1>4, <1>5 DEF Direct

(* The primary is always journalled.                                       *)
LEMMA PrimaryNotDirect == PrimaryGroup \notin Direct /\ Journalled \cap Direct = {}
BY DEF Direct, Backups

(* No step leaves a copy of a direct backup in the journal.                *)
LEMMA CleanStep ==
  ASSUME Base, Counting, CleanInv, [Next]_vars
  PROVE  CleanInv'
<1>1. ASSUME NEW t \in Updaters, Call(t)
      PROVE  CleanInv'
  BY <1>1, ThreadKinds DEF Call, Goto, store, locals, Base, TypeOK, CleanInv, Clean
<1>2. ASSUME NEW t \in Updaters, TakeFlag(t)
      PROVE  CleanInv'
  BY <1>2, ThreadKinds DEF TakeFlag, MayTake, Goto, store, locals, Base, TypeOK,
     CleanInv, Clean
<1>3. ASSUME NEW t \in Updaters, Busy(t)
      PROVE  CleanInv'
  BY <1>3, ThreadKinds DEF Busy, MayTake, Goto, SetErr, store, locals, Base,
     TypeOK, CleanInv, Clean
<1>4. ASSUME NEW t \in Updaters, StartHandle(t)
      PROVE  CleanInv'
  <2>1. t \in Inside
    BY <1>4, ThreadKinds DEF StartHandle, Goto, Inside
  <2>2. \A r \in Resizers : pc[r] # "flush"
    BY <2>1, OthersOutside, ThreadKinds
  <2>3. Clean'
    BY <1>4, <2>2 DEF StartHandle, store, CleanInv, Clean
  <2> QED BY <2>3 DEF CleanInv
<1>5. ASSUME NEW t \in Updaters, StartFails(t)
      PROVE  CleanInv'
  BY <1>5, ThreadKinds DEF StartFails, Goto, SetErr, store, locals, Base, TypeOK,
     CleanInv, Clean
<1>6. ASSUME NEW t \in Updaters, UpdatePrimary(t)
      PROVE  CleanInv'
  <2>1. t \in Inside
    BY <1>6, ThreadKinds DEF UpdatePrimary, Goto, Inside
  <2>2. \A r \in Resizers : pc[r] # "flush"
    BY <2>1, OthersOutside, ThreadKinds
  <2>3. Clean'
    BY <1>6, PrimaryNotDirect DEF UpdatePrimary, Goto, CleanInv, Clean
  <2> QED BY <2>3 DEF CleanInv
<1>7. ASSUME NEW t \in Updaters, PrimaryFails(t)
      PROVE  CleanInv'
  <2>1. t \in Inside
    BY <1>7, ThreadKinds DEF PrimaryFails, Goto, SetErr, Inside
  <2>2. \A r \in Resizers : pc[r] # "flush"
    BY <2>1, OthersOutside, ThreadKinds
  <2>3. Clean'
    BY <1>7, PrimaryNotDirect DEF PrimaryFails, Goto, SetErr, CleanInv, Clean
  <2> QED BY <2>3 DEF CleanInv
<1>8. ASSUME NEW t \in Updaters, SkipGroup(t)
      PROVE  CleanInv'
  BY <1>8, ThreadKinds DEF SkipGroup, Visiting, NextGroup, store, locals, Base,
     TypeOK, CleanInv, Clean
<1>9. ASSUME NEW t \in Updaters, BadChecksum(t)
      PROVE  CleanInv'
  BY <1>9, ThreadKinds DEF BadChecksum, IsBackup, Visiting, Counted, store,
     locals, Base, TypeOK, CleanInv, Clean
<1>10. ASSUME NEW t \in Updaters, UpdateJournalled(t)
      PROVE  CleanInv'
  <2>1. t \in Inside
    BY <1>10, ThreadKinds DEF UpdateJournalled, Intact, IsBackup, Visiting,
       Counted, Inside
  <2>2. \A r \in Resizers : pc[r] # "flush"
    BY <2>1, OthersOutside, ThreadKinds
  <2>3. grp(t) \notin Direct
    BY <1>10, VisitJournalled, PrimaryNotDirect DEF UpdateJournalled, Intact,
       Counting
  <2>4. Clean'
    BY <1>10, <2>3 DEF UpdateJournalled, Intact, IsBackup, Visiting, CleanInv, Clean
  <2> QED BY <2>4 DEF CleanInv
<1>11. ASSUME NEW t \in Updaters, UpdateDirect(t)
      PROVE  CleanInv'
  BY <1>11, ThreadKinds DEF UpdateDirect, Intact, IsBackup, Visiting, Counted,
     store, locals, Base, TypeOK, CleanInv, Clean
<1>12. ASSUME NEW t \in Updaters, BackupFails(t)
      PROVE  CleanInv'
  BY <1>12, ThreadKinds DEF BackupFails, IsBackup, Visiting, Failed, Goto, SetErr,
     store, locals, Base, TypeOK, CleanInv, Clean
<1>13. ASSUME NEW t \in Updaters, LoopEnds(t)
      PROVE  CleanInv'
  BY <1>13, ThreadKinds DEF LoopEnds, Goto, store, locals, Base, TypeOK, CleanInv,
     Clean
<1>14. ASSUME NEW t \in Updaters, StopEarly(t)
      PROVE  CleanInv'
  BY <1>14, ThreadKinds DEF StopEarly, Goto, SetErr, store, locals, Base, TypeOK,
     CleanInv, Clean
<1>15. ASSUME NEW t \in Updaters, CloseJournal(t)
      PROVE  CleanInv'
  BY <1>15, ThreadKinds DEF CloseJournal, Goto, Stopped, store, locals, Base,
     TypeOK, CleanInv, Clean
<1>16. ASSUME NEW t \in Updaters, Out(t)
      PROVE  CleanInv'
  BY <1>16, ThreadKinds DEF Out, ClearFlag, Goto, store, locals, Base, TypeOK,
     CleanInv, Clean
<1>17. ASSUME NEW t \in Updaters, DropWrite(t)
      PROVE  CleanInv'
  BY <1>17, ThreadKinds DEF DropWrite, Goto, SetErr, store, locals, Base, TypeOK,
     CleanInv, Clean
<1>18. ASSUME NEW t \in Resizers, BeginResize(t)
      PROVE  CleanInv'
  BY <1>18, ThreadKinds DEF BeginResize, Goto, store, Base, TypeOK, CleanInv, Clean
<1>19. ASSUME NEW t \in Resizers, Grow(t)
      PROVE  CleanInv'
  <2>1. t \in Inside
    BY <1>19, ThreadKinds DEF Grow, Goto, Inside
  <2>2. \A s \in Threads : s # t => pc[s] \in {"idle", "flag", "drop"} /\ pc'[s] = pc[s]
    BY <1>19, <2>1, OthersOutside, ThreadKinds DEF Grow, Goto, Base, TypeOK
  <2>3. \A s \in Updaters : pc'[s] \notin {"primary", "visit", "stopearly"}
    BY <2>2, ThreadKinds
  <2>4. t \in Resizers /\ pc'[t] = "flush"
    BY <1>19, ThreadKinds DEF Grow, Goto, Base, TypeOK
  <2> QED BY <2>3, <2>4 DEF CleanInv
<1>20. ASSUME NEW t \in Resizers, GrowFails(t)
      PROVE  CleanInv'
  <2>1. t \in Inside
    BY <1>20, ThreadKinds DEF GrowFails, Goto, Inside
  <2>2. \A s \in Threads : s # t => pc[s] \in {"idle", "flag", "drop"} /\ pc'[s] = pc[s]
    BY <1>20, <2>1, OthersOutside, ThreadKinds DEF GrowFails, Goto, Base, TypeOK
  <2>3. \A s \in Updaters : pc'[s] \notin {"primary", "visit", "stopearly"}
    BY <2>2, ThreadKinds
  <2>4. t \in Resizers /\ pc'[t] = "flush"
    BY <1>20, ThreadKinds DEF GrowFails, Goto, Base, TypeOK
  <2> QED BY <2>3, <2>4 DEF CleanInv
<1>21. ASSUME NEW t \in Resizers, Flush(t)
      PROVE  CleanInv'
  <2>1. t \in Inside
    BY <1>21, ThreadKinds DEF Flush, Goto, Flushed, Inside
  <2>2. \A s \in Threads : s # t => pc[s] \in {"idle", "flag", "drop"} /\ pc'[s] = pc[s]
    BY <1>21, <2>1, OthersOutside, ThreadKinds DEF Flush, Goto, Flushed, Base,
       TypeOK
  <2>3. \A s \in Updaters : pc'[s] \notin {"primary", "visit", "stopearly"}
    BY <2>2, ThreadKinds
  <2>4. ~aborted' => Clean'
    BY <1>21 DEF Flush, Flushed, Clean
  <2> QED BY <2>3, <2>4 DEF CleanInv
<1>22. ASSUME NEW t \in Resizers, EndResize(t)
      PROVE  CleanInv'
  <2>1. t \in Inside
    BY <1>22, ThreadKinds DEF EndResize, Goto, Inside
  <2>2. \A s \in Threads : s # t => pc[s] \in {"idle", "flag", "drop"} /\ pc'[s] = pc[s]
    BY <1>22, <2>1, OthersOutside, ThreadKinds DEF EndResize, Goto, Base, TypeOK
  <2>3. \A s \in Updaters : pc'[s] \notin {"primary", "visit", "stopearly"}
    BY <2>2, ThreadKinds
  <2>4. \A r \in Resizers : pc[r] # "flush"
    BY <1>22, <2>2, ThreadKinds DEF EndResize, Goto
  <2>5. ~aborted' => Clean'
    BY <1>22, <2>4 DEF EndResize, store, CleanInv, Clean
  <2> QED BY <2>3, <2>5 DEF CleanInv
<1>23. ASSUME Commit
      PROVE  CleanInv'
  BY <1>23 DEF Commit, CommitOnly, CleanInv, Clean
<1>24. ASSUME Checkpoint
      PROVE  CleanInv'
  BY <1>24 DEF Checkpoint, CleanInv, Clean
<1>25. ASSUME Abort
      PROVE  CleanInv'
  BY <1>25 DEF Abort, CleanInv, Clean
<1>26. ASSUME Crash
      PROVE  CleanInv'
  BY <1>26, ThreadKinds DEF Crash, CleanInv, Clean
<1>27. ASSUME UNCHANGED vars
      PROVE  CleanInv'
  BY <1>27 DEF vars, store, CleanInv, Clean
<1> QED
  BY <1>1, <1>2, <1>3, <1>4, <1>5, <1>6, <1>7, <1>8, <1>9, <1>10, <1>11,
     <1>12, <1>13, <1>14, <1>15, <1>16, <1>17, <1>18, <1>19, <1>20, <1>21,
     <1>22, <1>23, <1>24, <1>25, <1>26, <1>27 DEF Next, Updates, Visit, Grows

(* The backups past the second among the first n visits have the argument  *)
(* on the disk.                                                            *)
PastJournal(t, n) ==
  \A k \in 1 .. n : Wanted(t, k) /\ Visits[k] \in Direct =>
    disk.sb[Visits[k]][field[t]] = arg[t]

OnDisk(t) ==
  /\ pc[t] = "visit" => PastJournal(t, pos[t] - 1)
  /\ pc[t] = "stopearly" => PastJournal(t, pos[t])
  /\ pc[t] \in {"outjournal", "out"} /\ err[t] = "ok" => PastJournal(t, Len(Visits))

AllOnDisk == \A t \in Updaters : OnDisk(t)

(* A step that changes none of this.                                       *)
LEMMA SameOnDisk ==
  ASSUME NEW t \in Updaters, OnDisk(t),
         UNCHANGED <<pc[t], err[t], limit[t], pos[t], field[t], arg[t], disk, bad>>
  PROVE  OnDisk(t)'
BY DEF OnDisk, PastJournal, Wanted

(* Outside the loop there is nothing to keep.                              *)
LEMMA OutsideOnDisk ==
  ASSUME NEW t \in Updaters, pc'[t] \in {"idle", "flag", "start", "primary", "drop"}
  PROVE  OnDisk(t)'
BY DEF OnDisk

(* A visit that writes nothing past the journal, of a backup that is not   *)
(* wanted or is journalled.                                                *)
LEMMA NotDirect ==
  ASSUME Base, NEW t \in Updaters, pos[t] \in 1 .. Len(Visits), PastJournal(t, pos[t] - 1),
         ~Wanted(t, pos[t]) \/ Visits[pos[t]] \notin Direct
  PROVE  PastJournal(t, pos[t])
BY VisitsFacts DEF PastJournal

(* One that does.                                                          *)
LEMMA DirectWrite ==
  ASSUME Base, NEW t \in Updaters, Visiting(t), PastJournal(t, pos[t] - 1), grp(t) \notin log,
         sb' = func(t, grp(t)), disk' = Written(grp(t), sb'[grp(t)])
  PROVE  \A k \in 1 .. pos[t] : Wanted(t, k) /\ Visits[k] \in Direct =>
           disk'.sb[Visits[k]][field[t]] = arg[t]
<1>1. /\ grp(t) \in Groups /\ pos[t] \in 1 .. Len(Visits) /\ grp(t) = Visits[pos[t]]
  BY ThreadKinds, VisitedBackup
<1>2. sb'[grp(t)][field[t]] = arg[t]
  BY <1>1, FuncChanges, ThreadKinds DEF Base
<1>3. disk.sb \in [Groups -> Superblocks]
  BY DEF Base, TypeOK
<1>4. disk'.sb = [disk.sb EXCEPT ![grp(t)] = sb'[grp(t)]]
  BY DEF Written, Base, TypeOK
<1>5. /\ disk'.sb[grp(t)] = sb'[grp(t)]
      /\ \A h \in Groups : h # grp(t) => disk'.sb[h] = disk.sb[h]
  BY <1>1, <1>3, <1>4
<1> SUFFICES ASSUME NEW k \in 1 .. pos[t], Wanted(t, k), Visits[k] \in Direct
             PROVE  disk'.sb[Visits[k]][field[t]] = arg[t]
  OBVIOUS
<1>6. Visits[k] \in Groups
  BY DEF Direct, Backups
<1>7. CASE Visits[k] = grp(t)
  BY <1>2, <1>5, <1>7
<1>8. CASE Visits[k] # grp(t)
  <2>1. k \in 1 .. pos[t] - 1
    BY <1>1, <1>8, VisitsFacts
  <2> QED BY <1>5, <1>6, <1>8, <2>1 DEF PastJournal
<1> QED BY <1>7, <1>8

(* At the end of the loop nothing is left.                                 *)
LEMMA DirectLeft ==
  ASSUME TypeOK, NEW t \in Threads, PastJournal(t, pos[t] - 1), ~Remains(t)
  PROVE  PastJournal(t, Len(Visits))
<1>1. pos[t] \in 1 .. Len(Visits) + 1 /\ limit[t] \in Nat
  BY GroupsFacts DEF TypeOK
<1>2. ASSUME NEW k \in 1 .. Len(Visits), Wanted(t, k)
      PROVE  k \in 1 .. pos[t] - 1
  <2>1. CASE pos[t] = Len(Visits) + 1
    BY <2>1, VisitsFacts
  <2>2. CASE pos[t] \in 1 .. Len(Visits)
    <3>1. ~(Visits[pos[t]] < limit[t])
      BY <2>2, VisitsFacts DEF Remains, grp
    <3>2. Visits[k] < Visits[pos[t]]
      BY <1>1, <1>2, <2>2, <3>1, VisitsFacts DEF Wanted
    <3> QED BY <2>2, <3>2, VisitsFacts
  <2> QED BY <1>1, <2>1, <2>2, VisitsFacts
<1> QED BY <1>2 DEF PastJournal

(* No step takes back what is on the disk.                                 *)
LEMMA DiskStep ==
  ASSUME Base, Counting, CleanInv, AllOnDisk, [Next]_vars
  PROVE  \A s \in Updaters : OnDisk(s)'
<1>1. ASSUME NEW t \in Updaters, Call(t)
      PROVE  \A s \in Updaters : OnDisk(s)'
  <2>0. PICK f \in Fields, v \in Values :
          /\ field' = [field EXCEPT ![t] = f]
          /\ arg' = [arg EXCEPT ![t] = v]
    BY <1>1 DEF Call
  <2>1. ASSUME NEW s \in Updaters, s # t
        PROVE  OnDisk(s)'
    BY <1>1, <2>0, <2>1, SameOnDisk, ThreadKinds DEF Call, Goto, store, Base,
       TypeOK, AllOnDisk
  <2>2. OnDisk(t)'
    BY <1>1, OutsideOnDisk, ThreadKinds DEF Call, Goto, Base, TypeOK
  <2> QED BY <2>1, <2>2
<1>2. ASSUME NEW t \in Updaters, TakeFlag(t)
      PROVE  \A s \in Updaters : OnDisk(s)'
  <2>1. ASSUME NEW s \in Updaters, s # t
        PROVE  OnDisk(s)'
    BY <1>2, <2>1, SameOnDisk, ThreadKinds DEF TakeFlag, MayTake, Goto, store,
       locals, Base, TypeOK, AllOnDisk
  <2>2. OnDisk(t)'
    BY <1>2, OutsideOnDisk, ThreadKinds DEF TakeFlag, MayTake, Goto, Base, TypeOK
  <2> QED BY <2>1, <2>2
<1>3. ASSUME NEW t \in Updaters, Busy(t)
      PROVE  \A s \in Updaters : OnDisk(s)'
  <2>1. ASSUME NEW s \in Updaters, s # t
        PROVE  OnDisk(s)'
    BY <1>3, <2>1, SameOnDisk, ThreadKinds DEF Busy, MayTake, Goto, SetErr, store,
       locals, Base, TypeOK, AllOnDisk
  <2>2. OnDisk(t)'
    BY <1>3, OutsideOnDisk, ThreadKinds DEF Busy, MayTake, Goto, SetErr, Base,
       TypeOK
  <2> QED BY <2>1, <2>2
<1>4. ASSUME NEW t \in Updaters, StartHandle(t)
      PROVE  \A s \in Updaters : OnDisk(s)'
  <2>1. ASSUME NEW s \in Updaters, s # t
        PROVE  OnDisk(s)'
    BY <1>4, <2>1, SameOnDisk, ThreadKinds DEF StartHandle, Goto, store, locals,
       Base, TypeOK, AllOnDisk
  <2>2. OnDisk(t)'
    BY <1>4, OutsideOnDisk, ThreadKinds DEF StartHandle, Goto, Base, TypeOK
  <2> QED BY <2>1, <2>2
<1>5. ASSUME NEW t \in Updaters, StartFails(t)
      PROVE  \A s \in Updaters : OnDisk(s)'
  <2>1. ASSUME NEW s \in Updaters, s # t
        PROVE  OnDisk(s)'
    BY <1>5, <2>1, SameOnDisk, ThreadKinds DEF StartFails, Goto, SetErr, store,
       locals, Base, TypeOK, AllOnDisk
  <2>2. OnDisk(t)'
    BY <1>5, ThreadKinds DEF StartFails, Goto, SetErr, Base, TypeOK, OnDisk
  <2> QED BY <2>1, <2>2
<1>6. ASSUME NEW t \in Updaters, UpdatePrimary(t)
      PROVE  \A s \in Updaters : OnDisk(s)'
  <2>1. ASSUME NEW s \in Updaters, s # t
        PROVE  OnDisk(s)'
    BY <1>6, <2>1, SameOnDisk, ThreadKinds DEF UpdatePrimary, Goto, store, locals,
       Base, TypeOK, AllOnDisk
  <2>2. OnDisk(t)'
    BY <1>6, ThreadKinds DEF UpdatePrimary, Goto, Base, TypeOK, Control, OnDisk,
       PastJournal
  <2> QED BY <2>1, <2>2
<1>7. ASSUME NEW t \in Updaters, PrimaryFails(t)
      PROVE  \A s \in Updaters : OnDisk(s)'
  <2>1. ASSUME NEW s \in Updaters, s # t
        PROVE  OnDisk(s)'
    BY <1>7, <2>1, SameOnDisk, ThreadKinds DEF PrimaryFails, Goto, SetErr, store,
       locals, Base, TypeOK, AllOnDisk
  <2>2. OnDisk(t)'
    BY <1>7, ThreadKinds DEF PrimaryFails, Goto, SetErr, Base, TypeOK, OnDisk
  <2> QED BY <2>1, <2>2
<1>8. ASSUME NEW t \in Updaters, SkipGroup(t)
      PROVE  \A s \in Updaters : OnDisk(s)'
  <2>1. ASSUME NEW s \in Updaters, s # t
        PROVE  OnDisk(s)'
    BY <1>8, <2>1, SameOnDisk, ThreadKinds DEF SkipGroup, Visiting, NextGroup,
       store, locals, Base, TypeOK, AllOnDisk
  <2>2. Visiting(t) /\ pos[t] \in 1 .. Len(Visits) /\ grp(t) = Visits[pos[t]]
    BY <1>8, ThreadKinds, VisitedBackup DEF SkipGroup
  <2>3. ~Wanted(t, pos[t])
    BY <1>8, <2>2 DEF SkipGroup, Wanted
  <2>4. PastJournal(t, pos[t])
    BY <2>2, <2>3, NotDirect DEF Visiting, AllOnDisk, OnDisk
  <2>5. \/ pc'[t] = "visit" /\ pos'[t] = pos[t] + 1
        \/ pc'[t] = "stopearly" /\ pos'[t] = pos[t]
    BY <1>8, <2>2, ThreadKinds DEF SkipGroup, Visiting, NextGroup, Base, TypeOK
  <2>6. \A k \in 1 .. pos[t] : Wanted(t, k)' <=> Wanted(t, k)
    BY <1>8 DEF SkipGroup, store, Wanted
  <2>8. OnDisk(t)'
    <3>1. pos'[t] - 1 = pos[t] \/ pos'[t] = pos[t]
      BY <2>2, <2>5, VisitsFacts
    <3> QED BY <1>8, <2>2, <2>4, <2>5, <2>6, VisitsFacts DEF SkipGroup, store,
       OnDisk, PastJournal
  <2> QED BY <2>1, <2>8
<1>9. ASSUME NEW t \in Updaters, BadChecksum(t)
      PROVE  \A s \in Updaters : OnDisk(s)'
  <2>1. ASSUME NEW s \in Updaters, s # t
        PROVE  OnDisk(s)'
    BY <1>9, <2>1, SameOnDisk, ThreadKinds DEF BadChecksum, IsBackup, Visiting,
       Counted, store, locals, Base, TypeOK, AllOnDisk
  <2>2. Visiting(t) /\ pos[t] \in 1 .. Len(Visits) /\ grp(t) = Visits[pos[t]]
    BY <1>9, ThreadKinds, VisitedBackup DEF BadChecksum, IsBackup
  <2>3. ~Wanted(t, pos[t])
    BY <1>9, <2>2 DEF BadChecksum, IsBackup, Wanted
  <2>4. PastJournal(t, pos[t])
    BY <2>2, <2>3, NotDirect DEF Visiting, AllOnDisk, OnDisk
  <2>5. \/ pc'[t] = "visit" /\ pos'[t] = pos[t] + 1
        \/ pc'[t] = "stopearly" /\ pos'[t] = pos[t]
    BY <1>9, <2>2, ThreadKinds DEF BadChecksum, IsBackup, Visiting, Counted, Base,
       TypeOK
  <2>6. \A k \in 1 .. pos[t] : Wanted(t, k)' <=> Wanted(t, k)
    BY <1>9 DEF BadChecksum, store, Wanted
  <2>8. OnDisk(t)'
    <3>1. pos'[t] - 1 = pos[t] \/ pos'[t] = pos[t]
      BY <2>2, <2>5, VisitsFacts
    <3> QED BY <1>9, <2>2, <2>4, <2>5, <2>6, VisitsFacts DEF BadChecksum, store,
       OnDisk, PastJournal
  <2> QED BY <2>1, <2>8
<1>10. ASSUME NEW t \in Updaters, UpdateJournalled(t)
      PROVE  \A s \in Updaters : OnDisk(s)'
  <2>1. ASSUME NEW s \in Updaters, s # t
        PROVE  OnDisk(s)'
    BY <1>10, <2>1, SameOnDisk, ThreadKinds DEF UpdateJournalled, Intact,
       IsBackup, Visiting, Counted, store, locals, Base, TypeOK, AllOnDisk
  <2>2. Visiting(t) /\ pos[t] \in 1 .. Len(Visits) /\ grp(t) = Visits[pos[t]]
    BY <1>10, ThreadKinds, VisitedBackup DEF UpdateJournalled, Intact, IsBackup
  <2>3. Visits[pos[t]] \notin Direct
    BY <1>10, <2>2, VisitJournalled, PrimaryNotDirect DEF UpdateJournalled,
       Intact, Counting
  <2>4. PastJournal(t, pos[t])
    BY <2>2, <2>3, NotDirect DEF Visiting, AllOnDisk, OnDisk
  <2>5. \/ pc'[t] = "visit" /\ pos'[t] = pos[t] + 1
        \/ pc'[t] = "stopearly" /\ pos'[t] = pos[t]
    BY <1>10, <2>2, ThreadKinds DEF UpdateJournalled, Intact, IsBackup, Visiting,
       Counted, Base, TypeOK
  <2>6. \A k \in 1 .. pos[t] : Wanted(t, k)' <=> Wanted(t, k)
    BY <1>10 DEF UpdateJournalled, store, Wanted
  <2>8. OnDisk(t)'
    <3>1. pos'[t] - 1 = pos[t] \/ pos'[t] = pos[t]
      BY <2>2, <2>5, VisitsFacts
    <3> QED BY <1>10, <2>2, <2>4, <2>5, <2>6, VisitsFacts DEF UpdateJournalled,
       store, OnDisk, PastJournal
  <2> QED BY <2>1, <2>8
<1>11. ASSUME NEW t \in Updaters, UpdateDirect(t)
      PROVE  \A s \in Updaters : OnDisk(s)'
  <2>0. t \in Inside
    BY <1>11, ThreadKinds DEF UpdateDirect, Intact, IsBackup, Visiting, Counted,
       Inside
  <2>1. ASSUME NEW s \in Updaters, s # t
        PROVE  OnDisk(s)'
    <3>1. pc[s] \in {"idle", "flag", "drop"}
      BY <2>0, <2>1, OthersOutside, ThreadKinds
    <3>2. pc'[s] = pc[s]
      BY <1>11, <2>1, ThreadKinds DEF UpdateDirect, Counted, Base, TypeOK
    <3> QED BY <3>1, <3>2, OutsideOnDisk
  <2>2. /\ Visiting(t) /\ pos[t] \in 1 .. Len(Visits) /\ grp(t) = Visits[pos[t]]
        /\ grp(t) \in Direct
    BY <1>11, ThreadKinds, VisitedBackup, VisitJournalled
    DEF UpdateDirect, Intact, IsBackup, Counting
  <2>3. grp(t) \notin log
    BY <2>2 DEF Visiting, CleanInv, Clean
  <2>4. \A k \in 1 .. pos[t] : Wanted(t, k) /\ Visits[k] \in Direct =>
           disk'.sb[Visits[k]][field[t]] = arg[t]
    BY <1>11, <2>2, <2>3, DirectWrite DEF UpdateDirect, Visiting, AllOnDisk, OnDisk
  <2>5. /\ pc'[t] = "visit" /\ pos'[t] = pos[t] + 1
    <3>1. Counted(t) /\ pc[t] = "visit" /\ ~TwoDone(t)
      BY <1>11, <2>2 DEF UpdateDirect, Visiting, TwoDone
    <3> QED BY <3>1, ThreadKinds, CountedStep DEF Base
  <2>6. \A k \in 1 .. pos[t] : Wanted(t, k)' <=> Wanted(t, k)
    BY <1>11 DEF UpdateDirect, Wanted
  <2>7. UNCHANGED <<field, arg>>
    BY <1>11 DEF UpdateDirect
  <2>8. OnDisk(t)'
    BY <2>2, <2>4, <2>5, <2>6, <2>7, VisitsFacts DEF OnDisk, PastJournal
  <2> QED BY <2>1, <2>8
<1>12. ASSUME NEW t \in Updaters, BackupFails(t)
      PROVE  \A s \in Updaters : OnDisk(s)'
  <2>1. ASSUME NEW s \in Updaters, s # t
        PROVE  OnDisk(s)'
    BY <1>12, <2>1, SameOnDisk, ThreadKinds DEF BackupFails, IsBackup, Visiting,
       Failed, Goto, SetErr, store, locals, Base, TypeOK, AllOnDisk
  <2>2. OnDisk(t)'
    BY <1>12, ThreadKinds DEF BackupFails, IsBackup, Visiting, Failed, Goto,
       SetErr, Base, TypeOK, OnDisk
  <2> QED BY <2>1, <2>2
<1>13. ASSUME NEW t \in Updaters, LoopEnds(t)
      PROVE  \A s \in Updaters : OnDisk(s)'
  <2>1. ASSUME NEW s \in Updaters, s # t
        PROVE  OnDisk(s)'
    BY <1>13, <2>1, SameOnDisk, ThreadKinds DEF LoopEnds, Goto, store, locals,
       Base, TypeOK, AllOnDisk
  <2>3. PastJournal(t, Len(Visits))
    BY <1>13, DirectLeft, ThreadKinds DEF LoopEnds, Goto, Base, AllOnDisk, OnDisk
  <2>2. OnDisk(t)'
    BY <1>13, <2>3, ThreadKinds DEF LoopEnds, Goto, store, locals, Base, TypeOK,
       OnDisk, PastJournal, Wanted
  <2> QED BY <2>1, <2>2
<1>14. ASSUME NEW t \in Updaters, StopEarly(t)
      PROVE  \A s \in Updaters : OnDisk(s)'
  <2>1. ASSUME NEW s \in Updaters, s # t
        PROVE  OnDisk(s)'
    BY <1>14, <2>1, SameOnDisk, ThreadKinds DEF StopEarly, Goto, SetErr, store,
       locals, Base, TypeOK, AllOnDisk
  <2>3. pos[t] \in Nat
    BY ThreadKinds, VisitsFacts DEF Base, TypeOK
  <2>2. OnDisk(t)'
    BY <1>14, <2>3, ThreadKinds DEF StopEarly, Goto, SetErr, store, Base, TypeOK,
       AllOnDisk, OnDisk, PastJournal, Wanted
  <2> QED BY <2>1, <2>2
<1>15. ASSUME NEW t \in Updaters, CloseJournal(t)
      PROVE  \A s \in Updaters : OnDisk(s)'
  <2>1. ASSUME NEW s \in Updaters, s # t
        PROVE  OnDisk(s)'
    BY <1>15, <2>1, SameOnDisk, ThreadKinds DEF CloseJournal, Goto, Stopped,
       store, locals, Base, TypeOK, AllOnDisk
  <2>2. OnDisk(t)'
    BY <1>15, ThreadKinds DEF CloseJournal, Goto, store, Base, TypeOK, AllOnDisk,
       OnDisk, PastJournal, Wanted
  <2> QED BY <2>1, <2>2
<1>16. ASSUME NEW t \in Updaters, Out(t)
      PROVE  \A s \in Updaters : OnDisk(s)'
  <2>1. ASSUME NEW s \in Updaters, s # t
        PROVE  OnDisk(s)'
    BY <1>16, <2>1, SameOnDisk, ThreadKinds DEF Out, ClearFlag, Goto, store,
       locals, Base, TypeOK, AllOnDisk
  <2>2. OnDisk(t)'
    BY <1>16, OutsideOnDisk, ThreadKinds DEF Out, ClearFlag, Goto, Base, TypeOK
  <2> QED BY <2>1, <2>2
<1>17. ASSUME NEW t \in Updaters, DropWrite(t)
      PROVE  \A s \in Updaters : OnDisk(s)'
  <2>1. ASSUME NEW s \in Updaters, s # t
        PROVE  OnDisk(s)'
    BY <1>17, <2>1, SameOnDisk, ThreadKinds DEF DropWrite, Goto, SetErr, store,
       locals, Base, TypeOK, AllOnDisk
  <2>2. OnDisk(t)'
    BY <1>17, OutsideOnDisk, ThreadKinds DEF DropWrite, Goto, SetErr, Base, TypeOK
  <2> QED BY <2>1, <2>2
<1>18. ASSUME NEW t \in Resizers, BeginResize(t)
      PROVE  \A s \in Updaters : OnDisk(s)'
  BY <1>18, SameOnDisk, ThreadKinds DEF BeginResize, Goto, store, locals, Base,
     TypeOK, AllOnDisk
<1>19. ASSUME NEW t \in Resizers, Grow(t)
      PROVE  \A s \in Updaters : OnDisk(s)'
  <2>1. t \in Inside
    BY <1>19, ThreadKinds DEF Grow, Goto, Inside
  <2>2. \A s \in Updaters : pc'[s] \in {"idle", "flag", "drop"}
    BY <1>19, <2>1, OthersOutside, ThreadKinds DEF Grow, Goto, Base, TypeOK
  <2> QED BY <2>2, OutsideOnDisk
<1>20. ASSUME NEW t \in Resizers, GrowFails(t)
      PROVE  \A s \in Updaters : OnDisk(s)'
  <2>1. t \in Inside
    BY <1>20, ThreadKinds DEF GrowFails, Goto, Inside
  <2>2. \A s \in Updaters : pc'[s] \in {"idle", "flag", "drop"}
    BY <1>20, <2>1, OthersOutside, ThreadKinds DEF GrowFails, Goto, Base, TypeOK
  <2> QED BY <2>2, OutsideOnDisk
<1>21. ASSUME NEW t \in Resizers, Flush(t)
      PROVE  \A s \in Updaters : OnDisk(s)'
  <2>1. t \in Inside
    BY <1>21, ThreadKinds DEF Flush, Goto, Flushed, Inside
  <2>2. \A s \in Updaters : pc'[s] \in {"idle", "flag", "drop"}
    BY <1>21, <2>1, OthersOutside, ThreadKinds DEF Flush, Goto, Flushed, Base,
       TypeOK
  <2> QED BY <2>2, OutsideOnDisk
<1>22. ASSUME NEW t \in Resizers, EndResize(t)
      PROVE  \A s \in Updaters : OnDisk(s)'
  <2>1. t \in Inside
    BY <1>22, ThreadKinds DEF EndResize, Goto, Inside
  <2>2. \A s \in Updaters : pc'[s] \in {"idle", "flag", "drop"}
    BY <1>22, <2>1, OthersOutside, ThreadKinds DEF EndResize, Goto, Base, TypeOK
  <2> QED BY <2>2, OutsideOnDisk
<1>23. ASSUME Commit
      PROVE  \A s \in Updaters : OnDisk(s)'
  <2> SUFFICES ASSUME NEW s \in Updaters
               PROVE  OnDisk(s)'
    OBVIOUS
  <2>1. CASE s \in Inside
    <3>1. \A r \in Resizers : pc[r] # "flush"
      BY <2>1, OthersOutside, ThreadKinds DEF Base, Roles
    <3>2. Clean
      BY <1>23, <3>1 DEF Commit, CleanInv
    <3>3. \A g \in Direct : disk'.sb[g] = disk.sb[g]
      BY <1>23, <3>2 DEF Commit, CommitOnly, Committed, Clean, Direct, Backups
    <3> QED BY <1>23, <3>3 DEF Commit, locals, AllOnDisk, OnDisk, PastJournal, Wanted
  <2>2. CASE s \notin Inside
    BY <1>23, <2>2, OutsideOnDisk, ThreadKinds DEF Commit, Inside
  <2> QED BY <2>1, <2>2
<1>24. ASSUME Checkpoint
      PROVE  \A s \in Updaters : OnDisk(s)'
  BY <1>24, SameOnDisk DEF Checkpoint, locals, AllOnDisk
<1>25. ASSUME Abort
      PROVE  \A s \in Updaters : OnDisk(s)'
  BY <1>25, SameOnDisk DEF Abort, locals, AllOnDisk
<1>26. ASSUME Crash
      PROVE  \A s \in Updaters : OnDisk(s)'
  BY <1>26, OutsideOnDisk, ThreadKinds DEF Crash
<1>27. ASSUME UNCHANGED vars
      PROVE  \A s \in Updaters : OnDisk(s)'
  BY <1>27, SameOnDisk DEF vars, store, locals, AllOnDisk
<1> QED
  BY <1>1, <1>2, <1>3, <1>4, <1>5, <1>6, <1>7, <1>8, <1>9, <1>10, <1>11,
     <1>12, <1>13, <1>14, <1>15, <1>16, <1>17, <1>18, <1>19, <1>20, <1>21,
     <1>22, <1>23, <1>24, <1>25, <1>26, <1>27 DEF Next, Updates, Visit, Grows

(* So all of it holds in every state.                                      *)
LEMMA DiskInvariant == Spec => [](Base /\ Counting /\ CleanInv /\ AllOnDisk)
<1>1. Init => CleanInv /\ AllOnDisk
  BY ThreadKinds DEF Init, CleanInv, Clean, AllOnDisk, OnDisk
<1>2. Base /\ Counting /\ CleanInv /\ [Next]_vars => CleanInv'
  BY CleanStep
<1>3. Base /\ Counting /\ CleanInv /\ AllOnDisk /\ [Next]_vars => AllOnDisk'
  BY DiskStep DEF AllOnDisk
<1> QED BY <1>1, <1>2, <1>3, CountInvariant, PTL DEF Spec

(* When a call succeeds, the backups that it wrote past the journal are on *)
(* the disk and no copy in the journal will replace them: every call       *)
(* journals the same two, and a resizer flushes before it clears the flag. *)
THEOREM DirectWritesSurvive == Spec => []DirectSurvives
<1>1. Base /\ Progress /\ AllOnDisk => DirectSurvives
  <2> SUFFICES ASSUME Base, Progress, AllOnDisk, NEW t \in Threads, Succeeds(t),
                      NEW g \in Backups(ngroups) \ (bad \cup Journalled)
               PROVE  disk.sb[g][field[t]] = arg[t]
    BY DEF DirectSurvives
  <2>1. Reached(t) /\ PastJournal(t, Len(Visits))
    BY DEF Succeeds, Progress, AllOnDisk, OnDisk
  <2>2. PICK k \in DOMAIN Visits : Visits[k] = g
    BY DEF Backups
  <2>3. k \in 1 .. Len(Visits)
    BY <2>2, VisitsAssumption
  <2>4. Wanted(t, k)
    BY <2>1, <2>2 DEF Wanted, Backups, Reached
  <2>5. g \in Direct
    <3>1. ngroups <= MaxGroups /\ ngroups \in Nat
      BY GroupsFacts DEF Base, TypeOK
    <3> QED BY <2>2, <3>1, GroupsFacts DEF Direct, Backups, Groups
  <2> QED BY <2>1, <2>2, <2>3, <2>4, <2>5 DEF PastJournal
<1> QED BY <1>1, BaseAndProgress, DiskInvariant, PTL

-----------------------------------------------------------------------------
(* The primary and its two journalled backups                              *)

(* Neither an I/O error nor a missing buffer stops an update half-way;     *)
(* starting a handle and growing may fail, and the journal may abort.      *)
UpdatesWhole == "primary" \notin Faults /\ "backup" \notin Faults

Core == Journalled \cup {PrimaryGroup}
Halves == {"label", "uuid"}

(* What the disk has of these but for what the running transaction has.    *)
Match ==
  ~aborted =>
    /\ \A g \in Core : g \notin txn => disk.sb[g] = sb[g]
    /\ bad \subseteq disk.bad /\ disk.bad \subseteq bad \cup txn

(* A call with an open handle has changed one half of some of them.        *)
Changing(t, f) ==
  handle[t] /\ field[t] = f /\ pc[t] \in {"visit", "stopearly", "outjournal"}

Same ==
  ~aborted =>
    \A g \in Journalled, f \in Halves : g < ngroups /\ g \notin bad =>
      sb[g][f] = sb[PrimaryGroup][f] \/ \E t \in Updaters : Changing(t, f)

(* Only an aborted journal stops a call that has begun to write.           *)
Broken == \A t \in Updaters : pc[t] = "outjournal" /\ err[t] # "ok" => aborted

(* They are groups, and none is written past the journal.                  *)
LEMMA CoreFacts ==
  /\ Core \subseteq Groups /\ Journalled \subseteq Groups /\ Journalled \subseteq HasSuper
  /\ PrimaryGroup \in Groups /\ PrimaryGroup \notin Journalled
  /\ PrimaryGroup \in Core /\ Core \cap Direct = {}
BY GroupsFacts DEF Core, Journalled, Backups, Direct

(* Every change of them is in a transaction.                               *)
LEMMA MatchStep ==
  ASSUME UpdatesWhole, Base, Counting, Match, [Next]_vars
  PROVE  Match'
<1>1. ASSUME NEW t \in Updaters, Call(t)
      PROVE  Match'
  BY <1>1 DEF Call, store, Match
<1>2. ASSUME NEW t \in Updaters, TakeFlag(t)
      PROVE  Match'
  BY <1>2 DEF TakeFlag, store, Match
<1>3. ASSUME NEW t \in Updaters, Busy(t)
      PROVE  Match'
  BY <1>3 DEF Busy, store, Match
<1>4. ASSUME NEW t \in Updaters, StartHandle(t)
      PROVE  Match'
  BY <1>4 DEF StartHandle, store, Match
<1>5. ASSUME NEW t \in Updaters, StartFails(t)
      PROVE  Match'
  BY <1>5 DEF StartFails, store, Match
<1>6. ASSUME NEW t \in Updaters, UpdatePrimary(t)
      PROVE  Match'
  <2>1. \A g \in Core : g # PrimaryGroup => sb'[g] = sb[g]
    BY <1>6, FuncChanges, ThreadKinds, CoreFacts DEF UpdatePrimary, Base
  <2> QED BY <1>6, <2>1 DEF UpdatePrimary, Match
<1>7. ASSUME NEW t \in Updaters, PrimaryFails(t)
      PROVE  Match'
  BY <1>7 DEF PrimaryFails, IsBackup, Visiting, UpdatesWhole, Match, Base, Control
<1>8. ASSUME NEW t \in Updaters, SkipGroup(t)
      PROVE  Match'
  BY <1>8 DEF SkipGroup, store, Match
<1>9. ASSUME NEW t \in Updaters, BadChecksum(t)
      PROVE  Match'
  BY <1>9 DEF BadChecksum, store, Match
<1>10. ASSUME NEW t \in Updaters, UpdateJournalled(t)
      PROVE  Match'
  <2>1. grp(t) \in Groups
    BY <1>10, ThreadKinds, VisitedBackup DEF UpdateJournalled, Intact, IsBackup
  <2>2. \A g \in Core : g # grp(t) => sb'[g] = sb[g]
    BY <1>10, <2>1, FuncChanges, ThreadKinds, CoreFacts DEF UpdateJournalled, Base
  <2> QED BY <1>10, <2>2 DEF UpdateJournalled, Match
<1>11. ASSUME NEW t \in Updaters, UpdateDirect(t)
      PROVE  Match'
  <2>1. grp(t) \in Groups /\ grp(t) \in Direct
    BY <1>11, ThreadKinds, VisitedBackup, VisitJournalled
    DEF UpdateDirect, Intact, IsBackup, Counting
  <2>2. \A g \in Core : g # grp(t) /\ sb'[g] = sb[g]
    BY <1>11, <2>1, FuncChanges, ThreadKinds, CoreFacts DEF UpdateDirect, Base
  <2>3. disk'.bad = disk.bad /\ \A g \in Core : disk'.sb[g] = disk.sb[g]
    BY <1>11, <2>1, <2>2, CoreFacts DEF UpdateDirect, Written, Base, TypeOK
  <2> QED BY <1>11, <2>2, <2>3 DEF UpdateDirect, Match
<1>12. ASSUME NEW t \in Updaters, BackupFails(t)
      PROVE  Match'
  BY <1>12 DEF BackupFails, IsBackup, Visiting, UpdatesWhole, Match, Base, Control
<1>13. ASSUME NEW t \in Updaters, LoopEnds(t)
      PROVE  Match'
  BY <1>13 DEF LoopEnds, store, Match
<1>14. ASSUME NEW t \in Updaters, StopEarly(t)
      PROVE  Match'
  BY <1>14 DEF StopEarly, store, Match
<1>15. ASSUME NEW t \in Updaters, CloseJournal(t)
      PROVE  Match'
  BY <1>15 DEF CloseJournal, store, Match
<1>16. ASSUME NEW t \in Updaters, Out(t)
      PROVE  Match'
  BY <1>16 DEF Out, store, Match
<1>17. ASSUME NEW t \in Updaters, DropWrite(t)
      PROVE  Match'
  BY <1>17 DEF DropWrite, store, Match
<1>18. ASSUME NEW t \in Resizers, BeginResize(t)
      PROVE  Match'
  BY <1>18 DEF BeginResize, store, Match
<1>19. ASSUME NEW t \in Resizers, Grow(t)
      PROVE  Match'
  BY <1>19, CoreFacts DEF Grow, Match, Base, TypeOK
<1>20. ASSUME NEW t \in Resizers, GrowFails(t)
      PROVE  Match'
  BY <1>20 DEF GrowFails, store, Match
<1>21. ASSUME NEW t \in Resizers, Flush(t)
      PROVE  Match'
  <2>1. CASE ~aborted
    BY <1>21, <2>1, CoreFacts DEF Flush, Flushed, Committed, Match, Base, TypeOK
  <2>2. CASE aborted
    BY <1>21, <2>2 DEF Flush, Match
  <2> QED BY <2>1, <2>2
<1>22. ASSUME NEW t \in Resizers, EndResize(t)
      PROVE  Match'
  BY <1>22 DEF EndResize, store, Match
<1>23. ASSUME Commit
      PROVE  Match'
  <2>1. CASE ~aborted
    BY <1>23, <2>1, CoreFacts DEF Commit, CommitOnly, Committed, Match, Base, TypeOK
  <2>2. CASE aborted
    BY <1>23, <2>2 DEF Commit, Match
  <2> QED BY <2>1, <2>2
<1>24. ASSUME Checkpoint
      PROVE  Match'
  BY <1>24 DEF Checkpoint, Match
<1>25. ASSUME Abort
      PROVE  Match'
  BY <1>25 DEF Abort, Match
<1>26. ASSUME Crash
      PROVE  Match'
  BY <1>26 DEF Crash, Match
<1>27. ASSUME UNCHANGED vars
      PROVE  Match'
  BY <1>27 DEF vars, store, Match
<1> QED
  BY <1>1, <1>2, <1>3, <1>4, <1>5, <1>6, <1>7, <1>8, <1>9, <1>10, <1>11,
     <1>12, <1>13, <1>14, <1>15, <1>16, <1>17, <1>18, <1>19, <1>20, <1>21,
     <1>22, <1>23, <1>24, <1>25, <1>26, <1>27 DEF Next, Updates, Visit, Grows

(* Without faults only an abort breaks off a call.                         *)
LEMMA BrokenStep ==
  ASSUME UpdatesWhole, Base, Broken, [Next]_vars
  PROVE  Broken'
<1>1. ASSUME NEW t \in Updaters, Call(t)
      PROVE  Broken'
  BY <1>1, ThreadKinds DEF Call, Goto, store, Base, TypeOK, Broken
<1>2. ASSUME NEW t \in Updaters, TakeFlag(t)
      PROVE  Broken'
  BY <1>2, ThreadKinds DEF TakeFlag, MayTake, Goto, store, Base, TypeOK, Broken
<1>3. ASSUME NEW t \in Updaters, Busy(t)
      PROVE  Broken'
  BY <1>3, ThreadKinds DEF Busy, MayTake, Goto, SetErr, store, Base, TypeOK, Broken
<1>4. ASSUME NEW t \in Updaters, StartHandle(t)
      PROVE  Broken'
  BY <1>4, ThreadKinds DEF StartHandle, Goto, store, Base, TypeOK, Broken
<1>5. ASSUME NEW t \in Updaters, StartFails(t)
      PROVE  Broken'
  BY <1>5, ThreadKinds DEF StartFails, Goto, SetErr, store, Base, TypeOK, Broken
<1>6. ASSUME NEW t \in Updaters, UpdatePrimary(t)
      PROVE  Broken'
  BY <1>6, ThreadKinds DEF UpdatePrimary, Goto, store, Base, TypeOK, Broken
<1>7. ASSUME NEW t \in Updaters, PrimaryFails(t)
      PROVE  Broken'
  BY <1>7, ThreadKinds DEF PrimaryFails, Goto, SetErr, store, Base, TypeOK,
     Broken, UpdatesWhole, Control
<1>8. ASSUME NEW t \in Updaters, SkipGroup(t)
      PROVE  Broken'
  BY <1>8, ThreadKinds DEF SkipGroup, Visiting, NextGroup, store, Base, TypeOK,
     Broken
<1>9. ASSUME NEW t \in Updaters, BadChecksum(t)
      PROVE  Broken'
  BY <1>9, ThreadKinds DEF BadChecksum, IsBackup, Visiting, Counted, store, Base,
     TypeOK, Broken
<1>10. ASSUME NEW t \in Updaters, UpdateJournalled(t)
      PROVE  Broken'
  BY <1>10, ThreadKinds DEF UpdateJournalled, Intact, IsBackup, Visiting, Counted,
     store, Base, TypeOK, Broken
<1>11. ASSUME NEW t \in Updaters, UpdateDirect(t)
      PROVE  Broken'
  BY <1>11, ThreadKinds DEF UpdateDirect, Intact, IsBackup, Visiting, Counted,
     store, Base, TypeOK, Broken
<1>12. ASSUME NEW t \in Updaters, BackupFails(t)
      PROVE  Broken'
  BY <1>12, ThreadKinds DEF BackupFails, IsBackup, Visiting, Failed, Goto, SetErr,
     store, Base, TypeOK, Broken, UpdatesWhole, Control
<1>13. ASSUME NEW t \in Updaters, LoopEnds(t)
      PROVE  Broken'
  BY <1>13, ThreadKinds DEF LoopEnds, Goto, store, Base, TypeOK, Broken, Control
<1>14. ASSUME NEW t \in Updaters, StopEarly(t)
      PROVE  Broken'
  BY <1>14, ThreadKinds DEF StopEarly, Goto, SetErr, store, Base, TypeOK, Broken
<1>15. ASSUME NEW t \in Updaters, CloseJournal(t)
      PROVE  Broken'
  BY <1>15, ThreadKinds DEF CloseJournal, Goto, Stopped, store, Base, TypeOK, Broken
<1>16. ASSUME NEW t \in Updaters, Out(t)
      PROVE  Broken'
  BY <1>16, ThreadKinds DEF Out, ClearFlag, Goto, store, Base, TypeOK, Broken
<1>17. ASSUME NEW t \in Updaters, DropWrite(t)
      PROVE  Broken'
  BY <1>17, ThreadKinds DEF DropWrite, Goto, SetErr, store, Base, TypeOK, Broken
<1>18. ASSUME NEW t \in Resizers, BeginResize(t)
      PROVE  Broken'
  BY <1>18, ThreadKinds DEF BeginResize, MayTake, Goto, store, Base, TypeOK, Broken
<1>19. ASSUME NEW t \in Resizers, Grow(t)
      PROVE  Broken'
  BY <1>19, ThreadKinds DEF Grow, Goto, store, Base, TypeOK, Broken
<1>20. ASSUME NEW t \in Resizers, GrowFails(t)
      PROVE  Broken'
  BY <1>20, ThreadKinds DEF GrowFails, Goto, store, Base, TypeOK, Broken
<1>21. ASSUME NEW t \in Resizers, Flush(t)
      PROVE  Broken'
  BY <1>21, ThreadKinds DEF Flush, Goto, Flushed, store, Base, TypeOK, Broken
<1>22. ASSUME NEW t \in Resizers, EndResize(t)
      PROVE  Broken'
  BY <1>22, ThreadKinds DEF EndResize, Goto, store, Base, TypeOK, Broken
<1>23. ASSUME Commit
      PROVE  Broken'
  BY <1>23 DEF Commit, Broken
<1>24. ASSUME Checkpoint
      PROVE  Broken'
  BY <1>24 DEF Checkpoint, Broken
<1>25. ASSUME Abort
      PROVE  Broken'
  BY <1>25 DEF Abort, Broken
<1>26. ASSUME Crash
      PROVE  Broken'
  BY <1>26, ThreadKinds DEF Crash, Broken
<1>27. ASSUME UNCHANGED vars
      PROVE  Broken'
  BY <1>27 DEF vars, store, Broken
<1> QED
  BY <1>1, <1>2, <1>3, <1>4, <1>5, <1>6, <1>7, <1>8, <1>9, <1>10, <1>11,
     <1>12, <1>13, <1>14, <1>15, <1>16, <1>17, <1>18, <1>19, <1>20, <1>21,
     <1>22, <1>23, <1>24, <1>25, <1>26, <1>27 DEF Next, Updates, Visit, Grows

(* The same, of one group and one half.                                    *)
SameAt(g, f) ==
  g < ngroups /\ g \notin bad =>
    sb[g][f] = sb[PrimaryGroup][f] \/ \E t \in Updaters : Changing(t, f)

(* A call that closes its handle has changed that half of all of them.     *)
LEMMA Equalised ==
  ASSUME Base, Progress, NEW t \in Updaters, NEW n \in 1 .. Len(Visits),
         Reached(t), Passed(t, n), NEW g \in Journalled, g \in Seen(n + 1),
         g < ngroups, g \notin bad
  PROVE  sb[g][field[t]] = sb[PrimaryGroup][field[t]]
<1>1. PICK k \in 1 .. n : Visits[k] = g
  BY VisitsFacts DEF Seen
<1>2. Wanted(t, k)
  BY <1>1 DEF Wanted, Journalled, Backups, Reached
<1> QED BY <1>1, <1>2 DEF Passed, Reached

(* A call closes its handle with all of them equal again.                  *)
LEMMA SameStep ==
  ASSUME UpdatesWhole, Base, Progress, Counting, Broken, Same, JournalledTogether,
         [Next]_vars
  PROVE  Same'
<1> SUFFICES ASSUME ~aborted', NEW g \in Journalled, NEW f \in Halves
             PROVE  SameAt(g, f)'
  BY DEF Same, SameAt
<1>a. ~aborted => SameAt(g, f)
  BY DEF Same, SameAt
<1>b. g \in Groups /\ g \in HasSuper /\ g # PrimaryGroup /\ PrimaryGroup \in Groups
  BY CoreFacts
<1> USE <1>a, <1>b
<1>1. ASSUME NEW t \in Updaters, Call(t)
      PROVE  SameAt(g, f)'
  <2>0. PICK v \in Fields, w \in Values :
          /\ field' = [field EXCEPT ![t] = v]
          /\ arg' = [arg EXCEPT ![t] = w]
    BY <1>1 DEF Call
  <2>1. \A s \in Updaters : Changing(s, f) => Changing(s, f)'
    BY <1>1, <2>0, ThreadKinds DEF Call, Goto, Changing, Base, TypeOK, Control
  <2> QED BY <1>1, <2>1 DEF Call, store, SameAt
<1>2. ASSUME NEW t \in Updaters, TakeFlag(t)
      PROVE  SameAt(g, f)'
  <2>1. \A s \in Updaters : Changing(s, f) => Changing(s, f)'
    BY <1>2, ThreadKinds DEF TakeFlag, MayTake, Goto, Changing, locals, Base,
       TypeOK, Control
  <2> QED BY <1>2, <2>1 DEF TakeFlag, store, SameAt
<1>3. ASSUME NEW t \in Updaters, Busy(t)
      PROVE  SameAt(g, f)'
  <2>1. \A s \in Updaters : Changing(s, f) => Changing(s, f)'
    BY <1>3, ThreadKinds DEF Busy, MayTake, Goto, SetErr, Changing, locals, Base,
       TypeOK, Control
  <2> QED BY <1>3, <2>1 DEF Busy, store, SameAt
<1>4. ASSUME NEW t \in Updaters, StartHandle(t)
      PROVE  SameAt(g, f)'
  <2>1. \A s \in Updaters : Changing(s, f) => Changing(s, f)'
    BY <1>4, ThreadKinds DEF StartHandle, Goto, Changing, locals, Base, TypeOK,
       Control
  <2> QED BY <1>4, <2>1 DEF StartHandle, store, SameAt
<1>5. ASSUME NEW t \in Updaters, StartFails(t)
      PROVE  SameAt(g, f)'
  <2>1. \A s \in Updaters : Changing(s, f) => Changing(s, f)'
    BY <1>5, ThreadKinds DEF StartFails, Goto, SetErr, Changing, locals, Base,
       TypeOK, Control
  <2> QED BY <1>5, <2>1 DEF StartFails, store, SameAt
<1>6. ASSUME NEW t \in Updaters, UpdatePrimary(t)
      PROVE  SameAt(g, f)'
  <2>1. \A s \in Updaters : Changing(s, f) => Changing(s, f)'
    BY <1>6, ThreadKinds DEF UpdatePrimary, Goto, Changing, Base, TypeOK
  <2>2. sb'[g] = sb[g] /\ (f # field[t] => sb'[PrimaryGroup][f] = sb[PrimaryGroup][f])
    BY <1>6, FuncChanges, ThreadKinds DEF UpdatePrimary, Base, Halves
  <2>3. Changing(t, field[t])'
    BY <1>6, ThreadKinds DEF UpdatePrimary, Goto, Changing, Base, TypeOK, Control
  <2> QED BY <1>6, <2>1, <2>2, <2>3 DEF UpdatePrimary, SameAt
<1>7. ASSUME NEW t \in Updaters, PrimaryFails(t)
      PROVE  SameAt(g, f)'
  BY <1>7 DEF PrimaryFails, IsBackup, Visiting, UpdatesWhole
<1>8. ASSUME NEW t \in Updaters, SkipGroup(t)
      PROVE  SameAt(g, f)'
  <2>1. \A s \in Updaters : Changing(s, f) => Changing(s, f)'
    BY <1>8, ThreadKinds DEF SkipGroup, Visiting, NextGroup, Changing, locals,
       Base, TypeOK, Control
  <2> QED BY <1>8, <2>1 DEF SkipGroup, store, SameAt
<1>9. ASSUME NEW t \in Updaters, BadChecksum(t)
      PROVE  SameAt(g, f)'
  <2>1. \A s \in Updaters : Changing(s, f) => Changing(s, f)'
    BY <1>9, ThreadKinds DEF BadChecksum, IsBackup, Visiting, Counted, Changing,
       locals, Base, TypeOK, Control
  <2> QED BY <1>9, <2>1 DEF BadChecksum, store, SameAt
<1>10. ASSUME NEW t \in Updaters, UpdateJournalled(t)
      PROVE  SameAt(g, f)'
  <2>1. \A s \in Updaters : Changing(s, f) => Changing(s, f)'
    BY <1>10, ThreadKinds DEF UpdateJournalled, Intact, IsBackup, Visiting,
       Counted, Changing, Base, TypeOK
  <2>2. grp(t) \in Groups /\ grp(t) # PrimaryGroup
    BY <1>10, ThreadKinds, VisitedBackup DEF UpdateJournalled, Intact, IsBackup
  <2>3. sb'[PrimaryGroup] = sb[PrimaryGroup] /\ (f # field[t] => sb'[g][f] = sb[g][f])
    <3>1. CASE g = grp(t)
      BY <1>10, <2>2, <3>1, FuncChanges, ThreadKinds DEF UpdateJournalled, Base,
         Halves
    <3>2. CASE g # grp(t)
      BY <1>10, <2>2, <3>2, FuncChanges, ThreadKinds DEF UpdateJournalled, Base
    <3> QED BY <3>1, <3>2
  <2>4. Changing(t, field[t])
    BY <1>10 DEF UpdateJournalled, Intact, IsBackup, Visiting, Changing
  <2>5. f = field[t] => Changing(t, f)'
    BY <1>10, <2>1, <2>4
  <2> QED BY <1>10, <2>1, <2>3, <2>5 DEF UpdateJournalled, SameAt
<1>11. ASSUME NEW t \in Updaters, UpdateDirect(t)
      PROVE  SameAt(g, f)'
  <2>1. \A s \in Updaters : Changing(s, f) => Changing(s, f)'
    BY <1>11, ThreadKinds DEF UpdateDirect, Intact, IsBackup, Visiting, Counted,
       Changing, Base, TypeOK
  <2>2. grp(t) \in Groups /\ grp(t) \in Direct
    BY <1>11, ThreadKinds, VisitedBackup, VisitJournalled
    DEF UpdateDirect, Intact, IsBackup, Counting
  <2>3. sb'[PrimaryGroup] = sb[PrimaryGroup] /\ sb'[g] = sb[g]
    BY <1>11, <2>2, PrimaryNotDirect, FuncChanges, ThreadKinds DEF UpdateDirect,
       Base
  <2> QED BY <1>11, <2>1, <2>3 DEF UpdateDirect, SameAt
<1>12. ASSUME NEW t \in Updaters, BackupFails(t)
      PROVE  SameAt(g, f)'
  BY <1>12 DEF BackupFails, IsBackup, Visiting, UpdatesWhole
<1>13. ASSUME NEW t \in Updaters, LoopEnds(t)
      PROVE  SameAt(g, f)'
  <2>1. \A s \in Updaters : Changing(s, f) => Changing(s, f)'
    BY <1>13, ThreadKinds DEF LoopEnds, Goto, Changing, locals, Base, TypeOK,
       Control
  <2> QED BY <1>13, <2>1 DEF LoopEnds, store, SameAt
<1>14. ASSUME NEW t \in Updaters, StopEarly(t)
      PROVE  SameAt(g, f)'
  <2>1. \A s \in Updaters : s # t /\ Changing(s, f) => Changing(s, f)'
    BY <1>14, ThreadKinds DEF StopEarly, Goto, Changing, Base, TypeOK
  <2>2. pc[t] = "stopearly" /\ pos[t] \in 1 .. Len(Visits)
    BY <1>14, ThreadKinds, VisitsFacts DEF StopEarly, Goto, Base, TypeOK, Control
  <2>3. Reached(t) /\ Passed(t, pos[t]) /\ SeenCount(pos[t] + 1) >= 2
    BY <2>2 DEF Progress, Counting, CountOf
  <2>4. g < ngroups /\ g \notin bad => sb[g][field[t]] = sb[PrimaryGroup][field[t]]
    BY <2>2, <2>3, SeenAllJournalled, Equalised
  <2> QED BY <1>14, <2>1, <2>4 DEF StopEarly, store, SameAt, Changing
<1>15. ASSUME NEW t \in Updaters, CloseJournal(t)
      PROVE  SameAt(g, f)'
  <2>1. \A s \in Updaters : s # t /\ Changing(s, f) => Changing(s, f)'
    BY <1>15, ThreadKinds DEF CloseJournal, Stopped, Goto, Changing, Base, TypeOK
  <2>2. pc[t] = "outjournal" /\ ~aborted /\ err[t] = "ok"
    BY <1>15 DEF CloseJournal, Goto, store, Broken
  <2>3. Reached(t) /\ Passed(t, Len(Visits))
    BY <2>2 DEF Progress
  <2>4. g \in Seen(Len(Visits) + 1)
    BY VisitsFacts, VisitsAssumption DEF Journalled, Seen, Backups
  <2>5. Len(Visits) \in 1 .. Len(Visits)
    BY VisitsFacts
  <2>6. g < ngroups /\ g \notin bad => sb[g][field[t]] = sb[PrimaryGroup][field[t]]
    BY <2>3, <2>4, <2>5, Equalised
  <2> QED BY <1>15, <2>1, <2>6 DEF CloseJournal, store, SameAt, Changing
<1>16. ASSUME NEW t \in Updaters, Out(t)
      PROVE  SameAt(g, f)'
  <2>1. \A s \in Updaters : Changing(s, f) => Changing(s, f)'
    BY <1>16, ThreadKinds DEF Out, ClearFlag, Goto, Changing, locals, Base,
       TypeOK, Control
  <2> QED BY <1>16, <2>1 DEF Out, store, SameAt
<1>17. ASSUME NEW t \in Updaters, DropWrite(t)
      PROVE  SameAt(g, f)'
  <2>1. \A s \in Updaters : Changing(s, f) => Changing(s, f)'
    BY <1>17, ThreadKinds DEF DropWrite, Goto, SetErr, Changing, locals, Base,
       TypeOK, Control
  <2> QED BY <1>17, <2>1 DEF DropWrite, store, SameAt
<1>18. ASSUME NEW t \in Resizers, BeginResize(t)
      PROVE  SameAt(g, f)'
  <2>1. \A s \in Updaters : Changing(s, f) => Changing(s, f)'
    BY <1>18, ThreadKinds DEF BeginResize, MayTake, Goto, Changing, locals, Base,
       TypeOK, Control
  <2> QED BY <1>18, <2>1 DEF BeginResize, store, SameAt
<1>19. ASSUME NEW t \in Resizers, Grow(t)
      PROVE  SameAt(g, f)'
  <2>1. g < ngroups' => sb'[g] = sb[PrimaryGroup]
    BY <1>19, GroupsFacts DEF Grow, Groups, Base, TypeOK
  <2>2. sb'[PrimaryGroup] = sb[PrimaryGroup]
    BY <1>19, GroupsAssumption, GroupsFacts DEF Grow, Base, TypeOK
  <2> QED BY <2>1, <2>2 DEF SameAt
<1>20. ASSUME NEW t \in Resizers, GrowFails(t)
      PROVE  SameAt(g, f)'
  <2>1. \A s \in Updaters : Changing(s, f) => Changing(s, f)'
    BY <1>20, ThreadKinds DEF GrowFails, Goto, Changing, locals, Base, TypeOK,
       Control
  <2> QED BY <1>20, <2>1 DEF GrowFails, store, SameAt
<1>21. ASSUME NEW t \in Resizers, Flush(t)
      PROVE  SameAt(g, f)'
  <2>1. \A s \in Updaters : Changing(s, f) => Changing(s, f)'
    BY <1>21, ThreadKinds DEF Flush, Goto, Flushed, Changing, locals, Base,
       TypeOK, Control
  <2> QED BY <1>21, <2>1 DEF Flush, store, SameAt
<1>22. ASSUME NEW t \in Resizers, EndResize(t)
      PROVE  SameAt(g, f)'
  <2>1. \A s \in Updaters : Changing(s, f) => Changing(s, f)'
    BY <1>22, ThreadKinds DEF EndResize, Goto, Changing, locals, Base, TypeOK,
       Control
  <2> QED BY <1>22, <2>1 DEF EndResize, store, SameAt
<1>23. ASSUME Commit
      PROVE  SameAt(g, f)'
  BY <1>23 DEF Commit, locals, SameAt, Changing
<1>24. ASSUME Checkpoint
      PROVE  SameAt(g, f)'
  BY <1>24 DEF Checkpoint, locals, SameAt, Changing
<1>25. ASSUME Abort
      PROVE  SameAt(g, f)'
  BY <1>25 DEF Abort
<1>26. ASSUME Crash
      PROVE  SameAt(g, f)'
  BY <1>26 DEF Crash, JournalledTogether, SameAt
<1>27. ASSUME UNCHANGED vars
      PROVE  SameAt(g, f)'
  BY <1>27 DEF vars, store, locals, SameAt, Changing
<1> QED
  BY <1>1, <1>2, <1>3, <1>4, <1>5, <1>6, <1>7, <1>8, <1>9, <1>10, <1>11,
     <1>12, <1>13, <1>14, <1>15, <1>16, <1>17, <1>18, <1>19, <1>20, <1>21,
     <1>22, <1>23, <1>24, <1>25, <1>26, <1>27 DEF Next, Updates, Visit, Grows

(* A commit, which waits for the handles, copies equal superblocks.        *)
LEMMA TogetherStep ==
  ASSUME UpdatesWhole, Base, Counting, Match, Same, JournalledTogether, [Next]_vars
  PROVE  JournalledTogether'
<1>a. ASSUME ~aborted, NoHandles, disk' = Committed
      PROVE  JournalledTogether'
  <2> SUFFICES ASSUME NEW g \in Journalled, g < disk'.ngroups, g \notin disk'.bad
               PROVE  disk'.sb[g] = disk'.sb[PrimaryGroup]
    BY DEF JournalledTogether
  <2>1. g < ngroups /\ g \notin bad
    BY <1>a DEF Committed, Match
  <2>2. disk'.sb[g] = sb[g] /\ disk'.sb[PrimaryGroup] = sb[PrimaryGroup]
    BY <1>a, CoreFacts DEF Committed, Match, Core
  <2>3. \A t \in Updaters, f \in Halves : ~Changing(t, f)
    BY <1>a, ThreadKinds DEF NoHandles, Changing
  <2>4. \A f \in Halves : sb[g][f] = sb[PrimaryGroup][f]
    BY <1>a, <2>1, <2>3 DEF Same
  <2>5. sb[g] \in Superblocks /\ sb[PrimaryGroup] \in Superblocks
    BY CoreFacts DEF Base, TypeOK
  <2>6. sb[g] = sb[PrimaryGroup]
    BY <2>4, <2>5 DEF Superblocks, Halves
  <2> QED BY <2>2, <2>6
<1>1. ASSUME NEW t \in Updaters, Call(t)
      PROVE  JournalledTogether'
  BY <1>1 DEF Call, store, JournalledTogether
<1>2. ASSUME NEW t \in Updaters, TakeFlag(t)
      PROVE  JournalledTogether'
  BY <1>2 DEF TakeFlag, store, JournalledTogether
<1>3. ASSUME NEW t \in Updaters, Busy(t)
      PROVE  JournalledTogether'
  BY <1>3 DEF Busy, store, JournalledTogether
<1>4. ASSUME NEW t \in Updaters, StartHandle(t)
      PROVE  JournalledTogether'
  BY <1>4 DEF StartHandle, store, JournalledTogether
<1>5. ASSUME NEW t \in Updaters, StartFails(t)
      PROVE  JournalledTogether'
  BY <1>5 DEF StartFails, store, JournalledTogether
<1>6. ASSUME NEW t \in Updaters, UpdatePrimary(t)
      PROVE  JournalledTogether'
  BY <1>6 DEF UpdatePrimary, store, JournalledTogether
<1>7. ASSUME NEW t \in Updaters, PrimaryFails(t)
      PROVE  JournalledTogether'
  BY <1>7 DEF PrimaryFails, store, JournalledTogether
<1>8. ASSUME NEW t \in Updaters, SkipGroup(t)
      PROVE  JournalledTogether'
  BY <1>8 DEF SkipGroup, store, JournalledTogether
<1>9. ASSUME NEW t \in Updaters, BadChecksum(t)
      PROVE  JournalledTogether'
  BY <1>9 DEF BadChecksum, store, JournalledTogether
<1>10. ASSUME NEW t \in Updaters, UpdateJournalled(t)
      PROVE  JournalledTogether'
  BY <1>10 DEF UpdateJournalled, store, JournalledTogether
<1>11. ASSUME NEW t \in Updaters, UpdateDirect(t)
      PROVE  JournalledTogether'
  <2>1. grp(t) \in Groups /\ grp(t) \in Direct
    BY <1>11, ThreadKinds, VisitedBackup, VisitJournalled
    DEF UpdateDirect, Intact, IsBackup, Counting
  <2>2. /\ disk'.bad = disk.bad /\ disk'.ngroups = disk.ngroups
        /\ \A g \in Core : disk'.sb[g] = disk.sb[g]
    BY <1>11, <2>1, CoreFacts DEF UpdateDirect, Written, Base, TypeOK
  <2> QED BY <2>2 DEF JournalledTogether, Core
<1>12. ASSUME NEW t \in Updaters, BackupFails(t)
      PROVE  JournalledTogether'
  BY <1>12 DEF BackupFails, store, JournalledTogether
<1>13. ASSUME NEW t \in Updaters, LoopEnds(t)
      PROVE  JournalledTogether'
  BY <1>13 DEF LoopEnds, store, JournalledTogether
<1>14. ASSUME NEW t \in Updaters, StopEarly(t)
      PROVE  JournalledTogether'
  BY <1>14 DEF StopEarly, store, JournalledTogether
<1>15. ASSUME NEW t \in Updaters, CloseJournal(t)
      PROVE  JournalledTogether'
  BY <1>15 DEF CloseJournal, store, JournalledTogether
<1>16. ASSUME NEW t \in Updaters, Out(t)
      PROVE  JournalledTogether'
  BY <1>16 DEF Out, store, JournalledTogether
<1>17. ASSUME NEW t \in Updaters, DropWrite(t)
      PROVE  JournalledTogether'
  BY <1>17 DEF DropWrite, store, JournalledTogether
<1>18. ASSUME NEW t \in Resizers, BeginResize(t)
      PROVE  JournalledTogether'
  BY <1>18 DEF BeginResize, store, JournalledTogether
<1>19. ASSUME NEW t \in Resizers, Grow(t)
      PROVE  JournalledTogether'
  BY <1>19 DEF Grow, store, JournalledTogether
<1>20. ASSUME NEW t \in Resizers, GrowFails(t)
      PROVE  JournalledTogether'
  BY <1>20 DEF GrowFails, store, JournalledTogether
<1>21. ASSUME NEW t \in Resizers, Flush(t)
      PROVE  JournalledTogether'
  <2>1. CASE ~aborted
    BY <1>21, <2>1, <1>a DEF Flush, Flushed
  <2>2. CASE aborted
    BY <1>21, <2>2 DEF Flush, JournalledTogether
  <2> QED BY <2>1, <2>2
<1>22. ASSUME NEW t \in Resizers, EndResize(t)
      PROVE  JournalledTogether'
  BY <1>22 DEF EndResize, store, JournalledTogether
<1>23. ASSUME Commit
      PROVE  JournalledTogether'
  BY <1>23, <1>a DEF Commit, CommitOnly
<1>24. ASSUME Checkpoint
      PROVE  JournalledTogether'
  BY <1>24 DEF Checkpoint, store, JournalledTogether
<1>25. ASSUME Abort
      PROVE  JournalledTogether'
  BY <1>25 DEF Abort, store, JournalledTogether
<1>26. ASSUME Crash
      PROVE  JournalledTogether'
  BY <1>26 DEF Crash, store, JournalledTogether
<1>27. ASSUME UNCHANGED vars
      PROVE  JournalledTogether'
  BY <1>27 DEF vars, store, JournalledTogether
<1> QED
  BY <1>1, <1>2, <1>3, <1>4, <1>5, <1>6, <1>7, <1>8, <1>9, <1>10, <1>11,
     <1>12, <1>13, <1>14, <1>15, <1>16, <1>17, <1>18, <1>19, <1>20, <1>21,
     <1>22, <1>23, <1>24, <1>25, <1>26, <1>27 DEF Next, Updates, Visit, Grows

(* If nothing stops an update half-way, recovery finds the primary and the *)
(* two journalled backups equal wherever the machine stops, also when      *)
(* handles cannot be had, growing fails and the journal aborts.            *)
THEOREM UpdatedTogether ==
  ASSUME UpdatesWhole
  PROVE  Spec => []JournalledTogether
<1> DEFINE Inv == Match /\ Broken /\ Same /\ JournalledTogether
<1>1. Init => Inv
  <2> SUFFICES ASSUME Init
               PROVE  Inv
    OBVIOUS
  <2>1. PICK v \in Values : sb = [g \in Groups |-> [f \in {"label", "uuid"} |-> v]]
    BY DEF Init
  <2>2. \A g \in Journalled : sb[g] = sb[PrimaryGroup]
    BY <2>1, CoreFacts
  <2>3. Match /\ Broken
    BY ThreadKinds DEF Init, Match, Broken
  <2> QED BY <2>2, <2>3 DEF Init, Same, JournalledTogether
<1>2. Base /\ Progress /\ Counting /\ Inv /\ [Next]_vars => Inv'
  BY MatchStep, BrokenStep, SameStep, TogetherStep
<1>3. Inv => JournalledTogether
  OBVIOUS
<1> HIDE DEF Inv
<1> QED BY <1>1, <1>2, <1>3, BaseAndProgress, CountInvariant, PTL DEF Spec
=============================================================================
