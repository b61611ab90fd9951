--------------------------- MODULE EvfsFlipProofs ---------------------------
(***************************************************************************)
(* Proofs about EvfsFlip, for every number of threads, groups and blocks.  *)
(***************************************************************************)
EXTENDS EvfsFlip, FiniteSetTheorems, TLAPS

-----------------------------------------------------------------------------
(* Arithmetic and sets                                                     *)

(* An offset computed from a block number is an offset of a bitmap.        *)
LEMMA OffsetInBitmap ==
  ASSUME NEW b \in Nat
  PROVE  /\ GroupOf(b) \in Nat
         /\ OffsetOf(b) \in Offsets
<1>1. Relative(b) \in Nat
  BY SizeAssumption DEF Relative
<1>2. Relative(b) % BlocksPerGroup \in 0 .. BlocksPerGroup - 1
  BY <1>1, SizeAssumption
<1>3. GroupOf(b) \in Nat
  <2>1. Relative(b) \div BlocksPerGroup \in Nat
    BY <1>1, SizeAssumption
  <2> QED BY <2>1, SizeAssumption DEF GroupOf
<1> QED BY <1>2, <1>3 DEF OffsetOf, Offsets

(* The number of clear bits fits the free count.                           *)
LEMMA ClearBitsFit ==
  ASSUME NEW b
  PROVE  /\ IsFiniteSet(Offsets \ b)
         /\ Cardinality(Offsets \ b) \in 0 .. BlocksPerGroup
         /\ Cardinality(Offsets \ b) \in Counts
<1>1. IsFiniteSet(Offsets) /\ Cardinality(Offsets) = BlocksPerGroup
  BY SizeAssumption, FS_Interval DEF Offsets
<1>2. /\ IsFiniteSet(Offsets \ b)
      /\ Cardinality(Offsets \ b) <= Cardinality(Offsets)
  BY <1>1, FS_Subset, Offsets \ b \in SUBSET Offsets
<1>3. Cardinality(Offsets \ b) \in Nat
  BY <1>2, FS_CardinalityType
<1> QED BY <1>1, <1>2, <1>3, CountFits, SizeAssumption DEF Counts

LEMMA OneLess ==
  ASSUME NEW S, IsFiniteSet(S), NEW x \in S
  PROVE  Cardinality(S \ {x}) = Cardinality(S) - 1
BY FS_RemoveElement

(* Flipping a bit changes the number of clear bits by one.                 *)
LEMMA FlipCounts ==
  ASSUME NEW b \in SUBSET Offsets, NEW o \in Offsets, NEW set \in BOOLEAN,
         set <=> o \in b
  PROVE  /\ Flipped(b, o, set) \in SUBSET Offsets
         /\ Cardinality(Offsets \ Flipped(b, o, set)) =
              Cardinality(Offsets \ b) + Delta(set)
<1>0. IsFiniteSet(Offsets \ b) /\ Cardinality(Offsets \ b) \in Nat
  BY ClearBitsFit
<1>1. CASE set
  <2>1. Offsets \ Flipped(b, o, set) = (Offsets \ b) \cup {o}
    BY <1>1 DEF Flipped
  <2>2. o \notin Offsets \ b
    BY <1>1
  <2>3. Cardinality((Offsets \ b) \cup {o}) = Cardinality(Offsets \ b) + 1
    BY <1>0, <2>2, FS_AddElement
  <2> QED BY <1>1, <2>1, <2>3 DEF Delta, Flipped
<1>2. CASE ~set
  <2>1. Offsets \ Flipped(b, o, set) = (Offsets \ b) \ {o}
    BY <1>2 DEF Flipped
  <2>2. o \in Offsets \ b
    BY <1>2
  <2>3. Cardinality((Offsets \ b) \ {o}) = Cardinality(Offsets \ b) - 1
    BY <1>0, <2>2, FS_RemoveElement
  <2> QED BY <1>0, <1>2, <2>1, <2>3 DEF Delta, Flipped
<1> QED BY <1>1, <1>2

(* Storing a count that is one off the number of clear bits does not wrap. *)
LEMMA NextCountExact ==
  ASSUME NEW n \in Counts, NEW set \in BOOLEAN, NEW m \in Counts,
         n + Delta(set) = m
  PROVE  NextCount(n, set) = m
<1>1. m % CountMod = m
  BY SizeAssumption DEF Counts
<1> QED BY <1>1 DEF NextCount

LEMMA NextCountType ==
  ASSUME NEW n \in Counts, NEW set \in BOOLEAN
  PROVE  NextCount(n, set) \in Counts
<1>1. n + Delta(set) \in Int
  BY SizeAssumption DEF Counts, Delta
<1> QED BY <1>1, SizeAssumption DEF NextCount, Counts

-----------------------------------------------------------------------------
(* Types, and the resources a call holds at each step                      *)

Base == TypeOK /\ NoLeak /\ GroupExists

LEMMA TotalFreeType ==
  ASSUME NEW d
  PROVE  IsFiniteSet(FreeUnits(d)) /\ TotalFree(d) \in Nat
<1>1. IsFiniteSet(Groups) /\ IsFiniteSet(Counts)
  BY SizeAssumption, FS_Interval DEF Groups, Counts
<1>2. IsFiniteSet(Groups \X Counts)
  BY <1>1, FS_Product
<1>3. FreeUnits(d) \in SUBSET (Groups \X Counts)
  BY DEF FreeUnits
<1> QED BY <1>2, <1>3, FS_Subset, FS_CardinalityType DEF TotalFree

LEMMA CleanDescWhole ==
  ASSUME NEW b \in SUBSET Offsets
  PROVE  CleanDesc(b) \in Descs /\ Whole(b, CleanDesc(b))
BY ClearBitsFit DEF CleanDesc, Descs, Sums, Whole

LEMMA InitBase == Init => Base
<1> SUFFICES ASSUME Init PROVE Base
  OBVIOUS
<1>1. bitmap \in [Groups -> SUBSET Offsets]
  BY DEF Init
<1>2. desc \in [Groups -> Descs]
  BY <1>1, CleanDescWhole DEF Init
<1>3. committed \in [bits : [Groups -> SUBSET Offsets], desc : [Groups -> Descs]]
  BY <1>1, <1>2 DEF Init
<1>4. freeclusters \in Int
  BY TotalFreeType DEF Init
<1>5. 0 \in Counts /\ FirstDataBlock \in Nat
  BY SizeAssumption DEF Counts
<1>6. TypeOK
  BY <1>1, <1>2, <1>3, <1>4, <1>5 DEF Init, TypeOK, PCs
<1>7. NoLeak /\ GroupExists
  BY DEF Init, NoLeak, GroupExists
<1> QED BY <1>6, <1>7 DEF Base

(* What a step of thread t needs to know of t's registers.                 *)
LEMMA Registers ==
  ASSUME Base, NEW t \in Threads
  PROVE  /\ group(t) \in Nat /\ offset(t) \in Offsets
         /\ wasSet[t] \in BOOLEAN
         /\ word[t] \in SUBSET Offsets
         /\ count[t] \in Counts
         /\ held[t] = (IF pc[t] \in {"idle", "read"} THEN 0 ELSE 1)
         /\ pc[t] \notin {"idle", "read"} =>
              /\ group(t) \in Groups
              /\ bitmap[group(t)] \in SUBSET Offsets
              /\ desc[group(t)] \in Descs
BY OffsetInBitmap DEF Base, TypeOK, NoLeak, GroupExists, group, offset

LEMMA FlippedType ==
  ASSUME NEW w \in SUBSET Offsets, NEW o \in Offsets, NEW set \in BOOLEAN
  PROVE  Flipped(w, o, set) \in SUBSET Offsets
BY DEF Flipped

(* The three stores into a descriptor.                                     *)
LEMMA DescUpdate ==
  ASSUME NEW d \in Descs
  PROVE  /\ \A n \in Counts :
              /\ free_clusters_set(d, n) \in Descs
              /\ free_clusters_set(d, n) =
                   [free |-> n, bitmapCsum |-> d.bitmapCsum, csum |-> d.csum]
         /\ \A b \in SUBSET Offsets :
              /\ bitmap_csum_set(d, b) \in Descs
              /\ bitmap_csum_set(d, b) =
                   [free |-> d.free, bitmapCsum |-> b, csum |-> d.csum]
         /\ \A s \in Sums :
              /\ desc_csum_set(d, s) \in Descs
              /\ desc_csum_set(d, s) =
                   [free |-> d.free, bitmapCsum |-> d.bitmapCsum, csum |-> s]
BY DEF Descs, free_clusters_set, bitmap_csum_set, desc_csum_set

LEMMA StepBase ==
  ASSUME Base, [Next]_vars
  PROVE  Base'
<1> USE DEF Base, TypeOK, NoLeak, GroupExists, PCs, memory, journal, locals,
            Goto, SetRet, Return, group
<1>1. ASSUME NEW t \in Threads, Refuse(t) PROVE Base'
  BY <1>1 DEF Refuse
<1>2. ASSUME NEW t \in Threads, Call(t) PROVE Base'
  BY <1>2, TargetsAssumption DEF Call
<1>3. ASSUME NEW t \in Threads, Read(t) PROVE Base'
  <2>1. CASE pc'[t] = "start"
    BY <1>3, <2>1 DEF Read
  <2>2. CASE Return(t, "read", "err") /\ UNCHANGED <<memory, journal, held>>
    BY <2>2, SizeAssumption DEF Counts
  <2> QED BY <1>3, <2>1, <2>2 DEF Read
<1>4. ASSUME NEW t \in Threads, StartHandle(t) PROVE Base'
  BY <1>4 DEF StartHandle
<1>5. ASSUME NEW t \in Threads, StartFails(t) PROVE Base'
  BY <1>5, SizeAssumption DEF StartFails, Release, Counts
<1>6. ASSUME NEW t \in Threads, GetAccess(t) PROVE Base'
  BY <1>6 DEF GetAccess
<1>7. ASSUME NEW t \in Threads, TestBit(t) PROVE Base'
  BY <1>7 DEF TestBit
<1>8. ASSUME NEW t \in Threads, LoadWord(t) PROVE Base'
  BY <1>8 DEF LoadWord
<1>9. ASSUME NEW t \in Threads, StoreWord(t) PROVE Base'
  BY <1>9, Registers, FlippedType DEF StoreWord
<1>10. ASSUME NEW t \in Threads, LoadCount(t) PROVE Base'
  BY <1>10 DEF LoadCount, Descs
<1>11. ASSUME NEW t \in Threads, StoreCount(t) PROVE Base'
  <2>1. free_clusters_set(desc[group(t)], NextCount(count[t], wasSet[t]))
          \in Descs
    BY <1>11, Registers, NextCountType, DescUpdate DEF StoreCount
  <2> QED BY <1>11, <2>1 DEF StoreCount
<1>12. ASSUME NEW t \in Threads, PercpuCount(t) PROVE Base'
  BY <1>12 DEF PercpuCount, NextTotal, Delta
<1>13. ASSUME NEW t \in Threads, SumBitmap(t) PROVE Base'
  BY <1>13 DEF SumBitmap
<1>14. ASSUME NEW t \in Threads, SetBitmapSum(t) PROVE Base'
  <2>1. bitmap_csum_set(desc[group(t)], word[t]) \in Descs
    BY <1>14, Registers, DescUpdate DEF SetBitmapSum
  <2> QED BY <1>14, <2>1 DEF SetBitmapSum
<1>15. ASSUME NEW t \in Threads, SumDesc(t) PROVE Base'
  BY <1>15 DEF SumDesc, Descs
<1>16. ASSUME NEW t \in Threads, SetDescSum(t) PROVE Base'
  <2>1. desc_csum_set(desc[group(t)], [free |-> count[t], bitmapCsum |-> word[t]])
          \in Descs
    BY <1>16, Registers, DescUpdate DEF SetDescSum, Sums
  <2> QED BY <1>16, <2>1 DEF SetDescSum
<1>17. ASSUME NEW t \in Threads, DirtyBitmap(t) PROVE Base'
  BY <1>17, Registers DEF DirtyBitmap, DirtyFails
<1>18. ASSUME NEW t \in Threads, DirtyDesc(t) PROVE Base'
  BY <1>18 DEF DirtyDesc, DirtyFails, MarkGdt
<1>19. ASSUME NEW t \in Threads, Stop(t) PROVE Base'
  <2>1. \E from \in {"stop", "out"}, r \in {"ok", "err"} : Return(t, from, r)
    BY <1>19 DEF Stop
  <2>2. PICK from \in {"stop", "out"}, r \in {"ok", "err"} : Return(t, from, r)
    BY <2>1
  <2>3. 0 \in Counts /\ FirstDataBlock \in Nat
    BY SizeAssumption DEF Counts
  <2>4. held[t] = 1
    BY <2>2
  <2> QED BY <1>19, <2>2, <2>3, <2>4 DEF Stop, Release, CloseHandle
<1>20. CASE LockTransaction
  BY <1>20 DEF LockTransaction
<1>21. CASE Commit
  BY <1>21 DEF Commit
<1>22. CASE Abort
  BY <1>22 DEF Abort
<1>23. CASE Crash
  <2>1. freeclusters' \in Int
    BY <1>23, TotalFreeType DEF Crash
  <2>2. 0 \in Counts /\ FirstDataBlock \in Nat
    BY SizeAssumption DEF Counts
  <2> QED BY <1>23, <2>1, <2>2 DEF Crash
<1>24. CASE UNCHANGED vars
  BY <1>24 DEF vars
<1> QED
  <2>1. ASSUME NEW t \in Threads, Step(t) PROVE Base'
    BY <2>1, <1>3, <1>6, <1>7, <1>8, <1>9, <1>10, <1>11, <1>12, <1>13,
       <1>14, <1>15, <1>16, <1>17, <1>18, <1>19 DEF Step
  <2> QED BY <2>1, <1>1, <1>2, <1>4, <1>5, <1>20, <1>21, <1>22, <1>23, <1>24
          DEF Next, Environment

THEOREM BaseInvariant == Spec => []Base
<1>1. Base /\ [Next]_vars => Base'
  BY StepBase
<1> QED BY InitBase, <1>1, PTL DEF Spec

(* Every variable keeps its type: the free counts stay within their width  *)
(* whatever the threads race for.                                          *)
THEOREM TypeCorrect == Spec => []TypeOK
<1>1. Base => TypeOK
  BY DEF Base
<1> QED BY <1>1, BaseInvariant, PTL

(* Every exit of the ioctl closes the handle it opened and drops the one   *)
(* reference it took, with any number of threads and any faults.           *)
THEOREM ResourcesReleased == Spec => []NoLeak
<1>1. Base => NoLeak
  BY DEF Base
<1> QED BY <1>1, BaseInvariant, PTL

-----------------------------------------------------------------------------
(* A step of one thread is local to its registers and to its group         *)

ThreadStep(t) ==
  Refuse(t) \/ Call(t) \/ StartHandle(t) \/ StartFails(t) \/ Step(t)

Local(t) ==
  /\ \A u \in Threads : u # t =>
       /\ pc'[u] = pc[u] /\ block'[u] = block[u] /\ wasSet'[u] = wasSet[u]
       /\ word'[u] = word[u] /\ count'[u] = count[u]
  /\ \A g \in Groups : pc[t] \notin Critical \/ g # group(t) =>
       bitmap'[g] = bitmap[g] /\ desc'[g] = desc[g]
  /\ pc[t] \notin {"idle"} /\ pc'[t] # "idle" => block'[t] = block[t]
  /\ committed' = committed

LEMMA StepIsLocal ==
  ASSUME Base, NEW t \in Threads, ThreadStep(t)
  PROVE  Local(t)
<1> USE DEF Base, TypeOK, GroupExists, memory, journal, locals, Goto, SetRet,
            Return, Local, Critical, Midway, group
<1>1. CASE Refuse(t) \/ Call(t)
  BY <1>1 DEF Refuse, Call
<1>2. CASE Read(t) \/ StartHandle(t) \/ StartFails(t) \/ GetAccess(t)
  BY <1>2 DEF Read, StartHandle, StartFails, GetAccess
<1>3. CASE TestBit(t) \/ LoadWord(t) \/ StoreWord(t)
  BY <1>3 DEF TestBit, LoadWord, StoreWord
<1>4. CASE LoadCount(t) \/ StoreCount(t) \/ PercpuCount(t)
  BY <1>4 DEF LoadCount, StoreCount, PercpuCount
<1>5. CASE SumBitmap(t) \/ SetBitmapSum(t)
  BY <1>5 DEF SumBitmap, SetBitmapSum
<1>6. CASE SumDesc(t) \/ SetDescSum(t)
  BY <1>6 DEF SumDesc, SetDescSum
<1>7. CASE DirtyBitmap(t) \/ DirtyDesc(t) \/ Stop(t)
  BY <1>7 DEF DirtyBitmap, DirtyDesc, DirtyFails, Stop
<1> QED BY <1>1, <1>2, <1>3, <1>4, <1>5, <1>6, <1>7 DEF ThreadStep, Step

-----------------------------------------------------------------------------
(* One group, while no two calls are critical in it                        *)

(* What Exclusive, Phases, GroupConsistent and CrashConsistent say of one  *)
(* group, whatever the calls do in the others.                             *)
ExclusiveIn(g) == \A t, u \in Threads :
  t # u /\ pc[t] \in Critical /\ pc[u] \in Critical
    => ~ (group(t) = g /\ group(u) = g)
PhasesIn(g) == \A t \in Threads :
  pc[t] \in Critical /\ group(t) = g => Phase(t, bitmap[g], desc[g])
ConsistentIn(g) == Quiet(g) => Whole(bitmap[g], desc[g])
SavedIn(g) == Whole(committed.bits[g], committed.desc[g])

GroupInv(g) == Base /\ Marked /\ PhasesIn(g) /\ ConsistentIn(g) /\ SavedIn(g)

LEMMA PhaseAdvances ==
  ASSUME NEW t \in Threads, GroupInv(group(t)), ExclusiveIn(group(t)),
         ThreadStep(t), pc'[t] \in Critical
  PROVE  Phase(t, bitmap[group(t)], desc[group(t)])'
<1> DEFINE b == bitmap[group(t)]
           d == desc[group(t)]
<1>1. Base
  BY DEF GroupInv
<1>2. pc[t] \in Critical => Phase(t, b, d)
  BY DEF GroupInv, PhasesIn
<1>3. pc[t] = "store" => Whole(b, d)
  BY DEF GroupInv, ConsistentIn, Quiet, ExclusiveIn, Critical, Midway
<1> USE DEF Goto, memory, journal, locals, group, offset, Critical, Midway
<1>4. pc \in [Threads -> PCs] /\ wasSet \in [Threads -> BOOLEAN]
      /\ word \in [Threads -> SUBSET Offsets] /\ count \in [Threads -> Counts]
      /\ bitmap \in [Groups -> SUBSET Offsets] /\ desc \in [Groups -> Descs]
  BY <1>1 DEF Base, TypeOK
<1>5. CASE TestBit(t)
  BY <1>4, <1>5 DEF TestBit, Phase
<1>6. CASE LoadWord(t)
  BY <1>2, <1>4, <1>6 DEF LoadWord, Phase
<1>7. CASE StoreWord(t)
  <2>1. /\ bitmap'[group(t)] = Flipped(b, offset(t), wasSet[t])
        /\ d.free = Cardinality(Offsets \ b)
        /\ wasSet[t] <=> offset(t) \in b
    BY <1>1, <1>2, <1>3, <1>4, <1>7, Registers DEF StoreWord, Phase, Whole
  <2>2. Cardinality(Offsets \ bitmap'[group(t)]) = d.free + Delta(wasSet[t])
    BY <1>1, <1>7, <2>1, Registers, FlipCounts DEF StoreWord
  <2>3. pc'[t] = "loadcount" /\ UNCHANGED <<desc, block, wasSet>>
    BY <1>4, <1>7 DEF StoreWord
  <2> QED BY <2>2, <2>3 DEF Phase
<1>8. CASE LoadCount(t)
  BY <1>2, <1>4, <1>8 DEF LoadCount, Phase
<1>9. CASE StoreCount(t)
  <2>0. /\ pc[t] = "storecount" /\ group(t) \in Groups /\ d \in Descs
        /\ count[t] = d.free
        /\ count[t] + Delta(wasSet[t]) = Cardinality(Offsets \ b)
    BY <1>1, <1>2, <1>9, Registers DEF StoreCount, Phase
  <2>1. NextCount(count[t], wasSet[t]) = Cardinality(Offsets \ b)
    <3>1. Cardinality(Offsets \ b) \in Counts
      BY ClearBitsFit
    <3>2. count[t] \in Counts /\ wasSet[t] \in BOOLEAN
      BY <1>4
    <3> QED BY <2>0, <3>1, <3>2, NextCountExact
  <2>2. desc'[group(t)].free = NextCount(count[t], wasSet[t])
    <3>1. desc'[group(t)] =
            free_clusters_set(desc[group(t)], NextCount(count[t], wasSet[t]))
      BY <1>4, <1>9, <2>0 DEF StoreCount
    <3>2. NextCount(count[t], wasSet[t]) \in Counts
      BY <1>4, NextCountType
    <3> QED BY <2>0, <3>1, <3>2, DescUpdate
  <2>3. pc'[t] = "percpu" /\ UNCHANGED <<bitmap, block>>
    BY <1>4, <1>9 DEF StoreCount
  <2> QED BY <2>1, <2>2, <2>3 DEF Phase
<1>10. CASE PercpuCount(t)
  BY <1>2, <1>4, <1>10 DEF PercpuCount, Phase
<1>11. CASE SumBitmap(t)
  BY <1>2, <1>4, <1>11 DEF SumBitmap, Phase
<1>12. CASE SetBitmapSum(t)
  <2>1. desc'[group(t)].free = d.free /\ desc'[group(t)].bitmapCsum = word[t]
    <3>1. group(t) \in Groups /\ d \in Descs
      BY <1>1, <1>12, Registers DEF SetBitmapSum
    <3>2. desc'[group(t)] = bitmap_csum_set(desc[group(t)], word[t])
      BY <1>4, <1>12, <3>1 DEF SetBitmapSum
    <3> QED BY <1>4, <3>1, <3>2, DescUpdate
  <2>2. pc'[t] = "sumdesc" /\ UNCHANGED <<bitmap, block>>
    BY <1>4, <1>12 DEF SetBitmapSum
  <2> QED BY <1>2, <1>12, <2>1, <2>2 DEF Phase, SetBitmapSum
<1>13. CASE SumDesc(t)
  BY <1>2, <1>4, <1>13 DEF SumDesc, Phase
<1>14. CASE Refuse(t) \/ Call(t) \/ StartHandle(t) \/ Read(t) \/ StartFails(t)
  BY <1>4, <1>14 DEF Refuse, Call, StartHandle, Read, StartFails, Return
<1>15. CASE SetDescSum(t) \/ DirtyBitmap(t) \/ DirtyDesc(t) \/ Stop(t)
  BY <1>4, <1>15 DEF SetDescSum, DirtyBitmap, DirtyDesc, DirtyFails, Stop, Return
<1>16. CASE GetAccess(t)
  BY <1>4, <1>16 DEF GetAccess
<1> QED BY <1>5, <1>6, <1>7, <1>8, <1>9, <1>10, <1>11, <1>12, <1>13, <1>14,
           <1>15, <1>16 DEF ThreadStep, Step

(* A call that is critical after its step was in a group before it.        *)
LEMMA EntersCritical ==
  ASSUME NEW t \in Threads, ThreadStep(t), Base, pc'[t] \in Critical
  PROVE  pc[t] \notin {"idle", "read"}
<1>1. pc \in [Threads -> PCs]
  BY DEF Base, TypeOK
<1> USE DEF Critical, Midway, Goto
<1>2. CASE pc[t] = "idle"
  BY <1>1, <1>2 DEF ThreadStep, Step, Refuse, Call, Read, StartHandle, StartFails,
     GetAccess, TestBit, LoadWord, StoreWord, LoadCount, StoreCount, PercpuCount,
     SumBitmap, SetBitmapSum, SumDesc, SetDescSum, DirtyBitmap, DirtyDesc,
     DirtyFails, Stop, Return
<1>3. CASE pc[t] = "read"
  BY <1>1, <1>3 DEF ThreadStep, Step, Refuse, Call, Read, StartHandle, StartFails,
     GetAccess, TestBit, LoadWord, StoreWord, LoadCount, StoreCount, PercpuCount,
     SumBitmap, SetBitmapSum, SumDesc, SetDescSum, DirtyBitmap, DirtyDesc,
     DirtyFails, Stop, Return
<1> QED BY <1>2, <1>3

(* A call that another thread's step leaves where it is keeps its phase:   *)
(* the step is in another group or changes no memory.                      *)
LEMMA PhasesStep ==
  ASSUME NEW g \in Groups, GroupInv(g), ExclusiveIn(g),
         NEW t \in Threads, ThreadStep(t)
  PROVE  PhasesIn(g)'
<1> SUFFICES ASSUME NEW u \in Threads, pc'[u] \in Critical, group(u)' = g
             PROVE  Phase(u, bitmap[g], desc[g])'
  BY DEF PhasesIn
<1>0. Base /\ Local(t)
  BY StepIsLocal DEF GroupInv
<1>1. CASE u = t
  <2>1. block'[t] = block[t]
    BY <1>0, <1>1, EntersCritical DEF Local, Critical, Midway
  <2>2. group(t) = g
    BY <1>1, <2>1 DEF group
  <2>3. Phase(t, bitmap[group(t)], desc[group(t)])'
    BY <1>1, <2>2, PhaseAdvances
  <2> QED BY <1>1, <2>3
<1>2. CASE u # t
  <2>2. /\ pc'[u] = pc[u] /\ block'[u] = block[u] /\ wasSet'[u] = wasSet[u]
        /\ word'[u] = word[u] /\ count'[u] = count[u]
    BY <1>0, <1>2 DEF Local
  <2>3. group(u) = g
    BY <2>2 DEF group
  <2>4. bitmap'[g] = bitmap[g] /\ desc'[g] = desc[g]
    BY <1>0, <1>2, <2>2, <2>3 DEF Local, ExclusiveIn
  <2>5. Phase(u, bitmap[g], desc[g])
    BY <2>2, <2>3 DEF GroupInv, PhasesIn
  <2> QED BY <2>2, <2>4, <2>5 DEF Phase, group, offset
<1> QED BY <1>1, <1>2

(* A thread's step leaves the group whole, if it leaves it quiet.          *)
LEMMA GroupsStep ==
  ASSUME NEW g \in Groups, GroupInv(g), NEW t \in Threads, ThreadStep(t)
  PROVE  ConsistentIn(g)'
<1> SUFFICES ASSUME Quiet(g)' PROVE Whole(bitmap[g], desc[g])'
  BY DEF ConsistentIn
<1>1. Base /\ Local(t)
  BY StepIsLocal DEF GroupInv
<1>2. CASE pc[t] \notin Midway \/ g # group(t)
  <2>1. Quiet(g)
    BY <1>1, <1>2 DEF Quiet, Local, group
  <2>2. Whole(bitmap[g], desc[g])
    BY <2>1 DEF GroupInv, ConsistentIn
  <2>3. CASE pc[t] \notin {"load", "store"}
    BY <1>1, <1>2, <2>2, <2>3 DEF Local, Critical
  <2>4. CASE pc[t] = "load"
    BY <2>2, <2>4 DEF ThreadStep, Step, Refuse, Call, StartHandle, Read,
       StartFails, GetAccess, TestBit, LoadWord, StoreWord, LoadCount,
       StoreCount, PercpuCount, SumBitmap, SetBitmapSum, SumDesc, SetDescSum,
       DirtyBitmap, DirtyDesc, DirtyFails, Stop, Goto, Return, memory
  <2>5. CASE pc[t] = "store"
    <3>1. StoreWord(t)
      BY <2>5 DEF ThreadStep, Step, Refuse, Call, StartHandle, Read,
         StartFails, GetAccess, TestBit, LoadWord, LoadCount,
         StoreCount, PercpuCount, SumBitmap, SetBitmapSum, SumDesc, SetDescSum,
         DirtyBitmap, DirtyDesc, DirtyFails, Stop, Goto, Return
    <3>2. pc'[t] = "loadcount" /\ group(t)' = group(t)
      BY <1>1, <3>1 DEF StoreWord, Goto, Base, TypeOK, locals, group
    <3>3. g # group(t)
      BY <3>2 DEF Quiet, Midway
    <3> QED BY <1>1, <2>2, <3>3 DEF Local
  <2> QED BY <2>3, <2>4, <2>5
<1>3. CASE pc[t] \in Midway /\ g = group(t)
  <2>1. pc'[t] \notin Midway
    BY <1>1, <1>3 DEF Quiet, Local, Midway, group
  <2>2. SetDescSum(t)
    BY <1>1, <1>3, <2>1 DEF ThreadStep, Step, Refuse, Call, StartHandle, Read,
       StartFails, GetAccess, TestBit, LoadWord, StoreWord, LoadCount,
       StoreCount, PercpuCount, SumBitmap, SetBitmapSum, SumDesc,
       DirtyBitmap, DirtyDesc, DirtyFails, Stop, Goto, Return, Midway,
       Base, TypeOK
  <2>3. Phase(t, bitmap[g], desc[g])
    BY <1>3 DEF GroupInv, PhasesIn, Critical
  <2>4. /\ desc[g].free = Cardinality(Offsets \ bitmap[g])
        /\ desc[g].bitmapCsum = bitmap[g]
        /\ count[t] = desc[g].free /\ word[t] = bitmap[g]
    BY <2>2, <2>3 DEF Phase, SetDescSum, Goto
  <2>5. desc'[g] = desc_csum_set(desc[g], [free |-> count[t], bitmapCsum |-> word[t]])
    BY <1>1, <1>3, <2>2, Registers DEF SetDescSum, Goto, Base, TypeOK
  <2>6. desc'[g] = [free |-> desc[g].free, bitmapCsum |-> desc[g].bitmapCsum,
                    csum |-> [free |-> count[t], bitmapCsum |-> word[t]]]
    BY <1>1, <1>3, <2>2, <2>5, Registers, DescUpdate DEF SetDescSum, Goto, Sums
  <2>7. bitmap' = bitmap
    BY <2>2 DEF SetDescSum
  <2> QED BY <2>4, <2>6, <2>7 DEF Whole
<1> QED BY <1>2, <1>3

-----------------------------------------------------------------------------
(* The percpu counter                                                      *)

(* Only the free counts matter to the total.                               *)
LEMMA TotalFreeSame ==
  ASSUME NEW d, NEW e, \A g \in Groups : e[g].free = d[g].free
  PROVE  TotalFree(e) = TotalFree(d)
<1>1. FreeUnits(e) = FreeUnits(d)
  BY DEF FreeUnits
<1> QED BY <1>1 DEF TotalFree

LEMMA TotalFreeStep ==
  ASSUME NEW d \in [Groups -> Descs], NEW e \in [Groups -> Descs],
         NEW g \in Groups, NEW set \in BOOLEAN,
         \A h \in Groups : h # g => e[h] = d[h],
         e[g].free = d[g].free + Delta(set)
  PROVE  TotalFree(e) = TotalFree(d) + Delta(set)
<1> DEFINE n == d[g].free
<1>0. /\ \A h \in Groups : d[h].free \in Counts /\ e[h].free \in Counts
      /\ \A h \in Groups : h # g => e[h].free = d[h].free
      /\ IsFiniteSet(FreeUnits(d)) /\ Cardinality(FreeUnits(d)) \in Nat
  BY TotalFreeType DEF Descs, TotalFree
<1>1. CASE set
  <2>1. e[g].free = n + 1
    BY <1>1 DEF Delta
  <2>2. n \in Counts /\ <<g, n>> \in Groups \X Counts /\ n + 1 \in Counts
    BY <1>0, <2>1
  <2>3. FreeUnits(e) = FreeUnits(d) \cup {<<g, n>>}
    BY <1>0, <2>1, <2>2, SizeAssumption DEF FreeUnits, Counts
  <2>4. <<g, n>> \notin FreeUnits(d)
    BY <2>2, SizeAssumption DEF FreeUnits, Counts
  <2>5. Cardinality(FreeUnits(e)) = Cardinality(FreeUnits(d)) + 1
    <3>1. Cardinality(FreeUnits(d) \cup {<<g, n>>}) =
            IF <<g, n>> \in FreeUnits(d)
            THEN Cardinality(FreeUnits(d)) ELSE Cardinality(FreeUnits(d)) + 1
      <4>1. IsFiniteSet(FreeUnits(d))
        BY <1>0
      <4> HIDE DEF FreeUnits
      <4> QED BY <4>1, FS_AddElement, Zenon
    <3> QED BY <2>3, <2>4, <3>1
  <2> QED BY <1>1, <2>5 DEF TotalFree, Delta
<1>2. CASE ~set
  <2>1. e[g].free = n - 1
    BY <1>0, <1>2, SizeAssumption DEF Delta, Counts
  <2>2. n - 1 \in Counts /\ <<g, n - 1>> \in Groups \X Counts
    BY <1>0, <2>1
  <2>3. FreeUnits(e) = FreeUnits(d) \ {<<g, n - 1>>}
    BY <1>0, <2>1, <2>2, SizeAssumption DEF FreeUnits, Counts
  <2>4. <<g, n - 1>> \in FreeUnits(d)
    BY <1>0, <2>2, SizeAssumption DEF FreeUnits, Counts
  <2>5. Cardinality(FreeUnits(e)) = Cardinality(FreeUnits(d)) - 1
    <3>1. Cardinality(FreeUnits(d) \ {<<g, n - 1>>}) = Cardinality(FreeUnits(d)) - 1
      <4> HIDE DEF FreeUnits
      <4> QED BY <1>0, <2>4, OneLess
    <3> QED BY <2>3, <3>1
  <2> QED BY <1>0, <1>2, <2>5 DEF TotalFree, Delta
<1> QED BY <1>1, <1>2

LEMMA PendingFinite ==
  ASSUME NEW steps
  PROVE  /\ IsFiniteSet(Clearing(steps)) /\ IsFiniteSet(Setting(steps))
         /\ Cardinality(Clearing(steps)) \in Nat
         /\ Cardinality(Setting(steps)) \in Nat
<1>1. Clearing(steps) \in SUBSET Threads /\ Setting(steps) \in SUBSET Threads
  BY DEF Clearing, Setting
<1> QED BY <1>1, ThreadsAssumption, FS_Subset, FS_CardinalityType

(* The counter lags the descriptors by exactly the calls at "percpu".      *)
LEMMA CounterStep ==
  ASSUME IndInv, Exclusive, NEW t \in Threads, ThreadStep(t)
  PROVE  CounterLag'
<1>1. Base /\ CounterLag
  BY DEF IndInv, Base
<1>2. /\ pc \in [Threads -> PCs] /\ wasSet \in [Threads -> BOOLEAN]
      /\ desc \in [Groups -> Descs] /\ freeclusters \in Int
  BY <1>1 DEF Base, TypeOK
<1> DEFINE A == Clearing({"percpu"})
           B == Setting({"percpu"})
<1>3. /\ IsFiniteSet(A) /\ Cardinality(A) \in Nat
      /\ IsFiniteSet(B) /\ Cardinality(B) \in Nat
  BY PendingFinite
<1>4. TotalFree(desc) \in Nat
  BY TotalFreeType
<1>5. CASE StoreCount(t)
  <2>1. /\ group(t) \in Groups /\ desc[group(t)] \in Descs
        /\ NextCount(count[t], wasSet[t]) \in Counts
        /\ pc[t] = "storecount"
    BY <1>1, <1>5, Registers, NextCountType DEF StoreCount, Goto
  <2>2. desc' = [desc EXCEPT ![group(t)] =
                   free_clusters_set(@, NextCount(count[t], wasSet[t]))]
    BY <1>5 DEF StoreCount
  <2>3. /\ desc' \in [Groups -> Descs]
        /\ \A h \in Groups : h # group(t) => desc'[h] = desc[h]
        /\ desc'[group(t)].free = NextCount(count[t], wasSet[t])
    <3>1. LET f == free_clusters_set(desc[group(t)],
                                     NextCount(count[t], wasSet[t]))
          IN  f \in Descs /\ f.free = NextCount(count[t], wasSet[t])
      BY <2>1, DescUpdate
    <3> QED BY <1>2, <2>1, <2>2, <3>1
  <2>4. NextCount(count[t], wasSet[t]) = desc[group(t)].free + Delta(wasSet[t])
    <3>1. /\ count[t] = desc[group(t)].free
          /\ count[t] + Delta(wasSet[t]) =
               Cardinality(Offsets \ bitmap[group(t)])
      BY <2>1 DEF IndInv, Phases, Phase, Critical, Midway
    <3>2. Cardinality(Offsets \ bitmap[group(t)]) \in Counts
      BY ClearBitsFit
    <3>3. count[t] \in Counts /\ wasSet[t] \in BOOLEAN
      BY <1>1, Registers
    <3> QED BY <3>1, <3>2, <3>3, NextCountExact
  <2>5. TotalFree(desc') = TotalFree(desc) + Delta(wasSet[t])
    BY <1>2, <2>1, <2>3, <2>4, TotalFreeStep
  <2>6. freeclusters' = freeclusters
    BY <1>5 DEF StoreCount
  <2>7. CASE wasSet[t]
    <3>1. A' = A \cup {t} /\ t \notin A /\ B' = B
      BY <1>2, <1>5, <2>7 DEF StoreCount, Goto, Clearing, Setting, locals
    <3>2. Cardinality(A \cup {t}) = Cardinality(A) + 1
      BY <1>3, <3>1, FS_AddElement
    <3>3. Cardinality(A)' = Cardinality(A) + 1
          /\ Cardinality(B)' = Cardinality(B)
      BY <3>1, <3>2
    <3> QED BY <1>1, <1>2, <1>3, <1>4, <2>5, <2>6, <2>7, <3>3
            DEF CounterLag, Delta
  <2>8. CASE ~wasSet[t]
    <3>1. B' = B \cup {t} /\ t \notin B /\ A' = A
      BY <1>2, <1>5, <2>8 DEF StoreCount, Goto, Clearing, Setting, locals
    <3>2. Cardinality(B \cup {t}) = Cardinality(B) + 1
      BY <1>3, <3>1, FS_AddElement
    <3>3. Cardinality(B)' = Cardinality(B) + 1
          /\ Cardinality(A)' = Cardinality(A)
      BY <3>1, <3>2
    <3> QED BY <1>1, <1>2, <1>3, <1>4, <2>5, <2>6, <2>8, <3>3
            DEF CounterLag, Delta
  <2> QED BY <2>7, <2>8
<1>6. CASE PercpuCount(t)
  <2>1. freeclusters' = freeclusters + Delta(wasSet[t]) /\ desc' = desc
    BY <1>6 DEF PercpuCount, NextTotal
  <2>2. CASE wasSet[t]
    <3>1. A' = A \ {t} /\ t \in A /\ B' = B
      BY <1>2, <1>6, <2>2 DEF PercpuCount, Goto, Clearing, Setting, locals
    <3>2. Cardinality(A \ {t}) = Cardinality(A) - 1
      BY <1>3, <3>1, FS_RemoveElement
    <3>3. Cardinality(A)' = Cardinality(A) - 1
          /\ Cardinality(B)' = Cardinality(B)
      BY <3>1, <3>2
    <3> QED BY <1>1, <1>2, <1>3, <1>4, <2>1, <2>2, <3>3 DEF CounterLag, Delta
  <2>3. CASE ~wasSet[t]
    <3>1. B' = B \ {t} /\ t \in B /\ A' = A
      BY <1>2, <1>6, <2>3 DEF PercpuCount, Goto, Clearing, Setting, locals
    <3>2. Cardinality(B \ {t}) = Cardinality(B) - 1
      BY <1>3, <3>1, FS_RemoveElement
    <3>3. Cardinality(B)' = Cardinality(B) - 1
          /\ Cardinality(A)' = Cardinality(A)
      BY <3>1, <3>2
    <3> QED BY <1>1, <1>2, <1>3, <1>4, <2>1, <2>3, <3>3 DEF CounterLag, Delta
  <2> QED BY <2>2, <2>3
<1>7. CASE ~StoreCount(t) /\ ~PercpuCount(t)
  <2>1. freeclusters' = freeclusters
    BY <1>7 DEF ThreadStep, Step, Refuse, Call, StartHandle, Read, StartFails,
       GetAccess, TestBit, LoadWord, StoreWord, LoadCount, SumBitmap,
       SetBitmapSum, SumDesc, SetDescSum, DirtyBitmap, DirtyDesc, DirtyFails,
       Stop, memory
  <2>2. A' = A /\ B' = B
    BY <1>2, <1>7 DEF ThreadStep, Step, Refuse, Call, StartHandle, Read,
       StartFails, GetAccess, TestBit, LoadWord, StoreWord, LoadCount,
       SumBitmap, SetBitmapSum, SumDesc, SetDescSum, DirtyBitmap, DirtyDesc,
       DirtyFails, Stop, Goto, Return, Clearing, Setting, locals
  <2>3. ASSUME NEW h \in Groups PROVE desc'[h].free = desc[h].free
    <3>1. CASE SetBitmapSum(t)
      <4>1. /\ desc'[h] = desc[h] \/ desc'[h] = bitmap_csum_set(desc[h], word[t])
            /\ desc[h] \in Descs /\ word[t] \in SUBSET Offsets
        BY <1>1, <1>2, <3>1, Registers DEF SetBitmapSum
      <4> QED BY <4>1, DescUpdate
    <3>2. CASE SetDescSum(t)
      <4>1. /\ desc'[h] = desc[h]
               \/ desc'[h] = desc_csum_set(desc[h],
                               [free |-> count[t], bitmapCsum |-> word[t]])
            /\ desc[h] \in Descs
            /\ [free |-> count[t], bitmapCsum |-> word[t]] \in Sums
        BY <1>1, <1>2, <3>2, Registers DEF SetDescSum, Sums
      <4> QED BY <4>1, DescUpdate
    <3>3. CASE ~SetBitmapSum(t) /\ ~SetDescSum(t)
      BY <1>7, <3>3 DEF ThreadStep, Step, Refuse, Call, StartHandle, Read,
         StartFails, GetAccess, TestBit, LoadWord, StoreWord, LoadCount,
         SumBitmap, SumDesc, DirtyBitmap, DirtyDesc, DirtyFails, Stop, memory
    <3> QED BY <3>1, <3>2, <3>3
  <2>4. TotalFree(desc') = TotalFree(desc)
    BY <2>3, TotalFreeSame
  <2> QED BY <1>1, <2>1, <2>2, <2>4 DEF CounterLag
<1> QED BY <1>5, <1>6, <1>7

-----------------------------------------------------------------------------
(* Changed memory is marked dirty or still belongs to a call               *)

MarkedGroup(g) ==
  \/ \E t \in Threads : pc[t] \in Unmarked /\ group(t) = g
  \/ /\ g \in dirty \/ bitmap[g] = committed.bits[g]
     /\ gdtDirty \/ desc[g] = committed.desc[g]

LEMMA MarkedStep ==
  ASSUME Base, Marked, NEW t \in Threads, ThreadStep(t)
  PROVE  Marked'
<1>1. Local(t)
  BY StepIsLocal
<1>2. /\ pc \in [Threads -> PCs] /\ dirty \subseteq Groups
      /\ gdtDirty \in BOOLEAN /\ aborted \in BOOLEAN
  BY DEF Base, TypeOK
<1>3. aborted' = aborted /\ committed' = committed
  BY DEF ThreadStep, Step, Refuse, Call, StartHandle, Read, StartFails,
     GetAccess, TestBit, LoadWord, StoreWord, LoadCount, StoreCount,
     PercpuCount, SumBitmap, SetBitmapSum, SumDesc, SetDescSum, DirtyBitmap,
     DirtyDesc, DirtyFails, Stop, journal
<1>4. dirty \subseteq dirty' /\ (gdtDirty => gdtDirty')
  BY DEF ThreadStep, Step, Refuse, Call, StartHandle, Read, StartFails,
     GetAccess, TestBit, LoadWord, StoreWord, LoadCount, StoreCount,
     PercpuCount, SumBitmap, SetBitmapSum, SumDesc, SetDescSum, DirtyBitmap,
     DirtyDesc, DirtyFails, Stop, journal, MarkGdt
<1>5. SUFFICES ASSUME ~aborted
               PROVE  /\ \A u \in Threads : pc'[u] = "dirtydesc" =>
                                           (group(u) \in dirty)'
                      /\ \A g \in Groups : MarkedGroup(g)'
  BY <1>3 DEF Marked, MarkedGroup
<1>6. ASSUME NEW u \in Threads, pc'[u] = "dirtydesc"
      PROVE  (group(u) \in dirty)'
  <2>1. CASE u # t
    BY <1>1, <1>4, <1>5, <1>6, <2>1 DEF Local, Marked, group
  <2>2. CASE u = t
    <3>1. DirtyBitmap(t) /\ dirty' = dirty \cup {group(t)} /\ block' = block
      BY <1>2, <1>5, <1>6, <2>2 DEF ThreadStep, Step, Refuse, Call, StartHandle,
         Read, StartFails, GetAccess, TestBit, LoadWord, StoreWord, LoadCount,
         StoreCount, PercpuCount, SumBitmap, SetBitmapSum, SumDesc, SetDescSum,
         DirtyBitmap, DirtyDesc, DirtyFails, Stop, Goto, Return, locals
    <3> QED BY <2>2, <3>1 DEF group
  <2> QED BY <2>1, <2>2
<1>7. ASSUME NEW g \in Groups
      PROVE  MarkedGroup(g)'
  <2>1. CASE \E u \in Threads : u # t /\ pc[u] \in Unmarked /\ group(u) = g
    BY <1>1, <2>1 DEF MarkedGroup, Local, group
  <2>2. CASE pc[t] \in Unmarked /\ group(t) = g
    <3>1. CASE pc'[t] \in Unmarked
      BY <1>1, <2>2, <3>1 DEF MarkedGroup, Local, Unmarked, Midway, group
    <3>2. CASE pc'[t] \notin Unmarked
      <4>1. /\ DirtyDesc(t) /\ pc[t] = "dirtydesc" /\ gdtDirty'
        BY <1>2, <1>5, <2>2, <3>2 DEF ThreadStep, Step, Refuse, Call,
           StartHandle, Read, StartFails, GetAccess, TestBit, LoadWord,
           StoreWord, LoadCount, StoreCount, PercpuCount, SumBitmap,
           SetBitmapSum, SumDesc, SetDescSum, DirtyBitmap, DirtyDesc,
           DirtyFails, Stop, Goto, Return, Unmarked, Midway, MarkGdt
      <4>2. g \in dirty
        BY <1>5, <2>2, <4>1 DEF Marked
      <4> QED BY <1>4, <4>1, <4>2 DEF MarkedGroup
    <3> QED BY <3>1, <3>2
  <2>3. CASE \A u \in Threads : pc[u] \in Unmarked => group(u) # g
    <3>1. /\ g \in dirty \/ bitmap[g] = committed.bits[g]
          /\ gdtDirty \/ desc[g] = committed.desc[g]
      BY <1>5, <2>3 DEF Marked
    <3>2. CASE bitmap'[g] = bitmap[g] /\ desc'[g] = desc[g]
      BY <1>3, <1>4, <3>1, <3>2 DEF MarkedGroup
    <3>3. CASE ~(bitmap'[g] = bitmap[g] /\ desc'[g] = desc[g])
      <4>1. pc[t] \in {"load", "store"} /\ g = group(t)
        BY <1>1, <2>3, <3>3 DEF Local, Critical, Unmarked
      <4>2. StoreWord(t)
        BY <1>2, <3>3, <4>1 DEF ThreadStep, Step, Refuse, Call, StartHandle,
           Read, StartFails, GetAccess, TestBit, LoadWord, LoadCount,
           StoreCount, PercpuCount, SumBitmap, SetBitmapSum, SumDesc,
           SetDescSum, DirtyBitmap, DirtyDesc, DirtyFails, Stop, Goto, Return,
           memory
      <4>3. pc'[t] \in Unmarked /\ group(t)' = g
        BY <1>2, <4>1, <4>2 DEF StoreWord, Goto, Unmarked, Midway, locals, group
      <4> QED BY <4>3 DEF MarkedGroup
    <3> QED BY <3>2, <3>3
  <2> QED BY <2>1, <2>2, <2>3
<1> QED BY <1>6, <1>7

(* Without open handles every change is marked.                            *)
LEMMA AllMarked ==
  ASSUME Base, Marked, ~aborted, handles = {}, NEW g \in Groups
  PROVE  /\ g \in dirty \/ bitmap[g] = committed.bits[g]
         /\ gdtDirty \/ desc[g] = committed.desc[g]
<1>1. \A t \in Threads : pc[t] \in {"idle", "read", "start"}
  BY DEF Base, NoLeak
<1> QED BY <1>1 DEF Marked, Unmarked, Midway

LEMMA CommitSavesAll ==
  ASSUME Base, Marked, Commit
  PROVE  \A g \in Groups : /\ committed'.bits[g] = bitmap[g]
                           /\ committed'.desc[g] = desc[g]
BY AllMarked DEF Commit, MayCommit

LEMMA MarkedEnvironment ==
  ASSUME Base, Marked, Environment \/ UNCHANGED vars
  PROVE  Marked'
<1>1. CASE LockTransaction
  BY <1>1 DEF LockTransaction, Marked, memory, locals, group
<1>2. CASE Commit
  <2>1. \A t \in Threads : pc'[t] \in {"idle", "read", "start"}
    BY <1>2 DEF Commit, MayCommit, Base, NoLeak
  <2>2. \A g \in Groups : /\ bitmap'[g] = committed'.bits[g]
                          /\ desc'[g] = committed'.desc[g]
    BY <1>2, CommitSavesAll DEF Commit, memory
  <2> QED BY <2>1, <2>2 DEF Marked
<1>3. CASE Abort
  BY <1>3 DEF Abort, Marked
<1>4. CASE Crash
  BY <1>4 DEF Crash, Marked
<1>5. CASE UNCHANGED vars
  BY <1>5 DEF vars, Marked, memory, journal, locals, group
<1> QED BY <1>1, <1>2, <1>3, <1>4, <1>5 DEF Environment

LEMMA InitMarked == Init => Marked
BY DEF Init, Marked

(* No change to a bitmap or a descriptor escapes the journal, even when    *)
(* calls race in one group: what is not on disk is marked dirty or belongs *)
(* to a call that still has its handle open, unless the journal aborted.   *)
THEOREM ChangesAreJournalled == Spec => []NothingLost
<1>1. Init => Base /\ Marked
  BY InitBase, InitMarked
<1>2. Base /\ Marked /\ [Next]_vars => (Base /\ Marked)'
  <2> SUFFICES ASSUME Base, Marked, [Next]_vars PROVE Base' /\ Marked'
    OBVIOUS
  <2>1. Base'
    BY StepBase
  <2>2. ASSUME NEW t \in Threads, ThreadStep(t) PROVE Marked'
    BY <2>2, MarkedStep
  <2> QED BY <2>1, <2>2, MarkedEnvironment DEF Next, ThreadStep
<1>3. Base /\ Marked => NothingLost
  BY DEF Base, Marked, NoLeak, NothingLost, Unmarked, Midway
<1> QED BY <1>1, <1>2, <1>3, PTL DEF Spec

-----------------------------------------------------------------------------
(* Consistency, under exclusion per group                                  *)

LEMMA InitIndInv == Init => IndInv
<1> SUFFICES ASSUME Init PROVE IndInv
  OBVIOUS
<1>1. Base /\ Marked
  BY InitBase, InitMarked
<1>2. \A g \in Groups : Whole(bitmap[g], desc[g])
  BY <1>1, CleanDescWhole DEF Init, Base, TypeOK
<1>3. Clearing({"percpu"}) = {} /\ Setting({"percpu"}) = {}
  BY DEF Init, Clearing, Setting
<1>4. CounterLag
  <2>1. Cardinality({}) = 0
    BY FS_EmptySet
  <2>2. freeclusters = TotalFree(desc) /\ TotalFree(desc) \in Nat
    BY TotalFreeType DEF Init
  <2> QED BY <1>3, <2>1, <2>2 DEF CounterLag
<1>5. Phases /\ GroupConsistent /\ CrashConsistent
  BY <1>2 DEF Init, Phases, Critical, Midway, GroupConsistent, CrashConsistent
<1> QED BY <1>1, <1>4, <1>5 DEF IndInv, Base

(* What is neither a call nor a crash leaves a group and its calls alone,  *)
(* and a commit saves it when no call is in it.                            *)
LEMMA GroupEnvironment ==
  ASSUME NEW g \in Groups, GroupInv(g), Environment \/ UNCHANGED vars
  PROVE  PhasesIn(g)' /\ ConsistentIn(g)' /\ SavedIn(g)'
<1>1. Base
  BY DEF GroupInv
<1>2. CASE LockTransaction \/ Abort \/ UNCHANGED vars
  <2>1. UNCHANGED <<bitmap, desc, committed, pc, locals>>
    BY <1>2 DEF LockTransaction, Abort, vars, memory, journal
  <2>2. PhasesIn(g)'
    BY <2>1 DEF GroupInv, PhasesIn, Phase, locals, group, offset
  <2>3. ConsistentIn(g)' /\ SavedIn(g)'
    BY <2>1 DEF GroupInv, ConsistentIn, Quiet, SavedIn, locals, group
  <2> QED BY <2>2, <2>3
<1>3. CASE Commit
  <2>1. UNCHANGED <<memory, pc, locals>>
    BY <1>3 DEF Commit
  <2>2. PhasesIn(g)'
    BY <2>1 DEF GroupInv, memory, locals, PhasesIn, Phase, group, offset
  <2>3. ConsistentIn(g)'
    BY <2>1 DEF GroupInv, memory, locals, ConsistentIn, Quiet, group
  <2>4. \A t \in Threads : pc[t] \notin Midway
    BY <1>1, <1>3 DEF Commit, MayCommit, Base, NoLeak, Midway
  <2>5. Whole(bitmap[g], desc[g])
    BY <2>4 DEF GroupInv, ConsistentIn, Quiet
  <2>6. SavedIn(g)'
    BY <1>3, <2>5, CommitSavesAll DEF GroupInv, SavedIn
  <2> QED BY <2>2, <2>3, <2>6
<1>4. CASE Crash
  BY <1>4 DEF GroupInv, Crash, PhasesIn, Critical, Midway, ConsistentIn, SavedIn
<1> QED BY <1>2, <1>3, <1>4 DEF Environment

LEMMA GroupStep ==
  ASSUME NEW g \in Groups, GroupInv(g), ExclusiveIn(g), [Next]_vars
  PROVE  GroupInv(g)'
<1>1. Base /\ Marked
  BY DEF GroupInv
<1>2. Base'
  BY <1>1, StepBase
<1>3. ASSUME NEW t \in Threads, ThreadStep(t) PROVE GroupInv(g)'
  <2>1. PhasesIn(g)' /\ ConsistentIn(g)' /\ Marked'
    BY <1>1, <1>3, PhasesStep, GroupsStep, MarkedStep
  <2>2. SavedIn(g)'
    BY <1>1, <1>3, StepIsLocal DEF Local, GroupInv, SavedIn
  <2> QED BY <1>2, <2>1, <2>2 DEF GroupInv
<1>4. CASE Environment \/ UNCHANGED vars
  BY <1>1, <1>2, <1>4, GroupEnvironment, MarkedEnvironment DEF GroupInv
<1> QED BY <1>3, <1>4 DEF Next, ThreadStep

LEMMA GroupsOfIndInv ==
  ASSUME IndInv, NEW g \in Groups
  PROVE  GroupInv(g)
BY DEF GroupInv, PhasesIn, ConsistentIn, SavedIn, IndInv, Base, Phases,
   GroupConsistent, CrashConsistent

LEMMA CounterEnvironment ==
  ASSUME CounterLag, Environment \/ UNCHANGED vars
  PROVE  CounterLag'
<1>1. CASE Crash
  <2>1. Clearing({"percpu"})' = {} /\ Setting({"percpu"})' = {}
    BY <1>1 DEF Crash, Clearing, Setting
  <2>2. freeclusters' = TotalFree(desc') /\ TotalFree(desc') \in Nat
    BY <1>1, TotalFreeType DEF Crash
  <2>3. Cardinality(Clearing({"percpu"}))' = 0 /\ Cardinality(Setting({"percpu"}))' = 0
    BY <2>1, FS_EmptySet
  <2> HIDE DEF CounterLag
  <2>4. freeclusters' + 0 - 0 = TotalFree(desc')
    BY <2>2
  <2> QED BY <2>3, <2>4 DEF CounterLag
<1>2. CASE LockTransaction \/ Commit \/ Abort \/ UNCHANGED vars
  <2>1. UNCHANGED <<desc, freeclusters, pc, wasSet>>
    BY <1>2 DEF LockTransaction, Commit, Abort, vars, memory, locals
  <2> QED BY <2>1 DEF CounterLag, Clearing, Setting
<1> QED BY <1>1, <1>2 DEF Environment

LEMMA StepIndInv ==
  ASSUME IndInv, Exclusive, [Next]_vars
  PROVE  IndInv'
<1>1. Base /\ CounterLag
  BY DEF IndInv, Base
<1>2. \A g \in Groups : GroupInv(g) /\ ExclusiveIn(g)
  BY GroupsOfIndInv DEF Exclusive, ExclusiveIn
<1>3. \A g \in Groups : GroupInv(g)'
  BY <1>2, GroupStep
<1>4. 0 \in Groups
  BY SizeAssumption DEF Groups
<1>5. Base' /\ Marked'
  BY <1>3, <1>4 DEF GroupInv
<1>6. Phases'
  <2>1. \A t \in Threads : pc'[t] \in Critical => group(t)' \in Groups
    BY <1>5 DEF Base, GroupExists, Critical, Midway
  <2> QED BY <1>3, <2>1 DEF GroupInv, PhasesIn, Phases
<1>7. GroupConsistent' /\ CrashConsistent'
  BY <1>3 DEF GroupInv, ConsistentIn, SavedIn, GroupConsistent, CrashConsistent
<1>8. CounterLag'
  <2>1. ASSUME NEW t \in Threads, ThreadStep(t) PROVE CounterLag'
    BY <2>1, CounterStep
  <2> QED BY <1>1, <2>1, CounterEnvironment DEF Next, ThreadStep
<1> QED BY <1>5, <1>6, <1>7, <1>8 DEF IndInv, Base

LEMMA IndInvariant == Spec /\ []Exclusive => []IndInv
<1>1. IndInv /\ Exclusive /\ [Next]_vars => IndInv'
  BY StepIndInv
<1> QED BY InitIndInv, <1>1, PTL DEF Spec

(* If the calls exclude one another from the test of a bit to the store of *)
(* the descriptor's checksum, as ext4_lock_group would make them, the      *)
(* bitmap, the free count and the checksums of a group always agree.       *)
THEOREM GroupsStayConsistent == Spec /\ []Exclusive => []GroupConsistent
<1>1. IndInv => GroupConsistent
  BY DEF IndInv
<1> QED BY <1>1, IndInvariant, PTL

(* Under the same exclusion a crash at any moment restores, in every       *)
(* group, a bitmap that its free count and its checksums match.            *)
THEOREM CrashesStayConsistent == Spec /\ []Exclusive => []CrashConsistent
<1>1. IndInv => CrashConsistent
  BY DEF IndInv
<1> QED BY <1>1, IndInvariant, PTL

(* Under the same exclusion the free count of a group on disk is always    *)
(* the number of its clear bits: what the run flip_one_group refutes holds *)
(* as soon as the ioctl takes the group lock that notes.txt asks for.      *)
THEOREM FreeCountsStayOnDisk == Spec /\ []Exclusive => []FreeCountOnDisk
<1>1. CrashConsistent => FreeCountOnDisk
  BY DEF CrashConsistent, Whole, FreeCountOnDisk
<1> QED BY <1>1, CrashesStayConsistent, PTL

(* Under the same exclusion the superblock's free count is the sum of the  *)
(* groups' counts whenever no call is between its bit and its counters.    *)
THEOREM SuperblockStaysConsistent == Spec /\ []Exclusive => []SuperblockConsistent
<1>1. IndInv => SuperblockConsistent
  <2> SUFFICES ASSUME IndInv, \A t \in Threads : pc[t] \notin Midway
               PROVE  freeclusters = TotalFree(desc)
    BY DEF SuperblockConsistent
  <2>1. Clearing({"percpu"}) = {} /\ Setting({"percpu"}) = {}
    BY DEF Clearing, Setting, Midway
  <2>2. Cardinality({}) = 0
    BY FS_EmptySet
  <2>3. TotalFree(desc) \in Nat /\ freeclusters \in Int /\ CounterLag
    BY TotalFreeType DEF IndInv, TypeOK
  <2> QED BY <2>1, <2>2, <2>3 DEF CounterLag
<1> QED BY <1>1, IndInvariant, PTL

LEMMA InitGroupInv ==
  ASSUME Init, NEW g \in Groups
  PROVE  GroupInv(g)
BY InitIndInv, GroupsOfIndInv

(* A race stays in its group: wherever calls exclude one another in one    *)
(* group, that group stays consistent in memory and on disk, although      *)
(* calls may race in every other group.                                    *)
THEOREM RacesStayInTheirGroup ==
  ASSUME NEW g \in Groups
  PROVE  Spec /\ []ExclusiveIn(g) => [](ConsistentIn(g) /\ SavedIn(g))
<1>1. Init => GroupInv(g)
  BY InitGroupInv
<1>2. GroupInv(g) /\ ExclusiveIn(g) /\ [Next]_vars => GroupInv(g)'
  BY GroupStep
<1>3. GroupInv(g) => ConsistentIn(g) /\ SavedIn(g)
  BY DEF GroupInv
<1> QED BY <1>1, <1>2, <1>3, PTL DEF Spec

-----------------------------------------------------------------------------
(* The flip implements BlockLedger, under exclusion per group              *)

(* An instance has its own names for what it extends.                      *)
LEMMA LedgerCardinality == \A S : Ledger!Cardinality(S) = Cardinality(S)
BY DEF Ledger!Cardinality, Cardinality

LEMMA UnitsCount ==
  ASSUME NEW n \in Nat
  PROVE  IsFiniteSet(0 .. n - 1) /\ Cardinality(0 .. n - 1) = n
<1>1. 0 \in Int /\ n - 1 \in Int
  OBVIOUS
<1>2. /\ IsFiniteSet(0 .. n - 1)
      /\ Cardinality(0 .. n - 1) = IF 0 > n - 1 THEN 0 ELSE (n - 1) - 0 + 1
  BY <1>1, FS_Interval
<1> QED BY <1>2

(* If each group's free count is the number of its clear bits, the sum of  *)
(* the free counts is the number of all clear bits: the bijections of the  *)
(* groups, put side by side, are one of the sums.                          *)
LEMMA AllClearIsTotal ==
  ASSUME NEW d \in [Groups -> Descs], NEW b \in [Groups -> SUBSET Offsets],
         \A g \in Groups : d[g].free = Cardinality(Offsets \ b[g])
  PROVE  Ledger!AllClear(b) = TotalFree(d)
<1> DEFINE Units(g) == 0 .. d[g].free - 1
           Clear(g) == Offsets \ b[g]
           S == FreeUnits(d)
           T == {p \in Groups \X Offsets : p[2] \notin b[p[1]]}
           h == [g \in Groups |-> CHOOSE f : f \in Bijection(Units(g), Clear(g))]
           F == [u \in S |-> <<u[1], h[u[1]][u[2]]>>]
<1>1. ASSUME NEW g \in Groups
      PROVE  h[g] \in Bijection(Units(g), Clear(g))
  <2>1. d[g].free \in Counts /\ d[g].free \in Nat
    BY SizeAssumption DEF Descs, Counts
  <2>2. IsFiniteSet(Units(g)) /\ Cardinality(Units(g)) = d[g].free
    BY <2>1, UnitsCount
  <2>3. IsFiniteSet(Clear(g)) /\ Cardinality(Clear(g)) = d[g].free
    BY ClearBitsFit
  <2>4. ExistsBijection(Units(g), Clear(g))
    BY <2>2, <2>3, FS_SameCardinalityBij
  <2> QED BY <2>4 DEF ExistsBijection
<1>2. ASSUME NEW g \in Groups
      PROVE  /\ h[g] \in [Units(g) -> Clear(g)]
             /\ \A m, n \in Units(g) : h[g][m] = h[g][n] => m = n
             /\ \A o \in Clear(g) : \E n \in Units(g) : h[g][n] = o
  <2> HIDE DEF h, Units, Clear
  <2> QED BY <1>1 DEF Bijection, Injection, IsInjective, Surjection
<1>3. \A u \in Groups \X Counts : u \in S <=> u[2] \in Units(u[1])
  BY SizeAssumption DEF FreeUnits, Counts, Descs
<1>4. S \subseteq Groups \X Counts
  BY DEF FreeUnits
<1> HIDE DEF h
<1>5. F \in [S -> T]
  <2>1. ASSUME NEW u \in S PROVE <<u[1], h[u[1]][u[2]]>> \in T
    <3>1. u[1] \in Groups /\ u[2] \in Units(u[1])
      BY <1>3, <1>4
    <3>2. h[u[1]] \in [Units(u[1]) -> Clear(u[1])]
      BY <1>2, <3>1
    <3>3. h[u[1]][u[2]] \in Clear(u[1])
      <4> HIDE DEF Units, Clear
      <4> QED BY <3>1, <3>2
    <3> QED BY <3>1, <3>3
  <2> QED BY <2>1
<1>6. ASSUME NEW u \in S, NEW v \in S, F[u] = F[v]
      PROVE  u = v
  <2>1. u[1] = v[1] /\ h[u[1]][u[2]] = h[v[1]][v[2]]
    BY <1>6
  <2>2. u[1] \in Groups /\ u[2] \in Units(u[1]) /\ v[2] \in Units(u[1])
    BY <1>3, <1>4, <2>1
  <2>3. u[2] = v[2]
    BY <1>2, <2>1, <2>2
  <2> QED BY <1>4, <2>1, <2>3
<1>7. ASSUME NEW p \in T
      PROVE  \E u \in S : F[u] = p
  <2>1. p[1] \in Groups /\ p[2] \in Clear(p[1]) /\ p = <<p[1], p[2]>>
    OBVIOUS
  <2>2. PICK n \in Units(p[1]) : h[p[1]][n] = p[2]
    BY <1>2, <2>1
  <2>3. d[p[1]].free \in Counts
    BY <2>1 DEF Descs
  <2>4. n \in Counts
    BY <2>2, <2>3, SizeAssumption DEF Counts
  <2>5. <<p[1], n>> \in S
    BY <1>3, <2>1, <2>2, <2>4
  <2>6. F[<<p[1], n>>] = p
    BY <2>1, <2>2, <2>5
  <2> QED BY <2>5, <2>6
<1>8. F \in Bijection(S, T)
  BY <1>5, <1>6, <1>7 DEF Bijection, Injection, IsInjective, Surjection
<1>9. ExistsBijection(S, T)
  BY <1>8 DEF ExistsBijection
<1>10. Cardinality(T) = Cardinality(S)
  BY <1>9, TotalFreeType, FS_Bijection
<1> QED BY <1>10, LedgerCardinality DEF Ledger!AllClear, TotalFree

(* The counts a group's calls have yet to write make up the difference     *)
(* between its free count and its bitmap.                                  *)
LEMMA FreeThenIs ==
  ASSUME IndInv, Exclusive, NEW g \in Groups
  PROVE  FreeThen[g] = Cardinality(Offsets \ bitmap[g])
<1> DEFINE A == Clearing(BeforeCount) \cap In(g)
           B == Setting(BeforeCount) \cap In(g)
<1>1. /\ wasSet \in [Threads -> BOOLEAN] /\ desc[g] \in Descs
      /\ desc[g].free \in Int
      /\ FreeThen[g] = desc[g].free + Cardinality(A) - Cardinality(B)
  BY SizeAssumption DEF IndInv, TypeOK, FreeThen, Descs, Counts
<1>2. Cardinality({}) = 0 /\ \A t : Cardinality({t}) = 1
  BY FS_EmptySet, FS_Singleton
<1>3. ASSUME NEW t \in Threads, pc[t] \in BeforeCount, group(t) = g
      PROVE  FreeThen[g] = Cardinality(Offsets \ bitmap[g])
  <2>1. \A u \in Threads : pc[u] \in BeforeCount /\ group(u) = g => u = t
    BY <1>3 DEF Exclusive, Critical, Midway, BeforeCount
  <2>2. desc[g].free + Delta(wasSet[t]) = Cardinality(Offsets \ bitmap[g])
    BY <1>3 DEF IndInv, Phases, Phase, Critical, Midway, BeforeCount
  <2>3. CASE wasSet[t]
    <3>1. A = {t} /\ B = {}
      BY <1>3, <2>1, <2>3 DEF Clearing, Setting, In
    <3>2. Cardinality(A) = 1 /\ Cardinality(B) = 0
      BY <1>2, <3>1
    <3> QED BY <1>1, <2>2, <2>3, <3>2 DEF Delta
  <2>4. CASE ~wasSet[t]
    <3>1. A = {} /\ B = {t}
      BY <1>3, <2>1, <2>4 DEF Clearing, Setting, In
    <3>2. Cardinality(A) = 0 /\ Cardinality(B) = 1
      BY <1>2, <3>1
    <3> QED BY <1>1, <2>2, <2>4, <3>2 DEF Delta
  <2> QED BY <2>3, <2>4
<1>4. CASE \A t \in Threads : pc[t] \in BeforeCount => group(t) # g
  <2>1. A = {} /\ B = {}
    BY <1>4 DEF Clearing, Setting, In
  <2>2. desc[g].free = Cardinality(Offsets \ bitmap[g])
    <3>1. CASE Quiet(g)
      BY <3>1 DEF IndInv, GroupConsistent, Whole
    <3>2. CASE ~Quiet(g)
      <4>1. PICK t \in Threads : pc[t] \in Midway \ BeforeCount /\ group(t) = g
        BY <1>4, <3>2 DEF Quiet
      <4> QED BY <4>1 DEF IndInv, Phases, Phase, Critical, Midway, BeforeCount
    <3> QED BY <3>1, <3>2
  <2>3. Cardinality(A) = 0 /\ Cardinality(B) = 0
    BY <1>2, <2>1
  <2> QED BY <1>1, <2>2, <2>3
<1> QED BY <1>3, <1>4

FreeIsClear == FreeThen = [g \in Groups |-> Cardinality(Offsets \ bitmap[g])]

LEMMA FreeThenClear == IndInv /\ Exclusive => FreeIsClear
BY FreeThenIs DEF FreeThen, FreeIsClear

(* The total with the updates that are due changes when a bit is stored.   *)
LEMMA TotalThenStep ==
  ASSUME Base, NEW t \in Threads, ThreadStep(t)
  PROVE  TotalThen' = IF pc[t] = "store" THEN TotalThen + Delta(wasSet[t])
                                         ELSE TotalThen
<1>1. /\ pc \in [Threads -> PCs] /\ wasSet \in [Threads -> BOOLEAN]
      /\ freeclusters \in Int
  BY DEF Base, TypeOK
<1> DEFINE A == Clearing(BeforeTotal)
           B == Setting(BeforeTotal)
<1>2. /\ IsFiniteSet(A) /\ Cardinality(A) \in Nat
      /\ IsFiniteSet(B) /\ Cardinality(B) \in Nat
  BY PendingFinite
<1>3. CASE StoreWord(t)
  <2>1. pc[t] = "store" /\ freeclusters' = freeclusters
    BY <1>3 DEF StoreWord, Goto
  <2>2. CASE wasSet[t]
    <3>1. A' = A \cup {t} /\ t \notin A /\ B' = B
      BY <1>1, <1>3, <2>2 DEF StoreWord, Goto, Clearing, Setting, BeforeTotal, locals
    <3>2. Cardinality(A \cup {t}) = Cardinality(A) + 1
      BY <1>2, <3>1, FS_AddElement
    <3>3. Cardinality(A)' = Cardinality(A) + 1
          /\ Cardinality(B)' = Cardinality(B)
      BY <3>1, <3>2
    <3> QED BY <1>1, <1>2, <2>1, <2>2, <3>3 DEF TotalThen, Delta
  <2>3. CASE ~wasSet[t]
    <3>1. B' = B \cup {t} /\ t \notin B /\ A' = A
      BY <1>1, <1>3, <2>3 DEF StoreWord, Goto, Clearing, Setting, BeforeTotal, locals
    <3>2. Cardinality(B \cup {t}) = Cardinality(B) + 1
      BY <1>2, <3>1, FS_AddElement
    <3>3. Cardinality(B)' = Cardinality(B) + 1
          /\ Cardinality(A)' = Cardinality(A)
      BY <3>1, <3>2
    <3> QED BY <1>1, <1>2, <2>1, <2>3, <3>3 DEF TotalThen, Delta
  <2> QED BY <2>2, <2>3
<1>4. CASE PercpuCount(t)
  <2>1. freeclusters' = freeclusters + Delta(wasSet[t]) /\ pc[t] # "store"
    BY <1>4 DEF PercpuCount, NextTotal, Goto
  <2>2. CASE wasSet[t]
    <3>1. A' = A \ {t} /\ t \in A /\ B' = B
      BY <1>1, <1>4, <2>2 DEF PercpuCount, Goto, Clearing, Setting, BeforeTotal, locals
    <3>2. Cardinality(A \ {t}) = Cardinality(A) - 1
      BY <1>2, <3>1, FS_RemoveElement
    <3>3. Cardinality(A)' = Cardinality(A) - 1
          /\ Cardinality(B)' = Cardinality(B)
      BY <3>1, <3>2
    <3> QED BY <1>1, <1>2, <2>1, <2>2, <3>3 DEF TotalThen, Delta
  <2>3. CASE ~wasSet[t]
    <3>1. B' = B \ {t} /\ t \in B /\ A' = A
      BY <1>1, <1>4, <2>3 DEF PercpuCount, Goto, Clearing, Setting, BeforeTotal, locals
    <3>2. Cardinality(B \ {t}) = Cardinality(B) - 1
      BY <1>2, <3>1, FS_RemoveElement
    <3>3. Cardinality(B)' = Cardinality(B) - 1
          /\ Cardinality(A)' = Cardinality(A)
      BY <3>1, <3>2
    <3> QED BY <1>1, <1>2, <2>1, <2>3, <3>3 DEF TotalThen, Delta
  <2> QED BY <2>2, <2>3
<1>5. CASE ~StoreWord(t) /\ ~PercpuCount(t)
  <2>1. freeclusters' = freeclusters
    BY <1>5 DEF ThreadStep, Step, Refuse, Call, StartHandle, Read, StartFails,
       GetAccess, TestBit, LoadWord, LoadCount, StoreCount, SumBitmap,
       SetBitmapSum, SumDesc, SetDescSum, DirtyBitmap, DirtyDesc, DirtyFails,
       Stop, memory
  <2>2. pc[t] # "store" /\ A' = A /\ B' = B
    BY <1>1, <1>5 DEF ThreadStep, Step, Refuse, Call, StartHandle, Read,
       StartFails, GetAccess, TestBit, LoadWord, LoadCount, StoreCount,
       SumBitmap, SetBitmapSum, SumDesc, SetDescSum, DirtyBitmap, DirtyDesc,
       DirtyFails, Stop, Goto, Return, Clearing, Setting, BeforeTotal, locals
  <2> QED BY <2>1, <2>2 DEF TotalThen
<1> QED BY <1>3, <1>4, <1>5

LEMMA InitLedger == Init => Ledger!Init
<1> SUFFICES ASSUME Init PROVE Ledger!Init
  OBVIOUS
<1>1. IndInv /\ Exclusive
  BY InitIndInv DEF Init, Exclusive, Critical, Midway
<1>2. FreeThen = Ledger!ClearBits(bitmap)
  BY <1>1, FreeThenClear, LedgerCardinality DEF FreeIsClear, Ledger!ClearBits
<1>3. \A g \in Groups : desc[g].free = Cardinality(Offsets \ bitmap[g])
  BY DEF Init, CleanDesc
<1>4. TotalThen = TotalFree(desc)
  <2>1. Clearing(BeforeTotal) = {} /\ Setting(BeforeTotal) = {}
    BY DEF Init, Clearing, Setting, BeforeTotal
  <2>2. freeclusters = TotalFree(desc) /\ TotalFree(desc) \in Nat
    BY TotalFreeType DEF Init
  <2> QED BY <2>1, <2>2, FS_EmptySet DEF TotalThen
<1>5. TotalThen = Ledger!AllClear(bitmap)
  BY <1>1, <1>3, <1>4, AllClearIsTotal DEF IndInv, TypeOK
<1>6. OnDisk = [bits |-> bitmap, free |-> FreeThen]
  BY <1>1, <1>3, FreeThenClear DEF Init, FreeIsClear, OnDisk
<1>7. bitmap \in [Groups -> SUBSET Offsets]
  BY <1>1 DEF IndInv, TypeOK
<1> QED BY <1>2, <1>5, <1>6, <1>7 DEF Ledger!Init

LEMMA StepLedger ==
  ASSUME IndInv, IndInv', FreeIsClear, FreeIsClear', [Next]_vars
  PROVE  Ledger!Next \/ UNCHANGED <<bitmap, FreeThen, TotalThen, OnDisk>>
<1>1. Base /\ Marked
  BY DEF IndInv, Base
<1>2. /\ FreeThen = [g \in Groups |-> Cardinality(Offsets \ bitmap[g])]
      /\ FreeThen' = [g \in Groups |-> Cardinality(Offsets \ bitmap'[g])]
  BY DEF FreeIsClear
<1>3. ASSUME NEW t \in Threads, ThreadStep(t), pc[t] = "store"
      PROVE  Ledger!Next
  <2> DEFINE g == group(t)
             o == offset(t)
  <2>1. StoreWord(t)
    BY <1>3 DEF ThreadStep, Step, Refuse, Call, StartHandle, Read,
       StartFails, GetAccess, TestBit, LoadWord, LoadCount, StoreCount,
       PercpuCount, SumBitmap, SetBitmapSum, SumDesc, SetDescSum, DirtyBitmap,
       DirtyDesc, DirtyFails, Stop, Goto, Return
  <2>2. /\ g \in Groups /\ o \in Offsets /\ wasSet[t] \in BOOLEAN
        /\ bitmap[g] \in SUBSET Offsets
    BY <1>1, <1>3, Registers
  <2>3. word[t] = bitmap[g] /\ (wasSet[t] <=> o \in bitmap[g])
    BY <1>3 DEF IndInv, Phases, Phase, Critical
  <2>4. bitmap' = [bitmap EXCEPT ![g] = Flipped(bitmap[g], o, wasSet[t])]
    BY <2>1, <2>3 DEF StoreWord
  <2>5. FreeThen' = [FreeThen EXCEPT ![g] = @ + Delta(wasSet[t])]
    <3>1. bitmap \in [Groups -> SUBSET Offsets]
      BY <1>1 DEF Base, TypeOK
    <3>2. Cardinality(Offsets \ bitmap'[g])
            = Cardinality(Offsets \ bitmap[g]) + Delta(wasSet[t])
      BY <2>2, <2>3, <2>4, <3>1, FlipCounts
    <3>3. \A k \in Groups : k # g => bitmap'[k] = bitmap[k]
      BY <2>4, <3>1
    <3> QED BY <1>2, <2>2, <3>2, <3>3
  <2>6. TotalThen' = TotalThen + Delta(wasSet[t])
    BY <1>1, <1>3, TotalThenStep
  <2>7. OnDisk' = OnDisk
    BY <1>1, <1>3, StepIsLocal DEF Local, OnDisk
  <2>8. CASE wasSet[t]
    <3>1. Ledger!Clear(g, o)
      BY <2>3, <2>4, <2>5, <2>6, <2>7, <2>8 DEF Ledger!Clear, Flipped, Delta
    <3> QED BY <2>2, <3>1 DEF Ledger!Next
  <2>9. CASE ~wasSet[t]
    <3>1. Ledger!Set(g, o)
      <4>1. FreeThen[g] \in Int
        <5>1. Cardinality(Offsets \ bitmap[g]) \in Counts
          BY ClearBitsFit
        <5> QED BY <1>2, <2>2, <5>1, SizeAssumption DEF Counts
      <4>2. TotalThen \in Int
        <5>1. freeclusters \in Int
          BY <1>1 DEF Base, TypeOK
        <5> QED BY <5>1, PendingFinite DEF TotalThen
      <4>3. FreeThen' = [FreeThen EXCEPT ![g] = @ - 1] /\ TotalThen' = TotalThen - 1
        BY <2>5, <2>6, <2>9, <4>1, <4>2 DEF Delta
      <4> QED BY <2>3, <2>4, <2>7, <2>9, <4>3 DEF Ledger!Set, Flipped
    <3> QED BY <2>2, <3>1 DEF Ledger!Next
  <2> QED BY <2>8, <2>9
<1>4. ASSUME NEW t \in Threads, ThreadStep(t), pc[t] # "store"
      PROVE  UNCHANGED <<bitmap, FreeThen, TotalThen, OnDisk>>
  <2>1. bitmap' = bitmap
    BY <1>4 DEF ThreadStep, Step, Refuse, Call, StartHandle, Read, StartFails,
       GetAccess, TestBit, LoadWord, StoreWord, LoadCount, StoreCount,
       PercpuCount, SumBitmap, SetBitmapSum, SumDesc, SetDescSum, DirtyBitmap,
       DirtyDesc, DirtyFails, Stop, Goto, memory
  <2>2. OnDisk' = OnDisk
    BY <1>1, <1>4, StepIsLocal DEF Local, OnDisk
  <2>3. TotalThen' = TotalThen
    BY <1>1, <1>4, TotalThenStep
  <2> QED BY <1>2, <2>1, <2>2, <2>3
<1>5. CASE LockTransaction \/ Abort \/ UNCHANGED vars
  <2>1. UNCHANGED <<bitmap, freeclusters, pc, wasSet, committed>>
    BY <1>5 DEF LockTransaction, Abort, vars, memory, journal, locals
  <2> QED BY <1>2, <2>1 DEF TotalThen, Clearing, Setting, OnDisk
<1>6. CASE Commit
  <2>1. UNCHANGED <<bitmap, desc, freeclusters, pc, wasSet>>
    BY <1>6 DEF Commit, memory, locals
  <2>2. FreeThen' = FreeThen /\ TotalThen' = TotalThen
    BY <1>2, <2>1 DEF TotalThen, Clearing, Setting
  <2>3. committed'.bits = bitmap
    <3>1. \A g \in Groups : committed'.bits[g] = bitmap[g]
      BY <1>1, <1>6, CommitSavesAll
    <3>2. /\ bitmap \in [Groups -> SUBSET Offsets]
          /\ committed'.bits \in [Groups -> SUBSET Offsets]
      BY DEF IndInv, TypeOK
    <3> QED BY <3>1, <3>2
  <2>4. \A g \in Groups : committed'.desc[g].free = Cardinality(Offsets \ bitmap[g])
    BY <2>3 DEF IndInv, CrashConsistent, Whole
  <2>5. OnDisk' = [bits |-> bitmap, free |-> FreeThen]
    BY <1>2, <2>3, <2>4 DEF OnDisk
  <2> QED BY <2>1, <2>2, <2>5 DEF Ledger!Next, Ledger!Commit
<1>7. CASE Crash
  <2>1. /\ bitmap' = committed.bits /\ committed' = committed
        /\ freeclusters' = TotalFree(committed.desc)
        /\ \A t \in Threads : pc'[t] = "idle"
    BY <1>7 DEF Crash
  <2>2. \A g \in Groups : committed.desc[g].free
                            = Cardinality(Offsets \ committed.bits[g])
    BY DEF IndInv, CrashConsistent, Whole
  <2>3. FreeThen' = OnDisk.free /\ OnDisk.bits = committed.bits
    BY <1>2, <2>1, <2>2 DEF OnDisk
  <2>4. TotalThen' = TotalFree(committed.desc)
    <3>1. Clearing(BeforeTotal)' = {} /\ Setting(BeforeTotal)' = {}
      BY <2>1 DEF Clearing, Setting, BeforeTotal
    <3>2. TotalFree(committed.desc) \in Nat
      BY TotalFreeType
    <3> QED BY <2>1, <3>1, <3>2, FS_EmptySet DEF TotalThen
  <2>5. Ledger!AllClear(committed.bits) = TotalFree(committed.desc)
    BY <2>2, AllClearIsTotal DEF IndInv, TypeOK
  <2>6. OnDisk' = OnDisk
    BY <2>1 DEF OnDisk
  <2> QED BY <2>1, <2>3, <2>4, <2>5, <2>6 DEF Ledger!Next, Ledger!Crash
<1> QED BY <1>3, <1>4, <1>5, <1>6, <1>7 DEF Next, ThreadStep, Environment

(* Under the same exclusion the ten steps in which a call changes the bit, *)
(* the counts and the checksums are one step to an observer who adds the   *)
(* counts still due, and a crash restores one whole commit.                *)
THEOREM FlipImplementsLedger == Spec /\ []Exclusive => ImplementsLedger
<1>1. /\ IndInv /\ IndInv' /\ FreeIsClear /\ FreeIsClear' /\ [Next]_vars
      => [Ledger!Next]_(Ledger!vars)
  BY StepLedger DEF Ledger!vars
<1> QED BY InitLedger, <1>1, FreeThenClear, IndInvariant, PTL
        DEF Spec, ImplementsLedger, Ledger!Spec
-----------------------------------------------------------------------------
(* Callers that never ask for blocks of the same group exclude one another *)

DisjointTargets ==
  \A t, u \in Threads : t # u =>
    \A b \in Targets[t], c \in Targets[u] : GroupOf(b) # GroupOf(c)

AsksTarget == \A t \in Threads : pc[t] # "idle" => block[t] \in Targets[t]

LEMMA StepAsksTarget ==
  ASSUME Base, AsksTarget, [Next]_vars
  PROVE  AsksTarget'
<1>1. pc \in [Threads -> PCs] /\ block \in [Threads -> Nat]
  BY DEF Base, TypeOK
<1>2. ASSUME NEW t \in Threads, ThreadStep(t)
      PROVE  AsksTarget'
  <2>1. \A u \in Threads : u # t => pc'[u] = pc[u] /\ block'[u] = block[u]
    BY <1>2, StepIsLocal DEF Base, Local
  <2>2. pc'[t] # "idle" => block'[t] \in Targets[t]
    <3>1. CASE Call(t)
      BY <1>1, <3>1 DEF Call
    <3>2. CASE Refuse(t)
      BY <3>2 DEF Refuse, AsksTarget, locals
    <3>3. CASE StartHandle(t) \/ StartFails(t) \/ Step(t)
      <4>1. pc[t] # "idle"
        BY <3>3 DEF Step, StartHandle, Read, StartFails, GetAccess, TestBit,
           LoadWord, StoreWord, LoadCount, StoreCount, PercpuCount, SumBitmap,
           SetBitmapSum, SumDesc, SetDescSum, DirtyBitmap, DirtyDesc,
           DirtyFails, Stop, Goto, Return
      <4> QED BY <1>2, <4>1, StepIsLocal DEF Base, Local, AsksTarget
    <3> QED BY <1>2, <3>1, <3>2, <3>3 DEF ThreadStep
  <2> QED BY <2>1, <2>2 DEF AsksTarget
<1>3. CASE Crash
  BY <1>3 DEF Crash, AsksTarget
<1>4. CASE LockTransaction \/ Commit \/ Abort \/ UNCHANGED vars
  BY <1>4 DEF LockTransaction, Commit, Abort, vars, locals, AsksTarget
<1> QED BY <1>2, <1>3, <1>4 DEF Next, ThreadStep, Environment

(* Calls of threads that ask for blocks of different groups, as those of   *)
(* the run flip_disjoint do, need no lock: no two of them are between the  *)
(* test of a bit and the last checksum in one group.                       *)
THEOREM DisjointExclude ==
  ASSUME DisjointTargets
  PROVE  Spec => []Exclusive
<1>1. Init => AsksTarget
  BY DEF Init, AsksTarget
<1>2. Base /\ AsksTarget /\ [Next]_vars => AsksTarget'
  BY StepAsksTarget
<1>3. AsksTarget => Exclusive
  BY DisjointTargets DEF DisjointTargets, AsksTarget, Exclusive, Critical, Midway, group
<1> QED BY <1>1, <1>2, <1>3, BaseInvariant, PTL DEF Spec

(* A group that one thread at most asks for blocks of stays consistent,    *)
(* in memory and on disk, without any lock and whatever groups the other   *)
(* threads race for.                                                       *)
THEOREM SoleCallerIsSafe ==
  ASSUME NEW g \in Groups,
         \A t, u \in Threads : t # u =>
           \A b \in Targets[t], c \in Targets[u] : ~ (GroupOf(b) = g /\ GroupOf(c) = g)
  PROVE  Spec => [](ConsistentIn(g) /\ SavedIn(g))
<1>1. Init => AsksTarget
  BY DEF Init, AsksTarget
<1>2. Base /\ AsksTarget /\ [Next]_vars => AsksTarget'
  BY StepAsksTarget
<1>3. AsksTarget => ExclusiveIn(g)
  BY DEF AsksTarget, ExclusiveIn, Critical, Midway, group
<1> QED BY <1>1, <1>2, <1>3, BaseInvariant, RacesStayInTheirGroup, PTL DEF Spec

(* So their flips implement the ledger, whatever commits, aborts, faults   *)
(* and crashes come in between.                                            *)
THEOREM DisjointImplementsLedger ==
  ASSUME DisjointTargets
  PROVE  Spec => ImplementsLedger
BY DisjointExclude, FlipImplementsLedger, PTL

-----------------------------------------------------------------------------
(* What nobody asks for is kept, even where calls race                     *)

Asked(g, o) ==
  \E t \in Threads : \E b \in Targets[t] : GroupOf(b) = g /\ OffsetOf(b) = o

(* The word a call is about to store, and what a crash would restore, have *)
(* the bits that nobody asks for as they are.                              *)
BystandersAgree ==
  \A g \in Groups, o \in Offsets : ~Asked(g, o) =>
    /\ o \in bitmap[g] <=> o \in committed.bits[g]
    /\ \A t \in Threads : pc[t] = "store" /\ group(t) = g =>
         (o \in word[t] <=> o \in bitmap[g])

BystandersKept ==
  \A g \in Groups, o \in Offsets : ~Asked(g, o) =>
    (o \in bitmap'[g] <=> o \in bitmap[g])

LEMMA StepKeepsBystanders ==
  ASSUME Base, AsksTarget, BystandersAgree, [Next]_vars
  PROVE  BystandersKept
<1> SUFFICES ASSUME NEW g \in Groups, NEW o \in Offsets, ~Asked(g, o)
             PROVE  o \in bitmap'[g] <=> o \in bitmap[g]
  BY DEF BystandersKept
<1>1. ASSUME NEW t \in Threads, ThreadStep(t)
      PROVE  o \in bitmap'[g] <=> o \in bitmap[g]
  <2>1. CASE StoreWord(t) /\ group(t) = g
    <3>1. pc[t] = "store" /\ o # offset(t)
      BY <2>1 DEF StoreWord, Goto, AsksTarget, Asked, group, offset
    <3>2. bitmap'[g] = Flipped(word[t], offset(t), wasSet[t])
      BY <2>1 DEF StoreWord, Base, TypeOK
    <3>3. o \in word[t] <=> o \in bitmap[g]
      BY <2>1, <3>1 DEF BystandersAgree
    <3> QED BY <3>1, <3>2, <3>3 DEF Flipped
  <2>2. CASE StoreWord(t) /\ group(t) # g
    BY <2>2 DEF StoreWord, Base, TypeOK
  <2>3. CASE ~StoreWord(t)
    BY <1>1, <2>3 DEF ThreadStep, Step, Refuse, Call, StartHandle, Read, StartFails,
       GetAccess, TestBit, LoadWord, LoadCount, StoreCount, PercpuCount, SumBitmap,
       SetBitmapSum, SumDesc, SetDescSum, DirtyBitmap, DirtyDesc, DirtyFails, Stop,
       memory
  <2> QED BY <2>1, <2>2, <2>3
<1>2. CASE Crash
  BY <1>2 DEF Crash, BystandersAgree
<1>3. CASE LockTransaction \/ Commit \/ Abort \/ UNCHANGED vars
  BY <1>3 DEF LockTransaction, Commit, Abort, vars, memory
<1> QED BY <1>1, <1>2, <1>3 DEF Next, ThreadStep, Environment

LEMMA StepBystandersAgree ==
  ASSUME Base, AsksTarget, BystandersAgree, [Next]_vars
  PROVE  BystandersAgree'
<1>0. BystandersKept
  BY StepKeepsBystanders
<1> SUFFICES ASSUME NEW g \in Groups, NEW o \in Offsets, ~Asked(g, o)
             PROVE  /\ o \in bitmap'[g] <=> o \in committed'.bits[g]
                    /\ \A u \in Threads : pc'[u] = "store" /\ group(u)' = g =>
                         (o \in word'[u] <=> o \in bitmap'[g])
  BY DEF BystandersAgree, Asked
<1>1. /\ o \in bitmap'[g] <=> o \in bitmap[g]
      /\ o \in bitmap[g] <=> o \in committed.bits[g]
  BY <1>0 DEF BystandersKept, BystandersAgree
<1>2. ASSUME NEW t \in Threads, ThreadStep(t), NEW u \in Threads,
             pc'[u] = "store", group(u)' = g
      PROVE  o \in word'[u] <=> o \in bitmap'[g]
  <2>1. Local(t)
    BY <1>2, StepIsLocal
  <2>2. CASE u # t
    BY <1>1, <1>2, <2>1, <2>2 DEF Local, BystandersAgree, group
  <2>3. CASE u = t
    <3>1. LoadWord(t)
      BY <1>2, <2>3 DEF ThreadStep, Step, Refuse, Call, StartHandle, Read, StartFails,
         GetAccess, TestBit, StoreWord, LoadCount, StoreCount, PercpuCount, SumBitmap,
         SetBitmapSum, SumDesc, SetDescSum, DirtyBitmap, DirtyDesc, DirtyFails, Stop,
         Goto, Return, Base, TypeOK
    <3> QED BY <1>2, <2>3, <3>1 DEF LoadWord, Base, TypeOK, memory, group
  <2> QED BY <2>2, <2>3
<1>3. ASSUME NEW t \in Threads, ThreadStep(t)
      PROVE  o \in bitmap'[g] <=> o \in committed'.bits[g]
  BY <1>1, <1>3, StepIsLocal DEF Local
<1>4. CASE Crash
  BY <1>4 DEF Crash
<1>5. CASE Commit
  <2>1. committed'.bits[g] \in {bitmap[g], committed.bits[g]}
    BY <1>5 DEF Commit
  <2>2. UNCHANGED <<bitmap, pc, word, block>>
    BY <1>5 DEF Commit, memory, locals
  <2> QED BY <1>1, <2>1, <2>2 DEF BystandersAgree, group
<1>6. CASE LockTransaction \/ Abort \/ UNCHANGED vars
  <2>1. UNCHANGED <<bitmap, pc, word, block, committed>>
    BY <1>6 DEF LockTransaction, Abort, vars, memory, locals, journal
  <2> QED BY <1>1, <2>1 DEF BystandersAgree, group
<1> QED BY <1>2, <1>3, <1>4, <1>5, <1>6 DEF Next, ThreadStep, Environment

(* Whatever calls race in a group and whatever commits, aborts and crashes *)
(* come in between, a bit that no call asks for never changes: a race can  *)
(* lose flips, but never flips a bit on its own, and a padding bit stays   *)
(* set unless a caller asks for it.                                        *)
THEOREM NobodyElsesBit == Spec => [][BystandersKept]_vars
<1>1. Init => AsksTarget /\ BystandersAgree
  BY DEF Init, AsksTarget, BystandersAgree
<1>2. Base /\ AsksTarget /\ [Next]_vars => AsksTarget'
  BY StepAsksTarget
<1>3. Base /\ AsksTarget /\ BystandersAgree /\ [Next]_vars
        => BystandersAgree' /\ BystandersKept
  BY StepBystandersAgree, StepKeepsBystanders
<1> QED BY <1>1, <1>2, <1>3, BaseInvariant, PTL DEF Spec

-----------------------------------------------------------------------------
(* Callers that ask for blocks that exist                                  *)

(* The groups cover the blocks of the file system, and block and group     *)
(* numbers fit their types.                                                *)
GeometryFits ==
  /\ BlocksCount <= BlockMod
  /\ BlocksCount <= FirstDataBlock + GroupsCount * BlocksPerGroup
  /\ GroupsCount <= GroupMod

TargetsExist ==
  \A t \in Threads : \A b \in Targets[t] : b \in FirstDataBlock .. BlocksCount - 1

(* Then group and offset of a block number are those of that block.        *)
LEMMA BlockIsReal ==
  ASSUME GeometryFits, NEW b \in FirstDataBlock .. BlocksCount - 1
  PROVE  OffsetOf(b) \in RealOffsets(GroupOf(b))
<1> DEFINE r == b - FirstDataBlock
           q == r \div BlocksPerGroup
           o == r % BlocksPerGroup
<1>1. b \in Nat /\ r \in Nat /\ r < BlockMod
  BY SizeAssumption DEF GeometryFits
<1>2. Relative(b) = r
  BY <1>1, SizeAssumption DEF Relative
<1>3. q \in Nat /\ o \in Nat /\ o < BlocksPerGroup /\ r = q * BlocksPerGroup + o
  BY <1>1, SizeAssumption
<1>4. q < GroupsCount
  <2> HIDE DEF q, o
  <2>1. r < GroupsCount * BlocksPerGroup
    BY <1>1, SizeAssumption DEF GeometryFits
  <2>2. q * BlocksPerGroup < GroupsCount * BlocksPerGroup
    BY <1>1, <1>3, <2>1, SizeAssumption
  <2>3. CASE q >= GroupsCount
    <3>1. PICK k \in Nat : q = GroupsCount + k
      BY <1>3, <2>3, SizeAssumption, q - GroupsCount \in Nat
    <3>2. q * BlocksPerGroup = GroupsCount * BlocksPerGroup + k * BlocksPerGroup
      BY <3>1, SizeAssumption
    <3>3. k * BlocksPerGroup \in Nat /\ GroupsCount * BlocksPerGroup \in Nat
      BY SizeAssumption
    <3> QED BY <2>2, <3>2, <3>3
  <2> QED BY <1>3, <2>3, SizeAssumption
<1>5. GroupOf(b) = q
  <2>1. GroupOf(b) = q % GroupMod
    BY <1>2 DEF GroupOf
  <2>2. q % GroupMod = q
    <3> HIDE DEF q
    <3> QED BY <1>3, <1>4, SizeAssumption DEF GeometryFits
  <2> QED BY <2>1, <2>2
<1>6. OffsetOf(b) = o
  BY <1>2 DEF OffsetOf
<1>7. FirstDataBlock + q * BlocksPerGroup + o < BlocksCount
  <2> HIDE DEF q, o
  <2>1. q * BlocksPerGroup \in Nat
    BY <1>3, SizeAssumption
  <2> QED BY <1>3, <2>1, SizeAssumption
<1>8. o \in Offsets
  BY <1>3, SizeAssumption DEF Offsets
<1> QED BY <1>5, <1>6, <1>7, <1>8 DEF RealOffsets

PaddingSet == \A g \in Groups : Offsets \ RealOffsets(g) \subseteq bitmap[g]

LEMMA PaddingStaysSet ==
  ASSUME GeometryFits, TargetsExist
  PROVE  Spec => []PaddingSet
<1>1. ASSUME NEW g \in Groups, NEW o \in Offsets \ RealOffsets(g)
      PROVE  ~Asked(g, o)
  BY <1>1, BlockIsReal DEF TargetsExist, Asked
<1>2. Init => PaddingSet
  BY DEF Init, PaddingSet
<1>3. PaddingSet /\ BystandersKept => PaddingSet'
  BY <1>1 DEF PaddingSet, BystandersKept, RealOffsets
<1>4. PaddingSet /\ UNCHANGED vars => PaddingSet'
  BY DEF PaddingSet, vars, memory, RealOffsets
<1> QED BY <1>2, <1>3, <1>4, NobodyElsesBit, PTL DEF Spec

(* Callers that exclude one another per group and that ask for no block    *)
(* past the end keep the free count of every group at the number of free   *)
(* blocks it has: what the run flip_padding refutes is the range check     *)
(* that the ioctl leaves to its caller, and nothing else.                  *)
THEOREM FreeBlocksCounted ==
  ASSUME GeometryFits, TargetsExist
  PROVE  Spec /\ []Exclusive => []FreeMatchesBlocks
<1>1. IndInv /\ PaddingSet => FreeMatchesBlocks
  <2> SUFFICES ASSUME IndInv, PaddingSet, NEW g \in Groups, Quiet(g)
               PROVE  desc[g].free = Cardinality(RealOffsets(g) \ bitmap[g])
    BY DEF FreeMatchesBlocks
  <2>1. desc[g].free = Cardinality(Offsets \ bitmap[g])
    BY DEF IndInv, GroupConsistent, Whole
  <2>2. Offsets \ bitmap[g] = RealOffsets(g) \ bitmap[g]
    BY DEF PaddingSet, RealOffsets
  <2> QED BY <2>1, <2>2
<1> QED BY <1>1, IndInvariant, PaddingStaysSet, PTL
=============================================================================
