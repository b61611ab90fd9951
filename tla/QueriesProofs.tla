---------------------------- MODULE QueriesProofs ----------------------------
(***************************************************************************)
(* What the queries tell is so, for any number of mappings, buffers of any *)
(* size, and any interleaving with a setter.                               *)
(***************************************************************************)
EXTENDS Queries, Dispatch, SequenceTheorems, TLAPS

-----------------------------------------------------------------------------
(* FS_IOC_GETFSMAP.                                                        *)
Records == [mapping : Nat, flags : SUBSET {"special", "last"}]

FsmapTypeOK ==
  /\ fpc \in {"user", "query", "last", "header", "told"}
  /\ key \in Nat /\ fmh_count \in Nat /\ aborted \in BOOLEAN
  /\ fmh_recs \in Seq(Records) /\ told \in Seq(Records)
  /\ gi_last_flags \in SUBSET {"special", "last"}

(* A record that is not marked, and one that is marked if it is the last.  *)
Plain(r, m) == r.mapping = m /\ r.flags = FlagsOf(m)
Final(r, m) ==
  r.mapping = m /\ r.flags = FlagsOf(m) \cup (IF m = Mappings THEN {"last"} ELSE {})

(* Between two calls the caller has followed the mappings up to its key,   *)
(* and there is at least one more, unless there are none at all.           *)
Between ==
  /\ \A k \in 1 .. Len(told) : Final(told[k], k)
  /\ fpc # "told" => /\ key = Len(told) + 1
                     /\ (Len(told) < Mappings \/ Len(told) = 0)

(* The records of this call follow on from the key.                        *)
During ==
  /\ fpc \in {"query", "last"} =>
       /\ \A k \in 1 .. Len(fmh_recs) : Plain(fmh_recs[k], key + k - 1)
       /\ Len(fmh_recs) > 0 => gi_last_flags = FlagsOf(key + Len(fmh_recs) - 1)
  /\ fpc \in {"query", "last", "header"} /\ Len(fmh_recs) > 0 =>
       key + Len(fmh_recs) - 1 <= Mappings
  /\ fpc \in {"last", "header"} =>
       /\ aborted => key + Len(fmh_recs) <= Mappings
       /\ fmh_count > 0 /\ ~aborted => key + Len(fmh_recs) > Mappings
       /\ Len(fmh_recs) > 0 => fmh_count > 0
  /\ fpc = "query" => Len(fmh_recs) <= fmh_count
  /\ fpc = "header" => \A k \in 1 .. Len(fmh_recs) : Final(fmh_recs[k], key + k - 1)

(* After a call that copied records they have been added to the others.    *)
Afterwards ==
  fpc = "told" =>
    /\ key + Len(fmh_recs) = Len(told) + 1 /\ fmh_entries = Len(fmh_recs)
    /\ aborted => Len(told) < Mappings
    /\ ~aborted => Len(told) = Mappings

FsmapInv == FsmapTypeOK /\ Between /\ During /\ Afterwards

LEMMA FlagsType == \A m : FlagsOf(m) \in SUBSET {"special", "last"} /\ "last" \notin FlagsOf(m)
BY DEF FlagsOf

LEMMA InvImpliesTold == FsmapInv => FsmapTold
<1> SUFFICES ASSUME FsmapInv
             PROVE  FsmapTold
  OBVIOUS
<1>1. \A k \in 1 .. Len(told) :
        /\ told[k].mapping = k
        /\ told[k].flags = FlagsOf(k) \cup (IF k = Mappings THEN {"last"} ELSE {})
  BY DEF FsmapInv, Between, Final
<1>2. ASSUME fpc = "told", ~aborted, Mappings # 0
      PROVE  SawLast
  <2>1. Len(told) = Mappings /\ Len(told) \in 1 .. Len(told) /\ told # <<>>
    BY <1>2, QueriesAssumption DEF FsmapInv, FsmapTypeOK, Afterwards
  <2> QED
    BY <1>1, <2>1 DEF SawLast
<1>3. fpc = "told" => fmh_entries = gi_idx
  BY DEF FsmapInv, Afterwards, gi_idx
<1> QED
  BY <1>1, <1>2, <1>3 DEF FsmapTold

(* Who follows the records learns of every mapping once, in order, with    *)
(* its flags, and finds the mark on the last one and on no other.          *)
THEOREM MappingsTold == FsmapSpec => []FsmapTold
<1>1. FsmapInit => FsmapInv
  <2> SUFFICES ASSUME FsmapInit
               PROVE  FsmapInv
    OBVIOUS
  <2>1. /\ fpc = "user" /\ key = 1 /\ fmh_recs = <<>> /\ told = <<>>
        /\ fmh_count = 0 /\ aborted = FALSE /\ gi_last_flags = {}
    BY DEF FsmapInit
  <2>2. FsmapTypeOK
    BY <2>1, EmptySeq DEF FsmapTypeOK
  <2>3. Between /\ During /\ Afterwards
    BY <2>1 DEF Between, During, Afterwards
  <2> QED
    BY <2>2, <2>3 DEF FsmapInv
<1>2. FsmapInv /\ [FsmapNext]_fsmapVars => FsmapInv'
  <2> SUFFICES ASSUME FsmapInv, [FsmapNext]_fsmapVars
               PROVE  FsmapInv'
    OBVIOUS
  <2> USE QueriesAssumption DEF FsmapInv, FsmapTypeOK
  <2>1. CASE GetFsmap
    <3>1. /\ fpc = "user" /\ fpc' = "query" /\ key' = key /\ told' = told
          /\ fmh_recs' = <<>> /\ gi_last_flags' = {} /\ aborted' = FALSE
          /\ fmh_count' \in Nat /\ <<>> \in Seq(Records) /\ Len(fmh_recs') = 0
      BY <2>1, EmptySeq DEF GetFsmap
    <3>2. FsmapTypeOK'
      BY <3>1
    <3>3. Between'
      BY <3>1 DEF Between
    <3>4. During' /\ Afterwards'
      BY <3>1 DEF During, Afterwards
    <3> QED
      BY <3>2, <3>3, <3>4
  <2>2. CASE RefuseFsmap \/ FormatFault \/ HeaderFault
    BY <2>2 DEF RefuseFsmap, FormatFault, HeaderFault, Between, During, Afterwards
  <2>3. CASE FormatRecord
    <3> DEFINE n == Len(fmh_recs)
               r == [mapping |-> key + n, flags |-> FlagsOf(key + n)]
    <3>1. /\ fpc = "query" /\ fpc' = fpc /\ key' = key /\ fmh_count' = fmh_count
          /\ aborted' = aborted /\ told' = told /\ fmh_entries' = fmh_entries
          /\ key + n <= Mappings /\ n < fmh_count
          /\ fmh_recs' = Append(fmh_recs, r) /\ gi_last_flags' = FlagsOf(key + n)
      BY <2>3 DEF FormatRecord, NextMapping, gi_idx
    <3>2. r \in Records /\ n \in Nat
      BY FlagsType DEF Records
    <3>3. /\ fmh_recs' \in Seq(Records) /\ Len(fmh_recs') = n + 1
          /\ \A k \in 1 .. n : fmh_recs'[k] = fmh_recs[k]
          /\ fmh_recs'[n + 1] = r
      BY <3>1, <3>2, AppendProperties
    <3>4. FsmapTypeOK'
      BY <3>1, <3>3, FlagsType
    <3>5. \A k \in 1 .. Len(fmh_recs') : Plain(fmh_recs'[k], key + k - 1)
      <4> SUFFICES ASSUME NEW k \in 1 .. n + 1
                   PROVE  Plain(fmh_recs'[k], key + k - 1)
        BY <3>3
      <4>1. CASE k \in 1 .. n
        BY <3>1, <3>3, <4>1 DEF During
      <4>2. CASE k = n + 1
        <5>1. key + k - 1 = key + n
          BY <3>2, <4>2
        <5> QED
          BY <3>3, <4>2, <5>1 DEF Plain
      <4> QED
        BY <3>2, <4>1, <4>2
    <3>6. During'
      BY <3>1, <3>2, <3>3, <3>5 DEF During
    <3> QED
      BY <3>1, <3>4, <3>6 DEF Between, Afterwards
  <2>4. CASE QueryEnds
    <3>1. /\ fpc = "query" /\ fpc' = "last" /\ key' = key /\ fmh_count' = fmh_count
          /\ told' = told /\ fmh_recs' = fmh_recs /\ gi_last_flags' = gi_last_flags
          /\ key + Len(fmh_recs) > Mappings \/ Len(fmh_recs) = fmh_count
          /\ (aborted' <=> fmh_count > 0 /\ key + Len(fmh_recs) <= Mappings)
      BY <2>4 DEF QueryEnds, NextMapping, gi_idx
    <3>2. FsmapTypeOK'
      BY <2>4, <3>1 DEF QueryEnds
    <3>3. During'
      <4>1. ASSUME aborted'
            PROVE  key + Len(fmh_recs) <= Mappings
        BY <3>1, <4>1
      <4>2. ASSUME fmh_count > 0, ~aborted'
            PROVE  key + Len(fmh_recs) > Mappings
        BY <3>1, <4>2
      <4>3. Len(fmh_recs) > 0 => fmh_count > 0
        BY <3>1 DEF During
      <4>4. /\ Len(fmh_recs) > 0 => key + Len(fmh_recs) - 1 <= Mappings
            /\ \A k \in 1 .. Len(fmh_recs) : Plain(fmh_recs[k], key + k - 1)
            /\ Len(fmh_recs) > 0 => gi_last_flags = FlagsOf(key + Len(fmh_recs) - 1)
        BY <3>1 DEF During
      <4> QED
        BY <3>1, <4>1, <4>2, <4>3, <4>4 DEF During
    <3> QED
      BY <3>1, <3>2, <3>3 DEF Between, Afterwards
  <2>5. CASE MarkLast
    <3> DEFINE n == Len(fmh_recs)
    <3>1. /\ fpc = "last" /\ fpc' = "header" /\ key' = key /\ fmh_count' = fmh_count
          /\ told' = told /\ aborted' = aborted /\ gi_last_flags' = gi_last_flags
          /\ n \in Nat
      BY <2>5 DEF MarkLast
    <3>2. CASE Marks
      <4>1. /\ ~aborted /\ n > 0 /\ n \in 1 .. n
            /\ fmh_recs' = [fmh_recs EXCEPT ![n].flags = gi_last_flags \cup {"last"}]
        BY <2>5, <3>1, <3>2 DEF MarkLast, Marks, gi_idx
      <4>2. key + n - 1 = Mappings
        BY <3>1, <4>1 DEF During
      <4> DEFINE r == [fmh_recs[n] EXCEPT !.flags = gi_last_flags \cup {"last"}]
      <4>3. fmh_recs[n] \in Records /\ Plain(fmh_recs[n], Mappings)
        BY <3>1, <4>1, <4>2 DEF During
      <4>4. r \in Records /\ r.mapping = Mappings /\ r.flags = FlagsOf(Mappings) \cup {"last"}
        BY <3>1, <4>1, <4>2, <4>3 DEF Records, Plain, During
      <4>5. fmh_recs' = [fmh_recs EXCEPT ![n] = r]
        BY <4>1
      <4>6. /\ fmh_recs' \in Seq(Records) /\ Len(fmh_recs') = n
            /\ \A k \in 1 .. n : fmh_recs'[k] = IF k = n THEN r ELSE fmh_recs[k]
        BY <4>1, <4>4, <4>5, ExceptSeq
      <4>7. \A k \in 1 .. n : Final(fmh_recs'[k], key + k - 1)
        <5> SUFFICES ASSUME NEW k \in 1 .. n
                     PROVE  Final(fmh_recs'[k], key + k - 1)
          OBVIOUS
        <5>1. CASE k = n
          BY <3>1, <4>2, <4>4, <4>6, <5>1 DEF Final
        <5>2. CASE k # n
          <6>1. Plain(fmh_recs[k], key + k - 1) /\ key + k - 1 # Mappings
            BY <3>1, <4>2, <5>2 DEF During
          <6> QED
            BY <4>6, <5>2, <6>1 DEF Final, Plain
        <5> QED
          BY <5>1, <5>2
      <4>8. During'
        BY <3>1, <4>1, <4>2, <4>6, <4>7 DEF During
      <4> QED
        BY <3>1, <4>6, <4>8 DEF Between, Afterwards
    <3>3. CASE ~Marks
      <4>1. fmh_recs' = fmh_recs /\ (aborted \/ n = 0)
        BY <2>5, <3>1, <3>3 DEF MarkLast, Marks, gi_idx
      <4>2. \A k \in 1 .. n : key + k - 1 # Mappings
        BY <3>1, <4>1 DEF During
      <4>3. \A k \in 1 .. n : Final(fmh_recs[k], key + k - 1)
        BY <3>1, <4>2 DEF During, Plain, Final
      <4>4. During'
        BY <3>1, <4>1, <4>3 DEF During
      <4> QED
        BY <3>1, <4>1, <4>4 DEF Between, Afterwards
    <3> QED
      BY <3>2, <3>3
  <2>6. CASE CopyHeader
    <3> DEFINE n == Len(fmh_recs)
    <3>1. /\ fpc = "header" /\ key' = key /\ fmh_count' = fmh_count
          /\ fmh_recs' = fmh_recs /\ aborted' = aborted /\ gi_last_flags' = gi_last_flags
          /\ n \in Nat
      BY <2>6 DEF CopyHeader
    <3>2. CASE fmh_count = 0
      <4>1. told' = told /\ fpc' = "user"
        BY <2>6, <3>2 DEF CopyHeader
      <4> QED
        BY <3>1, <4>1 DEF Between, During, Afterwards
    <3>3. CASE fmh_count # 0
      <4>1. told' = told \o fmh_recs /\ fpc' = "told" /\ fmh_entries' = n
        BY <2>6, <3>3 DEF CopyHeader, gi_idx
      <4>2. /\ told' \in Seq(Records) /\ Len(told') = Len(told) + n
            /\ \A k \in 1 .. Len(told) + n :
                 told'[k] = IF k <= Len(told) THEN told[k] ELSE fmh_recs[k - Len(told)]
        BY <4>1, ConcatProperties
      <4>3. key = Len(told) + 1
        BY <3>1 DEF Between
      <4>4. \A k \in 1 .. Len(told') : Final(told'[k], k)
        <5> SUFFICES ASSUME NEW k \in 1 .. Len(told) + n
                     PROVE  Final(told'[k], k)
          BY <4>2
        <5>1. CASE k <= Len(told)
          BY <4>2, <5>1 DEF Between
        <5>2. CASE k > Len(told)
          <6>1. k - Len(told) \in 1 .. n /\ key + (k - Len(told)) - 1 = k
            BY <3>1, <4>3, <5>2
          <6>2. Final(fmh_recs[k - Len(told)], k)
            BY <3>1, <6>1 DEF During
          <6> QED
            BY <4>2, <5>2, <6>2
        <5> QED
          BY <5>1, <5>2
      <4>5. Afterwards'
        <5>1. aborted => key + n <= Mappings
          BY <3>1 DEF During
        <5>2. ~aborted => key + n > Mappings
          BY <3>1, <3>3 DEF During
        <5>3. ~aborted => Len(told) + n <= Mappings
          BY <3>1, <4>3, QueriesAssumption DEF Between, During
        <5>4. key + n = Len(told') + 1 /\ (aborted => Len(told') < Mappings)
          BY <3>1, <4>2, <4>3, <5>1
        <5>5. ~aborted => Len(told') = Mappings
          BY <3>1, <4>2, <4>3, <5>2, <5>3, QueriesAssumption
        <5> QED
          BY <3>1, <4>1, <5>4, <5>5 DEF Afterwards
      <4>6. FsmapTypeOK'
        BY <3>1, <4>1, <4>2
      <4>7. Between' /\ During'
        BY <3>1, <4>1, <4>4 DEF Between, During
      <4> QED
        BY <4>5, <4>6, <4>7
    <3> QED
      BY <3>2, <3>3
  <2>7. CASE Continue
    <3>1. /\ fpc = "told" /\ fpc' = "user" /\ fmh_count' = fmh_count
          /\ fmh_recs' = fmh_recs /\ aborted' = aborted /\ gi_last_flags' = gi_last_flags
      BY <2>7 DEF Continue
    <3>2. CASE SawLast
      <4>1. key' = 1 /\ told' = <<>>
        BY <2>7, <3>2 DEF Continue
      <4> QED
        BY <3>1, <4>1 DEF Between, During, Afterwards
    <3>3. CASE ~SawLast
      <4>1. key' = key + Len(fmh_recs) /\ told' = told
        BY <2>7, <3>3 DEF Continue, gi_idx
      <4>2. aborted \/ Mappings = 0
        BY <3>1, <3>3, InvImpliesTold DEF FsmapTold
      <4> QED
        BY <3>1, <4>1, <4>2 DEF Between, During, Afterwards
    <3> QED
      BY <3>2, <3>3
  <2>8. CASE UNCHANGED fsmapVars
    BY <2>8 DEF fsmapVars, Between, During, Afterwards
  <2> QED
    BY <2>1, <2>2, <2>3, <2>4, <2>5, <2>6, <2>7, <2>8 DEF FsmapNext
<1> QED
  BY <1>1, <1>2, InvImpliesTold, PTL DEF FsmapSpec

-----------------------------------------------------------------------------
(* The label and the UUID.                                                 *)
FieldTypeOK ==
  /\ field \in [Halves -> {0, 1}] /\ buf \in [Halves -> {0, 1}]
  /\ sbh \in {"none", "reader", "setter"}
  /\ rpc \in {"user", "lock", "first", "second", "unlock", "copy"}
  /\ spc \in {"user", "first", "second", "unlock"}

(* The lock of the buffer keeps reader and setter apart, and what the      *)
(* reader has copied under it is what the field holds.                     *)
FieldLock ==
  /\ rpc \in {"first", "second", "unlock"} <=> sbh = "reader"
  /\ spc \in {"first", "second", "unlock"} <=> sbh = "setter"
  /\ spc # "second" <=> field[1] = field[2]
  /\ rpc \in {"second", "unlock"} => buf[1] = field[1]
  /\ rpc = "unlock" => buf[2] = field[2]
  /\ rpc = "copy" => buf[1] = buf[2]
FieldInv == FieldTypeOK /\ FieldLock /\ NotTorn

(* No label and no UUID is told that is half of one value and half of      *)
(* another.                                                                *)
THEOREM NeverTorn == FieldSpec => []NotTorn
<1>1. FieldInit => FieldInv
  BY DEF FieldInit, FieldInv, FieldTypeOK, FieldLock, NotTorn, Halves
<1>2. FieldInv /\ [FieldNext]_fieldVars => FieldInv'
  <2> SUFFICES ASSUME FieldInv, [FieldNext]_fieldVars
               PROVE  FieldInv'
    OBVIOUS
  <2> USE DEF FieldInv, FieldTypeOK, FieldLock, NotTorn, Halves
  <2>1. CASE Ask
    BY <2>1 DEF Ask
  <2>2. CASE ReadLock \/ ReadUnlock \/ CopyOut
    BY <2>2 DEF ReadLock, ReadUnlock, CopyOut
  <2>3. CASE ReadHalf(1, "first", "second") \/ ReadHalf(2, "second", "unlock")
    BY <2>3 DEF ReadHalf
  <2>4. CASE SetLock \/ SetUnlock
    BY <2>4 DEF SetLock, SetUnlock
  <2>5. CASE SetHalf(1, "first", "second") \/ SetHalf(2, "second", "unlock")
    <3>1. CASE SetHalf(1, "first", "second")
      BY <3>1 DEF SetHalf
    <3>2. CASE SetHalf(2, "second", "unlock")
      BY <3>2 DEF SetHalf
    <3> QED
      BY <2>5, <3>1, <3>2
  <2>6. CASE UNCHANGED fieldVars
    BY <2>6 DEF fieldVars
  <2> QED
    BY <2>1, <2>2, <2>3, <2>4, <2>5, <2>6 DEF FieldNext
<1>3. FieldInv => NotTorn
  BY DEF FieldInv
<1> QED
  BY <1>1, <1>2, <1>3, PTL DEF FieldSpec

(* Both, side by side.                                                     *)
THEOREM AlwaysTruthful == FsmapSpec /\ FieldSpec => []Truthful
BY MappingsTold, NeverTorn, PTL DEF Truthful

-----------------------------------------------------------------------------
(* Dispatch.                                                               *)

(* The numbers of a program of 32 bits, one kind after the other: those    *)
(* with a long are translated, GROUP_ADD is answered without the 64-bit    *)
(* entry, most are the same for both.                                      *)
LEMMA LongTranslated ==
  ASSUME NEW cmd \in Long
  PROVE  /\ ext4_compat_ioctl(EXT4_IOC32(cmd)) = ext4_ioctl(EXT4_IOC(cmd))
         /\ EXT4_IOC32(cmd).size = 4
<1>1. \A c \in Long : EXT4_IOC32(c) = [name |-> c, size |-> 4]
  BY DEF EXT4_IOC32
<1>2. EXT4_IOC32("GROUP_ADD").name = "GROUP_ADD" /\ cmd # "GROUP_ADD"
  BY DEF EXT4_IOC32, Long
<1>3. EXT4_IOC32(cmd).name = cmd
  BY DEF EXT4_IOC32
<1>4. ext4_compat_ioctl(EXT4_IOC32(cmd)) = ext4_ioctl(Translated(EXT4_IOC32(cmd)))
  BY <1>2, <1>3 DEF ext4_compat_ioctl
<1>5. \A c \in Long : EXT4_IOC32(cmd) = EXT4_IOC32(c) <=> c = cmd
  BY <1>1
<1>6. Translated(EXT4_IOC32(cmd)) = EXT4_IOC(cmd)
  BY <1>5 DEF Translated, Long
<1> QED BY <1>1, <1>4, <1>6

LEMMA SamePassed ==
  ASSUME NEW cmd \in SameNumber
  PROVE  /\ EXT4_IOC32(cmd) = EXT4_IOC(cmd)
         /\ ext4_compat_ioctl(EXT4_IOC(cmd)) = ext4_ioctl(EXT4_IOC(cmd))
         /\ EXT4_IOC(cmd) = [name |-> cmd, size |-> 0]
<1>1. cmd \notin Long \cup {"GROUP_ADD"}
  BY DEF SameNumber, Long, Encryption, Verity
<1>2. EXT4_IOC(cmd) = [name |-> cmd, size |-> 0] /\ EXT4_IOC32(cmd) = EXT4_IOC(cmd)
  BY <1>1 DEF EXT4_IOC, EXT4_IOC32
<1>3. /\ EXT4_IOC(cmd) # EXT4_IOC32("GROUP_ADD")
      /\ \A c \in Long : EXT4_IOC(cmd) # EXT4_IOC32(c)
  BY <1>1, <1>2 DEF EXT4_IOC32
<1> QED BY <1>2, <1>3 DEF ext4_compat_ioctl

(* What no case is for is refused, the number that a program of 64 bits    *)
(* uses included.                                                          *)
LEMMA RestRefused ==
  ASSUME NEW num, num.name \notin SameNumber \/ num # EXT4_IOC(num.name),
         num.name \notin Long \cup {"GROUP_ADD"} \/ num # EXT4_IOC32(num.name)
  PROVE  ext4_compat_ioctl(num) = Refused("ENOIOCTLCMD")
<1>1. \A c : EXT4_IOC32(c).name = c /\ EXT4_IOC(c).name = c
  BY DEF EXT4_IOC32, EXT4_IOC
<1>2. /\ num # EXT4_IOC32("GROUP_ADD")
      /\ \A c \in Long : num # EXT4_IOC32(c)
      /\ \A c \in SameNumber : num # EXT4_IOC(c)
  BY <1>1
<1> QED BY <1>2 DEF ext4_compat_ioctl

(* What the 64-bit entry may answer to a number.                           *)
LEMMA Answers64 ==
  ASSUME NEW num
  PROVE  /\ num # EXT4_IOC(num.name) \/ num.name \notin Commands =>
              ext4_ioctl(num) = Refused("ENOTTY")
         /\ ext4_ioctl(num).copied \in {0, Copies(num.name)}
<1>1. \A c : EXT4_IOC(c).name = c
  BY DEF EXT4_IOC
<1>2. Handled \subseteq Commands /\ Evfs \subseteq Commands
  BY DEF Handled, Commands
<1>3. num # EXT4_IOC(num.name) \/ num.name \notin Commands =>
        evfs_ioctl(num) = Refused("ENOTTY")
  BY <1>1, <1>2 DEF evfs_ioctl
<1>4. evfs_ioctl(num).copied = 0
  BY DEF evfs_ioctl, Refused, Ran
<1> QED BY <1>2, <1>3, <1>4 DEF ext4_ioctl, Refused, Ran

Answer(num, bits) == IF bits = 64 THEN ext4_ioctl(num) ELSE ext4_compat_ioctl(num)

LEMMA CompatAnswers ==
  ASSUME NEW num \in AnyNumber, num.name \in Commands, num = EXT4_IOC32(num.name)
  PROVE  ext4_compat_ioctl(num).ran =
           IF Only64(num.name) THEN "ENOIOCTLCMD" ELSE ext4_ioctl(EXT4_IOC(num.name)).ran
<1> DEFINE cmd == num.name
<1>0. \A c \in NotFor32 \cup Evfs : c \notin SameNumber \cup Long \cup {"GROUP_ADD"}
  BY DEF NotFor32, Evfs, SameNumber, Long, Encryption, Verity
<1>1. CASE cmd \in Long
  BY <1>0, <1>1, LongTranslated DEF Only64
<1>2. CASE cmd \in SameNumber
  BY <1>0, <1>2, SamePassed DEF Only64
<1>3. CASE cmd = "GROUP_ADD"
  <2>1. ext4_compat_ioctl(num).ran = "GROUP_ADD"
    BY <1>3 DEF ext4_compat_ioctl, Group_add32, Ran
  <2>2. cmd \in Handled /\ Needs(cmd) = {} /\ Handler(cmd) = "GROUP_ADD"
    BY <1>3 DEF Handled, Needs, Encryption, Verity, Handler
  <2>3. EXT4_IOC(cmd).name = cmd
    BY DEF EXT4_IOC
  <2>4. ext4_ioctl(EXT4_IOC(cmd)).ran = "GROUP_ADD"
    BY <2>2, <2>3 DEF ext4_ioctl, Ran
  <2> QED BY <1>0, <1>3, <2>1, <2>4 DEF Only64
<1>4. CASE Only64(cmd)
  <2>1. ext4_compat_ioctl(num) = Refused("ENOIOCTLCMD")
    BY <1>0, <1>4, RestRefused DEF Only64
  <2> QED BY <1>4, <2>1 DEF Refused, Ran
<1> QED BY <1>1, <1>2, <1>3, <1>4 DEF Commands, Only64

LEMMA OthersRefused ==
  ASSUME NEW num \in AnyNumber, NEW bits \in {32, 64},
         num # OwnNumber(num.name, bits) \/ num.name \in OtherNames
  PROVE  Answer(num, bits).ran \in {"ENOTTY", "ENOIOCTLCMD"}
<1> DEFINE cmd == num.name
<1>1. CASE bits = 64
  <2>1. ext4_ioctl(num) = Refused("ENOTTY")
    BY <1>1, Answers64, DispatchAssumption DEF OwnNumber
  <2> QED BY <1>1, <2>1 DEF Answer, Refused, Ran
<1>2. CASE bits = 32
  <2>1. num # EXT4_IOC32(cmd) \/ cmd \notin Commands
    BY <1>2, DispatchAssumption DEF OwnNumber
  <2>2. cmd \in SameNumber => EXT4_IOC32(cmd) = EXT4_IOC(cmd)
    BY SamePassed
  <2>3. SameNumber \cup Long \cup {"GROUP_ADD"} \subseteq Commands
    BY DEF Commands
  <2>4. ext4_compat_ioctl(num) = Refused("ENOIOCTLCMD")
    BY <2>1, <2>2, <2>3, RestRefused
  <2> QED BY <1>2, <2>4 DEF Answer, Refused, Ran
<1> QED BY <1>1, <1>2

LEMMA CopiesFit ==
  ASSUME NEW num \in AnyNumber, NEW bits \in {32, 64},
         Answer(num, bits).copied > num.size
  PROVE  num = EXT4_IOC("GROUP_ADD") /\ bits = 64
<1> DEFINE cmd == num.name
<1>0. num.size \in Nat /\ Refused("ENOTTY").copied = 0 /\ Refused("ENOIOCTLCMD").copied = 0
  BY DispatchAssumption DEF AnyNumber, Refused, Ran
<1>1. Copies(cmd) \in Nat
  BY DEF Copies
<1>2. CASE bits = 64
  <2>1. num = EXT4_IOC(cmd)
    BY <1>0, <1>2, Answers64 DEF Answer
  <2>2. Copies(cmd) > num.size
    BY <1>0, <1>1, <1>2, Answers64 DEF Answer
  <2> QED BY <1>2, <2>1, <2>2 DEF Copies, EXT4_IOC
<1>3. CASE bits = 32
  <2>1. CASE cmd \in Long /\ num = EXT4_IOC32(cmd)
    <3>1. Answer(num, bits) = ext4_ioctl(EXT4_IOC(cmd)) /\ num.size = 4
      BY <1>3, <2>1, LongTranslated DEF Answer
    <3>2. EXT4_IOC(cmd).name = cmd
      BY DEF EXT4_IOC
    <3>3. Answer(num, bits).copied \in {0, 4}
      BY <2>1, <3>1, <3>2, Answers64 DEF Copies
    <3> QED BY <3>1, <3>3
  <2>2. CASE cmd = "GROUP_ADD" /\ num = EXT4_IOC32(cmd)
    <3>1. num.size = 36
      BY <2>2 DEF EXT4_IOC32, Long
    <3>2. Answer(num, bits).copied = 34
      BY <1>3, <2>2 DEF Answer, ext4_compat_ioctl, Group_add32, Ran
    <3> QED BY <3>1, <3>2
  <2>3. CASE cmd \in SameNumber /\ num = EXT4_IOC(cmd)
    <3>1. Answer(num, bits) = ext4_ioctl(num)
      BY <1>3, <2>3, SamePassed DEF Answer
    <3>2. Copies(cmd) = 0
      BY <2>3 DEF Copies, SameNumber, Long, Encryption, Verity
    <3> QED BY <1>0, <3>1, <3>2, Answers64
  <2>4. CASE ~ (\/ cmd \in Long \cup {"GROUP_ADD"} /\ num = EXT4_IOC32(cmd)
                \/ cmd \in SameNumber /\ num = EXT4_IOC(cmd))
    BY <1>0, <1>3, <2>4, RestRefused DEF Answer
  <2> QED BY <2>1, <2>2, <2>3, <2>4
<1> QED BY <1>2, <1>3

(* Whatever the numbers are, and whatever unknown ones there may be: a     *)
(* 32-bit program reaches with its own number of a command what a 64-bit   *)
(* program reaches with its own, but for the commands that                 *)
(* ext4_compat_ioctl does not list; the numbers of the other width reach   *)
(* nothing; and only GROUP_ADD of a 64-bit program copies more than its    *)
(* number declares.                                                        *)
THEOREM CompatAlwaysAgrees == DispatchSpec => []CompatAgrees
<1>1. DispatchInit => CompatAgrees
  BY DEF DispatchInit, CompatAgrees
<1>2. CompatAgrees /\ [DispatchNext]_dispatchVars => CompatAgrees'
  <2> SUFFICES ASSUME CompatAgrees, [DispatchNext]_dispatchVars
               PROVE  CompatAgrees'
    OBVIOUS
  <2>1. CASE MountWith
    BY <2>1 DEF MountWith, CompatAgrees
  <2>2. CASE Ioctl
    <3>1. PICK num \in AnyNumber, bits \in {32, 64} :
            request' = [num |-> num, bits |-> bits]
      BY <2>2 DEF Ioctl
    <3>2. reply' = Answer(num, bits) /\ features' = features
      BY <2>2, <3>1 DEF Ioctl, Answer
    <3>3. request'.num = num /\ request'.bits = bits
      BY <3>1
    <3>4. request' = [num |-> EXT4_IOC32(num.name), bits |-> 32] =>
            num = EXT4_IOC32(num.name) /\ bits = 32
      BY <3>1
    <3>5. ext4_ioctl(EXT4_IOC(num.name))' = ext4_ioctl(EXT4_IOC(num.name))
      BY <3>2, <3>3 DEF ext4_ioctl
    <3>6. num = EXT4_IOC32(num.name) /\ bits = 32 /\ num.name \in Commands =>
            reply'.ran = IF Only64(num.name) THEN "ENOIOCTLCMD"
                         ELSE ext4_ioctl(EXT4_IOC(num.name)).ran
      BY <3>2, CompatAnswers DEF Answer
    <3>7. num # OwnNumber(num.name, bits) \/ num.name \in OtherNames =>
            reply'.ran \in {"ENOTTY", "ENOIOCTLCMD"}
      BY <3>2, OthersRefused
    <3>8. reply'.copied > num.size =>
            request' = [num |-> EXT4_IOC("GROUP_ADD"), bits |-> 64]
      BY <3>1, <3>2, CopiesFit
    <3> QED BY <3>2, <3>3, <3>4, <3>5, <3>6, <3>7, <3>8
            DEF CompatAgrees, ext4_ioctl
  <2>3. CASE UNCHANGED dispatchVars
    BY <2>3 DEF dispatchVars, CompatAgrees, ext4_ioctl
  <2> QED BY <2>1, <2>2, <2>3 DEF DispatchNext
<1> QED BY <1>1, <1>2, PTL DEF DispatchSpec
=============================================================================
