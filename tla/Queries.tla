------------------------------- MODULE Queries --------------------------------
(***************************************************************************)
(* The ioctls that tell a caller what the file system holds.  FS_IOC_      *)
(* GETFSMAP fills a buffer of the caller's, record by record, and marks    *)
(* the last mapping; the caller comes back with the last record it got     *)
(* until it sees that mark.  GETFSLABEL and GETFSUUID read the superblock  *)
(* that a setter may be writing, and GETFSUUID tells the size it needs.    *)
(***************************************************************************)
EXTENDS Integers, Sequences

CONSTANTS Mappings,  \* the mappings of the file system are 1 .. Mappings
          Special,   \* the mappings with a flag of their own
          MaxRecs    \* bound on fmh_count

ASSUME QueriesAssumption ==
  Mappings \in Nat /\ MaxRecs \in Nat \ {0} /\ Special \subseteq 1 .. Mappings

-----------------------------------------------------------------------------
(* ext4_ioc_getfsmap.                                                      *)
VARIABLES fpc,            \* where the call is
          key,            \* the mapping the low key of the caller asks for
          fmh_count,      \* room in the caller's buffer
          fmh_recs,       \* records copied to the buffer
          fmh_entries,    \* entries in the header of the caller
          gi_last_flags,  \* flags of the last record
          aborted,        \* EXT4_QUERY_RANGE_ABORT
          told            \* what earlier calls told, with what this one did
fsmapVars == <<fpc, key, fmh_count, fmh_recs, fmh_entries, gi_last_flags, aborted, told>>

FlagsOf(m) == IF m \in Special THEN {"special"} ELSE {}

FsmapInit ==
  /\ fpc = "user" /\ key = 1 /\ fmh_count = 0 /\ fmh_recs = <<>>
  /\ fmh_entries = 0 /\ gi_last_flags = {} /\ aborted = FALSE /\ told = <<>>

(* The caller asks for as many records as it likes, or for their number.   *)
GetFsmap ==
  /\ fpc = "user"
  /\ fmh_count' \in 0 .. MaxRecs
  /\ fpc' = "query" /\ fmh_recs' = <<>> /\ gi_last_flags' = {} /\ aborted' = FALSE
  /\ UNCHANGED <<key, fmh_entries, told>>

(* A reserved field or an offset is set, or a copy from the caller fails.  *)
RefuseFsmap ==
  /\ fpc = "query" /\ fmh_recs = <<>>
  /\ fpc' = "user"
  /\ UNCHANGED <<key, fmh_count, fmh_recs, fmh_entries, gi_last_flags, aborted, told>>

gi_idx == Len(fmh_recs)
NextMapping == key + gi_idx

(* ext4_getfsmap_format, for every mapping while there is room; the query  *)
(* is aborted by the mapping that has none.                                *)
FormatRecord ==
  /\ fpc = "query" /\ NextMapping <= Mappings /\ gi_idx < fmh_count
  /\ fmh_recs' = Append(fmh_recs, [mapping |-> NextMapping, flags |-> FlagsOf(NextMapping)])
  /\ gi_last_flags' = FlagsOf(NextMapping)
  /\ UNCHANGED <<fpc, key, fmh_count, fmh_entries, aborted, told>>

FormatFault ==
  /\ fpc = "query" /\ NextMapping <= Mappings /\ gi_idx < fmh_count
  /\ fpc' = "user"
  /\ UNCHANGED <<key, fmh_count, fmh_recs, fmh_entries, gi_last_flags, aborted, told>>

QueryEnds ==
  /\ fpc = "query"
  /\ NextMapping > Mappings \/ gi_idx = fmh_count
  /\ aborted' = (fmh_count > 0 /\ NextMapping <= Mappings)
  /\ fpc' = "last"
  /\ UNCHANGED <<key, fmh_count, fmh_recs, fmh_entries, gi_last_flags, told>>

MarkAlways == gi_idx > 0
Marks == ~aborted /\ gi_idx > 0
MarkLast ==
  /\ fpc = "last"
  /\ fmh_recs' = IF Marks
                 THEN [fmh_recs EXCEPT ![gi_idx].flags = gi_last_flags \cup {"last"}]
                 ELSE fmh_recs
  /\ fpc' = "header"
  /\ UNCHANGED <<key, fmh_count, fmh_entries, gi_last_flags, aborted, told>>

(* The caller goes on behind the last record; after the mark, or a count,  *)
(* it starts again.                                                        *)
CopyHeader ==
  /\ fpc = "header"
  /\ fmh_entries' = IF fmh_count = 0 THEN Mappings - key + 1 ELSE gi_idx
  /\ told' = IF fmh_count = 0 THEN told ELSE told \o fmh_recs
  /\ fpc' = IF fmh_count = 0 THEN "user" ELSE "told"
  /\ UNCHANGED <<key, fmh_count, fmh_recs, gi_last_flags, aborted>>

HeaderFault ==
  /\ fpc \in {"last", "header"}
  /\ fpc' = "user"
  /\ UNCHANGED <<key, fmh_count, fmh_recs, fmh_entries, gi_last_flags, aborted, told>>

SawLast == told # <<>> /\ "last" \in told[Len(told)].flags
Continue ==
  /\ fpc = "told" /\ fpc' = "user"
  /\ key' = IF SawLast THEN 1 ELSE key + gi_idx
  /\ told' = IF SawLast THEN <<>> ELSE told
  /\ UNCHANGED <<fmh_count, fmh_recs, fmh_entries, gi_last_flags, aborted>>

FsmapNext ==
  \/ GetFsmap \/ RefuseFsmap \/ FormatRecord \/ FormatFault \/ QueryEnds
  \/ MarkLast \/ CopyHeader \/ HeaderFault \/ Continue

(* A caller that follows the records learns of every mapping once and in   *)
(* order, each with its own flags, and the mark is on the last one only;   *)
(* a caller that asks for the number gets that of the mappings.            *)
FsmapTold ==
  /\ \A k \in 1 .. Len(told) :
       /\ told[k].mapping = k
       /\ told[k].flags = FlagsOf(k) \cup (IF k = Mappings THEN {"last"} ELSE {})
  /\ fpc = "told" => fmh_entries = gi_idx /\ (aborted \/ SawLast \/ Mappings = 0)

-----------------------------------------------------------------------------
(* ext4_ioctl_getuuid and ext4_ioctl_getlabel, against a setter.  The      *)
(* field has two halves, which are copied one after the other.             *)
UUID_SIZE == 16
Halves == {1, 2}

VARIABLES field,    \* s_uuid or s_volume_name: for each half, the value it is of
          sbh,      \* who has the lock of the buffer s_sbh
          rpc, buf, \* the reader and its local copy
          answer,   \* what its last call told
          spc       \* the setter
fieldVars == <<field, sbh, rpc, buf, answer, spc>>

FieldInit ==
  /\ field = [h \in Halves |-> 0] /\ sbh = "none"
  /\ rpc = "user" /\ buf = [h \in Halves |-> 0] /\ answer = "none"
  /\ spc = "user"

(* Without room it is told the size; a label always has room.              *)
Ask ==
  /\ rpc = "user"
  /\ \E fsu_len \in {0, UUID_SIZE - 1, UUID_SIZE}, fsu_flags \in {0, 1} :
       IF fsu_len = 0 THEN answer' = "size" /\ UNCHANGED rpc
       ELSE IF fsu_len < UUID_SIZE \/ fsu_flags # 0 THEN answer' = "invalid" /\ UNCHANGED rpc
       ELSE answer' = "none" /\ rpc' = "lock"
  /\ UNCHANGED <<field, sbh, buf, spc>>

ReadLock ==
  /\ rpc = "lock" /\ sbh = "none"
  /\ sbh' = "reader" /\ rpc' = "first"
  /\ UNCHANGED <<field, buf, answer, spc>>

ReadHalf(h, from, to) ==
  /\ rpc = from
  /\ buf' = [buf EXCEPT ![h] = field[h]]
  /\ rpc' = to
  /\ UNCHANGED <<field, sbh, answer, spc>>

ReadUnlock ==
  /\ rpc = "unlock"
  /\ sbh' = "none" /\ rpc' = "copy"
  /\ UNCHANGED <<field, buf, answer, spc>>

CopyOut ==
  /\ rpc = "copy"
  /\ answer' \in {"value", "fault"} /\ rpc' = "user"
  /\ UNCHANGED <<field, sbh, buf, spc>>

SetLock ==
  /\ spc = "user" /\ sbh = "none"
  /\ sbh' = "setter" /\ spc' = "first"
  /\ UNCHANGED <<field, rpc, buf, answer>>

SetHalf(h, from, to) ==
  /\ spc = from
  /\ field' = [field EXCEPT ![h] = 1 - @]
  /\ spc' = to
  /\ UNCHANGED <<sbh, rpc, buf, answer>>

SetUnlock ==
  /\ spc = "unlock"
  /\ sbh' = "none" /\ spc' = "user"
  /\ UNCHANGED <<field, rpc, buf, answer>>

FieldNext ==
  \/ Ask \/ ReadLock \/ ReadHalf(1, "first", "second") \/ ReadHalf(2, "second", "unlock")
  \/ ReadUnlock \/ CopyOut
  \/ SetLock \/ SetHalf(1, "first", "second") \/ SetHalf(2, "second", "unlock") \/ SetUnlock

(* A reader never tells half of one value and half of another.             *)
NotTorn == answer = "value" /\ rpc = "user" => buf[1] = buf[2]

FsmapSpec == FsmapInit /\ [][FsmapNext]_fsmapVars
FieldSpec == FieldInit /\ [][FieldNext]_fieldVars

(* What a caller is told is so.                                            *)
Truthful == FsmapTold /\ NotTorn
=============================================================================
