-------------------------------- MODULE Codecs --------------------------------
(***************************************************************************)
(* How ext4.h puts numbers into fields that are narrower than they are:    *)
(* times with their extra bits, block counts and file sizes in two halves, *)
(* and directory records, whose lengths and hashes share 16 bits and a     *)
(* tail.  A 32-bit field holds Word values; the 16-bit one is as it is.    *)
(* A sample is one value that a caller may pass to an encoder.             *)
(***************************************************************************)
EXTENDS Integers

CONSTANTS Word,     \* the number of values of a 32-bit field, 2^32
          RecLens   \* the record lengths that are tried

ASSUME WordAssumption == Word \in Nat \ {0} /\ Word % 4 = 0
ASSUME RecLensAssumption == \A len \in RecLens : len \in Nat /\ len % 4 = 0

VARIABLE sample

Low(n) == n % Word
High(n) == n \div Word
Signed(n) == ((n + Word \div 2) % Word) - (Word \div 2)

-----------------------------------------------------------------------------
(* Times.                                                                  *)
TIMESTAMP_MIN == - (Word \div 2)
NON_EXTRA_TIMESTAMP_MAX == (Word \div 2) - 1
EXTRA_TIMESTAMP_MAX == 4 * Word - 1 + TIMESTAMP_MIN

(* Without the adjustment for the sign, as kernels did it once.            *)
EncodeUnsignedTime(ts) == (High(ts.sec) % 4) + 4 * ts.nsec
EncodeExtraTime(ts) == (High(ts.sec - Signed(ts.sec)) % 4) + 4 * ts.nsec
DecodeExtraTime(base, extra) ==
  [sec |-> Signed(base) + (extra % 4) * Word, nsec |-> extra \div 4]

(* The clamp of a small inode casts to 32 bits before it compares, so it   *)
(* wraps.                                                                  *)
SetTime(ts, fits) ==
  IF fits THEN [xtime |-> Low(ts.sec), extra |-> EncodeExtraTime(ts)]
          ELSE [xtime |-> Low(Signed(ts.sec)), extra |-> 0]
GetTime(raw, fits) ==
  IF fits THEN DecodeExtraTime(raw.xtime, raw.extra)
          ELSE [sec |-> Signed(raw.xtime), nsec |-> 0]

-----------------------------------------------------------------------------
(* Counts of the superblock and sizes of inodes.                           *)
SetHalves(n) == [lo |-> Low(n), hi |-> High(n)]
ReadCount(raw, has64bit) == (IF has64bit THEN raw.hi * Word ELSE 0) + raw.lo
ReadSize(raw, largedir, regular) ==
  IF largedir \/ regular THEN raw.hi * Word + raw.lo ELSE raw.lo

-----------------------------------------------------------------------------
(* Directory records.                                                      *)
MAX_REC_LEN == 65535
BlockSizes == {1024, 2048, 4096, 8192, 16384, 32768, 65536, 131072, 262144}
Rounded(n) == n - (n % 4)

(* With pages of 64 KiB or more; the condition and the masks are those of  *)
(* multiples of four.                                                      *)
RecLenFromDisk(dlen, blocksize) ==
  IF dlen \in {0, MAX_REC_LEN} THEN blocksize
  ELSE Rounded(dlen) + (dlen % 4) * 65536
RecLenToDisk(len, blocksize) ==
  IF len < 65536 THEN len
  ELSE IF len = blocksize THEN IF blocksize = 65536 THEN MAX_REC_LEN ELSE 0
  ELSE (len % 65536) + ((len \div 65536) % 4)

HashSize == 8
DirRecLen(name_len, hashed) ==
  Rounded(name_len + 8 + 3 + (IF hashed THEN HashSize ELSE 0))
HashOffset(name_len) == Rounded(8 + name_len + 3)

-----------------------------------------------------------------------------
Times == [kind : {"time"}, sec : TIMESTAMP_MIN .. EXTRA_TIMESTAMP_MAX,
          nsec : 0 .. (Word \div 4) - 1, fits : BOOLEAN]
Numbers == [kind : {"number"}, n : 0 .. Word * Word - 1, wide : BOOLEAN]
Records == {r \in [kind : {"record"}, len : RecLens, blocksize : BlockSizes] :
              r.len >= 12 /\ (r.len = r.blocksize \/ r.len + 12 <= r.blocksize)}
Names == [kind : {"name"}, name_len : 0 .. 255]

CodecsInit == sample = [kind |-> "none"]
CodecsNext == \E s \in Times \cup Numbers \cup Records \cup Names : sample' = s
CodecsSpec == CodecsInit /\ [][CodecsNext]_sample

(* A time that the inode can hold is read back as it was written: all of   *)
(* it with the extra bits, whole seconds up to 2038 without.               *)
TimeKept(ts) ==
  LET got == GetTime(SetTime(ts, ts.fits), ts.fits)
  IN  IF ts.fits THEN got.sec = ts.sec /\ got.nsec = ts.nsec
      ELSE ts.sec <= NON_EXTRA_TIMESTAMP_MAX => got.sec = ts.sec

(* A count, and a size, is read back as it was written if the format is    *)
(* wide or the number needs no second half; the halves fit their fields.   *)
NumberKept(s) ==
  LET raw == SetHalves(s.n)
  IN  /\ raw.lo \in 0 .. Word - 1 /\ raw.hi \in 0 .. Word - 1
      /\ s.wide \/ s.n < Word =>
           /\ ReadCount(raw, s.wide) = s.n
           /\ ReadSize(raw, s.wide, FALSE) = s.n
      /\ ReadSize(raw, FALSE, TRUE) = s.n

(* A record fills its block or leaves room for another, which takes 12     *)
(* bytes: such a length fits 16 bits and is read back as it was written.   *)
RecordKept(r) ==
  /\ RecLenToDisk(r.len, r.blocksize) \in Nat
  /\ RecLenToDisk(r.len, r.blocksize) <= MAX_REC_LEN
  /\ RecLenFromDisk(RecLenToDisk(r.len, r.blocksize), r.blocksize) = r.len

(* The hash comes after the name, aligned, and ends with the record.       *)
HashInRecord(s) ==
  /\ 8 + s.name_len <= DirRecLen(s.name_len, FALSE)
  /\ 8 + s.name_len <= HashOffset(s.name_len)
  /\ HashOffset(s.name_len) % 4 = 0
  /\ HashOffset(s.name_len) + HashSize = DirRecLen(s.name_len, TRUE)

(* What is written is what is read, for every field of a width that its    *)
(* value outgrows.                                                         *)
RoundTrips ==
  /\ sample.kind = "time" => TimeKept(sample)
  /\ sample.kind = "number" => NumberKept(sample)
  /\ sample.kind = "record" => RecordKept(sample)
  /\ sample.kind = "name" => HashInRecord(sample)
=============================================================================
