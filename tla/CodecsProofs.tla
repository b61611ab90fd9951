---------------------------- MODULE CodecsProofs ----------------------------
(***************************************************************************)
(* What the encodings of Codecs write is what they read, for every width   *)
(* of a field that is a multiple of four and for every record length.      *)
(***************************************************************************)
EXTENDS Codecs, TLAPS

(* The width is the double of its half and four times its quarter.         *)
LEMMA WordFacts ==
  /\ Word \in Nat /\ Word >= 4
  /\ Word \div 2 \in Nat /\ Word = 2 * (Word \div 2)
  /\ Word \div 4 \in Nat /\ Word = 4 * (Word \div 4)
BY WordAssumption

(* A number is its two halves.                                             *)
LEMMA Halves ==
  ASSUME NEW n \in Int
  PROVE  Low(n) \in 0 .. Word - 1 /\ High(n) \in Int /\ n = High(n) * Word + Low(n)
BY WordFacts DEF Low, High

(* The halves are determined by the number.                                *)
LEMMA HalvesUnique ==
  ASSUME NEW q \in Int, NEW r \in 0 .. Word - 1
  PROVE  High(q * Word + r) = q /\ Low(q * Word + r) = r
BY WordFacts DEF Low, High

(* A signed field holds the number of its range that differs from the      *)
(* given one by whole epochs.                                              *)
LEMMA SignedIs ==
  ASSUME NEW n \in Int, NEW e \in Int, NEW s \in TIMESTAMP_MIN .. NON_EXTRA_TIMESTAMP_MAX,
         n = e * Word + s
  PROVE  Signed(n) = s /\ High(n - Signed(n)) = e
<1> DEFINE h == Word \div 2
<1>1. /\ h \in Nat /\ Word = 2 * h /\ Word \in Nat
  BY WordFacts
<1>2. s + h \in 0 .. Word - 1 /\ s \in Int
  BY <1>1 DEF TIMESTAMP_MIN, NON_EXTRA_TIMESTAMP_MAX
<1>3. n + h = e * Word + (s + h)
  BY <1>1, <1>2
<1>4. Low(n + h) = s + h
  BY <1>2, <1>3, HalvesUnique
<1>5. Signed(n) = s
  BY <1>1, <1>2, <1>4 DEF Signed, Low
<1>6. n - Signed(n) = e * Word + 0 /\ 0 \in 0 .. Word - 1
  BY <1>1, <1>2, <1>5, WordFacts
<1>7. High(n - Signed(n)) = e
  BY <1>6, HalvesUnique
<1> QED
  BY <1>5, <1>7

(* Every time that an inode can hold lies in one of four epochs.           *)
LEMMA Epoch ==
  ASSUME NEW sec \in TIMESTAMP_MIN .. EXTRA_TIMESTAMP_MAX
  PROVE  \E e \in 0 .. 3, s \in TIMESTAMP_MIN .. NON_EXTRA_TIMESTAMP_MAX :
           sec = e * Word + s
<1> DEFINE h == Word \div 2
<1>1. /\ h \in Nat /\ Word = 2 * h /\ Word \in Nat /\ Word >= 4
  BY WordFacts
<1>2. sec \in Int /\ sec + h >= 0 /\ sec + h <= 4 * Word - 1
  BY <1>1 DEF TIMESTAMP_MIN, EXTRA_TIMESTAMP_MAX
<1>3. PICK e \in 0 .. 3 : e * Word <= sec + h /\ sec + h < e * Word + Word
  <2>1. CASE sec + h < Word  BY <2>1, <1>1, <1>2
  <2>2. CASE Word <= sec + h /\ sec + h < 2 * Word  BY <2>2, <1>1, <1>2
  <2>3. CASE 2 * Word <= sec + h /\ sec + h < 3 * Word  BY <2>3, <1>1, <1>2
  <2>4. CASE 3 * Word <= sec + h  BY <2>4, <1>1, <1>2
  <2> QED BY <2>1, <2>2, <2>3, <2>4, <1>1, <1>2
<1> DEFINE s == sec - e * Word
<1>4. e * Word \in Int
  BY <1>1
<1>5. s \in TIMESTAMP_MIN .. NON_EXTRA_TIMESTAMP_MAX
  BY <1>1, <1>2, <1>3, <1>4 DEF TIMESTAMP_MIN, NON_EXTRA_TIMESTAMP_MAX
<1>6. sec = e * Word + s
  BY <1>2, <1>4
<1> QED
  BY <1>5, <1>6

(* A time is read back as it was written, nanoseconds included, from an    *)
(* inode with room for the extra bits, and up to 2038 from one without.    *)
THEOREM TimesRoundTrip ==
  ASSUME NEW ts \in Times
  PROVE  TimeKept(ts)
<1>1. /\ ts.sec \in TIMESTAMP_MIN .. EXTRA_TIMESTAMP_MAX /\ ts.sec \in Int
      /\ ts.nsec \in Nat /\ ts.fits \in BOOLEAN
  BY WordFacts DEF Times, TIMESTAMP_MIN, EXTRA_TIMESTAMP_MAX
<1>2. PICK e \in 0 .. 3, s \in TIMESTAMP_MIN .. NON_EXTRA_TIMESTAMP_MAX :
        ts.sec = e * Word + s
  BY <1>1, Epoch
<1>3. Signed(ts.sec) = s /\ High(ts.sec - Signed(ts.sec)) = e
  BY <1>1, <1>2, SignedIs
<1>4. s \in Int
  BY WordFacts DEF TIMESTAMP_MIN, NON_EXTRA_TIMESTAMP_MAX
<1>5. PICK d \in Int : Low(ts.sec) = d * Word + s
  <2>1. /\ High(ts.sec) \in Int /\ ts.sec = High(ts.sec) * Word + Low(ts.sec)
        /\ Low(ts.sec) \in Int
    BY <1>1, Halves
  <2>2. Low(ts.sec) = (e - High(ts.sec)) * Word + s
    BY <2>1, <1>2, <1>4, WordFacts
  <2> QED
    BY <2>1, <2>2
<1>6. Signed(Low(ts.sec)) = s
  <2>1. Low(ts.sec) \in Int
    BY <1>1, Halves
  <2> QED
    BY <1>5, <2>1, SignedIs
<1>7. CASE ts.fits
  <2>1. EncodeExtraTime(ts) = e + 4 * ts.nsec
    BY <1>3 DEF EncodeExtraTime
  <2>2. (e + 4 * ts.nsec) % 4 = e /\ (e + 4 * ts.nsec) \div 4 = ts.nsec
    BY <1>1
  <2>3. GetTime(SetTime(ts, TRUE), TRUE) = [sec |-> s + e * Word, nsec |-> ts.nsec]
    BY <2>1, <2>2, <1>6 DEF GetTime, SetTime, DecodeExtraTime
  <2>4. s + e * Word = ts.sec
    BY <1>2, <1>4, WordFacts
  <2>5. ts.fits = TRUE
    BY <1>7, <1>1
  <2>6. GetTime(SetTime(ts, ts.fits), ts.fits) = [sec |-> s + e * Word, nsec |-> ts.nsec]
    BY <2>3, <2>5, Zenon
  <2> QED
    BY <2>4, <2>6, <1>7 DEF TimeKept
<1>8. CASE ~ts.fits /\ ts.sec <= NON_EXTRA_TIMESTAMP_MAX
  <2>1. ts.sec \in TIMESTAMP_MIN .. NON_EXTRA_TIMESTAMP_MAX
    BY <1>1, <1>8, WordFacts DEF TIMESTAMP_MIN, NON_EXTRA_TIMESTAMP_MAX, EXTRA_TIMESTAMP_MAX
  <2>2. ts.sec = 0 * Word + ts.sec
    BY <1>1, WordFacts
  <2>3. Signed(ts.sec) = ts.sec
    BY <2>1, <2>2, <1>1, SignedIs
  <2>4. GetTime(SetTime(ts, FALSE), FALSE).sec = ts.sec
    BY <2>3, <1>3, <1>6 DEF GetTime, SetTime
  <2> QED
    BY <2>4, <1>8, <1>1 DEF TimeKept
<1> QED
  BY <1>1, <1>7, <1>8 DEF TimeKept

(* A count or a size is read back as it was written, whenever the format   *)
(* has the second half or the number does not need it.                     *)
THEOREM NumbersRoundTrip ==
  ASSUME NEW s \in Numbers
  PROVE  NumberKept(s)
<1>1. s.n \in Nat /\ s.n < Word * Word /\ s.wide \in BOOLEAN /\ s.n \in Int
  BY WordFacts DEF Numbers
<1>2. /\ Low(s.n) \in 0 .. Word - 1 /\ High(s.n) \in Int
      /\ s.n = High(s.n) * Word + Low(s.n)
  BY <1>1, Halves
<1>3. High(s.n) \in 0 .. Word - 1
  BY <1>1, WordFacts DEF High
<1>4. s.n < Word => High(s.n) = 0 /\ Low(s.n) = s.n
  BY <1>1, WordFacts DEF High, Low
<1> QED
  BY <1>1, <1>2, <1>3, <1>4, WordFacts DEF NumberKept, SetHalves, ReadCount, ReadSize

(* A length that fills the block, or leaves 12 bytes of it, survives the   *)
(* 16-bit field.                                                           *)
LEMMA RecLenRoundTrip ==
  ASSUME NEW len \in Nat, len % 4 = 0, len >= 12,
         NEW bs \in BlockSizes, len = bs \/ len + 12 <= bs
  PROVE  /\ RecLenToDisk(len, bs) \in Nat
         /\ RecLenToDisk(len, bs) <= MAX_REC_LEN
         /\ RecLenFromDisk(RecLenToDisk(len, bs), bs) = len
<1>1. CASE len < 65536
  <2>1. RecLenToDisk(len, bs) = len
    BY <1>1, SMT DEF RecLenToDisk
  <2>2. len # 0 /\ len # 65535 /\ len <= 65535
    BY <1>1, SMT
  <2>3. RecLenFromDisk(len, bs) = len
    BY <2>2, SMT DEF RecLenFromDisk, Rounded, MAX_REC_LEN
  <2> QED
    BY <2>1, <2>2, <2>3, SMT DEF MAX_REC_LEN
<1>2. CASE len >= 65536 /\ len = bs
  <2>1. RecLenToDisk(len, bs) \in {0, 65535}
    BY <1>2, SMT DEF RecLenToDisk, MAX_REC_LEN
  <2>2. RecLenFromDisk(RecLenToDisk(len, bs), bs) = bs
    BY <2>1, SMT DEF RecLenFromDisk, MAX_REC_LEN
  <2> QED
    BY <2>1, <2>2, <1>2, SMT DEF MAX_REC_LEN
<1>3. CASE len >= 65536 /\ len # bs
  <2>1. bs \in Nat /\ len + 12 <= bs /\ bs <= 262144
    BY <1>3, SMT DEF BlockSizes
  <2> DEFINE q == len \div 65536
             m == len % 65536
             d == m + q
  <2>2. q \in Nat /\ 1 <= q /\ q <= 3
    BY <2>1, <1>3, SMT
  <2>3. m \in Nat /\ m < 65536 /\ len = 65536 * q + m
    BY SMT
  <2>4. m % 4 = 0
    BY <2>2, <2>3, SMT
  <2>5. RecLenToDisk(len, bs) = d
    BY <2>2, <1>3, SMT DEF RecLenToDisk
  <2> HIDE DEF q, m
  <2>6. d \in Nat /\ d # 0 /\ d # 65535 /\ d <= 65535 /\ d % 4 = q
    BY <2>1, <2>2, <2>3, <2>4, SMT
  <2>7. RecLenFromDisk(d, bs) = m + q * 65536
    BY <2>2, <2>3, <2>6, SMT DEF RecLenFromDisk, Rounded, MAX_REC_LEN
  <2> QED
    BY <2>2, <2>3, <2>5, <2>6, <2>7, SMT DEF MAX_REC_LEN
<1> QED
  BY <1>1, <1>2, <1>3, SMT

(* A record length that the code writes is read back, whatever the block   *)
(* size.                                                                   *)
THEOREM RecordsRoundTrip ==
  ASSUME NEW r \in Records
  PROVE  RecordKept(r)
<1>1. /\ r.len \in Nat /\ r.len % 4 = 0 /\ r.len >= 12 /\ r.blocksize \in BlockSizes
      /\ r.len = r.blocksize \/ r.len + 12 <= r.blocksize
  BY RecLensAssumption, SMT DEF Records
<1> QED
  BY <1>1, RecLenRoundTrip DEF RecordKept

(* The hash of an encrypted and casefolded name lies behind the name and   *)
(* inside the record, for every length of a name.                          *)
THEOREM HashesInRecord ==
  ASSUME NEW s \in Names
  PROVE  HashInRecord(s)
BY DEF Names, HashInRecord, DirRecLen, HashOffset, HashSize, Rounded

(* Every value that is written is read back as it was, for every width of  *)
(* the fields.                                                             *)
THEOREM AlwaysRoundTrips == CodecsSpec => []RoundTrips
<1>1. CodecsInit => RoundTrips
  BY DEF CodecsInit, RoundTrips
<1>2. RoundTrips /\ [CodecsNext]_sample => RoundTrips'
  <2> SUFFICES ASSUME RoundTrips, [CodecsNext]_sample
               PROVE  RoundTrips'
    OBVIOUS
  <2>1. CASE UNCHANGED sample
    BY <2>1 DEF RoundTrips
  <2>2. CASE sample' \in Times
    BY <2>2, TimesRoundTrip DEF RoundTrips, Times
  <2>3. CASE sample' \in Numbers
    BY <2>3, NumbersRoundTrip DEF RoundTrips, Numbers
  <2>4. CASE sample' \in Records
    BY <2>4, RecordsRoundTrip DEF RoundTrips, Records
  <2>5. CASE sample' \in Names
    BY <2>5, HashesInRecord DEF RoundTrips, Names
  <2> QED
    BY <2>1, <2>2, <2>3, <2>4, <2>5 DEF CodecsNext
<1> QED
  BY <1>1, <1>2, PTL DEF CodecsSpec
=============================================================================
