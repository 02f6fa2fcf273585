---------------------------- MODULE ExFatProofs ----------------------------
(***************************************************************************)
(* Machine-checked safety of the two programs on exFAT volumes.  Of        *)
(* fsck-exfat.c: the boot sectors that it accepts, for any width of a      *)
(* word, and that it counts the bits of the first bitmap on the disk.  Of  *)
(* exfat.c: that it walks directories that lie across the clusters of a    *)
(* chain inside of them, that get writes the file at a path and list       *)
(* prints the tree, for any volume with sound directories.                 *)
(*                                                                         *)
(* The walk is proved with a ghost for each call on the stack: which       *)
(* directory it walks and with how many of its slots it has dealt.         *)
(***************************************************************************)
EXTENDS MCExFatPrograms, SequenceTheorems, FiniteSetTheorems, WellFoundedInduction, TLAPS

-----------------------------------------------------------------------------
(* Arithmetic of the boot sector *)

\* What shifting by at most 20 bits multiplies and divides by.  The prover
\* computes powers of numbers only.
LEMMA Shifts ==
    ASSUME NEW s \in 0..20
    PROVE  /\ 2 ^ s \in Nat \ {0} /\ 2 ^ (20 - s) \in Nat \ {0}
           /\ 2 ^ s * 2 ^ (20 - s) = 2 ^ 20
<1>0. CASE s = 0
    BY <1>0, 2 ^ 0 = 1, 2 ^ 20 = 1048576, 20 - s = 20, SMT
<1>1. CASE s = 1
    BY <1>1, 2 ^ 1 = 2, 2 ^ 19 = 524288, 20 - s = 19, SMT
<1>2. CASE s = 2
    BY <1>2, 2 ^ 2 = 4, 2 ^ 18 = 262144, 20 - s = 18, SMT
<1>3. CASE s = 3
    BY <1>3, 2 ^ 3 = 8, 2 ^ 17 = 131072, 20 - s = 17, SMT
<1>4. CASE s = 4
    BY <1>4, 2 ^ 4 = 16, 2 ^ 16 = 65536, 20 - s = 16, SMT
<1>5. CASE s = 5
    BY <1>5, 2 ^ 5 = 32, 2 ^ 15 = 32768, 20 - s = 15, SMT
<1>6. CASE s = 6
    BY <1>6, 2 ^ 6 = 64, 2 ^ 14 = 16384, 20 - s = 14, SMT
<1>7. CASE s = 7
    BY <1>7, 2 ^ 7 = 128, 2 ^ 13 = 8192, 20 - s = 13, SMT
<1>8. CASE s = 8
    BY <1>8, 2 ^ 8 = 256, 2 ^ 12 = 4096, 20 - s = 12, SMT
<1>9. CASE s = 9
    BY <1>9, 2 ^ 9 = 512, 2 ^ 11 = 2048, 20 - s = 11, SMT
<1>10. CASE s = 10
    BY <1>10, 2 ^ 10 = 1024, 2 ^ 10 = 1024, 20 - s = 10, SMT
<1>11. CASE s = 11
    BY <1>11, 2 ^ 11 = 2048, 2 ^ 9 = 512, 20 - s = 9, SMT
<1>12. CASE s = 12
    BY <1>12, 2 ^ 12 = 4096, 2 ^ 8 = 256, 20 - s = 8, SMT
<1>13. CASE s = 13
    BY <1>13, 2 ^ 13 = 8192, 2 ^ 7 = 128, 20 - s = 7, SMT
<1>14. CASE s = 14
    BY <1>14, 2 ^ 14 = 16384, 2 ^ 6 = 64, 20 - s = 6, SMT
<1>15. CASE s = 15
    BY <1>15, 2 ^ 15 = 32768, 2 ^ 5 = 32, 20 - s = 5, SMT
<1>16. CASE s = 16
    BY <1>16, 2 ^ 16 = 65536, 2 ^ 4 = 16, 20 - s = 4, SMT
<1>17. CASE s = 17
    BY <1>17, 2 ^ 17 = 131072, 2 ^ 3 = 8, 20 - s = 3, SMT
<1>18. CASE s = 18
    BY <1>18, 2 ^ 18 = 262144, 2 ^ 2 = 4, 20 - s = 2, SMT
<1>19. CASE s = 19
    BY <1>19, 2 ^ 19 = 524288, 2 ^ 1 = 2, 20 - s = 1, SMT
<1>20. CASE s = 20
    BY <1>20, 2 ^ 20 = 1048576, 2 ^ 0 = 1, 20 - s = 0, SMT
<1> QED
    BY <1>0, <1>1, <1>2, <1>3, <1>4, <1>5, <1>6, <1>7, <1>8, <1>9, <1>10, <1>11,
       <1>12, <1>13, <1>14, <1>15, <1>16, <1>17, <1>18, <1>19, <1>20, SMT

\* Comparing a number with a quotient is comparing its product.
LEMMA Quotient ==
    ASSUME NEW n \in Nat \ {0}, NEW x \in Nat, NEW f \in Nat
    PROVE  f <= x \div n <=> f * n <= x
<1> DEFINE q == x \div n
<1>1. q \in Nat /\ n * q <= x /\ x < n * q + n
    OBVIOUS
<1> HIDE DEF q
<1>2. CASE f <= q
  <2>1. f * n <= n * q
      BY <1>1, <1>2
  <2> QED
      BY <1>1, <1>2, <2>1 DEF q
<1>3. CASE f >= q + 1
  <2>1. f * n >= n * q + n
      BY <1>1, <1>3
  <2> QED
      BY <1>1, <1>3, <2>1 DEF q
<1> QED
    BY <1>1, <1>2, <1>3

\* A number that fits is not wrapped.
LEMMA Fitting ==
    ASSUME NEW n \in 0..(WORD - 1)
    PROVE  Check!Wrap(n) = n
BY CheckAssumption DEF Check!Wrap

\* Whatever is wrapped fits.
LEMMA Wrapped ==
    ASSUME NEW n \in Int
    PROVE  Check!Wrap(n) \in 0..(WORD - 1)
BY CheckAssumption DEF Check!Wrap

-----------------------------------------------------------------------------
(* check_MBR *)

\* The tests that a boot sector is to pass.
Passes(h) ==
    /\ h.jump_boot /\ ~ Check!NameDiffers(h) /\ h.must_be_zero = "zero"
    /\ ~ Check!VolumeTooShort(h) /\ ~ (h.fat_offset < 24) /\ ~ Check!FatTooFar(h)
    /\ ~ Check!FatTooShort(h) /\ h.number_of_fats # 0 /\ ~ Check!FatTooLong(h)
    /\ ~ (h.first_cluster_of_root_directory < 2) /\ ~ Check!RootTooFar(h) /\ h.boot_signature

\* The list of tests is gone through to its end exactly if all of them pass,
\* and what is printed else is none of the answers of check_bitmap.
LEMMA TestsInOrder ==
    ASSUME NEW h
    PROVE  /\ Check!Failing(h) = {} <=> Passes(h)
           /\ Check!Failing(h) # {} =>
                Check!Checks(h)[Check!Min(Check!Failing(h))][1] \notin {"PercentInUse", "consistent"}
<1>1. DOMAIN Check!Checks(h) = 1..10
    BY DEF Check!Checks
<1>2. Check!Failing(h) = {} <=> Passes(h)
  <2> DEFINE Fails(k) == Check!Checks(h)[k][2]
  <2>1. Check!Failing(h) = {} <=>
          ~ Fails(1) /\ ~ Fails(2) /\ ~ Fails(3) /\ ~ Fails(4) /\ ~ Fails(5)
          /\ ~ Fails(6) /\ ~ Fails(7) /\ ~ Fails(8) /\ ~ Fails(9) /\ ~ Fails(10)
      BY <1>1 DEF Check!Failing
  <2>2. /\ Fails(1) <=> ~ h.jump_boot
        /\ Fails(2) <=> Check!NameDiffers(h)
        /\ Fails(3) <=> h.must_be_zero # "zero"
        /\ Fails(4) <=> Check!VolumeTooShort(h)
        /\ Fails(5) <=> h.fat_offset < 24 \/ Check!FatTooFar(h)
        /\ Fails(6) <=> Check!FatTooShort(h)
        /\ Fails(7) <=> h.number_of_fats = 0
        /\ Fails(8) <=> Check!FatTooLong(h)
        /\ Fails(9) <=> h.first_cluster_of_root_directory < 2 \/ Check!RootTooFar(h)
        /\ Fails(10) <=> ~ h.boot_signature
      BY DEF Check!Checks
  <2> HIDE DEF Fails
  <2> QED
      BY <2>1, <2>2 DEF Passes
<1>3. \A k \in 1..10 : Check!Checks(h)[k][1] \notin {"PercentInUse", "consistent"}
    BY DEF Check!Checks
<1>4. ASSUME Check!Failing(h) # {} PROVE Check!Min(Check!Failing(h)) \in 1..10
  <2> DEFINE F == Check!Failing(h)
  <2>1. F \subseteq 1..10
      BY <1>1 DEF Check!Failing
  <2>2. \E k \in F : \A m \in F : k <= m
      BY <1>4, <2>1
  <2> QED
      BY <2>1, <2>2 DEF Check!Min
<1> QED
    BY <1>2, <1>3, <1>4

\* Whatever wraps, a boot sector that passes has FATs and clusters.
LEMMA PassesHasClusters ==
    ASSUME NEW h \in Check!Header, Passes(h)
    PROVE  h.number_of_fats > 0 /\ h.cluster_count > 0
<1>1. h.number_of_fats \in 0..255 /\ h.cluster_count \in 0..(WORD - 1)
      /\ h.first_cluster_of_root_directory \in 0..(WORD - 1)
    BY DEF Check!Header, Check!Words
<1>2. h.first_cluster_of_root_directory <= Check!Wrap(h.cluster_count + 1)
    BY <1>1, Wrapped DEF Passes, Check!RootTooFar
<1>3. h.cluster_count = 0 => Check!Wrap(h.cluster_count + 1) <= 1
    BY CheckAssumption DEF Check!Wrap
<1>4. h.number_of_fats # 0 /\ ~ (h.first_cluster_of_root_directory < 2)
    BY DEF Passes
<1>5. Check!Wrap(h.cluster_count + 1) \in 0..(WORD - 1)
    BY <1>1, Wrapped
<1>6. WORD \in Nat
    BY CheckAssumption
<1> QED
    BY <1>1, <1>2, <1>3, <1>4, <1>5, <1>6

\* Without a wrap that matters the tests say what they are for.
LEMMA PassesIfSound ==
    ASSUME NEW h \in Check!Header, Check!NoWrap(h)
    PROVE  Passes(h) <=> Check!Sound(h)
<1> DEFINE P == 2 ^ h.bytes_per_sector_shift
           Q == 2 ^ (20 - h.bytes_per_sector_shift)
           fl == h.fat_length
           n  == h.number_of_fats
           heap == h.cluster_heap_offset
<1>1. /\ n \in 0..255 /\ h.cluster_count \in 0..(WORD - 1) /\ fl \in 0..(WORD - 1)
      /\ heap \in 0..(WORD - 1) /\ h.fat_offset \in 0..(WORD - 1)
      /\ h.first_cluster_of_root_directory \in 0..(WORD - 1)
      /\ h.volume_length \in Nat /\ h.bytes_per_sector_shift \in 0..20 /\ WORD \in Nat \ {0}
    BY CheckAssumption DEF Check!Header, Check!Words
<1>2. P \in Nat \ {0} /\ Q \in Nat \ {0} /\ P * Q = 2 ^ 20
    BY <1>1, Shifts
<1>3. fl <= heap /\ h.cluster_count + 2 < WORD
    BY DEF Check!NoWrap
<1>4. Check!Wrap(h.cluster_count + 2) = h.cluster_count + 2 /\ Check!Wrap(h.cluster_count + 1) = h.cluster_count + 1
    BY <1>1, <1>3, Fitting
<1>5. ~ Check!VolumeTooShort(h) <=> h.volume_length * P >= 2 ^ 20
  <2>1. h.volume_length >= Q <=> h.volume_length * P >= Q * P
      BY <1>1, <1>2
  <2> QED
      BY <1>1, <1>2, <2>1 DEF Check!VolumeTooShort
<1>6. ~ Check!FatTooShort(h) <=> 4 * (h.cluster_count + 2) <= fl * P
    BY <1>1, <1>2, <1>4 DEF Check!FatTooShort
<1>7. ~ Check!RootTooFar(h) <=> h.first_cluster_of_root_directory <= h.cluster_count + 1
    BY <1>1, <1>4 DEF Check!RootTooFar
<1>8. n # 0 => (~ Check!FatTooLong(h) <=> (n + 1) * fl <= heap)
  <2> SUFFICES ASSUME n # 0 PROVE ~ Check!FatTooLong(h) <=> (n + 1) * fl <= heap
      OBVIOUS
  <2>1. Check!Wrap(heap - fl) = heap - fl /\ heap - fl \in Nat
      BY <1>1, <1>3, Fitting
  <2>2. ~ Check!FatTooLong(h) <=> fl <= (heap - fl) \div n
      BY <1>1, <2>1 DEF Check!FatTooLong
  <2>3. fl <= (heap - fl) \div n <=> fl * n <= heap - fl
    <3>1. n \in Nat \ {0} /\ fl \in Nat
        BY <1>1
    <3> QED
        BY <2>1, <3>1, Quotient
  <2>4. fl * n \in Nat /\ (n + 1) * fl = fl * n + fl
      BY <1>1
  <2> QED
      BY <1>1, <2>2, <2>3, <2>4
<1>9. (n + 1) * fl <= heap =>
        (~ Check!FatTooFar(h) <=> h.fat_offset + n * fl <= heap)
  <2> SUFFICES ASSUME (n + 1) * fl <= heap PROVE ~ Check!FatTooFar(h) <=> h.fat_offset + n * fl <= heap
      OBVIOUS
  <2>1. fl * n \in Nat /\ fl * n = n * fl /\ (n + 1) * fl = fl * n + fl
      BY <1>1
  <2>2. Check!Wrap(fl * n) = fl * n
      BY <1>1, <2>1, Fitting
  <2>3. Check!Wrap(heap - fl * n) = heap - fl * n
      BY <1>1, <2>1, Fitting
  <2> QED
      BY <1>1, <2>1, <2>2, <2>3 DEF Check!FatTooFar
<1> QED
    BY <1>1, <1>5, <1>6, <1>7, <1>8, <1>9 DEF Passes, Check!Sound, Check!NameDiffers

\* Whether a boot sector was accepted stays what the tests said.
CheckInv ==
    /\ header \in Check!Header
    /\ pc = "mbr" => answer = "none"
    /\ pc # "mbr" => (Check!Accepted <=> Passes(header))

\* The tests have not been made at first.
LEMMA CheckInit == Check!Init => CheckInv
BY CheckAssumption DEF Check!Init, CheckInv

\* Only CheckMbr decides.
LEMMA CheckNext == CheckInv /\ Check!Next => CheckInv'
<1> SUFFICES ASSUME CheckInv, Check!Next PROVE CheckInv'
    OBVIOUS
<1>1. CASE Check!CheckMbr
  <2>1. header' = header /\ pc = "mbr" /\ answer = "none"
      BY <1>1 DEF Check!CheckMbr, CheckInv
  <2>2. CASE Check!Failing(header) = {}
    <3>1. pc' = "search" /\ Passes(header)
        BY <1>1, <2>2, TestsInOrder DEF Check!CheckMbr
    <3> QED
        BY <2>1, <3>1 DEF CheckInv, Check!Accepted
  <2>3. CASE Check!Failing(header) # {}
    <3>1. pc' \in {"crashed", "done"} /\ answer' = Check!Checks(header)[Check!Min(Check!Failing(header))][1]
        BY <1>1, <2>3 DEF Check!CheckMbr
    <3>2. ~ Passes(header) /\ answer' \notin {"PercentInUse", "consistent"}
        BY <2>3, <3>1, TestsInOrder
    <3> QED
        BY <2>1, <3>1, <3>2 DEF CheckInv, Check!Accepted
  <2> QED
      BY <2>2, <2>3
<1>2. CASE Check!NextEntry
    BY <1>2 DEF Check!NextEntry, CheckInv, Check!Accepted
<1>3. CASE Check!CountByte
    BY <1>3 DEF Check!CountByte, CheckInv, Check!Accepted
<1>4. CASE Check!Compare
    BY <1>4 DEF Check!Compare, CheckInv, Check!Accepted
<1> QED
    BY <1>1, <1>2, <1>3, <1>4 DEF Check!Next

\* fsck-exfat accepts, of the boot sectors in which neither the length of one
\* FAT nor the number of FAT entries wraps, exactly the sound ones, for any
\* width of a word and any boot sectors; and whatever wraps, it does not go on
\* to divide by a cluster count of 0.
THEOREM BootSectorsJudged == MCSpec => []AcceptsExactly
<1> DEFINE Inv == program = "fsck-exfat" => CheckInv
<1>1. MCInit => Inv
    BY CheckInit DEF MCInit
<1>2. Inv /\ [MCNext \/ Stopped]_allVars => Inv'
  <2> SUFFICES ASSUME Inv, [MCNext \/ Stopped]_allVars, program' = "fsck-exfat" PROVE CheckInv'
      OBVIOUS
  <2>1. CASE RunCheck /\ Check!Next
      BY <2>1, CheckNext DEF RunCheck
  <2>2. CASE UNCHANGED <<program, checkVars>>
      BY <2>2 DEF checkVars, CheckInv, Check!Accepted
  <2> QED
      BY <2>1, <2>2 DEF MCNext, RunReader, Stopped, allVars
<1>3. Inv => AcceptsExactly
  <2> SUFFICES ASSUME CheckInv, pc # "mbr"
               PROVE  /\ Check!Accepted => header.number_of_fats > 0 /\ header.cluster_count > 0
                      /\ Check!NoWrap(header) => (Check!Accepted <=> Check!Sound(header))
      BY DEF AcceptsExactly, Check!AcceptsExactly
  <2> QED
      BY PassesHasClusters, PassesIfSound DEF CheckInv
<1> QED
    BY <1>1, <1>2, <1>3, PTL DEF MCSpec
-----------------------------------------------------------------------------
(* The count of the bitmap *)

\* The instance of the check has a Cardinality of its own.
LEMMA SameCardinality == \A S : Check!Cardinality(S) = Cardinality(S)
BY DEF Check!Cardinality, Cardinality

\* A further byte sets as many bits more as it has.
LEMMA OneByteMore ==
    ASSUME NEW bytes \in Seq(Check!Bits), NEW n \in Nat, n < Len(bytes)
    PROVE  /\ Cardinality(Check!BitsSet(bytes, 0)) = 0
           /\ IsFiniteSet(Check!BitsSet(bytes, n))
           /\ Cardinality(Check!BitsSet(bytes, n + 1)) =
                Cardinality(Check!BitsSet(bytes, n)) + bytes[n + 1]
<1>1. Check!BitsSet(bytes, 0) = {}
    BY DEF Check!BitsSet
<1>2. Cardinality({}) = 0
    BY FS_EmptySet
<1>3. PICK b \in 0..8 : b = bytes[n + 1]
  <2>1. n + 1 \in 1..Len(bytes)
      BY LenProperties
  <2> QED
      BY <2>1, ElementOfSeq DEF Check!Bits
<1>3a. ASSUME NEW x \in Nat PROVE IsFiniteSet(1..x) /\ Cardinality(1..x) = x
  <2>1. 1 \in Int /\ x \in Int
      OBVIOUS
  <2>2. IsFiniteSet(1..x) /\ Cardinality(1..x) = IF 1 > x THEN 0 ELSE x - 1 + 1
      BY <2>1, FS_Interval
  <2> QED
      BY <2>2
<1>4. IsFiniteSet(Check!BitsSet(bytes, n))
  <2>1. IsFiniteSet(1..n) /\ IsFiniteSet(1..8)
      BY <1>3a
  <2>2. IsFiniteSet((1..n) \X (1..8))
      BY <2>1, FS_Product
  <2>3. Check!BitsSet(bytes, n) \subseteq (1..n) \X (1..8)
      BY DEF Check!BitsSet
  <2> QED
      BY <2>2, <2>3, FS_Subset
<1> DEFINE new == {n + 1} \X (1..b)
<1>5. IsFiniteSet(new) /\ Cardinality(new) = b
  <2>1. IsFiniteSet({n + 1}) /\ Cardinality({n + 1}) = 1
      BY FS_Singleton
  <2>2. IsFiniteSet(1..b) /\ Cardinality(1..b) = b
      BY <1>3a
  <2>3. IsFiniteSet(new) /\ Cardinality(new) = Cardinality({n + 1}) * Cardinality(1..b)
      BY <2>1, <2>2, FS_Product
  <2>4. 1 * b = b
      OBVIOUS
  <2> QED
      BY <2>1, <2>2, <2>3, <2>4
<1>6. Check!BitsSet(bytes, n + 1) = Check!BitsSet(bytes, n) \cup new
  <2>1. ASSUME NEW k, NEW m
        PROVE  <<k, m>> \in Check!BitsSet(bytes, n + 1) <=>
               <<k, m>> \in Check!BitsSet(bytes, n) \/ <<k, m>> \in new
    <3>1. \A j \in Nat : <<k, m>> \in Check!BitsSet(bytes, j) <=>
                           k \in 1..j /\ m \in 1..8 /\ m <= bytes[k]
        BY DEF Check!BitsSet
    <3>2. k \in 1..(n + 1) <=> k \in 1..n \/ k = n + 1
        OBVIOUS
    <3>3. <<k, m>> \in new <=> k = n + 1 /\ m \in 1..b
        OBVIOUS
    <3>4. m \in 1..b <=> m \in 1..8 /\ m <= b
        OBVIOUS
    <3> QED
        BY <1>3, <3>1, <3>2, <3>3, <3>4
  <2>2. \A p \in Check!BitsSet(bytes, n + 1) \cup Check!BitsSet(bytes, n) \cup new :
          p = <<p[1], p[2]>>
      BY DEF Check!BitsSet
  <2> HIDE DEF new
  <2> QED
      BY <2>1, <2>2
<1>7. Check!BitsSet(bytes, n) \cap new = {}
    BY DEF Check!BitsSet
<1> HIDE DEF new
<1>8. Cardinality(Check!BitsSet(bytes, n) \cup new) = Cardinality(Check!BitsSet(bytes, n)) + b
  <2>1. Cardinality(Check!BitsSet(bytes, n)) \in Nat
      BY <1>4, FS_CardinalityType
  <2>2. Cardinality(Check!BitsSet(bytes, n) \cup new) =
          Cardinality(Check!BitsSet(bytes, n)) + Cardinality(new) - Cardinality({})
      BY <1>4, <1>5, <1>7, FS_Union
  <2> QED
      BY <1>2, <1>5, <2>1, <2>2
<1> QED
    BY <1>1, <1>2, <1>3, <1>4, <1>6, <1>8

\* Whatever e holds, no bitmap entry was met before the search ends with the first
\* one; then cnt is the number of the bits set in the bytes that are counted.
CountInv ==
    /\ disk \in Seq(Check!Slot)
    /\ pc \in {"mbr", "search"} =>
         /\ i = 0 /\ cnt = 0 /\ next \in 0..Len(disk)
         /\ \A k \in 1..next : ~ disk[k].bitmap
    /\ pc = "count" /\ Check!Whole =>
         /\ entry = Check!Bitmap /\ i \in 0..Len(Check!Bitmap.bytes)
         /\ cnt = Cardinality(Check!BitsSet(Check!Bitmap.bytes, i))
    /\ pc \in {"mbr", "search", "count"} => answer = "none"
    /\ Check!RightAnswer

\* The count starts so: nothing is read.
LEMMA CountInit == Check!Init => CountInv
<1> SUFFICES ASSUME Check!Init PROVE CountInv
    OBVIOUS
<1>1. disk \in Seq(Check!Slot) /\ pc = "mbr" /\ answer = "none" /\ next = 0 /\ i = 0 /\ cnt = 0
    BY CheckAssumption DEF Check!Init
<1>2. 0 \in 0..Len(disk) /\ 1..0 = {}
    BY <1>1, LenProperties
<1> QED
    BY <1>1, <1>2 DEF CountInv, Check!RightAnswer, Check!Compared

\* The first bitmap entry is a slot of the disk.
LEMMA FirstBitmap ==
    ASSUME disk \in Seq(Check!Slot), NEW k \in 1..Len(disk), disk[k].bitmap,
           \A m \in 1..(k - 1) : ~ disk[m].bitmap
    PROVE  Check!Bitmap = disk[k]
<1>1. DOMAIN disk = 1..Len(disk)
    BY LenProperties
<1>2. k \in Check!Bitmaps
    BY <1>1 DEF Check!Bitmaps
<1>3. \A m \in Check!Bitmaps : k <= m
    BY <1>1, LenProperties DEF Check!Bitmaps
<1>4. \A m \in Check!Bitmaps : m \in Nat
    BY <1>1, LenProperties DEF Check!Bitmaps
<1>5. Check!Min(Check!Bitmaps) = k
  <2>1. PICK S : S = Check!Bitmaps
      OBVIOUS
  <2>2. k \in S /\ (\A m \in S : k <= m) /\ \A m \in S : m \in Nat
      BY <1>2, <1>3, <1>4, <2>1
  <2>3. \A x \in S : (\A y \in S : x <= y) => x = k
      BY <2>2
  <2>4. (CHOOSE x \in S : \A y \in S : x <= y) = k
      BY <2>2, <2>3
  <2> QED
      BY <2>1, <2>4 DEF Check!Min
<1> QED
    BY <1>5 DEF Check!Bitmap

\* A set of natural numbers that is not empty has a least element.
LEMMA LeastElement ==
    ASSUME NEW S, S \subseteq Nat, S # {}
    PROVE  \E k \in S : \A m \in S : k <= m
<1> DEFINE R == {p \in Nat \X Nat : p[1] < p[2]}
<1>1. IsWellFoundedOn(R, Nat)
    BY NatLessThanWellFounded DEF OpToRel
<1>2. PICK k \in S : \A m \in S : ~ (<<m, k>> \in R)
    BY <1>1, WFMin
<1>3. ASSUME NEW m \in S PROVE k <= m
  <2>1. k \in Nat /\ m \in Nat
      OBVIOUS
  <2>2. ~ (m < k)
      BY <1>2, <2>1
  <2> QED
      BY <2>1, <2>2
<1> QED
    BY <1>3

\* A bitmap that is as long as it says is a slot of the disk.
LEMMA BitmapIs ==
    ASSUME disk \in Seq(Check!Slot), Check!Whole
    PROVE  Check!Bitmap \in Check!Slot
<1>1. DOMAIN disk = 1..Len(disk) /\ Len(disk) \in Nat
    BY LenProperties
<1>2. PICK S : S = Check!Bitmaps
    OBVIOUS
<1>3. S # {}
    BY <1>2 DEF Check!Whole
<1>4. S \subseteq 1..Len(disk)
    BY <1>1, <1>2 DEF Check!Bitmaps
<1>5. S \subseteq Nat
    BY <1>1, <1>4
<1>6. \E k \in S : \A m \in S : k <= m
    BY <1>3, <1>5, LeastElement
<1>7. (CHOOSE x \in S : \A y \in S : x <= y) \in S
    BY <1>6
<1>8. Check!Min(Check!Bitmaps) \in 1..Len(disk)
    BY <1>2, <1>4, <1>7 DEF Check!Min
<1> QED
    BY <1>8, ElementOfSeq DEF Check!Bitmap

\* A length below half a word is what it says as an int.
LEMMA ShortLength ==
    ASSUME NEW n \in Nat, n < WORD \div 2
    PROVE  Check!Signed(n) = n
<1>1. WORD \in Nat \ {0} /\ n < WORD /\ ~ (n >= WORD \div 2)
    BY CheckAssumption
<1>2. Check!Wrap(n) = n
    BY <1>1, Fitting
<1> QED
    BY <1>1, <1>2 DEF Check!Signed

\* Every step of the check keeps to that.
LEMMA CountNext == CheckInv /\ CountInv /\ Check!Next => CountInv'
<1> SUFFICES ASSUME CheckInv, CountInv, Check!Next PROVE CountInv'
    OBVIOUS
<1>1. PICK d \in Seq(Check!Slot) : d = disk /\ d = disk'
    BY DEF CountInv, Check!Next, Check!CheckMbr, Check!NextEntry, Check!CountByte, Check!Compare
<1>2. header' = header
    BY DEF Check!Next, Check!CheckMbr, Check!NextEntry, Check!CountByte, Check!Compare
<1>3. Len(d) \in Nat
    BY LenProperties
<1>4. /\ Check!Bitmaps' = Check!Bitmaps /\ Check!Bitmap' = Check!Bitmap
      /\ Check!Whole' <=> Check!Whole
    BY <1>1 DEF Check!Bitmaps, Check!Bitmap, Check!Whole
<1>5. ASSUME ~ Check!Compared' PROVE Check!RightAnswer'
    BY <1>5 DEF Check!RightAnswer
<1>6. CASE Check!CheckMbr
  <2>1. /\ pc = "mbr" /\ answer = "none" /\ i' = i /\ cnt' = cnt /\ next' = next /\ entry' = entry
        /\ pc' \in {"search", "crashed", "done"}
      BY <1>6 DEF Check!CheckMbr, CheckInv
  <2>2. CASE Check!Failing(header) = {}
    <3>1. pc' = "search" /\ answer' = "none"
        BY <1>6, <2>1, <2>2 DEF Check!CheckMbr
    <3>2. ~ Check!Compared'
        BY <3>1 DEF Check!Compared
    <3> QED
        BY <1>1, <1>5, <2>1, <3>1, <3>2 DEF CountInv
  <2>3. CASE Check!Failing(header) # {}
    <3>1. pc' \in {"crashed", "done"}
          /\ answer' = Check!Checks(header)[Check!Min(Check!Failing(header))][1]
        BY <1>6, <2>3 DEF Check!CheckMbr
    <3>2. ~ Check!Compared'
        BY <2>3, <3>1, TestsInOrder DEF Check!Compared
    <3> QED
        BY <1>1, <1>5, <3>1, <3>2 DEF CountInv
  <2> QED
      BY <2>2, <2>3
<1>7. CASE Check!NextEntry
  <2>1. pc = "search" /\ answer' = "none" /\ i' = 0 /\ cnt' = 0 /\ pc' \in {"count", "search"}
      BY <1>7 DEF Check!NextEntry, CountInv
  <2>2. ~ Check!Compared'
      BY <2>1 DEF Check!Compared
  <2>3. PICK n \in 0..Len(d) : n = next /\ \A k \in 1..n : ~ d[k].bitmap
      BY <1>1, <2>1 DEF CountInv
  <2>4. CASE n < Len(d)
    <3>1. PICK q \in 1..Len(d) : q = n + 1 /\ q - 1 = n /\ next' = q /\ entry' = d[q]
        BY <1>1, <1>3, <1>7, <2>3, <2>4 DEF Check!NextEntry
    <3>2. CASE d[q].bitmap
      <4>1. pc' = "count"
          BY <1>7, <3>1, <3>2 DEF Check!NextEntry
      <4>2. Check!Bitmap = d[q]
          BY <1>1, <2>3, <3>1, <3>2, FirstBitmap
      <4>3. Check!Bitmap' = d[q] /\ entry' = Check!Bitmap'
          BY <1>4, <3>1, <4>2
      <4>4. 0 \in 0..Len(d[q].bytes)
        <5>1. d[q] \in Check!Slot
            BY ElementOfSeq
        <5>2. Len(d[q].bytes) \in Nat
            BY <5>1, LenProperties DEF Check!Slot
        <5> QED
            BY <5>2
      <4>5. Cardinality(Check!BitsSet(d[q].bytes, 0)) = 0
        <5>1. Check!BitsSet(d[q].bytes, 0) = {}
            BY DEF Check!BitsSet
        <5> QED
            BY <5>1, FS_EmptySet
      <4> QED
          BY <1>1, <1>5, <2>1, <2>2, <4>1, <4>3, <4>4, <4>5 DEF CountInv
    <3>3. CASE ~ d[q].bitmap
      <4>1. pc' = "search"
          BY <1>7, <3>1, <3>3 DEF Check!NextEntry
      <4>2. \A k \in 1..q : ~ d[k].bitmap
        <5>1. \A k \in 1..q : k \in 1..n \/ k = q
            BY <3>1
        <5> QED
            BY <2>3, <3>3, <5>1
      <4>3. q \in 0..Len(d)
          BY <1>3
      <4> QED
          BY <1>1, <1>5, <2>1, <2>2, <3>1, <4>1, <4>2, <4>3 DEF CountInv
    <3> QED
        BY <3>2, <3>3
  <2>5. CASE n = Len(d)
    <3>1. next' = n
        BY <1>1, <1>7, <2>3, <2>5 DEF Check!NextEntry
    <3>2. ~ Check!Whole'
      <4>1. DOMAIN d = 1..Len(d)
          BY LenProperties
      <4>2. Check!Bitmaps = {}
          BY <1>1, <2>3, <2>5, <4>1 DEF Check!Bitmaps
      <4> QED
          BY <1>4, <4>2 DEF Check!Whole
    <3> QED
        BY <1>1, <1>5, <2>1, <2>2, <2>3, <3>1, <3>2 DEF CountInv
  <2> QED
      BY <1>3, <2>4, <2>5
<1>8. CASE Check!CountByte
  <2>1. pc = "count" /\ pc' = "count" /\ answer' = "none" /\ entry' = entry
      BY <1>8 DEF Check!CountByte, CountInv
  <2>2. ~ Check!Compared'
      BY <2>1 DEF Check!Compared
  <2>3. ASSUME Check!Whole'
        PROVE  /\ entry' = Check!Bitmap' /\ i' \in 0..Len(Check!Bitmap'.bytes)
               /\ cnt' = Cardinality(Check!BitsSet(Check!Bitmap'.bytes, i'))
    <3>1. Check!Whole
        BY <1>4, <2>3
    <3>2. PICK b : b = Check!Bitmap /\ b = Check!Bitmap'
        BY <1>4
    <3>3. /\ entry = b /\ i \in 0..Len(b.bytes)
          /\ cnt = Cardinality(Check!BitsSet(b.bytes, i))
        BY <2>1, <3>1, <3>2 DEF CountInv
    <3>4. b \in Check!Slot /\ b.data_length = Len(b.bytes) /\ b.data_length < WORD \div 2
        BY <1>1, <3>1, <3>2, BitmapIs DEF Check!Whole
    <3>5. Check!Signed(b.data_length) = Len(b.bytes)
        BY <3>4, ShortLength
    <3>6. PICK n \in Nat : n = i /\ n < Len(b.bytes)
        BY <1>8, <3>3, <3>5 DEF Check!CountByte
    <3>7. i' = n + 1 /\ cnt' = Cardinality(Check!BitsSet(b.bytes, n)) + b.bytes[n + 1]
        BY <1>8, <3>3, <3>6 DEF Check!CountByte
    <3>8. b.bytes \in Seq(Check!Bits) /\ Len(b.bytes) \in Nat
        BY <3>4, LenProperties DEF Check!Slot
    <3>9. Cardinality(Check!BitsSet(b.bytes, n + 1)) =
            Cardinality(Check!BitsSet(b.bytes, n)) + b.bytes[n + 1]
        BY <3>6, <3>8, OneByteMore
    <3>10. n + 1 \in 0..Len(b.bytes)
        BY <3>6, <3>8
    <3> QED
        BY <2>1, <3>2, <3>3, <3>7, <3>9, <3>10
  <2> QED
      BY <1>1, <1>5, <2>1, <2>2, <2>3 DEF CountInv
<1>9. CASE Check!Compare
  <2>1. /\ pc = "count" /\ pc' = "done" /\ i >= Check!Signed(entry.data_length)
        /\ answer' = IF (cnt * 100) \div header.cluster_count # header.percent_in_use
                       THEN "PercentInUse" ELSE "consistent"
      BY <1>9 DEF Check!Compare
  <2>2. ASSUME Check!Whole'
        PROVE  answer' = "consistent" <=> Check!Share(header)' = header'.percent_in_use
    <3>1. Check!Whole
        BY <1>4, <2>2
    <3>2. PICK b : b = Check!Bitmap /\ b = Check!Bitmap'
        BY <1>4
    <3>3. /\ entry = b /\ i \in 0..Len(b.bytes)
          /\ cnt = Cardinality(Check!BitsSet(b.bytes, i))
        BY <2>1, <3>1, <3>2 DEF CountInv
    <3>4. b \in Check!Slot /\ b.data_length = Len(b.bytes) /\ b.data_length < WORD \div 2
        BY <1>1, <3>1, <3>2, BitmapIs DEF Check!Whole
    <3>5. Check!Signed(b.data_length) = Len(b.bytes)
        BY <3>4, ShortLength
    <3>6. i = Len(b.bytes)
      <4>1. Len(b.bytes) \in Nat
          BY <3>4, LenProperties DEF Check!Slot
      <4> QED
          BY <2>1, <3>3, <3>5, <4>1
    <3>7. PICK x : x = Cardinality(Check!BitsSet(b.bytes, Len(b.bytes))) /\ x = cnt
        BY <3>3, <3>6
    <3>8. Check!Share(header)' = (x * 100) \div header.cluster_count
        BY <1>2, <3>2, <3>7, SameCardinality DEF Check!Share
    <3> QED
        BY <1>2, <2>1, <3>7, <3>8
  <2>3. Check!RightAnswer'
      BY <2>2 DEF Check!RightAnswer
  <2> QED
      BY <1>1, <2>1, <2>3 DEF CountInv
<1> QED
    BY <1>6, <1>7, <1>8, <1>9 DEF Check!Next

\* fsck-exfat compares PercentInUse with the share of the bits set in the first
\* bitmap of the disk, whatever its locals hold at first: for any width of a word,
\* any disk and any bitmap that is as long as it says and not too long for an int.
THEOREM BitmapCounted == MCSpec => []RightAnswer
<1> DEFINE Inv == program = "fsck-exfat" => CheckInv /\ CountInv
<1>1. MCInit => Inv
    BY CheckInit, CountInit DEF MCInit
<1>2. Inv /\ [MCNext \/ Stopped]_allVars => Inv'
  <2> SUFFICES ASSUME Inv, [MCNext \/ Stopped]_allVars, program' = "fsck-exfat"
               PROVE  CheckInv' /\ CountInv'
      OBVIOUS
  <2>1. CASE RunCheck /\ Check!Next
      BY <2>1, CheckNext, CountNext DEF RunCheck
  <2>2. CASE UNCHANGED <<program, checkVars>>
      BY <2>2 DEF checkVars, CheckInv, CountInv, Check!Accepted, Check!Whole, Check!Bitmap,
              Check!Bitmaps, Check!RightAnswer, Check!Compared, Check!Share
  <2> QED
      BY <2>1, <2>2 DEF MCNext, RunReader, Stopped, allVars
<1>3. Inv => RightAnswer
    BY DEF CountInv, RightAnswer
<1> QED
    BY <1>1, <1>2, <1>3, PTL DEF MCSpec

-----------------------------------------------------------------------------
(* Chains *)

\* Induction on the natural numbers, for a property given as a set.
LEMMA SetInduction ==
    ASSUME NEW S, 0 \in S, \A n \in Nat : n \in S => n + 1 \in S
    PROVE  \A n \in Nat : n \in S
<1> DEFINE R == {p \in Nat \X Nat : p[1] < p[2]}
           T == Nat \ S
<1>1. IsWellFoundedOn(R, Nat)
    BY NatLessThanWellFounded DEF OpToRel
<1> SUFFICES ASSUME T # {} PROVE FALSE
    OBVIOUS
<1>2. PICK x \in T : \A y \in T : ~ (<<y, x>> \in R)
    BY <1>1, WFMin
<1>3. x \in Nat \ {0} /\ x - 1 \in Nat
    OBVIOUS
<1>4. x - 1 \notin T
  <2>1. <<x - 1, x>> \in R
      BY <1>3
  <2> QED
      BY <1>2, <2>1
<1>5. x - 1 \in S /\ (x - 1) + 1 = x
    BY <1>3, <1>4
<1> QED
    BY <1>3, <1>5

\* A volume, as the code finds it.
LEMMA VolumeIs ==
    ASSUME NEW v \in Volumes
    PROVE  /\ v.root \in ClusterNumbers
           /\ v.fat \in [0..(Clusters + 1) -> ClusterNumbers \cup {0, END}]
           /\ v.heap \in [0..(Slots * Clusters - 1) -> Entries]
           /\ Clusters \in Nat /\ Slots \in Nat \ {0} /\ END \notin Nat
BY VolumeAssumption, SizeAssumption

\* A chain that was followed for a while: it starts at a cluster, and each
\* cluster is linked to the next.
Linked(v, first, chain) ==
    /\ chain \in Seq(0..(Clusters + 1)) /\ chain # << >>
    /\ chain[1] = first
    /\ \A j \in 1..(Len(chain) - 1) : v.fat[chain[j]] = chain[j + 1]

\* One link more.
Further(v, chain) == IF v.fat[Last(chain)] = END THEN chain ELSE Append(chain, v.fat[Last(chain)])

\* Following a link keeps to the chain.
LEMMA FurtherLinked ==
    ASSUME NEW v \in Volumes, NEW first, NEW chain, Linked(v, first, chain)
    PROVE  Linked(v, first, Further(v, chain))
<1> DEFINE n == Len(chain)
           link == v.fat[Last(chain)]
<1>1. chain \in Seq(0..(Clusters + 1)) /\ n \in Nat \ {0} /\ Last(chain) = chain[n] /\ chain[n] \in 0..(Clusters + 1)
  <2>1. chain \in Seq(0..(Clusters + 1)) /\ chain # << >>
      BY DEF Linked
  <2>2. n \in Nat \ {0}
      BY <2>1, EmptySeq, LenProperties
  <2> QED
    <3>1. Last(chain) = chain[n]
        BY DEF Last
    <3>2. n \in 1..Len(chain)
        BY <2>2
    <3>3. chain[n] \in 0..(Clusters + 1)
        BY <2>1, <3>2, ElementOfSeq
    <3> QED
        BY <2>1, <2>2, <3>1, <3>3
<1>2. link \in ClusterNumbers \cup {0, END}
    BY <1>1, VolumeIs
<1> SUFFICES ASSUME link # END PROVE Linked(v, first, Append(chain, link))
    BY DEF Further
<1>3. link \in 0..(Clusters + 1)
    BY <1>2, VolumeIs DEF ClusterNumbers
<1>4. /\ Append(chain, link) \in Seq(0..(Clusters + 1))
      /\ Len(Append(chain, link)) = n + 1
      /\ Append(chain, link)[n + 1] = link
      /\ \A j \in 1..n : Append(chain, link)[j] = chain[j]
    BY <1>1, <1>3
<1> HIDE DEF link
<1>5. v.fat[chain[n]] = link
    BY <1>1 DEF link
<1> QED
    BY <1>1, <1>4, <1>5 DEF Linked

\* The function by which Chain is defined exists.
Follows(v, first, run, n) ==
    run = [k \in 0..n |-> IF k = 0 THEN <<first>> ELSE Further(v, run[k - 1])]

\* For every number of steps there is such a function, by induction on the steps.
LEMMA RunExists == \A v, first : \A n \in Nat : \E run : Follows(v, first, run, n)
<1> SUFFICES ASSUME NEW v, NEW first PROVE \A n \in Nat : \E run : Follows(v, first, run, n)
    OBVIOUS
<1> DEFINE S == {n \in Nat : \E run : Follows(v, first, run, n)}
<1>1. 0 \in S
  <2>1. Follows(v, first, [k \in 0..0 |-> <<first>>], 0)
      BY DEF Follows
  <2> QED
      BY <2>1
<1>2. ASSUME NEW n \in Nat, n \in S PROVE n + 1 \in S
  <2>1. PICK run : Follows(v, first, run, n)
      BY <1>2
  <2> DEFINE longer == [k \in 0..(n + 1) |-> IF k = n + 1 THEN Further(v, run[n]) ELSE run[k]]
  <2>2. ASSUME NEW k \in 0..(n + 1)
        PROVE  longer[k] = IF k = 0 THEN <<first>> ELSE Further(v, longer[k - 1])
    <3>1. CASE k = n + 1
        BY <3>1
    <3>2. CASE k # n + 1
      <4>1. k \in 0..n /\ longer[k] = run[k]
          BY <3>2
      <4>2. run[k] = IF k = 0 THEN <<first>> ELSE Further(v, run[k - 1])
          BY <2>1, <4>1 DEF Follows
      <4>3. k # 0 => longer[k - 1] = run[k - 1]
          BY <4>1
      <4> QED
          BY <4>1, <4>2, <4>3
    <3> QED
        BY <3>1, <3>2
  <2>3. Follows(v, first, longer, n + 1)
    <3> HIDE DEF longer
    <3>1. longer = [k \in 0..(n + 1) |-> longer[k]]
        BY DEF longer
    <3> QED
        BY <2>2, <3>1 DEF Follows
  <2> QED
      BY <2>3
<1> HIDE DEF S
<1>3. \A n \in Nat : n \in S
    BY <1>1, <1>2, SetInduction
<1> QED
    BY <1>3 DEF S

\* So a chain starts at its cluster and follows the links.
LEMMA ChainLinked ==
    ASSUME NEW v \in Volumes, NEW first \in ClusterNumbers
    PROVE  Linked(v, first, Chain(v, first))
<1> DEFINE run[k \in 0..Clusters] ==
             IF k = 0 THEN <<first>>
             ELSE LET chain == run[k - 1]
                      link  == v.fat[Last(chain)]
                  IN IF link = END THEN chain ELSE Append(chain, link)
<1>1. Chain(v, first) = run[Clusters]
    BY DEF Chain
<1>2. Follows(v, first, run, Clusters)
  <2>1. \E f : f = [k \in 0..Clusters |->
                      IF k = 0 THEN <<first>>
                      ELSE LET chain == f[k - 1]
                               link  == v.fat[Last(chain)]
                           IN IF link = END THEN chain ELSE Append(chain, link)]
    <3>1. PICK f : Follows(v, first, f, Clusters)
        BY VolumeIs, RunExists
    <3>2. f = [k \in 0..Clusters |->
                  IF k = 0 THEN <<first>>
                  ELSE LET chain == f[k - 1]
                           link  == v.fat[Last(chain)]
                       IN IF link = END THEN chain ELSE Append(chain, link)]
        BY <3>1 DEF Follows, Further
    <3> QED
        BY <3>2
  <2> QED
      BY <2>1 DEF Follows, Further
<1> HIDE DEF run
<1> DEFINE S == {k \in Nat : k <= Clusters => Linked(v, first, run[k])}
<1>3. 0 \in S
  <2>1. run[0] = <<first>>
      BY <1>2, VolumeIs DEF Follows
  <2>2. first \in 0..(Clusters + 1)
      BY VolumeIs DEF ClusterNumbers
  <2>3. <<first>> \in Seq(0..(Clusters + 1)) /\ <<first>> # << >> /\ Len(<<first>>) = 1
      BY <2>2
  <2>4. Linked(v, first, <<first>>)
      BY <2>3 DEF Linked
  <2> QED
      BY <2>1, <2>4
<1>4. ASSUME NEW k \in Nat, k \in S PROVE k + 1 \in S
  <2> SUFFICES ASSUME k + 1 <= Clusters PROVE Linked(v, first, run[k + 1])
      OBVIOUS
  <2>1. Linked(v, first, run[k]) /\ k + 1 \in 0..Clusters /\ k + 1 # 0 /\ (k + 1) - 1 = k
      BY <1>4, VolumeIs
  <2>2. run[k + 1] = Further(v, run[k])
      BY <1>2, <2>1 DEF Follows
  <2> QED
      BY <2>1, <2>2, FurtherLinked
<1> HIDE DEF S
<1>5. Clusters \in S
    BY <1>3, <1>4, SetInduction, VolumeIs
<1> QED
    BY <1>1, <1>5, VolumeIs DEF S
-----------------------------------------------------------------------------
(* Directories *)

\* What the model assumes of a directory.
LEMMA DirectoryIs ==
    ASSUME NEW v \in Volumes, NEW c \in Directories(v)
    PROVE  /\ c \in ClusterNumbers
           /\ WholeSets(v, c)
           /\ Subdirectories(v, c) \subseteq Directories(v)
BY DirectoriesAssumption

\* The chain of a directory, with the end mark behind its last cluster.
LEMMA ChainIs ==
    ASSUME NEW v \in Volumes, NEW c \in Directories(v)
    PROVE  LET chain == Chain(v, c)
               len   == Len(chain)
           IN /\ len \in Nat \ {0} /\ DOMAIN chain = 1..len
              /\ chain[1] = c
              /\ \A j \in 1..len : chain[j] \in ClusterNumbers
              /\ \A j \in 1..len : j # len => v.fat[chain[j]] = chain[j + 1]
              /\ v.fat[chain[len]] = END
<1> DEFINE chain == Chain(v, c)
           len   == Len(chain)
<1>1. Linked(v, c, chain)
    BY DirectoryIs, ChainLinked
<1>2. chain \in Seq(0..(Clusters + 1)) /\ chain # << >>
    BY <1>1 DEF Linked
<1>3. len \in Nat \ {0} /\ DOMAIN chain = 1..len
    BY <1>2, EmptySeq, LenProperties
<1>4. WholeSets(v, c)
    BY DirectoryIs
<1>5. /\ Range(chain) \subseteq ClusterNumbers
      /\ v.fat[Last(chain)] = END
    BY <1>4 DEF WholeSets
<1>6. v.fat[chain[len]] = END
    BY <1>5 DEF Last
<1>7. chain[1] = c /\ \A j \in 1..(len - 1) : v.fat[chain[j]] = chain[j + 1]
    BY <1>1 DEF Linked
<1> HIDE DEF chain, len
<1>8. \A j \in 1..len : chain[j] \in ClusterNumbers
    BY <1>3, <1>5 DEF Range
<1>9. \A j \in 1..len : j # len => v.fat[chain[j]] = chain[j + 1]
    BY <1>3, <1>7
<1> QED
    BY <1>3, <1>6, <1>7, <1>8, <1>9 DEF chain, len

\* Counting by clusters, of slots or of units.
LEMMA PlaceIs ==
    ASSUME NEW size \in Nat \ {0}, NEW q \in Nat, NEW p \in 0..(size - 1)
    PROVE  (q * size + p) \div size = q /\ (q * size + p) % size = p
<1> DEFINE n == q * size + p
           d == n \div size
           r == n % size
<1>1. n \in Nat
    OBVIOUS
<1>2. d \in Nat /\ r \in 0..(size - 1) /\ n = d * size + r
    BY <1>1
<1>3. q * size + p = d * size + r
    BY <1>2
<1> HIDE DEF n, d, r
<1>4. ASSUME d > q PROVE FALSE
  <2>1. d * size >= (q + 1) * size /\ (q + 1) * size = q * size + size
      BY <1>1, <1>2, <1>4
  <2> QED
      BY <1>1, <1>2, <1>3, <2>1
<1>5. ASSUME d < q PROVE FALSE
  <2>1. q * size >= (d + 1) * size /\ (d + 1) * size = d * size + size
      BY <1>1, <1>2, <1>5
  <2> QED
      BY <1>1, <1>2, <1>3, <2>1
<1>6. d = q /\ r = p
    BY <1>1, <1>2, <1>3, <1>4, <1>5
<1> QED
    BY <1>6 DEF n, d, r

\* The slots of a cluster.
LEMMA SlotsOfCluster ==
    ASSUME NEW v \in Volumes, NEW c \in ClusterNumbers, NEW p \in 0..(Slots - 1)
    PROVE  v.heap[(c - 2) * Slots + p] \in Entries
<1>1. Clusters \in Nat /\ Slots \in Nat \ {0} /\ c - 2 \in 0..(Clusters - 1)
    BY VolumeIs DEF ClusterNumbers
<1>2. (c - 2) * Slots \in Nat
    BY <1>1
<1>3. (c - 2) * Slots <= (Clusters - 1) * Slots
    BY <1>1
<1>4. (Clusters - 1) * Slots = Slots * Clusters - Slots
    BY <1>1
<1>5. (c - 2) * Slots + p \in 0..(Slots * Clusters - 1)
    BY <1>1, <1>2, <1>3, <1>4
<1> QED
    BY <1>5, VolumeIs

\* What the slots of a directory are, counted from its start.
LEMMA FlatIs ==
    ASSUME NEW v \in Volumes, NEW c \in Directories(v), NEW j \in 1..Len(Chain(v, c)),
           NEW p \in 0..(Slots - 1)
    PROVE  LET n == (j - 1) * Slots + p
           IN /\ n \in DOMAIN Flat(v, c)
              /\ Flat(v, c)[n] = v.heap[(Chain(v, c)[j] - 2) * Slots + p]
              /\ Flat(v, c)[n] \in Entries
<1> DEFINE len == Len(Chain(v, c))
           n == (j - 1) * Slots + p
<1>1. len \in Nat \ {0} /\ Slots \in Nat \ {0} /\ Chain(v, c)[j] \in ClusterNumbers
    BY ChainIs, SizeAssumption
<1>2. j - 1 \in Nat /\ n \div Slots = j - 1 /\ n % Slots = p
  <2>1. j - 1 \in Nat
      BY <1>1
  <2> QED
      BY <1>1, <2>1, PlaceIs
<1>3. n \in 0..(len * Slots - 1)
  <2>1. (j - 1) * Slots <= (len - 1) * Slots /\ (len - 1) * Slots = len * Slots - Slots
        /\ (j - 1) * Slots \in Nat
      BY <1>1
  <2> QED
      BY <1>1, <2>1
<1> HIDE DEF n, len
<1>4. DOMAIN Flat(v, c) = 0..(len * Slots - 1)
      /\ Flat(v, c)[n] = v.heap[(Chain(v, c)[n \div Slots + 1] - 2) * Slots + (n % Slots)]
    BY <1>3 DEF Flat, len
<1>5. n \div Slots + 1 = j
    BY <1>2
<1>6. Flat(v, c)[n] = v.heap[(Chain(v, c)[j] - 2) * Slots + p]
    BY <1>2, <1>4, <1>5
<1> QED
    BY <1>1, <1>3, <1>4, <1>6, SlotsOfCluster DEF n
-----------------------------------------------------------------------------
(* list and get: a call and its directory *)

\* What the locals of a call can be.
EntrySets == [attribute : Attributes, count : Nat, first : ClusterNumbers \cup {0},
              length : Nat, name : Seq(Pieces)]
Frames == [at : {"file", "stream", "name", "loop", "copy"}, index : ClusterNumbers,
           position : Nat,
           tmp : ClusterNumbers \cup {0, END}, has_next : BOOLEAN, set : EntrySets]

\* The call f has read n slots of a directory: it is in the cluster of the chain
\* that n leads to, and knows the link behind it.  It stays behind a cluster
\* that it has read only if there is no other.
HasRead(v, f, first, n) ==
    \E j \in DOMAIN Chain(v, first) :
      /\ f.index = Chain(v, first)[j]
      /\ f.tmp = v.fat[f.index]
      /\ f.has_next <=> f.tmp # END
      /\ f.position <= Slots
      /\ f.position = Slots => ~ f.has_next
      /\ n = (j - 1) * Slots + f.position

\* No entry set starts in the slots from m up to n.
Quiet(flat, m, n) == \A k \in m..(n - 1) : ~ Starts(flat, k)

\* The first set from slot m on starts at slot s; there is none.
FirstSet(flat, m, s) == s \in DOMAIN flat /\ m <= s /\ Starts(flat, s) /\ Quiet(flat, m, s)
NoSetFrom(flat, m) == \A s \in DOMAIN flat : m <= s => ~ Starts(flat, s)

\* The call has come to the first set from slot m on, which starts at slot s.
\* It knows the file entry, behind the stream also that, and the names it has read.
Knows(f, flat, m, s) ==
    /\ FirstSet(flat, m, s)
    /\ f.set.attribute = flat[s].attribute
    /\ f.set.count = flat[s].secondary_count /\ f.set.count >= 2
    /\ f.at \in {"name", "copy"} =>
         /\ f.set.first = flat[s + 1].first_cluster
         /\ f.set.length = flat[s + 1].data_length
         /\ \A k \in 1..Len(f.set.name) : f.set.name[k] = flat[s + 1 + k].chars

\* A call has dealt with the sets that start before slot m, read n slots, and met
\* no end entry.  It tests for one in a slot of the chain; within a set it is
\* where the number of names it has read says, and it copies a file only when
\* it has read them all.
PhaseOK(f, flat, m, n) ==
    /\ \A k \in 0..(n - 1) : flat[k].type # "end"
    /\ f.at = "file" => f.position < Slots
    /\ f.at \in {"file", "loop"} => m <= n /\ Quiet(flat, m, n)
    /\ f.at = "stream" => f.set.name = << >> /\ Knows(f, flat, m, n - 1)
    /\ f.at \in {"name", "copy"} =>
         Len(f.set.name) < f.set.count /\ Knows(f, flat, m, n - 2 - Len(f.set.name))
    /\ f.at = "copy" => ~ NamesLeft(f.set)

CallAt(v, f, first, m) ==
    \E n \in 0..(Len(Chain(v, first)) * Slots) :
      HasRead(v, f, first, n) /\ PhaseOK(f, Flat(v, first), m, n)

\* What the calls s on a volume have come to: each walks a directory, which the
\* call below it has found, and waits in the middle of its loop while a call
\* above it walks.  It has dealt with the sets up to a slot.
Walks(v) == Seq([dir : Directories(v), dealt : Nat])

WalkOf(v, s, a) ==
    /\ s \in Seq(Frames) /\ a \in Walks(v) /\ Len(a) = Len(s)
    /\ s # << >> => a[1].dir = v.root
    /\ \A k \in 1..Len(s) : CallAt(v, s[k], a[k].dir, a[k].dealt)
    /\ \A k \in 1..(Len(s) - 1) : s[k].at = "loop" /\ s[k].set.first = a[k + 1].dir

WalkInv == vol \in Volumes /\ \E a : WalkOf(vol, stack, a)


\* The slot at a call's place is the slot of the directory that it has come to.
LEMMA SlotIs ==
    ASSUME vol \in Volumes, NEW c \in Directories(vol), NEW f \in Frames, NEW n \in Nat,
           HasRead(vol, f, c, n), f.position < Slots
    PROVE  /\ n \in DOMAIN Flat(vol, c)
           /\ Slot(f) = Flat(vol, c)[n] /\ Slot(f) \in Entries
<1>1. PICK j \in DOMAIN Chain(vol, c) : f.index = Chain(vol, c)[j] /\ n = (j - 1) * Slots + f.position
    BY DEF HasRead, fat
<1>2. j \in 1..Len(Chain(vol, c)) /\ f.position \in 0..(Slots - 1)
    BY ChainIs, SizeAssumption DEF Frames
<1> QED
    BY <1>1, <1>2, FlatIs DEF Slot

\* Where in the chain a call is that has read n slots, and what it knows there.
LEMMA ReadIs ==
    ASSUME vol \in Volumes, NEW c \in Directories(vol), NEW f \in Frames, NEW n, HasRead(vol, f, c, n)
    PROVE  \E len \in Nat \ {0} : \E j \in 1..len :
             /\ len = Len(Chain(vol, c)) /\ DOMAIN Chain(vol, c) = 1..len
             /\ n = (j - 1) * Slots + f.position
             /\ (j - 1) * Slots \in Nat /\ (j - 1) * Slots + Slots <= len * Slots
             /\ f.index = Chain(vol, c)[j] /\ f.position \in 0..Slots
             /\ f.position = Slots => ~ f.has_next
             /\ f.has_next <=> j # len
             /\ j # len => /\ f.tmp = Chain(vol, c)[j + 1] /\ f.tmp \in ClusterNumbers
                           /\ fat[f.tmp] \in ClusterNumbers \cup {0, END}
<1> DEFINE chain == Chain(vol, c)
           len   == Len(chain)
<1>1. PICK j \in DOMAIN chain :
        /\ f.index = chain[j] /\ f.tmp = fat[f.index] /\ (f.has_next <=> f.tmp # END)
        /\ f.position <= Slots /\ (f.position = Slots => ~ f.has_next)
        /\ n = (j - 1) * Slots + f.position
    BY DEF HasRead, fat
<1>2. /\ len \in Nat \ {0} /\ DOMAIN chain = 1..len
      /\ \A k \in 1..len : chain[k] \in ClusterNumbers
      /\ \A k \in 1..len : k # len => fat[chain[k]] = chain[k + 1]
      /\ fat[chain[len]] = END
    BY ChainIs DEF fat
<1>3. /\ Slots \in Nat \ {0} /\ f.position \in Nat
      /\ \A k \in ClusterNumbers : k # END /\ fat[k] \in ClusterNumbers \cup {0, END}
    BY VolumeIs DEF fat, ClusterNumbers, Frames
<1> HIDE DEF chain, len
<1>4. j \in 1..len
    BY <1>1, <1>2
<1>5. (j - 1) * Slots \in Nat /\ (j - 1) * Slots + Slots <= len * Slots
  <2>1. j - 1 \in Nat /\ j <= len
      BY <1>2, <1>4
  <2>2. (j - 1) * Slots \in Nat /\ (j - 1) * Slots + Slots = j * Slots /\ j * Slots <= len * Slots
      BY <1>2, <1>3, <2>1
  <2> QED
      BY <2>2
<1>6. j # len => j + 1 \in 1..len /\ f.tmp = chain[j + 1] /\ f.tmp \in ClusterNumbers
    BY <1>1, <1>2, <1>4
<1>7. f.has_next <=> j # len
    BY <1>1, <1>2, <1>3, <1>6
<1>8. /\ n = (j - 1) * Slots + f.position
      /\ f.index = chain[j] /\ f.position \in 0..Slots
      /\ f.position = Slots => ~ f.has_next
      /\ j # len => /\ f.tmp = chain[j + 1] /\ f.tmp \in ClusterNumbers
                    /\ fat[f.tmp] \in ClusterNumbers \cup {0, END}
    BY <1>1, <1>3, <1>6
<1> QED
    BY <1>2, <1>4, <1>5, <1>7, <1>8 DEF chain, len

\* Advance goes on to the next slot of the directory.
LEMMA AdvanceIs ==
    ASSUME vol \in Volumes, NEW c \in Directories(vol), NEW f \in Frames, NEW n \in Nat,
           HasRead(vol, f, c, n), f.position < Slots
    PROVE  /\ Advance(f) \in Frames /\ HasRead(vol, Advance(f), c, n + 1)
           /\ Advance(f).at = f.at /\ Advance(f).set = f.set
           /\ n + 1 \in 0..(Len(Chain(vol, c)) * Slots)
<1> DEFINE g == Advance(f)
<1>1. PICK len \in Nat \ {0} : \E j \in 1..len :
        /\ len = Len(Chain(vol, c)) /\ DOMAIN Chain(vol, c) = 1..len
        /\ n = (j - 1) * Slots + f.position
        /\ (j - 1) * Slots \in Nat /\ (j - 1) * Slots + Slots <= len * Slots
        /\ f.index = Chain(vol, c)[j] /\ f.position \in 0..Slots
        /\ f.has_next <=> j # len
        /\ j # len => /\ f.tmp = Chain(vol, c)[j + 1] /\ f.tmp \in ClusterNumbers
                      /\ fat[f.tmp] \in ClusterNumbers \cup {0, END}
    BY ReadIs
<1>2. PICK j \in 1..len :
        /\ n = (j - 1) * Slots + f.position
        /\ (j - 1) * Slots \in Nat /\ (j - 1) * Slots + Slots <= len * Slots
        /\ f.index = Chain(vol, c)[j]
        /\ f.has_next <=> j # len
        /\ j # len => /\ f.tmp = Chain(vol, c)[j + 1] /\ f.tmp \in ClusterNumbers
                      /\ fat[f.tmp] \in ClusterNumbers \cup {0, END}
    BY <1>1
<1>3. Slots \in Nat \ {0} /\ f.position \in Nat /\ f.position + 1 <= Slots
    BY SizeAssumption DEF Frames
<1>4. n + 1 \in 0..(len * Slots)
  <2>1. len * Slots \in Nat
      BY <1>3
  <2> QED
      BY <1>2, <1>3, <2>1
<1>5. f.tmp = fat[f.index] /\ (f.has_next <=> f.tmp # END)
    BY DEF HasRead, fat
<1>6. CASE f.position + 1 = Slots /\ f.has_next
  <2>1. g = [f EXCEPT !.index = f.tmp, !.tmp = fat[f.tmp], !.has_next = fat[f.tmp] # END, !.position = 0]
      BY <1>6 DEF Advance
  <2>2. /\ j + 1 \in 1..len /\ f.tmp = Chain(vol, c)[j + 1] /\ f.tmp \in ClusterNumbers
        /\ fat[f.tmp] \in ClusterNumbers \cup {0, END}
      BY <1>2, <1>6
  <2>3. /\ g.index = f.tmp /\ g.tmp = fat[f.tmp] /\ (g.has_next <=> fat[f.tmp] # END) /\ g.position = 0
        /\ g.at = f.at /\ g.set = f.set
      BY <2>1 DEF Frames
  <2>4. g \in Frames
    <3> DEFINE more == fat[f.tmp] # END
    <3>1. more \in BOOLEAN
        OBVIOUS
    <3>2. g = [f EXCEPT !.index = f.tmp, !.tmp = fat[f.tmp], !.has_next = more, !.position = 0]
        BY <2>1
    <3> HIDE DEF more, g
    <3> QED
        BY <2>2, <3>1, <3>2 DEF Frames
  <2>5. n + 1 = ((j + 1) - 1) * Slots + 0
    <3>1. (j - 1) * Slots = j * Slots - Slots /\ (j + 1) - 1 = j /\ j * Slots \in Nat
        BY <1>3
    <3> QED
        BY <1>2, <1>3, <1>6, <3>1
  <2>6. HasRead(vol, g, c, n + 1)
    <3>1. j + 1 \in DOMAIN Chain(vol, c) /\ 0 <= Slots /\ 0 # Slots
        BY <1>1, <1>3, <2>2
    <3> HIDE DEF g
    <3> QED
        BY <2>2, <2>3, <2>5, <3>1 DEF HasRead, fat
  <2> QED
      BY <1>1, <1>4, <2>3, <2>4, <2>6
<1>7. CASE ~ (f.position + 1 = Slots /\ f.has_next)
  <2>1. g = [f EXCEPT !.position = f.position + 1]
      BY <1>7 DEF Advance
  <2>2. /\ g.index = f.index /\ g.tmp = f.tmp /\ g.has_next = f.has_next /\ g.position = f.position + 1
        /\ g.at = f.at /\ g.set = f.set
      BY <2>1 DEF Frames
  <2>3. g \in Frames
      BY <1>3, <2>1 DEF Frames
  <2>4. n + 1 = (j - 1) * Slots + g.position
      BY <1>2, <1>3, <2>2
  <2>5. g.position <= Slots /\ (g.position = Slots => ~ g.has_next)
      BY <1>3, <1>7, <2>2
  <2>6. HasRead(vol, g, c, n + 1)
    <3>1. j \in DOMAIN Chain(vol, c)
        BY <1>1
    <3> HIDE DEF g
    <3> QED
        BY <1>2, <1>5, <2>2, <2>4, <2>5, <3>1 DEF HasRead, fat
  <2> QED
      BY <1>1, <1>4, <2>2, <2>3, <2>6
<1> QED
    BY <1>6, <1>7

\* A call that is not behind the last slot is in front of one, in the cluster
\* it is in.
LEMMA InsideOf ==
    ASSUME vol \in Volumes, NEW c \in Directories(vol), NEW f \in Frames, NEW n,
           HasRead(vol, f, c, n), n \in DOMAIN Flat(vol, c)
    PROVE  f.position < Slots
<1>1. PICK len \in Nat \ {0} : \E j \in 1..len :
        /\ len = Len(Chain(vol, c))
        /\ n = (j - 1) * Slots + f.position
        /\ (j - 1) * Slots \in Nat
        /\ f.position \in 0..Slots
        /\ f.position = Slots => ~ f.has_next
        /\ f.has_next <=> j # len
    BY ReadIs
<1>2. PICK j \in 1..len :
        /\ n = (j - 1) * Slots + f.position
        /\ f.position \in 0..Slots
        /\ f.position = Slots => j = len
    BY <1>1
<1>3. Slots \in Nat \ {0}
    BY SizeAssumption
<1>4. n \in 0..(len * Slots - 1)
    BY <1>1 DEF Flat
<1>5. SUFFICES ASSUME f.position = Slots PROVE FALSE
    BY <1>2, <1>3
<1>6. (len - 1) * Slots = len * Slots - Slots /\ len * Slots \in Nat
    BY <1>3
<1> QED
    BY <1>2, <1>3, <1>4, <1>5, <1>6
-----------------------------------------------------------------------------
(* list and get: what each step does to the call on top *)

\* Where a call is does not depend on what it is doing there.
LEMMA SamePlace ==
    ASSUME NEW v, NEW c, NEW n, NEW f, NEW g, HasRead(v, f, c, n),
           g.index = f.index, g.tmp = f.tmp, g.has_next = f.has_next, g.position = f.position
    PROVE  HasRead(v, g, c, n)
BY DEF HasRead

\* A directory as a sequence of slots.
LEMMA FlatDomain ==
    ASSUME vol \in Volumes, NEW c \in Directories(vol)
    PROVE  \E size \in Nat : size = Len(Chain(vol, c)) * Slots /\ DOMAIN Flat(vol, c) = 0..(size - 1)
<1>1. Len(Chain(vol, c)) * Slots \in Nat
    BY ChainIs, SizeAssumption
<1> QED
    BY <1>1 DEF Flat

\* A new call is in front of its directory.
LEMMA EnterOK ==
    ASSUME vol \in Volumes, NEW c \in Directories(vol)
    PROVE  Enter(vol, c) \in Frames /\ Enter(vol, c).at = "file" /\ CallAt(vol, Enter(vol, c), c, 0)
<1> DEFINE f == Enter(vol, c)
<1>1. /\ f.at = "file" /\ f.index = c /\ f.position = 0 /\ f.tmp = vol.fat[c]
      /\ f.has_next <=> vol.fat[c] # END
    BY DEF Enter
<1>2. c \in ClusterNumbers /\ vol.fat[c] \in ClusterNumbers \cup {0, END} /\ Slots \in Nat \ {0}
    BY DirectoryIs, VolumeIs DEF ClusterNumbers
<1>3. f \in Frames
  <2> DEFINE more == vol.fat[c] # END
  <2>1. more \in BOOLEAN /\ NoSet \in EntrySets
      BY DEF NoSet, EntrySets, Attributes
  <2>2. f = [at |-> "file", index |-> c, position |-> 0, tmp |-> vol.fat[c], has_next |-> more, set |-> NoSet]
      BY DEF Enter
  <2> HIDE DEF more, f
  <2> QED
      BY <1>2, <2>1, <2>2 DEF Frames
<1>4. 1 \in DOMAIN Chain(vol, c) /\ Chain(vol, c)[1] = c
    BY ChainIs
<1>5. 0 = (1 - 1) * Slots + f.position /\ f.position < Slots /\ f.position <= Slots
    BY <1>1, <1>2
<1> HIDE DEF f
<1>6. HasRead(vol, f, c, 0)
    BY <1>1, <1>4, <1>5 DEF HasRead
<1>7. PhaseOK(f, Flat(vol, c), 0, 0)
    BY <1>1, <1>5 DEF PhaseOK, Quiet
<1>8. 0 \in 0..(Len(Chain(vol, c)) * Slots)
    BY FlatDomain
<1> QED
    BY <1>1, <1>3, <1>6, <1>7, <1>8 DEF CallAt, f

\* A step within the directory that reads a slot, which is no end entry.
LEMMA SlotRead ==
    ASSUME vol \in Volumes, NEW c \in Directories(vol), NEW f \in Frames, NEW n \in Nat, NEW m,
           HasRead(vol, f, c, n), PhaseOK(f, Flat(vol, c), m, n), f.position < Slots,
           Slot(f).type # "end",
           NEW g, g.index = Advance(f).index, g.tmp = Advance(f).tmp,
           g.has_next = Advance(f).has_next, g.position = Advance(f).position,
           g.at \in {"loop", "stream", "name"},
           g.at = "loop" => m <= n + 1 /\ Quiet(Flat(vol, c), m, n + 1),
           g.at = "stream" => g.set.name = << >> /\ Knows(g, Flat(vol, c), m, n),
           g.at = "name" => Len(g.set.name) < g.set.count
                            /\ Knows(g, Flat(vol, c), m, n - 1 - Len(g.set.name))
    PROVE  CallAt(vol, g, c, m)
<1>1. HasRead(vol, Advance(f), c, n + 1) /\ n + 1 \in 0..(Len(Chain(vol, c)) * Slots)
    BY AdvanceIs
<1>2. HasRead(vol, g, c, n + 1)
    BY <1>1, SamePlace
<1>3. \A k \in 0..((n + 1) - 1) : Flat(vol, c)[k].type # "end"
  <2>1. Flat(vol, c)[n].type # "end"
      BY SlotIs
  <2>2. \A k \in 0..(n - 1) : Flat(vol, c)[k].type # "end"
      BY DEF PhaseOK
  <2>3. \A k \in 0..((n + 1) - 1) : k = n \/ k \in 0..(n - 1)
      OBVIOUS
  <2> QED
      BY <2>1, <2>2, <2>3
<1>4. (n + 1) - 1 = n
    OBVIOUS
<1>5. g.at = "name" => Knows(g, Flat(vol, c), m, (n + 1) - 2 - Len(g.set.name))
  <2>1. (n + 1) - 2 = n - 1
      OBVIOUS
  <2> QED
      BY <2>1
<1>6. PhaseOK(g, Flat(vol, c), m, n + 1)
    BY <1>3, <1>4, <1>5 DEF PhaseOK
<1> QED
    BY <1>1, <1>2, <1>6 DEF CallAt

\* A file entry starts a set.
LEMMA FileRead ==
    ASSUME vol \in Volumes, NEW c \in Directories(vol), NEW f \in Frames, NEW m \in Nat,
           CallAt(vol, f, c, m), f.at = "file", Slot(f).type = "file"
    PROVE  LET g == [Advance(f) EXCEPT
                       !.at = "stream",
                       !.set = [NoSet EXCEPT !.attribute = Slot(f).attribute,
                                             !.count = Slot(f).secondary_count]]
           IN g \in Frames /\ g.at = "stream" /\ CallAt(vol, g, c, m)
<1> DEFINE set == [NoSet EXCEPT !.attribute = Slot(f).attribute, !.count = Slot(f).secondary_count]
           g == [Advance(f) EXCEPT !.at = "stream", !.set = set]
<1>1. PICK n \in Nat : HasRead(vol, f, c, n) /\ PhaseOK(f, Flat(vol, c), m, n)
    BY FlatDomain DEF CallAt
<1>2. f.position < Slots /\ m <= n /\ Quiet(Flat(vol, c), m, n)
    BY <1>1 DEF PhaseOK
<1>3. Slot(f) = Flat(vol, c)[n] /\ Slot(f) \in Entries /\ n \in DOMAIN Flat(vol, c)
    BY <1>1, <1>2, SlotIs
<1>4. Slot(f).attribute \in Attributes /\ Slot(f).secondary_count \in Nat \ {0, 1}
    BY <1>3 DEF Entries
<1>5. set \in EntrySets /\ set.attribute = Slot(f).attribute /\ set.count = Slot(f).secondary_count
      /\ set.name = << >>
  <2>1. NoSet \in EntrySets /\ NoSet.name = << >>
      BY DEF NoSet, EntrySets, Attributes
  <2> QED
      BY <1>4, <2>1 DEF EntrySets
<1>6. Advance(f) \in Frames
    BY <1>1, <1>2, AdvanceIs
<1> HIDE DEF set
<1>7. /\ g \in Frames
      /\ g.at = "stream" /\ g.set = set /\ g.index = Advance(f).index /\ g.tmp = Advance(f).tmp
      /\ g.has_next = Advance(f).has_next /\ g.position = Advance(f).position
    BY <1>5, <1>6 DEF Frames
<1>8. Starts(Flat(vol, c), n)
  <2>1. \A k \in 0..n : k = n \/ k \in 0..(n - 1)
      OBVIOUS
  <2> QED
      BY <1>1, <1>3, <2>1 DEF Starts, PhaseOK
<1> HIDE DEF g
<1>9. Knows(g, Flat(vol, c), m, n)
    BY <1>2, <1>3, <1>4, <1>5, <1>7, <1>8 DEF Knows, FirstSet
<1>10. CallAt(vol, g, c, m)
    BY <1>1, <1>2, <1>5, <1>7, <1>9, SlotRead
<1> QED
    BY <1>7, <1>10 DEF g, set

\* Another entry is skipped.
LEMMA OtherRead ==
    ASSUME vol \in Volumes, NEW c \in Directories(vol), NEW f \in Frames, NEW m \in Nat,
           CallAt(vol, f, c, m), f.at = "file", Slot(f).type \notin {"file", "end"}
    PROVE  LET g == [Advance(f) EXCEPT !.at = "loop"]
           IN g \in Frames /\ g.at = "loop" /\ CallAt(vol, g, c, m)
<1> DEFINE g == [Advance(f) EXCEPT !.at = "loop"]
<1>1. PICK n \in Nat : HasRead(vol, f, c, n) /\ PhaseOK(f, Flat(vol, c), m, n)
    BY FlatDomain DEF CallAt
<1>2. f.position < Slots /\ m <= n /\ Quiet(Flat(vol, c), m, n)
    BY <1>1 DEF PhaseOK
<1>3. Advance(f) \in Frames
    BY <1>1, <1>2, AdvanceIs
<1>4. /\ g \in Frames
      /\ g.at = "loop" /\ g.index = Advance(f).index /\ g.tmp = Advance(f).tmp
      /\ g.has_next = Advance(f).has_next /\ g.position = Advance(f).position
    BY <1>3 DEF Frames
<1> HIDE DEF g
<1>5. ~ Starts(Flat(vol, c), n)
    BY <1>1, <1>2, SlotIs DEF Starts
<1>6. m <= n + 1 /\ Quiet(Flat(vol, c), m, n + 1)
  <2>1. \A k \in m..((n + 1) - 1) : k = n \/ k \in m..(n - 1)
      OBVIOUS
  <2> QED
      BY <1>2, <1>5, <2>1 DEF Quiet
<1>7. CallAt(vol, g, c, m)
    BY <1>1, <1>2, <1>4, <1>6, SlotRead
<1> QED
    BY <1>4, <1>7 DEF g

\* At an end entry, and behind the last slot, no set is left.
LEMMA NoneLeft ==
    ASSUME vol \in Volumes, NEW c \in Directories(vol), NEW f \in Frames, NEW m \in Nat,
           CallAt(vol, f, c, m),
           (f.at = "file" /\ Slot(f).type = "end") \/ (f.at = "loop" /\ ~ GoesOn(f))
    PROVE  NoSetFrom(Flat(vol, c), m)
<1> DEFINE flat == Flat(vol, c)
<1>1. PICK n \in 0..(Len(Chain(vol, c)) * Slots) : HasRead(vol, f, c, n) /\ PhaseOK(f, flat, m, n)
    BY DEF CallAt
<1>2. PICK size \in Nat : size = Len(Chain(vol, c)) * Slots /\ DOMAIN flat = 0..(size - 1)
    BY FlatDomain
<1>3. n \in Nat /\ Quiet(flat, m, n)
    BY <1>1, <1>2 DEF PhaseOK
<1>4. CASE f.at = "file" /\ Slot(f).type = "end"
  <2>1. flat[n].type = "end"
      BY <1>1, <1>3, <1>4, SlotIs DEF PhaseOK
  <2> HIDE DEF flat
  <2>2. ASSUME NEW s \in DOMAIN flat, m <= s PROVE ~ Starts(flat, s)
    <3>1. s \in Nat
        BY <1>2
    <3>2. CASE s < n
        BY <1>3, <2>2, <3>1, <3>2 DEF Quiet
    <3>3. CASE n <= s
      <4>1. n \in 0..s
          BY <1>3, <3>1, <3>3
      <4> QED
          BY <2>1, <4>1 DEF Starts
    <3> QED
        BY <1>3, <3>1, <3>2, <3>3
  <2> QED
      BY <2>2 DEF NoSetFrom, flat
<1>5. CASE f.at = "loop" /\ ~ GoesOn(f)
  <2>1. PICK len \in Nat \ {0} : \E j \in 1..len :
          /\ len = Len(Chain(vol, c))
          /\ n = (j - 1) * Slots + f.position
          /\ f.position \in 0..Slots
          /\ f.has_next <=> j # len
      BY <1>1, ReadIs
  <2>2. f.position >= Slots /\ ~ f.has_next
      BY <1>5, SizeAssumption DEF GoesOn, Frames
  <2>3. n = (len - 1) * Slots + Slots
      BY <2>1, <2>2, SizeAssumption
  <2>4. (len - 1) * Slots + Slots = len * Slots
      BY SizeAssumption
  <2>5. n = size
      BY <1>2, <2>1, <2>3, <2>4
  <2> HIDE DEF flat
  <2> QED
    <3>1. ASSUME NEW s \in DOMAIN flat, m <= s PROVE ~ Starts(flat, s)
        BY <1>2, <1>3, <2>5, <3>1 DEF Quiet
    <3> QED
        BY <3>1 DEF NoSetFrom, flat
<1> QED
    BY <1>4, <1>5

\* The slots that belong to a set.
LEMMA SetIs ==
    ASSUME vol \in Volumes, NEW c \in Directories(vol), NEW s \in DOMAIN Flat(vol, c),
           Starts(Flat(vol, c), s)
    PROVE  /\ s + Flat(vol, c)[s].secondary_count \in DOMAIN Flat(vol, c)
           /\ Flat(vol, c)[s + 1].type = "stream"
           /\ \A k \in 2..Flat(vol, c)[s].secondary_count : Flat(vol, c)[s + k].type = "name"
BY DirectoryIs DEF WholeSets

\* A call within a set is in front of a slot of that set.
LEMMA WithinSet ==
    ASSUME vol \in Volumes, NEW c \in Directories(vol), NEW f \in Frames, NEW n \in Nat,
           HasRead(vol, f, c, n), NEW m, NEW s, Knows(f, Flat(vol, c), m, s), NEW k \in Nat,
           n = s + k, 1 <= k, k <= f.set.count
    PROVE  /\ f.position < Slots
           /\ Slot(f) = Flat(vol, c)[s + k] /\ Slot(f) \in Entries
           /\ Slot(f).type = IF k = 1 THEN "stream" ELSE "name"
<1>1. PICK size \in Nat : DOMAIN Flat(vol, c) = 0..(size - 1)
    BY FlatDomain
<1>2. /\ s \in 0..(size - 1) /\ Starts(Flat(vol, c), s)
      /\ f.set.count = Flat(vol, c)[s].secondary_count
    BY <1>1 DEF Knows, FirstSet
<1>3. f.set.count \in Nat
    BY DEF Frames, EntrySets
<1>4. /\ s + f.set.count \in 0..(size - 1)
      /\ Flat(vol, c)[s + 1].type = "stream"
      /\ \A q \in 2..f.set.count : Flat(vol, c)[s + q].type = "name"
    BY <1>1, <1>2, SetIs
<1>5. n \in DOMAIN Flat(vol, c)
    BY <1>1, <1>2, <1>3, <1>4
<1>6. f.position < Slots
    BY <1>5, InsideOf
<1>7. Slot(f) = Flat(vol, c)[s + k] /\ Slot(f) \in Entries
    BY <1>6, SlotIs
<1>8. k # 1 => k \in 2..f.set.count
    BY <1>3
<1> QED
    BY <1>4, <1>6, <1>7, <1>8

\* The stream follows the file entry.
LEMMA StreamRead ==
    ASSUME vol \in Volumes, NEW c \in Directories(vol), NEW f \in Frames, NEW m \in Nat,
           CallAt(vol, f, c, m), f.at = "stream"
    PROVE  LET g == [Advance(f) EXCEPT !.at = "name", !.set.first = Slot(f).first_cluster,
                                       !.set.length = Slot(f).data_length]
           IN f.position < Slots /\ g \in Frames /\ g.at = "name" /\ CallAt(vol, g, c, m)
<1> DEFINE g == [Advance(f) EXCEPT !.at = "name", !.set.first = Slot(f).first_cluster,
                                   !.set.length = Slot(f).data_length]
           flat == Flat(vol, c)
<1>1. PICK n \in Nat : HasRead(vol, f, c, n) /\ PhaseOK(f, flat, m, n)
    BY FlatDomain DEF CallAt
<1>2. f.set.name = << >> /\ Knows(f, flat, m, n - 1)
    BY <1>1 DEF PhaseOK
<1>3. f.set.count >= 2 /\ f.set.count \in Nat /\ f.set \in EntrySets
    BY <1>2 DEF Knows, Frames, EntrySets
<1>4. /\ f.position < Slots
      /\ Slot(f) = flat[(n - 1) + 1] /\ Slot(f) \in Entries /\ Slot(f).type = "stream"
  <2>1. n = (n - 1) + 1
      OBVIOUS
  <2> QED
      BY <1>1, <1>2, <1>3, <2>1, WithinSet
<1>5. Slot(f).first_cluster \in ClusterNumbers \cup {0} /\ Slot(f).data_length \in Nat
    BY <1>4 DEF Entries
<1>6. Advance(f) \in Frames /\ Advance(f).set = f.set
    BY <1>1, <1>4, AdvanceIs
<1>7. /\ g.at = "name" /\ g.index = Advance(f).index /\ g.tmp = Advance(f).tmp
      /\ g.has_next = Advance(f).has_next /\ g.position = Advance(f).position
      /\ g.set = [f.set EXCEPT !.first = Slot(f).first_cluster, !.length = Slot(f).data_length]
    BY <1>6 DEF Frames, EntrySets
<1>8. /\ g.set \in EntrySets
      /\ g.set.attribute = f.set.attribute /\ g.set.count = f.set.count
      /\ g.set.first = Slot(f).first_cluster /\ g.set.length = Slot(f).data_length
      /\ g.set.name = << >>
  <2> HIDE DEF g
  <2> QED
      BY <1>2, <1>3, <1>5, <1>7 DEF EntrySets
<1>9. g \in Frames
    BY <1>6, <1>8 DEF Frames
<1> HIDE DEF g
<1>10. Knows(g, flat, m, n - 1)
    BY <1>2, <1>4, <1>8 DEF Knows
<1>11. Len(g.set.name) = 0 /\ Len(g.set.name) < g.set.count /\ n - 1 - Len(g.set.name) = n - 1
    BY <1>3, <1>8
<1>12. CallAt(vol, g, c, m)
    BY <1>1, <1>4, <1>7, <1>10, <1>11, SlotRead
<1> QED
    BY <1>4, <1>7, <1>9, <1>12 DEF g

\* A name entry adds a piece to the name.
LEMMA NameRead ==
    ASSUME vol \in Volumes, NEW c \in Directories(vol), NEW f \in Frames, NEW m \in Nat,
           CallAt(vol, f, c, m), f.at = "name", NamesLeft(f.set)
    PROVE  LET g == [Advance(f) EXCEPT !.set.name = Append(@, Slot(f).chars)]
           IN f.position < Slots /\ g \in Frames /\ g.at = "name" /\ CallAt(vol, g, c, m)
<1> DEFINE g == [Advance(f) EXCEPT !.set.name = Append(@, Slot(f).chars)]
           flat == Flat(vol, c)
           got == Len(f.set.name)
<1>1. PICK n \in Nat : HasRead(vol, f, c, n) /\ PhaseOK(f, flat, m, n)
    BY FlatDomain DEF CallAt
<1>2. Knows(f, flat, m, n - 2 - got)
    BY <1>1 DEF PhaseOK
<1>3. /\ f.set.count \in Nat /\ f.set \in EntrySets /\ f.set.name \in Seq(Pieces) /\ got \in Nat
      /\ got < f.set.count - 1
    BY DEF NamesLeft, Frames, EntrySets
<1>4. /\ f.position < Slots /\ Slot(f) \in Entries /\ Slot(f).type = "name" /\ Slot(f) = flat[n]
  <2>1. PICK s : s = n - 2 - got
      OBVIOUS
  <2>2. PICK q \in Nat : q = got + 2
      BY <1>3
  <2>3. n = s + q /\ 1 <= q /\ q <= f.set.count /\ q # 1
      BY <1>3, <2>1, <2>2, SMTT(30)
  <2> HIDE DEF got
  <2> QED
      BY <1>1, <1>2, <2>1, <2>3, WithinSet
<1>5. Slot(f).chars \in Pieces
    BY <1>4 DEF Entries
<1>6. Advance(f) \in Frames /\ Advance(f).set = f.set /\ Advance(f).at = "name"
    BY <1>1, <1>4, AdvanceIs
<1>7. /\ g.at = "name" /\ g.index = Advance(f).index /\ g.tmp = Advance(f).tmp
      /\ g.has_next = Advance(f).has_next /\ g.position = Advance(f).position
      /\ g.set = [f.set EXCEPT !.name = Append(f.set.name, Slot(f).chars)]
    BY <1>6 DEF Frames, EntrySets
<1>8. /\ Append(f.set.name, Slot(f).chars) \in Seq(Pieces)
      /\ Len(Append(f.set.name, Slot(f).chars)) = got + 1
      /\ Append(f.set.name, Slot(f).chars)[got + 1] = flat[n].chars
      /\ \A k \in 1..got : Append(f.set.name, Slot(f).chars)[k] = f.set.name[k]
    BY <1>3, <1>4, <1>5, AppendProperties
<1>9. /\ g.set \in EntrySets
      /\ g.set.attribute = f.set.attribute /\ g.set.count = f.set.count
      /\ g.set.first = f.set.first /\ g.set.length = f.set.length
      /\ g.set.name = Append(f.set.name, Slot(f).chars)
  <2> HIDE DEF g
  <2> QED
      BY <1>3, <1>7, <1>8 DEF EntrySets
<1>10. g \in Frames
    BY <1>6, <1>9 DEF Frames
<1> HIDE DEF g
<1>11. Len(g.set.name) = got + 1 /\ Len(g.set.name) < g.set.count
       /\ n - 1 - Len(g.set.name) = n - 2 - got
    BY <1>3, <1>8, <1>9
<1>12. Knows(g, flat, m, n - 1 - Len(g.set.name))
  <2> DEFINE s == n - 2 - got
  <2>1. ASSUME NEW k \in 1..Len(g.set.name) PROVE g.set.name[k] = flat[s + 1 + k].chars
    <3>1. CASE k = got + 1
      <4>1. s + 1 + k = n
          BY <1>3, <3>1
      <4> HIDE DEF flat
      <4> QED
          BY <1>8, <1>9, <3>1, <4>1
    <3>2. CASE k # got + 1
      <4>1. k \in 1..got
          BY <1>3, <1>11, <3>2
      <4> HIDE DEF flat
      <4> QED
          BY <1>2, <1>8, <1>9, <4>1 DEF Knows
    <3> QED
        BY <3>1, <3>2
  <2> HIDE DEF flat
  <2> QED
      BY <1>2, <1>9, <1>11, <2>1 DEF Knows
<1>13. CallAt(vol, g, c, m)
    BY <1>1, <1>4, <1>7, <1>11, <1>12, SlotRead
<1> QED
    BY <1>4, <1>7, <1>10, <1>13 DEF g

\* Where a call is stays the same when the loop goes on, and when the copying of
\* a file begins.
LEMMA MovesOn ==
    ASSUME vol \in Volumes, NEW c \in Directories(vol), NEW f \in Frames, NEW m \in Nat,
           CallAt(vol, f, c, m),
           NEW at \in {"file", "copy"},
           at = "file" => f.at = "loop" /\ GoesOn(f),
           at = "copy" => f.at = "name" /\ ~ NamesLeft(f.set)
    PROVE  LET g == [f EXCEPT !.at = at]
           IN g \in Frames /\ g.at = at /\ CallAt(vol, g, c, m) /\ g.set = f.set
<1> DEFINE g == [f EXCEPT !.at = at]
           flat == Flat(vol, c)
<1>1. PICK n \in 0..(Len(Chain(vol, c)) * Slots) : HasRead(vol, f, c, n) /\ PhaseOK(f, flat, m, n)
    BY DEF CallAt
<1>2. /\ g \in Frames /\ g.at = at /\ g.set = f.set /\ g.index = f.index /\ g.tmp = f.tmp
      /\ g.has_next = f.has_next /\ g.position = f.position
    BY DEF Frames
<1> HIDE DEF g, flat
<1>3. HasRead(vol, g, c, n)
    BY <1>1, <1>2, SamePlace
<1>4. f.position <= Slots /\ f.position \in Nat /\ (f.position = Slots => ~ f.has_next) /\ Slots \in Nat
    BY <1>1, SizeAssumption DEF HasRead, Frames
<1>5. at = "file" => g.position < Slots
    BY <1>2, <1>4 DEF GoesOn
<1>6. at = "copy" => Knows(g, flat, m, n - 2 - Len(g.set.name))
    BY <1>1, <1>2, ZenonT(60) DEF PhaseOK, Knows
<1>7. PhaseOK(g, flat, m, n)
    BY <1>1, <1>2, <1>5, <1>6 DEF PhaseOK
<1> QED
    BY <1>1, <1>2, <1>3, <1>7 DEF CallAt, g, flat

\* What a call has read of a set.
SetOf(f) == [attribute |-> f.set.attribute, name |-> f.set.name,
             first |-> f.set.first, length |-> f.set.length]

\* A call that has read a set has read the next of the sets of the directory, and
\* has dealt with that when it goes on behind it.
LEMMA SetIsRead ==
    ASSUME vol \in Volumes, NEW c \in Directories(vol), NEW f \in Frames, NEW m \in Nat,
           CallAt(vol, f, c, m), f.at \in {"name", "copy"}, ~ NamesLeft(f.set)
    PROVE  \E s \in Nat :
             /\ FirstSet(Flat(vol, c), m, s) /\ SetOf(f) = EntrySet(Flat(vol, c), s)
             /\ LET g == [f EXCEPT !.at = "loop"]
                IN g \in Frames /\ g.at = "loop" /\ g.set = f.set /\ CallAt(vol, g, c, s + 1)
<1> DEFINE g == [f EXCEPT !.at = "loop"]
           flat == Flat(vol, c)
           got == Len(f.set.name)
<1>1. PICK size \in Nat : size = Len(Chain(vol, c)) * Slots /\ DOMAIN flat = 0..(size - 1)
    BY FlatDomain
<1>2. PICK n \in Nat : n \in 0..size /\ HasRead(vol, f, c, n) /\ PhaseOK(f, flat, m, n)
    BY <1>1 DEF CallAt
<1>3. /\ f.set.count \in Nat /\ f.set \in EntrySets /\ f.set.name \in Seq(Pieces) /\ got \in Nat
      /\ got = f.set.count - 1
  <2>1. f.set.count \in Nat /\ f.set \in EntrySets /\ f.set.name \in Seq(Pieces) /\ got \in Nat
      BY DEF Frames, EntrySets
  <2>2. got < f.set.count
      BY <1>2 DEF PhaseOK
  <2>3. got >= f.set.count - 1
      BY <2>1 DEF NamesLeft
  <2> QED
      BY <2>1, <2>2, <2>3
<1> DEFINE s == n - 2 - got
<1>4. Knows(f, flat, m, s)
    BY <1>2 DEF PhaseOK
<1> HIDE DEF flat, got, s
<1>5. /\ s \in 0..(size - 1) /\ FirstSet(flat, m, s) /\ Starts(flat, s)
      /\ f.set.count = flat[s].secondary_count
    BY <1>1, <1>4 DEF Knows, FirstSet
<1>6. /\ flat[s + 1].type = "stream"
      /\ \A k \in 2..f.set.count : flat[s + k].type = "name"
    BY <1>1, <1>5, SetIs, SMTT(30) DEF flat
<1>7. SetOf(f) = EntrySet(flat, s)
  <2>1. f.set.name = [k \in 1..(flat[s].secondary_count - 1) |-> flat[s + 1 + k].chars]
    <3>1. f.set.name = [k \in 1..got |-> f.set.name[k]]
        BY <1>3 DEF got
    <3>2. \A k \in 1..got : f.set.name[k] = flat[s + 1 + k].chars
        BY <1>4 DEF Knows, got
    <3> QED
        BY <1>3, <1>5, <3>1, <3>2
  <2>2. f.set.attribute = flat[s].attribute /\ f.set.first = flat[s + 1].first_cluster
        /\ f.set.length = flat[s + 1].data_length
      BY <1>4 DEF Knows
  <2>3. EntrySet(flat, s) = [attribute |-> f.set.attribute, name |-> f.set.name,
                             first |-> f.set.first, length |-> f.set.length]
    <3> DEFINE name == [k \in 1..(flat[s].secondary_count - 1) |-> flat[s + 1 + k].chars]
    <3>1. EntrySet(flat, s) = [attribute |-> flat[s].attribute, name |-> name,
                               first |-> flat[s + 1].first_cluster,
                               length |-> flat[s + 1].data_length]
        BY DEF EntrySet
    <3>2. name = f.set.name
        BY <2>1
    <3> HIDE DEF name
    <3> QED
        BY <2>2, <3>1, <3>2
  <2> QED
      BY <2>3 DEF SetOf
<1>8. n = s + f.set.count + 1
  <2>1. PICK names \in Nat, count \in Nat : names = got /\ count = f.set.count /\ names = count - 1
      BY <1>3
  <2>2. s = n - 2 - names
      BY <2>1 DEF s
  <2> QED
      BY <2>1, <2>2
<1>9. s + 1 <= n /\ Quiet(flat, s + 1, n)
  <2>1. ASSUME NEW k \in (s + 1)..(n - 1) PROVE ~ Starts(flat, k)
    <3>1. k = s + 1 \/ (k - s \in 2..f.set.count /\ s + (k - s) = k)
        BY <1>3, <1>5, <1>8, SMTT(30)
    <3>2. flat[k].type \in {"stream", "name"}
        BY <1>6, <3>1
    <3> QED
        BY <3>2 DEF Starts
  <2> QED
      BY <1>3, <1>5, <1>8, <2>1 DEF Quiet
<1>10. /\ g \in Frames /\ g.at = "loop" /\ g.set = f.set /\ g.index = f.index /\ g.tmp = f.tmp
       /\ g.has_next = f.has_next /\ g.position = f.position
    BY DEF Frames
<1> HIDE DEF g
<1>11. HasRead(vol, g, c, n)
    BY <1>2, <1>10, SamePlace
<1>12. PhaseOK(g, flat, s + 1, n)
    BY <1>2, <1>9, <1>10 DEF PhaseOK
<1>13. CallAt(vol, g, c, s + 1)
    BY <1>2, <1>1, <1>11, <1>12 DEF CallAt, flat
<1> QED
    BY <1>5, <1>7, <1>10, <1>13 DEF flat, g
-----------------------------------------------------------------------------
(* list and get: the stack *)

\* A sequence without its last element.
LEMMA FrontIs ==
    ASSUME NEW S, NEW s \in Seq(S), s # << >>
    PROVE  /\ Front(s) \in Seq(S) /\ Len(Front(s)) = Len(s) - 1
           /\ \A k \in 1..(Len(s) - 1) : Front(s)[k] = s[k]
<1>1. PICK n \in Nat \ {0} : n = Len(s) /\ \A k \in 1..n : s[k] \in S
    BY EmptySeq, ElementOfSeq
<1>2. \A k \in 1..(n - 1) : s[k] \in S
    BY <1>1
<1>3. /\ SubSeq(s, 1, n - 1) \in Seq(S)
      /\ Len(SubSeq(s, 1, n - 1)) = n - 1
      /\ \A k \in 1..(n - 1) : SubSeq(s, 1, n - 1)[k] = s[k]
  <2>1. n - 1 \in Int /\ 1 \in Int
      BY <1>1
  <2>2. /\ SubSeq(s, 1, n - 1) \in Seq(S)
        /\ Len(SubSeq(s, 1, n - 1)) = IF 1 <= n - 1 THEN n - 1 - 1 + 1 ELSE 0
        /\ \A k \in 1..(n - 1 - 1 + 1) : SubSeq(s, 1, n - 1)[k] = s[1 + k - 1]
      BY <1>2, <2>1, SubSeqProperties
  <2>3. n - 1 - 1 + 1 = n - 1
      BY <1>1
  <2>4. \A k \in 1..(n - 1) : 1 + k - 1 = k
      OBVIOUS
  <2> QED
      BY <1>1, <2>2, <2>3, <2>4
<1> QED
    BY <1>1, <1>3 DEF Front

\* A sequence with another element in a place.
LEMMA ReplacedIs ==
    ASSUME NEW S, NEW s \in Seq(S), NEW n, n \in 1..Len(s), NEW e \in S
    PROVE  /\ [s EXCEPT ![n] = e] \in Seq(S) /\ Len([s EXCEPT ![n] = e]) = Len(s)
           /\ \A k \in 1..Len(s) : [s EXCEPT ![n] = e][k] = IF k = n THEN e ELSE s[k]
BY ExceptSeq

\* The call on top, and what it has come to.
LEMMA TopIs ==
    ASSUME NEW v, NEW s, NEW a, WalkOf(v, s, a), s # << >>
    PROVE  \E n \in Nat \ {0} :
             /\ n = Len(s) /\ n = Len(a) /\ n \in 1..n
             /\ s \in Seq(Frames) /\ a \in Walks(v)
             /\ \A k \in 1..n : s[k] \in Frames /\ a[k] \in [dir : Directories(v), dealt : Nat]
             /\ \A k \in 1..n : a[k].dir \in Directories(v) /\ a[k].dealt \in Nat
             /\ CallAt(v, s[n], a[n].dir, a[n].dealt)
<1>1. s \in Seq(Frames) /\ a \in Walks(v) /\ Len(a) = Len(s)
    BY DEF WalkOf
<1>2. PICK n \in Nat \ {0} : n = Len(s) /\ n \in 1..n
    BY <1>1, EmptySeq
<1>3. \A k \in 1..n : s[k] \in Frames
    BY <1>1, <1>2, ElementOfSeq
<1>4. \A k \in 1..n : a[k] \in [dir : Directories(v), dealt : Nat]
    BY <1>1, <1>2, ElementOfSeq DEF Walks
<1>5. \A k \in 1..n : a[k].dir \in Directories(v) /\ a[k].dealt \in Nat
    BY <1>4
<1>6. CallAt(v, s[n], a[n].dir, a[n].dealt)
    BY <1>2 DEF WalkOf
<1> QED
    BY <1>1, <1>2, <1>3, <1>4, <1>5, <1>6

\* The call on top has dealt with the sets up to a slot.
Dealt(a, m) == [a EXCEPT ![Len(a)] = [dir |-> a[Len(a)].dir, dealt |-> m]]

\* What that is: what is below the top does not change.
DealtTo(v, a, n, m, b) ==
    /\ b \in Walks(v) /\ Len(b) = n /\ b[n].dir = a[n].dir /\ b[n].dealt = m
    /\ \A k \in 1..(n - 1) : b[k] = a[k]
    /\ \A k \in 1..n : b[k].dir = a[k].dir

\* The call on top dealt with the slots, and those below with what they had.
LEMMA DealtIsTo ==
    ASSUME NEW v, NEW a \in Walks(v), NEW n \in Nat \ {0}, n = Len(a), NEW m \in Nat
    PROVE  DealtTo(v, a, n, m, Dealt(a, m))
<1> DEFINE e == [dir |-> a[n].dir, dealt |-> m]
<1>0. n \in 1..Len(a)
    OBVIOUS
<1>1. a[n] \in [dir : Directories(v), dealt : Nat] /\ n \in 1..Len(a)
    BY <1>0, ElementOfSeq DEF Walks
<1>2. e \in [dir : Directories(v), dealt : Nat] /\ e.dir = a[n].dir /\ e.dealt = m
    BY <1>1
<1> HIDE DEF e
<1>3. /\ [a EXCEPT ![n] = e] \in Walks(v) /\ Len([a EXCEPT ![n] = e]) = n
      /\ \A k \in 1..n : [a EXCEPT ![n] = e][k] = IF k = n THEN e ELSE a[k]
    BY <1>1, <1>2, ExceptSeq DEF Walks
<1>4. Dealt(a, m) = [a EXCEPT ![n] = e]
    BY DEF Dealt, e
<1>5. \A k \in 1..(n - 1) : k \in 1..n /\ k # n
    OBVIOUS
<1> QED
    BY <1>1, <1>2, <1>3, <1>4, <1>5 DEF DealtTo

\* The same in its parts.
LEMMA DealtIs ==
    ASSUME NEW v, NEW a \in Walks(v), NEW n \in Nat \ {0}, n = Len(a), NEW m \in Nat
    PROVE  /\ Dealt(a, m) \in Walks(v) /\ Len(Dealt(a, m)) = n
           /\ Dealt(a, m)[n].dir = a[n].dir /\ Dealt(a, m)[n].dealt = m
           /\ \A k \in 1..(n - 1) : Dealt(a, m)[k] = a[k]
           /\ \A k \in 1..n : Dealt(a, m)[k].dir = a[k].dir
<1>1. DealtTo(v, a, n, m, Dealt(a, m))
    BY DealtIsTo
<1> QED
    BY <1>1 DEF DealtTo

\* A step of the call on top.
LEMMA TopChanges ==
    ASSUME NEW v, NEW s, NEW a, WalkOf(v, s, a), s # << >>,
           NEW g \in Frames, NEW b \in Walks(v), Len(b) = Len(a),
           \A k \in 1..Len(a) : b[k].dir = a[k].dir, \A k \in 1..(Len(a) - 1) : b[k] = a[k],
           CallAt(v, g, b[Len(a)].dir, b[Len(a)].dealt)
    PROVE  LET t == [s EXCEPT ![Len(s)] = g]
           IN WalkOf(v, t, b) /\ t # << >> /\ Len(t) = Len(s) /\ t[Len(s)] = g
<1> DEFINE t == [s EXCEPT ![Len(s)] = g]
<1>1. PICK n \in Nat \ {0} : n = Len(s) /\ n = Len(a) /\ n \in 1..n /\ s \in Seq(Frames)
    BY TopIs
<1>2. /\ t \in Seq(Frames) /\ Len(t) = n
      /\ \A k \in 1..n : t[k] = IF k = n THEN g ELSE s[k]
  <2>1. Len(s) \in 1..Len(s) /\ s \in Seq(Frames)
      BY <1>1
  <2>2. /\ t \in Seq(Frames) /\ Len(t) = Len(s)
        /\ \A k \in 1..Len(s) : t[k] = IF k = Len(s) THEN g ELSE s[k]
      BY <2>1, ReplacedIs
  <2> HIDE DEF t
  <2> QED
      BY <1>1, <2>2
<1> HIDE DEF t
<1>3. t # << >>
    BY <1>1, <1>2, EmptySeq
<1>4. \A k \in 1..n : CallAt(v, t[k], b[k].dir, b[k].dealt)
  <2> SUFFICES ASSUME NEW k \in 1..n PROVE CallAt(v, t[k], b[k].dir, b[k].dealt)
      OBVIOUS
  <2>1. CASE k = n
      BY <1>1, <1>2, <2>1
  <2>2. CASE k # n
    <3>1. k \in 1..(n - 1)
        BY <1>1, <2>2
    <3>2. CallAt(v, s[k], a[k].dir, a[k].dealt)
        BY <1>1 DEF WalkOf
    <3> QED
        BY <1>1, <1>2, <2>2, <3>1, <3>2
  <2> QED
      BY <2>1, <2>2
<1>5. \A k \in 1..(n - 1) : t[k].at = "loop" /\ t[k].set.first = b[k + 1].dir
  <2> SUFFICES ASSUME NEW k \in 1..(n - 1) PROVE t[k].at = "loop" /\ t[k].set.first = b[k + 1].dir
      OBVIOUS
  <2>1. k \in 1..n /\ k # n /\ k + 1 \in 1..n
      BY <1>1
  <2>2. s[k].at = "loop" /\ s[k].set.first = a[k + 1].dir
      BY <1>1 DEF WalkOf
  <2> QED
      BY <1>1, <1>2, <2>1, <2>2
<1>6. b[1].dir = v.root
  <2>1. 1 \in 1..n
      BY <1>1
  <2> QED
      BY <1>1, <2>1 DEF WalkOf
<1> QED
    BY <1>1, <1>2, <1>3, <1>4, <1>5, <1>6 DEF WalkOf, t

\* A call for a subdirectory.
LEMMA CallMade ==
    ASSUME NEW v, NEW s, NEW a, WalkOf(v, s, a), s # << >>,
           s[Len(s)].at = "loop",
           NEW d \in Directories(v), s[Len(s)].set.first = d,
           NEW h \in Frames, CallAt(v, h, d, 0)
    PROVE  LET t == Append(s, h)
           IN WalkOf(v, t, Append(a, [dir |-> d, dealt |-> 0])) /\ t # << >>
              /\ Len(t) = Len(s) + 1 /\ t[Len(s) + 1] = h
<1> DEFINE t == Append(s, h)
           e == [dir |-> d, dealt |-> 0]
           b == Append(a, e)
<1>1. PICK n \in Nat \ {0} : n = Len(s) /\ n = Len(a) /\ n \in 1..n /\ s \in Seq(Frames) /\ a \in Walks(v)
    BY TopIs
<1>2. e \in [dir : Directories(v), dealt : Nat] /\ e.dir = d /\ e.dealt = 0
    OBVIOUS
<1>3. /\ t \in Seq(Frames) /\ Len(t) = n + 1 /\ t[n + 1] = h /\ t # << >>
      /\ \A k \in 1..n : t[k] = s[k]
  <2>1. s \in Seq(Frames)
      BY <1>1
  <2>2. /\ t \in Seq(Frames) /\ Len(t) = Len(s) + 1 /\ t[Len(s) + 1] = h /\ t # << >>
        /\ \A k \in 1..Len(s) : t[k] = s[k]
      BY <2>1, AppendProperties
  <2> HIDE DEF t
  <2> QED
      BY <1>1, <2>2
<1> HIDE DEF t, e
<1>4. /\ b \in Walks(v) /\ Len(b) = n + 1 /\ b[n + 1] = e
      /\ \A k \in 1..n : b[k] = a[k]
    BY <1>1, <1>2, AppendProperties DEF Walks
<1> HIDE DEF b
<1>5. \A k \in 1..(n + 1) : CallAt(v, t[k], b[k].dir, b[k].dealt)
  <2> SUFFICES ASSUME NEW k \in 1..(n + 1) PROVE CallAt(v, t[k], b[k].dir, b[k].dealt)
      OBVIOUS
  <2>1. CASE k = n + 1
      BY <1>2, <1>3, <1>4, <2>1
  <2>2. CASE k # n + 1
    <3>1. k \in 1..n
        BY <1>1, <2>2
    <3>2. CallAt(v, s[k], a[k].dir, a[k].dealt)
        BY <1>1, <3>1 DEF WalkOf
    <3> QED
        BY <1>3, <1>4, <3>1, <3>2
  <2> QED
      BY <2>1, <2>2
<1>6. \A k \in 1..((n + 1) - 1) : t[k].at = "loop" /\ t[k].set.first = b[k + 1].dir
  <2> SUFFICES ASSUME NEW k \in 1..n PROVE t[k].at = "loop" /\ t[k].set.first = b[k + 1].dir
      BY <1>1
  <2>1. CASE k = n
      BY <1>1, <1>2, <1>3, <1>4, <2>1
  <2>2. CASE k # n
    <3>1. k \in 1..(n - 1) /\ k + 1 \in 1..n
        BY <1>1, <2>2
    <3>2. s[k].at = "loop" /\ s[k].set.first = a[k + 1].dir
        BY <1>1, <3>1 DEF WalkOf
    <3> QED
        BY <1>3, <1>4, <3>1, <3>2
  <2> QED
      BY <2>1, <2>2
<1>7. b[1].dir = v.root
  <2>1. 1 \in 1..n /\ a[1].dir = v.root
      BY <1>1 DEF WalkOf
  <2> QED
      BY <1>4, <2>1
<1>8. WalkOf(v, t, b)
    BY <1>3, <1>4, <1>5, <1>6, <1>7 DEF WalkOf
<1> QED
    BY <1>1, <1>3, <1>8 DEF t, b, e

\* The return of the call on top.
LEMMA Returned ==
    ASSUME NEW v, NEW s, NEW a, WalkOf(v, s, a), s # << >>
    PROVE  /\ WalkOf(v, Front(s), Front(a))
           /\ Front(s) # << >> => Front(s)[Len(Front(s))].at = "loop"
<1> DEFINE t == Front(s)
           b == Front(a)
<1>1. PICK n \in Nat \ {0} : n = Len(s) /\ n = Len(a) /\ n \in 1..n /\ s \in Seq(Frames) /\ a \in Walks(v)
    BY TopIs
<1>2. a # << >>
    BY <1>1, EmptySeq
<1>3. t \in Seq(Frames) /\ Len(t) = n - 1 /\ \A k \in 1..(n - 1) : t[k] = s[k]
    BY <1>1, FrontIs
<1>4. b \in Walks(v) /\ Len(b) = n - 1 /\ \A k \in 1..(n - 1) : b[k] = a[k]
    BY <1>1, <1>2, FrontIs DEF Walks
<1> HIDE DEF t, b
<1>5. \A k \in 1..(n - 1) : CallAt(v, t[k], b[k].dir, b[k].dealt) /\ t[k].at = "loop"
  <2> SUFFICES ASSUME NEW k \in 1..(n - 1)
               PROVE CallAt(v, t[k], b[k].dir, b[k].dealt) /\ t[k].at = "loop"
      OBVIOUS
  <2>1. k \in 1..n
      BY <1>1
  <2>2. CallAt(v, s[k], a[k].dir, a[k].dealt) /\ s[k].at = "loop"
      BY <1>1, <2>1 DEF WalkOf
  <2> QED
      BY <1>3, <1>4, <2>2
<1>6. \A k \in 1..((n - 1) - 1) : t[k].set.first = b[k + 1].dir
  <2> SUFFICES ASSUME NEW k \in 1..((n - 1) - 1) PROVE t[k].set.first = b[k + 1].dir
      OBVIOUS
  <2>1. k \in 1..(n - 1) /\ k + 1 \in 1..(n - 1)
      BY <1>1
  <2>2. s[k].set.first = a[k + 1].dir
      BY <1>1, <2>1 DEF WalkOf
  <2> QED
      BY <1>3, <1>4, <2>1, <2>2
<1>7. t # << >> => n - 1 \in 1..(n - 1) /\ 1 \in 1..(n - 1)
  <2>1. t # << >> => Len(t) \in Nat \ {0}
      BY <1>3, EmptySeq
  <2> QED
      BY <1>1, <1>3, <2>1
<1>8. t # << >> => b[1].dir = v.root
    BY <1>1, <1>2, <1>4, <1>7 DEF WalkOf
<1>9. \A k \in 1..((n - 1) - 1) : k \in 1..(n - 1)
    BY <1>1
<1>10. WalkOf(v, t, b)
    BY <1>3, <1>4, <1>5, <1>6, <1>8, <1>9 DEF WalkOf
<1> QED
    BY <1>3, <1>5, <1>7, <1>10 DEF t, b
-----------------------------------------------------------------------------
(* list and get: every step *)

\* The walk starts in the root directory.
LEMMA WalkStarts ==
    ASSUME vol \in Volumes, stack = <<Enter(vol, vol.root)>>
    PROVE  /\ WalkOf(vol, stack, <<[dir |-> vol.root, dealt |-> 0]>>)
           /\ stack # << >> /\ Len(stack) = 1 /\ ~ At("copy")
<1> DEFINE f == Enter(vol, vol.root)
           e == [dir |-> vol.root, dealt |-> 0]
<1>1. vol.root \in Directories(vol)
    BY DirectoriesAssumption
<1>2. f \in Frames /\ f.at = "file" /\ CallAt(vol, f, vol.root, 0)
    BY <1>1, EnterOK
<1>3. e \in [dir : Directories(vol), dealt : Nat] /\ e.dir = vol.root /\ e.dealt = 0
    BY <1>1
<1> HIDE DEF f, e
<1>4. stack \in Seq(Frames) /\ Len(stack) = 1 /\ stack[1] = f /\ stack # << >>
    BY <1>2 DEF f
<1>5. <<e>> \in Walks(vol) /\ Len(<<e>>) = 1 /\ <<e>>[1] = e
    BY <1>3 DEF Walks
<1>6. \A k \in 1..1 : k = 1
    OBVIOUS
<1>7. 1..(1 - 1) = {}
    OBVIOUS
<1>8. WalkOf(vol, stack, <<e>>)
    BY <1>2, <1>3, <1>4, <1>5, <1>6, <1>7 DEF WalkOf
<1> QED
    BY <1>2, <1>4, <1>8 DEF e, At, Top

\* A step of the walk stays in front of the next set, or returns behind the last.
LEMMA WalkStep ==
    ASSUME vol \in Volumes, NEW a, WalkOf(vol, stack, a), Walk
    PROVE  /\ vol' = vol /\ stack # << >> /\ ~ At("copy")'
           /\ \/ WalkOf(vol', stack', a)
              \/ /\ WalkOf(vol', stack', Front(a))
                 /\ NoSetFrom(Flat(vol, a[Len(a)].dir), a[Len(a)].dealt)
<1>1. stack # << >> /\ vol' = vol
    BY DEF Walk, ReadFile, ReadStream, ReadName, Loop, At
<1>2. PICK n \in Nat \ {0} :
        /\ n = Len(stack) /\ n = Len(a) /\ n \in 1..n
        /\ a \in Walks(vol)
        /\ stack[n] \in Frames
        /\ a[n].dir \in Directories(vol) /\ a[n].dealt \in Nat
        /\ CallAt(vol, stack[n], a[n].dir, a[n].dealt)
    BY <1>1, TopIs
<1>3. PICK f \in Frames : f = Top
    BY <1>2 DEF Top
<1>4. PICK c \in Directories(vol) : c = a[n].dir
    BY <1>2
<1>5. PICK m \in Nat : m = a[n].dealt
    BY <1>2
<1>6. CallAt(vol, f, c, m)
    BY <1>2, <1>3, <1>4, <1>5 DEF Top
<1>7. ASSUME NEW g \in Frames, CallAt(vol, g, c, m), Become(g), g.at # "copy"
      PROVE  WalkOf(vol', stack', a) /\ ~ At("copy")'
  <2>1. stack' = [stack EXCEPT ![Len(stack)] = g]
      BY <1>7 DEF Become
  <2>2. /\ WalkOf(vol, [stack EXCEPT ![Len(stack)] = g], a)
        /\ [stack EXCEPT ![Len(stack)] = g] # << >>
        /\ Len([stack EXCEPT ![Len(stack)] = g]) = Len(stack)
        /\ [stack EXCEPT ![Len(stack)] = g][Len(stack)] = g
    <3>1. a \in Walks(vol) /\ CallAt(vol, g, a[Len(a)].dir, a[Len(a)].dealt)
        BY <1>2, <1>4, <1>5, <1>7
    <3> QED
        BY <1>1, <1>7, <3>1, TopChanges
  <2> QED
      BY <1>1, <1>7, <2>1, <2>2 DEF At, Top
<1>8. ASSUME Return, NoSetFrom(Flat(vol, c), m)
      PROVE  /\ WalkOf(vol', stack', Front(a)) /\ ~ At("copy")'
             /\ NoSetFrom(Flat(vol, a[Len(a)].dir), a[Len(a)].dealt)
  <2>1. WalkOf(vol, Front(stack), Front(a))
        /\ (Front(stack) # << >> => Front(stack)[Len(Front(stack))].at = "loop")
      BY <1>1, Returned
  <2>2. stack' = Front(stack)
      BY <1>8 DEF Return
  <2>3. ~ At("copy")'
      BY <2>1, <2>2 DEF At, Top
  <2> QED
      BY <1>1, <1>2, <1>4, <1>5, <1>8, <2>1, <2>2, <2>3
<1>9. CASE ReadFile
  <2>1. f.at = "file"
      BY <1>3, <1>9 DEF ReadFile, At
  <2>2. CASE Slot(f).type = "file"
    <3>1. PICK g : g = [Advance(f) EXCEPT
                          !.at = "stream",
                          !.set = [NoSet EXCEPT !.attribute = Slot(f).attribute,
                                                !.count = Slot(f).secondary_count]]
        OBVIOUS
    <3>2. g \in Frames /\ g.at = "stream" /\ CallAt(vol, g, c, m)
        BY <1>6, <2>1, <2>2, <3>1, FileRead
    <3>3. Become(g)
        BY <1>3, <1>9, <2>2, <3>1 DEF ReadFile
    <3> QED
        BY <1>1, <1>7, <3>2, <3>3
  <2>3. CASE Slot(f).type = "end"
    <3>1. Return
        BY <1>3, <1>9, <2>3 DEF ReadFile
    <3>2. NoSetFrom(Flat(vol, c), m)
        BY <1>6, <2>1, <2>3, NoneLeft
    <3> QED
        BY <1>1, <1>8, <3>1, <3>2
  <2>4. CASE Slot(f).type \notin {"file", "end"}
    <3>1. PICK g : g = [Advance(f) EXCEPT !.at = "loop"]
        OBVIOUS
    <3>2. g \in Frames /\ g.at = "loop" /\ CallAt(vol, g, c, m)
        BY <1>6, <2>1, <2>4, <3>1, OtherRead
    <3>3. Become(g)
        BY <1>3, <1>9, <2>4, <3>1 DEF ReadFile
    <3> QED
        BY <1>1, <1>7, <3>2, <3>3
  <2> QED
      BY <2>2, <2>3, <2>4
<1>10. CASE ReadStream
  <2>1. f.at = "stream"
      BY <1>3, <1>10 DEF ReadStream, At
  <2>2. PICK g : g = [Advance(f) EXCEPT !.at = "name", !.set.first = Slot(f).first_cluster,
                                        !.set.length = Slot(f).data_length]
      OBVIOUS
  <2>3. g \in Frames /\ g.at = "name" /\ CallAt(vol, g, c, m)
      BY <1>6, <2>1, <2>2, StreamRead
  <2>4. Become(g)
      BY <1>3, <1>10, <2>2 DEF ReadStream
  <2> QED
      BY <1>1, <1>7, <2>3, <2>4
<1>11. CASE ReadName
  <2>1. f.at = "name" /\ NamesLeft(f.set)
      BY <1>3, <1>11 DEF ReadName, At
  <2>2. PICK g : g = [Advance(f) EXCEPT !.set.name = Append(@, Slot(f).chars)]
      OBVIOUS
  <2>3. g \in Frames /\ g.at = "name" /\ CallAt(vol, g, c, m)
      BY <1>6, <2>1, <2>2, NameRead
  <2>4. Become(g)
      BY <1>3, <1>11, <2>2 DEF ReadName
  <2> QED
      BY <1>1, <1>7, <2>3, <2>4
<1>12. CASE Loop
  <2>1. f.at = "loop"
      BY <1>3, <1>12 DEF Loop, At
  <2>2. CASE GoesOn(f)
    <3>1. PICK g : g = [f EXCEPT !.at = "file"]
        OBVIOUS
    <3>2. g \in Frames /\ g.at = "file" /\ CallAt(vol, g, c, m)
      <4>1. "file" \in {"file", "copy"}
          OBVIOUS
      <4> QED
          BY <1>6, <2>1, <2>2, <3>1, <4>1, MovesOn
    <3>3. Become(g)
        BY <1>3, <1>12, <2>2, <3>1 DEF Loop
    <3> QED
        BY <1>1, <1>7, <3>2, <3>3
  <2>3. CASE ~ GoesOn(f)
    <3>1. Return
        BY <1>3, <1>12, <2>3 DEF Loop
    <3>2. NoSetFrom(Flat(vol, c), m)
        BY <1>6, <2>1, <2>3, NoneLeft
    <3> QED
        BY <1>1, <1>8, <3>1, <3>2
  <2> QED
      BY <2>2, <2>3
<1> QED
    BY <1>9, <1>10, <1>11, <1>12 DEF Walk

\* The copying of a file begins: the call on top stays with the set.
LEMMA CopyStarts ==
    ASSUME vol \in Volumes, vol' = vol, NEW a, WalkOf(vol, stack, a), SetRead,
           Become([Top EXCEPT !.at = "copy"])
    PROVE  /\ WalkOf(vol', stack', a) /\ stack' # << >> /\ At("copy")'
           /\ Top'.set = Top.set
<1>1. stack # << >> /\ Top.at = "name" /\ ~ NamesLeft(Top.set)
    BY DEF SetRead, At
<1>2. PICK n \in Nat \ {0} :
        /\ n = Len(stack) /\ n = Len(a)
        /\ a \in Walks(vol)
        /\ stack[n] \in Frames
        /\ a[n].dir \in Directories(vol) /\ a[n].dealt \in Nat
        /\ CallAt(vol, stack[n], a[n].dir, a[n].dealt)
    BY <1>1, TopIs
<1>3. PICK f \in Frames : f = Top
    BY <1>2 DEF Top
<1>4. PICK g : g = [f EXCEPT !.at = "copy"]
    OBVIOUS
<1>5. g \in Frames /\ g.at = "copy" /\ g.set = f.set /\ CallAt(vol, g, a[n].dir, a[n].dealt)
  <2>1. "copy" \in {"file", "copy"} /\ CallAt(vol, f, a[n].dir, a[n].dealt)
      BY <1>2, <1>3 DEF Top
  <2> QED
      BY <1>1, <1>2, <1>3, <1>4, <2>1, MovesOn
<1>6. a \in Walks(vol) /\ CallAt(vol, g, a[Len(a)].dir, a[Len(a)].dealt)
    BY <1>2, <1>5
<1>7. /\ WalkOf(vol, [stack EXCEPT ![Len(stack)] = g], a)
      /\ [stack EXCEPT ![Len(stack)] = g] # << >>
      /\ Len([stack EXCEPT ![Len(stack)] = g]) = Len(stack)
      /\ [stack EXCEPT ![Len(stack)] = g][Len(stack)] = g
    BY <1>1, <1>5, <1>6, TopChanges
<1>8. stack' = [stack EXCEPT ![Len(stack)] = g]
    BY <1>3, <1>4 DEF Become
<1>9. Top' = g
    BY <1>7, <1>8 DEF Top
<1> QED
    BY <1>3, <1>5, <1>7, <1>8, <1>9 DEF At

\* The directory that a set names is one of the volume's.
LEMMA SubdirectoryFound ==
    ASSUME NEW v \in Volumes, NEW c \in Directories(v), NEW m, NEW s, FirstSet(Flat(v, c), m, s),
           EntrySet(Flat(v, c), s).attribute = "directory"
    PROVE  /\ EntrySet(Flat(v, c), s).first \in Subdirectories(v, c)
           /\ EntrySet(Flat(v, c), s).first \in Directories(v)
<1> DEFINE flat == Flat(v, c)
<1>1. EntrySet(flat, s).first = flat[s + 1].first_cluster /\ flat[s].attribute = "directory"
    BY DEF EntrySet
<1>2. s \in DOMAIN flat /\ Starts(flat, s)
    BY DEF FirstSet
<1> HIDE DEF flat
<1>3. EntrySet(flat, s).first \in Subdirectories(v, c)
    BY <1>1, <1>2 DEF Subdirectories, flat
<1> QED
    BY <1>3, DirectoryIs DEF flat

\* A call that has read a set has read the next of its directory.  It has dealt
\* with that when it goes on behind it, and when it calls for a subdirectory.
LEMMA SetStep ==
    ASSUME vol \in Volumes, vol' = vol, NEW a, WalkOf(vol, stack, a), SetRead \/ At("copy")
    PROVE  \E s \in Nat :
             /\ FirstSet(Flat(vol, a[Len(a)].dir), a[Len(a)].dealt, s)
             /\ SetOf(Top) = EntrySet(Flat(vol, a[Len(a)].dir), s)
             /\ Become(Resume) => WalkOf(vol', stack', Dealt(a, s + 1)) /\ ~ At("copy")'
             /\ Top.set.attribute = "directory" /\ Call(Top.set.first) =>
                  /\ WalkOf(vol', stack',
                            Append(Dealt(a, s + 1), [dir |-> Top.set.first, dealt |-> 0]))
                  /\ ~ At("copy")'
<1>1. stack # << >> /\ Top.at \in {"name", "copy"}
    BY DEF SetRead, At
<1>2. PICK n \in Nat \ {0} :
        /\ n = Len(stack) /\ n = Len(a) /\ n \in 1..n
        /\ a \in Walks(vol)
        /\ stack[n] \in Frames
        /\ a[n].dir \in Directories(vol) /\ a[n].dealt \in Nat
        /\ CallAt(vol, stack[n], a[n].dir, a[n].dealt)
    BY <1>1, TopIs
<1>3. PICK f \in Frames : f = Top
    BY <1>2 DEF Top
<1>4. PICK c \in Directories(vol) : c = a[n].dir
    BY <1>2
<1>5. PICK m \in Nat : m = a[n].dealt
    BY <1>2
<1>6. CallAt(vol, f, c, m) /\ f.at \in {"name", "copy"}
    BY <1>1, <1>2, <1>3, <1>4, <1>5 DEF Top
<1>7. ~ NamesLeft(f.set)
    BY <1>3, <1>6 DEF SetRead, At, CallAt, PhaseOK
<1>8. PICK g : g = [f EXCEPT !.at = "loop"]
    OBVIOUS
<1>9. PICK s \in Nat :
        /\ FirstSet(Flat(vol, c), m, s) /\ SetOf(f) = EntrySet(Flat(vol, c), s)
        /\ g \in Frames /\ g.at = "loop" /\ g.set = f.set /\ CallAt(vol, g, c, s + 1)
    BY <1>6, <1>7, <1>8, SetIsRead
<1>10. PICK b : b = Dealt(a, s + 1)
    OBVIOUS
<1>11. /\ b \in Walks(vol) /\ Len(b) = n /\ b[n].dir = c /\ b[n].dealt = s + 1
       /\ \A k \in 1..(n - 1) : b[k] = a[k]
       /\ \A k \in 1..n : b[k].dir = a[k].dir
  <2>1. PICK q \in Nat : q = s + 1
      OBVIOUS
  <2>2. PICK v : v = vol /\ a \in Walks(v) /\ n = Len(a)
      BY <1>2
  <2>3. Dealt(a, q) \in Walks(v) /\ Len(Dealt(a, q)) = n
      BY <2>2, DealtIs
  <2>4. Dealt(a, q)[n].dir = a[n].dir /\ Dealt(a, q)[n].dealt = q
      BY <2>2, DealtIs
  <2>5. \A k \in 1..(n - 1) : Dealt(a, q)[k] = a[k]
      BY <2>2, DealtIs
  <2>6. \A k \in 1..n : Dealt(a, q)[k].dir = a[k].dir
      BY <2>2, DealtIs
  <2> QED
      BY <1>4, <1>10, <2>1, <2>2, <2>3, <2>4, <2>5, <2>6
<1>12. PICK t : t = [stack EXCEPT ![Len(stack)] = g]
    OBVIOUS
<1>13. /\ WalkOf(vol, t, b)
       /\ t # << >> /\ Len(t) = n /\ t[n] = g
  <2>1. /\ Len(b) = Len(a) /\ \A k \in 1..Len(a) : b[k].dir = a[k].dir
        /\ \A k \in 1..(Len(a) - 1) : b[k] = a[k]
        /\ CallAt(vol, g, b[Len(a)].dir, b[Len(a)].dealt)
      BY <1>2, <1>9, <1>11
  <2>2. /\ WalkOf(vol, t, b)
        /\ t # << >> /\ Len(t) = Len(stack) /\ t[Len(stack)] = g
    <3>1. b \in Walks(vol)
        BY <1>11
    <3>2. g \in Frames
        BY <1>9
    <3>3. /\ WalkOf(vol, [stack EXCEPT ![Len(stack)] = g], b)
          /\ [stack EXCEPT ![Len(stack)] = g] # << >>
          /\ Len([stack EXCEPT ![Len(stack)] = g]) = Len(stack)
          /\ [stack EXCEPT ![Len(stack)] = g][Len(stack)] = g
        BY <1>1, <2>1, <3>1, <3>2, TopChanges, SMTT(30)
    <3> QED
        BY <1>12, <3>3
  <2> QED
      BY <1>2, <2>2
<1>14. ASSUME Become(Resume) PROVE WalkOf(vol', stack', b) /\ ~ At("copy")'
  <2>1. stack' = t
      BY <1>3, <1>8, <1>12, <1>14 DEF Become, Resume
  <2> QED
      BY <1>9, <1>13, <2>1 DEF At, Top
<1>15. ASSUME Top.set.attribute = "directory", Call(Top.set.first)
       PROVE  /\ WalkOf(vol', stack', Append(b, [dir |-> Top.set.first, dealt |-> 0]))
              /\ ~ At("copy")'
  <2>1. PICK d \in Directories(vol) : d = Top.set.first
    <3>1. EntrySet(Flat(vol, c), s).attribute = "directory"
          /\ EntrySet(Flat(vol, c), s).first = Top.set.first
        BY <1>3, <1>9, <1>15 DEF SetOf
    <3> QED
        BY <1>9, <3>1, SubdirectoryFound
  <2>2. PICK h : h = Enter(vol, d)
      OBVIOUS
  <2>3. h \in Frames /\ h.at = "file" /\ CallAt(vol, h, d, 0)
      BY <2>2, EnterOK
  <2>4. t[Len(t)].at = "loop" /\ t[Len(t)].set.first = d
      BY <1>3, <1>9, <1>13, <2>1
  <2>5. /\ WalkOf(vol, Append(t, h), Append(b, [dir |-> d, dealt |-> 0]))
        /\ Append(t, h) # << >> /\ Len(Append(t, h)) = Len(t) + 1 /\ Append(t, h)[Len(t) + 1] = h
      BY <1>13, <2>3, <2>4, CallMade
  <2>6. stack' = Append(t, h)
      BY <1>3, <1>8, <1>12, <1>15, <2>1, <2>2 DEF Call, Resume
  <2> QED
      BY <2>1, <2>3, <2>5, <2>6 DEF At, Top
<1>16. /\ FirstSet(Flat(vol, a[Len(a)].dir), a[Len(a)].dealt, s)
       /\ SetOf(Top) = EntrySet(Flat(vol, a[Len(a)].dir), s)
    BY <1>2, <1>3, <1>4, <1>5, <1>9
<1> QED
    BY <1>10, <1>14, <1>15, <1>16

\* The walk starts in the root directory, or not at all.
LEMMA WalkInit == Init => WalkInv
<1> SUFFICES ASSUME Init PROVE WalkInv
    OBVIOUS
<1>1. vol \in Volumes
    BY DEF Init
<1>2. CASE stack = << >>
  <2>1. WalkOf(vol, stack, << >>)
      BY <1>2 DEF WalkOf, Walks
  <2> QED
      BY <1>1, <2>1 DEF WalkInv
<1>3. CASE stack = <<Enter(vol, vol.root)>>
    BY <1>1, <1>3, WalkStarts DEF WalkInv
<1> QED
    BY <1>2, <1>3 DEF Init

\* Every step keeps each call in the chain of its directory.
LEMMA WalkNext == WalkInv /\ (List \/ DFS) => WalkInv'
<1> SUFFICES ASSUME WalkInv, List \/ DFS PROVE WalkInv'
    OBVIOUS
<1>1. PICK a : WalkOf(vol, stack, a)
    BY DEF WalkInv
<1>2. vol \in Volumes /\ vol' = vol
    BY DEF WalkInv, List, DFS, Walk, ReadFile, ReadStream, ReadName, Loop, ListSet, FindSet,
           Extract, EndExtract
<1>3. CASE Walk
    BY <1>1, <1>2, <1>3, WalkStep DEF WalkInv
<1>4. ASSUME SetRead \/ At("copy"),
             Become(Resume) \/ (Top.set.attribute = "directory" /\ Call(Top.set.first))
      PROVE  WalkInv'
    BY <1>1, <1>2, <1>4, SetStep DEF WalkInv
<1>5. CASE ListSet
    BY <1>4, <1>5 DEF ListSet
<1>6. CASE FindSet
  <2>1. CASE Become([Top EXCEPT !.at = "copy"])
      BY <1>1, <1>2, <1>6, <2>1, CopyStarts DEF FindSet, WalkInv
  <2> QED
      BY <1>4, <1>6, <2>1 DEF FindSet, IsStep
<1>7. CASE Extract
    BY <1>1, <1>2, <1>7 DEF Extract, WalkInv
<1>8. CASE EndExtract
    BY <1>4, <1>8 DEF EndExtract
<1> QED
    BY <1>3, <1>5, <1>6, <1>7, <1>8 DEF List, DFS

\* A call that is to read a slot has one in front of it.
LEMMA CallInside ==
    ASSUME vol \in Volumes, NEW c \in Directories(vol), NEW f \in Frames, NEW m \in Nat,
           CallAt(vol, f, c, m)
    PROVE  /\ Contains(Chain(vol, c), f.index)
           /\ (f.at \in {"file", "stream"} \/ (f.at = "name" /\ NamesLeft(f.set))) => f.position < Slots
<1>1. PICK n \in Nat : HasRead(vol, f, c, n) /\ PhaseOK(f, Flat(vol, c), m, n)
    BY FlatDomain DEF CallAt
<1>2. Contains(Chain(vol, c), f.index)
    BY <1>1, ChainIs DEF Contains, HasRead
<1>3. f.at = "file" => f.position < Slots
    BY <1>1 DEF PhaseOK
<1>4. f.at = "stream" => f.position < Slots
    BY StreamRead
<1>5. f.at = "name" /\ NamesLeft(f.set) => f.position < Slots
    BY NameRead
<1> QED
    BY <1>2, <1>3, <1>4, <1>5

\* So all the calls read inside the chains of their directories.
LEMMA WalkInside == WalkInv => ReadsInsideChain
<1> SUFFICES ASSUME WalkInv, NEW k \in DOMAIN stack
             PROVE  LET f == stack[k] IN
                    /\ Contains(Chain(vol, DirectoryOf(k)), f.index)
                    /\ (f.at \in {"file", "stream"} \/ (f.at = "name" /\ NamesLeft(f.set)))
                         => f.position < Slots
    BY DEF ReadsInsideChain
<1>1. PICK a : vol \in Volumes /\ WalkOf(vol, stack, a)
    BY DEF WalkInv
<1>2. stack # << >>
    OBVIOUS
<1>3. PICK n \in Nat \ {0} :
        /\ n = Len(stack) /\ stack \in Seq(Frames)
        /\ \A q \in 1..n : stack[q] \in Frames
        /\ \A q \in 1..n : a[q].dir \in Directories(vol) /\ a[q].dealt \in Nat
    BY <1>1, <1>2, TopIs
<1>4. k \in 1..n
    BY <1>3, LenProperties
<1>5. CallAt(vol, stack[k], a[k].dir, a[k].dealt)
    BY <1>1, <1>3, <1>4 DEF WalkOf
<1>6. a[k].dir = DirectoryOf(k)
  <2>1. CASE k = 1
      BY <1>1, <1>2, <2>1 DEF WalkOf, DirectoryOf
  <2>2. CASE k # 1
    <3>1. k - 1 \in 1..(n - 1) /\ (k - 1) + 1 = k
        BY <1>3, <1>4, <2>2
    <3> QED
        BY <1>1, <1>3, <2>2, <3>1 DEF WalkOf, DirectoryOf
  <2> QED
      BY <2>1, <2>2
<1> QED
    BY <1>1, <1>3, <1>4, <1>5, <1>6, CallInside

\* exfat.c reads every directory inside the chain of its clusters: for any size
\* of a cluster, any chains and any entry sets that lie across them, on every
\* volume whose directories are sound, and for both commands.
THEOREM DirectoriesWalked == MCSpec => []ReadsInsideChain
<1> DEFINE Inv == WalkInv \/ (program # "exfat" /\ stack = << >>)
<1>1. MCInit => Inv
    BY WalkInit DEF MCInit, NoReader
<1>2. Inv /\ [MCNext \/ Stopped]_allVars => Inv'
  <2> SUFFICES ASSUME Inv, [MCNext \/ Stopped]_allVars PROVE Inv'
      OBVIOUS
  <2>1. CASE RunReader /\ (List \/ DFS)
      BY <2>1, WalkNext DEF RunReader
  <2>2. CASE UNCHANGED <<program, vars>>
      BY <2>2 DEF vars, WalkInv
  <2> QED
      BY <2>1, <2>2 DEF MCNext, RunCheck, Stopped, allVars
<1>3. Inv => ReadsInsideChain
    BY WalkInside DEF ReadsInsideChain
<1> QED
    BY <1>1, <1>2, <1>3, PTL DEF MCSpec
-----------------------------------------------------------------------------
(* get: the copying of a file *)

\* What extract has as locals.  Behind the last cluster the index is the end mark.
Copies == [index : 0..(Clusters + 1) \cup {END}, tmp : 0..(Clusters + 1) \cup {END},
           size : Nat, left : Nat]

\* Of the data of a file the first units are copied; extract is in front of the
\* next one, if there is one left.
CopyOf(v, set, c, w) ==
    \E n \in Nat :
      /\ c \in Copies /\ set.length = n + c.left
      /\ w = [k \in 1..n |-> Data(v, set)[k]]
      /\ c.size = n % Units
      /\ c.left > 0 => c.index = Chain(v, set.first)[n \div Units + 1] /\ c.tmp = v.fat[c.index]

\* A sequence that grows by the next element of another.
LEMMA BeginningGrows ==
    ASSUME NEW D, NEW n \in Nat
    PROVE  Append([k \in 1..n |-> D[k]], D[n + 1]) = [k \in 1..(n + 1) |-> D[k]]
<1> DEFINE S == {D[k] : k \in 1..(n + 1)}
           s == [k \in 1..n |-> D[k]]
           t == [k \in 1..(n + 1) |-> D[k]]
<1>1. s \in [1..n -> S] /\ t \in [1..(n + 1) -> S] /\ D[n + 1] \in S
    OBVIOUS
<1>2. \A k \in 1..n : s[k] = t[k]
    OBVIOUS
<1>3. t[n + 1] = D[n + 1]
    OBVIOUS
<1> HIDE DEF S, s, t
<1>4. s \in Seq(S) /\ t \in Seq(S) /\ Len(s) = n /\ Len(t) = n + 1
    BY <1>1
<1>5. /\ Append(s, D[n + 1]) \in Seq(S) /\ Len(Append(s, D[n + 1])) = n + 1
      /\ \A k \in 1..n : Append(s, D[n + 1])[k] = s[k]
      /\ Append(s, D[n + 1])[n + 1] = D[n + 1]
    BY <1>1, <1>4, AppendProperties
<1>6. \A k \in 1..(n + 1) : Append(s, D[n + 1])[k] = t[k]
  <2> SUFFICES ASSUME NEW k \in 1..(n + 1) PROVE Append(s, D[n + 1])[k] = t[k]
      OBVIOUS
  <2>1. CASE k = n + 1
      BY <1>3, <1>5, <2>1
  <2>2. CASE k # n + 1
    <3>1. k \in 1..n
        BY <2>2
    <3> QED
        BY <1>2, <1>5, <3>1
  <2> QED
      BY <2>1, <2>2
<1>7. Append(s, D[n + 1]) = t
    BY <1>4, <1>5, <1>6, SeqEqual
<1> QED
    BY <1>7 DEF s, t

\* The place of the next unit: in the same cluster, or at the start of the next.
LEMMA NextPlace ==
    ASSUME NEW n \in Nat
    PROVE  /\ n \div Units \in Nat /\ n % Units \in 0..(Units - 1)
           /\ n = (n \div Units) * Units + (n % Units)
           /\ IF (n % Units) + 1 = Units
              THEN (n + 1) \div Units = n \div Units + 1 /\ (n + 1) % Units = 0
              ELSE (n + 1) \div Units = n \div Units /\ (n + 1) % Units = (n % Units) + 1
<1>1. PICK size \in Nat \ {0} : size = Units
    BY SizeAssumption
<1>2. PICK q \in Nat : q = n \div size
    BY <1>1
<1>3. PICK p \in 0..(size - 1) : p = n % size
    BY <1>1
<1>4. n = q * size + p
    BY <1>2, <1>3
<1>5. CASE p + 1 = size
  <2>1. n + 1 = (q + 1) * size + 0
      BY <1>4, <1>5
  <2>2. PICK m \in Nat : m = q + 1
      OBVIOUS
  <2>3. 0 \in 0..(size - 1)
      OBVIOUS
  <2>4. (m * size + 0) \div size = m /\ (m * size + 0) % size = 0
      BY <2>3, PlaceIs
  <2>5. (n + 1) \div size = q + 1 /\ (n + 1) % size = 0
      BY <2>1, <2>2, <2>4
  <2> QED
      BY <1>1, <1>2, <1>3, <1>4, <1>5, <2>5
<1>6. CASE p + 1 # size
  <2>1. PICK m \in 0..(size - 1) : m = p + 1
      BY <1>6
  <2>2. n + 1 = q * size + m
      BY <1>4, <2>1
  <2>3. (q * size + m) \div size = q /\ (q * size + m) % size = m
      BY PlaceIs
  <2>4. (n + 1) \div size = q /\ (n + 1) % size = p + 1
      BY <2>1, <2>2, <2>3
  <2> QED
      BY <1>1, <1>2, <1>3, <1>4, <1>6, <2>4
<1> QED
    BY <1>5, <1>6

\* What the model assumes of the file that a set names.
LEMMA FileIs ==
    ASSUME NEW v \in Volumes, NEW c \in Directories(v), NEW set \in Contents(v, c),
           set.attribute = "file", set.length > 0
    PROVE  /\ set.first \in ClusterNumbers
           /\ set.length <= Len(Chain(v, set.first)) * Units
           /\ Linked(v, set.first, Chain(v, set.first))
<1>1. set.first \in ClusterNumbers /\ set.length <= Len(Chain(v, set.first)) * Units
    BY FilesAssumption DEF WholeFiles
<1> QED
    BY <1>1, ChainLinked

\* extract starts in front of the first unit.
LEMMA CopyBegins ==
    ASSUME NEW v \in Volumes, NEW c \in Directories(v), NEW set \in Contents(v, c),
           set.attribute = "file", set.length \in Nat, set.first \in ClusterNumbers \cup {0}
    PROVE  CopyOf(v, set, [index |-> set.first, tmp |-> v.fat[set.first], size |-> 0,
                           left |-> set.length], << >>)
<1> DEFINE r == [index |-> set.first, tmp |-> v.fat[set.first], size |-> 0, left |-> set.length]
<1>1. set.first \in 0..(Clusters + 1) /\ v.fat[set.first] \in 0..(Clusters + 1) \cup {END}
    BY VolumeIs DEF ClusterNumbers
<1>2. /\ r \in Copies /\ r.left = set.length /\ r.size = 0 /\ r.index = set.first
      /\ r.tmp = v.fat[set.first]
    BY <1>1 DEF Copies
<1> HIDE DEF r
<1>3. 0 \div Units = 0 /\ 0 % Units = 0
    BY NextPlace, SizeAssumption
<1>4. r.left > 0 => Chain(v, set.first)[1] = set.first
    BY <1>2, FileIs DEF Linked
<1>5. << >> = [k \in 1..0 |-> Data(v, set)[k]]
    OBVIOUS
<1>6. set.length = 0 + r.left
    BY <1>2
<1>7. r.left > 0 => r.index = Chain(v, set.first)[0 \div Units + 1]
    BY <1>2, <1>3, <1>4
<1> QED
    BY <1>2, <1>3, <1>5, <1>6, <1>7 DEF CopyOf, r

\* extract copies the next unit.
LEMMA CopyGoesOn ==
    ASSUME vol \in Volumes, NEW c \in Directories(vol), NEW set \in Contents(vol, c),
           set.attribute = "file", NEW r, NEW w, CopyOf(vol, set, r, w), r.left > 0
    PROVE  CopyOf(vol, set, [NextUnit(r) EXCEPT !.left = @ - 1], Append(w, <<r.index, r.size>>))
<1> DEFINE chain == Chain(vol, set.first)
           g == [NextUnit(r) EXCEPT !.left = @ - 1]
           D == Data(vol, set)
<1>1. PICK n \in Nat :
        /\ r \in Copies /\ set.length = n + r.left
        /\ w = [k \in 1..n |-> D[k]]
        /\ r.size = n % Units
        /\ r.index = chain[n \div Units + 1] /\ r.tmp = fat[r.index]
    BY DEF CopyOf, fat
<1>2. r.left \in Nat /\ set.length \in Nat /\ n + 1 \in 1..set.length
  <2>1. r.left \in Nat
      BY <1>1 DEF Copies
  <2> QED
      BY <1>1, <2>1
<1>3. Append(w, <<r.index, r.size>>) = [k \in 1..(n + 1) |-> D[k]]
  <2>1. D[n + 1] = <<chain[n \div Units + 1], n % Units>>
    <3>1. (n + 1) - 1 = n
        OBVIOUS
    <3> QED
        BY <1>2, <3>1 DEF Data
  <2>2. D[n + 1] = <<r.index, r.size>>
      BY <1>1, <2>1
  <2> HIDE DEF D
  <2> QED
      BY <1>1, <2>2, BeginningGrows
<1>4. PICK len \in Nat \ {0} : /\ len = Len(chain) /\ set.length <= len * Units
                               /\ \A j \in 1..len : chain[j] \in 0..(Clusters + 1)
                               /\ \A j \in 1..(len - 1) : fat[chain[j]] = chain[j + 1]
  <2>1. set.length > 0
      BY <1>2
  <2>2. set.length <= Len(chain) * Units /\ Linked(vol, set.first, chain)
      BY <2>1, FileIs
  <2> HIDE DEF chain
  <2>3. chain \in Seq(0..(Clusters + 1)) /\ chain # << >>
      BY <2>2 DEF Linked
  <2>4. Len(chain) \in Nat \ {0} /\ \A j \in 1..Len(chain) : chain[j] \in 0..(Clusters + 1)
      BY <2>3, EmptySeq, ElementOfSeq
  <2> QED
      BY <2>2, <2>4 DEF Linked, fat
<1> HIDE DEF chain, D
<1>5. PICK q \in Nat : /\ q = n \div Units /\ n % Units \in 0..(Units - 1) /\ n = q * Units + (n % Units)
    BY NextPlace
<1>6. \A k \in 0..(Clusters + 1) : k # END /\ fat[k] \in 0..(Clusters + 1) \cup {END}
  <2> SUFFICES ASSUME NEW k \in 0..(Clusters + 1)
               PROVE  k # END /\ fat[k] \in 0..(Clusters + 1) \cup {END}
      OBVIOUS
  <2>1. fat[k] \in ClusterNumbers \cup {0, END} /\ Clusters \in Nat /\ END \notin Nat
      BY VolumeIs DEF fat
  <2> QED
      BY <2>1 DEF ClusterNumbers
<1>7. q + 1 \in 1..len
  <2>1. q * Units < len * Units /\ Units \in Nat \ {0}
      BY <1>2, <1>4, <1>5, SizeAssumption
  <2>2. q >= len => q * Units >= len * Units
      BY <2>1
  <2>3. q < len
      BY <2>1, <2>2
  <2> QED
      BY <2>3
<1>8. r.index \in 0..(Clusters + 1) /\ r.tmp \in 0..(Clusters + 1) \cup {END}
    BY <1>1, <1>4, <1>5, <1>6, <1>7
<1>9. /\ r.left - 1 \in Nat /\ set.length = (n + 1) + (r.left - 1)
    BY <1>1, <1>2, SMTT(30)
<1>10. CASE r.size + 1 = Units
  <2> DEFINE link == IF r.tmp = END THEN 0 ELSE fat[r.tmp]
  <2>1. link \in 0..(Clusters + 1) \cup {END}
      BY <1>6, <1>8, SizeAssumption
  <2>2. g = [[r EXCEPT !.index = r.tmp, !.tmp = link, !.size = 0] EXCEPT !.left = @ - 1]
      BY <1>10 DEF NextUnit
  <2> HIDE DEF link, g
  <2>3. /\ g \in Copies /\ g.index = r.tmp /\ g.tmp = link /\ g.size = 0 /\ g.left = r.left - 1
      BY <1>1, <1>8, <1>9, <2>1, <2>2 DEF Copies
  <2>4. (n + 1) \div Units = q + 1 /\ (n + 1) % Units = 0 /\ n + 1 = (q + 1) * Units
    <3>1. (n % Units) + 1 = Units
        BY <1>1, <1>10
    <3>2. (n + 1) \div Units = n \div Units + 1 /\ (n + 1) % Units = 0
        BY <3>1, NextPlace
    <3>3. n + 1 = q * Units + Units /\ q * Units + Units = (q + 1) * Units
        BY <1>5, <3>1, SizeAssumption
    <3> QED
        BY <1>5, <3>2, <3>3
  <2>5. ASSUME g.left > 0 PROVE g.index = chain[(n + 1) \div Units + 1] /\ g.tmp = fat[g.index]
    <3>1. (q + 1) * Units < len * Units
      <4>1. set.length = (n + 1) + g.left /\ g.left \in Nat \ {0}
          BY <1>9, <2>3, <2>5
      <4> QED
          BY <1>4, <2>4, <4>1, SizeAssumption
    <3>2. q + 1 >= len => (q + 1) * Units >= len * Units
        BY SizeAssumption
    <3>3. (q + 1) * Units \in Nat /\ len * Units \in Nat
        BY SizeAssumption
    <3>4. q + 1 \in 1..(len - 1) /\ q + 2 \in 1..len /\ (q + 1) + 1 = q + 2
        BY <3>1, <3>2, <3>3
    <3>5. r.tmp = chain[q + 2] /\ chain[q + 2] \in 0..(Clusters + 1)
        BY <1>1, <1>4, <1>5, <3>4
    <3>6. link = fat[r.tmp]
        BY <1>6, <3>5 DEF link
    <3> QED
        BY <2>3, <2>4, <3>4, <3>5, <3>6
  <2>6. CopyOf(vol, set, g, [k \in 1..(n + 1) |-> D[k]])
    <3>1. /\ set.length = (n + 1) + g.left /\ g.size = (n + 1) % Units
          /\ n + 1 \in Nat
        BY <1>9, <2>3, <2>4
    <3> QED
        BY <2>3, <2>5, <3>1 DEF CopyOf, D, chain, fat
  <2> QED
      BY <1>3, <2>6 DEF g
<1>11. CASE r.size + 1 # Units
  <2>1. g = [[r EXCEPT !.size = @ + 1] EXCEPT !.left = @ - 1]
      BY <1>11 DEF NextUnit
  <2> HIDE DEF g
  <2>2. /\ g \in Copies /\ g.index = r.index /\ g.tmp = r.tmp /\ g.size = r.size + 1
        /\ g.left = r.left - 1
    <3>1. PICK h : h = [r EXCEPT !.size = r.size + 1]
        OBVIOUS
    <3>2. h \in Copies /\ h.index = r.index /\ h.tmp = r.tmp /\ h.size = r.size + 1 /\ h.left = r.left
        BY <1>1, <3>1 DEF Copies
    <3>3. g = [h EXCEPT !.left = h.left - 1]
        BY <2>1, <3>1
    <3> QED
        BY <1>9, <3>2, <3>3 DEF Copies
  <2>3. (n + 1) \div Units = q /\ (n + 1) % Units = g.size
    <3>1. (n % Units) + 1 # Units
        BY <1>1, <1>11
    <3> QED
        BY <1>1, <1>5, <2>2, <3>1, NextPlace
  <2>4. CopyOf(vol, set, g, [k \in 1..(n + 1) |-> D[k]])
    <3>1. /\ set.length = (n + 1) + g.left /\ g.size = (n + 1) % Units
          /\ n + 1 \in Nat
        BY <1>9, <2>2, <2>3
    <3>2. g.index = chain[(n + 1) \div Units + 1] /\ g.tmp = fat[g.index]
        BY <1>1, <1>5, <2>2, <2>3
    <3> QED
        BY <2>2, <3>1, <3>2 DEF CopyOf, D, chain, fat
  <2> QED
      BY <1>3, <2>4 DEF g
<1> QED
    BY <1>10, <1>11

\* When nothing is left, the data is copied.
LEMMA CopyEnds ==
    ASSUME NEW v, NEW set, NEW r, NEW w, CopyOf(v, set, r, w), r.left = 0
    PROVE  w = Data(v, set)
<1>1. PICK n \in Nat : set.length = n + 0 /\ w = [k \in 1..n |-> Data(v, set)[k]]
    BY DEF CopyOf
<1>2. DOMAIN Data(v, set) = 1..n /\ Data(v, set) = [k \in DOMAIN Data(v, set) |-> Data(v, set)[k]]
    BY <1>1 DEF Data
<1> QED
    BY <1>1, <1>2
-----------------------------------------------------------------------------
(* get: the search for the file at a path *)

\* An entry set that starts in a directory is one of its contents.
LEMMA SetInContents ==
    ASSUME NEW v, NEW c, NEW s \in DOMAIN Flat(v, c), Starts(Flat(v, c), s)
    PROVE  EntrySet(Flat(v, c), s) \in Contents(v, c)
BY DEF Contents

\* The directories of the calls are those that the path leads through.
OnTrail(v, p, a) ==
    /\ Len(a) <= Len(p)
    /\ \A k \in 1..(Len(a) - 1) :
         \E set \in Named(v, a[k].dir, p[k], "directory") : a[k + 1].dir = set.first

\* A trail at whose end the path names a file.
FileBehind(v, p, w) ==
    p # << >> /\ w \in Trails(v, p) /\ Named(v, w[Len(p)], Last(p), "file") # {}

\* The set that a call looks for which walks the k-th directory of a trail.
Goal(p, w, k, set) ==
    /\ set.name = p[k]
    /\ IF k < Len(p) THEN set.attribute = "directory" /\ set.first = w[k + 1]
                     ELSE set.attribute = "file"

\* There is such a set from slot m of a directory on.
Ahead(v, p, w, k, c, m) ==
    \E s \in DOMAIN Flat(v, c) :
      m <= s /\ Starts(Flat(v, c), s) /\ Goal(p, w, k, EntrySet(Flat(v, c), s))

\* One of the calls has it still in front of it.
ToCome(v, p, w, a) ==
    \E k \in 1..Len(a) : a[k].dir = w[k] /\ Ahead(v, p, w, k, a[k].dir, a[k].dealt)

\* Each directory on the way to the file has the set that is looked for.
LEMMA GoalThere ==
    ASSUME NEW v \in Volumes, NEW p \in Seq(Seq(Pieces)), NEW w, FileBehind(v, p, w),
           NEW k \in 1..Len(p)
    PROVE  Ahead(v, p, w, k, w[k], 0)
<1>1. Len(p) \in Nat
    BY LenProperties
<1>2. ASSUME NEW set \in Contents(v, w[k]), Goal(p, w, k, set) PROVE Ahead(v, p, w, k, w[k], 0)
  <2>1. PICK s \in DOMAIN Flat(v, w[k]) : Starts(Flat(v, w[k]), s) /\ set = EntrySet(Flat(v, w[k]), s)
      BY <1>2 DEF Contents
  <2>2. 0 <= s
      BY <2>1 DEF Flat
  <2> QED
      BY <1>2, <2>1, <2>2 DEF Ahead
<1>3. CASE k < Len(p)
  <2>1. k \in 1..(Len(p) - 1)
      BY <1>1, <1>3
  <2>2. PICK set \in Named(v, w[k], p[k], "directory") : w[k + 1] = set.first
      BY <2>1 DEF FileBehind, Trails
  <2>3. set \in Contents(v, w[k]) /\ Goal(p, w, k, set)
      BY <1>3, <2>2 DEF Named, Goal
  <2> QED
      BY <1>2, <2>3
<1>4. CASE k = Len(p)
  <2>1. PICK set : set \in Named(v, w[k], p[k], "file")
      BY <1>4 DEF FileBehind, Last
  <2>2. set \in Contents(v, w[k]) /\ Goal(p, w, k, set)
      BY <1>1, <1>4, <2>1 DEF Named, Goal
  <2> QED
      BY <1>2, <2>2
<1> QED
    BY <1>1, <1>3, <1>4

\* When a call has dealt with the next set, that was the one looked for, or the
\* one is still in front of it.
LEMMA AheadOrMet ==
    ASSUME NEW v, NEW p, NEW w, NEW k, NEW c, NEW m \in Nat, Ahead(v, p, w, k, c, m),
           NEW s \in Nat, FirstSet(Flat(v, c), m, s)
    PROVE  Goal(p, w, k, EntrySet(Flat(v, c), s)) \/ Ahead(v, p, w, k, c, s + 1)
<1>1. PICK t \in DOMAIN Flat(v, c) :
        m <= t /\ Starts(Flat(v, c), t) /\ Goal(p, w, k, EntrySet(Flat(v, c), t))
    BY DEF Ahead
<1>2. t \in Int
    BY <1>1 DEF Flat
<1>3. ~ (t < s)
  <2>1. t < s => t \in m..(s - 1)
      BY <1>1, <1>2
  <2> QED
      BY <1>1, <2>1 DEF FirstSet, Quiet
<1>4. t = s \/ s + 1 <= t
    BY <1>2, <1>3
<1> QED
    BY <1>1, <1>4 DEF Ahead

\* A call returns from a directory without the set that is looked for.
LEMMA ToComeBelow ==
    ASSUME NEW v, NEW p, NEW w, NEW a \in Walks(v), a # << >>, ToCome(v, p, w, a),
           NoSetFrom(Flat(v, a[Len(a)].dir), a[Len(a)].dealt)
    PROVE  ToCome(v, p, w, Front(a))
<1>1. PICK n \in Nat \ {0} : n = Len(a)
    BY EmptySeq DEF Walks
<1>2. Len(Front(a)) = n - 1 /\ \A k \in 1..(n - 1) : Front(a)[k] = a[k]
    BY <1>1, FrontIs DEF Walks
<1>3. PICK k \in 1..n : a[k].dir = w[k] /\ Ahead(v, p, w, k, a[k].dir, a[k].dealt)
    BY <1>1 DEF ToCome
<1>4. k # n
    BY <1>1, <1>3 DEF Ahead, NoSetFrom
<1>5. k \in 1..(n - 1)
    BY <1>3, <1>4
<1> QED
    BY <1>2, <1>3, <1>5 DEF ToCome

\* A call deals with a set: that was the one looked for, or it is still to come.
LEMMA ToComeOrMet ==
    ASSUME NEW v, NEW p, NEW w, NEW a \in Walks(v), a # << >>, ToCome(v, p, w, a),
           NEW s \in Nat, FirstSet(Flat(v, a[Len(a)].dir), a[Len(a)].dealt, s)
    PROVE  \/ ToCome(v, p, w, Dealt(a, s + 1))
           \/ /\ a[Len(a)].dir = w[Len(a)]
              /\ Goal(p, w, Len(a), EntrySet(Flat(v, a[Len(a)].dir), s))
<1>1. PICK n \in Nat \ {0} : n = Len(a)
    BY EmptySeq DEF Walks
<1>2. PICK q \in Nat : q = s + 1
    OBVIOUS
<1>3. Len(Dealt(a, q)) = n
    BY <1>1, DealtIs
<1>4. Dealt(a, q)[n].dir = a[n].dir /\ Dealt(a, q)[n].dealt = q
    BY <1>1, DealtIs, SMTT(30)
<1>5. \A k \in 1..(n - 1) : Dealt(a, q)[k] = a[k]
    BY <1>1, DealtIs
<1>6. PICK k \in 1..n : a[k].dir = w[k] /\ Ahead(v, p, w, k, a[k].dir, a[k].dealt)
    BY <1>1 DEF ToCome
<1>7. CASE k # n
  <2>1. k \in 1..(n - 1)
      BY <1>6, <1>7
  <2>2. ToCome(v, p, w, Dealt(a, q))
      BY <1>3, <1>5, <1>6, <2>1 DEF ToCome
  <2> QED
      BY <1>2, <2>2
<1>8. CASE k = n
  <2>1. PICK m \in Nat : m = a[n].dealt
    <3>1. n \in 1..Len(a)
        BY <1>1
    <3>2. a[n] \in [dir : Directories(v), dealt : Nat]
        BY <3>1, ElementOfSeq DEF Walks
    <3> QED
        BY <3>2
  <2>2. PICK c : c = a[n].dir
      OBVIOUS
  <2>3. Goal(p, w, n, EntrySet(Flat(v, c), s)) \/ Ahead(v, p, w, n, c, s + 1)
    <3>1. Ahead(v, p, w, n, c, m) /\ FirstSet(Flat(v, c), m, s)
        BY <1>1, <1>6, <1>8, <2>1, <2>2
    <3> QED
        BY <3>1, AheadOrMet
  <2>4. Ahead(v, p, w, n, c, s + 1) => ToCome(v, p, w, Dealt(a, q))
    <3>1. n \in 1..Len(Dealt(a, q))
        BY <1>3
    <3> QED
        BY <1>2, <1>4, <1>6, <1>8, <2>2, <3>1 DEF ToCome
  <2> QED
      BY <1>1, <1>2, <1>6, <1>8, <2>2, <2>3, <2>4
<1> QED
    BY <1>7, <1>8

\* A call for the next directory of the trail has the set looked for in front of it.
LEMMA ToComeAbove ==
    ASSUME NEW v \in Volumes, NEW p \in Seq(Seq(Pieces)), NEW w, NEW a \in Walks(v),
           NEW d \in Directories(v),
           \/ ToCome(v, p, w, a)
           \/ FileBehind(v, p, w) /\ Len(a) + 1 <= Len(p) /\ d = w[Len(a) + 1]
    PROVE  ToCome(v, p, w, Append(a, [dir |-> d, dealt |-> 0]))
<1> DEFINE e == [dir |-> d, dealt |-> 0]
           b == Append(a, e)
<1>1. PICK n \in Nat : n = Len(a)
    BY LenProperties DEF Walks
<1>2. e \in [dir : Directories(v), dealt : Nat] /\ e.dir = d /\ e.dealt = 0
    OBVIOUS
<1> HIDE DEF e
<1>3. Len(b) = n + 1 /\ b[n + 1] = e /\ \A k \in 1..n : b[k] = a[k]
    BY <1>1, <1>2, AppendProperties DEF Walks
<1> HIDE DEF b
<1>4. CASE ToCome(v, p, w, a)
  <2>1. PICK k \in 1..n : a[k].dir = w[k] /\ Ahead(v, p, w, k, a[k].dir, a[k].dealt)
      BY <1>1, <1>4 DEF ToCome
  <2>2. k \in 1..Len(b) /\ b[k] = a[k]
      BY <1>3, <2>1
  <2> QED
      BY <2>1, <2>2 DEF ToCome, b, e
<1>5. CASE FileBehind(v, p, w) /\ Len(a) + 1 <= Len(p) /\ d = w[Len(a) + 1]
  <2>1. n + 1 \in 1..Len(p)
    <3>1. Len(p) \in Nat
        BY LenProperties
    <3> QED
        BY <1>1, <1>5, <3>1
  <2>2. Ahead(v, p, w, n + 1, w[n + 1], 0)
      BY <1>5, <2>1, GoalThere
  <2>3. n + 1 \in 1..Len(b) /\ b[n + 1].dir = w[n + 1] /\ b[n + 1].dealt = 0
      BY <1>1, <1>2, <1>3, <1>5
  <2> QED
      BY <2>2, <2>3 DEF ToCome, b, e
<1> QED
    BY <1>4, <1>5

\* The calls keep to the path when the one on top returns.
LEMMA TrailBelow ==
    ASSUME NEW v, NEW p \in Seq(Seq(Pieces)), NEW a \in Walks(v), a # << >>, OnTrail(v, p, a)
    PROVE  OnTrail(v, p, Front(a))
<1>1. PICK n \in Nat \ {0} : n = Len(a)
    BY EmptySeq DEF Walks
<1>2. Len(Front(a)) = n - 1 /\ \A k \in 1..(n - 1) : Front(a)[k] = a[k]
    BY <1>1, FrontIs DEF Walks
<1>3. Len(p) \in Nat /\ n - 1 <= Len(p)
    BY <1>1, LenProperties DEF OnTrail
<1>4. ASSUME NEW k \in 1..((n - 1) - 1)
      PROVE  \E set \in Named(v, Front(a)[k].dir, p[k], "directory") : Front(a)[k + 1].dir = set.first
  <2>1. k \in 1..(n - 1) /\ k + 1 \in 1..(n - 1)
      BY <1>1
  <2> QED
      BY <1>1, <1>2, <2>1 DEF OnTrail
<1> QED
    BY <1>2, <1>3, <1>4 DEF OnTrail

\* They do when it deals with a set.
LEMMA TrailDealt ==
    ASSUME NEW v, NEW p, NEW a \in Walks(v), a # << >>, OnTrail(v, p, a), NEW m \in Nat
    PROVE  OnTrail(v, p, Dealt(a, m))
<1>1. PICK n \in Nat \ {0} : n = Len(a)
    BY EmptySeq DEF Walks
<1>2. Len(Dealt(a, m)) = n
    BY <1>1, DealtIs
<1>3. \A k \in 1..n : Dealt(a, m)[k].dir = a[k].dir
    BY <1>1, DealtIs
<1>4. \A k \in 1..(n - 1) : k \in 1..n /\ k + 1 \in 1..n
    OBVIOUS
<1> QED
    BY <1>1, <1>2, <1>3, <1>4 DEF OnTrail

\* They do when it calls for the directory that the path names next.
LEMMA TrailAbove ==
    ASSUME NEW v, NEW p \in Seq(Seq(Pieces)), NEW a \in Walks(v), a # << >>, OnTrail(v, p, a),
           Len(a) < Len(p),
           NEW set \in Named(v, a[Len(a)].dir, p[Len(a)], "directory"),
           set.first \in Directories(v)
    PROVE  OnTrail(v, p, Append(a, [dir |-> set.first, dealt |-> 0]))
<1> DEFINE e == [dir |-> set.first, dealt |-> 0]
           b == Append(a, e)
<1>1. PICK n \in Nat \ {0} : n = Len(a)
    BY EmptySeq DEF Walks
<1>2. e \in [dir : Directories(v), dealt : Nat] /\ e.dir = set.first
    OBVIOUS
<1> HIDE DEF e
<1>3. Len(b) = n + 1 /\ b[n + 1] = e /\ \A k \in 1..n : b[k] = a[k]
    BY <1>1, <1>2, AppendProperties DEF Walks
<1> HIDE DEF b
<1>4. Len(p) \in Nat /\ n + 1 <= Len(p)
    BY <1>1, LenProperties
<1>5. ASSUME NEW k \in 1..((n + 1) - 1)
      PROVE  \E q \in Named(v, b[k].dir, p[k], "directory") : b[k + 1].dir = q.first
  <2>1. CASE k = n
      BY <1>1, <1>2, <1>3, <2>1, SMTT(30)
  <2>2. CASE k # n
    <3>1. k \in 1..(n - 1) /\ k \in 1..n /\ k + 1 \in 1..n
        BY <1>1, <2>2
    <3> QED
        BY <1>1, <1>3, <3>1 DEF OnTrail
  <2> QED
      BY <2>1, <2>2
<1> QED
    BY <1>3, <1>4, <1>5 DEF OnTrail, b, e

\* The data of a file that the path names in the last of its directories is what
\* is sought.
LEMMA FileFound ==
    ASSUME NEW v \in Volumes, NEW p \in Seq(Seq(Pieces)), NEW s, NEW a, WalkOf(v, s, a), s # << >>,
           OnTrail(v, p, a), Len(a) = Len(p),
           NEW set \in Named(v, a[Len(a)].dir, p[Len(a)], "file")
    PROVE  Data(v, set) \in Sought(v, p)
<1>1. PICK n \in Nat \ {0} : /\ n = Len(a) /\ n = Len(p) /\ n = Len(s)
                             /\ \A k \in 1..n : a[k].dir \in Directories(v)
    BY TopIs
<1> DEFINE w == [k \in 1..Len(p) |-> a[k].dir]
<1>2. w \in [1..Len(p) -> ClusterNumbers]
    BY <1>1, DirectoryIs
<1>3. w[1] = v.root /\ w[Len(p)] = a[n].dir
    BY <1>1 DEF WalkOf
<1>4. ASSUME NEW k \in 1..(Len(p) - 1)
      PROVE  \E q \in Named(v, w[k], p[k], "directory") : w[k + 1] = q.first
  <2>1. k \in 1..Len(p) /\ k + 1 \in 1..Len(p)
      BY <1>1
  <2> QED
      BY <1>1, <2>1 DEF OnTrail
<1> HIDE DEF w
<1>5. w \in Trails(v, p)
    BY <1>2, <1>3, <1>4 DEF Trails
<1>6. p # << >>
    BY <1>1, EmptySeq
<1>7. set \in Named(v, w[Len(p)], Last(p), "file")
    BY <1>1, <1>3 DEF Last
<1>8. set \in FilesAt(v, p)
    BY <1>5, <1>6, <1>7 DEF FilesAt
<1> QED
    BY <1>8 DEF Sought

\* The data is written, or nothing is, and the file is still to come if there is one.
SoFar(v, p, w, a) ==
    \/ w \in Sought(v, p)
    \/ w = << >> /\ \A t : FileBehind(v, p, t) => ToCome(v, p, t, a)

\* What get has done: it is copying the file at the path, or it is looking for it.
GetAt(a) ==
    /\ WalkOf(vol, stack, a) /\ OnTrail(vol, path, a)
    /\ At("copy") => /\ Len(a) = Len(path)
                     /\ SetOf(Top) \in Named(vol, a[Len(a)].dir, path[Len(a)], "file")
                     /\ CopyOf(vol, SetOf(Top), copy, written)
    /\ ~ At("copy") => SoFar(vol, path, written, a)

GetInv == vol \in Volumes /\ path \in Seq(Seq(Pieces)) /\ \E a : GetAt(a)

\* Nothing of the walk is gone through before it starts.
LEMMA GetInit == Init /\ command = "get" => GetInv
<1> SUFFICES ASSUME Init, command = "get" PROVE GetInv
    OBVIOUS
<1>1. vol \in Volumes /\ written = << >>
    BY DEF Init
<1>2. path \in Seq(Seq(Pieces))
    BY PathsAssumption DEF Init
<1>3. Len(path) \in Nat
    BY <1>2, LenProperties
<1>4. CASE path = << >>
  <2>1. stack = << >>
      BY <1>4 DEF Init
  <2>2. WalkOf(vol, stack, << >>) /\ Len(<< >>) = 0
      BY <2>1 DEF WalkOf, Walks
  <2>3. OnTrail(vol, path, << >>)
      BY <1>3, <2>2 DEF OnTrail
  <2>4. SoFar(vol, path, written, << >>) /\ ~ At("copy")
      BY <1>1, <1>4, <2>1 DEF SoFar, FileBehind, At
  <2>5. GetAt(<< >>)
      BY <2>2, <2>3, <2>4 DEF GetAt
  <2> QED
      BY <1>1, <1>2, <2>5 DEF GetInv
<1>5. CASE path # << >>
  <2>1. stack = <<Enter(vol, vol.root)>>
      BY <1>5 DEF Init
  <2>2. PICK a : a = <<[dir |-> vol.root, dealt |-> 0]>>
      OBVIOUS
  <2>3. WalkOf(vol, stack, a) /\ ~ At("copy")
      BY <1>1, <2>1, <2>2, WalkStarts
  <2>4. Len(a) = 1 /\ a[1].dir = vol.root /\ a[1].dealt = 0 /\ 1 \in 1..1 /\ 1..(1 - 1) = {}
      BY <2>2
  <2>5. Len(path) \in Nat \ {0} /\ 1 \in 1..Len(path)
      BY <1>2, <1>5, EmptySeq
  <2>6. OnTrail(vol, path, a)
      BY <2>4, <2>5 DEF OnTrail
  <2>7. ASSUME NEW t, FileBehind(vol, path, t) PROVE ToCome(vol, path, t, a)
    <3>1. Ahead(vol, path, t, 1, t[1], 0)
        BY <1>1, <1>2, <2>5, <2>7, GoalThere
    <3>2. t[1] = vol.root
        BY <2>7 DEF FileBehind, Trails
    <3> QED
        BY <2>4, <3>1, <3>2 DEF ToCome
  <2>8. SoFar(vol, path, written, a)
      BY <1>1, <2>7 DEF SoFar
  <2>9. GetAt(a)
      BY <2>3, <2>6, <2>8 DEF GetAt
  <2> QED
      BY <1>1, <1>2, <2>9 DEF GetInv
<1> QED
    BY <1>4, <1>5

\* Every step of get keeps to that.
LEMMA GetNext ==
    ASSUME GetInv, DFS
    PROVE  GetInv'
<1>1. PICK a : GetAt(a)
    BY DEF GetInv
<1>2. PICK v \in Volumes : v = vol /\ v = vol'
    BY DEF GetInv, DFS, Walk, ReadFile, ReadStream, ReadName, Loop, FindSet, Extract, EndExtract
<1>3. PICK p \in Seq(Seq(Pieces)) : p = path /\ p = path'
    BY DEF GetInv, DFS, Walk, ReadFile, ReadStream, ReadName, Loop, FindSet, Extract, EndExtract
<1>4. stack # << >>
    BY DEF DFS, Walk, ReadFile, ReadStream, ReadName, Loop, FindSet, Extract, EndExtract,
           SetRead, At
<1>5. WalkOf(v, stack, a) /\ OnTrail(v, p, a)
    BY <1>1, <1>2, <1>3 DEF GetAt
<1>6. PICK n \in Nat \ {0} :
        /\ n = Len(stack) /\ n = Len(a) /\ n \in 1..n
        /\ a \in Walks(v)
        /\ stack[n] \in Frames
        /\ a[n].dir \in Directories(v) /\ a[n].dealt \in Nat
    BY <1>4, <1>5, TopIs
<1>7. a # << >>
    BY <1>6, EmptySeq
<1>8. PICK c \in Directories(v) : c = a[n].dir /\ c = a[Len(a)].dir
    BY <1>6
<1>9. PICK f \in Frames : f = Top
    BY <1>6 DEF Top
<1>10. PICK set : set = SetOf(f)
    OBVIOUS
<1>10a. /\ set.attribute = f.set.attribute /\ set.name = f.set.name
       /\ set.first = f.set.first /\ set.length = f.set.length
    BY <1>10 DEF SetOf
<1>10b. /\ set = SetOf(Top) /\ set.attribute = Top.set.attribute
       /\ set.first = Top.set.first
    BY <1>9, <1>10, <1>10a
<1>11. ASSUME NEW b, WalkOf(vol', stack', b), OnTrail(v, p, b), ~ At("copy")',
              SoFar(v, p, written', b)
       PROVE  GetInv'
  <2>1. GetAt(b)'
      BY <1>2, <1>3, <1>11 DEF GetAt
  <2> QED
      BY <1>2, <1>3, <2>1 DEF GetInv
<1>12. ASSUME SetRead \/ At("copy")
       PROVE  \E s \in Nat :
                /\ FirstSet(Flat(v, c), a[Len(a)].dealt, s) /\ set = EntrySet(Flat(v, c), s)
                /\ Become(Resume) => WalkOf(vol', stack', Dealt(a, s + 1)) /\ ~ At("copy")'
                /\ set.attribute = "directory" /\ Call(set.first) =>
                     /\ WalkOf(vol', stack', Append(Dealt(a, s + 1), [dir |-> set.first, dealt |-> 0]))
                     /\ ~ At("copy")'
                /\ Dealt(a, s + 1) \in Walks(v) /\ Dealt(a, s + 1) # << >>
                /\ Len(Dealt(a, s + 1)) = n /\ Dealt(a, s + 1)[n].dir = c
                /\ OnTrail(v, p, Dealt(a, s + 1))
                /\ set \in Contents(v, c)
  <2>1. PICK s \in Nat :
             /\ FirstSet(Flat(v, c), a[Len(a)].dealt, s)
             /\ SetOf(Top) = EntrySet(Flat(v, c), s)
             /\ Become(Resume) => WalkOf(vol', stack', Dealt(a, s + 1)) /\ ~ At("copy")'
             /\ Top.set.attribute = "directory" /\ Call(Top.set.first) =>
                  /\ WalkOf(vol', stack',
                            Append(Dealt(a, s + 1), [dir |-> Top.set.first, dealt |-> 0]))
                  /\ ~ At("copy")'
    <3>1. vol \in Volumes /\ vol' = vol /\ WalkOf(vol, stack, a) /\ c = a[Len(a)].dir /\ v = vol
        BY <1>2, <1>5, <1>8
    <3> QED
        BY <1>12, <3>1, SetStep
  <2>2. PICK q \in Nat : q = s + 1
      OBVIOUS
  <2>3. Dealt(a, q) \in Walks(v) /\ Len(Dealt(a, q)) = n
      BY <1>6, DealtIs
  <2>4. Dealt(a, q)[n].dir = c
    <3>1. a \in Walks(v) /\ n = Len(a)
        BY <1>6
    <3>2. Dealt(a, q)[n].dir = a[n].dir
        BY <3>1, DealtIs, SMTT(30)
    <3> QED
        BY <1>8, <3>2
  <2>5. Dealt(a, q) # << >>
      BY <1>6, <2>3
  <2>6. OnTrail(v, p, Dealt(a, q))
      BY <1>5, <1>6, <1>7, TrailDealt
  <2>7. set \in Contents(v, c)
      BY <1>10b, <2>1, SetInContents DEF FirstSet
  <2>8. /\ set = EntrySet(Flat(v, c), s)
        /\ set.attribute = "directory" /\ Call(set.first) =>
             /\ WalkOf(vol', stack', Append(Dealt(a, s + 1), [dir |-> set.first, dealt |-> 0]))
             /\ ~ At("copy")'
      BY <1>10b, <2>1
  <2> QED
      BY <2>1, <2>2, <2>3, <2>4, <2>5, <2>6, <2>7, <2>8
<1>13. CASE Walk
  <2>1. /\ ~ At("copy")'
        /\ \/ WalkOf(vol', stack', a)
           \/ WalkOf(vol', stack', Front(a)) /\ NoSetFrom(Flat(v, c), a[Len(a)].dealt)
      BY <1>2, <1>5, <1>8, <1>13, WalkStep
  <2>2. ~ At("copy")
      BY <1>13 DEF Walk, ReadFile, ReadStream, ReadName, Loop, At
  <2>3. written' = written
      BY <1>13 DEF Walk, ReadFile, ReadStream, ReadName, Loop
  <2>4. SoFar(v, p, written', a)
      BY <1>1, <1>2, <1>3, <2>2, <2>3 DEF GetAt
  <2>5. CASE WalkOf(vol', stack', a)
      BY <1>5, <1>11, <2>1, <2>4, <2>5
  <2>6. CASE WalkOf(vol', stack', Front(a)) /\ NoSetFrom(Flat(v, c), a[Len(a)].dealt)
    <3>1. OnTrail(v, p, Front(a))
        BY <1>5, <1>6, <1>7, TrailBelow
    <3>2. ASSUME NEW t, ToCome(v, p, t, a) PROVE ToCome(v, p, t, Front(a))
        BY <1>6, <1>7, <1>8, <2>6, <3>2, ToComeBelow
    <3>3. SoFar(v, p, written', Front(a))
        BY <2>4, <3>2 DEF SoFar
    <3> QED
        BY <1>11, <2>1, <2>6, <3>1, <3>3
  <2> QED
      BY <2>1, <2>5, <2>6
<1>14. CASE FindSet
  <2>1. SetRead /\ ~ At("copy")
      BY <1>14 DEF FindSet, SetRead, At
  <2>2. SoFar(v, p, written, a)
      BY <1>1, <1>2, <1>3, <2>1 DEF GetAt
  <2>3. PICK s \in Nat :
                /\ FirstSet(Flat(v, c), a[Len(a)].dealt, s) /\ set = EntrySet(Flat(v, c), s)
                /\ Become(Resume) => WalkOf(vol', stack', Dealt(a, s + 1)) /\ ~ At("copy")'
                /\ set.attribute = "directory" /\ Call(set.first) =>
                     /\ WalkOf(vol', stack', Append(Dealt(a, s + 1), [dir |-> set.first, dealt |-> 0]))
                     /\ ~ At("copy")'
                /\ Dealt(a, s + 1) \in Walks(v) /\ Dealt(a, s + 1) # << >>
                /\ Len(Dealt(a, s + 1)) = n /\ Dealt(a, s + 1)[n].dir = c
                /\ OnTrail(v, p, Dealt(a, s + 1))
                /\ set \in Contents(v, c)
      BY <1>12, <2>1
  <2>4. PICK b : b = Dealt(a, s + 1)
      OBVIOUS
  <2>5. \A t : ToCome(v, p, t, a) => ToCome(v, p, t, b) \/ (c = t[n] /\ Goal(p, t, n, set))
    <3> SUFFICES ASSUME NEW t, ToCome(v, p, t, a)
                 PROVE  ToCome(v, p, t, b) \/ (c = t[n] /\ Goal(p, t, n, set))
        OBVIOUS
    <3>1. \/ ToCome(v, p, t, Dealt(a, s + 1))
          \/ a[Len(a)].dir = t[Len(a)] /\ Goal(p, t, Len(a), EntrySet(Flat(v, a[Len(a)].dir), s))
        BY <1>6, <1>7, <1>8, <2>3, ToComeOrMet
    <3> QED
        BY <1>6, <1>8, <2>3, <2>4, <3>1
  <2>6. n <= Len(p) /\ Len(p) \in Nat
      BY <1>5, <1>6, LenProperties DEF OnTrail
  <2>7. CASE set.attribute = "directory" /\ set.name = p[n] /\ n < Len(p) /\ Call(set.first)
             /\ UNCHANGED written
    <3>1. PICK d \in Directories(v) : d = set.first
        BY <2>3, <2>7, SubdirectoryFound
    <3>2. PICK e : e = Append(b, [dir |-> d, dealt |-> 0])
        OBVIOUS
    <3>3. WalkOf(vol', stack', e) /\ ~ At("copy")'
        BY <2>3, <2>4, <2>7, <3>1, <3>2
    <3>4. OnTrail(v, p, e)
      <4>1. set \in Named(v, b[Len(b)].dir, p[Len(b)], "directory")
          BY <2>3, <2>4, <2>7 DEF Named
      <4>2. Len(b) < Len(p) /\ b \in Walks(v) /\ b # << >> /\ OnTrail(v, p, b)
          BY <2>3, <2>4, <2>7
      <4> QED
          BY <3>1, <3>2, <4>1, <4>2, TrailAbove
    <3>5. ASSUME NEW t, FileBehind(v, p, t), ToCome(v, p, t, a) PROVE ToCome(v, p, t, e)
      <4>1. ToCome(v, p, t, b) \/ (Len(b) + 1 <= Len(p) /\ d = t[Len(b) + 1])
        <5>1. Goal(p, t, n, set) => d = t[n + 1]
            BY <2>7, <3>1 DEF Goal
        <5>2. n + 1 <= Len(p) /\ Len(b) = n
            BY <2>3, <2>4, <2>6, <2>7
        <5> QED
            BY <2>5, <3>5, <5>1, <5>2
      <4>2. b \in Walks(v)
          BY <2>3, <2>4
      <4> QED
          BY <3>2, <3>5, <4>1, <4>2, ToComeAbove
    <3>6. SoFar(v, p, written', e)
        BY <2>2, <2>7, <3>5 DEF SoFar
    <3> QED
        BY <1>11, <3>3, <3>4, <3>6
  <2>8. CASE set.attribute = "file" /\ set.name = p[n] /\ n = Len(p)
             /\ Become([Top EXCEPT !.at = "copy"]) /\ written' = << >>
             /\ copy' = [index |-> set.first, tmp |-> fat[set.first], size |-> 0, left |-> set.length]
    <3>1. WalkOf(vol', stack', a) /\ At("copy")' /\ Top'.set = Top.set
        BY <1>2, <1>5, <2>1, <2>8, CopyStarts
    <3>2. SetOf(Top)' = set
        BY <1>9, <1>10, <3>1 DEF SetOf
    <3>3. set \in Named(v, a[Len(a)].dir, p[Len(a)], "file")
        BY <1>6, <1>8, <2>3, <2>8 DEF Named
    <3>4. CopyOf(v, set, copy', written')
      <4>1. set.length \in Nat /\ set.first \in ClusterNumbers \cup {0}
          BY <1>10a DEF Frames, EntrySets
      <4>2. copy' = [index |-> set.first, tmp |-> v.fat[set.first], size |-> 0, left |-> set.length]
          BY <1>2, <2>8 DEF fat
      <4> QED
          BY <2>3, <2>8, <4>1, <4>2, CopyBegins
    <3>5. GetAt(a)'
        BY <1>2, <1>3, <1>5, <1>6, <2>8, <3>1, <3>2, <3>3, <3>4 DEF GetAt
    <3> QED
        BY <1>2, <1>3, <3>5 DEF GetInv
  <2>9. CASE /\ Become(Resume) /\ UNCHANGED written
             /\ ~ (set.attribute = "file" /\ set.name = p[n] /\ n = Len(p))
             /\ ~ (set.attribute = "directory" /\ set.name = p[n] /\ n < Len(p))
    <3>1. WalkOf(vol', stack', b) /\ ~ At("copy")' /\ OnTrail(v, p, b)
        BY <2>3, <2>4, <2>9
    <3>2. ASSUME NEW t, ToCome(v, p, t, a) PROVE ToCome(v, p, t, b)
      <4>1. ~ Goal(p, t, n, set)
          BY <2>6, <2>9 DEF Goal
      <4> QED
          BY <2>5, <3>2, <4>1
    <3>3. SoFar(v, p, written', b)
        BY <2>2, <2>9, <3>2 DEF SoFar
    <3> QED
        BY <1>11, <3>1, <3>3
  <2>10. /\ set.attribute = Top.set.attribute /\ set.name = Top.set.name
         /\ set.first = Top.set.first /\ set.length = Top.set.length
         /\ n = Len(stack) /\ p = path
      BY <1>3, <1>6, <1>9, <1>10a
  <2>11. /\ IsStep(Top.set, Len(stack)) <=> set.attribute = "directory" /\ set.name = p[n]
         /\ IsFile(Top.set, Len(stack)) <=>
              set.attribute = "file" /\ set.name = p[n] /\ n = Len(p)
      BY <2>10 DEF IsStep, IsFile
  <2>12. \/ /\ IsStep(Top.set, Len(stack)) /\ Len(stack) < Len(path)
            /\ Call(Top.set.first) /\ UNCHANGED written
         \/ /\ IsFile(Top.set, Len(stack))
            /\ Become([Top EXCEPT !.at = "copy"]) /\ written' = << >>
            /\ copy' = [index |-> Top.set.first, tmp |-> fat[Top.set.first],
                        size |-> 0, left |-> Top.set.length]
         \/ /\ ~ IsFile(Top.set, Len(stack))
            /\ ~ (IsStep(Top.set, Len(stack)) /\ Len(stack) < Len(path))
            /\ Become(Resume) /\ UNCHANGED written
      BY <1>14 DEF FindSet
  <2> QED
      BY <2>7, <2>8, <2>9, <2>10, <2>11, <2>12
<1>15. CASE Extract
  <2>1. /\ At("copy") /\ copy.left > 0
        /\ written' = Append(written, <<copy.index, copy.size>>)
        /\ copy' = [NextUnit(copy) EXCEPT !.left = @ - 1]
        /\ stack' = stack
      BY <1>15 DEF Extract
  <2>2. At("copy")' /\ SetOf(Top)' = SetOf(Top)
      BY <2>1 DEF At, Top
  <2>3. /\ Len(a) = Len(p) /\ SetOf(Top) \in Named(v, a[Len(a)].dir, p[Len(a)], "file")
        /\ CopyOf(v, SetOf(Top), copy, written)
      BY <1>1, <1>2, <1>3, <2>1 DEF GetAt
  <2>4. SetOf(Top) \in Contents(v, c) /\ SetOf(Top).attribute = "file"
      BY <1>8, <2>3 DEF Named
  <2>5. CopyOf(v, SetOf(Top), copy', written')
      BY <1>2, <2>1, <2>3, <2>4, CopyGoesOn
  <2>6. GetAt(a)'
      BY <1>2, <1>3, <1>5, <2>1, <2>2, <2>3, <2>5 DEF GetAt
  <2> QED
      BY <1>2, <1>3, <2>6 DEF GetInv
<1>16. CASE EndExtract
  <2>1. At("copy") /\ copy.left = 0 /\ Become(Resume) /\ written' = written
      BY <1>16 DEF EndExtract
  <2>2. PICK s \in Nat : /\ WalkOf(vol', stack', Dealt(a, s + 1)) /\ ~ At("copy")'
                         /\ OnTrail(v, p, Dealt(a, s + 1))
      BY <1>12, <2>1
  <2>3. /\ Len(a) = Len(p) /\ SetOf(Top) \in Named(v, a[Len(a)].dir, p[Len(a)], "file")
        /\ CopyOf(v, SetOf(Top), copy, written)
      BY <1>1, <1>2, <1>3, <2>1 DEF GetAt
  <2>4. written = Data(v, SetOf(Top))
      BY <2>1, <2>3, CopyEnds
  <2>5. written \in Sought(v, p)
      BY <1>4, <1>5, <2>3, <2>4, FileFound
  <2>6. SoFar(v, p, written', Dealt(a, s + 1))
      BY <2>1, <2>5 DEF SoFar
  <2> QED
      BY <1>11, <2>2, <2>6
<1> QED
    BY <1>13, <1>14, <1>15, <1>16 DEF DFS

\* When the walk is over, what is written is what is sought.
LEMMA GetEnds == GetInv => ExtractsTheFile
<1> SUFFICES ASSUME GetInv, stack = << >>
             PROVE  IF Sought(vol, path) = {} THEN written = << >> ELSE written \in Sought(vol, path)
    BY DEF ExtractsTheFile
<1>1. PICK a : GetAt(a)
    BY DEF GetInv
<1>2. SoFar(vol, path, written, a) /\ Len(a) = 0
    BY <1>1 DEF GetAt, At, WalkOf
<1>3. ASSUME Sought(vol, path) # {} PROVE written \in Sought(vol, path)
  <2>1. path # << >> /\ \E t \in Trails(vol, path) : Named(vol, t[Len(path)], Last(path), "file") # {}
      BY <1>3 DEF Sought, FilesAt
  <2>2. PICK t : FileBehind(vol, path, t)
      BY <2>1 DEF FileBehind
  <2>3. ~ ToCome(vol, path, t, a)
      BY <1>2 DEF ToCome
  <2> QED
      BY <1>2, <2>2, <2>3 DEF SoFar
<1>4. Sought(vol, path) = {} => written = << >>
    BY <1>2 DEF SoFar
<1> QED
    BY <1>3, <1>4

\* get of exfat.c writes the data of the file at the path, to the last unit and in
\* order, and nothing if there is no such file: for any path, any size of a
\* cluster and any chains, on every volume with sound directories and whole files.
THEOREM FileExtracted == MCSpec => []ExtractsTheFile
<1> DEFINE Inv == command = "get" => GetInv
<1>1. MCInit => Inv
    BY GetInit DEF MCInit, NoReader
<1>2. Inv /\ [MCNext \/ Stopped]_allVars => Inv'
  <2> SUFFICES ASSUME Inv, [MCNext \/ Stopped]_allVars PROVE Inv'
      OBVIOUS
  <2>1. CASE List
      BY <2>1 DEF List, Walk, ReadFile, ReadStream, ReadName, Loop, ListSet
  <2>2. CASE DFS
    <3>1. command' = command /\ command = "get"
        BY <2>2 DEF DFS, Walk, ReadFile, ReadStream, ReadName, Loop, FindSet, Extract, EndExtract
    <3> QED
        BY <2>2, <3>1, GetNext
  <2>3. CASE UNCHANGED <<program, vars>>
      BY <2>3 DEF vars, GetInv, GetAt, At, Top
  <2> QED
      BY <2>1, <2>2, <2>3 DEF MCNext, RunReader, RunCheck, Stopped, allVars
<1>3. Inv => ExtractsTheFile
    BY GetEnds DEF ExtractsTheFile
<1> QED
    BY <1>1, <1>2, <1>3, PTL DEF MCSpec
-----------------------------------------------------------------------------
(* list: the levels of the tree, and the lines of a directory *)

\* The directories a level below some.
Under(v, dirs) == UNION {Subdirectories(v, c) : c \in dirs}

\* The first n levels, as levels of Levels computes them.
Layers(v, levels, n) ==
    levels = [k \in 0..n |-> IF k = 0 THEN {v.root} ELSE Under(v, levels[k - 1])]

\* The levels of directories exist, down to any depth.
LEMMA LayersExist == \A v : \A n \in Nat : \E levels : Layers(v, levels, n)
<1> SUFFICES ASSUME NEW v PROVE \A n \in Nat : \E levels : Layers(v, levels, n)
    OBVIOUS
<1> DEFINE S == {n \in Nat : \E levels : Layers(v, levels, n)}
<1>1. 0 \in S
  <2>1. Layers(v, [k \in 0..0 |-> {v.root}], 0)
      BY DEF Layers
  <2> QED
      BY <2>1
<1>2. ASSUME NEW n \in Nat, n \in S PROVE n + 1 \in S
  <2>1. PICK levels : Layers(v, levels, n)
      BY <1>2
  <2> DEFINE longer == [k \in 0..(n + 1) |-> IF k = n + 1 THEN Under(v, levels[n]) ELSE levels[k]]
  <2>2. ASSUME NEW k \in 0..(n + 1)
        PROVE  longer[k] = IF k = 0 THEN {v.root} ELSE Under(v, longer[k - 1])
    <3>1. CASE k = n + 1
        BY <3>1
    <3>2. CASE k # n + 1
      <4>1. k \in 0..n /\ longer[k] = levels[k]
          BY <3>2
      <4>2. levels[k] = IF k = 0 THEN {v.root} ELSE Under(v, levels[k - 1])
          BY <2>1, <4>1 DEF Layers
      <4>3. k # 0 => longer[k - 1] = levels[k - 1]
          BY <4>1
      <4> QED
          BY <4>1, <4>2, <4>3
    <3> QED
        BY <3>1, <3>2
  <2>3. Layers(v, longer, n + 1)
    <3> HIDE DEF longer
    <3>1. longer = [k \in 0..(n + 1) |-> longer[k]]
        BY DEF longer
    <3> QED
        BY <2>2, <3>1 DEF Layers
  <2> QED
      BY <2>3
<1> HIDE DEF S
<1>3. \A n \in Nat : n \in S
    BY <1>1, <1>2, SetInduction
<1> QED
    BY <1>3 DEF S

\* The levels of the tree are the root directory, and under each level the next.
LEMMA LevelsAre ==
    ASSUME NEW v
    PROVE  /\ Levels(v)[0] = {v.root}
           /\ \A k \in 1..Clusters : Levels(v)[k] = Under(v, Levels(v)[k - 1])
<1> DEFINE levels[k \in 0..Clusters] ==
             IF k = 0 THEN {v.root}
             ELSE UNION {Subdirectories(v, c) : c \in levels[k - 1]}
<1>1. Levels(v) = levels
    BY DEF Levels
<1>2. Layers(v, levels, Clusters)
  <2>1. PICK f : Layers(v, f, Clusters)
      BY LayersExist, SizeAssumption
  <2>2. f = [k \in 0..Clusters |->
                IF k = 0 THEN {v.root} ELSE UNION {Subdirectories(v, c) : c \in f[k - 1]}]
      BY <2>1 DEF Layers, Under
  <2>3. \E g : g = [k \in 0..Clusters |->
                IF k = 0 THEN {v.root} ELSE UNION {Subdirectories(v, c) : c \in g[k - 1]}]
      BY <2>2
  <2> QED
      BY <2>3 DEF Layers, Under
<1> HIDE DEF levels
<1>3. ASSUME NEW k \in 0..Clusters
      PROVE  levels[k] = IF k = 0 THEN {v.root} ELSE Under(v, levels[k - 1])
    BY <1>2 DEF Layers
<1>4. 0 \in 0..Clusters /\ \A k \in 1..Clusters : k \in 0..Clusters /\ k # 0
    BY SizeAssumption
<1> QED
    BY <1>1, <1>3, <1>4

\* A subdirectory is a level deeper, and in the tree there is room for it.
LEMMA LevelBelow ==
    ASSUME NEW v \in Volumes, NEW k \in 1..Clusters, NEW c \in Levels(v)[k - 1],
           NEW first \in Subdirectories(v, c)
    PROVE  k + 1 <= Clusters /\ first \in Levels(v)[k]
<1>1. first \in Levels(v)[k]
    BY LevelsAre DEF Under
<1>2. Levels(v)[Clusters] = {}
    BY TreeAssumption
<1> QED
    BY <1>1, <1>2, SizeAssumption

\* What the next slot adds to the lines of the slots before it.
Added(v, c, level, below, lines, n) ==
    IF Starts(Flat(v, c), n) THEN lines \o Shown(EntrySet(Flat(v, c), n), level, below) ELSE lines

\* The lines of up to n slots, as listing of Listing computes them.
Lists(v, c, level, below, listing, n) ==
    listing = [k \in 0..n |->
                 IF k = 0 THEN << >> ELSE Added(v, c, level, below, listing[k - 1], k - 1)]

\* The lines of the first slots of a directory exist, for any number of slots.
LEMMA ListsExist ==
    \A v, c, level, below : \A n \in Nat : \E listing : Lists(v, c, level, below, listing, n)
<1> SUFFICES ASSUME NEW v, NEW c, NEW level, NEW below
             PROVE \A n \in Nat : \E listing : Lists(v, c, level, below, listing, n)
    OBVIOUS
<1> DEFINE S == {n \in Nat : \E listing : Lists(v, c, level, below, listing, n)}
<1>1. 0 \in S
  <2>1. Lists(v, c, level, below, [k \in 0..0 |-> << >>], 0)
      BY DEF Lists
  <2> QED
      BY <2>1
<1>2. ASSUME NEW n \in Nat, n \in S PROVE n + 1 \in S
  <2>1. PICK listing : Lists(v, c, level, below, listing, n)
      BY <1>2
  <2> DEFINE longer == [k \in 0..(n + 1) |->
                          IF k = n + 1 THEN Added(v, c, level, below, listing[n], n) ELSE listing[k]]
  <2>2. ASSUME NEW k \in 0..(n + 1)
        PROVE  longer[k] = IF k = 0 THEN << >> ELSE Added(v, c, level, below, longer[k - 1], k - 1)
    <3>1. CASE k = n + 1
        BY <3>1
    <3>2. CASE k # n + 1
      <4>1. k \in 0..n /\ longer[k] = listing[k]
          BY <3>2
      <4>2. listing[k] = IF k = 0 THEN << >> ELSE Added(v, c, level, below, listing[k - 1], k - 1)
          BY <2>1, <4>1 DEF Lists
      <4>3. k # 0 => longer[k - 1] = listing[k - 1]
          BY <4>1
      <4> QED
          BY <4>1, <4>2, <4>3
    <3> QED
        BY <3>1, <3>2
  <2>3. Lists(v, c, level, below, longer, n + 1)
    <3> HIDE DEF longer
    <3>1. longer = [k \in 0..(n + 1) |-> longer[k]]
        BY DEF longer
    <3> QED
        BY <2>2, <3>1 DEF Lists
  <2> QED
      BY <2>3
<1> HIDE DEF S
<1>3. \A n \in Nat : n \in S
    BY <1>1, <1>2, SetInduction
<1> QED
    BY <1>3 DEF S

\* The number of slots of a directory.
LEMMA SlotsOf ==
    ASSUME NEW v \in Volumes, NEW c \in Directories(v)
    PROVE  \E size \in Nat : DOMAIN Flat(v, c) = 0..(size - 1) /\ Cardinality(DOMAIN Flat(v, c)) = size
<1>1. PICK size \in Nat : size = Len(Chain(v, c)) * Slots
    BY ChainIs, SizeAssumption
<1>2. DOMAIN Flat(v, c) = 0..(size - 1)
    BY <1>1 DEF Flat
<1>3. Cardinality(0..(size - 1)) = size
  <2>1. 0 \in Int /\ size - 1 \in Int
      BY <1>1
  <2>2. Cardinality(0..(size - 1)) = IF 0 > size - 1 THEN 0 ELSE (size - 1) - 0 + 1
      BY <2>1, FS_Interval
  <2> QED
      BY <2>2
<1> QED
    BY <1>2, <1>3

\* The lines of a directory start with none, and each slot adds its own.
LEMMA ListingIs ==
    ASSUME NEW v \in Volumes, NEW c \in Directories(v), NEW level, NEW below, NEW size \in Nat,
           size = Cardinality(DOMAIN Flat(v, c))
    PROVE  /\ Listing(v, c, level, below)[0] = << >>
           /\ \A n \in 0..(size - 1) :
                Listing(v, c, level, below)[n + 1] =
                  Added(v, c, level, below, Listing(v, c, level, below)[n], n)
<1> DEFINE flat == Flat(v, c)
           listing[n \in 0..Cardinality(DOMAIN flat)] ==
             IF n = 0 THEN << >>
             ELSE IF Starts(flat, n - 1)
                  THEN listing[n - 1] \o Shown(EntrySet(flat, n - 1), level, below)
                  ELSE listing[n - 1]
<1>1. Listing(v, c, level, below) = listing
    BY DEF Listing
<1>2. Lists(v, c, level, below, listing, Cardinality(DOMAIN flat))
  <2>1. PICK f : Lists(v, c, level, below, f, Cardinality(DOMAIN flat))
      BY ListsExist
  <2>2. f = [n \in 0..Cardinality(DOMAIN flat) |->
               IF n = 0 THEN << >>
               ELSE IF Starts(flat, n - 1)
                    THEN f[n - 1] \o Shown(EntrySet(flat, n - 1), level, below)
                    ELSE f[n - 1]]
      BY <2>1 DEF Lists, Added
  <2>3. \E g : g = [n \in 0..Cardinality(DOMAIN flat) |->
               IF n = 0 THEN << >>
               ELSE IF Starts(flat, n - 1)
                    THEN g[n - 1] \o Shown(EntrySet(flat, n - 1), level, below)
                    ELSE g[n - 1]]
      BY <2>2
  <2> QED
      BY <2>3 DEF Lists, Added
<1> HIDE DEF listing
<1>3. ASSUME NEW k \in 0..size
      PROVE  listing[k] = IF k = 0 THEN << >> ELSE Added(v, c, level, below, listing[k - 1], k - 1)
    BY <1>2, <1>3 DEF Lists
<1>4. 0 \in 0..size /\ \A n \in 0..(size - 1) : n + 1 \in 0..size /\ n + 1 # 0 /\ (n + 1) - 1 = n
    OBVIOUS
<1> QED
    BY <1>1, <1>3, <1>4

\* The lines of every directory and all below it, at most h levels, from those
\* at most one level less.
Higher(v, below, h) ==
    [c \in ClusterNumbers |-> Listing(v, c, Clusters - h, below)[Cardinality(DOMAIN Flat(v, c))]]

\* The first n of them, as lines of Lines computes them.
Heaps(v, lines, n) ==
    lines = [h \in 0..n |->
               IF h = 0 THEN [c \in ClusterNumbers |-> << >>] ELSE Higher(v, lines[h - 1], h)]

\* The lines of the directories with all below them exist, for any number of levels.
LEMMA HeapsExist == \A v : \A n \in Nat : \E lines : Heaps(v, lines, n)
<1> SUFFICES ASSUME NEW v PROVE \A n \in Nat : \E lines : Heaps(v, lines, n)
    OBVIOUS
<1> DEFINE S == {n \in Nat : \E lines : Heaps(v, lines, n)}
<1>1. 0 \in S
  <2>1. Heaps(v, [h \in 0..0 |-> [c \in ClusterNumbers |-> << >>]], 0)
      BY DEF Heaps
  <2> QED
      BY <2>1
<1>2. ASSUME NEW n \in Nat, n \in S PROVE n + 1 \in S
  <2>1. PICK lines : Heaps(v, lines, n)
      BY <1>2
  <2> DEFINE longer == [k \in 0..(n + 1) |->
                          IF k = n + 1 THEN Higher(v, lines[n], k) ELSE lines[k]]
  <2>2. ASSUME NEW k \in 0..(n + 1)
        PROVE  longer[k] = IF k = 0 THEN [c \in ClusterNumbers |-> << >>]
                           ELSE Higher(v, longer[k - 1], k)
    <3>1. CASE k = n + 1
        BY <3>1
    <3>2. CASE k # n + 1
      <4>1. k \in 0..n /\ longer[k] = lines[k]
          BY <3>2
      <4>2. lines[k] = IF k = 0 THEN [c \in ClusterNumbers |-> << >>]
                       ELSE Higher(v, lines[k - 1], k)
          BY <2>1, <4>1 DEF Heaps
      <4>3. k # 0 => longer[k - 1] = lines[k - 1]
          BY <4>1
      <4> QED
          BY <4>1, <4>2, <4>3
    <3> QED
        BY <3>1, <3>2
  <2>3. Heaps(v, longer, n + 1)
    <3> HIDE DEF longer
    <3>1. longer = [k \in 0..(n + 1) |-> longer[k]]
        BY DEF longer
    <3> QED
        BY <2>2, <3>1 DEF Heaps
  <2> QED
      BY <2>3
<1> HIDE DEF S
<1>3. \A n \in Nat : n \in S
    BY <1>1, <1>2, SetInduction
<1> QED
    BY <1>3 DEF S

\* The lines that the k-th call owes for a directory: of its first n slots, and
\* of all of them.
Owed(v, k, c, n) == Listing(v, c, k - 1, Lines(v)[Clusters - k])[n]
Whole(v, k, c) == Lines(v)[Clusters - k + 1][c]

\* All of them are those of its last slot.
LEMMA LinesAre ==
    ASSUME NEW v, NEW c \in ClusterNumbers
    PROVE  /\ Lines(v)[0][c] = << >>
           /\ \A k \in 1..Clusters : Whole(v, k, c) = Owed(v, k, c, Cardinality(DOMAIN Flat(v, c)))
<1> DEFINE lines[h \in 0..Clusters] ==
             [x \in ClusterNumbers |->
                IF h = 0 THEN << >>
                ELSE Listing(v, x, Clusters - h, lines[h - 1])[Cardinality(DOMAIN Flat(v, x))]]
<1>1. Lines(v) = lines
    BY DEF Lines
<1>2. lines = [h \in 0..Clusters |->
                 [x \in ClusterNumbers |->
                    IF h = 0 THEN << >>
                    ELSE Listing(v, x, Clusters - h, lines[h - 1])[Cardinality(DOMAIN Flat(v, x))]]]
  <2>1. PICK f : Heaps(v, f, Clusters)
      BY HeapsExist, SizeAssumption
  <2>2. f = [h \in 0..Clusters |->
               [x \in ClusterNumbers |->
                  IF h = 0 THEN << >>
                  ELSE Listing(v, x, Clusters - h, f[h - 1])[Cardinality(DOMAIN Flat(v, x))]]]
    <3>1. ASSUME NEW h \in 0..Clusters
          PROVE  f[h] = [x \in ClusterNumbers |->
                  IF h = 0 THEN << >>
                  ELSE Listing(v, x, Clusters - h, f[h - 1])[Cardinality(DOMAIN Flat(v, x))]]
        BY <2>1 DEF Heaps, Higher
    <3>2. f = [h \in 0..Clusters |-> f[h]]
        BY <2>1 DEF Heaps
    <3> QED
        BY <3>1, <3>2
  <2>3. \E g : g = [h \in 0..Clusters |->
               [x \in ClusterNumbers |->
                  IF h = 0 THEN << >>
                  ELSE Listing(v, x, Clusters - h, g[h - 1])[Cardinality(DOMAIN Flat(v, x))]]]
      BY <2>2
  <2> QED
      BY <2>3
<1> HIDE DEF lines
<1>3. ASSUME NEW h \in 0..Clusters
      PROVE  lines[h][c] = IF h = 0 THEN << >>
                           ELSE Listing(v, c, Clusters - h, lines[h - 1])[Cardinality(DOMAIN Flat(v, c))]
  <2>1. lines[h] = [x \in ClusterNumbers |->
                      IF h = 0 THEN << >>
                      ELSE Listing(v, x, Clusters - h, lines[h - 1])[Cardinality(DOMAIN Flat(v, x))]]
      BY <1>2
  <2> QED
      BY <2>1
<1>4. lines[0][c] = << >>
    BY <1>3, SizeAssumption
<1>5. ASSUME NEW k \in 1..Clusters
      PROVE  Whole(v, k, c) = Owed(v, k, c, Cardinality(DOMAIN Flat(v, c)))
  <2>1. PICK h \in 0..Clusters : h = Clusters - k + 1 /\ h # 0 /\ h - 1 = Clusters - k
                                 /\ Clusters - h = k - 1
      BY SizeAssumption
  <2> QED
      BY <1>1, <1>3, <2>1 DEF Whole, Owed
<1> QED
    BY <1>1, <1>4, <1>5

\* The lines there can be.
LineSet(v) ==
    [level : Nat, kind : {"Directory", "File"},
     name : {set.name : set \in UNION {Contents(v, c) : c \in Directories(v)}}]

\* What a set shows is lines, if what is below the directory is.
LEMMA ShownIs ==
    ASSUME NEW v \in Volumes, NEW c \in Directories(v), NEW n \in DOMAIN Flat(v, c),
           Starts(Flat(v, c), n), NEW level \in Nat, NEW below,
           \A d \in Directories(v) : below[d] \in Seq(LineSet(v))
    PROVE  Shown(EntrySet(Flat(v, c), n), level, below) \in Seq(LineSet(v))
<1>1. PICK set : set = EntrySet(Flat(v, c), n) /\ set \in Contents(v, c)
    BY SetInContents
<1>2. ASSUME NEW kind \in {"Directory", "File"}
      PROVE  <<[level |-> level, kind |-> kind, name |-> set.name]>> \in Seq(LineSet(v))
    BY <1>1 DEF LineSet
<1>3. CASE set.attribute = "directory"
  <2>1. FirstSet(Flat(v, c), n, n)
      BY SlotsOf DEF FirstSet, Quiet
  <2>2. set.first \in Directories(v)
      BY <1>1, <1>3, <2>1, SubdirectoryFound
  <2>3. below[set.first] \in Seq(LineSet(v))
      BY <2>2
  <2>4. <<[level |-> level, kind |-> "Directory", name |-> set.name]>> \o below[set.first]
          \in Seq(LineSet(v))
      BY <1>2, <2>3, ConcatProperties
  <2> QED
      BY <1>1, <1>3, <2>4 DEF Shown
<1>4. CASE set.attribute = "file"
    BY <1>1, <1>2, <1>4 DEF Shown
<1>5. CASE set.attribute \notin {"directory", "file"}
    BY <1>1, <1>5 DEF Shown
<1> QED
    BY <1>3, <1>4, <1>5

\* So the lines of a directory are, of any of its first slots.
LEMMA ListingTyped ==
    ASSUME NEW v \in Volumes, NEW c \in Directories(v), NEW level \in Nat, NEW below,
           \A d \in Directories(v) : below[d] \in Seq(LineSet(v))
    PROVE  \A n \in 0..Cardinality(DOMAIN Flat(v, c)) :
             Listing(v, c, level, below)[n] \in Seq(LineSet(v))
<1>1. PICK size \in Nat : size = Cardinality(DOMAIN Flat(v, c)) /\ DOMAIN Flat(v, c) = 0..(size - 1)
    BY SlotsOf
<1>2. PICK l : l = Listing(v, c, level, below)
    OBVIOUS
<1>3. l[0] = << >> /\ \A n \in 0..(size - 1) : l[n + 1] = Added(v, c, level, below, l[n], n)
  <2>1. size = Cardinality(DOMAIN Flat(v, c))
      BY <1>1
  <2>2. /\ Listing(v, c, level, below)[0] = << >>
        /\ \A n \in 0..(size - 1) :
             Listing(v, c, level, below)[n + 1] =
               Added(v, c, level, below, Listing(v, c, level, below)[n], n)
      BY <2>1, ListingIs
  <2> QED
      BY <1>2, <2>2
<1> DEFINE S == {n \in Nat : n <= size => l[n] \in Seq(LineSet(v))}
<1>4. 0 \in S
  <2>1. << >> \in Seq(LineSet(v))
      OBVIOUS
  <2> QED
      BY <1>3, <2>1
<1>5. ASSUME NEW n \in Nat, n \in S PROVE n + 1 \in S
  <2> SUFFICES ASSUME n + 1 <= size PROVE l[n + 1] \in Seq(LineSet(v))
      OBVIOUS
  <2>1. n \in 0..(size - 1) /\ l[n] \in Seq(LineSet(v)) /\ n \in DOMAIN Flat(v, c)
    <3>1. n <= size /\ n \in 0..(size - 1)
        OBVIOUS
    <3>2. l[n] \in Seq(LineSet(v))
        BY <1>5, <3>1
    <3> QED
        BY <1>1, <3>1, <3>2
  <2>2. l[n + 1] = Added(v, c, level, below, l[n], n)
      BY <1>3, <2>1
  <2>3. CASE Starts(Flat(v, c), n)
    <3>1. Shown(EntrySet(Flat(v, c), n), level, below) \in Seq(LineSet(v))
        BY <2>1, <2>3, ShownIs
    <3>2. l[n] \o Shown(EntrySet(Flat(v, c), n), level, below) \in Seq(LineSet(v))
        BY <2>1, <3>1, ConcatProperties
    <3> QED
        BY <2>2, <2>3, <3>2 DEF Added
  <2>4. CASE ~ Starts(Flat(v, c), n)
      BY <2>1, <2>2, <2>4 DEF Added
  <2> QED
      BY <2>3, <2>4
<1> HIDE DEF S
<1>6. \A n \in Nat : n \in S
    BY <1>4, <1>5, SetInduction
<1> QED
    BY <1>1, <1>2, <1>6 DEF S

\* The lines of every directory are lines.
LEMMA LinesTyped ==
    ASSUME NEW v \in Volumes
    PROVE  \A h \in 0..Clusters : \A c \in Directories(v) : Lines(v)[h][c] \in Seq(LineSet(v))
<1> DEFINE S == {h \in Nat : h <= Clusters =>
                   \A c \in Directories(v) : Lines(v)[h][c] \in Seq(LineSet(v))}
<1>1. 0 \in S
  <2>1. << >> \in Seq(LineSet(v))
      OBVIOUS
  <2>2. ASSUME NEW c \in Directories(v) PROVE Lines(v)[0][c] = << >>
      BY DirectoryIs, LinesAre
  <2> QED
      BY <2>1, <2>2
<1>2. ASSUME NEW h \in Nat, h \in S PROVE h + 1 \in S
  <2> SUFFICES ASSUME h + 1 <= Clusters, NEW c \in Directories(v)
               PROVE  Lines(v)[h + 1][c] \in Seq(LineSet(v))
      OBVIOUS
  <2>1. PICK k \in 1..Clusters : k = Clusters - h /\ Clusters - k = h /\ Clusters - k + 1 = h + 1
                                 /\ k - 1 \in Nat
      BY SizeAssumption
  <2>2. PICK size \in Nat : size = Cardinality(DOMAIN Flat(v, c))
      BY SlotsOf
  <2>3. Lines(v)[h + 1][c] = Owed(v, k, c, size)
      BY <2>1, <2>2, DirectoryIs, LinesAre DEF Whole
  <2>4. \A d \in Directories(v) : Lines(v)[h][d] \in Seq(LineSet(v))
    <3>1. h <= Clusters
        BY SizeAssumption
    <3> QED
        BY <1>2, <3>1
  <2>5. PICK below : below = Lines(v)[h]
      OBVIOUS
  <2>6. \A n \in 0..size : Listing(v, c, k - 1, below)[n] \in Seq(LineSet(v))
    <3>1. \A d \in Directories(v) : below[d] \in Seq(LineSet(v))
        BY <2>4, <2>5
    <3> QED
        BY <2>1, <2>2, <3>1, ListingTyped
  <2>7. size \in 0..size
      OBVIOUS
  <2> QED
      BY <2>1, <2>3, <2>5, <2>6, <2>7 DEF Owed
<1> HIDE DEF S
<1>3. \A h \in Nat : h \in S
    BY <1>1, <1>2, SetInduction
<1> QED
    BY <1>3, SizeAssumption DEF S

\* What a call owes are lines.
LEMMA OwedTyped ==
    ASSUME NEW v \in Volumes, NEW c \in Directories(v), NEW k \in 1..Clusters
    PROVE  /\ Whole(v, k, c) \in Seq(LineSet(v))
           /\ \A n \in 0..Cardinality(DOMAIN Flat(v, c)) : Owed(v, k, c, n) \in Seq(LineSet(v))
<1>1. PICK h \in 0..Clusters : h = Clusters - k /\ h + 1 \in 0..Clusters /\ Clusters - k + 1 = h + 1
                               /\ k - 1 \in Nat
    BY SizeAssumption
<1>2. PICK below : below = Lines(v)[h]
    OBVIOUS
<1>3. \A d \in Directories(v) : below[d] \in Seq(LineSet(v))
    BY <1>1, <1>2, LinesTyped
<1>4. \A n \in 0..Cardinality(DOMAIN Flat(v, c)) : Listing(v, c, k - 1, below)[n] \in Seq(LineSet(v))
    BY <1>1, <1>3, ListingTyped
<1>5. Whole(v, k, c) \in Seq(LineSet(v))
    BY <1>1, LinesTyped DEF Whole
<1> QED
    BY <1>1, <1>2, <1>4, <1>5 DEF Owed

\* Slots in which no set starts add nothing to what a call owes.
LEMMA OwedQuiet ==
    ASSUME NEW v \in Volumes, NEW c \in Directories(v), NEW k \in Nat, NEW m \in Nat
    PROVE  \A n \in Nat : m + n <= Cardinality(DOMAIN Flat(v, c)) /\ Quiet(Flat(v, c), m, m + n) =>
             Owed(v, k, c, m + n) = Owed(v, k, c, m)
<1>1. PICK size \in Nat : size = Cardinality(DOMAIN Flat(v, c))
    BY SlotsOf
<1>2. PICK l : l = Listing(v, c, k - 1, Lines(v)[Clusters - k])
    OBVIOUS
<1>3. ASSUME NEW n \in 0..(size - 1), ~ Starts(Flat(v, c), n) PROVE l[n + 1] = l[n]
  <2>1. Listing(v, c, k - 1, Lines(v)[Clusters - k])[n + 1] =
          Added(v, c, k - 1, Lines(v)[Clusters - k], Listing(v, c, k - 1, Lines(v)[Clusters - k])[n], n)
      BY <1>1, ListingIs
  <2> QED
      BY <1>2, <1>3, <2>1 DEF Added
<1> DEFINE S == {n \in Nat : m + n <= size /\ Quiet(Flat(v, c), m, m + n) => l[m + n] = l[m]}
<1>4. 0 \in S
  <2>1. m + 0 = m
      OBVIOUS
  <2> QED
      BY <2>1
<1>5. ASSUME NEW n \in Nat, n \in S PROVE n + 1 \in S
  <2> SUFFICES ASSUME m + (n + 1) <= size, Quiet(Flat(v, c), m, m + (n + 1))
               PROVE  l[m + (n + 1)] = l[m]
      OBVIOUS
  <2>1. PICK q \in Nat : q = m + n /\ q + 1 = m + (n + 1) /\ q \in m..((q + 1) - 1) /\ q \in 0..(size - 1)
                         /\ m + n <= size
      BY <1>1
  <2>2. \A j \in m..((q + 1) - 1) : ~ Starts(Flat(v, c), j)
      BY <2>1 DEF Quiet
  <2>3. \A j \in m..(q - 1) : j \in m..((q + 1) - 1)
      OBVIOUS
  <2>4. Quiet(Flat(v, c), m, m + n)
      BY <2>1, <2>2, <2>3 DEF Quiet
  <2>5. l[q] = l[m]
      BY <1>5, <2>1, <2>4
  <2>6. l[q + 1] = l[q]
      BY <1>3, <2>1, <2>2
  <2> QED
      BY <2>1, <2>5, <2>6
<1> HIDE DEF S
<1>6. \A n \in Nat : n \in S
    BY <1>4, <1>5, SetInduction
<1> QED
    BY <1>1, <1>2, <1>6 DEF S, Owed

\* A set adds what it shows.
LEMMA OwedNext ==
    ASSUME NEW v \in Volumes, NEW c \in Directories(v), NEW k \in Nat, NEW m \in Nat, NEW s,
           FirstSet(Flat(v, c), m, s)
    PROVE  /\ s \in Nat /\ s + 1 <= Cardinality(DOMAIN Flat(v, c))
           /\ Owed(v, k, c, s + 1) =
                Owed(v, k, c, m) \o Shown(EntrySet(Flat(v, c), s), k - 1, Lines(v)[Clusters - k])
<1>1. PICK size \in Nat : size = Cardinality(DOMAIN Flat(v, c)) /\ DOMAIN Flat(v, c) = 0..(size - 1)
    BY SlotsOf
<1>2. s \in 0..(size - 1) /\ m <= s /\ Starts(Flat(v, c), s) /\ Quiet(Flat(v, c), m, s)
    BY <1>1 DEF FirstSet
<1>3. PICK n \in Nat : s = m + n /\ m + n <= size
    BY <1>2
<1>4. Owed(v, k, c, s) = Owed(v, k, c, m)
  <2>1. m + n <= Cardinality(DOMAIN Flat(v, c)) /\ Quiet(Flat(v, c), m, m + n)
      BY <1>1, <1>2, <1>3
  <2>2. Owed(v, k, c, m + n) = Owed(v, k, c, m)
      BY <2>1, OwedQuiet
  <2> QED
      BY <1>3, <2>2
<1>5. size = Cardinality(DOMAIN Flat(v, c))
    BY <1>1
<1>6. Listing(v, c, k - 1, Lines(v)[Clusters - k])[s + 1] =
        Added(v, c, k - 1, Lines(v)[Clusters - k], Listing(v, c, k - 1, Lines(v)[Clusters - k])[s], s)
    BY <1>2, <1>5, ListingIs
<1>7. s \in Nat /\ s + 1 <= size
    BY <1>2
<1> QED
    BY <1>1, <1>2, <1>4, <1>6, <1>7 DEF Owed, Added

\* A call that meets no further set owes no further line.
LEMMA OwedAll ==
    ASSUME NEW v \in Volumes, NEW c \in Directories(v), NEW k \in 1..Clusters, NEW m \in Nat,
           m <= Cardinality(DOMAIN Flat(v, c)), NoSetFrom(Flat(v, c), m)
    PROVE  Owed(v, k, c, m) = Whole(v, k, c)
<1>1. PICK size \in Nat : size = Cardinality(DOMAIN Flat(v, c)) /\ DOMAIN Flat(v, c) = 0..(size - 1)
    BY SlotsOf
<1>2. PICK n \in Nat : size = m + n
    BY <1>1
<1>3. \A j \in m..(size - 1) : j \in 0..(size - 1) /\ m <= j
    OBVIOUS
<1>4. Quiet(Flat(v, c), m, size)
    BY <1>1, <1>3 DEF Quiet, NoSetFrom
<1>5. Owed(v, k, c, size) = Owed(v, k, c, m)
  <2>1. m + n <= Cardinality(DOMAIN Flat(v, c)) /\ Quiet(Flat(v, c), m, m + n)
      BY <1>1, <1>2, <1>4
  <2>2. Owed(v, k, c, m + n) = Owed(v, k, c, m)
      BY <2>1, OwedQuiet
  <2> QED
      BY <1>2, <2>2
<1> QED
    BY <1>1, <1>5, DirectoryIs, LinesAre

-----------------------------------------------------------------------------
(* list: what is printed *)

\* The calls are on the levels of the tree, one below the other, and have dealt
\* with slots of their directories.
OnLevels(v, a) ==
    \A k \in 1..Len(a) :
      /\ k <= Clusters /\ a[k].dir \in Levels(v)[k - 1]
      /\ a[k].dealt <= Cardinality(DOMAIN Flat(v, a[k].dir))

\* With base[k], the lines that were printed when the k-th call was made: a call
\* made from another is in the place of that directory's lines.
Based(v, a, base) ==
    /\ base \in [Nat -> Seq(LineSet(v))] /\ base[1] = << >>
    /\ \A k \in 1..(Len(a) - 1) :
         base[k + 1] \o Whole(v, k + 1, a[k + 1].dir) =
           base[k] \o Owed(v, k, a[k].dir, a[k].dealt)

\* What is printed after base[k], when the top call is the k-th.
Printed(v, a, base, o) ==
    o = IF Len(a) = 0 THEN Tree(v)
        ELSE base[Len(a)] \o Owed(v, Len(a), a[Len(a)].dir, a[Len(a)].dealt)

\* A call of list with its ghosts.
ListAt(a, base) ==
    /\ WalkOf(vol, stack, a) /\ OnLevels(vol, a) /\ Based(vol, a, base)
    /\ Printed(vol, a, base, out) /\ ~ At("copy")

ListInv == vol \in Volumes /\ dashes = 0 /\ \E a, base : ListAt(a, base)

\* Nothing is printed before the walk starts.
LEMMA ListInit == Init /\ command = "list" => ListInv
<1> SUFFICES ASSUME Init, command = "list" PROVE ListInv
    OBVIOUS
<1>1. PICK v \in Volumes : v = vol
    BY DEF Init
<1>2. out = << >> /\ dashes = 0 /\ stack = <<Enter(vol, vol.root)>>
    BY DEF Init
<1>3. PICK a : a = <<[dir |-> v.root, dealt |-> 0]>>
    OBVIOUS
<1>4. WalkOf(v, stack, a) /\ ~ At("copy")
    BY <1>1, <1>2, <1>3, WalkStarts
<1>5. Len(a) = 1 /\ a[1].dir = v.root /\ a[1].dealt = 0 /\ 1..(1 - 1) = {} /\ 1..1 = {1}
    BY <1>3
<1>6. PICK c \in Directories(v) : c = v.root
    BY DirectoriesAssumption
<1>7. PICK size \in Nat : size = Cardinality(DOMAIN Flat(v, c))
    BY SlotsOf
<1>8. 1 <= Clusters
    BY VolumeIs DEF ClusterNumbers
<1>9. OnLevels(v, a)
  <2>1. v.root \in Levels(v)[1 - 1]
      BY LevelsAre
  <2> QED
      BY <1>5, <1>6, <1>7, <1>8, <2>1 DEF OnLevels
<1>10. << >> \in Seq(LineSet(v))
    OBVIOUS
<1>11. PICK base : base = [k \in Nat |-> << >>]
    OBVIOUS
<1>12. Based(v, a, base)
    BY <1>5, <1>10, <1>11 DEF Based
<1>13. Printed(v, a, base, out)
  <2>1. Owed(v, 1, c, 0) = << >>
      BY <1>7, ListingIs DEF Owed
  <2>2. base[1] = << >> /\ << >> \o << >> = << >>
      BY <1>11
  <2> QED
      BY <1>2, <1>5, <1>6, <2>1, <2>2 DEF Printed
<1> QED
    BY <1>1, <1>2, <1>4, <1>9, <1>12, <1>13 DEF ListInv, ListAt

\* A call that returns has printed its directory: the call below it goes on, with
\* the lines of that directory behind its own.
LEMMA ListReturns ==
    ASSUME NEW v \in Volumes, NEW a \in Walks(v), a # << >>, a[1].dir = v.root, NEW base, NEW o,
           OnLevels(v, a), Based(v, a, base), Printed(v, a, base, o),
           NoSetFrom(Flat(v, a[Len(a)].dir), a[Len(a)].dealt)
    PROVE  OnLevels(v, Front(a)) /\ Based(v, Front(a), base) /\ Printed(v, Front(a), base, o)
<1>1. PICK n \in Nat \ {0} : n = Len(a) /\ n \in 1..n
    BY EmptySeq DEF Walks
<1>2. /\ Front(a) \in Walks(v) /\ Len(Front(a)) = n - 1
      /\ \A k \in 1..(n - 1) : Front(a)[k] = a[k]
    BY <1>1, FrontIs DEF Walks
<1>3. PICK b : b = Front(a)
    OBVIOUS
<1>4. Len(b) = n - 1 /\ \A k \in 1..(n - 1) : b[k] = a[k]
    BY <1>2, <1>3
<1>5. \A k \in 1..(n - 1) : k \in 1..n
    OBVIOUS
<1>6. OnLevels(v, b)
    BY <1>1, <1>4, <1>5 DEF OnLevels
<1>7. \A k \in 1..(n - 2) : k \in 1..(n - 1) /\ k + 1 \in 1..(n - 1) /\ (n - 1) - 1 = n - 2
    BY <1>1
<1>8. Based(v, b, base)
  <2>1. \A k \in 1..(n - 1) : base[k + 1] \o Whole(v, k + 1, a[k + 1].dir) =
                                base[k] \o Owed(v, k, a[k].dir, a[k].dealt)
      BY <1>1 DEF Based
  <2>2. ASSUME NEW k \in 1..(n - 2)
        PROVE  base[k + 1] \o Whole(v, k + 1, b[k + 1].dir) = base[k] \o Owed(v, k, b[k].dir, b[k].dealt)
    <3>1. b[k] = a[k] /\ b[k + 1] = a[k + 1]
        BY <1>4, <1>7
    <3> QED
        BY <1>7, <2>1, <3>1
  <2>3. Len(b) - 1 = n - 2
      BY <1>1, <1>4
  <2> QED
      BY <2>2, <2>3 DEF Based
<1>9. PICK c \in Directories(v), m \in Nat : c = a[n].dir /\ m = a[n].dealt
  <2>1. a[n] \in [dir : Directories(v), dealt : Nat]
      BY <1>1, ElementOfSeq DEF Walks
  <2> QED
      BY <2>1
<1>10. PICK k \in 1..Clusters : k = n
  <2>1. n <= Clusters
      BY <1>1 DEF OnLevels
  <2> QED
      BY <1>1, <2>1, SizeAssumption
<1>11. o = base[n] \o Whole(v, n, c)
  <2>1. o = base[n] \o Owed(v, n, c, m)
      BY <1>1, <1>9 DEF Printed
  <2>2. m <= Cardinality(DOMAIN Flat(v, c)) /\ NoSetFrom(Flat(v, c), m)
      BY <1>1, <1>9 DEF OnLevels
  <2>3. Owed(v, k, c, m) = Whole(v, k, c)
      BY <2>2, OwedAll
  <2> QED
      BY <1>10, <2>1, <2>3
<1>12. CASE n = 1
  <2>1. base[1] = << >> /\ c = v.root /\ Whole(v, 1, c) \in Seq(LineSet(v))
      BY <1>9, <1>10, <1>12, OwedTyped DEF Based
  <2>2. << >> \o Whole(v, 1, c) = Whole(v, 1, c)
      BY <2>1, ConcatEmptySeq
  <2>3. Clusters - 1 + 1 = Clusters
      BY SizeAssumption
  <2>4. o = Tree(v)
      BY <1>11, <1>12, <2>1, <2>2, <2>3 DEF Tree, Whole
  <2>5. Len(b) = 0
      BY <1>4, <1>12
  <2>6. Printed(v, b, base, o)
      BY <2>4, <2>5 DEF Printed
  <2> QED
      BY <1>3, <1>6, <1>8, <2>6
<1>13. CASE n # 1
  <2>1. PICK q \in Nat \ {0} : q = n - 1 /\ q + 1 = n /\ q \in 1..(n - 1)
      BY <1>13
  <2>2. base[q + 1] \o Whole(v, q + 1, a[q + 1].dir) = base[q] \o Owed(v, q, a[q].dir, a[q].dealt)
      BY <1>1, <2>1 DEF Based
  <2>3. o = base[q] \o Owed(v, q, b[q].dir, b[q].dealt)
      BY <1>4, <1>9, <1>11, <2>1, <2>2
  <2>4. Len(b) = q /\ q # 0
      BY <1>4, <2>1
  <2>5. Printed(v, b, base, o)
      BY <2>3, <2>4 DEF Printed
  <2> QED
      BY <1>3, <1>6, <1>8, <2>5
<1> QED
    BY <1>12, <1>13

\* The last of the calls is the n-th, and has dealt with m slots of the directory c.
LastIs(a, n, c, m) == n = Len(a) /\ c = a[n].dir /\ m = a[n].dealt

\* A call that has dealt with a set owes what the set shows, behind what is printed.
LEMMA ListDeals ==
    ASSUME NEW v \in Volumes, NEW a \in Walks(v), a # << >>, NEW base, NEW o,
           OnLevels(v, a), Based(v, a, base), Printed(v, a, base, o),
           NEW n \in Nat \ {0}, NEW c \in Directories(v), NEW m \in Nat, LastIs(a, n, c, m),
           NEW s \in Nat, FirstSet(Flat(v, c), m, s)
    PROVE  LET shown == Shown(EntrySet(Flat(v, c), s), n - 1, Lines(v)[Clusters - n])
           IN /\ OnLevels(v, Dealt(a, s + 1)) /\ Based(v, Dealt(a, s + 1), base)
              /\ Printed(v, Dealt(a, s + 1), base, o \o shown)
              /\ Dealt(a, s + 1) \in Walks(v) /\ Len(Dealt(a, s + 1)) = n
              /\ Dealt(a, s + 1)[n].dir = c
              /\ n \in 1..Clusters /\ c \in Directories(v) /\ c \in Levels(v)[n - 1]
              /\ o \in Seq(LineSet(v)) /\ shown \in Seq(LineSet(v))
<1>1. n = Len(a) /\ n \in 1..n
    BY DEF LastIs
<1>3. c = a[n].dir /\ m = a[n].dealt
    BY DEF LastIs
<1>4. n <= Clusters /\ c \in Levels(v)[n - 1] /\ m <= Cardinality(DOMAIN Flat(v, c))
    BY <1>1, <1>3 DEF OnLevels
<1>5. n \in 1..Clusters /\ Clusters \in Nat
    BY <1>4, SizeAssumption
<1>6. PICK q \in Nat : q = s + 1
    OBVIOUS
<1>7. PICK b : b = Dealt(a, q)
    OBVIOUS
<1>8. b \in Walks(v) /\ Len(b) = n /\ b[n].dir = c /\ b[n].dealt = q
      /\ (\A j \in 1..(n - 1) : b[j] = a[j]) /\ (\A j \in 1..n : b[j].dir = a[j].dir)
  <2>1. DealtTo(v, a, n, q, Dealt(a, q))
      BY <1>1, DealtIsTo
  <2>2. DealtTo(v, a, n, q, b)
      BY <1>7, <2>1
  <2> QED
      BY <1>3, <2>2 DEF DealtTo
<1> DEFINE shown == Shown(EntrySet(Flat(v, c), s), n - 1, Lines(v)[Clusters - n])
<1> HIDE DEF shown
<1>9. /\ q <= Cardinality(DOMAIN Flat(v, c))
      /\ Owed(v, n, c, q) = Owed(v, n, c, m) \o shown
  <2>1. n \in Nat /\ m \in Nat /\ FirstSet(Flat(v, c), m, s)
      OBVIOUS
  <2>2. s + 1 <= Cardinality(DOMAIN Flat(v, c))
    <3>1. PICK size \in Nat : /\ size = Cardinality(DOMAIN Flat(v, c))
                             /\ DOMAIN Flat(v, c) = 0..(size - 1)
        BY SlotsOf
    <3>2. s \in 0..(size - 1)
        BY <3>1 DEF FirstSet
    <3>3. s + 1 <= size
        BY <3>2
    <3> QED
        BY <3>1, <3>3
  <2>3. Owed(v, n, c, s + 1) =
          Owed(v, n, c, m) \o Shown(EntrySet(Flat(v, c), s), n - 1, Lines(v)[Clusters - n])
      BY <2>1, OwedNext, SMTT(30)
  <2> QED
      BY <1>6, <2>2, <2>3 DEF shown
<1>10. shown \in Seq(LineSet(v))
  <2>1. PICK below : below = Lines(v)[Clusters - n]
      OBVIOUS
  <2>2. \A d \in Directories(v) : below[d] \in Seq(LineSet(v))
    <3>1. Clusters - n \in 0..Clusters
        BY <1>5, SizeAssumption
    <3> QED
        BY <2>1, <3>1, LinesTyped
  <2>3. n - 1 \in Nat /\ s \in DOMAIN Flat(v, c) /\ Starts(Flat(v, c), s)
      BY <1>1 DEF FirstSet
  <2>4. Shown(EntrySet(Flat(v, c), s), n - 1, below) \in Seq(LineSet(v))
      BY <2>2, <2>3, ShownIs
  <2> QED
      BY <2>1, <2>4 DEF shown
<1>11. OnLevels(v, b)
  <2>1. \A j \in 1..(n - 1) : j \in 1..n
      OBVIOUS
  <2>2. ASSUME NEW j \in 1..n
        PROVE  /\ j <= Clusters /\ b[j].dir \in Levels(v)[j - 1]
               /\ b[j].dealt <= Cardinality(DOMAIN Flat(v, b[j].dir))
    <3>1. j <= Clusters /\ a[j].dir \in Levels(v)[j - 1]
          /\ a[j].dealt <= Cardinality(DOMAIN Flat(v, a[j].dir))
        BY <1>1 DEF OnLevels
    <3>2. CASE j = n
        BY <1>3, <1>8, <1>9, <3>1, <3>2
    <3>3. CASE j # n
      <4>1. j \in 1..(n - 1)
          BY <1>1, <3>3
      <4> QED
          BY <1>8, <3>1, <4>1
    <3> QED
        BY <3>2, <3>3
  <2> QED
      BY <1>8, <2>2 DEF OnLevels
<1>12. Based(v, b, base)
  <2>1. ASSUME NEW j \in 1..(n - 1)
        PROVE  base[j + 1] \o Whole(v, j + 1, b[j + 1].dir) = base[j] \o Owed(v, j, b[j].dir, b[j].dealt)
    <3>1. b[j] = a[j] /\ b[j + 1].dir = a[j + 1].dir
      <4>1. j + 1 \in 1..n
          BY <1>1
      <4> QED
          BY <1>8, <4>1
    <3> QED
        BY <1>1, <3>1 DEF Based
  <2> QED
      BY <1>8, <2>1 DEF Based
<1>13. /\ base[n] \in Seq(LineSet(v)) /\ Owed(v, n, c, m) \in Seq(LineSet(v))
       /\ o = base[n] \o Owed(v, n, c, m)
  <2>1. base[n] \in Seq(LineSet(v))
      BY <1>1 DEF Based
  <2>2. PICK size \in Nat : size = Cardinality(DOMAIN Flat(v, c))
      BY SlotsOf
  <2>3. m \in 0..Cardinality(DOMAIN Flat(v, c))
      BY <1>4, <2>2
  <2>4. Owed(v, n, c, m) \in Seq(LineSet(v))
      BY <1>5, <2>3, OwedTyped
  <2>5. o = base[n] \o Owed(v, n, c, m)
      BY <1>1, <1>3 DEF Printed
  <2> QED
      BY <1>5, <2>1, <2>4, <2>5
<1>14. o \in Seq(LineSet(v))
    BY <1>13, ConcatProperties
<1>15. o \o shown = base[n] \o Owed(v, n, c, q)
  <2>1. (base[n] \o Owed(v, n, c, m)) \o shown = base[n] \o (Owed(v, n, c, m) \o shown)
    <3>1. PICK x \in Seq(LineSet(v)), y \in Seq(LineSet(v)) : x = base[n] /\ y = Owed(v, n, c, m)
        BY <1>13
    <3>2. (x \o y) \o shown = x \o (y \o shown)
        BY <1>10, ConcatAssociative, SMTT(30)
    <3> QED
        BY <3>1, <3>2
  <2> QED
      BY <1>9, <1>13, <2>1
<1>16. Printed(v, b, base, o \o shown)
    BY <1>1, <1>8, <1>15 DEF Printed
<1> QED
    BY <1>4, <1>5, <1>6, <1>7, <1>8, <1>10, <1>11, <1>12, <1>14, <1>16 DEF shown

\* A call for a subdirectory is made where the lines of that directory belong: what
\* is printed by then, with them, is what the calling one has printed behind the set.
LEMMA ListCalls ==
    ASSUME NEW v \in Volumes, NEW b \in Walks(v), NEW n \in 1..Clusters, n = Len(b),
           NEW base, NEW o \in Seq(LineSet(v)), NEW d \in Directories(v),
           OnLevels(v, b), Based(v, b, base), d \in Subdirectories(v, b[n].dir),
           Printed(v, b, base, o \o Whole(v, n + 1, d))
    PROVE  LET e    == Append(b, [dir |-> d, dealt |-> 0])
               more == [base EXCEPT ![n + 1] = o]
           IN OnLevels(v, e) /\ Based(v, e, more) /\ Printed(v, e, more, o)
<1>1. PICK e : e = Append(b, [dir |-> d, dealt |-> 0])
    OBVIOUS
<1>2. PICK q \in Nat \ {0} : q = n + 1
    OBVIOUS
<1>3. PICK more : more = [base EXCEPT ![q] = o]
    OBVIOUS
<1>4. /\ Len(e) = q /\ e[q].dir = d /\ e[q].dealt = 0
      /\ \A j \in 1..n : e[j] = b[j]
  <2>1. /\ Len(Append(b, [dir |-> d, dealt |-> 0])) = n + 1
        /\ \A j \in 1..n : Append(b, [dir |-> d, dealt |-> 0])[j] = b[j]
        /\ Append(b, [dir |-> d, dealt |-> 0])[n + 1] = [dir |-> d, dealt |-> 0]
    <3>1. [dir |-> d, dealt |-> 0] \in [dir : Directories(v), dealt : Nat]
        OBVIOUS
    <3> QED
        BY <3>1, AppendProperties DEF Walks
  <2>2. [dir |-> d, dealt |-> 0].dir = d /\ [dir |-> d, dealt |-> 0].dealt = 0
      OBVIOUS
  <2> QED
      BY <1>1, <1>2, <2>1, <2>2
<1>5. /\ more \in [Nat -> Seq(LineSet(v))] /\ more[q] = o /\ more[1] = << >>
      /\ \A j \in 1..n : more[j] = base[j]
  <2>1. base \in [Nat -> Seq(LineSet(v))] /\ base[1] = << >>
      BY DEF Based
  <2>2. 1 # q /\ \A j \in 1..n : j # q /\ j \in Nat
      BY <1>2
  <2> QED
      BY <1>3, <2>1, <2>2
<1>6. b[n].dir \in Levels(v)[n - 1]
    BY DEF OnLevels
<1>7. q <= Clusters /\ d \in Levels(v)[q - 1]
    BY <1>2, <1>6, LevelBelow
<1>8. PICK size \in Nat : size = Cardinality(DOMAIN Flat(v, d))
    BY SlotsOf
<1>9. OnLevels(v, e)
  <2>1. ASSUME NEW j \in 1..q
        PROVE  /\ j <= Clusters /\ e[j].dir \in Levels(v)[j - 1]
               /\ e[j].dealt <= Cardinality(DOMAIN Flat(v, e[j].dir))
    <3>1. CASE j = q
        BY <1>4, <1>7, <1>8, <3>1
    <3>2. CASE j # q
      <4>1. j \in 1..n
          BY <1>2, <3>2
      <4> QED
          BY <1>4, <4>1 DEF OnLevels
    <3> QED
        BY <3>1, <3>2
  <2> QED
      BY <1>4, <2>1 DEF OnLevels
<1>10. Based(v, e, more)
  <2>1. ASSUME NEW j \in 1..(q - 1)
        PROVE  more[j + 1] \o Whole(v, j + 1, e[j + 1].dir) = more[j] \o Owed(v, j, e[j].dir, e[j].dealt)
    <3>1. CASE j = n
      <4>1. o \o Whole(v, n + 1, d) = base[n] \o Owed(v, n, b[n].dir, b[n].dealt)
        <5>1. Len(b) = n /\ n # 0
            OBVIOUS
        <5> QED
            BY <5>1 DEF Printed
      <4>2. e[n] = b[n] /\ more[n] = base[n]
          BY <1>4, <1>5, SMTT(30)
      <4> QED
          BY <1>2, <1>4, <1>5, <3>1, <4>1, <4>2
    <3>2. CASE j # n
      <4>1. j \in 1..(n - 1) /\ j \in 1..n /\ j + 1 \in 1..n
          BY <1>2, <3>2
      <4>2. base[j + 1] \o Whole(v, j + 1, b[j + 1].dir) = base[j] \o Owed(v, j, b[j].dir, b[j].dealt)
          BY <4>1 DEF Based
      <4> QED
          BY <1>4, <1>5, <4>1, <4>2
    <3> QED
        BY <3>1, <3>2
  <2> QED
      BY <1>4, <1>5, <2>1 DEF Based
<1>11. Printed(v, e, more, o)
  <2>1. Owed(v, q, d, 0) = << >>
      BY <1>8, ListingIs DEF Owed
  <2>2. o \o << >> = o
      BY ConcatEmptySeq
  <2> QED
      BY <1>4, <1>5, <2>1, <2>2 DEF Printed
<1> QED
    BY <1>1, <1>2, <1>3, <1>9, <1>10, <1>11

\* Every step of list keeps what is printed in step with the walk.
LEMMA ListNext ==
    ASSUME ListInv, List
    PROVE  ListInv'
<1>1. PICK a, base : ListAt(a, base)
    BY DEF ListInv
<1>2. PICK v \in Volumes : v = vol /\ v = vol'
    BY DEF ListInv, List, Walk, ReadFile, ReadStream, ReadName, Loop, ListSet
<1>3. stack # << >> /\ dashes = 0
    BY DEF ListInv, List, Walk, ReadFile, ReadStream, ReadName, Loop, ListSet, SetRead, At
<1>4. /\ WalkOf(v, stack, a) /\ OnLevels(v, a) /\ Based(v, a, base) /\ Printed(v, a, base, out)
      /\ ~ At("copy")
    BY <1>1, <1>2 DEF ListAt
<1>5. PICK n \in Nat \ {0} :
        /\ n = Len(stack) /\ n = Len(a) /\ n \in 1..n
        /\ a \in Walks(v)
        /\ stack[n] \in Frames
        /\ a[n].dir \in Directories(v) /\ a[n].dealt \in Nat
    BY <1>3, <1>4, TopIs
<1>6. a # << >>
    BY <1>5, EmptySeq
<1>7. PICK c \in Directories(v), m \in Nat : LastIs(a, n, c, m)
    BY <1>5 DEF LastIs
<1>8. ASSUME NEW b, NEW more, WalkOf(v, stack', b), OnLevels(v, b), Based(v, b, more),
             Printed(v, b, more, out'), ~ At("copy")', dashes' = 0
      PROVE  ListInv'
  <2>1. ListAt(b, more)'
      BY <1>2, <1>8 DEF ListAt
  <2> QED
      BY <1>2, <1>8, <2>1 DEF ListInv
<1>9. CASE Walk
  <2>1. out' = out /\ dashes' = 0
      BY <1>3, <1>9 DEF Walk, ReadFile, ReadStream, ReadName, Loop
  <2>2. /\ ~ At("copy")'
        /\ \/ WalkOf(v, stack', a)
           \/ WalkOf(v, stack', Front(a)) /\ NoSetFrom(Flat(v, a[Len(a)].dir), a[Len(a)].dealt)
      BY <1>2, <1>4, <1>9, WalkStep
  <2>3. CASE WalkOf(v, stack', a)
      BY <1>4, <1>8, <2>1, <2>2, <2>3
  <2>4. CASE WalkOf(v, stack', Front(a)) /\ NoSetFrom(Flat(v, a[Len(a)].dir), a[Len(a)].dealt)
    <3>1. a[1].dir = v.root
        BY <1>3, <1>4 DEF WalkOf
    <3>2. OnLevels(v, Front(a)) /\ Based(v, Front(a), base) /\ Printed(v, Front(a), base, out)
        BY <1>4, <1>5, <1>6, <2>4, <3>1, ListReturns
    <3> QED
        BY <1>8, <2>1, <2>2, <2>4, <3>2
  <2> QED
      BY <2>2, <2>3, <2>4
<1>10. CASE ListSet
  <2>1. SetRead
      BY <1>10 DEF ListSet
  <2>2. PICK f \in Frames : f = Top
      BY <1>5 DEF Top
  <2>3. PICK set : set = SetOf(f)
      OBVIOUS
  <2>4. /\ set = SetOf(Top) /\ set.attribute = Top.set.attribute
        /\ set.first = Top.set.first /\ set.name = Top.set.name
      BY <2>2, <2>3 DEF SetOf
  <2>5. PICK s \in Nat :
          /\ FirstSet(Flat(v, c), m, s)
          /\ set = EntrySet(Flat(v, c), s)
          /\ Become(Resume) => WalkOf(v, stack', Dealt(a, s + 1)) /\ ~ At("copy")'
          /\ set.attribute = "directory" /\ Call(set.first) =>
               /\ WalkOf(v, stack', Append(Dealt(a, s + 1), [dir |-> set.first, dealt |-> 0]))
               /\ ~ At("copy")'
    <3>1. PICK s \in Nat :
            /\ FirstSet(Flat(v, a[Len(a)].dir), a[Len(a)].dealt, s)
            /\ SetOf(Top) = EntrySet(Flat(v, a[Len(a)].dir), s)
            /\ Become(Resume) => WalkOf(v, stack', Dealt(a, s + 1)) /\ ~ At("copy")'
            /\ Top.set.attribute = "directory" /\ Call(Top.set.first) =>
                 /\ WalkOf(v, stack', Append(Dealt(a, s + 1), [dir |-> Top.set.first, dealt |-> 0]))
                 /\ ~ At("copy")'
        BY <1>2, <1>4, <2>1, SetStep
    <3> QED
        BY <1>7, <2>4, <3>1 DEF LastIs
  <2>6. PICK b, shown, o : /\ b = Dealt(a, s + 1) /\ o = out
                           /\ shown = Shown(set, n - 1, Lines(v)[Clusters - n])
      OBVIOUS
  <2>7. /\ OnLevels(v, b) /\ Based(v, b, base) /\ Printed(v, b, base, o \o shown)
        /\ b \in Walks(v) /\ Len(b) = n /\ b[n].dir = c
        /\ n \in 1..Clusters /\ c \in Levels(v)[n - 1]
        /\ o \in Seq(LineSet(v)) /\ shown \in Seq(LineSet(v))
    <3>1. Printed(v, a, base, o)
        BY <1>4, <2>6
    <3>2. LET t == Shown(EntrySet(Flat(v, c), s), n - 1, Lines(v)[Clusters - n])
          IN /\ OnLevels(v, Dealt(a, s + 1)) /\ Based(v, Dealt(a, s + 1), base)
             /\ Printed(v, Dealt(a, s + 1), base, o \o t)
             /\ Dealt(a, s + 1) \in Walks(v) /\ Len(Dealt(a, s + 1)) = n
             /\ Dealt(a, s + 1)[n].dir = c
             /\ n \in 1..Clusters /\ c \in Directories(v) /\ c \in Levels(v)[n - 1]
             /\ o \in Seq(LineSet(v)) /\ t \in Seq(LineSet(v))
        BY <1>4, <1>5, <1>6, <1>7, <2>5, <3>1, ListDeals
    <3> QED
        BY <2>5, <2>6, <3>2
  <2>8. set \in Contents(v, c)
      BY <2>5, SetInContents DEF FirstSet
  <2>9. ASSUME NEW kind \in {"Directory", "File"}, Show(kind)
        PROVE  LET line == [level |-> n - 1, kind |-> kind, name |-> set.name]
               IN line \in LineSet(v) /\ out' = o \o <<line>> /\ dashes' = 0
    <3>1. PICK line : line = [level |-> n - 1, kind |-> kind, name |-> set.name]
        OBVIOUS
    <3>2. line \in LineSet(v)
        BY <2>8, <3>1 DEF LineSet
    <3>3. 0 + (n - 1) = n - 1
        OBVIOUS
    <3>4. out' = Append(o, line) /\ dashes' = 0
        BY <1>3, <1>5, <2>4, <2>6, <2>9, <3>1, <3>3 DEF Show, Depth
    <3>5. Append(o, line) = o \o <<line>>
        BY <2>7, <3>2, AppendIsConcat
    <3> QED
        BY <3>1, <3>2, <3>4, <3>5
  <2>10. CASE set.attribute = "file" /\ Show("File") /\ Become(Resume)
    <3>1. shown = <<[level |-> n - 1, kind |-> "File", name |-> set.name]>>
        BY <2>6, <2>10 DEF Shown
    <3>2. Printed(v, b, base, out') /\ dashes' = 0
        BY <2>7, <2>9, <2>10, <3>1
    <3> QED
        BY <1>8, <2>5, <2>6, <2>7, <2>10, <3>2
  <2>11. CASE set.attribute = "mixed" /\ ShowNothing /\ Become(Resume)
    <3>1. n = 1
      <4>1. ASSUME n # 1 PROVE FALSE
        <5>1. PICK k \in 1..Clusters : k = n - 1
            BY <1>5, <2>7, <4>1, SizeAssumption
        <5> QED
            BY <2>7, <2>8, <2>11, <5>1, PlainAssumption
      <4> QED
          BY <4>1
    <3>2. out' = o /\ dashes' = 0
      <4>1. out' = out /\ dashes' = dashes + (Len(stack) - 1)
          BY <2>11 DEF ShowNothing, Depth
      <4>2. Len(stack) = 1 /\ dashes = 0 /\ o = out
          BY <1>3, <1>5, <2>6, <3>1
      <4> QED
          BY <4>1, <4>2
    <3>3. o \o shown = o
      <4>1. shown = << >>
          BY <2>6, <2>11 DEF Shown
      <4> QED
          BY <2>7, <4>1, ConcatEmptySeq
    <3> QED
        BY <1>8, <2>5, <2>6, <2>7, <2>11, <3>2, <3>3
  <2>12. CASE set.attribute = "directory" /\ Show("Directory") /\ Call(set.first)
    <3>1. PICK d \in Directories(v) : d = set.first /\ d \in Subdirectories(v, c)
        BY <2>5, <2>12, SubdirectoryFound
    <3>2. PICK line \in LineSet(v) : /\ line = [level |-> n - 1, kind |-> "Directory", name |-> set.name]
                                     /\ out' = o \o <<line>> /\ dashes' = 0
        BY <2>9, <2>12
    <3>3. PICK p : p = out'
        OBVIOUS
    <3>4. p = o \o <<line>> /\ p \in Seq(LineSet(v)) /\ <<line>> \in Seq(LineSet(v))
        BY <2>7, <3>2, <3>3, ConcatProperties
    <3>5. n + 1 <= Clusters
        BY <2>7, <3>1, LevelBelow
    <3>6. PICK k \in 1..Clusters : k = n + 1 /\ Clusters - k + 1 = Clusters - n
        BY <2>7, <3>5, SizeAssumption
    <3>7. PICK w \in Seq(LineSet(v)) : w = Whole(v, n + 1, d) /\ w = Lines(v)[Clusters - n][d]
        BY <3>6, OwedTyped DEF Whole
    <3>8. shown = <<line>> \o w
        BY <2>6, <2>12, <3>1, <3>2, <3>7 DEF Shown
    <3>9. o \o shown = p \o Whole(v, n + 1, d)
      <4>1. (o \o <<line>>) \o w = o \o (<<line>> \o w)
          BY <2>7, <3>4, ConcatAssociative, SMTT(30)
      <4> QED
          BY <3>4, <3>7, <3>8, <4>1
    <3>10. LET e    == Append(b, [dir |-> d, dealt |-> 0])
               more == [base EXCEPT ![n + 1] = p]
           IN OnLevels(v, e) /\ Based(v, e, more) /\ Printed(v, e, more, p)
      <4>1. Printed(v, b, base, p \o Whole(v, n + 1, d))
          BY <2>7, <3>9
      <4>2. n = Len(b) /\ b \in Walks(v) /\ n \in 1..Clusters /\ d \in Subdirectories(v, b[n].dir)
          BY <2>7, <3>1
      <4> QED
          BY <2>7, <3>4, <4>1, <4>2, ListCalls
    <3>11. WalkOf(v, stack', Append(b, [dir |-> d, dealt |-> 0])) /\ ~ At("copy")'
        BY <2>5, <2>6, <2>12, <3>1
    <3> QED
        BY <1>8, <3>2, <3>3, <3>10, <3>11
  <2> QED
      BY <1>10, <2>4, <2>10, <2>11, <2>12 DEF ListSet
<1> QED
    BY <1>9, <1>10 DEF List

\* When the walk is over, the tree is printed.
LEMMA ListEnds == ListInv => ListsTheTree
<1> SUFFICES ASSUME ListInv, stack = << >> PROVE out = Tree(vol)
    BY DEF ListsTheTree
<1>1. PICK a, base : WalkOf(vol, stack, a) /\ Printed(vol, a, base, out)
    BY DEF ListInv, ListAt
<1>2. Len(a) = 0
    BY <1>1 DEF WalkOf
<1> QED
    BY <1>1, <1>2 DEF Printed

\* list of exfat.c prints the tree of the volume, each directory and file once, at
\* its level and behind the directory it is in: for any size of a cluster, any
\* chains and any depth, on every volume whose directories are sound and form a
\* tree, with plain directories and files alone below the root.
THEOREM TreeListed == MCSpec => []ListsTheTree
<1> DEFINE Inv == command = "list" => ListInv
<1>1. MCInit => Inv
    BY ListInit DEF MCInit, NoReader
<1>2. Inv /\ [MCNext \/ Stopped]_allVars => Inv'
  <2> SUFFICES ASSUME Inv, [MCNext \/ Stopped]_allVars PROVE Inv'
      OBVIOUS
  <2>1. CASE List
    <3>1. command' = command /\ command = "list"
        BY <2>1 DEF List, Walk, ReadFile, ReadStream, ReadName, Loop, ListSet
    <3> QED
        BY <2>1, <3>1, ListNext
  <2>2. CASE DFS
      BY <2>2 DEF DFS, Walk, ReadFile, ReadStream, ReadName, Loop, FindSet, Extract, EndExtract
  <2>3. CASE UNCHANGED <<program, vars>>
      BY <2>3 DEF vars, ListInv, ListAt, At, Top
  <2> QED
      BY <2>1, <2>2, <2>3 DEF MCNext, RunReader, RunCheck, Stopped, allVars
<1>3. Inv => ListsTheTree
    BY ListEnds DEF ListsTheTree
<1> QED
    BY <1>1, <1>2, <1>3, PTL DEF MCSpec
=============================================================================
