----------------------------- MODULE ExFatCheck -----------------------------
(***************************************************************************)
(* src/lab4/fsck-exfat.c: a check of the boot sector of an exFAT volume,   *)
(* field by field, and then of the allocation bitmap against PercentInUse. *)
(* The boot sector is a record of its fields: those that are compared with *)
(* one value are that value or another one, the others are numbers, of     *)
(* which the 32 bit ones are below WORD and computed with modulo WORD.     *)
(* A disk is what the reads find from where the seeks land: the slots from *)
(* the first cluster of the root directory on, until the file ends, and    *)
(* for each slot the bytes from the cluster it names on, of which only the *)
(* number of bits set counts.                                              *)
(***************************************************************************)
EXTENDS Integers, Sequences, FiniteSetsExt

CONSTANTS
    WORD,       \* 2^32
    Headers,    \* the boot sectors considered, of the set Header
    Disks       \* the sequences of slots considered, in Seq(Slot)

\* TRUE is what the field must be, and must_be_zero names the first byte that
\* is not 0.  A shift above 20 is not considered: 1 << (20 - shift) is undefined.
Words == 0..(WORD - 1)
Header == [jump_boot : BOOLEAN, fs_name : BOOLEAN,
           must_be_zero : {"zero", "first", "other"}, volume_length : Nat,
           fat_offset : Words, fat_length : Words, cluster_heap_offset : Words,
           cluster_count : Words, first_cluster_of_root_directory : Words,
           bytes_per_sector_shift : 0..20, number_of_fats : 0..255,
           percent_in_use : 0..255, boot_signature : BOOLEAN]

Bits == 0..8
Slot == [bitmap : BOOLEAN, data_length : Nat, bytes : Seq(Bits)]

VARIABLES
    header, disk,
    pc,         \* "mbr", "search", "count", "done" or "crashed"
    answer,     \* what was printed at the end: a field, or "consistent"
    next,       \* the number of slots read
    entry,      \* the slot that e holds
    i, tmp, cnt

vars == <<header, disk, pc, answer, next, entry, i, tmp, cnt>>

\* e and tmp are not initialised.
Init ==
    /\ header \in Headers /\ disk \in Disks
    /\ pc = "mbr" /\ answer = "none" /\ next = 0
    /\ entry \in [bitmap : BOOLEAN, data_length : {2}, bytes : {<<>>}]
    /\ i = 0 /\ cnt = 0 /\ tmp \in {0, 8}

Wrap(n) == n % WORD
Signed(n) == IF Wrap(n) >= WORD \div 2 THEN Wrap(n) - WORD ELSE Wrap(n)

-----------------------------------------------------------------------------

\* strcmp goes on behind the 8 bytes of the name, into must_be_zero.
NameDiffers(h) == ~ h.fs_name \/ h.must_be_zero = "first"

VolumeTooShort(h) == h.volume_length < 2 ^ (20 - h.bytes_per_sector_shift)

FatTooFar(h) == h.fat_offset > Wrap(h.cluster_heap_offset - Wrap(h.fat_length * h.number_of_fats))

FatTooShort(h) == h.fat_length * 2 ^ h.bytes_per_sector_shift < 4 * Wrap(h.cluster_count + 2)

\* Mutant of FatTooLong: the length is compared without a division.
FatBeyondHeap(h) == h.fat_length > h.cluster_heap_offset

FatTooLong(h) ==
    /\ h.number_of_fats # 0
    /\ h.fat_length > Wrap(h.cluster_heap_offset - h.fat_length) \div h.number_of_fats

RootTooFar(h) == h.first_cluster_of_root_directory > Wrap(h.cluster_count + 1)

\* The checks in their order.  A division by 0 ends the process.
Checks(h) == <<
    <<"JumpBoot", ~ h.jump_boot>>,
    <<"FileSystemName", NameDiffers(h)>>,
    <<"MustBeZero", h.must_be_zero # "zero">>,
    <<"VolumeLength", VolumeTooShort(h)>>,
    <<"FatOffset", h.fat_offset < 24 \/ FatTooFar(h)>>,
    <<"FatLength", FatTooShort(h)>>,
    <<"SIGFPE", h.number_of_fats = 0>>,
    <<"FatLength", FatTooLong(h)>>,
    <<"FirstClusterOfRootDirectory", h.first_cluster_of_root_directory < 2 \/ RootTooFar(h)>>,
    <<"BootSignature", ~ h.boot_signature>> >>

Failing(h) == {k \in DOMAIN Checks(h) : Checks(h)[k][2]}

CheckMbr ==
    /\ pc = "mbr"
    /\ IF Failing(header) = {}
         THEN pc' = "search" /\ answer' = answer
         ELSE LET field == Checks(header)[Min(Failing(header))][1] IN
              /\ pc' = IF field = "SIGFPE" THEN "crashed" ELSE "done"
              /\ answer' = field
    /\ UNCHANGED <<header, disk, next, entry, i, tmp, cnt>>

-----------------------------------------------------------------------------

\* Mutant of NextEntry: while (...) {...} for do {...} while (...).
NextEntryIfNone ==
    /\ pc = "search"
    /\ entry' = IF ~ entry.bitmap /\ next < Len(disk) THEN disk[next + 1] ELSE entry
    /\ next' = IF ~ entry.bitmap /\ next < Len(disk) THEN next + 1 ELSE next
    /\ pc' = IF entry'.bitmap THEN "count" ELSE "search"
    /\ UNCHANGED <<header, disk, answer, i, tmp, cnt>>

\* Reading behind the end of the file leaves e as it is.
NextEntry ==
    /\ pc = "search"
    /\ entry' = IF next < Len(disk) THEN disk[next + 1] ELSE entry
    /\ next' = IF next < Len(disk) THEN next + 1 ELSE next
    /\ pc' = IF entry'.bitmap THEN "count" ELSE "search"
    /\ UNCHANGED <<header, disk, answer, i, tmp, cnt>>

\* The length is a 64 bit number that the loop takes as an int.
CountByte ==
    /\ pc = "count" /\ i < Signed(entry.data_length)
    /\ tmp' = IF i < Len(entry.bytes) THEN entry.bytes[i + 1] ELSE tmp
    /\ cnt' = cnt + tmp'
    /\ i' = i + 1
    /\ UNCHANGED <<header, disk, pc, answer, next, entry>>

Compare ==
    /\ pc = "count" /\ i >= Signed(entry.data_length)
    /\ pc' = "done"
    /\ answer' = IF (cnt * 100) \div header.cluster_count # header.percent_in_use
                   THEN "PercentInUse" ELSE "consistent"
    /\ UNCHANGED <<header, disk, next, entry, i, tmp, cnt>>

Next == CheckMbr \/ NextEntry \/ CountByte \/ Compare

Spec == Init /\ [][Next]_vars

-----------------------------------------------------------------------------

\* What the checks are for, in numbers that do not wrap: the FATs lie between
\* FatOffset and the cluster heap and have room for an entry of each cluster,
\* the root directory is in the heap.  The last condition on the FATs is
\* stricter than that: the code takes FatLength where FatOffset would do.
Sound(h) ==
    /\ h.jump_boot /\ h.fs_name /\ h.must_be_zero = "zero" /\ h.boot_signature
    /\ h.volume_length * 2 ^ h.bytes_per_sector_shift >= 2 ^ 20
    /\ h.number_of_fats > 0 /\ h.fat_offset >= 24
    /\ h.fat_offset + h.number_of_fats * h.fat_length <= h.cluster_heap_offset
    /\ 4 * (h.cluster_count + 2) <= h.fat_length * 2 ^ h.bytes_per_sector_shift
    /\ (h.number_of_fats + 1) * h.fat_length <= h.cluster_heap_offset
    /\ h.first_cluster_of_root_directory \in 2..(h.cluster_count + 1)

\* The lengths of all FATs together may wrap, but not that of one, nor the
\* number of FAT entries.
NoWrap(h) == h.fat_length <= h.cluster_heap_offset /\ h.cluster_count + 2 < WORD

Accepted == pc \in {"search", "count"} \/ answer \in {"PercentInUse", "consistent"}

\* check_MBR accepts the sound boot sectors and no others, although it computes
\* modulo 2^32: where one subtraction wraps, another check rejects.  Whatever
\* wraps, check_bitmap does not divide by a cluster count of 0, and its test of
\* the number of FATs does not skip the comparison.
AcceptsExactly ==
    pc # "mbr" =>
        /\ Accepted => header.number_of_fats > 0 /\ header.cluster_count > 0
        /\ NoWrap(header) => (Accepted <=> Sound(header))

\* The bitmap entries that the search meets, and whether the first one is as
\* long as it says.
Bitmaps == {k \in DOMAIN disk : disk[k].bitmap}
Bitmap == disk[Min(Bitmaps)]
Whole == Bitmaps # {} /\ Bitmap.data_length = Len(Bitmap.bytes) /\ Bitmap.data_length < WORD \div 2

\* Bit b of byte k, for each of the b bits set in the k-th of the first n bytes.
BitsSet(bytes, n) == {bit \in (1..n) \X (1..8) : bit[2] <= bytes[bit[1]]}

\* The percentage of the clusters that the bitmap names as used, rounded down.
Share(h) ==
    (Cardinality(BitsSet(Bitmap.bytes, Len(Bitmap.bytes))) * 100) \div h.cluster_count

Compared == answer \in {"PercentInUse", "consistent"}

\* What is printed in the end is whether PercentInUse is that share of the first
\* bitmap on the disk, whatever e and tmp hold before.
RightAnswer ==
    Compared /\ Whole => (answer = "consistent" <=> Share(header) = header.percent_in_use)

\* If there is a bitmap entry the search finds the first one, and the answer is
\* printed and right.  Without an entry the search goes on for ever.
CountsTheBitmap == pc = "search" /\ Whole ~> pc = "done" /\ Compared /\ RightAnswer
=============================================================================
