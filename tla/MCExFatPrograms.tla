-------------------------- MODULE MCExFatPrograms --------------------------
(***************************************************************************)
(* Instances of the two programs on exFAT volumes for TLC: the reader      *)
(* exfat.c (A4), with the volumes of MCExFat, and the check fsck-exfat.c   *)
(* (lab 4).  They share nothing; each behaviour is one of the program      *)
(* named by the variable program, and the variables of the other stay.     *)
(*                                                                         *)
(* The check has words of 6 bits: the boot sectors with the numbers around *)
(* each bound and beyond the point where they wrap, one with each of the   *)
(* other fields wrong, and disks with a bitmap first, later, twice, cut    *)
(* short, too long, and with none.                                         *)
(***************************************************************************)
EXTENDS MCExFat

CONSTANTS WORD, Headers, Disks

VARIABLES program, header, disk, pc, answer, next, entry, i, tmp, cnt

checkVars == <<header, disk, pc, answer, next, entry, i, tmp, cnt>>
allVars == <<program, vars, checkVars>>

Numbers ==
    [jump_boot : {TRUE}, fs_name : {TRUE}, must_be_zero : {"zero"}, boot_signature : {TRUE},
     bytes_per_sector_shift : {3}, volume_length : {2 ^ 17},
     fat_offset : {24, 30}, fat_length : {0, 1, 3, 8, 16, 40},
     cluster_heap_offset : {32, 63}, cluster_count : {0, 4, 30, 62, 63},
     first_cluster_of_root_directory : {1, 5, 6}, number_of_fats : {0, 1, 2},
     percent_in_use : {50}]

Good ==
    [jump_boot |-> TRUE, fs_name |-> TRUE, must_be_zero |-> "zero", boot_signature |-> TRUE,
     bytes_per_sector_shift |-> 9, volume_length |-> 2 ^ 11,
     fat_offset |-> 24, fat_length |-> 1, cluster_heap_offset |-> 32, cluster_count |-> 30,
     first_cluster_of_root_directory |-> 2, number_of_fats |-> 1, percent_in_use |-> 0]

SmallHeaders ==
    Numbers \cup {Good} \cup
    { [Good EXCEPT !.jump_boot = FALSE], [Good EXCEPT !.fs_name = FALSE],
      [Good EXCEPT !.must_be_zero = "first"], [Good EXCEPT !.must_be_zero = "other"],
      [Good EXCEPT !.volume_length = @ - 1], [Good EXCEPT !.fat_offset = 23],
      [Good EXCEPT !.boot_signature = FALSE] }

BitmapSlot(n, b) == [bitmap |-> TRUE, data_length |-> n, bytes |-> b]
OtherEntry == [bitmap |-> FALSE, data_length |-> 1, bytes |-> <<4>>]

SmallDisks == {
    <<BitmapSlot(1, <<2>>), OtherEntry>>,
    <<OtherEntry, BitmapSlot(2, <<8, 7>>), BitmapSlot(1, <<2>>)>>,
    <<BitmapSlot(2, <<2>>)>>,
    <<BitmapSlot(WORD - 1, <<8, 7>>)>>,
    <<OtherEntry>>,
    <<>> }

Check == INSTANCE ExFatCheck

\* Below the root every entry set is of a plain directory or a plain file.
ASSUME PlainAssumption ==
    \A v \in Volumes : \A k \in 1..Clusters : \A c \in Levels(v)[k] :
      \A set \in Contents(v, c) : set.attribute # "mixed"

ASSUME CheckAssumption ==
    WORD \in Nat \ {0} /\ Headers \subseteq Check!Header /\ Disks \subseteq Seq(Check!Slot)

-----------------------------------------------------------------------------

NoReader ==
    /\ vol = << >> /\ command = "none" /\ path = << >> /\ stack = << >>
    /\ copy = NoCopy /\ dashes = 0 /\ out = << >> /\ written = << >>

NoCheck ==
    /\ header = Good /\ disk = << >> /\ entry = OtherEntry
    /\ pc = "none" /\ answer = "none" /\ next = 0 /\ i = 0 /\ tmp = 0 /\ cnt = 0

MCInit ==
    \/ program = "exfat" /\ Init /\ NoCheck
    \/ program = "fsck-exfat" /\ Check!Init /\ NoReader

RunReader == program = "exfat" /\ UNCHANGED <<program, checkVars>>
RunCheck == program = "fsck-exfat" /\ UNCHANGED <<program, vars>>

Stopped == (stack = << >> /\ pc \in {"none", "done", "crashed"}) /\ UNCHANGED allVars

MCNext == (RunReader /\ (List \/ DFS)) \/ (RunCheck /\ Check!Next)

\* The programs run on until they are done.
MCSpec == MCInit /\ [][MCNext \/ Stopped]_allVars /\ WF_allVars(MCNext)

-----------------------------------------------------------------------------

\* The properties of ExFatCheck, under names that TLC can be given.
AcceptsExactly == program = "fsck-exfat" => Check!AcceptsExactly
CountsTheBitmap == program = "fsck-exfat" => Check!CountsTheBitmap
RightAnswer == program = "fsck-exfat" => Check!RightAnswer
=============================================================================
