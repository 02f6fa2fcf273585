------------------------------- MODULE ExFat -------------------------------
(***************************************************************************)
(* The exFAT reader of src/A4/exfat.c: the commands list and get.  Both    *)
(* walk a directory slot by slot, in the order of its FAT chain, and call  *)
(* themselves for a subdirectory; get copies the file it finds.  A call is *)
(* a frame of the stack, with the locals of list and DFS.  A volume is     *)
(* read only.  Opening it, and the decoding of the boot sector, are        *)
(* abstracted into Volumes.                                                *)
(***************************************************************************)
EXTENDS ExFatVolume

VARIABLES
    vol,        \* the volume
    command,    \* "list" or "get"
    path,       \* of get
    stack,      \* calls of list or of DFS
    copy,       \* the locals of extract
    dashes,     \* printed on a line not yet ended
    out,        \* lines printed
    written     \* data written to the file

vars == <<vol, command, path, stack, copy, dashes, out, written>>

fat == vol.fat
NoSet == [attribute |-> "mixed", count |-> 0, first |-> 0, length |-> 0, name |-> << >>]
NoCopy == [index |-> 0, tmp |-> 0, size |-> 0, left |-> 0]

\* A call of list or DFS reads the first link.
Enter(v, first) ==
    LET tmp == v.fat[first]
    IN [at |-> "file", index |-> first, position |-> 0,
        tmp |-> tmp, has_next |-> tmp # END, set |-> NoSet]

Init ==
    /\ vol \in Volumes
    /\ \/ command = "list" /\ path = << >>
       \/ command = "get" /\ path \in Paths
    /\ stack = IF command = "get" /\ path = << >> THEN << >> ELSE <<Enter(vol, vol.root)>>
    /\ copy = NoCopy /\ dashes = 0 /\ out = << >> /\ written = << >>

-----------------------------------------------------------------------------
(* The walk *)

Top == stack[Len(stack)]
At(l) == stack # << >> /\ Top.at = l
Become(f) == stack' = [stack EXCEPT ![Len(stack)] = f]
Return == stack' = Front(stack)

\* The slot at a call's position, by its offset in the cluster heap.
Slot(f) == vol.heap[(f.index - 2) * Slots + f.position]

\* Mutant of Advance: on to the next cluster of the disk.
AdvanceOnDisk(f) ==
    IF f.position + 1 = Slots /\ f.has_next
    THEN [f EXCEPT !.index = @ + 1, !.tmp = fat[f.tmp], !.has_next = fat[f.tmp] # END, !.position = 0]
    ELSE [f EXCEPT !.position = @ + 1]

\* The next slot, in the next cluster of the chain if this one is read.
Advance(f) ==
    IF f.position + 1 = Slots /\ f.has_next
    THEN [f EXCEPT !.index = f.tmp, !.tmp = fat[f.tmp],
                   !.has_next = fat[f.tmp] # END, !.position = 0]
    ELSE [f EXCEPT !.position = @ + 1]

\* A file entry starts a set, an end entry ends the directory, others are skipped.
ReadFile ==
    /\ At("file")
    /\ LET fde == Slot(Top) IN
       \/ /\ fde.type = "file"
          /\ Become([Advance(Top) EXCEPT
               !.at = "stream",
               !.set = [NoSet EXCEPT !.attribute = fde.attribute, !.count = fde.secondary_count]])
       \/ fde.type = "end" /\ Return
       \/ fde.type \notin {"file", "end"} /\ Become([Advance(Top) EXCEPT !.at = "loop"])
    /\ UNCHANGED <<vol, command, path, copy, dashes, out, written>>

ReadStream ==
    /\ At("stream")
    /\ LET sedr == Slot(Top) IN
       Become([Advance(Top) EXCEPT !.at = "name", !.set.first = sedr.first_cluster,
                                   !.set.length = sedr.data_length])
    /\ UNCHANGED <<vol, command, path, copy, dashes, out, written>>

NamesLeft(set) == Len(set.name) < set.count - 1

ReadName ==
    /\ At("name") /\ NamesLeft(Top.set)
    /\ LET fnde == Slot(Top) IN
       Become([Advance(Top) EXCEPT !.set.name = Append(@, fnde.chars)])
    /\ UNCHANGED <<vol, command, path, copy, dashes, out, written>>

\* Mutant of GoesOn: the last cluster is not read.
GoesOnToLast(f) == f.has_next

GoesOn(f) == f.has_next \/ f.position < Slots

Loop ==
    /\ At("loop")
    /\ IF GoesOn(Top) THEN Become([Top EXCEPT !.at = "file"]) ELSE Return
    /\ UNCHANGED <<vol, command, path, copy, dashes, out, written>>

Walk == ReadFile \/ ReadStream \/ ReadName \/ Loop

-----------------------------------------------------------------------------
(* What is done with a set.  Its last slot may have been the last of a      *)
(* cluster: Advance has switched by then.                                  *)

SetRead == At("name") /\ ~ NamesLeft(Top.set)

\* Mutant of Resume: the cluster is read again.
ResumeAtStart == [Top EXCEPT !.at = "loop", !.position = 0]

\* The call goes on behind the set; a subdirectory is walked before.
Resume == [Top EXCEPT !.at = "loop"]
Call(first) == stack' = Append([stack EXCEPT ![Len(stack)] = Resume], Enter(vol, first))

\* The dashes of the level go in front of a line.  A set that is neither a plain
\* directory nor a plain file prints them and no line: they stay in front of
\* the next one.
Depth == Len(stack) - 1
Show(kind) ==
    /\ out' = Append(out, [level |-> dashes + Depth, kind |-> kind, name |-> Top.set.name])
    /\ dashes' = 0
ShowNothing == dashes' = dashes + Depth /\ UNCHANGED out

ListSet ==
    /\ command = "list" /\ SetRead
    /\ \/ Top.set.attribute = "directory" /\ Show("Directory") /\ Call(Top.set.first)
       \/ Top.set.attribute = "file" /\ Show("File") /\ Become(Resume)
       \/ Top.set.attribute = "mixed" /\ ShowNothing /\ Become(Resume)
    /\ UNCHANGED <<vol, command, path, copy, written>>

\* Mutant of IsFile: a file of that name is taken above the end of the path.
IsFileAnywhere(set, depth) == set.attribute = "file" /\ set.name = path[depth]

\* A step of the path, and its end.
IsStep(set, depth) == set.attribute = "directory" /\ set.name = path[depth]
IsFile(set, depth) ==
    set.attribute = "file" /\ set.name = path[depth] /\ depth = Len(path)

\* A call for a directory at the end of the path returns at once.
FindSet ==
    /\ command = "get" /\ SetRead
    /\ LET set == Top.set
           depth == Len(stack)
       IN \/ /\ IsStep(set, depth) /\ depth < Len(path)
             /\ Call(set.first)
             /\ UNCHANGED <<copy, written>>
          \/ /\ IsFile(set, depth)
             /\ Become([Top EXCEPT !.at = "copy"])
             /\ copy' = [index |-> set.first, tmp |-> fat[set.first], size |-> 0, left |-> set.length]
             /\ written' = << >>
          \/ /\ ~ IsFile(set, depth) /\ ~ (IsStep(set, depth) /\ depth < Len(path))
             /\ Become(Resume)
             /\ UNCHANGED <<copy, written>>
    /\ UNCHANGED <<vol, command, path, dashes, out>>

-----------------------------------------------------------------------------
(* extract *)

\* Behind a unit that ends a cluster comes the next one of the chain.  After
\* the last of the chain the link is the end mark; what is then read in front
\* of the FAT, here 0, is never used.
NextUnit(c) ==
    IF c.size + 1 = Units
    THEN [c EXCEPT !.index = c.tmp, !.tmp = IF c.tmp = END THEN 0 ELSE fat[c.tmp], !.size = 0]
    ELSE [c EXCEPT !.size = @ + 1]

Extract ==
    /\ At("copy") /\ copy.left > 0
    /\ written' = Append(written, <<copy.index, copy.size>>)
    /\ copy' = [NextUnit(copy) EXCEPT !.left = @ - 1]
    /\ UNCHANGED <<vol, command, path, stack, dashes, out>>

EndExtract ==
    /\ At("copy") /\ copy.left = 0
    /\ Become(Resume)
    /\ copy' = NoCopy
    /\ UNCHANGED <<vol, command, path, dashes, out, written>>

-----------------------------------------------------------------------------

List == command = "list" /\ (Walk \/ ListSet)
DFS == command = "get" /\ (Walk \/ FindSet \/ Extract \/ EndExtract)
Done == stack = << >> /\ UNCHANGED vars

Next == List \/ DFS \/ Done

Spec == Init /\ [][Next]_vars

\* The program runs on until it is done.
FairSpec == Spec /\ WF_vars(List \/ DFS)

-----------------------------------------------------------------------------
(* Properties *)

\* The directory a call walks.
DirectoryOf(k) == IF k = 1 THEN vol.root ELSE stack[k - 1].set.first

\* A call reads inside the chain of its directory, wherever its entry sets lie
\* on the cluster boundaries: it never runs on into the cluster that happens to
\* follow on the disk, nor over the end of the last one.
ReadsInsideChain ==
    \A k \in DOMAIN stack :
      LET f == stack[k] IN
      /\ Contains(Chain(vol, DirectoryOf(k)), f.index)
      /\ (f.at \in {"file", "stream"} \/ (f.at = "name" /\ NamesLeft(f.set))) => f.position < Slots

\* What list has printed when it is done is the tree: no set of a plain file or
\* directory is skipped, and none is read twice, misread across a cluster
\* boundary, put in another directory or shown at another level.
ListsTheTree == command = "list" /\ stack = << >> => out = Tree(vol)

\* get writes the data of the file at the path, in order and to the last unit,
\* also when the file ends with a cluster, and it writes nothing if there is no
\* such file, although names of the path occur elsewhere in the tree.
ExtractsTheFile ==
    command = "get" /\ stack = << >> =>
      IF Sought(vol, path) = {} THEN written = << >> ELSE written \in Sought(vol, path)

\* Both commands end on every volume whose directories form a tree.
Terminates == <>(stack = << >>)
=============================================================================
