---------------------------- MODULE ExFatVolume ----------------------------
(***************************************************************************)
(* What src/A4/exfat.c should find on an exFAT volume: the directory tree, *)
(* and the data of the file at a path, defined on whole chains, with no    *)
(* position, cluster switch or stack.                                      *)
(*                                                                         *)
(* Distances are in 32-byte slots inside a directory, and in units of data *)
(* inside a file; a name is a sequence of pieces of 15 characters.  Every  *)
(* chain is linked through the FAT.                                        *)
(***************************************************************************)
EXTENDS Integers, Sequences, FiniteSets, SequencesExt

CONSTANTS
    Slots, Units,   \* size of a cluster, in slots and in units
    Clusters,       \* cluster_count
    END,            \* 0xFFFFFFFF
    Pieces,         \* of names
    Volumes,        \* the volumes, by their root, FAT and cluster heap
    Paths           \* the paths that get is asked for, split at "/"

ClusterNumbers == 2..(Clusters + 1)

Attributes == {"directory", "file", "mixed"}    \* 0x10, 0x20, any other

Entries ==
    [type : {"end", "other"}]
      \cup [type : {"file"}, attribute : Attributes, secondary_count : Nat \ {0, 1}]
      \cup [type : {"stream"}, first_cluster : ClusterNumbers \cup {0}, data_length : Nat]
      \cup [type : {"name"}, chars : Pieces]

ASSUME SizeAssumption ==
    Slots \in Nat \ {0} /\ Units \in Nat \ {0} /\ Clusters \in Nat /\ END \notin Nat

\* The first two words of the FAT belong to no cluster.
ASSUME VolumeAssumption ==
    Volumes \subseteq
      [root : ClusterNumbers,
       fat  : [0..(Clusters + 1) -> ClusterNumbers \cup {0, END}],
       heap : [0..(Slots * Clusters - 1) -> Entries]]

ASSUME PathsAssumption == Paths \subseteq Seq(Seq(Pieces))

-----------------------------------------------------------------------------

\* The clusters of the chain that starts at a cluster.
Chain(v, first) ==
    LET run[k \in 0..Clusters] ==
          IF k = 0 THEN <<first>>
          ELSE LET chain == run[k - 1]
                   next  == v.fat[Last(chain)]
               IN IF next = END THEN chain ELSE Append(chain, next)
    IN run[Clusters]

\* A directory as one sequence of slots, counted from 0, and its entry sets:
\* a file entry starts one, unless an end entry comes before it.
Flat(v, first) ==
    LET chain == Chain(v, first)
    IN [n \in 0..(Len(chain) * Slots - 1) |->
          v.heap[(chain[n \div Slots + 1] - 2) * Slots + (n % Slots)]]

Starts(flat, n) == flat[n].type = "file" /\ \A m \in 0..n : flat[m].type # "end"

EntrySet(flat, n) ==
    [attribute |-> flat[n].attribute,
     name      |-> [i \in 1..(flat[n].secondary_count - 1) |-> flat[n + 1 + i].chars],
     first     |-> flat[n + 1].first_cluster,
     length    |-> flat[n + 1].data_length]

\* The entry sets of a directory.
Contents(v, first) ==
    LET flat == Flat(v, first)
    IN {EntrySet(flat, n) : n \in {m \in DOMAIN flat : Starts(flat, m)}}

\* The chain of a directory ends, and so does each entry set, inside of it: a
\* stream and its names follow the file entry.
WholeSets(v, first) ==
    LET chain == Chain(v, first)
        flat  == Flat(v, first)
    IN /\ Range(chain) \subseteq ClusterNumbers
       /\ v.fat[Last(chain)] = END
       /\ \A n \in DOMAIN flat : Starts(flat, n) =>
            /\ n + flat[n].secondary_count \in DOMAIN flat
            /\ flat[n + 1].type = "stream"
            /\ \A k \in 2..flat[n].secondary_count : flat[n + k].type = "name"

\* The subdirectories that a directory names.
Subdirectories(v, first) ==
    LET flat == Flat(v, first)
    IN {flat[n + 1].first_cluster :
          n \in {m \in DOMAIN flat : Starts(flat, m) /\ flat[m].attribute = "directory"}}

\* The directories at each level below the root directory.
Levels(v) ==
    LET levels[k \in 0..Clusters] ==
          IF k = 0 THEN {v.root}
          ELSE UNION {Subdirectories(v, c) : c \in levels[k - 1]}
    IN levels

Directories(v) == UNION {Levels(v)[k] : k \in 0..Clusters}

\* The chain of a file is as long as its data.
WholeFiles(v, first) ==
    \A set \in Contents(v, first) : set.attribute = "file" /\ set.length > 0 =>
      /\ set.first \in ClusterNumbers
      /\ set.length <= Len(Chain(v, set.first)) * Units

\* The volumes have sound directories, all of them in the levels below the root.
ASSUME DirectoriesAssumption ==
    \A v \in Volumes :
      LET dirs == Directories(v)
      IN /\ v.root \in dirs /\ dirs \subseteq ClusterNumbers
         /\ \A c \in dirs : WholeSets(v, c) /\ Subdirectories(v, c) \subseteq dirs

\* No directory is below itself: the levels end.
ASSUME TreeAssumption == \A v \in Volumes : Levels(v)[Clusters] = {}

\* The files are whole.
ASSUME FilesAssumption == \A v \in Volumes : \A c \in Directories(v) : WholeFiles(v, c)

-----------------------------------------------------------------------------

\* The lines of a set at a level, with those of a subdirectory behind its own.
Shown(set, level, below) ==
    LET Line(kind) == [level |-> level, kind |-> kind, name |-> set.name]
    IN CASE set.attribute = "directory" -> <<Line("Directory")>> \o below[set.first]
         [] set.attribute = "file" -> <<Line("File")>>
         [] OTHER -> << >>

\* The lines of the first n slots of a directory, for every n.
Listing(v, first, level, below) ==
    LET flat == Flat(v, first)
        listing[n \in 0..Cardinality(DOMAIN flat)] ==
          IF n = 0 THEN << >>
          ELSE IF Starts(flat, n - 1)
               THEN listing[n - 1] \o Shown(EntrySet(flat, n - 1), level, below)
               ELSE listing[n - 1]
    IN listing

\* The lines of each directory and all below it, at most h levels, of which the
\* last is the last there can be.
Lines(v) ==
    LET lines[h \in 0..Clusters] ==
          [c \in ClusterNumbers |->
             IF h = 0 THEN << >>
             ELSE Listing(v, c, Clusters - h, lines[h - 1])[Cardinality(DOMAIN Flat(v, c))]]
    IN lines

\* The data of a file: its units, by cluster and place in the cluster.
Data(v, set) ==
    LET chain == Chain(v, set.first)
    IN [i \in 1..set.length |-> <<chain[(i - 1) \div Units + 1], (i - 1) % Units>>]

\* The sets of that name and attribute in a directory.
Named(v, first, name, attribute) ==
    {set \in Contents(v, first) : set.name = name /\ set.attribute = attribute}

\* The directories that a path leads through, each named in the one before it.
Trails(v, path) ==
    {w \in [1..Len(path) -> ClusterNumbers] :
       /\ w[1] = v.root
       /\ \A k \in 1..(Len(path) - 1) :
            \E set \in Named(v, w[k], path[k], "directory") : w[k + 1] = set.first}

\* The files at a path: at most one, for names are unique in a directory.
FilesAt(v, path) ==
    IF path = << >> THEN {}
    ELSE UNION {Named(v, w[Len(path)], Last(path), "file") : w \in Trails(v, path)}

-----------------------------------------------------------------------------
(* What the two commands owe *)

Tree(v) == Lines(v)[Clusters][v.root]
Sought(v, path) == {Data(v, set) : set \in FilesAt(v, path)}
=============================================================================
