------------------------------ MODULE MCExFat ------------------------------
(* Volumes for TLC: every short root directory, with every short           *)
(* subdirectory, laid out over fragmented chains.                          *)
EXTENDS ExFat, FiniteSets, FiniteSetsExt

CONSTANTS na, nb, nd, nm

SmallPieces == {na, nb, nd, nm}

\* A long name whose beginning is another file's name.
NameOf == [a |-> <<na>>, b |-> <<na, nb>>, d |-> <<nd>>, m |-> <<nm>>]
AttributeOf == [a |-> "file", b |-> "file", d |-> "directory", m |-> "mixed"]

NoFirst == [o |-> 0, a |-> 0, b |-> 0, d |-> 0, m |-> 0]

\* Units of data, by directory and file: none, part of a cluster, one cluster,
\* more than one.
LengthOf == [root |-> [NoFirst EXCEPT !.a = 3],
             sub  |-> [NoFirst EXCEPT !.a = 2, !.b = 1]]

EndSlot == [type |-> "end"]
OtherSlot == [type |-> "other"]

\* An entry set, or an entry of another type.
Block(kind, first, length) ==
    IF kind = "o" THEN <<OtherSlot>>
    ELSE <<[type |-> "file", attribute |-> AttributeOf[kind],
            secondary_count |-> 1 + Len(NameOf[kind])],
           [type |-> "stream", first_cluster |-> first, data_length |-> length]>>
         \o [i \in DOMAIN NameOf[kind] |-> [type |-> "name", chars |-> NameOf[kind][i]]]

\* Sequences without repetition.
Orders(S, n) == {s \in SeqOf(S, n) : IsInjective(s)}

Layouts ==
    {l \in [root : Orders({"o", "a", "b", "d", "m"}, 3), sub : Orders({"o", "a", "b"}, 2),
            order : {"down", "odd first"}, ended : BOOLEAN] :
       /\ Contains(l.root, "d") \/ l.sub = << >>
       /\ Len(l.root) + Len(l.sub) <= 3}

OrderOf(name) ==
    IF name = "down" THEN [i \in 1..Clusters |-> Clusters + 2 - i]
    ELSE [i \in 1..Clusters |->
            IF 2 * i <= Clusters THEN 2 * i + 1 ELSE 2 * (i - Clusters \div 2)]

Needed(length, size) == (length + size - 1) \div size

\* The slots of a directory whose files and subdirectory start where "first" says.
Slotted(kinds, first, lengths, ended) ==
    FlattenSeq([i \in DOMAIN kinds |-> Block(kinds[i], first[kinds[i]], lengths[kinds[i]])])
      \o (IF ended THEN <<EndSlot>> ELSE << >>)

\* Clusters are given out in this order: the root directory, the subdirectory,
\* the file of the root, the two files of the subdirectory.
Build(l) ==
    LET order == OrderOf(l.order)
        Size(kinds) == Max({1, Needed(Len(Slotted(kinds, NoFirst, LengthOf.sub, l.ended)), Slots)})
        n1 == Size(l.root)
        n2 == n1 + Size(l.sub)
        n3 == n2 + Needed(LengthOf.root.a, Units)
        n4 == n3 + Needed(LengthOf.sub.a, Units)
        n5 == n4 + Needed(LengthOf.sub.b, Units)
        slots == Slotted(l.root, [NoFirst EXCEPT !.a = order[n2 + 1], !.d = order[n1 + 1]],
                         LengthOf.root, l.ended)
        subSlots == Slotted(l.sub, [NoFirst EXCEPT !.a = order[n3 + 1], !.b = order[n4 + 1]],
                            LengthOf.sub, l.ended)
        PlaceOf(c) == CHOOSE i \in 1..Clusters : order[i] = c
        LinkOf(i) == IF i \in {n1, n2, n3, n4, n5} THEN END ELSE order[i + 1]
        Padded(s, n) == IF n < Len(s) THEN s[n + 1] ELSE EndSlot
        Stale(p) == Block("a", 0, 1)[IF p < 3 THEN p + 1 ELSE 1]
        SlotOf(i, p) == IF i <= n1 THEN Padded(slots, (i - 1) * Slots + p)
                     ELSE IF i <= n2 THEN Padded(subSlots, (i - n1 - 1) * Slots + p)
                     ELSE Stale(p)
    IN [root |-> order[1],
        fat  |-> [c \in 0..(Clusters + 1) |->
                    IF c < 2 \/ PlaceOf(c) > n5 THEN 0 ELSE LinkOf(PlaceOf(c))],
        heap |-> [n \in 0..(Slots * Clusters - 1) |-> SlotOf(PlaceOf(n \div Slots + 2), n % Slots)]]

SmallVolumes == {Build(l) : l \in Layouts}

\* Volumes with a file in the subdirectory that is not a plain one.
MixedVolumes ==
    {Build(l) : l \in [root : {<<"d">>, <<"d", "a">>}, sub : Orders({"a", "b", "m"}, 2),
                       order : {"down"}, ended : BOOLEAN]}

SmallPaths == {<<NameOf.a>>, <<NameOf.b>>, <<NameOf.d>>, <<NameOf.d, NameOf.a>>,
               <<NameOf.d, NameOf.b>>, <<NameOf.a, NameOf.a>>}
=============================================================================
