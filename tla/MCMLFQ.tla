------------------------------- MODULE MCMLFQ -------------------------------
(* Instances of the scheduler for TLC. *)
EXTENDS MLFQ, TLC

CONSTANTS c1, c2, t1, t2, ty0, ty1

TwoConsumers == {c1, c2}
ConsumerSymmetry == Permutations(TwoConsumers)
TwoTasks == {t1, t2}
TwoTypes == {ty0, ty1}
OneType == {ty0}
EachItsType == t1 :> ty0 @@ t2 :> ty1
AllOneType == t1 :> ty0 @@ t2 :> ty0

\* t1 goes down to level 2, uses up its allotment there and does i/o; t2 fits in its first quantum.
LongAndShort == t1 :> 7 @@ t2 :> 1
Short == t1 :> 1 @@ t2 :> 1
OnlyLongDoesIO == t1 :> 50 @@ t2 :> 0
NoIO == t1 :> 0 @@ t2 :> 0

\* t1 is put back and goes down a level; t2 takes no time at all.
MediumAndNone == t1 :> 3 @@ t2 :> 0

\* One task that is put back twice.
JustOneTask == {t1}
ItsType == t1 :> ty0
Three == t1 :> 3
NoneIO == t1 :> 0
OneTask == <<t1>>

WithDelay == <<t1, Delay, t2>>
NoConsumer == {}
NoDelay == <<t1, t2>>
=============================================================================
