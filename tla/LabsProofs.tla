----------------------------- MODULE LabsProofs -----------------------------
(***************************************************************************)
(* Machine-checked safety of the three programs of MCLabs, each for any    *)
(* values of its constants: octopipe.c for any number of children and of   *)
(* lines, any capacity of a pipe and whatever the commands do; processes.c *)
(* for any number of children asked for; condition-vars.c for any number   *)
(* of lines of any length.                                                 *)
(***************************************************************************)
EXTENDS MCLabs, SequenceTheorems, FiniteSetTheorems, TLAPS

-----------------------------------------------------------------------------
(* octopipe.c: the pipes carry the same lines, and end after the last *)

\* The loop over the pipes starts at the first, with a line to write.
LoopInv ==
    /\ pc = "line" => i = 1
    /\ pc \in {"write", "killed"} => line \in 1..LINES

\* The parent still has the write end of every pipe of which it has not passed
\* the close, which is after the last line.
WriterInv ==
    /\ pc = "pipe" => \A c \in Children : c < i => <<Parent, c, "write">> \in holds
    /\ pc \in {"fork", "closeReads", "line", "write"} =>
         \A c \in Children : <<Parent, c, "write">> \in holds
    /\ pc = "closeWrites" =>
         \A c \in Children : c >= i => <<Parent, c, "write">> \in holds
    /\ pc \in {"closeWrites", "wait", "done"} => line = LINES

\* A child exists only after its fork, and starts to close ends at the first
\* pipe.
ForkInv ==
    /\ pc = "pipe" => \A c \in Children : stage[c] = "none"
    /\ pc = "fork" => \A c \in Children : c >= i => stage[c] = "none"
    /\ \A c \in Children : /\ stage[c] = "none" => j[c] = 1
                           /\ stage[c] = "setup" => j[c] \in Children

PipeInv == TypeOK /\ LoopInv /\ WriterInv /\ ForkInv /\ SameLines /\ EndAfterLastLine

-----------------------------------------------------------------------------
(* What reading and writing a line do to the sequence of lines.              *)

\* A line goes from the head of a pipe to the end of what its child has read.
LEMMA ReadMoves ==
    ASSUME NEW S, NEW g \in Seq(S), NEW p \in Seq(S), p # <<>>
    PROVE  /\ Append(g, Head(p)) \in Seq(S) /\ Tail(p) \in Seq(S)
           /\ Append(g, Head(p)) \o Tail(p) = g \o p
<1>1. Head(p) \in S /\ Tail(p) \in Seq(S) /\ Len(Tail(p)) = Len(p) - 1
      /\ \A k \in 1..Len(Tail(p)) : Tail(p)[k] = p[k + 1]
    BY HeadTailProperties
<1>2. Head(p) = p[1]
    OBVIOUS
<1>3. Len(p) \in Nat \ {0} /\ Len(g) \in Nat
    BY EmptySeq, LenProperties
<1> DEFINE h == Append(g, Head(p))
<1>4. h \in Seq(S) /\ Len(h) = Len(g) + 1
      /\ \A k \in 1..Len(h) : h[k] = IF k = Len(g) + 1 THEN Head(p) ELSE g[k]
    BY <1>1, <1>3
<1> HIDE DEF h
<1>5. /\ h \o Tail(p) \in Seq(S) /\ Len(h \o Tail(p)) = Len(h) + Len(Tail(p))
      /\ \A k \in 1..(Len(h) + Len(Tail(p))) :
            (h \o Tail(p))[k] = IF k <= Len(h) THEN h[k] ELSE Tail(p)[k - Len(h)]
    BY <1>1, <1>4, ConcatProperties
<1>6. /\ g \o p \in Seq(S) /\ Len(g \o p) = Len(g) + Len(p)
      /\ \A k \in 1..(Len(g) + Len(p)) :
            (g \o p)[k] = IF k <= Len(g) THEN g[k] ELSE p[k - Len(g)]
    BY ConcatProperties
<1>7. ASSUME NEW k \in 1..Len(h \o Tail(p)) PROVE (h \o Tail(p))[k] = (g \o p)[k]
  <2>1. CASE k <= Len(g)
      BY <2>1, <1>1, <1>3, <1>4, <1>5, <1>6
  <2>2. CASE k = Len(g) + 1
      BY <2>2, <1>1, <1>2, <1>3, <1>4, <1>5, <1>6
  <2>3. CASE k > Len(g) + 1
    <3>1. k - Len(h) \in 1..Len(Tail(p)) /\ (k - Len(h)) + 1 = k - Len(g)
        BY <2>3, <1>1, <1>3, <1>4, <1>5
    <3> QED
        BY <3>1, <2>3, <1>1, <1>3, <1>4, <1>5, <1>6
  <2>4. k <= Len(g) \/ k = Len(g) + 1 \/ k > Len(g) + 1
      BY <1>1, <1>3, <1>4, <1>5
  <2> QED
      BY <2>1, <2>2, <2>3, <2>4
<1>8. h \o Tail(p) = g \o p
    BY <1>1, <1>3, <1>4, <1>5, <1>6, <1>7, SeqEqual
<1> QED
    BY <1>1, <1>4, <1>8 DEF h

\* The line after the first n goes to the end of a pipe.
LEMMA WriteExtends ==
    ASSUME NEW S, NEW g \in Seq(S), NEW p \in Seq(S), NEW m \in S, m \in Nat \ {0},
           g \o p = UpTo(m - 1)
    PROVE  g \o Append(p, m) = UpTo(m)
<1> DEFINE n == m - 1
<1>0. n \in Nat /\ n + 1 = m
    OBVIOUS
<1>n. g \o p = UpTo(n)
    OBVIOUS
<1> HIDE DEF n
<1>1. Len(p) \in Nat /\ Len(g) \in Nat
    BY LenProperties
<1> DEFINE q == Append(p, m)
<1>2. q \in Seq(S) /\ Len(q) = Len(p) + 1
      /\ \A k \in 1..Len(q) : q[k] = IF k = Len(p) + 1 THEN n + 1 ELSE p[k]
    BY <1>0, <1>1
<1> HIDE DEF q
<1>3. /\ g \o q \in Seq(S) /\ Len(g \o q) = Len(g) + Len(q)
      /\ \A k \in 1..(Len(g) + Len(q)) :
            (g \o q)[k] = IF k <= Len(g) THEN g[k] ELSE q[k - Len(g)]
    BY <1>2, ConcatProperties
<1>4. /\ g \o p \in Seq(S) /\ Len(g \o p) = Len(g) + Len(p)
      /\ \A k \in 1..(Len(g) + Len(p)) :
            (g \o p)[k] = IF k <= Len(g) THEN g[k] ELSE p[k - Len(g)]
    BY ConcatProperties
<1>5. Len(g) + Len(p) = n /\ \A k \in 1..n : (g \o p)[k] = k
  <2>1. UpTo(n) \in Seq(Nat) /\ Len(UpTo(n)) = n /\ \A k \in 1..n : UpTo(n)[k] = k
      BY <1>0 DEF UpTo
  <2> QED
      BY <2>1, <1>n, <1>4
<1>6. UpTo(n + 1) \in Seq(Nat) /\ Len(UpTo(n + 1)) = n + 1 /\ \A k \in 1..(n + 1) : UpTo(n + 1)[k] = k
    BY <1>0 DEF UpTo
<1>7. ASSUME NEW k \in 1..(n + 1) PROVE (g \o q)[k] = k
  <2>1. CASE k <= Len(g)
      BY <2>1, <1>1, <1>0, <1>2, <1>3, <1>4, <1>5
  <2>2. CASE k > Len(g) /\ k <= n
    <3>1. k - Len(g) \in 1..Len(p)
        BY <2>2, <1>1, <1>0, <1>5
    <3>2. (g \o q)[k] = q[k - Len(g)] /\ (g \o p)[k] = p[k - Len(g)]
        BY <3>1, <2>2, <1>1, <1>0, <1>2, <1>3, <1>4, <1>5
    <3>3. q[k - Len(g)] = p[k - Len(g)]
        BY <3>1, <1>1, <1>0, <1>2
    <3> QED
        BY <3>2, <3>3, <2>2, <1>5
  <2>3. CASE k = n + 1
    <3>1. k - Len(g) = Len(p) + 1
      <4>1. Len(g) + Len(p) = n
          BY <1>5
      <4> QED
          BY <4>1, <2>3, <1>0, <1>1
    <3>2. (g \o q)[k] = q[k - Len(g)]
        BY <3>1, <2>3, <1>1, <1>0, <1>2, <1>3, <1>5
    <3>3. q[Len(p) + 1] = n + 1
        BY <1>1, <1>2
    <3> QED
        BY <3>1, <3>2, <3>3, <2>3
  <2>4. k <= Len(g) \/ (k > Len(g) /\ k <= n) \/ k = n + 1
      BY <1>1, <1>0
  <2> QED
      BY <2>1, <2>2, <2>3, <2>4
<1>8. DOMAIN (g \o q) = 1..(n + 1)
    BY <1>1, <1>0, <1>2, <1>3, <1>5, LenProperties
<1>9. g \o q = UpTo(n + 1)
    BY <1>0, <1>3, <1>7, <1>8, LenProperties DEF UpTo
<1> QED
    BY <1>0, <1>9 DEF q

-----------------------------------------------------------------------------
(* The invariant holds in the beginning, and every step keeps it.            *)

\* A round of a loop keeps the index at a pipe, and enters the next loop at
\* the first.
LEMMA RoundIndex ==
    ASSUME NEW from, NEW to, i \in Children, Round(from, to)
    PROVE  /\ i' \in Children
           /\ pc = from
           /\ \/ i < total /\ i' = i + 1 /\ pc' = from
              \/ i = total /\ i' = 1 /\ pc' = to
BY OctoAssumption DEF Round, Children

\* A pipe that is not the last has a next one.
LEMMA NextPipe == ASSUME NEW n \in Children, n # total PROVE n + 1 \in Children
BY OctoAssumption DEF Children

\* At first no pipe is open and no child exists.
LEMMA PipeInvInit == Init => PipeInv
<1> SUFFICES ASSUME Init PROVE PipeInv
    OBVIOUS
<1>1. 1 \in Children
    BY OctoAssumption DEF Children
<1>2. <<>> \in Seq(1..LINES)
    OBVIOUS
<1>3. TypeOK
    BY <1>1, <1>2, OctoAssumption DEF Init, TypeOK
<1>4. LoopInv /\ WriterInv /\ ForkInv /\ EndAfterLastLine
    BY <1>1 DEF Init, LoopInv, WriterInv, ForkInv, EndAfterLastLine, Children
<1>5. SameLines
  <2>1. UpTo(0) = <<>>
      BY DEF UpTo
  <2> QED
      BY <2>1, ConcatEmptySeq DEF Init, SameLines, Written
<1> QED
    BY <1>3, <1>4, <1>5 DEF PipeInv

\* No step leaves the types: a line is written only when one was read, and a
\* child has a pipe to close as long as it closes.
LEMMA TypeKept == PipeInv /\ [Next]_vars => TypeOK'
<1> SUFFICES ASSUME PipeInv, [Next]_vars PROVE TypeOK'
    OBVIOUS
<1> USE OctoAssumption DEF PipeInv, TypeOK, Processes, Ends
<1>1. CASE OpenPipe
    BY <1>1, RoundIndex DEF OpenPipe, childVars, Parent
<1>2. CASE Fork
  <2>1. i' \in Children /\ pc' \in {"fork", "closeReads"} /\ j' = j /\ line' = line
        /\ command' = command /\ pipe' = pipe /\ got' = got
      BY <1>2, RoundIndex DEF Fork
  <2>2. stage' \in [Children -> {"none", "setup", "runs", "ended", "reaped"}]
      BY <1>2 DEF Fork
  <2>3. holds' \subseteq Processes \X Children \X Ends
      BY <1>2 DEF Fork, EndsOf
  <2> QED
      BY <2>1, <2>2, <2>3
<1>3. CASE CloseRead
    BY <1>3, RoundIndex DEF CloseRead, childVars
<1>4. CASE ReadLine
    BY <1>4 DEF ReadLine, childVars
<1>5. CASE Write
  <2>1. i \in Children /\ line \in 1..LINES /\ pipe[i] \in Seq(1..LINES)
      BY <1>5, RoundIndex DEF Write, LoopInv
  <2>2. pipe' \in [Children -> Seq(1..LINES)]
      BY <1>5, <2>1 DEF Write
  <2> QED
      BY <1>5, <2>2, RoundIndex DEF Write
<1>6. CASE BrokenPipe
    BY <1>6 DEF BrokenPipe, childVars
<1>7. CASE CloseWrite
    BY <1>7, RoundIndex DEF CloseWrite, childVars
<1>8. CASE Wait
    BY <1>8 DEF Wait
<1>9. ASSUME NEW c \in Children, CloseEnds(c) PROVE TypeOK'
  <2>1. j' \in [Children -> 1..(total + 1)]
    <3>1. j[c] \in Children
        BY <1>9 DEF CloseEnds, ForkInv
    <3>2. j[c] + 1 \in 1..(total + 1)
        BY <3>1, SMTT(30) DEF Children
    <3> QED
        BY <1>9, <3>2 DEF CloseEnds
  <2>2. stage' \in [Children -> {"none", "setup", "runs", "ended", "reaped"}]
      BY <1>9 DEF CloseEnds
  <2> QED
      BY <1>9, <2>1, <2>2 DEF CloseEnds
<1>10. ASSUME NEW c \in Children, Read(c) PROVE TypeOK'
  <2>1. got[c] \in Seq(1..LINES) /\ pipe[c] \in Seq(1..LINES) /\ pipe[c] # <<>>
      BY <1>10 DEF Read
  <2>2. Append(got[c], Head(pipe[c])) \in Seq(1..LINES) /\ Tail(pipe[c]) \in Seq(1..LINES)
      BY <2>1, ReadMoves
  <2> QED
      BY <1>10, <2>2 DEF Read
<1>11. ASSUME NEW c \in Children, End(c) PROVE TypeOK'
    BY <1>11 DEF End
<1>12. CASE UNCHANGED vars
    BY <1>12 DEF vars
<1> QED
    BY <1>1, <1>2, <1>3, <1>4, <1>5, <1>6, <1>7, <1>8, <1>9, <1>10, <1>11, <1>12
       DEF Next, ParentStep, ChildStep, ReadEnd, Quit

\* Every step keeps the loop of the forks.
LEMMA LoopKept == PipeInv /\ [Next]_vars => LoopInv'
<1> SUFFICES ASSUME PipeInv, [Next]_vars PROVE LoopInv'
    OBVIOUS
<1> USE OctoAssumption DEF PipeInv, TypeOK, LoopInv
<1>1. CASE OpenPipe \/ Fork \/ CloseRead \/ Write \/ CloseWrite
    BY <1>1, RoundIndex DEF OpenPipe, Fork, CloseRead, Write, CloseWrite, childVars
<1>2. CASE ReadLine
    BY <1>2 DEF ReadLine
<1>3. CASE BrokenPipe \/ Wait
    BY <1>3 DEF BrokenPipe, Wait
<1>4. ASSUME NEW c \in Children, ChildStep(c) PROVE LoopInv'
    BY <1>4 DEF ChildStep, CloseEnds, Read, ReadEnd, Quit, End
<1>5. CASE UNCHANGED vars
    BY <1>5 DEF vars
<1> QED
    BY <1>1, <1>2, <1>3, <1>4, <1>5 DEF Next, ParentStep

\* The parent closes a write end only in its last loop, pipe by pipe.
LEMMA WriterKept == PipeInv /\ [Next]_vars => WriterInv'
<1> SUFFICES ASSUME PipeInv, [Next]_vars PROVE WriterInv'
    OBVIOUS
<1> USE OctoAssumption DEF PipeInv, TypeOK, WriterInv, Parent
<1>1. CASE OpenPipe
  <2>1. /\ pc = "pipe" /\ i' \in Children
        /\ \/ i < total /\ i' = i + 1 /\ pc' = "pipe"
           \/ i = total /\ i' = 1 /\ pc' = "fork"
      BY <1>1, RoundIndex DEF OpenPipe
  <2>2. holds \subseteq holds' /\ <<Parent, i, "write">> \in holds'
      BY <1>1 DEF OpenPipe, Ends
  <2>3. ASSUME NEW c \in Children, c <= i PROVE <<Parent, c, "write">> \in holds'
    <3>1. c < i \/ c = i
        BY <2>3 DEF Children
    <3> QED
        BY <3>1, <2>1, <2>2
  <2>4. i = total => \A c \in Children : c <= i
      BY DEF Children
  <2>5. i' = i + 1 => \A c \in Children : c < i' => c <= i
      BY DEF Children
  <2> QED
      BY <2>1, <2>3, <2>4, <2>5
<1>2. CASE Fork
  <2>1. pc = "fork" /\ pc' \in {"fork", "closeReads"} /\ holds \subseteq holds'
      BY <1>2, RoundIndex DEF Fork
  <2> QED
      BY <2>1
<1>3. CASE CloseRead
  <2>1. pc = "closeReads" /\ pc' \in {"closeReads", "line"}
      BY <1>3, RoundIndex DEF CloseRead
  <2>2. ASSUME NEW c \in Children PROVE <<Parent, c, "write">> \in holds'
      BY <1>3, <2>1 DEF CloseRead
  <2> QED
      BY <2>1, <2>2
<1>4. CASE ReadLine
  <2>1. pc = "line" /\ i = 1 /\ holds' = holds /\ i' = i
        /\ (pc' = "write" \/ (pc' = "closeWrites" /\ line' = LINES))
      BY <1>4 DEF ReadLine, LoopInv
  <2> QED
      BY <2>1
<1>5. CASE Write
  <2>1. pc = "write" /\ pc' \in {"write", "line"} /\ holds' = holds
      BY <1>5, RoundIndex DEF Write
  <2> QED
      BY <2>1
<1>6. CASE BrokenPipe
    BY <1>6 DEF BrokenPipe
<1>7. CASE CloseWrite
  <2>1. /\ pc = "closeWrites" /\ i' \in Children /\ line' = LINES
        /\ \/ i < total /\ i' = i + 1 /\ pc' = "closeWrites"
           \/ i = total /\ i' = 1 /\ pc' = "wait"
      BY <1>7, RoundIndex DEF CloseWrite, childVars
  <2>2. ASSUME NEW c \in Children, c > i PROVE <<Parent, c, "write">> \in holds'
    <3>1. c >= i /\ c # i
        BY <2>2 DEF Children
    <3> QED
        BY <1>7, <2>1, <3>1 DEF CloseWrite
  <2>3. ASSUME NEW c \in Children, i' = i + 1, c >= i' PROVE c > i
      BY <2>3 DEF Children
  <2> QED
      BY <2>1, <2>2, <2>3
<1>8. CASE Wait
  <2>1. pc = "wait" /\ pc' \in {"wait", "done"} /\ holds' = holds /\ line' = line
      BY <1>8 DEF Wait
  <2> QED
      BY <2>1
<1>9. ASSUME NEW c \in Children, ChildStep(c) PROVE WriterInv'
  <2>1. pc' = pc /\ i' = i /\ line' = line
      BY <1>9 DEF ChildStep, CloseEnds, Read, ReadEnd, Quit, End
  <2>2. ASSUME NEW d \in Children, <<Parent, d, "write">> \in holds
        PROVE  <<Parent, d, "write">> \in holds'
    <3>1. c # Parent
        BY DEF Children
    <3> QED
        BY <1>9, <2>2, <3>1 DEF ChildStep, CloseEnds, Read, ReadEnd, Quit, End, EndsOf
  <2> QED
      BY <2>1, <2>2
<1>10. CASE UNCHANGED vars
    BY <1>10 DEF vars
<1> QED
    BY <1>1, <1>2, <1>3, <1>4, <1>5, <1>6, <1>7, <1>8, <1>9, <1>10 DEF Next, ParentStep

\* Every step keeps the children in the order of their forks.
LEMMA ForkKept == PipeInv /\ [Next]_vars => ForkInv'
<1> SUFFICES ASSUME PipeInv, [Next]_vars PROVE ForkInv'
    OBVIOUS
<1> USE OctoAssumption DEF PipeInv, TypeOK, ForkInv
<1>1. CASE OpenPipe
    BY <1>1, RoundIndex DEF OpenPipe, childVars
<1>2. CASE Fork
  <2>1. /\ pc = "fork" /\ i' \in Children /\ j' = j
        /\ \/ i < total /\ i' = i + 1 /\ pc' = "fork"
           \/ i = total /\ i' = 1 /\ pc' = "closeReads"
      BY <1>2, RoundIndex DEF Fork
  <2>2. \A c \in Children : c # i => stage'[c] = stage[c]
      BY <1>2 DEF Fork
  <2>3. stage'[i] \in {"setup", stage[i]}
      BY <1>2 DEF Fork
  <2>4. stage[i] = "none" /\ j[i] = 1
      BY <2>1 DEF Children
  <2>5. ASSUME NEW c \in Children, pc' = "fork", c >= i' PROVE stage'[c] = "none"
    <3>1. c >= i /\ c # i
        BY <2>1, <2>5 DEF Children
    <3> QED
        BY <2>1, <2>2, <3>1
  <2>6. 1 \in Children
      BY DEF Children
  <2>7. ASSUME NEW c \in Children
        PROVE  /\ stage'[c] = "none" => j'[c] = 1
               /\ stage'[c] = "setup" => j'[c] \in Children
      BY <2>1, <2>2, <2>3, <2>4, <2>6
  <2> QED
      BY <2>1, <2>5, <2>7
<1>3. CASE CloseRead \/ Write \/ CloseWrite
  <2>1. CloseRead => pc' \in {"closeReads", "line"} /\ stage' = stage /\ j' = j
      BY RoundIndex DEF CloseRead, childVars
  <2>2. Write => pc' \in {"write", "line"} /\ stage' = stage /\ j' = j
      BY RoundIndex DEF Write
  <2>3. CloseWrite => pc' \in {"closeWrites", "wait"} /\ stage' = stage /\ j' = j
      BY RoundIndex DEF CloseWrite, childVars
  <2>4. pc' \notin {"pipe", "fork"} /\ stage' = stage /\ j' = j
      BY <1>3, <2>1, <2>2, <2>3
  <2> QED
      BY <2>4
<1>4. CASE ReadLine \/ BrokenPipe
  <2>1. pc' \notin {"pipe", "fork"} /\ stage' = stage /\ j' = j
      BY <1>4 DEF ReadLine, BrokenPipe, childVars
  <2> QED
      BY <2>1
<1>5. CASE Wait
  <2>1. pc' \notin {"pipe", "fork"} /\ j' = j
      BY <1>5 DEF Wait
  <2>2. \A c \in Children : stage'[c] = stage[c] \/ stage'[c] = "reaped"
      BY <1>5 DEF Wait
  <2> QED
      BY <2>1, <2>2
<1>6. ASSUME NEW c \in Children, CloseEnds(c) PROVE ForkInv'
  <2>1. stage[c] = "setup" /\ pc' = pc /\ i' = i
      BY <1>6 DEF CloseEnds
  <2>2. \A d \in Children : d # c => stage'[d] = stage[d] /\ j'[d] = j[d]
      BY <1>6 DEF CloseEnds
  <2>3. stage'[c] = IF j[c] = total THEN "runs" ELSE "setup"
      BY <1>6 DEF CloseEnds
  <2>4. j'[c] = j[c] + 1 /\ j[c] \in Children
      BY <1>6, <2>1 DEF CloseEnds
  <2>5. ASSUME stage'[c] = "setup" PROVE j'[c] \in Children
    <3>1. j[c] # total
        BY <2>3, <2>5
    <3> QED
        BY <2>4, <3>1, NextPipe
  <2> QED
      BY <2>1, <2>2, <2>3, <2>5
<1>7. ASSUME NEW c \in Children, Read(c) PROVE ForkInv'
    BY <1>7 DEF Read
<1>8. ASSUME NEW c \in Children, End(c) PROVE ForkInv'
  <2>1. stage[c] = "runs" /\ pc' = pc /\ i' = i /\ j' = j
        /\ stage' = [stage EXCEPT ![c] = "ended"]
      BY <1>8 DEF End
  <2> QED
      BY <2>1
<1>9. CASE UNCHANGED vars
    BY <1>9 DEF vars
<1> QED
    BY <1>1, <1>2, <1>3, <1>4, <1>5, <1>6, <1>7, <1>8, <1>9
       DEF Next, ParentStep, ChildStep, ReadEnd, Quit

-----------------------------------------------------------------------------
(* The two properties *)

\* The write of a line adds it to what its pipe has carried.
LEMMA WriteLine ==
    ASSUME TypeOK, NEW c \in Children, line \in 1..LINES, got[c] \o pipe[c] = UpTo(line - 1)
    PROVE  got[c] \o Append(pipe[c], line) = UpTo(line)
<1>1. got[c] \in Seq(1..LINES) /\ pipe[c] \in Seq(1..LINES)
    BY DEF TypeOK
<1>2. line \in Nat \ {0}
    BY OctoAssumption
<1> QED
    BY <1>1, <1>2, WriteExtends

\* A line is in c's pipe, or read, from the write to c on: the loop of Write
\* passes c when it has written to it, and a read only moves a line.
LEMMA LinesKept == PipeInv /\ [Next]_vars => SameLines'
<1> SUFFICES ASSUME PipeInv, [Next]_vars, NEW d \in Children
             PROVE  got'[d] \o pipe'[d] = UpTo(Written(d)')
    BY DEF SameLines, Children
<1> USE OctoAssumption DEF PipeInv, TypeOK
<1>0. got[d] \o pipe[d] = UpTo(Written(d))
    BY DEF SameLines
<1>n. line \in Nat /\ d \in 1..total /\ i \in 1..total
    BY DEF Children
<1>1. ASSUME got' = got, pipe' = pipe, Written(d)' = Written(d)
      PROVE  got'[d] \o pipe'[d] = UpTo(Written(d)')
    BY <1>0, <1>1
<1>2. CASE OpenPipe \/ Fork \/ CloseRead \/ CloseWrite
  <2>1. OpenPipe => pc = "pipe" /\ pc' \in {"pipe", "fork"}
      BY RoundIndex DEF OpenPipe
  <2>2. Fork => pc = "fork" /\ pc' \in {"fork", "closeReads"}
      BY RoundIndex DEF Fork
  <2>3. CloseRead => pc = "closeReads" /\ pc' \in {"closeReads", "line"}
      BY RoundIndex DEF CloseRead
  <2>4. CloseWrite => pc = "closeWrites" /\ pc' \in {"closeWrites", "wait"}
      BY RoundIndex DEF CloseWrite
  <2>5. pc \notin {"write", "killed"} /\ pc' \notin {"write", "killed"}
      BY <1>2, <2>1, <2>2, <2>3, <2>4
  <2>6. line' = line /\ got' = got /\ pipe' = pipe
      BY <1>2 DEF OpenPipe, Fork, CloseRead, CloseWrite, childVars
  <2>7. Written(d)' = Written(d)
      BY <2>5, <2>6 DEF Written
  <2> QED
      BY <2>6, <2>7, <1>1
<1>3. CASE ReadLine
  <2>1. /\ pc = "line" /\ i = 1 /\ i' = i /\ got' = got /\ pipe' = pipe
        /\ \/ pc' = "write" /\ line' = line + 1
           \/ pc' = "closeWrites" /\ line' = line
      BY <1>3 DEF ReadLine, LoopInv, childVars
  <2>2. d >= i'
      BY <2>1 DEF Children
  <2>3. Written(d)' = Written(d)
    <3>1. (line + 1) - 1 = line
        BY <1>n
    <3>2. Written(d)' = IF pc' = "write" THEN line' - 1 ELSE line'
        BY <2>1, <2>2 DEF Written
    <3>3. Written(d) = line
        BY <2>1 DEF Written
    <3> QED
        BY <3>1, <3>2, <3>3, <2>1
  <2> QED
      BY <2>1, <2>3, <1>1
<1>4. CASE Write
  <2>1. /\ pc = "write" /\ line' = line /\ got' = got
        /\ pipe' = [pipe EXCEPT ![i] = Append(@, line)]
        /\ \/ i < total /\ i' = i + 1 /\ pc' = "write"
           \/ i = total /\ i' = 1 /\ pc' = "line"
      BY <1>4, RoundIndex DEF Write
  <2>2. CASE d = i
    <3>1. line \in 1..LINES /\ line - 1 \in Nat /\ (line - 1) + 1 = line
        BY <2>1 DEF LoopInv
    <3>2. Written(d) = line - 1 /\ Written(d)' = line
      <4>1. d >= i /\ (i' = i + 1 => ~ (d >= i'))
          BY <2>2, <1>n
      <4> QED
          BY <2>1, <4>1 DEF Written
    <3>4. got[d] \o Append(pipe[d], line) = UpTo(line)
      <4>1. got[d] \o pipe[d] = UpTo(line - 1)
          BY <3>2, <1>0
      <4> QED
          BY <4>1, <3>1, WriteLine
    <3>5. pipe'[d] = Append(pipe[d], line)
        BY <2>1, <2>2
    <3> QED
        BY <3>2, <3>4, <3>5, <2>1
  <2>3. CASE d # i
    <3>1. Written(d)' = Written(d)
      <4>1. d >= i + 1 <=> d >= i
          BY <2>3, <1>n
      <4>2. i = total => ~ (d >= i)
          BY <2>3, <1>n
      <4> QED
          BY <2>1, <4>1, <4>2 DEF Written
    <3>2. pipe'[d] = pipe[d]
        BY <2>1, <2>3
    <3> QED
        BY <3>1, <3>2, <2>1, <1>0
  <2> QED
      BY <2>2, <2>3
<1>5. CASE BrokenPipe \/ Wait
  <2>1. /\ got' = got /\ pipe' = pipe /\ line' = line /\ i' = i
        /\ \/ pc = "write" /\ pc' = "killed"
           \/ pc = "wait" /\ pc' \in {"wait", "done"}
      BY <1>5 DEF BrokenPipe, Wait, childVars
  <2>2. Written(d)' = Written(d)
      BY <2>1 DEF Written
  <2> QED
      BY <2>1, <2>2, <1>1
<1>6. ASSUME NEW c \in Children, Read(c) PROVE got'[d] \o pipe'[d] = UpTo(Written(d)')
  <2>1. got[c] \in Seq(1..LINES) /\ pipe[c] \in Seq(1..LINES) /\ pipe[c] # <<>>
      BY <1>6 DEF Read
  <2>2. Written(d)' = Written(d)
      BY <1>6 DEF Read, Written
  <2>3. got'[d] \o pipe'[d] = got[d] \o pipe[d]
    <3>1. CASE d = c
      <4>1. got'[d] = Append(got[c], Head(pipe[c])) /\ pipe'[d] = Tail(pipe[c])
          BY <1>6, <3>1 DEF Read
      <4>2. Append(got[c], Head(pipe[c])) \o Tail(pipe[c]) = got[c] \o pipe[c]
          BY <2>1, ReadMoves, ZenonT(60)
      <4> QED
          BY <4>1, <4>2, <3>1
    <3>2. CASE d # c
        BY <1>6, <3>2 DEF Read
    <3> QED
        BY <3>1, <3>2
  <2> QED
      BY <2>2, <2>3, <1>0
<1>7. ASSUME NEW c \in Children, CloseEnds(c) \/ End(c)
      PROVE  got'[d] \o pipe'[d] = UpTo(Written(d)')
    BY <1>7, <1>0 DEF CloseEnds, End, Written
<1>8. CASE UNCHANGED vars
    BY <1>8, <1>0 DEF vars, Written
<1> QED
    BY <1>2, <1>3, <1>4, <1>5, <1>6, <1>7, <1>8
       DEF Next, ParentStep, ChildStep, ReadEnd, Quit

\* A child that reads to the end ends only when the parent's write end of its
\* pipe is closed too, so after the last line was written.
LEMMA EndKept == PipeInv /\ [Next]_vars => EndAfterLastLine'
<1> SUFFICES ASSUME PipeInv, [Next]_vars, NEW d \in Children,
                    command'[d] = "reads", stage'[d] \in {"ended", "reaped"}, pc' # "killed"
             PROVE  got'[d] = UpTo(LINES)
    BY DEF EndAfterLastLine, Children
<1> USE OctoAssumption DEF PipeInv, TypeOK
<1>1. pc # "killed" /\ command' = command
    BY DEF Next, ParentStep, ChildStep, OpenPipe, Fork, CloseRead, ReadLine, Write,
           BrokenPipe, CloseWrite, Wait, CloseEnds, Read, ReadEnd, Quit, End, Round,
           childVars, vars
<1>2. ASSUME got'[d] = got[d], stage[d] \in {"ended", "reaped"}
      PROVE  got'[d] = UpTo(LINES)
    BY <1>1, <1>2 DEF EndAfterLastLine
<1>3. CASE OpenPipe \/ CloseRead \/ ReadLine \/ Write \/ BrokenPipe \/ CloseWrite
    BY <1>2, <1>3 DEF OpenPipe, CloseRead, ReadLine, Write, BrokenPipe, CloseWrite, childVars
<1>4. CASE Fork
    BY <1>2, <1>4 DEF Fork
<1>5. CASE Wait
    BY <1>2, <1>5 DEF Wait
<1>6. ASSUME NEW c \in Children, CloseEnds(c) PROVE got'[d] = UpTo(LINES)
    BY <1>2, <1>6 DEF CloseEnds
<1>7. ASSUME NEW c \in Children, Read(c) PROVE got'[d] = UpTo(LINES)
  <2>1. stage' = stage /\ stage[c] = "runs"
      BY <1>7 DEF Read
  <2>2. got'[d] = got[d]
      BY <1>7, <2>1 DEF Read
  <2> QED
      BY <1>2, <2>1, <2>2
<1>8. ASSUME NEW c \in Children, End(c), c # d \/ ReadEnd(c) \/ Quit(c)
      PROVE  got'[d] = UpTo(LINES)
  <2>1. CASE c # d
      BY <1>2, <1>8, <2>1 DEF End
  <2>2. CASE c = d
    <3>1. /\ pipe[d] = <<>> /\ ~ SomeoneHolds(d, "write") /\ got' = got /\ pc' = pc
          /\ stage[d] = "runs"
        BY <1>1, <1>8, <2>2 DEF ReadEnd, Quit, End
    <3>2. <<Parent, d, "write">> \notin holds
        BY <3>1 DEF SomeoneHolds, Processes
    <3>3. pc \notin {"pipe", "fork", "closeReads", "line", "write"}
        BY <3>1, <3>2 DEF WriterInv, ForkInv
    <3>4. Written(d) = LINES
        BY <1>1, <3>3 DEF WriterInv, Written
    <3>5. got[d] \in Seq(1..LINES) /\ got[d] \o pipe[d] = UpTo(LINES)
        BY <3>4 DEF SameLines
    <3> QED
        BY <3>1, <3>5, ConcatEmptySeq
  <2> QED
      BY <2>1, <2>2
<1>9. CASE UNCHANGED vars
    BY <1>2, <1>9 DEF vars
<1> QED
    BY <1>3, <1>4, <1>5, <1>6, <1>7, <1>8, <1>9
       DEF Next, ParentStep, ChildStep, ReadEnd, Quit

\* PipeInv is an invariant of the pipeline.
THEOREM PipeInvariant == Spec => []PipeInv
<1>1. PipeInv /\ [Next]_vars => PipeInv'
    BY TypeKept, LoopKept, WriterKept, ForkKept, LinesKept, EndKept DEF PipeInv
<1> QED
    BY PipeInvInit, <1>1, PTL DEF Spec

-----------------------------------------------------------------------------

\* octopipe never leaves its types: no line is written before it is read, and
\* no child closes an end of a pipe beyond the last.
THEOREM TypeCorrect == Spec => []TypeOK
<1>1. PipeInv => TypeOK
    BY DEF PipeInv
<1> QED
    BY PipeInvariant, <1>1, PTL

\* Each child has read, or finds in its pipe, the lines written, in order.
THEOREM LinesSame == Spec => []SameLines
<1>1. PipeInv => SameLines
    BY DEF PipeInv
<1> QED
    BY PipeInvariant, <1>1, PTL

\* End of file reaches no child before the last line.
THEOREM WholeInput == Spec => []EndAfterLastLine
<1>1. PipeInv => EndAfterLastLine
    BY DEF PipeInv
<1> QED
    BY PipeInvariant, <1>1, PTL

-----------------------------------------------------------------------------
(* processes.c: every SIGUSR1 is counted *)

Heard(c) == forkStage[c] \in {"asleep", "ended", "reaped"}

\* The types of the variables of ForkCount.
TallyTypes ==
    /\ asked \in Int /\ forks \in Nat /\ count \in Nat
    /\ usr1 \in BOOLEAN /\ flag \in BOOLEAN
    /\ forkPc \in {"fork", "spin", "raise", "check", "parentHandler", "exited"}
    /\ forkStage \in [1..asked -> {"none", "born", "ready", "asleep", "failed", "ended", "reaped"}]
    /\ usr2 \subseteq 1..asked

\* Children are forked in order, and each of them has reported before the next
\* one is forked.
StageInv ==
    /\ forks <= asked \/ forks = 0
    /\ forkPc \in {"spin", "raise"} => forks < asked
    /\ forkPc \in {"check", "parentHandler", "exited"} => forks >= asked
    /\ \A c \in 1..asked :
         /\ c <= forks => Heard(c)
         /\ c > forks + 1 \/ (c > forks /\ forkPc = "fork") => forkStage[c] = "none"
    /\ usr2 # {} => forkPc \in {"parentHandler", "exited"}

\* The last child's signal has not been sent, is on its way or is counted.
Silent == flag /\ count = forks /\ ~ usr1 /\ forkStage[forks + 1] \in {"born", "ready", "failed"}
Underway == flag /\ count = forks /\ usr1 /\ forkStage[forks + 1] = "asleep"
Counted == ~ flag /\ count = forks + 1 /\ ~ usr1 /\ forkStage[forks + 1] = "asleep"

CountInv ==
    /\ forkPc = "fork" => flag
    /\ forkPc \notin {"spin", "raise"} => count = forks /\ ~ usr1
    /\ forkPc = "spin" => Silent \/ Underway \/ Counted
    /\ forkPc = "raise" => Counted

TallyInv == TallyTypes /\ StageInv /\ CountInv

\* At first no signal has been sent.
LEMMA TallyInit == Processes1!Init => TallyInv
<1> SUFFICES ASSUME Processes1!Init PROVE TallyInv
  OBVIOUS
<1>1. flag /\ ~ usr1
  BY DEF Processes1!Init
<1>2. TallyTypes
  BY LabsAssumption DEF Processes1!Init, Processes1!Children, TallyTypes
<1>3. StageInv
  BY LabsAssumption DEF Processes1!Init, Processes1!Children, StageInv, Heard
<1>4. CountInv
  <2>1. forkPc = "fork" /\ count = forks
    BY DEF Processes1!Init
  <2> QED BY <1>1, <2>1 DEF CountInv
<1> QED BY <1>2, <1>3, <1>4 DEF TallyInv

\* Steps of the parent.
LEMMA TallyParent == TallyInv /\ Processes1!ParentStep => TallyInv'
<1> SUFFICES ASSUME TallyInv, Processes1!ParentStep PROVE TallyInv'
  OBVIOUS
<1> USE DEF TallyInv, TallyTypes, StageInv, CountInv, Silent, Underway, Counted, Heard,
            Processes1!Children
<1>1. CASE Processes1!Fork
  BY <1>1 DEF Processes1!Fork
<1>2. CASE Processes1!Spin
  BY <1>2 DEF Processes1!Spin
<1>3. CASE Processes1!RaiseFlag
  BY <1>3 DEF Processes1!RaiseFlag
<1>4. CASE Processes1!EndForks
  BY <1>4 DEF Processes1!EndForks
<1>5. CASE Processes1!Broadcast
  BY <1>5 DEF Processes1!Broadcast
<1>6. CASE Processes1!Wait
  BY <1>6 DEF Processes1!Wait
<1>7. CASE Processes1!CountHandler
  <2>1. usr1 /\ forkPc = "spin" /\ count = forks /\ forkStage[forks + 1] = "asleep"
    BY <1>7 DEF Processes1!CountHandler
  <2>2. count' = forks + 1 /\ UNCHANGED <<asked, forkPc, forks, forkStage, usr2>>
    BY <1>7, <2>1 DEF Processes1!CountHandler
  <2>3. ~ flag' /\ ~ usr1' /\ flag' \in BOOLEAN /\ usr1' \in BOOLEAN
    BY <1>7 DEF Processes1!CountHandler
  <2> QED BY <2>1, <2>2, <2>3
<1> QED BY <1>1, <1>2, <1>3, <1>4, <1>5, <1>6, <1>7 DEF Processes1!ParentStep

\* Steps of a child.
LEMMA TallyChild == TallyInv /\ (\E c \in 1..asked : Processes1!ChildStep(c)) => TallyInv'
<1> SUFFICES ASSUME TallyInv, NEW c \in 1..asked, Processes1!ChildStep(c) PROVE TallyInv'
  OBVIOUS
<1> USE DEF TallyInv, TallyTypes, StageInv, CountInv, Silent, Underway, Counted, Heard
<1>1. CASE Processes1!SetHandler(c)
  BY <1>1 DEF Processes1!SetHandler
<1>2. CASE Processes1!Report(c)
  <2>1. forkPc = "spin" /\ c = forks + 1
    BY <1>2 DEF Processes1!Report
  <2> QED BY <1>2, <2>1 DEF Processes1!Report
<1>3. CASE Processes1!CatchUsr2(c)
  BY <1>3 DEF Processes1!CatchUsr2, Processes1!Alive
<1> QED BY <1>1, <1>2, <1>3 DEF Processes1!ChildStep

\* TallyInv is an invariant of the counting processes.
LEMMA TallyInvariant == Processes1!Spec => []TallyInv
<1>1. TallyInv /\ UNCHANGED Processes1!vars => TallyInv'
  BY DEF Processes1!vars, TallyInv, TallyTypes, StageInv, CountInv, Silent, Underway, Counted, Heard
<1>2. TallyInv /\ [Processes1!Next]_(Processes1!vars) => TallyInv'
  BY <1>1, TallyParent, TallyChild DEF Processes1!Next, Processes1!Children
<1> QED BY TallyInit, <1>2, PTL DEF Processes1!Spec

\* The children that have reported are the first ones, as many as were counted
\* with the one whose signal is on its way.
LEMMA ReportedFirst ==
    ASSUME TallyInv
    PROVE  Processes1!Reported = 1..(count + (IF usr1 THEN 1 ELSE 0))
  BY DEF Processes1!Reported, Processes1!Children, TallyInv, TallyTypes, StageInv, CountInv,
         Silent, Underway, Counted, Heard

\* ForkCount has a copy of the operator of its own.
LEMMA TallyCardinality == \A S : Processes1!Cardinality(S) = Cardinality(S)
  BY DEF Processes1!Cardinality, Cardinality

\* Every child that reports is counted, however many SIGUSR1 there are: no two
\* are ever pending together.
THEOREM SignalsCounted == Processes1!Spec => []NoSignalLost
<1>1. TallyInv => NoSignalLost
  <2> SUFFICES ASSUME TallyInv PROVE NoSignalLost
    OBVIOUS
  <2> DEFINE n == count + (IF usr1 THEN 1 ELSE 0)
  <2>1. n \in Nat
    BY DEF TallyInv, TallyTypes
  <2>2. Processes1!Reported = 1..n
    BY ReportedFirst
  <2>3. Cardinality(1..n) = n
    <3> HIDE DEF n
    <3> QED BY <2>1, FS_Interval
  <2> QED BY <2>2, <2>3, TallyCardinality DEF NoSignalLost, Processes1!NoSignalLost
<1> QED BY TallyInvariant, <1>1, PTL

\* SIGUSR2 finds all children there, with their own handler of it.
THEOREM HandlersSet == Processes1!Spec => []AllReady
<1>1. TallyInv => AllReady
  BY DEF TallyInv, TallyTypes, StageInv, Heard, AllReady, Processes1!AllReady,
         Processes1!Reported, Processes1!Children
<1> QED BY TallyInvariant, <1>1, PTL

-----------------------------------------------------------------------------
(* condition-vars.c: lines are printed once, and whole *)

Printers == {"lower", "upper"}
Threads == {"main", "lower", "upper"}
Places == {"fgets", "lock", "copy", "signal", "unlock", "wait", "relock", "print"}
L == PRINT_LENGTH

\* The types of the variables of ConditionPrinters.
PrintTypes ==
    /\ printPc \in [Threads -> Places]
    /\ printPc["main"] \in {"fgets", "lock", "copy", "signal", "unlock"}
    /\ \A t \in Printers : printPc[t] \in {"wait", "relock", "print", "unlock", "signal"}
    /\ input \in 0..PRINT_LINES
    /\ text \in [1..(L + 1) -> 0..PRINT_LINES] /\ text[L + 1] = 0
    /\ index \in [Threads -> 0..L]
    /\ owner \in Threads \cup {"nobody"} /\ stolen \in BOOLEAN
    /\ waiters \subseteq Printers /\ spurious \subseteq Printers
    /\ page \in [Printers -> Seq(0..PRINT_LINES)]
    /\ printed \in [Printers -> Nat]

\* A printer that has left the wait, and has not ended its line.
Up(t) == IF printPc[t] = "print" \/ (printPc[t] = "relock" /\ t \notin waiters) THEN 1 ELSE 0

\* A signal that is still to be sent for what has been read or printed.
Owed(t) == IF t = "lower" THEN IF printPc["main"] \in {"lock", "copy", "signal"} THEN 1 ELSE 0
                          ELSE IF printPc["lower"] = "signal" THEN 1 ELSE 0

Spurious(t) == IF t \in spurious THEN 1 ELSE 0

\* Each wakeup is due to a signal, and each signal to a line, or it is spurious.
TurnInv ==
    /\ \A t \in waiters : printPc[t] = "relock"
    /\ printed["lower"] + Up("lower") + Owed("lower") <= input + Spurious("lower")
    /\ printed["upper"] + Up("upper") + Owed("upper") <= printed["lower"] + Spurious("upper")

\* As long as no mutex was unlocked for another thread: who copies, prints, or
\* has not unlocked has it,
Inside(t) == printPc[t] \in {"copy", "print", "signal", "unlock"}
MutexInv == \A t \in Threads : Inside(t) => owner = t

\* the text is one line, or while it is copied the beginning of the line read,
Uniform == \E n \in 0..PRINT_LINES : \A k \in 1..L : text[k] = n
TextInv ==
    /\ printPc["main"] # "copy" => Uniform /\ index["main"] = 0
    /\ printPc["main"] = "copy" => \A k \in 1..L : k <= index["main"] => text[k] = input
    /\ printPc["main"] \in {"lock", "copy"} => input > 0

\* and what a printer has printed is the beginning of the text.
PageInv ==
    \A t \in Printers :
      /\ printPc[t] = "print" =>
           Len(page[t]) = index[t] /\ \A k \in 1..index[t] : page[t][k] = text[k] /\ text[k] # 0
      /\ printPc[t] # "print" => index[t] = 0
      /\ printPc[t] \in {"wait", "relock"} => page[t] = <<>>
      /\ printPc[t] \in {"signal", "unlock"} => Printers3!IsLine(page[t])

WholeInv == ~ stolen => MutexInv /\ TextInv /\ PageInv

PrintInv == PrintTypes /\ TurnInv /\ WholeInv

\* At first nothing has been read or printed.
LEMMA PrintInit == Printers3!Init => PrintInv
<1> SUFFICES ASSUME Printers3!Init PROVE PrintInv
  OBVIOUS
<1> USE LabsAssumption DEF Printers3!Init, Printers3!Threads, Printers3!Printers, Printers3!Nobody,
        Printers, Threads, Places, L
<1>1. PrintTypes
  <2>1. <<>> \in Seq(0..PRINT_LINES)
    BY EmptySeq
  <2>2. page \in [Printers -> Seq(0..PRINT_LINES)]
    BY <2>1
  <2>3. /\ printPc \in [Threads -> {"fgets", "wait"}] /\ printPc["main"] = "fgets"
        /\ \A t \in Printers : printPc[t] = "wait"
    OBVIOUS
  <2>4. text \in [1..(L + 1) -> 0..PRINT_LINES] /\ text[L + 1] = 0
    OBVIOUS
  <2>5. stolen \in BOOLEAN
    OBVIOUS
  <2> QED BY <2>2, <2>3, <2>4, <2>5 DEF PrintTypes
<1>2. TurnInv
  BY DEF TurnInv, Up, Owed, Spurious
<1>3. MutexInv /\ TextInv
  BY DEF MutexInv, Inside, TextInv, Uniform
<1>4. PageInv
  BY DEF PageInv
<1> QED BY <1>1, <1>2, <1>3, <1>4 DEF PrintInv, WholeInv

\* What a printer's step may be.
LEMMA PrintCases ==
    ASSUME Printers3!Next
    PROVE  \/ Printers3!Main \/ Printers3!SignalUpper
           \/ \E t \in Printers : \/ Printers3!Wait(t) \/ Printers3!Relock(t) \/ Printers3!ShowChars(t)
                                  \/ Printers3!Newline(t) \/ Printers3!Release(t)
                                  \/ Printers3!SpuriousWakeup(t)
  BY DEF Printers3!Next, Printers3!Printer, Printers3!Printers, Printers

\* Every step of the printers keeps the types.
LEMMA PrintTypesKept == PrintTypes /\ Printers3!Next => PrintTypes'
<1> SUFFICES ASSUME PrintTypes, Printers3!Next PROVE PrintTypes'
  OBVIOUS
<1> USE LabsAssumption DEF PrintTypes, Printers, Threads, Places, L, Printers3!Goto
<1>1. CASE Printers3!Fgets
  BY <1>1, SMTT(30) DEF Printers3!Fgets
<1>2. CASE Printers3!Lock
  BY <1>2 DEF Printers3!Lock, Printers3!Acquire
<1>3. CASE Printers3!Copy
  <2> DEFINE k == index["main"] + 1
             to == IF k > L THEN "signal" ELSE "copy"
  <2>1. k \in 1..(L + 1) /\ to \in {"signal", "copy"}
    BY SMTT(30)
  <2>2. /\ text' = [text EXCEPT ![k] = IF k > L THEN 0 ELSE input]
        /\ printPc' = [printPc EXCEPT !["main"] = to]
        /\ index' = [index EXCEPT !["main"] = k % (L + 1)]
        /\ UNCHANGED <<input, owner, waiters, page, printed, spurious, stolen>>
    BY <1>3 DEF Printers3!Copy
  <2>3. k % (L + 1) \in 0..L
    BY <2>1, SMTT(30)
  <2>4. text' \in [1..(L + 1) -> 0..PRINT_LINES] /\ text'[L + 1] = 0
    BY <2>1, <2>2, SMTT(30)
  <2> HIDE DEF k, to
  <2> QED BY <2>1, <2>2, <2>3, <2>4
<1>4. CASE Printers3!SignalLower
  BY <1>4 DEF Printers3!SignalLower, Printers3!Signal
<1>5. CASE Printers3!Leave
  BY <1>5 DEF Printers3!Leave, Printers3!Unlock, Printers3!Nobody
<1>6. CASE Printers3!SignalUpper
  BY <1>6 DEF Printers3!SignalUpper, Printers3!Signal
<1>7. ASSUME NEW t \in Printers, Printers3!Wait(t) PROVE PrintTypes'
  BY <1>7 DEF Printers3!Wait, Printers3!Unlock, Printers3!Nobody
<1>8. ASSUME NEW t \in Printers, Printers3!SpuriousWakeup(t) PROVE PrintTypes'
  BY <1>8 DEF Printers3!SpuriousWakeup
<1>9. ASSUME NEW t \in Printers, Printers3!Relock(t) PROVE PrintTypes'
  BY <1>9 DEF Printers3!Relock, Printers3!Acquire
<1>10. ASSUME NEW t \in Printers, Printers3!ShowChars(t) PROVE PrintTypes'
  <2>1. index[t] \in 0..L /\ index[t] # L /\ text[index[t] + 1] \in 0..PRINT_LINES
    <3>1. text[index[t] + 1] # 0 /\ index[t] \in 0..L /\ text[L + 1] = 0
      BY <1>10 DEF Printers3!ShowChars, Printers3!AtEnd
    <3>2. index[t] # L
      BY <3>1
    <3>3. index[t] + 1 \in 1..(L + 1) /\ text \in [1..(L + 1) -> 0..PRINT_LINES]
      BY <3>1, SMTT(30)
    <3> QED BY <3>1, <3>2, <3>3
  <2>2. Append(page[t], text[index[t] + 1]) \in Seq(0..PRINT_LINES)
    BY <2>1, SMTT(30)
  <2>3. /\ printPc' = printPc /\ index' = [index EXCEPT ![t] = index[t] + 1]
        /\ page' = [page EXCEPT ![t] = Append(page[t], text[index[t] + 1])]
        /\ UNCHANGED <<text, input, owner, waiters, printed, spurious, stolen>>
    BY <1>10 DEF Printers3!ShowChars
  <2>4. page' \in [Printers -> Seq(0..PRINT_LINES)]
    BY <2>2, <2>3
  <2>5. index' \in [Threads -> 0..L]
    <3>1. index[t] + 1 \in 0..L /\ t \in Threads /\ index \in [Threads -> 0..L]
      BY <2>1, SMTT(30)
    <3> QED BY <2>3, <3>1
  <2> QED BY <2>3, <2>4, <2>5
<1>11. ASSUME NEW t \in Printers, Printers3!Newline(t) PROVE PrintTypes'
  <2> DEFINE to == IF t = "lower" THEN "signal" ELSE "unlock"
  <2>1. to \in {"signal", "unlock"} /\ printPc' = [printPc EXCEPT ![t] = to]
    BY <1>11 DEF Printers3!Newline
  <2>2. /\ printed' = [printed EXCEPT ![t] = printed[t] + 1] /\ index' = [index EXCEPT ![t] = 0]
        /\ UNCHANGED <<text, input, owner, waiters, page, spurious, stolen>>
    BY <1>11 DEF Printers3!Newline
  <2>3. index' \in [Threads -> 0..L]
    BY <2>2
  <2>4. printed' \in [Printers -> Nat]
    BY <2>2
  <2> HIDE DEF to
  <2> QED BY <2>1, <2>2, <2>3, <2>4
<1>12. ASSUME NEW t \in Printers, Printers3!Release(t) PROVE PrintTypes'
  BY <1>12, EmptySeq DEF Printers3!Release, Printers3!Unlock, Printers3!Nobody
<1> QED BY <1>1, <1>2, <1>3, <1>4, <1>5, <1>6, <1>7, <1>8, <1>9, <1>10, <1>11, <1>12, PrintCases
        DEF Printers3!Main

\* The terms of TurnInv are 0 or 1.
LEMMA TurnBits ==
    \A t : Up(t) \in {0, 1} /\ Owed(t) \in {0, 1} /\ Spurious(t) \in {0, 1}
  BY DEF Up, Owed, Spurious

\* After a step too each of them is 0 or 1.
LEMMA TurnBitsPrimed ==
    \A t : Up(t)' \in {0, 1} /\ Owed(t)' \in {0, 1} /\ Spurious(t)' \in {0, 1}
  BY DEF Up, Owed, Spurious

\* Who sleeps in a wait is there.
LEMMA SleepersKept ==
    PrintTypes /\ TurnInv /\ Printers3!Next => \A t \in waiters' : printPc'[t] = "relock"
<1> SUFFICES ASSUME PrintTypes, TurnInv, Printers3!Next, NEW u \in waiters'
             PROVE  printPc'[u] = "relock"
  OBVIOUS
<1>1. printPc \in [Threads -> Places] /\ waiters \subseteq Printers
  BY DEF PrintTypes, Threads
<1>2. u \in waiters => printPc[u] = "relock"
  BY DEF TurnInv
<1> USE DEF Printers3!Goto, Printers, Threads
<1>3. CASE Printers3!Main \/ Printers3!SignalUpper
  BY <1>1, <1>2, <1>3
     DEF Printers3!Main, Printers3!Fgets, Printers3!Lock, Printers3!Copy, Printers3!SignalLower,
         Printers3!Leave, Printers3!SignalUpper, Printers3!Signal
<1>4. ASSUME NEW t \in Printers,
             \/ Printers3!Wait(t) \/ Printers3!SpuriousWakeup(t) \/ Printers3!Relock(t)
             \/ Printers3!ShowChars(t) \/ Printers3!Newline(t) \/ Printers3!Release(t)
      PROVE  printPc'[u] = "relock"
  BY <1>1, <1>2, <1>4
     DEF Printers3!Wait, Printers3!SpuriousWakeup, Printers3!Relock, Printers3!ShowChars,
         Printers3!Newline, Printers3!Release
<1> QED BY <1>3, <1>4, PrintCases

\* Steps of main, and the signal of the lower case printer.
LEMMA TurnSignals ==
    PrintTypes /\ TurnInv /\ (Printers3!Main \/ Printers3!SignalUpper) =>
      /\ printed'["lower"] + Up("lower")' + Owed("lower")' <= input' + Spurious("lower")'
      /\ printed'["upper"] + Up("upper")' + Owed("upper")' <= printed'["lower"] + Spurious("upper")'
<1> DEFINE Goal ==
      /\ printed'["lower"] + Up("lower")' + Owed("lower")' <= input' + Spurious("lower")'
      /\ printed'["upper"] + Up("upper")' + Owed("upper")' <= printed'["lower"] + Spurious("upper")'
<1> SUFFICES ASSUME PrintTypes, TurnInv, Printers3!Main \/ Printers3!SignalUpper
             PROVE  Goal
  OBVIOUS
<1>1. /\ printed["lower"] \in Nat /\ printed["upper"] \in Nat /\ input \in Nat
      /\ printPc \in [Threads -> Places]
  BY LabsAssumption DEF PrintTypes, Printers, Threads
<1>2. /\ printed["lower"] + Up("lower") + Owed("lower") <= input + Spurious("lower")
      /\ printed["upper"] + Up("upper") + Owed("upper") <= printed["lower"] + Spurious("upper")
  BY DEF TurnInv
<1>3. UNCHANGED <<printed, spurious>>
  BY DEF Printers3!Main, Printers3!Fgets, Printers3!Lock, Printers3!Copy, Printers3!SignalLower,
         Printers3!Leave, Printers3!SignalUpper
<1>4. Spurious("lower")' = Spurious("lower") /\ Spurious("upper")' = Spurious("upper")
  BY <1>3 DEF Spurious
<1> USE DEF Printers3!Goto, Threads
<1>5. CASE Printers3!Fgets
  <2>1. /\ input' = input + 1 /\ UNCHANGED waiters
        /\ printPc["main"] = "fgets" /\ printPc' = [printPc EXCEPT !["main"] = "lock"]
    BY <1>5 DEF Printers3!Fgets
  <2>2. /\ Up("lower")' = Up("lower") /\ Up("upper")' = Up("upper")
        /\ Owed("lower") = 0 /\ Owed("upper")' = Owed("upper")
    BY <1>1, <2>1 DEF Up, Owed
  <2> QED BY <1>1, <1>2, <1>3, <1>4, <2>1, <2>2, TurnBits, TurnBitsPrimed
<1>6. CASE Printers3!Lock \/ Printers3!Copy
  <2>1. /\ input' = input /\ UNCHANGED waiters
        /\ printPc["main"] \in {"lock", "copy"}
        /\ \/ printPc' = [printPc EXCEPT !["main"] = "copy"]
           \/ printPc' = [printPc EXCEPT !["main"] = "signal"]
    BY <1>6 DEF Printers3!Lock, Printers3!Copy
  <2>2. /\ Up("lower")' = Up("lower") /\ Up("upper")' = Up("upper")
        /\ Owed("lower")' = Owed("lower") /\ Owed("upper")' = Owed("upper")
    BY <1>1, <2>1 DEF Up, Owed
  <2> QED BY <1>1, <1>2, <1>3, <1>4, <2>1, <2>2, TurnBits, TurnBitsPrimed
<1>7. CASE Printers3!SignalLower
  <2>1. /\ input' = input /\ waiters' = waiters \ {"lower"}
        /\ printPc["main"] = "signal" /\ printPc' = [printPc EXCEPT !["main"] = "unlock"]
    BY <1>7 DEF Printers3!SignalLower, Printers3!Signal
  <2>2. /\ Up("upper")' = Up("upper")
        /\ Owed("lower") = 1 /\ Owed("lower")' = 0 /\ Owed("upper")' = Owed("upper")
    BY <1>1, <2>1 DEF Up, Owed
  <2> QED BY <1>1, <1>2, <1>3, <1>4, <2>1, <2>2, TurnBits, TurnBitsPrimed
<1>8. CASE Printers3!Leave
  <2>1. /\ input' = input /\ UNCHANGED waiters
        /\ printPc["main"] = "unlock" /\ printPc' = [printPc EXCEPT !["main"] = "fgets"]
    BY <1>8 DEF Printers3!Leave
  <2>2. /\ Up("lower")' = Up("lower") /\ Up("upper")' = Up("upper")
        /\ Owed("lower")' = Owed("lower") /\ Owed("upper")' = Owed("upper")
    BY <1>1, <2>1 DEF Up, Owed
  <2> QED BY <1>1, <1>2, <1>3, <1>4, <2>1, <2>2, TurnBits, TurnBitsPrimed
<1>9. CASE Printers3!SignalUpper
  <2>1. /\ input' = input /\ waiters' = waiters \ {"upper"}
        /\ printPc["lower"] = "signal" /\ printPc' = [printPc EXCEPT !["lower"] = "unlock"]
    BY <1>9 DEF Printers3!SignalUpper, Printers3!Signal
  <2>2. /\ Up("lower")' = Up("lower")
        /\ Owed("lower")' = Owed("lower") /\ Owed("upper") = 1 /\ Owed("upper")' = 0
    BY <1>1, <2>1 DEF Up, Owed
  <2> QED BY <1>1, <1>2, <1>3, <1>4, <2>1, <2>2, TurnBits, TurnBitsPrimed
<1> QED BY <1>5, <1>6, <1>7, <1>8, <1>9 DEF Printers3!Main

\* Steps of a printer.
LEMMA TurnPrinter ==
    ASSUME PrintTypes, TurnInv, NEW t \in Printers,
           \/ Printers3!Wait(t) \/ Printers3!Relock(t) \/ Printers3!ShowChars(t)
           \/ Printers3!Newline(t) \/ Printers3!Release(t) \/ Printers3!SpuriousWakeup(t)
    PROVE  /\ printed'["lower"] + Up("lower")' + Owed("lower")' <= input' + Spurious("lower")'
           /\ printed'["upper"] + Up("upper")' + Owed("upper")' <= printed'["lower"] + Spurious("upper")'
<1> DEFINE Goal ==
      /\ printed'["lower"] + Up("lower")' + Owed("lower")' <= input' + Spurious("lower")'
      /\ printed'["upper"] + Up("upper")' + Owed("upper")' <= printed'["lower"] + Spurious("upper")'
<1> SUFFICES Goal
  OBVIOUS
<1>1. /\ printed \in [Printers -> Nat] /\ input \in Nat /\ input' = input
      /\ printPc \in [Threads -> Places] /\ t \in {"lower", "upper"}
      /\ printed["lower"] \in Nat /\ printed["upper"] \in Nat
  BY LabsAssumption
     DEF PrintTypes, Printers, Threads, Printers3!Wait, Printers3!Relock, Printers3!ShowChars,
         Printers3!Newline, Printers3!Release, Printers3!SpuriousWakeup
<1>2. /\ printed["lower"] + Up("lower") + Owed("lower") <= input + Spurious("lower")
      /\ printed["upper"] + Up("upper") + Owed("upper") <= printed["lower"] + Spurious("upper")
      /\ t \in waiters => printPc[t] = "relock"
  BY DEF TurnInv
<1> USE DEF Printers3!Goto, Threads
<1>3. CASE Printers3!Wait(t) \/ Printers3!Relock(t) \/ Printers3!ShowChars(t) \/ Printers3!Release(t)
  <2>1. /\ UNCHANGED <<printed, spurious>>
        /\ \/ waiters' = waiters \cup {t} /\ printPc[t] = "wait"
              /\ printPc' = [printPc EXCEPT ![t] = "relock"]
           \/ waiters' = waiters /\ t \notin waiters /\ printPc[t] = "relock"
              /\ printPc' = [printPc EXCEPT ![t] = "print"]
           \/ waiters' = waiters /\ printPc[t] = "print" /\ printPc' = [printPc EXCEPT ![t] = "print"]
           \/ waiters' = waiters /\ printPc[t] = "unlock" /\ printPc' = [printPc EXCEPT ![t] = "wait"]
    BY <1>3 DEF Printers3!Wait, Printers3!Relock, Printers3!ShowChars, Printers3!Release
  <2>2. /\ Up("lower")' = Up("lower") /\ Up("upper")' = Up("upper")
        /\ Owed("lower")' = Owed("lower") /\ Owed("upper")' = Owed("upper")
    BY <1>1, <2>1 DEF Up, Owed
  <2>3. Spurious("lower")' = Spurious("lower") /\ Spurious("upper")' = Spurious("upper")
    BY <2>1 DEF Spurious
  <2> QED BY <1>1, <1>2, <2>1, <2>2, <2>3, TurnBits, TurnBitsPrimed
<1>4. CASE Printers3!SpuriousWakeup(t)
  <2>1. /\ UNCHANGED <<printed, printPc>> /\ t \in waiters /\ t \notin spurious
        /\ waiters' = waiters \ {t} /\ spurious' = spurious \cup {t}
    BY <1>4 DEF Printers3!SpuriousWakeup
  <2>2. /\ Up(t) = 0 /\ Spurious(t) = 0 /\ Spurious(t)' = 1
        /\ Owed("lower")' = Owed("lower") /\ Owed("upper")' = Owed("upper")
    BY <1>2, <2>1 DEF Up, Owed, Spurious
  <2>3. /\ t = "lower" => Up("upper")' = Up("upper") /\ Spurious("upper")' = Spurious("upper")
        /\ t = "upper" => Up("lower")' = Up("lower") /\ Spurious("lower")' = Spurious("lower")
    BY <2>1 DEF Up, Spurious
  <2>4. CASE t = "lower"
    BY <1>1, <1>2, <2>1, <2>2, <2>3, <2>4, TurnBits, TurnBitsPrimed
  <2>5. CASE t = "upper"
    BY <1>1, <1>2, <2>1, <2>2, <2>3, <2>5, TurnBits, TurnBitsPrimed
  <2> QED BY <1>1, <2>4, <2>5
<1>5. CASE Printers3!Newline(t)
  <2>1. /\ UNCHANGED <<waiters, spurious>> /\ printPc[t] = "print"
        /\ printed' = [printed EXCEPT ![t] = printed[t] + 1]
        /\ t = "lower" => printPc' = [printPc EXCEPT !["lower"] = "signal"]
        /\ t = "upper" => printPc' = [printPc EXCEPT !["upper"] = "unlock"]
    BY <1>5 DEF Printers3!Newline
  <2>2. Spurious("lower")' = Spurious("lower") /\ Spurious("upper")' = Spurious("upper")
    BY <2>1 DEF Spurious
  <2>3. CASE t = "lower"
    <3>1. /\ Up("lower") = 1 /\ Up("lower")' = 0 /\ Up("upper")' = Up("upper")
          /\ Owed("lower")' = Owed("lower") /\ Owed("upper") = 0
      BY <1>1, <2>1, <2>3 DEF Up, Owed
    <3>2. printed'["lower"] = printed["lower"] + 1 /\ printed'["upper"] = printed["upper"]
      BY <1>1, <2>1, <2>3 DEF Printers
    <3> QED BY <1>1, <1>2, <2>2, <3>1, <3>2, TurnBits, TurnBitsPrimed
  <2>4. CASE t = "upper"
    <3>1. /\ Up("upper") = 1 /\ Up("upper")' = 0 /\ Up("lower")' = Up("lower")
          /\ Owed("lower")' = Owed("lower") /\ Owed("upper")' = Owed("upper")
      BY <1>1, <2>1, <2>4 DEF Up, Owed
    <3>2. printed'["upper"] = printed["upper"] + 1 /\ printed'["lower"] = printed["lower"]
      BY <1>1, <2>1, <2>4 DEF Printers
    <3> QED BY <1>1, <1>2, <2>2, <3>1, <3>2, TurnBits, TurnBitsPrimed
  <2> QED BY <1>1, <2>3, <2>4
<1> QED BY <1>3, <1>4, <1>5

\* Every step keeps the turns in order.
LEMMA TurnKept == PrintTypes /\ TurnInv /\ Printers3!Next => TurnInv'
<1> SUFFICES ASSUME PrintTypes, TurnInv, Printers3!Next PROVE TurnInv'
  OBVIOUS
<1>1. /\ printed'["lower"] + Up("lower")' + Owed("lower")' <= input' + Spurious("lower")'
      /\ printed'["upper"] + Up("upper")' + Owed("upper")' <= printed'["lower"] + Spurious("upper")'
  BY TurnSignals, TurnPrinter, PrintCases
<1> QED BY <1>1, SleepersKept DEF TurnInv

\* Who is where, before and after a step, and the mutex.
LEMMA MutexKept ==
    PrintTypes /\ WholeInv /\ Printers3!Next /\ ~ stolen' => ~ stolen /\ MutexInv'
<1> SUFFICES ASSUME PrintTypes, WholeInv, Printers3!Next, ~ stolen' PROVE ~ stolen /\ MutexInv'
  OBVIOUS
<1>1. ~ stolen
  BY PrintCases
     DEF Printers3!Main, Printers3!Fgets, Printers3!Lock, Printers3!Copy, Printers3!SignalLower,
         Printers3!Leave, Printers3!SignalUpper, Printers3!Wait, Printers3!Relock,
         Printers3!ShowChars, Printers3!Newline, Printers3!Release, Printers3!SpuriousWakeup,
         Printers3!Unlock
<1>2. printPc \in [Threads -> Places] /\ \A u \in Threads : Inside(u) => owner = u
  BY <1>1 DEF PrintTypes, WholeInv, MutexInv
<1> USE DEF Printers3!Goto, Printers, Threads
<1>3. CASE Printers3!Lock \/ \E t \in Printers : Printers3!Relock(t)
  <2>1. PICK t \in Threads, to \in {"copy", "print"} :
           owner = "nobody" /\ owner' = t /\ printPc' = [printPc EXCEPT ![t] = to]
    BY <1>3 DEF Printers3!Lock, Printers3!Relock, Printers3!Acquire, Printers3!Nobody
  <2> QED BY <1>1, <1>2, <2>1 DEF MutexInv, Inside
<1>4. CASE Printers3!Leave \/ \E t \in Printers : Printers3!Wait(t) \/ Printers3!Release(t)
  <2>1. PICK t \in Threads, to \in {"fgets", "relock", "wait"} :
           /\ printPc' = [printPc EXCEPT ![t] = to] /\ Printers3!Unlock(t)
    BY <1>4 DEF Printers3!Leave, Printers3!Wait, Printers3!Release
  <2>2. owner \in {t, "nobody"}
    BY <2>1 DEF Printers3!Unlock, Printers3!Nobody
  <2> QED BY <1>1, <1>2, <2>1, <2>2 DEF MutexInv, Inside
<1>5. CASE \/ Printers3!Fgets \/ Printers3!Copy \/ Printers3!SignalLower \/ Printers3!SignalUpper
           \/ \E t \in Printers : \/ Printers3!ShowChars(t) \/ Printers3!Newline(t)
                                  \/ Printers3!SpuriousWakeup(t)
  <2>1. owner' = owner
    BY <1>5 DEF Printers3!Fgets, Printers3!Copy, Printers3!SignalLower, Printers3!SignalUpper,
            Printers3!ShowChars, Printers3!Newline, Printers3!SpuriousWakeup
  <2>2. \/ printPc' = printPc
        \/ \E t \in Threads, to \in Places :
             printPc' = [printPc EXCEPT ![t] = to] /\ (Inside(t) \/ to = "lock")
    BY <1>5 DEF Printers3!Fgets, Printers3!Copy, Printers3!SignalLower, Printers3!SignalUpper,
            Printers3!ShowChars, Printers3!Newline, Printers3!SpuriousWakeup, Inside, Places
  <2> QED BY <1>1, <1>2, <2>1, <2>2 DEF MutexInv, Inside
<1> QED BY <1>1, <1>3, <1>4, <1>5, PrintCases DEF Printers3!Main

\* The index of a loop that has not come round.
LEMMA SmallMod ==
    ASSUME NEW a \in Nat, NEW b \in Nat, a < b
    PROVE  a % b = a
  OBVIOUS

\* Every step keeps the lines whole.
LEMMA TextKept ==
    PrintTypes /\ MutexInv /\ TextInv /\ Printers3!Next => TextInv'
<1> SUFFICES ASSUME PrintTypes, MutexInv, TextInv, Printers3!Next PROVE TextInv'
  OBVIOUS
<1>1. /\ printPc \in [Threads -> Places] /\ index \in [Threads -> 0..L] /\ L \in Nat \ {0}
      /\ text \in [1..(L + 1) -> 0..PRINT_LINES] /\ input \in 0..PRINT_LINES
  BY LabsAssumption DEF PrintTypes, L
<1> USE DEF Printers3!Goto, Threads
<1>2. CASE Printers3!Fgets
  BY <1>1, <1>2 DEF Printers3!Fgets, TextInv, Uniform
<1>3. CASE Printers3!Lock
  BY <1>1, <1>3 DEF Printers3!Lock, TextInv
<1>4. CASE Printers3!Copy
  <2> DEFINE k == index["main"] + 1
  <2>1. /\ printPc["main"] = "copy" /\ k \in 1..(L + 1) /\ input > 0
        /\ \A m \in 1..L : m < k => text[m] = input
    BY <1>1, <1>4 DEF Printers3!Copy, TextInv
  <2>2. /\ text' = [text EXCEPT ![k] = IF k > L THEN 0 ELSE input] /\ input' = input
        /\ printPc' = [printPc EXCEPT !["main"] = IF k > L THEN "signal" ELSE "copy"]
        /\ index' = [index EXCEPT !["main"] = k % (L + 1)]
    BY <1>4 DEF Printers3!Copy, L
  <2> HIDE DEF k
  <2>3. CASE k > L
    <3>1. k = L + 1 /\ k % (L + 1) = 0
      BY <1>1, <2>1, <2>3
    <3>2. printPc'["main"] = "signal" /\ index'["main"] = 0
      BY <1>1, <2>2, <2>3, <3>1
    <3>3. \A m \in 1..L : text'[m] = input
      BY <1>1, <2>1, <2>2, <3>1
    <3> QED BY <1>1, <3>2, <3>3 DEF TextInv, Uniform
  <2>4. CASE k <= L
    <3>1. k % (L + 1) = k
      <4>1. k \in Nat /\ L + 1 \in Nat /\ k < L + 1
        BY <1>1, <2>1, <2>4
      <4> QED BY <4>1, SmallMod
    <3>2. printPc'["main"] = "copy" /\ index'["main"] = k
      BY <1>1, <2>1, <2>2, <2>4, <3>1
    <3>3. \A m \in 1..L : m <= k => text'[m] = input
      BY <1>1, <2>1, <2>2, <2>4
    <3> QED BY <2>1, <2>2, <3>2, <3>3 DEF TextInv
  <2> QED BY <1>1, <2>1, <2>3, <2>4
<1>5. CASE Printers3!SignalLower \/ Printers3!Leave
  BY <1>1, <1>5 DEF Printers3!SignalLower, Printers3!Leave, TextInv, Uniform
<1>6. CASE Printers3!SignalUpper \/ \E t \in Printers : \/ Printers3!Wait(t) \/ Printers3!Relock(t)
                 \/ Printers3!ShowChars(t) \/ Printers3!Newline(t) \/ Printers3!Release(t)
                 \/ Printers3!SpuriousWakeup(t)
  <2>1. UNCHANGED <<text, input>>
    BY <1>6 DEF Printers3!SignalUpper, Printers3!Wait, Printers3!Relock, Printers3!ShowChars,
       Printers3!Newline, Printers3!Release, Printers3!SpuriousWakeup
  <2>2. printPc'["main"] = printPc["main"] /\ index'["main"] = index["main"]
    BY <1>1, <1>6 DEF Printers3!SignalUpper, Printers3!Wait, Printers3!Relock, Printers3!ShowChars,
       Printers3!Newline, Printers3!Release, Printers3!SpuriousWakeup, Printers
  <2> QED BY <2>1, <2>2 DEF TextInv, Uniform
<1> QED BY <1>2, <1>3, <1>4, <1>5, <1>6, PrintCases DEF Printers3!Main

\* What is printed up to the end of a uniform text is a line, or nothing.
LEMMA EndsWhole ==
    ASSUME NEW p \in Seq(0..PRINT_LINES), NEW m \in 0..L, Uniform,
           PrintTypes, Len(p) = m, \A k \in 1..m : p[k] = text[k] /\ text[k] # 0, text[m + 1] = 0
    PROVE  Printers3!IsLine(p)
<1>1. PICK n \in 0..PRINT_LINES : \A k \in 1..L : text[k] = n
  BY DEF Uniform
<1>2. L \in Nat \ {0}
  BY LabsAssumption DEF L
<1>3. CASE m = 0
  <2>1. p = <<>>
    BY <1>3, EmptySeq
  <2> QED BY <2>1 DEF Printers3!IsLine
<1>4. CASE m > 0
  <2>1. n # 0
    BY <1>1, <1>2, <1>4
  <2>2. m = L
    BY <1>1, <1>2, <2>1
  <2>3. p = [k \in 1..L |-> n]
    <3>1. p \in [1..L -> 0..PRINT_LINES]
      BY <2>2, LenProperties
    <3> QED BY <1>1, <2>2, <3>1
  <2>4. n \in 1..PRINT_LINES
    BY <2>1, LabsAssumption
  <2> QED BY <2>3, <2>4 DEF Printers3!IsLine, L
<1> QED BY <1>2, <1>3, <1>4

\* Every step keeps what a printer has printed the beginning of the text.
LEMMA PageKept ==
    PrintTypes /\ MutexInv /\ TextInv /\ PageInv /\ Printers3!Next => PageInv'
<1> SUFFICES ASSUME PrintTypes, MutexInv, TextInv, PageInv, Printers3!Next, NEW u \in Printers
             PROVE  /\ printPc'[u] = "print" =>
                         /\ Len(page'[u]) = index'[u]
                         /\ \A k \in 1..index'[u] : page'[u][k] = text'[k] /\ text'[k] # 0
                    /\ printPc'[u] # "print" => index'[u] = 0
                    /\ printPc'[u] \in {"wait", "relock"} => page'[u] = <<>>
                    /\ printPc'[u] \in {"signal", "unlock"} => Printers3!IsLine(page'[u])
  BY DEF PageInv, Printers3!IsLine
<1>1. /\ printPc \in [Threads -> Places] /\ index \in [Threads -> 0..L] /\ L \in Nat \ {0}
      /\ text \in [1..(L + 1) -> 0..PRINT_LINES] /\ page \in [Printers -> Seq(0..PRINT_LINES)]
      /\ u \in Threads /\ u # "main" /\ index[u] \in 0..L
  BY LabsAssumption DEF PrintTypes, L, Printers, Threads
<1>2. /\ printPc[u] = "print" => /\ Len(page[u]) = index[u]
                                 /\ \A k \in 1..index[u] : page[u][k] = text[k] /\ text[k] # 0
      /\ printPc[u] # "print" => index[u] = 0
      /\ printPc[u] \in {"wait", "relock"} => page[u] = <<>>
      /\ printPc[u] \in {"signal", "unlock"} => Printers3!IsLine(page[u])
  BY DEF PageInv
<1>3. printPc[u] = "print" => printPc["main"] # "copy" /\ Uniform
  BY <1>1 DEF MutexInv, Inside, TextInv, Threads
<1>4. CASE /\ printPc'[u] = printPc[u] /\ page'[u] = page[u] /\ index'[u] = index[u]
           /\ text' = text \/ printPc[u] # "print"
  BY <1>2, <1>4
<1> USE DEF Printers3!Goto, Printers, Threads
<1>5. CASE Printers3!Copy
  BY <1>1, <1>3, <1>4, <1>5 DEF Printers3!Copy
<1>6. CASE Printers3!Fgets \/ Printers3!Lock \/ Printers3!SignalLower \/ Printers3!Leave
  BY <1>1, <1>4, <1>6 DEF Printers3!Fgets, Printers3!Lock, Printers3!SignalLower, Printers3!Leave
<1>7. CASE Printers3!SignalUpper
  <2>1. /\ UNCHANGED <<page, index, text>> /\ printPc["lower"] = "signal"
        /\ printPc' = [printPc EXCEPT !["lower"] = "unlock"]
    BY <1>7 DEF Printers3!SignalUpper
  <2> QED BY <1>1, <1>2, <2>1
<1>8. ASSUME NEW t \in Printers, t # u,
             \/ Printers3!Wait(t) \/ Printers3!Relock(t) \/ Printers3!ShowChars(t)
             \/ Printers3!Newline(t) \/ Printers3!Release(t)
      PROVE  printPc'[u] = printPc[u] /\ page'[u] = page[u] /\ index'[u] = index[u] /\ text' = text
  BY <1>1, <1>8 DEF Printers3!Wait, Printers3!Relock, Printers3!ShowChars,
       Printers3!Newline, Printers3!Release
<1>9. ASSUME NEW t \in Printers, Printers3!SpuriousWakeup(t)
      PROVE  printPc'[u] = printPc[u] /\ page'[u] = page[u] /\ index'[u] = index[u] /\ text' = text
  BY <1>9 DEF Printers3!SpuriousWakeup
<1>10. CASE Printers3!Wait(u)
  <2>1. printPc[u] = "wait" /\ printPc'[u] = "relock" /\ UNCHANGED <<page, index, text>>
    BY <1>1, <1>10 DEF Printers3!Wait
  <2> QED BY <1>2, <2>1
<1>11. CASE Printers3!Relock(u)
  <2>1. printPc[u] = "relock" /\ printPc'[u] = "print" /\ UNCHANGED <<page, index, text>>
    BY <1>1, <1>11 DEF Printers3!Relock
  <2>2. index'[u] = 0 /\ page'[u] = <<>> /\ Len(<<>>) = 0
    BY <1>2, <2>1
  <2> QED BY <2>1, <2>2
<1>12. CASE Printers3!ShowChars(u)
  <2>1. /\ printPc[u] = "print" /\ printPc'[u] = "print" /\ text' = text
        /\ text[index[u] + 1] # 0
        /\ page'[u] = Append(page[u], text[index[u] + 1]) /\ index'[u] = index[u] + 1
    BY <1>1, <1>12 DEF Printers3!ShowChars, Printers3!AtEnd
  <2>2. page[u] \in Seq(0..PRINT_LINES) /\ Len(page[u]) = index[u] /\ index[u] \in Nat
    BY <1>1, <1>2, <2>1, SMTT(30)
  <2>3. /\ Len(page'[u]) = index[u] + 1
        /\ \A k \in 1..index[u] : page'[u][k] = page[u][k]
        /\ page'[u][index[u] + 1] = text[index[u] + 1]
    BY <2>1, <2>2
  <2> QED BY <1>2, <2>1, <2>2, <2>3
<1>13. CASE Printers3!Newline(u)
  <2>1. /\ printPc[u] = "print" /\ printPc'[u] \in {"signal", "unlock"} /\ text[index[u] + 1] = 0
        /\ index'[u] = 0 /\ page' = page
    BY <1>1, <1>13 DEF Printers3!Newline, Printers3!AtEnd
  <2>2. Printers3!IsLine(page[u])
    BY <1>1, <1>2, <1>3, <2>1, EndsWhole
  <2> QED BY <2>1, <2>2
<1>14. CASE Printers3!Release(u)
  <2>1. printPc[u] = "unlock" /\ printPc'[u] = "wait" /\ page'[u] = <<>> /\ index' = index
    BY <1>1, <1>14 DEF Printers3!Release
  <2> QED BY <1>2, <2>1
<1> QED BY <1>4, <1>5, <1>6, <1>7, <1>8, <1>9, <1>10, <1>11, <1>12, <1>13, <1>14, PrintCases
        DEF Printers3!Main

\* PrintInv is an invariant of the printers.
LEMMA PrintInvariant == Printers3!Spec => []PrintInv
<1>1. PrintInv /\ UNCHANGED Printers3!vars => PrintInv'
  BY DEF Printers3!vars, PrintInv, PrintTypes, TurnInv, Up, Owed, Spurious, WholeInv, MutexInv, Inside,
         TextInv, Uniform, PageInv, Printers3!IsLine
<1>2. PrintInv /\ Printers3!Next => PrintInv'
  BY PrintTypesKept, TurnKept, MutexKept, TextKept, PageKept DEF PrintInv, WholeInv
<1>3. PrintInv /\ [Printers3!Next]_(Printers3!vars) => PrintInv'
  BY <1>1, <1>2
<1> QED BY PrintInit, <1>3, PTL DEF Printers3!Spec

\* The mutex that a wait unlocks for another thread is the only way to a line
\* that is printed in part: as long as that has not happened, each is whole.
THEOREM LinesWhole == Printers3!Spec => []WholeLines
<1>1. PrintInv => WholeLines
  BY DEF PrintInv, WholeInv, PageInv, WholeLines, Printers3!WholeLines, Printers3!Printers, Printers,
         Printers3!Ended
<1> QED BY PrintInvariant, <1>1, PTL

\* No line is printed twice but for a spurious wakeup, whoever unlocks whose
\* mutex.
THEOREM PrintedOnce == Printers3!Spec => []NeverTwice
<1>1. PrintInv => NeverTwice
  <2> SUFFICES ASSUME PrintInv PROVE NeverTwice
    OBVIOUS
  <2>1. /\ Printers3!Extra("lower") = Spurious("lower") /\ Printers3!Extra("upper") = Spurious("upper")
    BY DEF Printers3!Extra, Spurious
  <2>2. /\ printed["lower"] \in Nat /\ printed["upper"] \in Nat /\ input \in Nat
    BY LabsAssumption DEF PrintInv, PrintTypes, Printers
  <2>3. /\ printed["lower"] + Up("lower") + Owed("lower") <= input + Spurious("lower")
        /\ printed["upper"] + Up("upper") + Owed("upper") <= printed["lower"] + Spurious("upper")
    BY DEF PrintInv, TurnInv
  <2> QED BY <2>1, <2>2, <2>3, TurnBits DEF NeverTwice, Printers3!NeverTwice
<1> QED BY PrintInvariant, <1>1, PTL
=============================================================================
