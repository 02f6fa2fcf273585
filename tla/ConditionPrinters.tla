------------------------- MODULE ConditionPrinters -------------------------
(***************************************************************************)
(* src/lab3/condition-vars.c: main copies each line it reads into text     *)
(* under only_lock and signals wake_lower; the lower case printer prints   *)
(* from text and signals wake_upper; the upper case printer prints.  The   *)
(* printers call pthread_cond_wait without holding only_lock, and the wait *)
(* unlocks it all the same, for whoever has it.  text is a sequence of     *)
(* characters, copied and read one at a time; what the properties need of  *)
(* a character is the line it belongs to, and 0 is what ends a string.     *)
(* The input stays open: main waits in fgets after the last line (it does  *)
(* not test what fgets returns, line 97).                                  *)
(***************************************************************************)
EXTENDS Integers, Sequences

CONSTANTS
    LINES,      \* the number of lines on standard input
    LENGTH      \* their length, at least 1

Printers == {"lower", "upper"}
Threads == {"main"} \cup Printers
Nobody == "nobody"

VARIABLES
    pc,         \* where each thread is
    text,
    input,      \* the line main has read
    index,      \* how far main has copied, and each printer has read
    owner,      \* who has only_lock
    waiters,    \* the printers asleep in pthread_cond_wait
    page,       \* what each printer prints while it has the mutex
    printed,    \* the number of lines each printer has ended
    spurious,   \* the printers that have woken up once without a signal
    stolen      \* whether a thread has unlocked only_lock for another

vars == <<pc, text, input, index, owner, waiters, page, printed, spurious, stolen>>

Init ==
    /\ pc = [t \in Threads |-> IF t = "main" THEN "fgets" ELSE "wait"]
    /\ text = [k \in 1..(LENGTH + 1) |-> 0]
    /\ input = 0
    /\ index = [t \in Threads |-> 0]
    /\ owner = Nobody
    /\ waiters = {}
    /\ page = [t \in Printers |-> <<>>]
    /\ printed = [t \in Printers |-> 0]
    /\ spurious = {}
    /\ stolen = FALSE

Goto(t, from, to) == pc[t] = from /\ pc' = [pc EXCEPT ![t] = to]

\* Mutant of Acquire: the lock does not wait for the mutex.
Barge(t) == owner' = t

Acquire(t) == owner = Nobody /\ owner' = t

\* The mutex is not of a checking type: whoever unlocks it, it is free.
Unlock(t) ==
    /\ owner' = Nobody
    /\ stolen' = (stolen \/ owner \notin {t, Nobody})

\* Mutant of Signal: both printers wake up.
Broadcast(t) == waiters' = {}

\* A signal that nobody waits for is lost.
Signal(t) == waiters' = waiters \ {t}

-----------------------------------------------------------------------------

Fgets ==
    /\ input < LINES
    /\ input' = input + 1
    /\ Goto("main", "fgets", "lock")
    /\ UNCHANGED <<text, index, owner, waiters, page, printed, spurious, stolen>>

Lock ==
    /\ Goto("main", "lock", "copy")
    /\ Acquire("main")
    /\ UNCHANGED <<text, input, index, waiters, page, printed, spurious, stolen>>

Copy ==
    LET k == index["main"] + 1 IN
    /\ Goto("main", "copy", IF k > LENGTH THEN "signal" ELSE "copy")
    /\ text' = [text EXCEPT ![k] = IF k > LENGTH THEN 0 ELSE input]
    /\ index' = [index EXCEPT !["main"] = k % (LENGTH + 1)]
    /\ UNCHANGED <<input, owner, waiters, page, printed, spurious, stolen>>

SignalLower ==
    /\ Goto("main", "signal", "unlock")
    /\ Signal("lower")
    /\ UNCHANGED <<text, input, index, owner, page, printed, spurious, stolen>>

\* Mutant of Leave: main does not unlock.
KeepMutex ==
    /\ Goto("main", "unlock", "fgets")
    /\ UNCHANGED <<text, input, index, owner, waiters, page, printed, spurious, stolen>>

Leave ==
    /\ Goto("main", "unlock", "fgets")
    /\ Unlock("main")
    /\ UNCHANGED <<text, input, index, waiters, page, printed, spurious>>

Main == Fgets \/ Lock \/ Copy \/ SignalLower \/ Leave

-----------------------------------------------------------------------------

\* pthread_cond_wait: the caller joins the waiters and unlocks the mutex.
Wait(t) ==
    /\ Goto(t, "wait", "relock")
    /\ waiters' = waiters \cup {t}
    /\ Unlock(t)
    /\ UNCHANGED <<text, input, index, page, printed, spurious>>

SpuriousWakeup(t) ==
    /\ t \in waiters \ spurious
    /\ waiters' = waiters \ {t} /\ spurious' = spurious \cup {t}
    /\ UNCHANGED <<pc, text, input, index, owner, page, printed, stolen>>

\* The wait of a printer that was woken returns with the mutex.
Relock(t) ==
    /\ t \notin waiters
    /\ Goto(t, "relock", "print")
    /\ Acquire(t)
    /\ UNCHANGED <<text, input, index, waiters, page, printed, spurious, stolen>>

AtEnd(t) == text[index[t] + 1] = 0

ShowChars(t) ==
    /\ ~ AtEnd(t) /\ Goto(t, "print", "print")
    /\ page' = [page EXCEPT ![t] = Append(@, text[index[t] + 1])]
    /\ index' = [index EXCEPT ![t] = @ + 1]
    /\ UNCHANGED <<text, input, owner, waiters, printed, spurious, stolen>>

Newline(t) ==
    /\ AtEnd(t) /\ Goto(t, "print", IF t = "lower" THEN "signal" ELSE "unlock")
    /\ printed' = [printed EXCEPT ![t] = @ + 1]
    /\ index' = [index EXCEPT ![t] = 0]
    /\ UNCHANGED <<text, input, owner, waiters, page, spurious, stolen>>

SignalUpper ==
    /\ Goto("lower", "signal", "unlock")
    /\ Signal("upper")
    /\ UNCHANGED <<text, input, index, owner, page, printed, spurious, stolen>>

Release(t) ==
    /\ Goto(t, "unlock", "wait")
    /\ Unlock(t)
    /\ page' = [page EXCEPT ![t] = <<>>]
    /\ UNCHANGED <<text, input, index, waiters, printed, spurious>>

Printer(t) == Wait(t) \/ Relock(t) \/ ShowChars(t) \/ Newline(t) \/ Release(t)

Next ==
    \/ Main \/ SignalUpper
    \/ \E t \in Printers : Printer(t) \/ SpuriousWakeup(t)

Spec == Init /\ [][Next]_vars

-----------------------------------------------------------------------------

Ended(t) == pc[t] \in {"signal", "unlock"}
IsLine(p) == p = <<>> \/ \E n \in 1..LINES : p = [k \in 1..LENGTH |-> n]

\* What is printed is a line that was read, never the beginning of one and the
\* end of another, as long as no thread has unlocked only_lock for another.
\* The waits at lines 44 and 66 are what makes that happen.
WholeLines == ~ stolen => \A t \in Printers : Ended(t) => IsLine(page[t])

Extra(t) == IF t \in spurious THEN 1 ELSE 0

\* Nothing is printed twice, whoever unlocks whose mutex: the lower case
\* printer prints at most once for each line that main has read, the upper case
\* printer at most once for each time the lower case printer did, and once
\* more only after a spurious wakeup.
NeverTwice ==
    /\ printed["lower"] <= input + Extra("lower")
    /\ printed["upper"] <= printed["lower"] + Extra("upper")

\* A printer that is woken prints, and what the lower case printer prints is
\* not older than the line it was woken for: a later line may replace it in
\* text, but a line that was signalled to a waiting printer is not just lost.
Woken(t) == pc[t] = "relock" /\ t \notin waiters
NotOlder(p, n) == Len(p) = LENGTH /\ p[LENGTH] >= n

WokenPrints ==
    /\ \A n \in 1..LINES :
           Woken("lower") /\ text[LENGTH] >= n ~> Ended("lower") /\ NotOlder(page["lower"], n)
    /\ Woken("upper") ~> Ended("upper")
=============================================================================
