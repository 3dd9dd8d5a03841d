------------------------- MODULE WeightedSemaphore --------------------------
(***************************************************************************)
(* golang.org/x/sync/semaphore.Weighted as resource_pool.go uses it: every *)
(* Acquire takes one permit.  A semaphore is the set of those who hold a   *)
(* permit and the queue of those who wait for one.  A waiter that has been *)
(* given a permit is in held at once, and finds out when it wakes.         *)
(***************************************************************************)
EXTENDS Integers, Sequences, FiniteSets

CONSTANT Permits    \* size of the semaphore

ASSUME PermitsAssumption == Permits \in Nat \ {0}

Unused == [held |-> {}, waiters |-> <<>>]

\* Acquire returns at once only if nobody is waiting.
Admits(s) == Cardinality(s.held) < Permits /\ s.waiters = <<>>

Admit(s, p) == [held |-> s.held \cup {p}, waiters |-> s.waiters]

Wait(s, p) == [held |-> s.held, waiters |-> Append(s.waiters, p)]

\* Mutant: the permit given back is not passed on.
BugGive(s, p) == [held |-> s.held \ {p}, waiters |-> s.waiters]

\* A permit given back goes to the first waiter.
Give(s, p) ==
    IF s.waiters = <<>>
    THEN [held |-> s.held \ {p}, waiters |-> <<>>]
    ELSE [held |-> (s.held \ {p}) \cup {Head(s.waiters)}, waiters |-> Tail(s.waiters)]

\* Taken out of the list where it stands.
Without(w, i) == SubSeq(w, 1, i - 1) \o SubSeq(w, i + 1, Len(w))

Leave(s, p) ==
    [held |-> s.held,
     waiters |-> Without(s.waiters, CHOOSE i \in DOMAIN s.waiters : s.waiters[i] = p)]

\* Mutant: a waiter that gives up keeps the permit it was given meanwhile.
BugGiveUp(s, p) == IF p \in s.held THEN s ELSE Leave(s, p)

\* A waiter whose context is done leaves the queue or, when a permit has come in
\* the meantime, puts it back.
GiveUp(s, p) == IF p \in s.held THEN Give(s, p) ELSE Leave(s, p)

\* Nobody waits while a permit is free.
WorkConserving(s) == s.waiters # <<>> => Cardinality(s.held) = Permits
=============================================================================
