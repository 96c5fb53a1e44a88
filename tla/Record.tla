------------------------------- MODULE Record -------------------------------
(* How the record of one machine is read (packages/db/src/read-events.ts). *)
(* An event is visible once its transaction commits; it is replayed by     *)
(* occurred_at, which is when its transaction began.                       *)
EXTENDS Integers, FiniteSets, SequencesExt

\* order by occurred_at, id: an id is made when the event is inserted.
ReadBefore(events, i) ==
    {j \in DOMAIN events : events[j].at < events[i].at \/ (events[j].at = events[i].at /\ j < i)}

\* The event with so many before it is read in that place.
ReadEvents(events) ==
    LET order(n) == CHOOSE i \in DOMAIN events : Cardinality(ReadBefore(events, i)) = n - 1 IN
    [n \in DOMAIN events |-> events[order(n)]]
=============================================================================
