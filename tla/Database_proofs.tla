--------------------------- MODULE Database_proofs ---------------------------
(***************************************************************************)
(* Proofs about the tables of MCDatabase: the budget in the record         *)
(* (Ledger), what a machine is doing (Lifecycle) and the owners' sign-ins  *)
(* (SignIn); Leases has its own.  For any numbers of writers, trades,      *)
(* owners, wallets and requests, any amounts and any times.                *)
(*                                                                         *)
(* The record is written in one order and read in another, so the budget's *)
(* proof is about sequences: how a record is read, what one event more     *)
(* changes of that, and which events may change places without changing    *)
(* what comes out.                                                         *)
(***************************************************************************)
EXTENDS MCDatabase, Folding_proofs, SequenceTheorems

-----------------------------------------------------------------------------
\* One event more of a prefix.
LEMMA PrefixGrows ==
    ASSUME NEW Events, NEW events \in Seq(Events), NEW k \in 1 .. Len(events)
    PROVE  /\ SubSeq(events, 1, k - 1) \in Seq(Events) /\ events[k] \in Events
           /\ SubSeq(events, 1, k) = Append(SubSeq(events, 1, k - 1), events[k])
           /\ SubSeq(events, 1, 0) = <<>> /\ SubSeq(events, 1, Len(events)) = events
  OBVIOUS

-----------------------------------------------------------------------------
(* How a record is read: each event once, by the moment its transaction    *)
(* began, and as it was written where those agree.                         *)

Stamped(Events) == \A e \in Events : e.at \in Int

Comes(events, j, i) == events[j].at < events[i].at \/ (events[j].at = events[i].at /\ j < i)

IsOrder(order, events) ==
    LET n == Len(events) IN
    /\ order \in [1 .. n -> 1 .. n] /\ ReadEvents(events) = [k \in 1 .. n |-> events[order[k]]]
    /\ \A i \in 1 .. n : \E k \in 1 .. n : order[k] = i
    /\ \A k, l \in 1 .. n : k < l => Comes(events, order[k], order[l])
    /\ \A i, k \in 1 .. n : Cardinality(ReadBefore(events, i)) = k - 1 <=> order[k] = i

LEMMA Lengths ==
    ASSUME NEW Events, NEW events \in Seq(Events)
    PROVE  /\ DOMAIN events = 1 .. Len(events) /\ Len(events) \in Nat
           /\ IsFiniteSet(1 .. Len(events)) /\ Cardinality(1 .. Len(events)) = Len(events)
  <1>1. DOMAIN events = 1 .. Len(events) /\ Len(events) \in Nat
    OBVIOUS
  <1>2. QED
    BY <1>1, FS_Interval

LEMMA WhatComesBefore ==
    ASSUME NEW Events, Stamped(Events), NEW events \in Seq(Events)
    PROVE  LET n == Len(events)
               place(i) == Cardinality(ReadBefore(events, i)) IN
           /\ \A i \in 1 .. n : place(i) \in 0 .. n - 1
           /\ \A i, j \in 1 .. n : (Comes(events, j, i) => place(j) < place(i))
                                   /\ (i # j => Comes(events, i, j) \/ Comes(events, j, i))
  <1> DEFINE n == Len(events)
             place(i) == Cardinality(ReadBefore(events, i))
  <1>1. /\ n \in Nat /\ DOMAIN events = 1 .. n /\ IsFiniteSet(1 .. n) /\ Cardinality(1 .. n) = n
        /\ \A i \in 1 .. n : events[i] \in Events /\ events[i].at \in Int
    BY Lengths DEF Stamped
  <1>2. \A i \in 1 .. n : ReadBefore(events, i) = {j \in 1 .. n : Comes(events, j, i)}
    BY <1>1 DEF ReadBefore, Comes
  <1> HIDE DEF n
  <1>3. \A i \in 1 .. n : ~Comes(events, i, i)
    BY <1>1 DEF Comes
  <1>4. \A i, j, k \in 1 .. n : Comes(events, k, j) /\ Comes(events, j, i) => Comes(events, k, i)
    BY <1>1 DEF Comes
  <1>5. ASSUME NEW i \in 1 .. n
        PROVE  IsFiniteSet(ReadBefore(events, i)) /\ place(i) \in Nat /\ place(i) \in 0 .. n - 1
    <2>1. ReadBefore(events, i) \in SUBSET ((1 .. n) \ {i})
      BY <1>2, <1>3
    <2>2. IsFiniteSet((1 .. n) \ {i}) /\ Cardinality((1 .. n) \ {i}) = n - 1
      BY <1>1, FS_RemoveElement
    <2>3. IsFiniteSet(ReadBefore(events, i)) /\ place(i) <= n - 1
      BY <2>1, <2>2, FS_Subset
    <2>4. place(i) \in Nat
      BY <2>3, FS_CardinalityType
    <2>5. QED
      BY <1>1, <2>3, <2>4
  <1>6. ASSUME NEW i \in 1 .. n, NEW j \in 1 .. n, Comes(events, j, i) PROVE place(j) < place(i)
    <2>1. ReadBefore(events, j) \cup {j} \in SUBSET ReadBefore(events, i) /\ j \notin ReadBefore(events, j)
      BY <1>2, <1>3, <1>4, <1>6
    <2>2. Cardinality(ReadBefore(events, j) \cup {j}) = place(j) + 1
      BY <1>5, <2>1, FS_AddElement
    <2>3. Cardinality(ReadBefore(events, j) \cup {j}) <= place(i)
      BY <1>5, <2>1, FS_Subset
    <2>4. place(i) \in Nat /\ place(j) \in Nat
      BY <1>5
    <2> HIDE DEF place
    <2>5. QED
      BY <2>2, <2>3, <2>4
  <1>7. \A i, j \in 1 .. n : i # j => Comes(events, i, j) \/ Comes(events, j, i)
    BY <1>1 DEF Comes
  <1>8. QED
    BY <1>5, <1>6, <1>7 DEF n

LEMMA AnOrder ==
    ASSUME NEW Events, Stamped(Events), NEW events \in Seq(Events)
    PROVE  \E order : IsOrder(order, events)
  <1> DEFINE n == Len(events)
             P == 1 .. n
             place == [i \in P |-> Cardinality(ReadBefore(events, i)) + 1]
             order == [k \in P |-> CHOOSE i \in P : Cardinality(ReadBefore(events, i)) = k - 1]
  <1>1. n \in Nat /\ DOMAIN events = P /\ IsFiniteSet(P)
    BY Lengths
  <1>2. /\ \A i \in P : Cardinality(ReadBefore(events, i)) \in 0 .. n - 1
        /\ \A i, j \in P : (Comes(events, j, i) => Cardinality(ReadBefore(events, j)) < Cardinality(ReadBefore(events, i)))
                           /\ (i # j => Comes(events, i, j) \/ Comes(events, j, i))
    BY WhatComesBefore
  <1> HIDE DEF n
  <1>3. \A i \in P : place[i] \in P /\ place[i] \in Int
    BY <1>1, <1>2
  <1>4. \A i, j \in P : Comes(events, j, i) => place[j] < place[i]
    BY <1>1, <1>2
  <1> HIDE DEF P
  <1>5. place \in Surjection(P, P)
    <2>1. place \in [P -> P]
      BY <1>3
    <2>2. \A i, j \in P : place[i] = place[j] => i = j
      BY <1>2, <1>3, <1>4
    <2> HIDE DEF place
    <2>3. place \in Injection(P, P)
      BY <2>1, <2>2 DEF Injection, IsInjective
    <2>4. QED
      BY <1>1, <2>3, FS_Injection
  <1>6. ASSUME NEW k \in P
        PROVE  order[k] \in P /\ place[order[k]] = k /\ \A i \in P : place[i] = k => order[k] = i
    <2>1. PICK i \in P : place[i] = k
      BY <1>5 DEF Surjection
    <2>2. \A j \in P : place[j] = k <=> Cardinality(ReadBefore(events, j)) = k - 1
      BY <1>1, <1>2 DEF P
    <2>3. order[k] = (CHOOSE j \in P : Cardinality(ReadBefore(events, j)) = k - 1)
      OBVIOUS
    <2> HIDE DEF place, order
    <2>4. order[k] \in P /\ place[order[k]] = k
      BY <2>1, <2>2, <2>3
    <2>5. ASSUME NEW j \in P, place[j] = k PROVE order[k] = j
      BY <1>2, <1>3, <1>4, <2>4, <2>5
    <2>6. QED
      BY <2>4, <2>5
  <1>7. ReadEvents(events) = [k \in P |-> events[order[k]]]
    BY <1>1 DEF ReadEvents
  <1>8. order \in [P -> P]
    BY <1>6
  <1>12. \A i, k \in P : Cardinality(ReadBefore(events, i)) = k - 1 <=> order[k] = i
    <2> SUFFICES ASSUME NEW i \in P, NEW k \in P PROVE Cardinality(ReadBefore(events, i)) = k - 1 <=> order[k] = i
      OBVIOUS
    <2>1. Cardinality(ReadBefore(events, i)) = k - 1 <=> place[i] = k
      BY <1>1, <1>2 DEF P
    <2> HIDE DEF order, place
    <2>2. QED
      BY <1>6, <2>1
  <1> HIDE DEF order, place
  <1>9. \A i \in P : \E k \in P : order[k] = i
    BY <1>3, <1>6
  <1>10. ASSUME NEW k \in P, NEW l \in P, k < l PROVE Comes(events, order[k], order[l])
    <2>1. order[k] \in P /\ order[l] \in P /\ place[order[k]] = k /\ place[order[l]] = l
      BY <1>6
    <2>2. k \in Int /\ l \in Int
      BY DEF P
    <2>3. Comes(events, order[l], order[k]) => l < k
      BY <1>4, <2>1
    <2>4. order[k] # order[l] /\ ~(l < k)
      BY <1>10, <2>1, <2>2
    <2>5. QED
      BY <1>2, <2>1, <2>3, <2>4
  <1>11. QED
    BY <1>7, <1>8, <1>9, <1>10, <1>12 DEF IsOrder, P, n

LEMMA ReadingKeepsAll ==
    ASSUME NEW Events, Stamped(Events), NEW events \in Seq(Events)
    PROVE  /\ ReadEvents(events) \in Seq(Events) /\ Len(ReadEvents(events)) = Len(events)
           /\ \A i \in 1 .. Len(events) : \E k \in 1 .. Len(events) : ReadEvents(events)[k] = events[i]
  <1> DEFINE n == Len(events)
  <1>1. n \in Nat /\ \A i \in 1 .. n : events[i] \in Events
    OBVIOUS
  <1>2. PICK order : IsOrder(order, events)
    BY AnOrder
  <1>3. /\ order \in [1 .. n -> 1 .. n] /\ ReadEvents(events) = [k \in 1 .. n |-> events[order[k]]]
        /\ \A i \in 1 .. n : \E k \in 1 .. n : order[k] = i
    BY <1>2 DEF IsOrder
  <1> HIDE DEF n
  <1>4. ReadEvents(events) \in Seq(Events) /\ Len(ReadEvents(events)) = n
    <2>1. ReadEvents(events) \in [1 .. n -> Events]
      BY <1>1, <1>3
    <2>2. QED
      BY <1>1, <2>1
  <1>5. QED
    BY <1>3, <1>4 DEF n

\* Where nothing was committed before what began earlier, a record is read as it was written.
LEMMA ReadAsWritten ==
    ASSUME NEW Events, Stamped(Events), NEW events \in Seq(Events),
           \A i, j \in 1 .. Len(events) : i < j => events[i].at <= events[j].at
    PROVE  ReadEvents(events) = events
  <1> DEFINE n == Len(events)
             P == 1 .. n
  <1>1. n \in Nat /\ DOMAIN events = P /\ \A i \in P : events[i].at \in Int
    BY Lengths DEF Stamped
  <1>2. \A i, j \in P : i < j => events[i].at <= events[j].at
    OBVIOUS
  <1> HIDE DEF n
  <1>3. ASSUME NEW i \in P PROVE Cardinality(ReadBefore(events, i)) = i - 1
    <2>1. ASSUME NEW j \in P PROVE j \in ReadBefore(events, i) <=> j < i
      BY <1>1, <1>2, <1>3, <2>1 DEF ReadBefore
    <2>2. \A j \in ReadBefore(events, i) : j \in P
      BY <1>1 DEF ReadBefore
    <2>3. \A j : j \in P /\ j < i <=> j \in 1 .. i - 1
      BY <1>1, <1>3
    <2>4. ReadBefore(events, i) = 1 .. i - 1
      BY <2>1, <2>2, <2>3
    <2>5. QED
      BY <1>1, <2>4, FS_Interval
  <1>4. ASSUME NEW k \in P PROVE (CHOOSE i \in P : Cardinality(ReadBefore(events, i)) = k - 1) = k
    <2>1. \A i \in P : Cardinality(ReadBefore(events, i)) = k - 1 <=> i = k
      BY <1>1, <1>3
    <2>2. QED
      BY <2>1
  <1>5. ReadEvents(events) = [k \in P |-> events[k]]
    <2>1. ReadEvents(events) = [k \in P |-> events[CHOOSE i \in P : Cardinality(ReadBefore(events, i)) = k - 1]]
      BY <1>1 DEF ReadEvents
    <2>2. QED
      BY <1>4, <2>1
  <1>6. QED
    BY <1>1, <1>5

\* What is written next is read behind all that began before it, and before what began after it.
Inserted(events, p, e) ==
    [k \in 1 .. Len(events) + 1 |-> IF k <= p THEN events[k] ELSE IF k = p + 1 THEN e ELSE events[k - 1]]

LEMMA ReadAmong ==
    ASSUME NEW Events, Stamped(Events), NEW events \in Seq(Events), NEW e \in Events
    PROVE  \E p \in 0 .. Len(events) :
              /\ ReadEvents(Append(events, e)) = Inserted(ReadEvents(events), p, e)
              /\ \A k \in 1 .. Len(events) :
                    /\ k > p => ReadEvents(events)[k].at > e.at
                    /\ \E i \in 1 .. Len(events) : ReadEvents(events)[k] = events[i]
  <1> DEFINE n == Len(events)
             more == Append(events, e)
             P == 1 .. n
             Q == 1 .. n + 1
             before == [i \in P |-> Cardinality(ReadBefore(events, i))]
             after == [i \in Q |-> Cardinality(ReadBefore(more, i))]
  <1>1. /\ n \in Nat /\ more \in Seq(Events) /\ Len(more) = n + 1 /\ DOMAIN events = P /\ DOMAIN more = Q
        /\ more[n + 1] = e /\ (\A i \in P : more[i] = events[i] /\ i \in Q /\ i # n + 1 /\ events[i] \in Events)
        /\ n + 1 \in Q /\ (\A i \in Q : i # n + 1 => i \in P)
    OBVIOUS
  <1>2. e.at \in Int /\ \A i \in P : events[i].at \in Int /\ more[i].at = events[i].at
    BY <1>1 DEF Stamped
  <1>3. PICK order : IsOrder(order, events)
    BY AnOrder
  <1>4. PICK place : IsOrder(place, more)
    BY <1>1, AnOrder
  <1>5. /\ order \in [P -> P] /\ ReadEvents(events) = [k \in P |-> events[order[k]]]
        /\ \A i, k \in P : before[i] = k - 1 <=> order[k] = i
    BY <1>3 DEF IsOrder
  <1>6. /\ place \in [Q -> Q] /\ ReadEvents(more) = [k \in Q |-> more[place[k]]]
        /\ \A i, k \in Q : after[i] = k - 1 <=> place[k] = i
    BY <1>1, <1>4 DEF IsOrder
  <1>7. /\ \A i \in Q : after[i] \in 0 .. n
        /\ \A i, j \in Q : (Comes(more, j, i) => after[j] < after[i])
    <2>1. /\ \A i \in 1 .. Len(more) : Cardinality(ReadBefore(more, i)) \in 0 .. Len(more) - 1
          /\ \A i, j \in 1 .. Len(more) : Comes(more, j, i) => Cardinality(ReadBefore(more, j)) < Cardinality(ReadBefore(more, i))
      BY <1>1, WhatComesBefore
    <2>2. Len(more) - 1 = n
      BY <1>1
    <2> HIDE DEF more
    <2>3. QED
      BY <1>1, <2>1, <2>2
  <1>8. \A i \in P : IsFiniteSet(ReadBefore(events, i)) /\ before[i] \in Nat
    <2> SUFFICES ASSUME NEW i \in P PROVE IsFiniteSet(ReadBefore(events, i)) /\ before[i] \in Nat
      OBVIOUS
    <2>1. ReadBefore(events, i) \subseteq P
      BY <1>1 DEF ReadBefore
    <2>2. IsFiniteSet(P)
      BY Lengths
    <2>3. IsFiniteSet(ReadBefore(events, i))
      BY <2>1, <2>2, FS_Subset
    <2>4. QED
      BY <2>3, FS_CardinalityType
  <1>9. ASSUME NEW i \in P PROVE after[i] = before[i] + (IF e.at < events[i].at THEN 1 ELSE 0)
    <2>1. \A j \in P : j \in ReadBefore(more, i) <=> j \in ReadBefore(events, i)
      BY <1>1, <1>2 DEF ReadBefore
    <2>2. n + 1 \in ReadBefore(more, i) <=> e.at < events[i].at
      BY <1>1, <1>2 DEF ReadBefore
    <2>3. ReadBefore(more, i) \subseteq Q /\ ReadBefore(events, i) \subseteq P
      BY <1>1 DEF ReadBefore
    <2>4. CASE e.at < events[i].at
      <3>1. ReadBefore(more, i) = ReadBefore(events, i) \cup {n + 1} /\ n + 1 \notin ReadBefore(events, i)
        BY <1>1, <2>1, <2>2, <2>3, <2>4
      <3>2. Cardinality(ReadBefore(more, i)) = Cardinality(ReadBefore(events, i)) + 1
        BY <1>8, <3>1, FS_AddElement
      <3>3. QED
        BY <1>1, <2>4, <3>2
    <2>5. CASE ~(e.at < events[i].at)
      <3>1. ReadBefore(more, i) = ReadBefore(events, i)
        BY <1>1, <2>1, <2>2, <2>3, <2>5
      <3>2. QED
        BY <1>1, <1>8, <2>5, <3>1
    <2>6. QED
      BY <2>4, <2>5
  <1> DEFINE p == after[n + 1]
  <1>10. p \in 0 .. n
    BY <1>1, <1>7
  <1> HIDE DEF n, more, before, after
  <1>11. ASSUME NEW k \in P
         PROVE  \/ events[order[k]].at <= e.at /\ k <= p /\ place[k] = order[k]
                \/ events[order[k]].at > e.at /\ k > p /\ place[k + 1] = order[k]
    <2>1. PICK i \in P : i = order[k]
      BY <1>5
    <2>2. before[i] = k - 1 /\ i \in Q /\ k \in Q /\ k + 1 \in Q
      BY <1>1, <1>5, <2>1
    <2>3. after[i] \in 0 .. n /\ p \in 0 .. n /\ n + 1 \in Q
      BY <1>1, <1>7, <1>10, <2>2
    <2>4. CASE events[i].at <= e.at
      <3>1. Comes(more, i, n + 1)
        BY <1>1, <1>2, <2>1, <2>4 DEF Comes
      <3>2. after[i] < p
        BY <1>7, <2>2, <2>3, <3>1
      <3>3. after[i] = k - 1
        BY <1>2, <1>9, <2>2, <2>4
      <3>4. place[k] = i
        BY <1>6, <2>2, <3>3
      <3>5. QED
        BY <1>1, <1>10, <2>1, <2>4, <3>2, <3>3, <3>4
    <2>5. CASE e.at < events[i].at
      <3>1. Comes(more, n + 1, i)
        BY <1>1, <1>2, <2>1, <2>5 DEF Comes
      <3>2. p < after[i]
        BY <1>7, <2>2, <2>3, <3>1
      <3>3. after[i] = k
        BY <1>1, <1>9, <2>2, <2>5
      <3>4. after[i] = (k + 1) - 1
        BY <1>1, <3>3
      <3>5. place[k + 1] = i
        BY <1>6, <2>2, <3>4
      <3>6. QED
        BY <1>1, <1>2, <1>10, <2>1, <2>5, <3>2, <3>3, <3>5
    <2>6. QED
      BY <1>2, <2>1, <2>4, <2>5
  <1>12. place[p + 1] = n + 1 /\ p + 1 \in Q
    <2>1. p + 1 \in Q /\ after[n + 1] = (p + 1) - 1 /\ n + 1 \in Q
      BY <1>1, <1>10
    <2>2. QED
      BY <1>6, <2>1
  <1> HIDE DEF p
  <1> DEFINE read == ReadEvents(events)
  <1>13. DOMAIN read = P /\ Len(read) = n /\ \A k \in P : read[k] = events[order[k]]
    <2>1. Len(ReadEvents(events)) = n
      BY ReadingKeepsAll DEF n
    <2> HIDE DEF P
    <2>2. DOMAIN read = P /\ \A k \in P : read[k] = events[order[k]]
      BY <1>5
    <2>3. QED
      BY <2>1, <2>2
  <1> HIDE DEF read
  <1>14. ASSUME NEW k \in Q
         PROVE  more[place[k]] = IF k <= p THEN read[k] ELSE IF k = p + 1 THEN e ELSE read[k - 1]
    <2>1. CASE k <= p
      <3>1. k \in P
        BY <1>1, <1>10, <2>1
      <3>2. place[k] = order[k] /\ order[k] \in P
        BY <1>1, <1>5, <1>10, <1>11, <2>1, <3>1
      <3>3. QED
        BY <1>1, <1>13, <2>1, <3>1, <3>2
    <2>2. CASE k = p + 1
      BY <1>1, <1>10, <1>12, <2>2
    <2>3. CASE k > p + 1
      <3>1. k - 1 \in P /\ k - 1 > p
        BY <1>1, <1>10, <2>3
      <3>2. PICK j \in P : j = k - 1 /\ j > p /\ j + 1 = k
        BY <1>1, <1>10, <3>1
      <3>3. place[k] = order[j] /\ order[j] \in P
        <4>1. ~(j <= p)
          BY <1>1, <1>10, <3>2
        <4>2. place[j + 1] = order[j]
          BY <1>11, <3>2, <4>1, Zenon
        <4>3. order[j] \in P
          BY <1>5, <3>2
        <4>4. QED
          BY <3>2, <4>2, <4>3
      <3>4. QED
        BY <1>1, <1>10, <1>13, <2>3, <3>2, <3>3
    <2>4. QED
      BY <1>1, <1>10, <2>1, <2>2, <2>3
  <1>15. ReadEvents(more) = Inserted(read, p, e)
    BY <1>6, <1>13, <1>14 DEF Inserted
  <1>16. ASSUME NEW k \in P
         PROVE  (k > p => read[k].at > e.at) /\ \E i \in P : read[k] = events[i]
    BY <1>1, <1>5, <1>10, <1>11, <1>13
  <1>17. QED
    BY <1>10, <1>15, <1>16 DEF read, more, n

-----------------------------------------------------------------------------
(* What one machine is doing, and what its owner was told.                 *)

LifeEvents ==
    [kind : OwnerActions, at : 1 .. MaxStamp, by : {"owner", "rules", "operator"}, to : MachineState,
     crossed : BOOLEAN]

StateOf(events) == FoldLeft(Follow, "ready", events)

FollowStep == [p \in MachineState \X LifeEvents |-> Follow(p[1], p[2])]

LEMMA LifeIsStamped == Stamped(LifeEvents)
  BY DEF Stamped, LifeEvents

LEMMA FollowIsTyped ==
    /\ "ready" \in MachineState /\ FollowStep \in [MachineState \X LifeEvents -> MachineState]
    /\ \A state \in MachineState, e \in LifeEvents :
          FollowStep[state, e] = Follow(state, e) /\ Follow(state, e) \in MachineState
  <1>1. \A state \in MachineState, e \in LifeEvents : Follow(state, e) \in MachineState
    BY DEF Follow, MachineState
  <1>2. "ready" \in MachineState
    BY DEF MachineState
  <1>3. QED
    BY <1>1, <1>2 DEF FollowStep

LEMMA FollowFolds ==
    ASSUME NEW events \in Seq(LifeEvents)
    PROVE  StateOf(events) = FoldTo(MachineState, FollowStep, "ready", events)
  <1> DEFINE Step(f) == [s \in SUBSET DOMAIN events |->
                            IF s = {} THEN "ready" ELSE Follow(f[s \ {Max(s)}], events[Max(s)])]
             iter == CHOOSE f : f = Step(f)
  <1>1. StateOf(events) = iter[DOMAIN events]
    BY DEF StateOf, FoldLeft, MapThenFoldSet
  <1>2. PICK F : IsFold(F, MachineState, FollowStep, "ready", events)
    BY FollowIsTyped, FoldsExist
  <1>3. \A s \in SUBSET DOMAIN events : s # {} => F[s] = Follow(F[s \ {Max(s)}], events[Max(s)])
    <2> SUFFICES ASSUME NEW s \in SUBSET DOMAIN events, s # {}
                 PROVE  F[s] = Follow(F[s \ {Max(s)}], events[Max(s)])
      OBVIOUS
    <2>1. F[s \ {Max(s)}] \in MachineState /\ events[Max(s)] \in LifeEvents
      BY <1>2, PlacesOfAll DEF IsFold
    <2>2. F[s] = FollowStep[F[s \ {Max(s)}], events[Max(s)]]
      BY <1>2 DEF IsFold
    <2>3. QED
      BY <2>1, <2>2, FollowIsTyped
  <1>4. F = Step(F)
    <2>1. F \in [SUBSET DOMAIN events -> MachineState] /\ F[{}] = "ready"
      BY <1>2 DEF IsFold
    <2>2. QED
      BY <1>3, <2>1
  <1>5. iter = Step(iter)
    BY <1>4
  <1> HIDE DEF iter
  <1>6. Alike(iter, F, events)
    BY <1>4, <1>5 DEF Alike
  <1>7. iter[DOMAIN events] = F[DOMAIN events]
    BY <1>6, SameOnAll
  <1>8. /\ FoldTo(MachineState, FollowStep, "ready", events) = F[DOMAIN events]
        /\ F[DOMAIN events] \in MachineState
    BY <1>2, FollowIsTyped, TheFold
  <1>9. QED
    BY <1>1, <1>7, <1>8

LEMMA StateOfNone == StateOf(<<>>) = "ready"
  <1> DEFINE none == <<>>
  <1>1. none \in Seq(LifeEvents)
    OBVIOUS
  <1>2. FoldTo(MachineState, FollowStep, "ready", none) = "ready"
    BY FollowIsTyped, FoldOfNothing
  <1> HIDE DEF none
  <1>3. StateOf(none) = "ready"
    BY <1>1, <1>2, FollowFolds
  <1>4. QED
    BY <1>3 DEF none

LEMMA StateOfMore ==
    ASSUME NEW events \in Seq(LifeEvents), NEW e \in LifeEvents
    PROVE  /\ StateOf(Append(events, e)) = Follow(StateOf(events), e)
           /\ StateOf(events) \in MachineState /\ StateOf(Append(events, e)) \in MachineState
  <1> DEFINE more == Append(events, e)
  <1>1. more \in Seq(LifeEvents)
    OBVIOUS
  <1>2. /\ FoldTo(MachineState, FollowStep, "ready", more)
              = FollowStep[FoldTo(MachineState, FollowStep, "ready", events), e]
        /\ FoldTo(MachineState, FollowStep, "ready", more) \in MachineState
        /\ FoldTo(MachineState, FollowStep, "ready", events) \in MachineState
    BY FollowIsTyped, FoldOfOneMore
  <1> HIDE DEF more
  <1>3. /\ StateOf(more) = FoldTo(MachineState, FollowStep, "ready", more)
        /\ StateOf(events) = FoldTo(MachineState, FollowStep, "ready", events)
    BY <1>1, FollowFolds
  <1>4. QED
    BY <1>2, <1>3, FollowIsTyped DEF more

LEMMA StoppedOnce ==
    ASSUME NEW events \in Seq(LifeEvents), NEW i \in 1 .. Len(events), events[i].kind = "stop"
    PROVE  StateOf(events) = "stopped"
  <1> DEFINE n == Len(events)
             not == {k \in i .. n : StateOf(SubSeq(events, 1, k)) # "stopped"}
  <1>1. n \in Nat /\ i \in 1 .. n /\ not \in SUBSET Nat
    OBVIOUS
  <1>2. ASSUME NEW k \in i .. n
        PROVE  /\ StateOf(SubSeq(events, 1, k)) = Follow(StateOf(SubSeq(events, 1, k - 1)), events[k])
               /\ k \in Int /\ i <= k
    <2>1. k \in 1 .. Len(events)
      OBVIOUS
    <2>2. /\ SubSeq(events, 1, k - 1) \in Seq(LifeEvents) /\ events[k] \in LifeEvents
          /\ SubSeq(events, 1, k) = Append(SubSeq(events, 1, k - 1), events[k])
      BY <2>1, PrefixGrows
    <2>3. StateOf(SubSeq(events, 1, k)) = Follow(StateOf(SubSeq(events, 1, k - 1)), events[k])
      BY <2>2, StateOfMore
    <2>4. QED
      BY <1>1, <2>3
  <1>3. not = {}
    <2> SUFFICES ASSUME not # {} PROVE FALSE
      OBVIOUS
    <2>1. PICK m \in not : \A k \in not : m <= k
      BY <1>1, LeastOf
    <2>2. m \in i .. n /\ StateOf(SubSeq(events, 1, m)) # "stopped"
      BY <2>1
    <2>3. CASE m = i
      BY <1>2, <2>2, <2>3 DEF Follow
    <2>4. CASE m # i
      <3>1. m - 1 \in i .. n /\ m - 1 \notin not
        BY <1>1, <2>1, <2>2, <2>4
      <3>2. StateOf(SubSeq(events, 1, m - 1)) = "stopped"
        BY <3>1
      <3>3. QED
        BY <1>2, <2>2, <3>2 DEF Follow
    <2>5. QED
      BY <2>3, <2>4
  <1>4. n \in i .. n /\ n \in 1 .. Len(events)
    BY <1>1
  <1>5. QED
    BY <1>3, <1>4, PrefixGrows

Acts ==
    [phase : {"idle", "begun", "waiting", "holding", "writing"}, kind : OwnerActions,
     by : {"owner", "rules", "operator"}, at : 0 .. MaxStamp, saw : MachineState, crossed : BOOLEAN]

(* Who has the row knows the state the record gives, unless the rules' own *)
(* pause was written behind him; who is on his way has his moment, and only*)
(* an operator's stop is written without being allowed.                    *)
ActKept(w) ==
    LET a == act[w] IN
    /\ holder = w <=> a.phase = "holding"
    /\ a.phase # "idle" => a.at \in 1 .. MaxStamp
    /\ a.by = "operator" => a.kind = "stop"
    /\ a.phase = "holding" => a.by # "rules" /\ (~a.crossed => a.saw = StateAfter(life))
    /\ a.phase \in {"begun", "waiting"} => a.by # "rules" /\ ~a.crossed

LifeTypes ==
    /\ stamp \in 0 .. MaxStamp /\ life \in Seq(LifeEvents) /\ holder \in Acting \cup {Nobody}
    /\ act \in [Acting -> Acts]

LifeInv == LifeTypes /\ (\A w \in Acting : ActKept(w)) /\ ToldAsItIs

LEMMA StateAfterIs ==
    ASSUME NEW events \in Seq(LifeEvents)
    PROVE  StateAfter(events) = StateOf(ReadEvents(events)) /\ StateAfter(events) \in MachineState
  <1>1. StateAfter(events) = StateOf(ReadEvents(events))
    BY DEF StateAfter, StateOf
  <1>2. ReadEvents(events) \in Seq(LifeEvents) /\ Len(ReadEvents(events)) = Len(events)
    BY LifeIsStamped, ReadingKeepsAll
  <1> DEFINE read == ReadEvents(events)
  <1>3. StateOf(read) \in MachineState
    <2>1. CASE Len(read) = 0
      <3>1. read = <<>>
        BY <1>2, <2>1, EmptySeq
      <3>2. QED
        BY <3>1, StateOfNone DEF MachineState
    <2>2. CASE Len(read) # 0
      <3>1. Len(read) \in 1 .. Len(read) /\ Len(read) \in Nat
        BY <1>2, <2>2
      <3>2. /\ SubSeq(read, 1, Len(read) - 1) \in Seq(LifeEvents) /\ read[Len(read)] \in LifeEvents
            /\ read = Append(SubSeq(read, 1, Len(read) - 1), read[Len(read)])
        BY <1>2, <3>1, PrefixGrows
      <3> HIDE DEF read
      <3>3. QED
        BY <3>2, StateOfMore
    <2>3. QED
      BY <2>1, <2>2
  <1>4. QED
    BY <1>1, <1>3

\* What is written last is read last, as long as the two orders agree.
LEMMA WrittenLast ==
    ASSUME NEW events \in Seq(LifeEvents), NEW e \in LifeEvents,
           \A i, j \in 1 .. Len(events) + 1 : i < j => Append(events, e)[i].at < Append(events, e)[j].at
    PROVE  StateAfter(Append(events, e)) = Follow(StateAfter(events), e)
  <1> DEFINE more == Append(events, e)
             n == Len(events)
  <1>1. /\ more \in Seq(LifeEvents) /\ Len(more) = n + 1 /\ n \in Nat
        /\ \A i \in 1 .. n : more[i] = events[i] /\ i \in 1 .. n + 1
    OBVIOUS
  <1>2. \A i, j \in 1 .. n + 1 : i < j => more[i].at < more[j].at
    OBVIOUS
  <1> HIDE DEF more
  <1>3. \A i \in 1 .. n + 1 : more[i].at \in Int
    BY <1>1, LifeIsStamped DEF Stamped
  <1>4. ReadEvents(more) = more
    <2>1. \A i, j \in 1 .. Len(more) : i < j => more[i].at <= more[j].at
      BY <1>1, <1>2, <1>3
    <2>2. QED
      BY <1>1, <2>1, LifeIsStamped, ReadAsWritten
  <1>5. ReadEvents(events) = events
    <2>1. \A i, j \in 1 .. Len(events) : i < j => events[i].at <= events[j].at
      BY <1>1, <1>2, <1>3
    <2>2. QED
      BY <2>1, LifeIsStamped, ReadAsWritten
  <1>6. StateAfter(more) = StateOf(more) /\ StateAfter(events) = StateOf(events)
    BY <1>1, <1>4, <1>5, StateAfterIs
  <1>7. QED
    BY <1>6, StateOfMore DEF more

LEMMA StopIsFinal == LifeTypes => StoppedIsFinal
  <1> SUFFICES ASSUME LifeTypes, NEW i \in DOMAIN life, life[i].kind = "stop" PROVE StateAfter(life) = "stopped"
    BY DEF StoppedIsFinal
  <1>1. life \in Seq(LifeEvents) /\ i \in 1 .. Len(life)
    BY DEF LifeTypes
  <1> DEFINE read == ReadEvents(life)
  <1>2. /\ read \in Seq(LifeEvents) /\ Len(read) = Len(life)
        /\ \A j \in 1 .. Len(life) : \E k \in 1 .. Len(life) : read[k] = life[j]
    BY <1>1, LifeIsStamped, ReadingKeepsAll
  <1> HIDE DEF read
  <1>3. PICK k \in 1 .. Len(life) : read[k] = life[i]
    BY <1>1, <1>2
  <1>4. StateOf(read) = "stopped"
    BY <1>2, <1>3, StoppedOnce
  <1>5. QED
    BY <1>1, <1>4, StateAfterIs DEF read

-----------------------------------------------------------------------------
(* The steps.                                                              *)

ToldAt(events, n) ==
    (\A i, j \in 1 .. n : i < j => events[i].at < events[j].at) /\ ~events[n].crossed =>
        LET state == StateAfter(SubSeq(events, 1, n)) IN
        IF events[n].by = "rules" THEN state # "running" ELSE state = events[n].to

LEMMA ToldIsToldAt == ToldAsItIs <=> \A n \in DOMAIN life : ToldAt(life, n)
  BY DEF ToldAsItIs, ToldAt, CommittedAsBegun

\* What a change tells its owner is what the record gives with it in it.
TellsTruly(e) ==
    ~e.crossed => IF e.by = "rules" THEN Follow(StateAfter(life), e) # "running"
                                    ELSE Follow(StateAfter(life), e) = e.to

LEMMA WritingTells ==
    ASSUME LifeTypes, ToldAsItIs, NEW e \in LifeEvents, TellsTruly(e), life' = Append(life, e)
    PROVE  ToldAsItIs' /\ life' \in Seq(LifeEvents)
  <1> DEFINE n == Len(life)
             more == Append(life, e)
  <1>1. life \in Seq(LifeEvents) /\ n \in Nat /\ DOMAIN life = 1 .. n
    BY DEF LifeTypes
  <1>2. /\ more \in Seq(LifeEvents) /\ DOMAIN more = 1 .. n + 1 /\ more[n + 1] = e
        /\ \A k \in 1 .. n : more[k] = life[k] /\ SubSeq(more, 1, k) = SubSeq(life, 1, k)
        /\ SubSeq(more, 1, n + 1) = more
    BY <1>1
  <1>3. ASSUME NEW k \in 1 .. n + 1 PROVE ToldAt(more, k)
    <2>1. CASE k = n + 1
      <3> SUFFICES ASSUME \A i, j \in 1 .. n + 1 : i < j => more[i].at < more[j].at, ~e.crossed
                   PROVE  IF e.by = "rules" THEN StateAfter(more) # "running" ELSE StateAfter(more) = e.to
        BY <1>2, <2>1 DEF ToldAt
      <3>1. StateAfter(more) = Follow(StateAfter(life), e)
        BY <1>1, WrittenLast
      <3>2. QED
        BY <3>1 DEF TellsTruly
    <2>2. CASE k # n + 1
      <3>1. k \in 1 .. n /\ \A i \in 1 .. k : i \in 1 .. n
        BY <1>1, <2>2
      <3>2. ToldAt(life, k)
        BY <1>1, <3>1, ToldIsToldAt
      <3> HIDE DEF more
      <3>3. QED
        BY <1>2, <3>1, <3>2 DEF ToldAt
    <2>3. QED
      BY <2>1, <2>2
  <1>4. ToldAsItIs' <=> \A k \in DOMAIN life' : ToldAt(life', k)
    BY DEF ToldAsItIs, ToldAt, CommittedAsBegun
  <1> HIDE DEF more
  <1>5. life' = more
    BY DEF more
  <1>6. QED
    BY <1>2, <1>3, <1>4, <1>5

LEMMA NoActIsKept ==
    NoAct \in Acts /\ NoAct.phase = "idle" /\ NoAct.by = "owner" /\ NoAct.kind = "fund" /\ NoAct.crossed = FALSE
  <1>1. 0 \in 0 .. MaxStamp
    BY LifecycleAssumption
  <1>2. QED
    BY <1>1 DEF NoAct, Acts, OwnerActions, MachineState

\* One transaction moves, and writes nothing.
LEMMA OneMoves ==
    ASSUME LifeInv, NEW w \in Acting, NEW a \in Acts, act' = [act EXCEPT ![w] = a], life' = life,
           stamp' \in 0 .. MaxStamp, holder' \in Acting \cup {Nobody},
           \A v \in Acting \ {w} : holder' = v <=> holder = v,
           ActKept(w)'
    PROVE  LifeInv'
  <1>1. /\ act' \in [Acting -> Acts] /\ \A v \in Acting \ {w} : act'[v] = act[v]
        /\ LifeTypes /\ ToldAsItIs /\ \A v \in Acting : ActKept(v)
    BY DEF LifeInv, LifeTypes
  <1>2. LifeTypes'
    BY <1>1 DEF LifeTypes
  <1>3. ASSUME NEW v \in Acting PROVE ActKept(v)'
    <2>1. CASE v = w
      BY <2>1
    <2>2. CASE v # w
      <3>1. act'[v] = act[v] /\ (holder' = v <=> holder = v) /\ ActKept(v)
        BY <1>1, <2>2
      <3>2. QED
        BY <3>1 DEF ActKept
    <2>3. QED
      BY <2>1, <2>2
  <1>4. ToldAsItIs'
    BY <1>1 DEF ToldAsItIs, CommittedAsBegun
  <1>5. QED
    BY <1>2, <1>3, <1>4 DEF LifeInv

LEMMA InitLifeInv == LifecycleInit => LifeInv
  <1> SUFFICES ASSUME LifecycleInit PROVE LifeInv
    OBVIOUS
  <1>1. life = <<>> /\ holder = Nobody /\ stamp = 0 /\ act = [w \in Acting |-> NoAct]
    BY DEF LifecycleInit
  <1>2. LifeTypes
    BY <1>1, NoActIsKept, LifecycleAssumption DEF LifeTypes
  <1>3. \A w \in Acting : ActKept(w)
    BY <1>1, NoActIsKept, LifecycleAssumption DEF ActKept
  <1>4. ToldAsItIs
    BY <1>1 DEF ToldAsItIs
  <1>5. QED
    BY <1>2, <1>3, <1>4 DEF LifeInv

LEMMA Knows ==
    ASSUME LifeInv, NEW w \in Acting
    PROVE  /\ stamp \in 0 .. MaxStamp /\ stamp \in Nat /\ MaxStamp \in Nat /\ life \in Seq(LifeEvents)
           /\ holder \in Acting \cup {Nobody}
           /\ act \in [Acting -> Acts] /\ act[w] \in Acts /\ ActKept(w) /\ Nobody # w
           /\ StateAfter(life) \in MachineState
  <1>1. stamp \in 0 .. MaxStamp /\ MaxStamp \in Nat /\ life \in Seq(LifeEvents) /\ act \in [Acting -> Acts]
    BY LifecycleAssumption DEF LifeInv, LifeTypes
  <1>2. QED
    BY <1>1, LifecycleAssumption, StateAfterIs DEF LifeInv, LifeTypes

LEMMA BeginActKeeps ==
    ASSUME LifeInv, NEW w \in Acting, NEW kind \in OwnerActions, NEW by \in {"owner", "rules", "operator"},
           NEW phase \in {"begun", "waiting", "writing"}, BeginAct(w, kind, by, phase),
           by = "operator" => kind = "stop", phase # "writing" => by # "rules"
    PROVE  LifeInv'
  <1> DEFINE a == [NoAct EXCEPT !.phase = phase, !.kind = kind, !.by = by, !.at = stamp + 1]
  <1>1. stamp' = stamp + 1 /\ stamp + 1 \in 1 .. MaxStamp /\ stamp + 1 \in 0 .. MaxStamp
    BY Knows DEF BeginAct
  <1>2. a \in Acts /\ a.phase = phase /\ a.kind = kind /\ a.by = by /\ a.at = stamp + 1 /\ a.crossed = NoAct.crossed
    BY <1>1, NoActIsKept DEF Acts
  <1>3. ~NoAct.crossed
    BY Zenon DEF NoAct
  <1>4. act' = [act EXCEPT ![w] = a] /\ UNCHANGED <<life, holder>> /\ act[w].phase = "idle"
    BY <1>1 DEF BeginAct
  <1> HIDE DEF a
  <1>6. act'[w] = a /\ holder # w
    BY <1>4, Knows DEF ActKept
  <1>7. ActKept(w)'
    BY <1>1, <1>2, <1>3, <1>4, <1>6 DEF ActKept
  <1>8. QED
    BY <1>1, <1>2, <1>4, <1>7, Knows, OneMoves

LEMMA FindRunningKeeps == ASSUME LifeInv, NEW w \in Acting, FindRunning(w) PROVE LifeInv'
  <1>1. act[w] \in Acts /\ act[w].phase = "begun" /\ ActKept(w) /\ holder # w /\ UNCHANGED <<stamp, life, holder>>
    BY Knows DEF FindRunning, ActKept
  <1>2. CASE act' = [act EXCEPT ![w] = NoAct]
    <2>1. act'[w] = NoAct
      BY <1>2, Knows
    <2>2. ActKept(w)'
      BY <1>1, <2>1, NoActIsKept DEF ActKept
    <2>3. QED
      BY <1>1, <1>2, <2>2, NoActIsKept, Knows, OneMoves
  <1>3. CASE act' = [act EXCEPT ![w].phase = "waiting"]
    <2> DEFINE a == [act[w] EXCEPT !.phase = "waiting"]
    <2>1. a \in Acts /\ a.phase = "waiting" /\ a.kind = act[w].kind /\ a.by = act[w].by /\ a.at = act[w].at
          /\ a.crossed = act[w].crossed
      BY <1>1 DEF Acts
    <2>2. act' = [act EXCEPT ![w] = a]
      BY <1>3, Knows
    <2> HIDE DEF a
    <2>3. act'[w] = a
      BY <2>2, Knows
    <2>4. ActKept(w)'
      BY <1>1, <2>1, <2>3 DEF ActKept
    <2>5. QED
      BY <1>1, <2>1, <2>2, <2>4, Knows, OneMoves
  <1>4. QED
    BY <1>2, <1>3 DEF FindRunning

LEMMA TakeRowKeeps == ASSUME LifeInv, NEW w \in Acting, TakeRow(w) PROVE LifeInv'
  <1> DEFINE a == [act[w] EXCEPT !.phase = "holding", !.saw = StateAfter(life)]
  <1>1. /\ act[w] \in Acts /\ act[w].phase = "waiting" /\ ActKept(w) /\ holder = Nobody /\ holder' = w
        /\ UNCHANGED <<stamp, life>> /\ StateAfter(life) \in MachineState
    BY Knows DEF TakeRow, RowIsUntaken
  <1>2. /\ a \in Acts /\ a.phase = "holding" /\ a.saw = StateAfter(life) /\ a.kind = act[w].kind
        /\ a.by = act[w].by /\ a.at = act[w].at /\ a.crossed = act[w].crossed
    BY <1>1 DEF Acts
  <1>3. act' = [act EXCEPT ![w] = a]
    BY Knows DEF TakeRow
  <1> HIDE DEF a
  <1>4. act'[w] = a
    BY <1>3, Knows
  <1>5. StateAfter(life)' = StateAfter(life)
    BY <1>1 DEF StateAfter
  <1>6. ActKept(w)'
    BY <1>1, <1>2, <1>4, <1>5 DEF ActKept
  <1>7. \A v \in Acting \ {w} : holder' = v <=> holder = v
    BY <1>1, Knows
  <1>8. QED
    BY <1>1, <1>2, <1>3, <1>6, <1>7, Knows, OneMoves

\* Whoever held the row lets it go, and nobody else moves.
LEMMA RowIsLetGo ==
    ASSUME LifeInv, NEW w \in Acting, act[w].phase = "holding", act' = [act EXCEPT ![w] = NoAct], holder' = Nobody,
           UNCHANGED stamp, life' \in Seq(LifeEvents), ToldAsItIs'
    PROVE  LifeInv'
  <1>1. /\ holder = w /\ act'[w] = NoAct /\ act' \in [Acting -> Acts] /\ \A v \in Acting \ {w} : act'[v] = act[v]
    BY NoActIsKept, Knows DEF ActKept
  <1>2. LifeTypes'
    BY <1>1, Knows DEF LifeTypes
  <1>3. ASSUME NEW v \in Acting PROVE ActKept(v)'
    <2>1. CASE v = w
      BY <1>1, <2>1, NoActIsKept, Knows DEF ActKept
    <2>2. CASE v # w
      <3>1. act'[v] = act[v] /\ act[v].phase # "holding" /\ ActKept(v) /\ holder' # v
        BY <1>1, <2>2, Knows DEF ActKept
      <3>2. QED
        BY <3>1 DEF ActKept
    <2>3. QED
      BY <2>1, <2>2
  <1>4. QED
    BY <1>2, <1>3 DEF LifeInv

LEMMA AllowedMoves ==
    ASSUME NEW state \in MachineState, NEW e \in LifeEvents, e.kind \in OwnerActions,
           e.by = "owner" => state \in Allowed[e.kind], e.by = "operator" => e.kind = "stop",
           e.by # "rules", e.to = Moved(state, e.kind)
    PROVE  Follow(state, e) = e.to
  <1>1. CASE e.by = "operator"
    BY <1>1 DEF Follow, Moved
  <1>2. CASE e.by = "owner"
    <2>1. \/ e.kind = "fund" /\ state \in {"ready", "running", "paused"}
          \/ e.kind = "start" /\ state \in {"ready", "paused"}
          \/ e.kind = "pause" /\ state = "running"
          \/ e.kind = "resume" /\ state = "paused"
          \/ e.kind = "stop" /\ state \in {"ready", "running", "paused"}
          \/ e.kind = "retune" /\ state = "paused"
      BY <1>2 DEF Allowed, OwnerActions
    <2>2. QED
      BY <2>1 DEF Follow, Moved
  <1>3. QED
    BY <1>1, <1>2 DEF LifeEvents

LEMMA WriteActKeeps == ASSUME LifeInv, NEW w \in Acting, WriteAct(w) PROVE LifeInv'
  <1> DEFINE a == act[w]
             e == LifeEvent(a.kind, a.at, a.by, Moved(a.saw, a.kind), a.crossed)
  <1>1. /\ a \in Acts /\ a.phase = "holding" /\ ActKept(w) /\ holder' = Nobody /\ UNCHANGED stamp
        /\ act' = [act EXCEPT ![w] = NoAct]
    BY Knows DEF WriteAct
  <1>2. CASE life' = life
    <2>1. ToldAsItIs'
      BY <1>2 DEF LifeInv, ToldAsItIs, CommittedAsBegun
    <2>2. QED
      BY <1>1, <1>2, <2>1, Knows, RowIsLetGo
  <1>3. CASE life' = Append(life, e) /\ (a.by = "owner" => a.saw \in Allowed[a.kind])
    <2>1. Moved(a.saw, a.kind) \in MachineState
      BY <1>1 DEF Moved, MachineState, Acts
    <2>2. /\ e \in LifeEvents /\ e.kind = a.kind /\ e.by = a.by /\ e.to = Moved(a.saw, a.kind)
          /\ e.crossed = a.crossed
      BY <1>1, <2>1 DEF LifeEvent, LifeEvents, Acts, ActKept
    <2> HIDE DEF e
    <2>3. TellsTruly(e)
      <3> SUFFICES ASSUME ~e.crossed PROVE Follow(StateAfter(life), e) = e.to /\ e.by # "rules"
        BY DEF TellsTruly
      <3>1. a.saw = StateAfter(life) /\ a.by # "rules" /\ a.kind \in OwnerActions /\ StateAfter(life) \in MachineState
            /\ (a.by = "operator" => a.kind = "stop")
        BY <1>1, <2>2, Knows DEF ActKept, Acts
      <3>2. QED
        BY <1>3, <2>2, <3>1, AllowedMoves
    <2>4. ToldAsItIs' /\ life' \in Seq(LifeEvents)
      BY <1>3, <2>2, <2>3, WritingTells DEF LifeInv
    <2>5. QED
      BY <1>1, <2>4, RowIsLetGo
  <1>4. QED
    BY <1>2, <1>3 DEF WriteAct

LEMMA WritePauseKeeps == ASSUME LifeInv, NEW w \in Acting, WritePause(w) PROVE LifeInv'
  <1> DEFINE e == LifeEvent("pause", act[w].at, "rules", "paused", FALSE)
  <1>1. act[w] \in Acts /\ act[w].phase = "writing" /\ ActKept(w) /\ holder # w /\ life' = Append(life, e)
        /\ UNCHANGED <<stamp, holder>>
    BY Knows DEF WritePause, ActKept
  <1>2. e \in LifeEvents /\ e.kind = "pause" /\ e.by = "rules"
    BY <1>1 DEF LifeEvent, LifeEvents, OwnerActions, MachineState, ActKept
  <1> HIDE DEF e
  <1>3. TellsTruly(e)
    <2>1. Follow(StateAfter(life), e) # "running"
      BY <1>2, Knows DEF Follow, MachineState
    <2>2. QED
      BY <1>2, <2>1 DEF TellsTruly
  <1>4. ToldAsItIs' /\ life' \in Seq(LifeEvents)
    BY <1>1, <1>2, <1>3, WritingTells DEF LifeInv
  <1>5. ASSUME NEW v \in Acting, v # w
        PROVE  \E f \in BOOLEAN : /\ act'[v] = [act[v] EXCEPT !.crossed = f] /\ (v = holder => f)
                                  /\ (v # holder => f = act[v].crossed)
    <2> DEFINE f == act[v].crossed \/ v = holder
    <2>1. act[v].crossed \in BOOLEAN
      BY Knows DEF Acts
    <2>2. act'[v] = [act[v] EXCEPT !.crossed = f]
      BY <1>5 DEF WritePause
    <2>3. f \in BOOLEAN /\ (v = holder => f) /\ (v # holder => f = act[v].crossed)
      BY <2>1
    <2>4. QED
      BY <2>2, <2>3
  <1>6. act'[w] = NoAct /\ DOMAIN act' = Acting
    BY DEF WritePause
  <1>7. ASSUME NEW v \in Acting PROVE act'[v] \in Acts /\ ActKept(v)'
    <2>1. CASE v = w
      BY <1>1, <1>6, <2>1, NoActIsKept DEF ActKept
    <2>2. CASE v # w
      <3>1. PICK f \in BOOLEAN : /\ act'[v] = [act[v] EXCEPT !.crossed = f] /\ (v = holder => f)
                                 /\ (v # holder => f = act[v].crossed)
        BY <1>5, <2>2
      <3>2. act[v] \in Acts /\ ActKept(v)
        BY Knows
      <3>3. /\ act'[v] \in Acts /\ act'[v].phase = act[v].phase /\ act'[v].kind = act[v].kind
            /\ act'[v].by = act[v].by /\ act'[v].at = act[v].at /\ act'[v].crossed = f
        BY <3>1, <3>2 DEF Acts
      <3>4. QED
        BY <1>1, <3>1, <3>2, <3>3 DEF ActKept
    <2>3. QED
      BY <2>1, <2>2
  <1>8. act' \in [Acting -> Acts]
    BY <1>6, <1>7 DEF WritePause
  <1>9. LifeTypes'
    BY <1>1, <1>4, <1>8, Knows DEF LifeTypes
  <1>10. QED
    BY <1>4, <1>7, <1>9 DEF LifeInv

LEMMA GiveUpActKeeps == ASSUME LifeInv, NEW w \in Acting, GiveUpAct(w) PROVE LifeInv'
  <1>1. /\ act' = [act EXCEPT ![w] = NoAct] /\ UNCHANGED <<stamp, life>> /\ act'[w] = NoAct
        /\ holder' = (IF holder = w THEN Nobody ELSE holder)
    BY Knows DEF GiveUpAct
  <1>2. /\ holder' \in Acting \cup {Nobody} /\ holder' # w /\ \A v \in Acting \ {w} : holder' = v <=> holder = v
    BY <1>1, Knows
  <1>3. ActKept(w)'
    BY <1>1, <1>2, NoActIsKept DEF ActKept
  <1>4. QED
    BY <1>1, <1>2, <1>3, NoActIsKept, Knows, OneMoves

LEMMA NextLifeInv == LifeInv /\ [LifecycleNext]_lifecycleVars => LifeInv'
  <1> SUFFICES ASSUME LifeInv, [LifecycleNext]_lifecycleVars PROVE LifeInv'
    OBVIOUS
  <1>1. CASE UNCHANGED lifecycleVars
    <2>1. UNCHANGED <<stamp, life, holder, act>>
      BY <1>1 DEF lifecycleVars
    <2>2. StateAfter(life)' = StateAfter(life)
      BY <2>1 DEF StateAfter
    <2>3. QED
      BY <2>1, <2>2 DEF LifeInv, LifeTypes, ActKept, ToldAsItIs, CommittedAsBegun
  <1>2. ASSUME NEW w \in Acting, NEW action \in OwnerActions, ActOnMachine(w, action) PROVE LifeInv'
    BY <1>2, BeginActKeeps DEF ActOnMachine
  <1>3. ASSUME NEW w \in Acting, PauseMachine(w) PROVE LifeInv'
    <2>1. BeginAct(w, "pause", "rules", "writing") /\ "pause" \in OwnerActions
      BY <1>3 DEF PauseMachine, OwnerActions
    <2>2. QED
      BY <2>1, BeginActKeeps
  <1>4. ASSUME NEW w \in Acting, StopEveryMachine(w) PROVE LifeInv'
    <2>1. BeginAct(w, "stop", "operator", "begun") /\ "stop" \in OwnerActions
      BY <1>4 DEF StopEveryMachine, OwnerActions
    <2>2. QED
      BY <2>1, BeginActKeeps
  <1>5. QED
    BY <1>1, <1>2, <1>3, <1>4, FindRunningKeeps, TakeRowKeeps, WriteActKeeps, WritePauseKeeps, GiveUpActKeeps
       DEF LifecycleNext

LEMMA LifeInvHolds == LifecycleSpec => []LifeInv
  BY InitLifeInv, NextLifeInv, PTL DEF LifecycleSpec

LEMMA LifeInvIsTyped == LifeInv => LifecycleTypeOK
  <1> SUFFICES ASSUME LifeInv PROVE LifecycleTypeOK
    OBVIOUS
  <1>1. \A i \in DOMAIN life : life[i] \in LifeEvents
    BY DEF LifeInv, LifeTypes
  <1>2. \A w \in Acting : act[w] \in Acts /\ ActKept(w)
    BY Knows
  <1>3. QED
    BY <1>1, <1>2 DEF LifeInv, LifeTypes, LifecycleTypeOK, LifeEvents, Acts, ActKept

(* Stopped is final, and there is no way back (lifecycle.ts:12-14): in     *)
(* whatever order changes commit and are replayed, a machine whose record  *)
(* has a stop is stopped to everybody who reads it.                        *)
THEOREM StoppedForGood == LifecycleSpec => []StoppedIsFinal
  BY LifeInvHolds, StopIsFinal, PTL DEF LifeInv

(* The strict half, which tells an owner what his change did, and the      *)
(* forgiving half, which reads it out of the record, agree (lifecycle.ts:  *)
(* 4-6) as long as the record's two orders do and the rules did not pause  *)
(* the machine in between.                                                 *)
THEOREM OwnersAreToldTheRecord == LifecycleSpec => []ToldAsItIs
  BY LifeInvHolds, PTL DEF LifeInv

-----------------------------------------------------------------------------
(* One machine's budget: what its events make of it.                       *)

Entries ==
    [kind : {"granted", "intended", "completed", "failed"}, at : 0 .. MaxBegun, trade : Trades \cup {NoTrade},
     side : Side, amount : Nat, got : Nat]

HoldRow == [trade : Trades \cup {NoTrade}, side : Side, reserved : Nat]

HeldIn(held) == MapThenSumSet(LAMBDA h : h.reserved, held)

Budgets == [granted : Nat, reserved : Nat, settled : Nat, held : SUBSET HoldRow]

\* What BudgetIsWhole asks of a budget, and that no trade holds twice.
WholeBudgets ==
    {b \in Budgets :
        /\ IsFiniteSet(b.held) /\ b.reserved = HeldIn(b.held) /\ b.reserved + b.settled <= b.granted
        /\ \A g, h \in b.held : g.trade = h.trade => g = h}

LEMMA HeldSums ==
    ASSUME NEW held \in SUBSET HoldRow, IsFiniteSet(held)
    PROVE  /\ HeldIn(held) \in Int /\ HeldIn({}) = 0
           /\ \A h \in held : HeldIn(held) = h.reserved + HeldIn(held \ {h}) /\ HeldIn(held \ {h}) \in Int
  <1> DEFINE c == [h \in HoldRow |-> h.reserved]
  <1>1. ASSUME NEW some \in SUBSET HoldRow PROVE HeldIn(some) = SumOver(c, some)
    <2> DEFINE One(f) == [s \in SUBSET some |->
                             IF s = {} THEN 0 ELSE LET x == CHOOSE x \in s : TRUE IN x.reserved + f[s \ {x}]]
               Other(f) == [s \in SUBSET some |->
                               IF s = {} THEN 0 ELSE LET x == CHOOSE x \in s : TRUE IN c[x] + f[s \ {x}]]
    <2>1. HeldIn(some) = (CHOOSE f : f = One(f))[some]
      BY DEF HeldIn, MapThenSumSet, MapThenFoldSet
    <2>2. SumOver(c, some) = (CHOOSE f : f = Other(f))[some]
      BY DEF SumOver, MapThenSumSet, MapThenFoldSet
    <2>3. ASSUME NEW f PROVE One(f) = Other(f)
      <3>1. ASSUME NEW s \in SUBSET some, s # {}
            PROVE  (CHOOSE x \in s : TRUE).reserved = c[CHOOSE x \in s : TRUE]
        <4>1. (CHOOSE x \in s : TRUE) \in s
          BY <3>1
        <4>2. QED
          BY <4>1
      <3> HIDE DEF c
      <3>2. QED
        BY <3>1
    <2> HIDE DEF One, Other
    <2>4. (CHOOSE f : f = One(f)) = (CHOOSE f : f = Other(f))
      BY <2>3
    <2>5. QED
      BY <2>1, <2>2, <2>4
  <1>2. ASSUME NEW h \in HoldRow PROVE c[h] \in Int /\ c[h] = h.reserved
    BY DEF HoldRow
  <1> HIDE DEF c
  <1>3. HeldIn({}) = 0 /\ HeldIn(held) \in Int
    <2>1. HeldIn({}) = 0
      BY <1>1, SumOfNothing
    <2>2. CASE held = {}
      BY <2>1, <2>2
    <2>3. CASE held # {}
      <3>1. PICK h \in held : TRUE
        BY <2>3
      <3>2. SumOver(c, held) \in Int
        BY <1>2, <3>1, SumOfOneMore
      <3>3. QED
        BY <1>1, <2>1, <3>2
    <2>4. QED
      BY <2>1, <2>2, <2>3
  <1>4. ASSUME NEW h \in held
        PROVE  HeldIn(held) = h.reserved + HeldIn(held \ {h}) /\ HeldIn(held \ {h}) \in Int
    <2>1. /\ SumOver(c, held) = c[h] + SumOver(c, held \ {h}) /\ SumOver(c, held \ {h}) \in Int
      BY <1>2, SumOfOneMore
    <2>2. HeldIn(held) = SumOver(c, held) /\ HeldIn(held \ {h}) = SumOver(c, held \ {h})
      BY <1>1
    <2>3. QED
      BY <1>2, <2>1, <2>2
  <1>5. QED
    BY <1>3, <1>4

\* A set of holds never adds up to less than nothing.
LEMMA HeldIsNat == ASSUME NEW held \in SUBSET HoldRow, IsFiniteSet(held) PROVE HeldIn(held) \in Nat
  <1> DEFINE wrong == {n \in Nat : \E s \in SUBSET held : Cardinality(s) = n /\ HeldIn(s) \notin Nat}
  <1>1. wrong = {}
    <2> SUFFICES ASSUME wrong # {} PROVE FALSE
      OBVIOUS
    <2>1. PICK m \in wrong : \A n \in wrong : m <= n
      BY LeastOf
    <2>2. PICK s \in SUBSET held : Cardinality(s) = m /\ HeldIn(s) \notin Nat
      BY <2>1
    <2>3. IsFiniteSet(s) /\ s \in SUBSET HoldRow
      BY <2>2, FS_Subset
    <2>4. s # {}
      <3>1. HeldIn({}) = 0
        BY <2>3, HeldSums
      <3>2. QED
        BY <2>2, <3>1
    <2>5. PICK k \in s : TRUE
      BY <2>4
    <2>6. HeldIn(s) = k.reserved + HeldIn(s \ {k}) /\ k.reserved \in Nat
      BY <2>3, <2>5, HeldSums DEF HoldRow
    <2>7. Cardinality(s \ {k}) = m - 1 /\ m - 1 \in Nat
      <3>1. Cardinality(s \ {k}) = Cardinality(s) - 1 /\ IsFiniteSet(s \ {k})
        BY <2>3, <2>5, FS_RemoveElement
      <3>2. Cardinality(s \ {k}) \in Nat
        BY <3>1, FS_CardinalityType
      <3>3. QED
        BY <2>2, <3>1, <3>2
    <2>8. HeldIn(s \ {k}) \in Nat
      BY <2>1, <2>7
    <2>9. QED
      BY <2>2, <2>6, <2>8
  <1>2. Cardinality(held) \in Nat
    BY FS_CardinalityType
  <1>3. QED
    BY <1>1, <1>2

LEMMA OneHold ==
    ASSUME NEW b \in WholeBudgets, NEW t
    PROVE  /\ HoldOf(b, t) \subseteq b.held /\ \A g, h \in HoldOf(b, t) : g = h
           /\ b.granted \in Nat /\ b.reserved \in Nat /\ b.settled \in Nat /\ b.held \in SUBSET HoldRow
           /\ b.reserved = HeldIn(b.held) /\ b.reserved + b.settled <= b.granted /\ IsFiniteSet(b.held)
           /\ Available(b) \in Nat /\ b \in Budgets
  <1>1. b \in Budgets /\ b.reserved + b.settled <= b.granted
    BY DEF WholeBudgets
  <1>2. b.granted \in Nat /\ b.reserved \in Nat /\ b.settled \in Nat /\ b.held \in SUBSET HoldRow
    BY <1>1 DEF Budgets
  <1>3. Available(b) \in Nat
    BY <1>1, <1>2 DEF Available
  <1>4. QED
    BY <1>1, <1>2, <1>3 DEF WholeBudgets, HoldOf

\* Letting go never finds less reserved than it lets go.
LEMMA LetGoIsWhole ==
    ASSUME NEW b \in WholeBudgets, NEW h \in b.held
    PROVE  /\ LetGo(b, h) \in WholeBudgets /\ h \in HoldRow /\ h.reserved \in Nat
           /\ LetGo(b, h).granted = b.granted /\ LetGo(b, h).settled = b.settled
           /\ LetGo(b, h).reserved = b.reserved - h.reserved /\ LetGo(b, h).held = b.held \ {h}
           /\ h.reserved <= b.reserved
  <1>1. /\ b.granted \in Nat /\ b.reserved \in Nat /\ b.settled \in Nat /\ b.held \in SUBSET HoldRow
        /\ b.reserved = HeldIn(b.held) /\ b.reserved + b.settled <= b.granted /\ IsFiniteSet(b.held) /\ b \in Budgets
    BY OneHold
  <1>2. h \in HoldRow /\ h.reserved \in Nat
    BY <1>1 DEF HoldRow
  <1>3. IsFiniteSet(b.held \ {h}) /\ b.held \ {h} \in SUBSET HoldRow
    BY <1>1, FS_RemoveElement
  <1>4. HeldIn(b.held) = h.reserved + HeldIn(b.held \ {h})
    BY <1>1, HeldSums
  <1>5. HeldIn(b.held \ {h}) \in Nat
    BY <1>1, <1>3, HeldIsNat
  <1>6. /\ LetGo(b, h).granted = b.granted /\ LetGo(b, h).settled = b.settled
        /\ LetGo(b, h).reserved = b.reserved - h.reserved /\ LetGo(b, h).held = b.held \ {h}
        /\ LetGo(b, h) \in [granted : Nat, reserved : Int, settled : Nat, held : SUBSET HoldRow]
    <2>1. b.reserved - h.reserved \in Int /\ b.held \ {h} \in SUBSET HoldRow
      BY <1>1, <1>2
    <2>2. LetGo(b, h) = [b EXCEPT !.reserved = b.reserved - h.reserved, !.held = b.held \ {h}]
      BY <1>1, <1>2 DEF LetGo, Budgets
    <2>3. PICK r \in Int, some \in SUBSET HoldRow :
              LetGo(b, h) = [b EXCEPT !.reserved = r, !.held = some] /\ r = b.reserved - h.reserved /\ some = b.held \ {h}
      BY <2>1, <2>2
    <2>4. QED
      BY <1>1, <2>3 DEF Budgets
  <1>7. b.reserved - h.reserved \in Nat /\ b.reserved - h.reserved = HeldIn(b.held \ {h})
    BY <1>1, <1>2, <1>4, <1>5
  <1>8. LetGo(b, h) \in Budgets
    BY <1>6, <1>7 DEF Budgets
  <1>9. b.reserved - h.reserved + b.settled <= b.granted /\ h.reserved <= b.reserved
    BY <1>1, <1>2, <1>7
  <1>10. \A f, g \in b.held : f.trade = g.trade => f = g
    BY DEF WholeBudgets
  <1>11. LetGo(b, h) \in WholeBudgets
    BY <1>3, <1>6, <1>7, <1>8, <1>9, <1>10 DEF WholeBudgets
  <1>12. QED
    BY <1>2, <1>6, <1>9, <1>11

\* What else a budget has settled changes nothing of what it holds.
LEMMA SettledIsWhole ==
    ASSUME NEW b \in WholeBudgets, NEW s \in Nat, b.reserved + s <= b.granted
    PROVE  /\ [b EXCEPT !.settled = s] \in WholeBudgets /\ [b EXCEPT !.settled = s].settled = s
           /\ [b EXCEPT !.settled = s].granted = b.granted /\ [b EXCEPT !.settled = s].reserved = b.reserved
           /\ [b EXCEPT !.settled = s].held = b.held
  <1>1. PICK c : c = [b EXCEPT !.settled = s]
    OBVIOUS
  <1>2. b \in Budgets
    BY OneHold
  <1>3. c \in Budgets /\ c.settled = s /\ c.granted = b.granted /\ c.reserved = b.reserved /\ c.held = b.held
    BY <1>1, <1>2 DEF Budgets
  <1>4. c \in WholeBudgets
    BY <1>3 DEF WholeBudgets
  <1>5. QED
    BY <1>1, <1>3, <1>4

LEMMA SetGrantIsWhole ==
    ASSUME NEW b \in WholeBudgets, NEW to \in Nat
    PROVE  SetGrant(b, to) \in WholeBudgets /\ SetGrant(b, to).settled = b.settled /\ SetGrant(b, to).held = b.held
  <1>1. PICK c : c = SetGrant(b, to)
    OBVIOUS
  <1>2. b \in Budgets /\ b.reserved \in Nat /\ b.settled \in Nat
    BY OneHold
  <1>3. Larger(to, b.reserved + b.settled) \in Nat /\ b.reserved + b.settled <= Larger(to, b.reserved + b.settled)
    BY <1>2 DEF Larger
  <1>4. /\ c \in Budgets /\ c.settled = b.settled /\ c.reserved = b.reserved /\ c.held = b.held
        /\ c.granted = Larger(to, b.reserved + b.settled)
    BY <1>1, <1>2, <1>3 DEF SetGrant, Budgets
  <1>5. c \in WholeBudgets
    BY <1>3, <1>4 DEF WholeBudgets
  <1>6. QED
    BY <1>1, <1>4, <1>5

WantedBy(e) == Wanted(e.side, e.amount)
HoldFor(e) == [trade |-> e.trade, side |-> e.side, reserved |-> WantedBy(e)]

\* A trade repeats what is held, or leaves the others what they hold.
Fits(b, e) == HoldOf(b, e.trade) # {} \/ WantedBy(e) <= Available(b)

\* A trade that fits is held, whatever else is asked.
With(b, e) ==
    IF HoldOf(b, e.trade) # {} THEN b
    ELSE [b EXCEPT !.reserved = b.reserved + WantedBy(e), !.held = b.held \cup {HoldFor(e)}]

LEMMA ReserveIsWith ==
    ASSUME NEW b \in WholeBudgets, NEW e \in Entries
    PROVE  /\ WantedBy(e) \in Nat /\ HoldFor(e) \in HoldRow
           /\ Reserve(b, e.trade, e.side, e.amount) = IF Fits(b, e) THEN With(b, e) ELSE b
  <1>1. WantedBy(e) \in Nat
    BY LedgerAssumption DEF WantedBy, Wanted, Entries
  <1>2. HoldFor(e) \in HoldRow
    BY <1>1 DEF HoldFor, HoldRow, Entries
  <1>3. Available(b) \in Nat /\ b \in Budgets
    BY OneHold
  <1>4. PICK x : x = [b EXCEPT !.reserved = b.reserved + WantedBy(e), !.held = b.held \cup {HoldFor(e)}]
    OBVIOUS
  <1>5. [b EXCEPT !.reserved = @ + WantedBy(e), !.held = @ \cup {HoldFor(e)}] = x
    BY <1>3, <1>4 DEF Budgets
  <1>6. Reserve(b, e.trade, e.side, e.amount)
           = IF HoldOf(b, e.trade) # {} \/ WantedBy(e) > Available(b) THEN b
             ELSE [b EXCEPT !.reserved = @ + WantedBy(e), !.held = @ \cup {HoldFor(e)}]
    BY Zenon DEF Reserve, WantedBy, HoldFor
  <1>7. Reserve(b, e.trade, e.side, e.amount)
           = IF HoldOf(b, e.trade) # {} \/ WantedBy(e) > Available(b) THEN b ELSE x
    BY <1>5, <1>6
  <1>8. With(b, e) = IF HoldOf(b, e.trade) # {} THEN b ELSE x
    BY <1>4 DEF With
  <1>9. QED
    BY <1>1, <1>2, <1>3, <1>7, <1>8 DEF Fits

\* What With gives, where nothing is held for the trade.
LEMMA WithHolds ==
    ASSUME NEW b \in WholeBudgets, NEW e \in Entries, HoldOf(b, e.trade) = {}
    PROVE  /\ With(b, e).granted = b.granted /\ With(b, e).settled = b.settled
           /\ With(b, e).reserved = b.reserved + WantedBy(e) /\ With(b, e).held = b.held \cup {HoldFor(e)}
           /\ Available(With(b, e)) = Available(b) - WantedBy(e)
           /\ WantedBy(e) <= Available(b) => With(b, e) \in WholeBudgets
           /\ \A t : HoldOf(With(b, e), t) = HoldOf(b, t) \cup IF t = e.trade THEN {HoldFor(e)} ELSE {}
           /\ HoldFor(e) \notin b.held
  <1>1. PICK c : c = With(b, e)
    OBVIOUS
  <1>2. /\ b \in Budgets /\ b.granted \in Nat /\ b.reserved \in Nat /\ b.settled \in Nat /\ b.held \in SUBSET HoldRow
        /\ IsFiniteSet(b.held) /\ b.reserved = HeldIn(b.held) /\ b.reserved + b.settled <= b.granted
    BY OneHold
  <1>3. WantedBy(e) \in Nat /\ HoldFor(e) \in HoldRow /\ HoldFor(e).trade = e.trade /\ HoldFor(e).reserved = WantedBy(e)
    BY ReserveIsWith DEF HoldFor
  <1>4. c = [b EXCEPT !.reserved = b.reserved + WantedBy(e), !.held = b.held \cup {HoldFor(e)}]
    BY <1>1 DEF With
  <1>5. PICK r \in Nat, some \in SUBSET HoldRow :
            c = [b EXCEPT !.reserved = r, !.held = some] /\ r = b.reserved + WantedBy(e) /\ some = b.held \cup {HoldFor(e)}
    <2>1. b.reserved + WantedBy(e) \in Nat /\ b.held \cup {HoldFor(e)} \in SUBSET HoldRow
      BY <1>2, <1>3
    <2>2. QED
      BY <1>4, <2>1
  <1>6. c \in Budgets /\ c.granted = b.granted /\ c.settled = b.settled /\ c.reserved = r /\ c.held = some
    BY <1>2, <1>5 DEF Budgets
  <1>7. Available(c) = Available(b) - WantedBy(e)
    BY <1>2, <1>3, <1>5, <1>6 DEF Available
  <1>8. \A t : HoldOf(c, t) = HoldOf(b, t) \cup IF t = e.trade THEN {HoldFor(e)} ELSE {}
    BY <1>3, <1>5, <1>6 DEF HoldOf
  <1>9. HoldFor(e) \notin b.held
    BY <1>3 DEF HoldOf
  <1>10. ASSUME WantedBy(e) <= Available(b) PROVE c \in WholeBudgets
    <2>1. IsFiniteSet(some)
      BY <1>2, <1>5, FS_AddElement
    <2>2. some \ {HoldFor(e)} = b.held
      BY <1>5, <1>9
    <2>3. HeldIn(some) = WantedBy(e) + HeldIn(b.held)
      BY <1>3, <1>5, <2>1, <2>2, HeldSums
    <2>4. r = HeldIn(some) /\ r + c.settled <= c.granted
      BY <1>2, <1>3, <1>5, <1>6, <1>10, <2>3 DEF Available
    <2>5. \A g, h \in some : g.trade = h.trade => g = h
      <3>1. \A g \in b.held : g.trade # e.trade
        BY DEF HoldOf
      <3>2. \A g, h \in b.held : g.trade = h.trade => g = h
        BY DEF WholeBudgets
      <3>3. QED
        BY <1>3, <1>5, <3>1, <3>2
    <2>6. QED
      BY <1>6, <2>1, <2>4, <2>5 DEF WholeBudgets
  <1>11. QED
    BY <1>1, <1>5, <1>6, <1>7, <1>8, <1>9, <1>10

\* What the end of a trade that holds something leaves of the budget.
LEMMA EndIsWhole ==
    ASSUME NEW b \in WholeBudgets, NEW e \in Entries, e.kind \in {"completed", "failed"}, NEW h \in HoldOf(b, e.trade)
    PROVE  /\ Apply(b, e) \in WholeBudgets /\ Apply(b, e).held = b.held \ {h}
           /\ e.kind = "failed" => Apply(b, e).settled = b.settled
           /\ e.kind = "completed" =>
                 Apply(b, e).settled
                     >= b.settled + Smaller(e.amount, h.reserved) - (IF h.side = "sell" THEN e.got ELSE 0)
  <1> DEFINE c == LetGo(b, h)
             s == c.settled + Smaller(e.amount, h.reserved)
             paid == [c EXCEPT !.settled = s]
  <1>1. h \in b.held /\ HoldOf(b, e.trade) # {} /\ (CHOOSE g \in HoldOf(b, e.trade) : TRUE) = h
    BY OneHold
  <1>2. /\ c \in WholeBudgets /\ c.granted = b.granted /\ c.settled = b.settled /\ c.reserved = b.reserved - h.reserved
        /\ c.held = b.held \ {h} /\ h.reserved <= b.reserved /\ h.reserved \in Nat
    BY <1>1, LetGoIsWhole
  <1>3. /\ b.granted \in Nat /\ b.reserved \in Nat /\ b.settled \in Nat /\ b.reserved + b.settled <= b.granted
        /\ e.amount \in Nat /\ e.got \in Nat
    BY OneHold DEF Entries
  <1>4. Apply(b, e) = IF e.kind = "completed" THEN Settle(b, h, e.amount, e.got) ELSE c
    BY <1>1 DEF Apply
  <1>5. Settle(b, h, e.amount, e.got) = IF h.side = "sell" THEN Credit(paid, e.got) ELSE paid
    BY Zenon, <1>2 DEF Settle
  <1>6. Smaller(e.amount, h.reserved) \in Nat /\ Smaller(e.amount, h.reserved) <= h.reserved /\ s \in Nat
    BY <1>2, <1>3 DEF Smaller
  <1>7. c.reserved + s <= c.granted
    BY <1>2, <1>3, <1>6
  <1> HIDE DEF c, s
  <1>8. /\ paid \in WholeBudgets /\ paid.settled = s /\ paid.granted = c.granted /\ paid.reserved = c.reserved
        /\ paid.held = c.held
    BY <1>2, <1>6, <1>7, SettledIsWhole
  <1> DEFINE left == Larger(paid.settled - e.got, 0)
  <1>9. Credit(paid, e.got) = [paid EXCEPT !.settled = left]
    BY <1>8 DEF Credit
  <1> HIDE DEF paid
  <1>10. left \in Nat /\ left >= s - e.got /\ paid.reserved + left <= paid.granted
    <2>1. left \in Nat /\ left >= s - e.got /\ left <= s
      BY <1>3, <1>6, <1>8 DEF Larger
    <2>2. paid.reserved \in Nat /\ paid.granted \in Nat
      BY <1>8, OneHold
    <2>3. QED
      BY <1>6, <1>7, <1>8, <2>1, <2>2
  <1> HIDE DEF left
  <1>11. Credit(paid, e.got) \in WholeBudgets /\ Credit(paid, e.got).settled = left /\ Credit(paid, e.got).held = c.held
    BY <1>8, <1>9, <1>10, SettledIsWhole
  <1>12. s = b.settled + Smaller(e.amount, h.reserved)
    BY <1>2 DEF s
  <1>13. CASE e.kind = "failed"
    BY <1>2, <1>4, <1>13
  <1>14. CASE e.kind = "completed" /\ h.side = "sell"
    <2>1. Apply(b, e) = Credit(paid, e.got)
      BY <1>4, <1>5, <1>14
    <2>2. QED
      BY <1>2, <1>3, <1>6, <1>10, <1>11, <1>12, <1>14, <2>1
  <1>15. CASE e.kind = "completed" /\ h.side # "sell"
    <2>1. Apply(b, e) = paid
      BY <1>4, <1>5, <1>15
    <2>2. QED
      BY <1>2, <1>3, <1>6, <1>8, <1>12, <1>15, <2>1
  <1>16. QED
    BY <1>13, <1>14, <1>15

LEMMA ApplyIsWhole ==
    ASSUME NEW b \in WholeBudgets, NEW e \in Entries
    PROVE  /\ Apply(b, e) \in WholeBudgets
           /\ e.kind = "granted" => Apply(b, e).held = b.held /\ Apply(b, e).settled = b.settled
           /\ e.kind = "intended" => Apply(b, e) = IF Fits(b, e) THEN With(b, e) ELSE b
  <1>1. CASE e.kind = "granted"
    <2>1. Apply(b, e) = SetGrant(b, e.amount)
      BY <1>1, Zenon DEF Apply
    <2>2. e.amount \in Nat
      BY DEF Entries
    <2>3. QED
      BY <1>1, <2>1, <2>2, SetGrantIsWhole
  <1>2. CASE e.kind = "intended"
    <2>1. Apply(b, e) = IF Fits(b, e) THEN With(b, e) ELSE b
      <3>1. Apply(b, e) = Reserve(b, e.trade, e.side, e.amount)
        BY <1>2, Zenon DEF Apply
      <3>2. QED
        BY <3>1, ReserveIsWith
    <2>2. Fits(b, e) => With(b, e) \in WholeBudgets
      BY WithHolds DEF Fits, With
    <2>3. QED
      BY <1>2, <2>1, <2>2
  <1>3. CASE e.kind \in {"completed", "failed"} /\ HoldOf(b, e.trade) = {}
    BY <1>3 DEF Apply
  <1>4. CASE e.kind \in {"completed", "failed"} /\ HoldOf(b, e.trade) # {}
    <2>1. PICK h \in HoldOf(b, e.trade) : TRUE
      BY <1>4
    <2>2. QED
      BY <1>4, <2>1, EndIsWhole
  <1>5. QED
    BY <1>1, <1>2, <1>3, <1>4 DEF Entries

ApplyStep == [p \in WholeBudgets \X Entries |-> Apply(p[1], p[2])]

LEMMA ApplyIsTyped ==
    /\ NewBudget \in WholeBudgets /\ ApplyStep \in [WholeBudgets \X Entries -> WholeBudgets]
    /\ \A b \in WholeBudgets, e \in Entries : ApplyStep[b, e] = Apply(b, e)
  <1>1. NewBudget \in WholeBudgets
    <2>1. IsFiniteSet({}) /\ HeldIn({}) = 0
      BY FS_EmptySet, HeldSums
    <2>2. QED
      BY <2>1 DEF NewBudget, WholeBudgets, Budgets
  <1>2. QED
    BY <1>1, ApplyIsWhole DEF ApplyStep

LEMMA ApplyFolds ==
    ASSUME NEW events \in Seq(Entries)
    PROVE  Replay(events) = FoldTo(WholeBudgets, ApplyStep, NewBudget, events)
  <1> DEFINE Step(f) == [s \in SUBSET DOMAIN events |->
                            IF s = {} THEN NewBudget ELSE Apply(f[s \ {Max(s)}], events[Max(s)])]
             iter == CHOOSE f : f = Step(f)
  <1>1. Replay(events) = iter[DOMAIN events]
    BY DEF Replay, FoldLeft, MapThenFoldSet
  <1>2. PICK F : IsFold(F, WholeBudgets, ApplyStep, NewBudget, events)
    BY ApplyIsTyped, FoldsExist
  <1>3. \A s \in SUBSET DOMAIN events : s # {} => F[s] = Apply(F[s \ {Max(s)}], events[Max(s)])
    <2> SUFFICES ASSUME NEW s \in SUBSET DOMAIN events, s # {}
                 PROVE  F[s] = Apply(F[s \ {Max(s)}], events[Max(s)])
      OBVIOUS
    <2>1. F[s \ {Max(s)}] \in WholeBudgets /\ events[Max(s)] \in Entries
      BY <1>2, PlacesOfAll DEF IsFold
    <2>2. F[s] = ApplyStep[F[s \ {Max(s)}], events[Max(s)]]
      BY <1>2 DEF IsFold
    <2>3. QED
      BY <2>1, <2>2, ApplyIsTyped
  <1>4. F = Step(F)
    <2>1. F \in [SUBSET DOMAIN events -> WholeBudgets] /\ F[{}] = NewBudget
      BY <1>2 DEF IsFold
    <2>2. QED
      BY <1>3, <2>1
  <1>5. iter = Step(iter)
    BY <1>4
  <1> HIDE DEF iter
  <1>6. Alike(iter, F, events)
    BY <1>4, <1>5 DEF Alike
  <1>7. iter[DOMAIN events] = F[DOMAIN events]
    BY <1>6, SameOnAll
  <1>8. FoldTo(WholeBudgets, ApplyStep, NewBudget, events) = F[DOMAIN events] /\ F[DOMAIN events] \in WholeBudgets
    BY <1>2, ApplyIsTyped, TheFold
  <1>9. QED
    BY <1>1, <1>7, <1>8

LEMMA ReplayOfMore ==
    ASSUME NEW events \in Seq(Entries), NEW e \in Entries
    PROVE  /\ Replay(Append(events, e)) = Apply(Replay(events), e)
           /\ Replay(events) \in WholeBudgets /\ Replay(Append(events, e)) \in WholeBudgets
  <1> DEFINE more == Append(events, e)
  <1>1. more \in Seq(Entries)
    OBVIOUS
  <1>2. /\ FoldTo(WholeBudgets, ApplyStep, NewBudget, more)
              = ApplyStep[FoldTo(WholeBudgets, ApplyStep, NewBudget, events), e]
        /\ FoldTo(WholeBudgets, ApplyStep, NewBudget, more) \in WholeBudgets
        /\ FoldTo(WholeBudgets, ApplyStep, NewBudget, events) \in WholeBudgets
    BY ApplyIsTyped, FoldOfOneMore
  <1> HIDE DEF more
  <1>3. /\ Replay(more) = FoldTo(WholeBudgets, ApplyStep, NewBudget, more)
        /\ Replay(events) = FoldTo(WholeBudgets, ApplyStep, NewBudget, events)
    BY <1>1, ApplyFolds
  <1>4. QED
    BY <1>2, <1>3, ApplyIsTyped DEF more

LEMMA ReplayOfNone == Replay(<<>>) = NewBudget
  <1> DEFINE none == <<>>
  <1>1. none \in Seq(Entries)
    OBVIOUS
  <1>2. FoldTo(WholeBudgets, ApplyStep, NewBudget, none) = NewBudget
    BY ApplyIsTyped, FoldOfNothing
  <1> HIDE DEF none
  <1>3. Replay(none) = NewBudget
    BY <1>1, <1>2, ApplyFolds
  <1>4. QED
    BY <1>3 DEF none

LEMMA ReplayIsWhole == ASSUME NEW events \in Seq(Entries) PROVE Replay(events) \in WholeBudgets
  <1> DEFINE n == Len(events)
  <1>1. CASE n = 0
    <2>1. events = <<>>
      BY <1>1, EmptySeq
    <2>2. QED
      BY <2>1, ReplayOfNone, ApplyIsTyped
  <1>2. CASE n # 0
    <2>1. n \in 1 .. Len(events)
      BY <1>2
    <2> DEFINE most == SubSeq(events, 1, n - 1)
    <2>2. most \in Seq(Entries) /\ events[n] \in Entries /\ events = Append(most, events[n])
      BY <2>1, PrefixGrows
    <2> HIDE DEF most
    <2>3. QED
      BY <2>2, ReplayOfMore
  <1>3. QED
    BY <1>1, <1>2

-----------------------------------------------------------------------------
(* Two holds may change places.                                            *)

At(events, k) == Replay(SubSeq(events, 1, k))

LEMMA AtIsWhole ==
    ASSUME NEW events \in Seq(Entries), NEW k \in 0 .. Len(events)
    PROVE  At(events, k) \in WholeBudgets /\ At(events, Len(events)) = Replay(events)
  <1>1. SubSeq(events, 1, k) \in Seq(Entries) /\ SubSeq(events, 1, Len(events)) = events
    OBVIOUS
  <1>2. QED
    BY <1>1, ReplayIsWhole DEF At

LEMMA AtTheNext ==
    ASSUME NEW events \in Seq(Entries), NEW k \in 1 .. Len(events)
    PROVE  /\ At(events, k) = Apply(At(events, k - 1), events[k]) /\ events[k] \in Entries
           /\ At(events, k - 1) \in WholeBudgets /\ At(events, k) \in WholeBudgets
  <1> DEFINE most == SubSeq(events, 1, k - 1)
  <1>1. most \in Seq(Entries) /\ events[k] \in Entries /\ SubSeq(events, 1, k) = Append(most, events[k])
    BY PrefixGrows
  <1>2. At(events, k - 1) = Replay(most)
    BY DEF At
  <1> HIDE DEF most
  <1>3. QED
    BY <1>1, <1>2, ReplayOfMore DEF At

\* A trade is asked about in the same words each time.
SameTrade(x, e) == x.trade = e.trade => x.side = e.side /\ x.amount = e.amount

LEMMA FitsBefore ==
    ASSUME NEW b \in WholeBudgets, NEW x \in Entries, NEW e \in Entries, SameTrade(x, e), Fits(b, x),
           Fits(With(b, x), e)
    PROVE  Fits(b, e)
  <1>1. CASE HoldOf(b, x.trade) # {}
    BY <1>1 DEF With
  <1>2. CASE HoldOf(b, x.trade) = {}
    <2>1. /\ Available(With(b, x)) = Available(b) - WantedBy(x) /\ WantedBy(x) \in Nat /\ WantedBy(e) \in Nat
          /\ HoldOf(With(b, x), e.trade) = HoldOf(b, e.trade) \cup IF e.trade = x.trade THEN {HoldFor(x)} ELSE {}
          /\ Available(b) \in Nat
      BY <1>2, WithHolds, ReserveIsWith, OneHold
    <2>2. CASE x.trade = e.trade
      BY <1>2, <2>2 DEF SameTrade, Fits, WantedBy
    <2>3. CASE x.trade # e.trade
      BY <2>1, <2>3 DEF Fits
    <2>4. QED
      BY <2>2, <2>3
  <1>3. QED
    BY <1>1, <1>2

LEMMA EitherFirst ==
    ASSUME NEW b \in WholeBudgets, NEW x \in Entries, NEW e \in Entries, SameTrade(x, e), Fits(b, x),
           Fits(With(b, x), e)
    PROVE  Fits(With(b, e), x) /\ With(With(b, e), x) = With(With(b, x), e)
  <1>1. Fits(b, e)
    BY FitsBefore
  <1>2. CASE HoldOf(b, e.trade) # {} /\ HoldOf(b, x.trade) # {}
    BY <1>2 DEF With, Fits
  <1>3. CASE HoldOf(b, e.trade) # {} /\ HoldOf(b, x.trade) = {}
    <2>1. HoldOf(With(b, x), e.trade) # {}
      BY <1>3, WithHolds
    <2>2. With(b, e) = b /\ With(With(b, x), e) = With(b, x)
      BY <1>3, <2>1 DEF With
    <2>3. QED
      BY <2>2
  <1>4. CASE HoldOf(b, e.trade) = {} /\ HoldOf(b, x.trade) # {}
    <2>1. HoldOf(With(b, e), x.trade) # {}
      BY <1>4, WithHolds
    <2>2. With(b, x) = b /\ With(With(b, e), x) = With(b, e)
      BY <1>4, <2>1 DEF With
    <2>3. QED
      BY <2>1, <2>2 DEF Fits
  <1>5. CASE HoldOf(b, e.trade) = {} /\ e.trade = x.trade
    <2>1. HoldFor(e) = HoldFor(x) /\ WantedBy(e) = WantedBy(x)
      BY <1>5 DEF HoldFor, WantedBy, SameTrade
    <2>2. With(b, e) = With(b, x) /\ HoldOf(With(b, e), x.trade) # {}
      <3>1. With(b, e) = With(b, x)
        BY <1>5, <2>1 DEF With
      <3>2. HoldFor(e) \in HoldOf(With(b, e), x.trade)
        BY <1>5, WithHolds
      <3>3. QED
        BY <3>1, <3>2
    <2>3. With(With(b, e), x) = With(b, e) /\ With(With(b, x), e) = With(b, x)
      BY <1>5, <2>2 DEF With
    <2>4. QED
      BY <2>2, <2>3 DEF Fits
  <1>6. CASE HoldOf(b, e.trade) = {} /\ HoldOf(b, x.trade) = {} /\ e.trade # x.trade
    <2>1. /\ b.granted \in Nat /\ b.reserved \in Nat /\ b.settled \in Nat /\ Available(b) \in Nat
          /\ WantedBy(e) \in Nat /\ WantedBy(x) \in Nat
      BY OneHold, ReserveIsWith
    <2>2. /\ WantedBy(x) <= Available(b) /\ WantedBy(e) <= Available(b) /\ With(b, x) \in WholeBudgets
          /\ Available(With(b, x)) = Available(b) - WantedBy(x) /\ HoldOf(With(b, x), e.trade) = {}
          /\ With(b, x).granted = b.granted /\ With(b, x).settled = b.settled
          /\ With(b, x).reserved = b.reserved + WantedBy(x) /\ With(b, x).held = b.held \cup {HoldFor(x)}
      BY <1>1, <1>6, WithHolds DEF Fits
    <2>3. /\ With(b, e) \in WholeBudgets
          /\ Available(With(b, e)) = Available(b) - WantedBy(e) /\ HoldOf(With(b, e), x.trade) = {}
          /\ With(b, e).granted = b.granted /\ With(b, e).settled = b.settled
          /\ With(b, e).reserved = b.reserved + WantedBy(e) /\ With(b, e).held = b.held \cup {HoldFor(e)}
      BY <1>6, <2>2, WithHolds
    <2>4. WantedBy(e) <= Available(b) - WantedBy(x)
      BY <2>2 DEF Fits
    <2>5. WantedBy(x) <= Available(With(b, e)) /\ WantedBy(e) <= Available(With(b, x))
      BY <2>1, <2>2, <2>3, <2>4
    <2>6. PICK c : c = With(With(b, e), x)
      OBVIOUS
    <2>7. PICK d : d = With(With(b, x), e)
      OBVIOUS
    <2>8. /\ c \in Budgets /\ c.granted = b.granted /\ c.settled = b.settled
          /\ c.reserved = b.reserved + WantedBy(e) + WantedBy(x) /\ c.held = (b.held \cup {HoldFor(e)}) \cup {HoldFor(x)}
      <3>1. /\ c \in WholeBudgets /\ c.granted = With(b, e).granted /\ c.settled = With(b, e).settled
            /\ c.reserved = With(b, e).reserved + WantedBy(x) /\ c.held = With(b, e).held \cup {HoldFor(x)}
        BY <2>3, <2>5, <2>6, WithHolds
      <3>2. QED
        BY <2>1, <2>3, <3>1, OneHold
    <2>9. /\ d \in Budgets /\ d.granted = b.granted /\ d.settled = b.settled
          /\ d.reserved = b.reserved + WantedBy(x) + WantedBy(e) /\ d.held = (b.held \cup {HoldFor(x)}) \cup {HoldFor(e)}
      <3>1. /\ d \in WholeBudgets /\ d.granted = With(b, x).granted /\ d.settled = With(b, x).settled
            /\ d.reserved = With(b, x).reserved + WantedBy(e) /\ d.held = With(b, x).held \cup {HoldFor(e)}
        BY <2>2, <2>5, <2>7, WithHolds
      <3>2. QED
        BY <2>1, <2>2, <3>1, OneHold
    <2>10. c.reserved = d.reserved /\ c.held = d.held
      BY <2>1, <2>8, <2>9
    <2>11. c = d
      <3>1. c = [granted |-> c.granted, reserved |-> c.reserved, settled |-> c.settled, held |-> c.held]
        BY <2>8 DEF Budgets
      <3>2. d = [granted |-> d.granted, reserved |-> d.reserved, settled |-> d.settled, held |-> d.held]
        BY <2>9 DEF Budgets
      <3>3. c.granted = d.granted /\ c.settled = d.settled
        BY <2>8, <2>9
      <3>4. QED
        BY <2>10, <3>1, <3>2, <3>3
    <2>12. QED
      BY <2>5, <2>6, <2>7, <2>11 DEF Fits
  <1>7. QED
    BY <1>2, <1>3, <1>4, <1>5, <1>6

\* No trade of these was accepted beyond what was left.
Smooth(events) ==
    \A k \in 1 .. Len(events) : events[k].kind = "intended" => Fits(At(events, k - 1), events[k])

LEMMA HoldsChangePlaces ==
    ASSUME NEW events \in Seq(Entries), Smooth(events), NEW e \in Entries, e.kind = "intended",
           NEW p \in 0 .. Len(events),
           \A k \in 1 .. Len(events) : k > p => events[k].kind = "intended" /\ SameTrade(events[k], e),
           Fits(Replay(events), e)
    PROVE  /\ Inserted(events, p, e) \in Seq(Entries) /\ Smooth(Inserted(events, p, e))
           /\ Replay(Inserted(events, p, e)) = With(Replay(events), e)
  <1> DEFINE n == Len(events)
             more == Inserted(events, p, e)
  <1>1. n \in Nat /\ p \in 0 .. n /\ \A k \in 1 .. n : events[k] \in Entries
    OBVIOUS
  <1>2. /\ more \in Seq(Entries) /\ Len(more) = n + 1 /\ more[p + 1] = e
        /\ \A k \in 1 .. p : more[k] = events[k]
        /\ \A k \in p + 1 .. n : more[k + 1] = events[k]
    <2>1. \A k \in 1 .. n + 1 : (IF k <= p THEN events[k] ELSE IF k = p + 1 THEN e ELSE events[k - 1]) \in Entries
      <3> SUFFICES ASSUME NEW k \in 1 .. n + 1
                   PROVE  (IF k <= p THEN events[k] ELSE IF k = p + 1 THEN e ELSE events[k - 1]) \in Entries
        OBVIOUS
      <3>1. (k <= p => k \in 1 .. n) /\ (k > p + 1 => k - 1 \in 1 .. n) /\ k \in Int /\ p \in Int
        BY <1>1
      <3>2. QED
        BY <1>1, <3>1
    <2>2. more \in [1 .. n + 1 -> Entries] /\ n + 1 \in Nat
      BY <1>1, <2>1 DEF Inserted
    <2>3. more \in Seq(Entries) /\ Len(more) = n + 1
      BY <2>2
    <2>4. more[p + 1] = e /\ (\A k \in 1 .. p : more[k] = events[k]) /\ \A k \in p + 1 .. n : more[k + 1] = events[k]
      BY <1>1 DEF Inserted
    <2>5. QED
      BY <2>3, <2>4
  <1> HIDE DEF more
  <1>3. ASSUME NEW k \in 0 .. p PROVE At(more, k) = At(events, k)
    <2>1. SubSeq(more, 1, k) = SubSeq(events, 1, k)
      BY <1>1, <1>2
    <2>2. QED
      BY <2>1 DEF At
  <1>4. \A k \in 0 .. n : At(events, k) \in WholeBudgets
    BY AtIsWhole
  <1>5. ASSUME NEW k \in 1 .. n, k > p
        PROVE  /\ SameTrade(events[k], e) /\ Fits(At(events, k - 1), events[k])
               /\ At(events, k) = With(At(events, k - 1), events[k])
    <2>1. events[k].kind = "intended" /\ SameTrade(events[k], e) /\ Fits(At(events, k - 1), events[k])
      BY <1>5 DEF Smooth
    <2>2. /\ At(events, k) = Apply(At(events, k - 1), events[k]) /\ events[k] \in Entries
          /\ At(events, k - 1) \in WholeBudgets
      BY AtTheNext
    <2>3. QED
      BY <2>1, <2>2, ApplyIsWhole
  <1>6. \A k \in p .. n : Fits(At(events, k), e)
    <2> DEFINE wrong == {m \in Nat : m <= n - p /\ ~Fits(At(events, n - m), e)}
    <2>1. wrong = {}
      <3> SUFFICES ASSUME wrong # {} PROVE FALSE
        OBVIOUS
      <3>1. PICK m \in wrong : \A l \in wrong : m <= l
        BY LeastOf
      <3>2. n - 0 = n /\ m \in Nat /\ m <= n - p /\ ~Fits(At(events, n - m), e)
        BY <1>1, <3>1
      <3>3. m # 0
        BY <3>2, AtIsWhole
      <3> HIDE DEF n
      <3>9. m - 1 \in Nat /\ m - 1 <= n - p /\ ~(m <= m - 1) /\ n - (m - 1) \in 1 .. n /\ n - (m - 1) > p
            /\ (n - (m - 1)) - 1 = n - m /\ n - m \in 0 .. n
        BY <1>1, <3>2, <3>3
      <3>4. m - 1 \in Nat /\ m - 1 <= n - p /\ m - 1 \notin wrong
        BY <3>1, <3>9
      <3>5. PICK k \in 1 .. n : k = n - (m - 1) /\ k > p /\ k - 1 = n - m /\ k - 1 \in 0 .. n
        BY <3>9
      <3>6. Fits(At(events, k), e)
        BY <3>4, <3>5
      <3>7. Fits(At(events, k - 1), e)
        BY <1>1, <1>4, <1>5, <3>5, <3>6, FitsBefore
      <3>8. QED
        BY <3>2, <3>5, <3>7
    <2>2. ASSUME NEW k \in p .. n PROVE Fits(At(events, k), e)
      <3>1. n - k \in Nat /\ n - k <= n - p /\ n - (n - k) = k
        BY <1>1
      <3>2. QED
        BY <2>1, <3>1
    <2>3. QED
      BY <2>2
  <1>7. ASSUME NEW k \in 1 .. n, k > p
        PROVE  /\ Fits(With(At(events, k - 1), e), events[k])
               /\ With(With(At(events, k - 1), e), events[k]) = With(At(events, k), e)
    <2>1. At(events, k - 1) \in WholeBudgets /\ Fits(At(events, k), e) /\ events[k] \in Entries
      BY <1>1, <1>4, <1>6, <1>7
    <2>2. QED
      BY <1>5, <1>7, <2>1, EitherFirst
  <1>8. ASSUME NEW k \in p .. n PROVE With(At(events, k), e) \in WholeBudgets
    <2>1. At(events, k) \in WholeBudgets /\ Fits(At(events, k), e)
      BY <1>1, <1>4, <1>6
    <2>2. QED
      BY <2>1, WithHolds DEF Fits, With
  <1>9. \A k \in p .. n : At(more, k + 1) = With(At(events, k), e)
    <2> DEFINE wrong == {k \in p .. n : At(more, k + 1) # With(At(events, k), e)}
    <2>1. wrong = {}
      <3> SUFFICES ASSUME wrong # {} PROVE FALSE
        OBVIOUS
      <3>1. wrong \in SUBSET Nat
        BY <1>1
      <3>2. PICK k \in wrong : \A l \in wrong : k <= l
        BY <3>1, LeastOf
      <3>3. k \in p .. n /\ At(more, k + 1) # With(At(events, k), e) /\ k + 1 \in 1 .. Len(more) /\ (k + 1) - 1 = k
        BY <1>1, <1>2, <3>2
      <3>4. At(more, k + 1) = Apply(At(more, k), more[k + 1])
        BY <1>2, <3>3, AtTheNext
      <3>5. CASE k = p
        <4>1. At(more, k) = At(events, k) /\ more[k + 1] = e /\ At(events, k) \in WholeBudgets /\ Fits(At(events, k), e)
          BY <1>1, <1>2, <1>3, <1>4, <1>6, <3>5
        <4>2. Apply(At(events, k), e) = With(At(events, k), e)
          BY <4>1, ApplyIsWhole
        <4>3. QED
          BY <3>3, <3>4, <4>1, <4>2
      <3>6. CASE k # p
        <4>1. k \in 1 .. n /\ k > p /\ k - 1 \in p .. n /\ k - 1 \notin wrong /\ (k - 1) + 1 = k /\ k \in p + 1 .. n
          BY <1>1, <3>2, <3>3, <3>6
        <4>2. At(more, k) = With(At(events, k - 1), e)
          BY <4>1
        <4>3. more[k + 1] = events[k] /\ events[k] \in Entries /\ events[k].kind = "intended"
          BY <1>1, <1>2, <4>1
        <4>4. Apply(With(At(events, k - 1), e), events[k]) = With(With(At(events, k - 1), e), events[k])
          BY <1>7, <1>8, <4>1, <4>3, ApplyIsWhole
        <4>5. QED
          BY <1>7, <3>3, <3>4, <4>1, <4>2, <4>3, <4>4
      <3>7. QED
        BY <3>5, <3>6
    <2>2. QED
      BY <2>1
  <1>10. ASSUME NEW k \in 1 .. n + 1, more[k].kind = "intended" PROVE Fits(At(more, k - 1), more[k])
    <2>1. CASE k <= p
      <3>1. k \in 1 .. n /\ k \in 1 .. p /\ k - 1 \in 0 .. p
        BY <1>1, <2>1
      <3>2. more[k] = events[k] /\ At(more, k - 1) = At(events, k - 1)
        BY <1>2, <1>3, <3>1
      <3>3. QED
        BY <1>10, <3>1, <3>2 DEF Smooth
    <2>2. CASE k = p + 1
      <3>1. k - 1 = p /\ p \in 0 .. p /\ p \in p .. n
        BY <1>1, <2>2
      <3>2. QED
        BY <1>2, <1>3, <1>6, <2>2, <3>1
    <2>3. CASE k > p + 1
      <3>1. PICK l \in 1 .. n : k = l + 1 /\ l > p /\ l - 1 \in p .. n /\ k - 1 = (l - 1) + 1 /\ l \in p + 1 .. n
        <4>1. /\ k - 1 \in 1 .. n /\ k = (k - 1) + 1 /\ k - 1 > p /\ (k - 1) - 1 \in p .. n
              /\ k - 1 = ((k - 1) - 1) + 1 /\ k - 1 \in p + 1 .. n
          BY <1>1, <2>3
        <4>2. QED
          BY <4>1, Zenon
      <3>2. more[k] = events[l] /\ At(more, k - 1) = With(At(events, l - 1), e)
        BY <1>2, <1>9, <3>1
      <3>3. QED
        BY <1>7, <3>1, <3>2
    <2>4. QED
      BY <1>1, <2>1, <2>2, <2>3
  <1>11. Smooth(more)
    BY <1>2, <1>10 DEF Smooth
  <1>12. Replay(more) = With(Replay(events), e)
    <2>1. n \in p .. n /\ n \in 0 .. n /\ n + 1 \in 0 .. Len(more)
      BY <1>1, <1>2
    <2>2. At(more, n + 1) = Replay(more) /\ At(events, n) = Replay(events)
      BY <1>2, <2>1, AtIsWhole
    <2>3. QED
      BY <1>9, <2>1, <2>2
  <1>13. QED
    BY <1>2, <1>11, <1>12 DEF more

-----------------------------------------------------------------------------
(* What stays true of one machine's record and its writers.                *)

Txns == [phase : {"idle", "begun", "holding"}, available : Nat, job : Entries]

LedgerTypes ==
    /\ now \in 1 .. MaxBegun /\ record \in Seq(Entries) /\ lock \in Writers \cup {NoWriter}
    /\ txn \in [Writers -> Txns]
    /\ \A i \in DOMAIN record :
          /\ record[i].at < now
          /\ record[i].kind \in {"completed", "failed"} => record[i].trade \in Accepted

\* Whoever has the row knows what is available, until something that makes room comes between.
NothingSince(at) == \A i \in DOMAIN record : record[i].at > at => record[i].kind = "intended"

TxnKept(w) ==
    LET x == txn[w] IN
    /\ lock = w <=> x.phase = "holding"
    /\ x.phase # "idle" => x.job \in Job /\ x.job.at < now
    /\ x.phase = "holding" /\ InOrder /\ NothingSince(x.job.at) => x.available = Available(Budget)

\* Who asks about a trade, in the record or on the way to it.
Asked(e) ==
    \/ \E i \in DOMAIN record : e = record[i] /\ record[i].kind = "intended"
    \/ \E w \in Writers : e = txn[w].job /\ txn[w].phase # "idle" /\ txn[w].job.kind = "intended"

\* A trade is asked about in the same words by everybody, so its second hold is its first.
SameWords == \A x, e \in Entries : Asked(x) /\ Asked(e) => SameTrade(x, e)

\* The replay holds what every unfinished trade asked for, and nothing else.
OpenAreHeld ==
    \A i \in DOMAIN record :
        record[i].kind = "intended" /\ record[i].trade \notin Ended => HoldFor(record[i]) \in Budget.held

\* What each event takes out to trade with, or brings home, but for costs over the allowance.
Deploys == [j \in DOMAIN record |-> Spent(record[j]) - Overrun(record[j])]

HeldWereAsked ==
    \A h \in Budget.held : \E i \in DOMAIN record : record[i].kind = "intended" /\ HoldFor(record[i]) = h

DeployedIsSettled == \A i \in 1 .. Len(record) : SumOver(Deploys, i .. Len(record)) <= Budget.settled

(* While the two orders agree: what was accepted fits where it is read,    *)
(* and what any stretch of the record deployed is settled.  Smooth makes   *)
(* the rest inductive: it is what an event in the middle must not disturb. *)
BudgetKept == Smooth(ReadEvents(record)) /\ OpenAreHeld /\ HeldWereAsked /\ DeployedIsSettled

LedgerInv ==
    /\ LedgerTypes /\ SameWords /\ \A w \in Writers : TxnKept(w)
    /\ InOrder => BudgetKept

LEMMA EntriesAreStamped == Stamped(Entries)
  BY DEF Stamped, Entries

LEMMA BudgetIsRead ==
    ASSUME NEW events \in Seq(Entries)
    PROVE  Replay(ReadEvents(events)) \in WholeBudgets /\ ReadEvents(events) \in Seq(Entries)
           /\ Len(ReadEvents(events)) = Len(events)
  BY EntriesAreStamped, ReadingKeepsAll, ReplayIsWhole

\* What one event more makes of the budget, while the two orders of the record agree.
LEMMA BudgetOfMore ==
    ASSUME NEW events \in Seq(Entries), NEW e \in Entries, Smooth(ReadEvents(events)),
           \A i \in 1 .. Len(events) : e.at < events[i].at => events[i].kind = "intended" /\ e.kind = "intended",
           e.kind = "intended" => /\ Fits(Replay(ReadEvents(events)), e)
                                  /\ \A i \in 1 .. Len(events) : events[i].kind = "intended" => SameTrade(events[i], e)
    PROVE  /\ Smooth(ReadEvents(Append(events, e)))
           /\ Replay(ReadEvents(Append(events, e)))
                 = IF e.kind = "intended" THEN With(Replay(ReadEvents(events)), e)
                   ELSE Apply(Replay(ReadEvents(events)), e)
  <1> DEFINE read == ReadEvents(events)
             n == Len(events)
  <1>1. read \in Seq(Entries) /\ Len(read) = n /\ n \in Nat /\ \A i \in 1 .. n : events[i] \in Entries
    BY BudgetIsRead
  <1>2. PICK p \in 0 .. n :
            /\ ReadEvents(Append(events, e)) = Inserted(read, p, e)
            /\ \A k \in 1 .. n : /\ k > p => read[k].at > e.at
                                 /\ \E i \in 1 .. n : read[k] = events[i]
    BY EntriesAreStamped, ReadAmong
  <1>3. \A i \in 1 .. n : e.at < events[i].at => events[i].kind = "intended" /\ e.kind = "intended"
    OBVIOUS
  <1>4. e.at \in Int /\ \A k \in 1 .. n : read[k].at \in Int
    BY <1>1, EntriesAreStamped DEF Stamped
  <1>5. ASSUME NEW k \in 1 .. n, k > p
        PROVE  /\ read[k].kind = "intended" /\ e.kind = "intended"
               /\ \E i \in 1 .. n : read[k] = events[i] /\ events[i].kind = "intended"
    BY <1>2, <1>3, <1>4, <1>5
  <1>6. CASE e.kind = "intended"
    <2>1. \A k \in 1 .. n : k > p => read[k].kind = "intended" /\ SameTrade(read[k], e)
      BY <1>5, <1>6
    <2>2. Fits(Replay(read), e) /\ Smooth(read)
      BY <1>6
    <2> HIDE DEF read, n
    <2>3. Smooth(Inserted(read, p, e)) /\ Replay(Inserted(read, p, e)) = With(Replay(read), e)
      BY <1>1, <1>6, <2>1, <2>2, HoldsChangePlaces
    <2>4. QED
      BY <1>2, <1>6, <2>3 DEF read
  <1>7. CASE e.kind # "intended"
    <2> HIDE DEF read, n
    <2>1. p = n
      <3>1. CASE p < n
        <4>1. n \in 1 .. n /\ n > p
          BY <1>1, <3>1
        <4>2. QED
          BY <1>5, <1>7, <4>1
      <3>2. QED
        BY <1>1, <3>1
    <2>2. Inserted(read, p, e) = Append(read, e)
      <3> DEFINE more == Append(read, e)
                 same == Inserted(read, n, e)
      <3>1. more \in [1 .. n + 1 -> Entries]
        <4>1. more \in Seq(Entries) /\ Len(more) = n + 1
          BY <1>1
        <4> HIDE DEF more
        <4>2. QED
          BY <4>1
      <3>2. DOMAIN same = 1 .. n + 1 /\ \A k \in 1 .. n + 1 : same[k] = IF k <= n THEN read[k] ELSE IF k = n + 1 THEN e ELSE read[k - 1]
        BY <1>1 DEF Inserted
      <3>3. same = [k \in 1 .. n + 1 |-> same[k]]
        BY <1>1 DEF Inserted
      <3>4. \A k \in 1 .. n + 1 : more[k] = IF k <= n THEN read[k] ELSE e
        BY <1>1
      <3> HIDE DEF more, same
      <3>5. \A k \in 1 .. n + 1 : more[k] = same[k]
        BY <1>1, <3>2, <3>4
      <3>6. more = same
        BY <3>1, <3>3, <3>5
      <3>7. QED
        BY <2>1, <3>6 DEF more, same
    <2> DEFINE more == Append(read, e)
    <2>3. /\ more \in Seq(Entries) /\ Len(more) = n + 1 /\ more[n + 1] = e
          /\ \A k \in 1 .. n : more[k] = read[k] /\ SubSeq(more, 1, k - 1) = SubSeq(read, 1, k - 1)
      BY <1>1
    <2> HIDE DEF more
    <2>4. Smooth(read)
      BY DEF read
    <2>5. ASSUME NEW k \in 1 .. n + 1, more[k].kind = "intended" PROVE Fits(At(more, k - 1), more[k])
      <3>1. k \in 1 .. n
        BY <1>1, <1>7, <2>3, <2>5
      <3>2. QED
        BY <1>1, <2>3, <2>4, <2>5, <3>1 DEF Smooth, At
    <2>6. Smooth(more)
      BY <2>3, <2>5 DEF Smooth
    <2>7. Replay(more) = Apply(Replay(read), e)
      BY <1>1, ReplayOfMore DEF more
    <2>8. ReadEvents(Append(events, e)) = more
      BY <1>2, <2>2 DEF more
    <2>9. QED
      BY <1>7, <2>6, <2>7, <2>8 DEF read
  <1>8. QED
    BY <1>6, <1>7

\* The trades that were accepted, and those that have ended.
OpenIs ==
    /\ \A t : t \in Accepted <=> \E i \in DOMAIN record : record[i].kind = "intended" /\ record[i].trade = t
    /\ \A t : t \in Ended <=> \E i \in DOMAIN record :
                                 record[i].kind \in {"completed", "failed"} /\ record[i].trade = t
    /\ \A t \in Accepted : \E i \in DOMAIN record :
          IntentOf(t) = record[i] /\ record[i].kind = "intended" /\ record[i].trade = t

LEMMA WhoIsOpen == LedgerTypes => OpenIs
  <1> SUFFICES ASSUME LedgerTypes PROVE OpenIs
    OBVIOUS
  <1>1. ToSet(record) = {record[i] : i \in DOMAIN record}
    BY DEF ToSet
  <1>2. \A t : t \in Accepted <=> \E i \in DOMAIN record : record[i].kind = "intended" /\ record[i].trade = t
    BY <1>1 DEF Accepted, IdsOf
  <1>3. \A t : t \in Ended <=> \E i \in DOMAIN record :
                                  record[i].kind \in {"completed", "failed"} /\ record[i].trade = t
    BY <1>1 DEF Ended, IdsOf
  <1>4. ASSUME NEW t \in Accepted
        PROVE  \E i \in DOMAIN record : IntentOf(t) = record[i] /\ record[i].kind = "intended" /\ record[i].trade = t
    <2>1. \E e \in ToSet(record) : e.kind = "intended" /\ e.trade = t
      BY <1>1, <1>2
    <2>2. IntentOf(t) \in ToSet(record) /\ IntentOf(t).kind = "intended" /\ IntentOf(t).trade = t
      BY <2>1 DEF IntentOf
    <2>3. QED
      BY <1>1, <2>2
  <1>5. QED
    BY <1>2, <1>3, <1>4 DEF OpenIs

LEMMA WhoIsOpenNext == LedgerTypes' => OpenIs'
  BY WhoIsOpen, PTL

\* Overrun asks what the trade was accepted for, which is the same in every record.
DeploysAre ==
    /\ \A j \in DOMAIN record : Deploys[j] \in Int /\ Overrun(record[j]) \in Int /\ Spent(record[j]) \in Int
    /\ \A S \in SUBSET DOMAIN record :
          MapThenSumSet(LAMBDA j : Spent(record[j]) - Overrun(record[j]), S) = SumOver(Deploys, S)

LEMMA DeploysAreNumbers == LedgerTypes => DeploysAre
  <1> SUFFICES ASSUME LedgerTypes PROVE DeploysAre
    OBVIOUS
  <1>1. record \in Seq(Entries)
    BY DEF LedgerTypes
  <1>2. ASSUME NEW j \in DOMAIN record PROVE Deploys[j] \in Int /\ Overrun(record[j]) \in Int /\ Spent(record[j]) \in Int
    <2>1. record[j] \in Entries
      BY <1>1
    <2>2. Spent(record[j]) \in Int
      BY <2>1 DEF Spent, Entries
    <2>3. CASE record[j].kind = "completed"
      <3>1. record[j].trade \in Accepted
        BY <2>3 DEF LedgerTypes
      <3>2. PICK i \in DOMAIN record : IntentOf(record[j].trade) = record[i]
        BY <3>1, WhoIsOpen DEF OpenIs
      <3>3. IntentOf(record[j].trade).amount \in Int
        <4>1. record[i] \in Entries
          BY <1>1
        <4>2. QED
          BY <3>2, <4>1 DEF Entries
      <3>4. Overrun(record[j]) \in Int
        BY <2>1, <3>3, LedgerAssumption DEF Overrun, Larger, Wanted, Entries
      <3>5. QED
        BY <2>2, <3>4 DEF Deploys
    <2>4. CASE record[j].kind # "completed"
      <3>1. Overrun(record[j]) = 0
        BY <2>4 DEF Overrun
      <3>2. QED
        BY <2>2, <3>1 DEF Deploys
    <2>5. QED
      BY <2>3, <2>4
  <1>3. ASSUME NEW S \in SUBSET DOMAIN record
        PROVE  MapThenSumSet(LAMBDA j : Spent(record[j]) - Overrun(record[j]), S) = SumOver(Deploys, S)
    <2> DEFINE One(f) == [s \in SUBSET S |->
                             IF s = {} THEN 0
                             ELSE LET x == CHOOSE x \in s : TRUE IN Spent(record[x]) - Overrun(record[x]) + f[s \ {x}]]
               Other(f) == [s \in SUBSET S |->
                               IF s = {} THEN 0 ELSE LET x == CHOOSE x \in s : TRUE IN Deploys[x] + f[s \ {x}]]
    <2>1. MapThenSumSet(LAMBDA j : Spent(record[j]) - Overrun(record[j]), S) = (CHOOSE f : f = One(f))[S]
      BY DEF MapThenSumSet, MapThenFoldSet
    <2>2. SumOver(Deploys, S) = (CHOOSE f : f = Other(f))[S]
      BY DEF SumOver, MapThenSumSet, MapThenFoldSet
    <2>3. ASSUME NEW f PROVE One(f) = Other(f)
      <3>1. ASSUME NEW s \in SUBSET S, s # {}
            PROVE  Spent(record[CHOOSE x \in s : TRUE]) - Overrun(record[CHOOSE x \in s : TRUE])
                       = Deploys[CHOOSE x \in s : TRUE]
        <4>1. (CHOOSE x \in s : TRUE) \in DOMAIN record
          BY <3>1
        <4>2. QED
          BY <4>1 DEF Deploys
      <3>2. QED
        BY <3>1
    <2> HIDE DEF One, Other
    <2>4. (CHOOSE f : f = One(f)) = (CHOOSE f : f = Other(f))
      BY <2>3
    <2>5. QED
      BY <2>1, <2>2, <2>4
  <1>4. QED
    BY <1>2, <1>3 DEF DeploysAre

LEMMA DeploysAreNumbersNext == LedgerTypes' => DeploysAre'
  BY DeploysAreNumbers, PTL

-----------------------------------------------------------------------------
(* An event more.                                                          *)

LEMMA InOrderBefore ==
    ASSUME LedgerInv, NEW e \in Entries, record' = Append(record, e), InOrder'
    PROVE  /\ BudgetKept /\ record \in Seq(Entries) /\ InOrder
           /\ \A i \in 1 .. Len(record) : e.at < record[i].at => record[i].kind = "intended" /\ e.kind = "intended"
  <1> DEFINE n == Len(record)
             more == Append(record, e)
  <1>1. record \in Seq(Entries)
    BY DEF LedgerInv, LedgerTypes
  <1>2. /\ n \in Nat /\ DOMAIN record = 1 .. n /\ DOMAIN more = 1 .. n + 1 /\ more[n + 1] = e
        /\ \A i \in 1 .. n : more[i] = record[i] /\ i \in 1 .. n + 1 /\ i < n + 1
    BY <1>1
  <1> HIDE DEF more, n
  <1>3. \A i, j \in DOMAIN more : i < j /\ more[j].at < more[i].at => more[i].kind = "intended" /\ more[j].kind = "intended"
    BY DEF InOrder, more
  <1>4. InOrder
    BY <1>2, <1>3 DEF InOrder
  <1>5. \A i \in 1 .. n : e.at < record[i].at => record[i].kind = "intended" /\ e.kind = "intended"
    <2>1. n + 1 \in DOMAIN more
      BY <1>2
    <2>2. QED
      BY <1>2, <1>3, <2>1
  <1>6. QED
    BY <1>1, <1>4, <1>5 DEF LedgerInv, n

\* What an event more adds to each stretch of the record.
LEMMA StretchGrows ==
    ASSUME LedgerInv, NEW e \in Entries, record' = Append(record, e), LedgerTypes', SameWords',
           BudgetKept, Budget' \in WholeBudgets, Deploys'[Len(record) + 1] <= Budget'.settled - Budget.settled
    PROVE  DeployedIsSettled'
  <1> DEFINE n == Len(record)
  <1>1. /\ record \in Seq(Entries) /\ n \in Nat /\ DOMAIN record = 1 .. n /\ DOMAIN record' = 1 .. n + 1
        /\ Len(record') = n + 1 /\ record'[n + 1] = e /\ LedgerTypes
        /\ \A i \in 1 .. n : record'[i] = record[i] /\ record[i] \in Entries
    BY DEF LedgerInv, LedgerTypes
  <1>2. (\A j \in 1 .. n : Deploys[j] \in Int) /\ \A j \in 1 .. n + 1 : Deploys'[j] \in Int
    BY <1>1, DeploysAreNumbers, DeploysAreNumbersNext DEF DeploysAre
  <1>3. Budget.settled \in Int /\ Budget'.settled \in Int /\ Budget'.settled >= 0
    <2>1. Budget \in WholeBudgets
      BY <1>1, BudgetIsRead DEF Budget
    <2>2. QED
      BY <2>1, OneHold
  <1>4. ASSUME NEW j \in 1 .. n PROVE Deploys'[j] = Deploys[j]
    <2>1. PICK x : x = record[j] /\ x = record'[j] /\ x \in Entries
      BY <1>1
    <2>2. Deploys[j] = Spent(x) - Overrun(x)
      BY <1>1, <2>1 DEF Deploys
    <2>3. Deploys'[j] = Spent(x) - Overrun(x)'
      BY <1>1, <2>1 DEF Deploys, Spent
    <2>4. Overrun(x)' = Overrun(x)
      <3>1. CASE x.kind = "completed"
        <4>1. PICK t : t = x.trade
          OBVIOUS
        <4>2. t \in Accepted /\ t \in Accepted'
          BY <1>1, <2>1, <3>1, <4>1 DEF LedgerTypes
        <4>3. PICK i \in DOMAIN record : IntentOf(t) = record[i] /\ record[i].kind = "intended" /\ record[i].trade = t
          BY <1>1, <4>2, WhoIsOpen DEF OpenIs
        <4>4. PICK k \in DOMAIN record' :
                  IntentOf(t)' = record'[k] /\ record'[k].kind = "intended" /\ record'[k].trade = t
          <5>1. \A u \in Accepted' : \E k \in DOMAIN record' :
                   IntentOf(u)' = record'[k] /\ record'[k].kind = "intended" /\ record'[k].trade = u
            BY WhoIsOpenNext DEF OpenIs
          <5>2. QED
            BY <4>2, <5>1
        <4>5. PICK y : y = record'[k] /\ y \in Entries
          <5>1. record' \in Seq(Entries)
            BY DEF LedgerTypes
          <5>2. QED
            BY <5>1
        <4>6. PICK z : z = record[i] /\ z = record'[i] /\ z \in Entries /\ i \in DOMAIN record'
          BY <1>1
        <4>7. Asked(y)' /\ Asked(z)'
          BY <4>3, <4>4, <4>5, <4>6 DEF Asked
        <4>8. y.amount = z.amount
          BY <4>3, <4>4, <4>5, <4>6, <4>7 DEF SameWords, SameTrade
        <4>9. IntentOf(t)'.amount = IntentOf(t).amount
          BY <4>3, <4>4, <4>5, <4>6, <4>8
        <4>10. QED
          BY <4>1, <4>9 DEF Overrun
      <3>2. CASE x.kind # "completed"
        BY <3>2 DEF Overrun
      <3>3. QED
        BY <3>1, <3>2
    <2>5. QED
      BY <2>2, <2>3, <2>4
  <1> DEFINE d == Deploys'
             s == Budget'.settled
  <1>5. d[n + 1] \in Int /\ d[n + 1] <= s - Budget.settled /\ s \in Int /\ s >= 0
    BY <1>1, <1>2, <1>3
  <1>6. (\A j \in 1 .. n : d[j] \in Int /\ d[j] = Deploys[j]) /\ \A j \in 1 .. n + 1 : d[j] \in Int
    BY <1>2, <1>4
  <1> HIDE DEF d, n
  <1>7. ASSUME NEW i \in 1 .. n + 1 PROVE SumOver(d, i .. n + 1) <= s
    <2>1. IsFiniteSet(i .. n + 1) /\ n + 1 \in i .. n + 1 /\ (i .. n + 1) \ {n + 1} = i .. n /\ IsFiniteSet(i .. n)
      <3>1. n \in Int /\ n + 1 \in Int /\ i \in Int /\ i <= n + 1
        BY <1>1
      <3>2. IsFiniteSet(i .. n + 1) /\ IsFiniteSet(i .. n)
        BY <3>1, FS_Interval
      <3>3. \A j : j \in (i .. n + 1) \ {n + 1} <=> j \in i .. n
        BY <3>1
      <3>4. QED
        BY <3>1, <3>2, <3>3
    <2>2. /\ SumOver(d, i .. n + 1) = d[n + 1] + SumOver(d, i .. n) /\ SumOver(d, i .. n) \in Int
      <3>1. \A j \in i .. n + 1 : d[j] \in Int
        BY <1>1, <1>6
      <3>2. /\ SumOver(d, i .. n + 1) = d[n + 1] + SumOver(d, (i .. n + 1) \ {n + 1})
            /\ SumOver(d, (i .. n + 1) \ {n + 1}) \in Int
        BY <2>1, <3>1, SumOfOneMore
      <3>3. QED
        BY <2>1, <3>2
    <2>3. SumOver(d, i .. n) = SumOver(Deploys, i .. n)
      <3>1. \A j \in i .. n : Deploys[j] \in Int /\ d[j] = Deploys[j]
        BY <1>1, <1>2, <1>6
      <3>2. QED
        BY <2>1, <3>1, SumOfTheSame
    <2>4. SumOver(Deploys, i .. n) <= Budget.settled
      <3>1. CASE i = n + 1
        <4>1. i .. n = {}
          BY <1>1, <3>1
        <4>2. Budget.settled >= 0
          <5>1. Budget \in WholeBudgets
            BY <1>1, BudgetIsRead DEF Budget
          <5>2. QED
            BY <5>1, OneHold
        <4>3. QED
          BY <1>3, <4>1, <4>2, SumOfNothing
      <3>2. CASE i # n + 1
        <4>1. i \in 1 .. n
          BY <1>1, <3>2
        <4>2. QED
          BY <4>1 DEF BudgetKept, DeployedIsSettled, n
      <3>3. QED
        BY <3>1, <3>2
    <2>5. QED
      BY <1>3, <1>5, <2>2, <2>3, <2>4
  <1>8. \A i \in 1 .. n + 1 : SumOver(Deploys', i .. n + 1) <= Budget'.settled
    BY <1>7 DEF d
  <1>9. QED
    BY <1>1, <1>8 DEF DeployedIsSettled

\* One event more, with the two orders still agreeing.
LEMMA Grown ==
    ASSUME LedgerInv, NEW e \in Entries, record' = Append(record, e)
    PROVE  LET n == Len(record) IN
           /\ n \in Nat /\ record \in Seq(Entries) /\ DOMAIN record = 1 .. n /\ DOMAIN record' = 1 .. n + 1
           /\ record' \in Seq(Entries) /\ Len(record') = n + 1 /\ record'[n + 1] = e
           /\ \A i \in 1 .. n : record'[i] = record[i] /\ record[i] \in Entries
           /\ Budget \in WholeBudgets /\ Budget' \in WholeBudgets
           /\ Budget' = Replay(ReadEvents(Append(record, e))) /\ Budget = Replay(ReadEvents(record))
  <1>1. record \in Seq(Entries)
    BY DEF LedgerInv, LedgerTypes
  <1>2. record' \in Seq(Entries)
    BY <1>1
  <1>3. Budget \in WholeBudgets /\ Budget' \in WholeBudgets
    BY <1>1, <1>2, BudgetIsRead DEF Budget
  <1>4. Budget' = Replay(ReadEvents(Append(record, e))) /\ Budget = Replay(ReadEvents(record))
    BY DEF Budget
  <1>5. QED
    BY <1>1, <1>2, <1>3, <1>4

LEMMA IntentGrows ==
    ASSUME LedgerInv, NEW e \in Entries, record' = Append(record, e), LedgerTypes', SameWords', InOrder',
           e.kind = "intended", Fits(Budget, e)
    PROVE  BudgetKept'
  <1> DEFINE n == Len(record)
  <1>1. /\ n \in Nat /\ record \in Seq(Entries) /\ DOMAIN record = 1 .. n /\ DOMAIN record' = 1 .. n + 1
        /\ record'[n + 1] = e /\ Len(record') = n + 1
        /\ \A i \in 1 .. n : record'[i] = record[i] /\ record[i] \in Entries
        /\ Budget \in WholeBudgets /\ Budget' \in WholeBudgets
        /\ Budget' = Replay(ReadEvents(Append(record, e))) /\ Budget = Replay(ReadEvents(record))
    BY Grown
  <1> HIDE DEF n
  <1>2. BudgetKept /\ \A i \in 1 .. n : e.at < record[i].at => record[i].kind = "intended" /\ e.kind = "intended"
    BY InOrderBefore DEF n
  <1>3. ASSUME NEW i \in 1 .. n, record[i].kind = "intended" PROVE SameTrade(record[i], e)
    <2>1. PICK x : x = record[i] /\ x = record'[i] /\ x \in Entries /\ i \in DOMAIN record' /\ n + 1 \in DOMAIN record'
      BY <1>1
    <2>2. Asked(x)' /\ Asked(e)'
      BY <1>1, <1>3, <2>1 DEF Asked
    <2>3. QED
      BY <2>1, <2>2 DEF SameWords
  <1>4. Smooth(ReadEvents(record))
    BY <1>2 DEF BudgetKept
  <1>5. Smooth(ReadEvents(Append(record, e))) /\ Budget' = With(Budget, e)
    BY <1>1, <1>2, <1>3, <1>4, BudgetOfMore DEF n
  <1>6. /\ Budget.held \subseteq Budget'.held /\ HoldFor(e) \in Budget'.held /\ Budget'.settled = Budget.settled
        /\ \A h \in Budget'.held : h \in Budget.held \/ h = HoldFor(e)
    <2>1. CASE HoldOf(Budget, e.trade) = {}
      BY <1>1, <1>5, <2>1, WithHolds
    <2>2. CASE HoldOf(Budget, e.trade) # {}
      <3>1. Budget' = Budget
        BY <1>5, <2>2 DEF With
      <3>2. PICK h \in Budget.held : h.trade = e.trade
        BY <2>2 DEF HoldOf
      <3>3. PICK i \in 1 .. n : record[i].kind = "intended" /\ HoldFor(record[i]) = h
        BY <1>1, <1>2, <3>2 DEF BudgetKept, HeldWereAsked
      <3>4. record[i].trade = e.trade /\ SameTrade(record[i], e)
        BY <1>3, <3>2, <3>3 DEF HoldFor
      <3>5. HoldFor(e) = h
        BY <3>2, <3>3, <3>4 DEF SameTrade, HoldFor, WantedBy
      <3>6. QED
        BY <3>1, <3>2, <3>5
    <2>3. QED
      BY <2>1, <2>2
  <1>7. OpenAreHeld'
    <2> SUFFICES ASSUME NEW i \in 1 .. n + 1, record'[i].kind = "intended", record'[i].trade \notin Ended'
                 PROVE  HoldFor(record'[i]) \in Budget'.held
      BY <1>1 DEF OpenAreHeld, HoldFor, WantedBy
    <2>1. CASE i = n + 1
      BY <1>1, <1>6, <2>1
    <2>2. CASE i # n + 1
      <3>1. i \in 1 .. n /\ record'[i] = record[i]
        BY <1>1, <2>2
      <3>2. record[i].trade \notin Ended
        <4>1. \A t : t \in Ended => t \in Ended'
          BY <1>1, WhoIsOpen, WhoIsOpenNext DEF OpenIs, LedgerInv
        <4>2. QED
          BY <3>1, <4>1
      <3>3. HoldFor(record[i]) \in Budget.held
        BY <1>1, <1>2, <3>1, <3>2 DEF BudgetKept, OpenAreHeld
      <3>4. QED
        BY <1>6, <3>1, <3>3
    <2>3. QED
      BY <2>1, <2>2
  <1>8. HeldWereAsked'
    <2> SUFFICES ASSUME NEW h \in Budget'.held
                 PROVE  \E i \in 1 .. n + 1 : record'[i].kind = "intended" /\ HoldFor(record'[i]) = h
      BY <1>1 DEF HeldWereAsked, HoldFor, WantedBy
    <2>1. CASE h = HoldFor(e)
      BY <1>1, <2>1
    <2>2. CASE h \in Budget.held
      <3>1. PICK i \in 1 .. n : record[i].kind = "intended" /\ HoldFor(record[i]) = h
        BY <1>1, <1>2, <2>2 DEF BudgetKept, HeldWereAsked
      <3>2. i \in 1 .. n + 1 /\ record'[i] = record[i]
        BY <1>1, <3>1
      <3>3. QED
        BY <3>1, <3>2
    <2>3. QED
      BY <1>6, <2>1, <2>2
  <1>9. DeployedIsSettled'
    <2>1. Deploys'[n + 1] = 0
      <3>1. n + 1 \in DOMAIN record' /\ record'[n + 1] = e
        BY <1>1
      <3>2. Deploys'[n + 1] = Spent(e) - Overrun(e)'
        BY <3>1 DEF Deploys, Spent
      <3>3. Spent(e) = 0 /\ Overrun(e)' = 0
        BY DEF Spent, Overrun
      <3>4. QED
        BY <3>2, <3>3
    <2>2. Budget.settled \in Nat
      BY <1>1, OneHold
    <2>3. QED
      BY <1>1, <1>2, <1>6, <2>1, <2>2, StretchGrows DEF n
  <1>10. Smooth(ReadEvents(record'))
    BY <1>5
  <1>11. BudgetKept'
    BY <1>7, <1>8, <1>9, <1>10 DEF BudgetKept, Smooth, Fits, WantedBy, At
  <1>12. QED
    BY <1>11

\* A grant or an end is read last, and an end lets go of its own trade's hold only.
LEMMA OtherGrows ==
    ASSUME LedgerInv, NEW e \in Entries, record' = Append(record, e), LedgerTypes', SameWords', InOrder',
           e.kind # "intended",
           Deploys'[Len(record) + 1] <= Apply(Budget, e).settled - Budget.settled,
           Apply(Budget, e).held \subseteq Budget.held,
           \A h \in Budget.held : h \in Apply(Budget, e).held \/ (e.kind \in {"completed", "failed"} /\ h.trade = e.trade)
    PROVE  BudgetKept'
  <1> DEFINE n == Len(record)
  <1>1. /\ n \in Nat /\ record \in Seq(Entries) /\ DOMAIN record = 1 .. n /\ DOMAIN record' = 1 .. n + 1
        /\ record'[n + 1] = e /\ Len(record') = n + 1
        /\ \A i \in 1 .. n : record'[i] = record[i] /\ record[i] \in Entries
        /\ Budget \in WholeBudgets /\ Budget' \in WholeBudgets
        /\ Budget' = Replay(ReadEvents(Append(record, e))) /\ Budget = Replay(ReadEvents(record))
    BY Grown
  <1> HIDE DEF n
  <1>2. BudgetKept /\ \A i \in 1 .. n : e.at < record[i].at => record[i].kind = "intended" /\ e.kind = "intended"
    BY InOrderBefore DEF n
  <1>3. Smooth(ReadEvents(record))
    BY <1>2 DEF BudgetKept
  <1>4. Smooth(ReadEvents(Append(record, e))) /\ Budget' = Apply(Budget, e)
    BY <1>1, <1>2, <1>3, BudgetOfMore DEF n
  <1>5. OpenAreHeld'
    <2> SUFFICES ASSUME NEW i \in 1 .. n + 1, record'[i].kind = "intended", record'[i].trade \notin Ended'
                 PROVE  HoldFor(record'[i]) \in Budget'.held
      BY <1>1 DEF OpenAreHeld, HoldFor, WantedBy
    <2>1. i \in 1 .. n /\ record'[i] = record[i]
      BY <1>1
    <2>2. OpenIs /\ OpenIs'
      BY WhoIsOpen, WhoIsOpenNext DEF LedgerInv
    <2>3. \A t : t \in Ended => t \in Ended'
      BY <1>1, <2>2 DEF OpenIs
    <2>4. HoldFor(record[i]) \in Budget.held
      BY <1>1, <1>2, <2>1, <2>3 DEF BudgetKept, OpenAreHeld
    <2>5. e.kind \in {"completed", "failed"} => record[i].trade # e.trade
      <3>1. e.kind \in {"completed", "failed"} => e.trade \in Ended'
        <4>1. n + 1 \in DOMAIN record' /\ record'[n + 1] = e
          BY <1>1
        <4>2. QED
          BY <2>2, <4>1 DEF OpenIs
      <3>2. QED
        BY <2>1, <3>1
    <2>6. QED
      BY <1>4, <2>1, <2>4, <2>5 DEF HoldFor
  <1>6. HeldWereAsked'
    <2> SUFFICES ASSUME NEW h \in Budget'.held
                 PROVE  \E i \in 1 .. n + 1 : record'[i].kind = "intended" /\ HoldFor(record'[i]) = h
      BY <1>1 DEF HeldWereAsked, HoldFor, WantedBy
    <2>1. h \in Budget.held
      BY <1>4
    <2>2. PICK i \in 1 .. n : record[i].kind = "intended" /\ HoldFor(record[i]) = h
      BY <1>1, <1>2, <2>1 DEF BudgetKept, HeldWereAsked
    <2>3. i \in 1 .. n + 1 /\ record'[i] = record[i]
      BY <1>1, <2>2
    <2>4. QED
      BY <2>2, <2>3
  <1>7. DeployedIsSettled'
    BY <1>1, <1>2, <1>4, StretchGrows DEF n
  <1>8. QED
    BY <1>4, <1>5, <1>6, <1>7 DEF BudgetKept, Smooth, Fits, WantedBy, At

\* What a grant or an end deploys is no more than what it settles.
LEMMA GrantGrows ==
    ASSUME LedgerInv, NEW e \in Entries, record' = Append(record, e), LedgerTypes', SameWords', InOrder',
           e.kind = "granted"
    PROVE  BudgetKept'
  <1>1. Budget \in WholeBudgets /\ Len(record) + 1 \in DOMAIN record' /\ record'[Len(record) + 1] = e
    BY Grown
  <1>2. Apply(Budget, e).held = Budget.held /\ Apply(Budget, e).settled = Budget.settled /\ Budget.settled \in Nat
    BY <1>1, ApplyIsWhole, OneHold
  <1>3. Deploys'[Len(record) + 1] = Spent(e) - Overrun(e)'
    BY <1>1 DEF Deploys, Spent
  <1>4. Spent(e) = 0 /\ Overrun(e)' = 0
    BY DEF Spent, Overrun
  <1>5. QED
    BY <1>2, <1>3, <1>4, OtherGrows

LEMMA EndGrows ==
    ASSUME LedgerInv, NEW t \in Open, NEW e \in Entries, record' = Append(record, e), LedgerTypes', SameWords', InOrder',
           e.kind \in {"completed", "failed"}, e.trade = t, e.side = IntentOf(t).side,
           e.kind = "completed" => IF e.side = "buy" THEN e.got = 0 ELSE e.amount = 0
    PROVE  BudgetKept'
  <1> DEFINE n == Len(record)
  <1>1. /\ n \in Nat /\ DOMAIN record = 1 .. n /\ DOMAIN record' = 1 .. n + 1 /\ record'[n + 1] = e
        /\ record' \in Seq(Entries)
        /\ (\A i \in 1 .. n : record'[i] = record[i] /\ record[i] \in Entries) /\ Budget \in WholeBudgets
    BY Grown
  <1> HIDE DEF n
  <1>2. OpenIs /\ OpenIs' /\ BudgetKept
    BY WhoIsOpen, WhoIsOpenNext, InOrderBefore DEF LedgerInv
  <1>3. t \in Accepted /\ t \notin Ended
    BY DEF Open
  <1>4. PICK i \in 1 .. n : IntentOf(t) = record[i] /\ record[i].kind = "intended" /\ record[i].trade = t
    BY <1>1, <1>2, <1>3 DEF OpenIs
  <1>5. PICK x : x = record[i] /\ x = record'[i] /\ x \in Entries /\ i \in DOMAIN record'
    BY <1>1
  <1> DEFINE h == HoldFor(x)
  <1>6. h \in Budget.held /\ h \in HoldOf(Budget, t)
    <2>1. HoldFor(record[i]) \in Budget.held
      BY <1>1, <1>2, <1>3, <1>4 DEF BudgetKept, OpenAreHeld
    <2>2. QED
      BY <1>4, <1>5, <2>1 DEF HoldOf, HoldFor
  <1>7. /\ h.reserved = Wanted(x.side, x.amount) /\ h.side = x.side /\ h.trade = t /\ e.side = x.side
        /\ x.amount \in Nat /\ x.side \in Side /\ e.amount \in Nat /\ e.got \in Nat
    BY <1>4, <1>5 DEF HoldFor, WantedBy, Entries
  <1>8. IntentOf(t)'.amount = x.amount
    <2>1. t \in Accepted'
      BY <1>1, <1>2, <1>4, <1>5 DEF OpenIs
    <2>2. PICK k \in DOMAIN record' :
              IntentOf(t)' = record'[k] /\ record'[k].kind = "intended" /\ record'[k].trade = t
      <3>1. \A u \in Accepted' : \E k \in DOMAIN record' :
               IntentOf(u)' = record'[k] /\ record'[k].kind = "intended" /\ record'[k].trade = u
        BY <1>2 DEF OpenIs
      <3>2. QED
        BY <2>1, <3>1
    <2>3. PICK y : y = record'[k] /\ y \in Entries
      BY <1>1
    <2>4. Asked(x)' /\ Asked(y)'
      BY <1>4, <1>5, <2>2, <2>3 DEF Asked
    <2>5. QED
      BY <1>4, <1>5, <2>2, <2>3, <2>4 DEF SameWords, SameTrade
  <1>9. Deploys'[n + 1] = Spent(e) - Overrun(e)'
    <2>1. n + 1 \in DOMAIN record' /\ record'[n + 1] = e
      BY <1>1
    <2>2. QED
      BY <2>1 DEF Deploys, Spent
  <1>10. /\ Apply(Budget, e).held = Budget.held \ {h}
         /\ e.kind = "failed" => Apply(Budget, e).settled = Budget.settled
         /\ e.kind = "completed" =>
               Apply(Budget, e).settled
                   >= Budget.settled + Smaller(e.amount, h.reserved) - (IF h.side = "sell" THEN e.got ELSE 0)
         /\ Apply(Budget, e).settled \in Nat /\ Budget.settled \in Nat
    <2>1. h \in HoldOf(Budget, e.trade)
      BY <1>6
    <2> HIDE DEF h
    <2>2. Apply(Budget, e) \in WholeBudgets
      BY <1>1, ApplyIsWhole
    <2>3. Apply(Budget, e).settled \in Nat /\ Budget.settled \in Nat
      BY <1>1, <2>2, OneHold
    <2>4. QED
      BY <1>1, <2>1, <2>3, EndIsWhole
  <1> HIDE DEF h
  <1>11. Deploys'[n + 1] <= Apply(Budget, e).settled - Budget.settled
    <2>1. CASE e.kind = "failed"
      <3>1. Spent(e) = 0 /\ Overrun(e)' = 0
        BY <2>1 DEF Spent, Overrun
      <3>2. QED
        BY <1>9, <1>10, <2>1, <3>1
    <2>2. CASE e.kind = "completed" /\ e.side = "buy"
      <3>1. Spent(e) = e.amount /\ e.got = 0
        BY <1>7, <2>2 DEF Spent
      <3>2. Wanted("buy", x.amount) = x.amount + FeeAllowance /\ FeeAllowance \in Nat
        BY LedgerAssumption DEF Wanted
      <3>3. h.reserved = Wanted("buy", x.amount) /\ h.side # "sell"
        BY <1>7, <2>2
      <3>4. Overrun(e)' = Larger(e.amount - Wanted("buy", x.amount), 0)
        BY <1>8, <2>2 DEF Overrun
      <3>5. e.amount - Larger(e.amount - Wanted("buy", x.amount), 0) = Smaller(e.amount, h.reserved)
            /\ Smaller(e.amount, h.reserved) \in Int
        <4>1. \A m, w \in Nat : m - Larger(m - w, 0) = Smaller(m, w) /\ Smaller(m, w) \in Int
          BY DEF Larger, Smaller
        <4>2. e.amount \in Nat /\ Wanted("buy", x.amount) \in Nat
          BY <1>7, <3>2
        <4>3. QED
          BY <3>3, <4>1, <4>2
      <3>6. QED
        BY <1>9, <1>10, <2>2, <3>1, <3>3, <3>4, <3>5
    <2>3. CASE e.kind = "completed" /\ e.side # "buy"
      <3>1. Spent(e) = 0 - e.got /\ e.amount = 0 /\ Overrun(e)' = 0
        BY <2>3 DEF Spent, Overrun
      <3>2. h.side = "sell" /\ h.reserved = 0
        BY <1>7, <2>3 DEF Wanted, Side
      <3>3. Smaller(e.amount, h.reserved) = 0
        BY <3>1, <3>2 DEF Smaller
      <3>4. QED
        BY <1>7, <1>9, <1>10, <2>3, <3>1, <3>2, <3>3
    <2>4. QED
      BY <2>1, <2>2, <2>3
  <1>12. QED
    BY <1>7, <1>10, <1>11, OtherGrows DEF n

-----------------------------------------------------------------------------
(* The ledger's steps.                                                     *)

LEMMA SameRecord ==
    ASSUME record' = record
    PROVE  /\ InOrder' <=> InOrder
           /\ BudgetKept' <=> BudgetKept
           /\ Budget' = Budget /\ Accepted' = Accepted /\ \A at : NothingSince(at)' <=> NothingSince(at)
  <1>1. Budget' = Budget /\ Accepted' = Accepted /\ Ended' = Ended /\ (InOrder' <=> InOrder)
    BY DEF Budget, Accepted, Ended, IdsOf, InOrder
  <1>2. \A at : NothingSince(at)' <=> NothingSince(at)
    BY DEF NothingSince
  <1>3. OpenAreHeld' <=> OpenAreHeld
    BY <1>1 DEF OpenAreHeld, HoldFor, WantedBy
  <1>4. HeldWereAsked' <=> HeldWereAsked
    BY <1>1 DEF HeldWereAsked, HoldFor, WantedBy
  <1>5. Deploys' = Deploys
    BY DEF Deploys, Spent, Overrun, IntentOf
  <1>6. DeployedIsSettled' <=> DeployedIsSettled
    BY <1>1, <1>5 DEF DeployedIsSettled
  <1>7. Smooth(ReadEvents(record))' <=> Smooth(ReadEvents(record))
    BY DEF Smooth, Fits, WantedBy, At
  <1>8. QED
    BY <1>1, <1>2, <1>3, <1>4, <1>6, <1>7 DEF BudgetKept

LEMMA NoTransactionIs ==
    NoTransaction \in Txns /\ NoTransaction.phase = "idle"
  BY LedgerAssumption DEF NoTransaction, Txns, Entries, Granted, Event, Side

LEMMA LedgerKnows ==
    ASSUME LedgerInv, NEW w \in Writers
    PROVE  /\ txn \in [Writers -> Txns] /\ txn[w] \in Txns /\ TxnKept(w) /\ NoWriter # w
           /\ now \in 1 .. MaxBegun /\ now \in Nat /\ MaxBegun \in Nat \ {0} /\ record \in Seq(Entries)
           /\ lock \in Writers \cup {NoWriter}
           /\ Budget \in WholeBudgets /\ Available(Budget) \in Nat
  <1>1. /\ txn \in [Writers -> Txns] /\ now \in 1 .. MaxBegun /\ MaxBegun \in Nat \ {0} /\ record \in Seq(Entries)
        /\ TxnKept(w) /\ NoWriter # w /\ lock \in Writers \cup {NoWriter}
    BY LedgerAssumption DEF LedgerInv, LedgerTypes
  <1>2. Budget \in WholeBudgets
    BY <1>1, BudgetIsRead DEF Budget
  <1>3. Available(Budget) \in Nat
    BY <1>2, OneHold
  <1>4. QED
    BY <1>1, <1>2, <1>3

\* One writer moves, and writes nothing.
LEMMA TxnMoves ==
    ASSUME LedgerInv, NEW w \in Writers, NEW x \in Txns, txn' = [txn EXCEPT ![w] = x], record' = record,
           now' \in 1 .. MaxBegun, now <= now', lock' \in Writers \cup {NoWriter},
           \A v \in Writers \ {w} : lock' = v <=> lock = v, TxnKept(w)',
           x.phase # "idle" /\ x.job.kind = "intended" => \A y \in Entries : Asked(y) => SameTrade(x.job, y)
    PROVE  LedgerInv'
  <1>1. /\ txn' \in [Writers -> Txns] /\ txn'[w] = x /\ \A v \in Writers \ {w} : txn'[v] = txn[v]
        /\ now \in 1 .. MaxBegun /\ MaxBegun \in Nat /\ record \in Seq(Entries)
    BY LedgerKnows
  <1>2. LedgerTypes'
    <2>1. Accepted' = Accepted
      BY SameRecord
    <2>2. \A i \in DOMAIN record : record[i].at < now /\ record[i].at \in Int
      <3>1. \A i \in DOMAIN record : record[i] \in Entries
        BY <1>1
      <3>2. \A i \in DOMAIN record : record[i].at \in Int
        BY <3>1 DEF Entries
      <3>3. QED
        BY <3>2 DEF LedgerInv, LedgerTypes
    <2>3. \A i \in DOMAIN record' : record'[i].at < now'
      BY <1>1, <2>2
    <2>4. \A i \in DOMAIN record' : record'[i].kind \in {"completed", "failed"} => record'[i].trade \in Accepted'
      BY <2>1 DEF LedgerInv, LedgerTypes
    <2>5. QED
      BY <1>1, <2>3, <2>4 DEF LedgerTypes
  <1>3. SameWords'
    <2> SUFFICES ASSUME NEW y \in Entries, NEW z \in Entries, Asked(y)', Asked(z)' PROVE SameTrade(y, z)
      BY DEF SameWords, SameTrade
    <2>1. \A u \in Entries : Asked(u)' => Asked(u) \/ (u = x.job /\ x.phase # "idle" /\ x.job.kind = "intended")
      BY <1>1 DEF Asked
    <2>2. (Asked(y) /\ Asked(z)) => SameTrade(y, z)
      BY DEF LedgerInv, SameWords
    <2>3. QED
      BY <2>1, <2>2 DEF SameTrade
  <1>4. ASSUME NEW v \in Writers PROVE TxnKept(v)'
    <2>1. CASE v = w
      BY <2>1
    <2>2. CASE v # w
      <3>1. txn'[v] = txn[v] /\ (lock' = v <=> lock = v) /\ TxnKept(v) /\ txn[v] \in Txns
        BY <1>1, <2>2, LedgerKnows
      <3>2. (InOrder' <=> InOrder) /\ Budget' = Budget /\ \A at : NothingSince(at)' <=> NothingSince(at)
        BY SameRecord
      <3>3. txn[v].job.at \in Int
        BY <3>1 DEF Txns, Entries
      <3>4. txn[v].phase # "idle" => txn[v].job.at < now'
        BY <1>1, <3>1, <3>3 DEF TxnKept
      <3>5. /\ txn[v].phase = "holding" /\ InOrder /\ NothingSince(txn[v].job.at) => txn[v].available = Available(Budget)
            /\ (lock = v <=> txn[v].phase = "holding") /\ (txn[v].phase # "idle" => txn[v].job \in Job)
        BY <3>1 DEF TxnKept
      <3>6. NothingSince(txn[v].job.at)' <=> NothingSince(txn[v].job.at)
        BY <3>1 DEF NothingSince
      <3>7. QED
        BY <3>1, <3>2, <3>4, <3>5, <3>6 DEF TxnKept
    <2>3. QED
      BY <2>1, <2>2
  <1>5. InOrder' => BudgetKept'
    BY SameRecord DEF LedgerInv
  <1>6. QED
    BY <1>2, <1>3, <1>4, <1>5 DEF LedgerInv

LEMMA InitLedgerInv == LedgerInit => LedgerInv
  <1> SUFFICES ASSUME LedgerInit PROVE LedgerInv
    OBVIOUS
  <1>1. PICK g \in Grants : record = <<Granted(0, g)>>
    BY DEF LedgerInit
  <1> DEFINE e == Granted(0, g)
  <1>2. e \in Entries /\ e.kind = "granted" /\ e.at = 0 /\ e.amount \in Nat
    BY LedgerAssumption DEF Granted, Event, Entries, Side
  <1> HIDE DEF e
  <1>3. /\ record = <<e>> /\ record \in Seq(Entries) /\ DOMAIN record = {1} /\ record[1] = e /\ Len(record) = 1
        /\ 1 .. Len(record) = {1}
    BY <1>1, <1>2 DEF e
  <1>4. now = 1 /\ lock = NoWriter /\ txn = [w \in Writers |-> NoTransaction] /\ 1 \in 1 .. MaxBegun
    BY LedgerAssumption DEF LedgerInit
  <1>5. LedgerTypes
    BY <1>2, <1>3, <1>4, NoTransactionIs DEF LedgerTypes
  <1>6. SameWords
    BY <1>2, <1>3, <1>4, NoTransactionIs DEF SameWords, Asked
  <1>7. \A w \in Writers : TxnKept(w)
    BY <1>4, NoTransactionIs, LedgerAssumption DEF TxnKept
  <1>8. ReadEvents(record) = <<e>>
    <2>1. \A i, j \in 1 .. Len(record) : i < j => record[i].at <= record[j].at
      BY <1>3
    <2>2. QED
      BY <1>3, <2>1, EntriesAreStamped, ReadAsWritten
  <1>9. Budget = Apply(NewBudget, e)
    <2> DEFINE none == <<>>
    <2>1. none \in Seq(Entries) /\ Append(none, e) = <<e>>
      OBVIOUS
    <2>2. Replay(none) = NewBudget
      BY ReplayOfNone
    <2> HIDE DEF none
    <2>3. QED
      BY <1>2, <1>8, <2>1, <2>2, ReplayOfMore DEF Budget
  <1>10. Budget.held = {} /\ Budget.settled = 0
    <2>1. NewBudget.held = {} /\ NewBudget.settled = 0 /\ NewBudget \in WholeBudgets
      BY ApplyIsTyped DEF NewBudget
    <2>2. QED
      BY <1>2, <1>9, <2>1, ApplyIsWhole
  <1>11. Smooth(ReadEvents(record))
    BY <1>2, <1>3, <1>8 DEF Smooth
  <1>12. OpenAreHeld /\ HeldWereAsked
    BY <1>2, <1>3, <1>10 DEF OpenAreHeld, HeldWereAsked
  <1>13. DeployedIsSettled
    <2>1. Deploys[1] = 0
      BY <1>2, <1>3 DEF Deploys, Spent, Overrun
    <2>2. 1 .. 1 = {1} /\ IsFiniteSet({1}) /\ {1} \ {1} = {}
      <3>1. IsFiniteSet({1})
        BY FS_Singleton
      <3>2. 1 .. 1 = {1} /\ {1} \ {1} = {}
        OBVIOUS
      <3>3. QED
        BY <3>1, <3>2
    <2>3. SumOver(Deploys, {1}) = Deploys[1] + SumOver(Deploys, {1} \ {1})
      BY <2>1, <2>2, SumOfOneMore
    <2>4. SumOver(Deploys, {1}) = 0
      BY <2>1, <2>2, <2>3, SumOfNothing
    <2>5. QED
      <3>1. \A i \in 1 .. Len(record) : i .. Len(record) = {1}
        BY <1>3, <2>2
      <3>2. ASSUME NEW i \in 1 .. Len(record) PROVE SumOver(Deploys, i .. Len(record)) <= Budget.settled
        <4>1. i .. Len(record) = {1}
          BY <3>1
        <4>2. SumOver(Deploys, i .. Len(record)) = 0
          BY <2>4, <4>1
        <4>3. QED
          BY <1>10, <4>2
      <3>3. QED
        BY <3>2 DEF DeployedIsSettled
  <1>14. QED
    BY <1>5, <1>6, <1>7, <1>11, <1>12, <1>13 DEF LedgerInv, BudgetKept

LEMMA BeginKeeps ==
    ASSUME LedgerInv, NEW w \in Writers, NEW job \in Entries, job \in Job, job.at = now, Begin(w, job),
           job.kind = "intended" => \A y \in Entries : Asked(y) => SameTrade(job, y)
    PROVE  LedgerInv'
  <1> DEFINE x == [phase |-> "begun", available |-> 0, job |-> job]
  <1>1. now' = now + 1 /\ now' \in 1 .. MaxBegun /\ now <= now' /\ txn[w].phase = "idle" /\ UNCHANGED <<record, lock>>
        /\ txn' = [txn EXCEPT ![w] = x]
    BY LedgerKnows DEF Begin, Moment
  <1>2. x \in Txns /\ x.phase = "begun" /\ x.job = job
    BY DEF Txns
  <1> HIDE DEF x
  <1>3. txn'[w] = x /\ lock # w /\ now \in Nat
    BY <1>1, LedgerKnows DEF TxnKept
  <1>4. TxnKept(w)'
    BY <1>1, <1>2, <1>3 DEF TxnKept
  <1>5. QED
    BY <1>1, <1>2, <1>4, LedgerKnows, TxnMoves

LEMMA ReserveKeeps ==
    ASSUME LedgerInv, NEW w \in Writers, NEW t \in Trades, NEW side \in Side, NEW amount \in Amounts,
           ReserveForTrade(w, t, side, amount)
    PROVE  LedgerInv'
  <1> DEFINE job == Intended(now, t, side, amount)
  <1>1. now \in 1 .. MaxBegun /\ MaxBegun \in Nat /\ amount \in Nat
    BY LedgerKnows, LedgerAssumption
  <1>2. /\ job \in Entries /\ job \in Job /\ job.at = now /\ job.kind = "intended" /\ job.trade = t /\ job.side = side
        /\ job.amount = amount
    BY <1>1 DEF Intended, Event, Entries, Job
  <1> HIDE DEF job
  <1>3. ASSUME NEW y \in Entries, Asked(y) PROVE SameTrade(job, y)
    <2>1. ASSUME NEW i \in DOMAIN record, y = record[i], record[i].kind = "intended", y.trade = t
          PROVE  y.side = side /\ y.amount = amount
      <3>1. y \in ToSet(record)
        BY <2>1 DEF ToSet
      <3>2. QED
        BY <2>1, <3>1 DEF ReserveForTrade
    <2>2. ASSUME NEW v \in Writers, y = txn[v].job, y.kind = "intended", y.trade = t
          PROVE  y.side = side /\ y.amount = amount
      <3>1. y \in {txn[u].job : u \in Writers}
        BY <2>2
      <3>2. QED
        BY <2>2, <3>1 DEF ReserveForTrade
    <2>3. QED
      BY <1>2, <1>3, <2>1, <2>2 DEF Asked, SameTrade
  <1>4. Begin(w, job)
    BY DEF ReserveForTrade, job
  <1>5. QED
    BY <1>2, <1>3, <1>4, BeginKeeps

LEMMA FundKeeps ==
    ASSUME LedgerInv, NEW w \in Writers, NEW amount \in Grants, Fund(w, amount)
    PROVE  LedgerInv'
  <1> DEFINE job == Granted(now, amount)
  <1>1. now \in 1 .. MaxBegun /\ MaxBegun \in Nat /\ amount \in Nat
    BY LedgerKnows, LedgerAssumption
  <1>2. job \in Entries /\ job \in Job /\ job.at = now /\ job.kind = "granted"
    BY <1>1 DEF Granted, Event, Entries, Job, Side
  <1> HIDE DEF job
  <1>3. Begin(w, job)
    BY DEF Fund, job
  <1>4. QED
    BY <1>2, <1>3, BeginKeeps

LEMMA LockKeeps == ASSUME LedgerInv, NEW w \in Writers, LockMachine(w) PROVE LedgerInv'
  <1> DEFINE x == [txn[w] EXCEPT !.phase = "holding", !.available = Available(Budget)]
  <1>1. /\ txn[w] \in Txns /\ txn[w].phase = "begun" /\ TxnKept(w) /\ lock = NoWriter /\ lock' = w
        /\ UNCHANGED <<now, record>> /\ Available(Budget) \in Nat
    BY LedgerKnows DEF LockMachine, RowIsFree
  <1>2. x \in Txns /\ x.phase = "holding" /\ x.available = Available(Budget) /\ x.job = txn[w].job
    BY <1>1 DEF Txns
  <1>3. txn' = [txn EXCEPT ![w] = x]
    BY LedgerKnows DEF LockMachine
  <1> HIDE DEF x
  <1>4. txn'[w] = x
    BY <1>3, LedgerKnows
  <1>5. Available(Budget)' = Available(Budget)
    BY <1>1, SameRecord DEF Available
  <1>6. TxnKept(w)'
    BY <1>1, <1>2, <1>4, <1>5 DEF TxnKept
  <1>7. \A v \in Writers \ {w} : lock' = v <=> lock = v
    BY <1>1, LedgerKnows
  <1>8. ASSUME x.job.kind = "intended", NEW y \in Entries, Asked(y) PROVE SameTrade(x.job, y)
    <2>1. Asked(x.job) /\ x.job \in Entries
      BY <1>1, <1>2, <1>8 DEF Asked, Txns
    <2>2. QED
      BY <1>8, <2>1 DEF LedgerInv, SameWords
  <1>9. now' \in 1 .. MaxBegun /\ now <= now'
    BY <1>1, LedgerKnows
  <1>10. QED
    BY <1>1, <1>2, <1>3, <1>6, <1>7, <1>8, <1>9, TxnMoves

LEMMA RollBackKeeps ==
    ASSUME LedgerInv, NEW w \in Writers, txn' = [txn EXCEPT ![w] = NoTransaction], UNCHANGED <<now, record>>,
           lock' = IF lock = w THEN NoWriter ELSE lock
    PROVE  LedgerInv'
  <1>1. txn'[w] = NoTransaction /\ lock' \in Writers \cup {NoWriter} /\ lock' # w
        /\ \A v \in Writers \ {w} : lock' = v <=> lock = v
    BY LedgerKnows
  <1>2. TxnKept(w)'
    BY <1>1, NoTransactionIs DEF TxnKept
  <1>3. now' \in 1 .. MaxBegun /\ now <= now'
    BY LedgerKnows
  <1>4. QED
    BY <1>1, <1>2, <1>3, NoTransactionIs, TxnMoves

\* What was asked for is written, by whoever has the row.
LEMMA WriteKeeps == ASSUME LedgerInv, NEW w \in Writers, Write(w) PROVE LedgerInv'
  <1>1. PICK e : e = txn[w].job
    OBVIOUS
  <1>2. /\ txn[w] \in Txns /\ TxnKept(w) /\ txn[w].phase = "holding" /\ lock = w /\ lock' = NoWriter /\ UNCHANGED now
        /\ txn' = [txn EXCEPT ![w] = NoTransaction] /\ e \in Entries /\ e \in Job /\ e.at < now
        /\ now \in 1 .. MaxBegun /\ MaxBegun \in Nat
    BY <1>1, LedgerKnows DEF Write, TxnKept, Txns
  <1>3. CASE record' = record
    BY <1>2, <1>3, RollBackKeeps
  <1>4. CASE record' = Append(record, e) /\ (e.kind = "intended" => Wanted(e.side, e.amount) <= txn[w].available)
    <2> DEFINE n == Len(record)
    <2>1. /\ n \in Nat /\ record \in Seq(Entries) /\ DOMAIN record = 1 .. n /\ DOMAIN record' = 1 .. n + 1
          /\ record' \in Seq(Entries) /\ record'[n + 1] = e
          /\ \A i \in 1 .. n : record'[i] = record[i] /\ record[i] \in Entries
      BY <1>2, <1>4, Grown
    <2> HIDE DEF n
    <2>2. e.kind \in {"granted", "intended"}
      BY <1>2 DEF Job
    <2>3. /\ txn' \in [Writers -> Txns] /\ txn'[w] = NoTransaction /\ \A v \in Writers \ {w} : txn'[v] = txn[v]
      BY <1>2, NoTransactionIs, LedgerKnows
    <2>4. LedgerTypes'
      <3>1. \A t : t \in Accepted => t \in Accepted'
        BY <2>1 DEF Accepted, IdsOf, ToSet
      <3>2. ASSUME NEW i \in 1 .. n + 1
            PROVE  record'[i].at < now /\ (record'[i].kind \in {"completed", "failed"} => record'[i].trade \in Accepted')
        <4>1. CASE i = n + 1
          BY <1>2, <2>1, <2>2, <4>1
        <4>2. CASE i # n + 1
          <5>1. i \in DOMAIN record /\ record'[i] = record[i]
            BY <2>1, <4>2
          <5>2. QED
            BY <3>1, <5>1 DEF LedgerInv, LedgerTypes
        <4>3. QED
          BY <4>1, <4>2
      <3>3. QED
        BY <1>2, <2>1, <2>3, <3>2 DEF LedgerTypes
    <2>5. SameWords'
      <3>1. \A y \in Entries : Asked(y)' => Asked(y)
        <4> SUFFICES ASSUME NEW y \in Entries, Asked(y)' PROVE Asked(y)
          OBVIOUS
        <4>1. CASE \E i \in DOMAIN record' : y = record'[i] /\ record'[i].kind = "intended"
          <5>1. PICK i \in 1 .. n + 1 : y = record'[i] /\ record'[i].kind = "intended"
            BY <2>1, <4>1
          <5>2. CASE i = n + 1
            <6>1. y = txn[w].job /\ txn[w].phase # "idle" /\ txn[w].job.kind = "intended"
              BY <1>1, <1>2, <2>1, <5>1, <5>2
            <6>2. QED
              BY <6>1 DEF Asked
          <5>3. CASE i # n + 1
            <6>1. i \in DOMAIN record /\ record'[i] = record[i]
              BY <2>1, <5>3
            <6>2. QED
              BY <5>1, <6>1 DEF Asked
          <5>4. QED
            BY <5>2, <5>3
        <4>2. CASE \E v \in Writers : y = txn'[v].job /\ txn'[v].phase # "idle" /\ txn'[v].job.kind = "intended"
          BY <2>3, <4>2, NoTransactionIs DEF Asked
        <4>3. QED
          BY <4>1, <4>2 DEF Asked
      <3>2. QED
        BY <3>1 DEF LedgerInv, SameWords, SameTrade
    <2>6. ASSUME NEW v \in Writers PROVE TxnKept(v)'
      <3>1. CASE v = w
        BY <1>2, <2>3, <3>1, NoTransactionIs, LedgerKnows DEF TxnKept
      <3>2. CASE v # w
        <4>1. txn'[v] = txn[v] /\ TxnKept(v) /\ txn[v].phase # "holding" /\ lock' # v
          BY <1>2, <2>3, <3>2, LedgerKnows DEF TxnKept
        <4>2. QED
          BY <1>2, <4>1 DEF TxnKept
      <3>3. QED
        BY <3>1, <3>2
    <2>7. ASSUME InOrder' PROVE BudgetKept'
      <3>1. InOrder /\ \A i \in 1 .. n : e.at < record[i].at => record[i].kind = "intended" /\ e.kind = "intended"
        BY <1>2, <1>4, <2>7, InOrderBefore DEF n
      <3>2. CASE e.kind = "granted"
        BY <1>2, <1>4, <2>4, <2>5, <2>7, <3>2, GrantGrows
      <3>3. CASE e.kind = "intended"
        <4>1. NothingSince(e.at)
          <5>1. e.at \in Int /\ \A i \in 1 .. n : record[i].at \in Int
            BY <1>2, <2>1 DEF Entries
          <5>2. QED
            BY <2>1, <3>1, <5>1 DEF NothingSince
        <4>2. txn[w].available = Available(Budget)
          BY <1>1, <1>2, <3>1, <4>1 DEF TxnKept
        <4>3. Fits(Budget, e)
          BY <1>4, <3>3, <4>2 DEF Fits, WantedBy
        <4>4. QED
          BY <1>2, <1>4, <2>4, <2>5, <2>7, <3>3, <4>3, IntentGrows
      <3>4. QED
        BY <2>2, <3>2, <3>3
    <2>8. QED
      BY <2>4, <2>5, <2>6, <2>7 DEF LedgerInv
  <1>5. QED
    <2>1. record' = (IF e.kind = "intended" /\ Wanted(e.side, e.amount) > txn[w].available THEN record ELSE Append(record, e))
      BY <1>1 DEF Write
    <2>2. Wanted(e.side, e.amount) \in Int /\ txn[w].available \in Int
      BY <1>2, ReserveIsWith, LedgerKnows DEF Txns, WantedBy, Wanted
    <2>3. QED
      BY <1>3, <1>4, <2>1, <2>2

\* What the chain did to an open trade, written down.
LEMMA EndKeeps ==
    ASSUME LedgerInv, NEW t \in Trades, t \in Open, NEW e \in Entries, record' = Append(record, e), e.at = now,
           Moment, UNCHANGED <<lock, txn>>, e.kind \in {"completed", "failed"}, e.trade = t,
           e.side = IntentOf(t).side, e.kind = "completed" => IF e.side = "buy" THEN e.got = 0 ELSE e.amount = 0
    PROVE  LedgerInv'
  <1> DEFINE n == Len(record)
  <1>1. /\ n \in Nat /\ record \in Seq(Entries) /\ DOMAIN record = 1 .. n /\ DOMAIN record' = 1 .. n + 1
        /\ record' \in Seq(Entries) /\ record'[n + 1] = e
        /\ \A i \in 1 .. n : record'[i] = record[i] /\ record[i] \in Entries
    BY Grown
  <1> HIDE DEF n
  <1>2. now' = now + 1 /\ now \in 1 .. MaxBegun /\ now' \in 1 .. MaxBegun /\ MaxBegun \in Nat
    BY LedgerAssumption DEF Moment, LedgerInv, LedgerTypes
  <1>3. t \in Accepted
    BY DEF Open
  <1>4. LedgerTypes'
    <2>1. \A u : u \in Accepted => u \in Accepted'
      BY <1>1 DEF Accepted, IdsOf, ToSet
    <2>2. ASSUME NEW i \in 1 .. n + 1
          PROVE  record'[i].at < now' /\ (record'[i].kind \in {"completed", "failed"} => record'[i].trade \in Accepted')
      <3>1. CASE i = n + 1
        BY <1>1, <1>2, <1>3, <2>1, <3>1
      <3>2. CASE i # n + 1
        <4>1. i \in DOMAIN record /\ record'[i] = record[i] /\ record[i].at \in Int
          BY <1>1, <3>2 DEF Entries
        <4>2. record[i].at < now /\ (record[i].kind \in {"completed", "failed"} => record[i].trade \in Accepted)
          BY <4>1 DEF LedgerInv, LedgerTypes
        <4>3. QED
          BY <1>2, <2>1, <4>1, <4>2
      <3>3. QED
        BY <3>1, <3>2
    <2>3. txn' \in [Writers -> Txns] /\ lock' \in Writers \cup {NoWriter}
      BY DEF LedgerInv, LedgerTypes
    <2>4. QED
      BY <1>1, <1>2, <2>2, <2>3 DEF LedgerTypes
  <1>5. SameWords'
    <2>1. \A y \in Entries : Asked(y)' => Asked(y)
      <3>1. \A i \in 1 .. n + 1 : record'[i].kind = "intended" => i \in DOMAIN record /\ record'[i] = record[i]
        BY <1>1
      <3>2. QED
        BY <1>1, <3>1 DEF Asked
    <2>2. QED
      BY <2>1 DEF LedgerInv, SameWords, SameTrade
  <1>6. ASSUME NEW v \in Writers PROVE TxnKept(v)'
    <2>1. TxnKept(v) /\ txn'[v] = txn[v] /\ txn[v] \in Txns
      BY LedgerKnows
    <2>2. txn[v].job.at \in Int
      BY <2>1 DEF Txns, Entries
    <2>3. txn[v].phase # "idle" => txn[v].job \in Job /\ txn[v].job.at < now
      BY <2>1 DEF TxnKept
    <2>4. txn[v].phase # "idle" => ~NothingSince(txn[v].job.at)'
      <3>1. n + 1 \in DOMAIN record' /\ record'[n + 1].at = now /\ record'[n + 1].kind # "intended"
        BY <1>1
      <3>2. QED
        BY <2>1, <2>2, <2>3, <3>1, <1>2 DEF NothingSince
    <2>5. (lock' = v <=> txn'[v].phase = "holding") /\ (txn'[v].phase # "idle" => txn'[v].job.at < now')
      BY <1>2, <2>1, <2>2, <2>3 DEF TxnKept
    <2>6. QED
      BY <2>1, <2>3, <2>4, <2>5 DEF TxnKept
  <1>7. ASSUME InOrder' PROVE BudgetKept'
    BY <1>4, <1>5, <1>7, EndGrows
  <1>8. QED
    BY <1>4, <1>5, <1>6, <1>7 DEF LedgerInv

LEMMA SettleKeeps ==
    ASSUME LedgerInv, NEW t \in Trades, NEW fee \in Fees, NEW got \in Amounts, SettleTrade(t, fee, got)
    PROVE  LedgerInv'
  <1>1. t \in Open /\ Moment /\ UNCHANGED <<lock, txn>>
    BY DEF SettleTrade
  <1>2. PICK i : i = IntentOf(t) /\ i \in Entries
    <2>1. OpenIs /\ record \in Seq(Entries)
      BY WhoIsOpen DEF LedgerInv, LedgerTypes
    <2>2. t \in Accepted
      BY <1>1 DEF Open
    <2>3. QED
      BY <2>1, <2>2 DEF OpenIs
  <1>3. now \in 0 .. MaxBegun /\ fee \in Nat /\ got \in Nat /\ i.amount \in Nat /\ i.amount + fee \in Nat /\ i.side \in Side
    BY <1>2, LedgerAssumption DEF LedgerInv, LedgerTypes, Entries
  <1>4. CASE i.side = "buy"
    <2> DEFINE e == Completed(now, t, "buy", i.amount + fee, 0)
    <2>1. e \in Entries /\ e.at = now /\ e.kind = "completed" /\ e.trade = t /\ e.side = "buy" /\ e.got = 0
      BY <1>3 DEF Completed, Event, Entries, Side
    <2>2. record' = Append(record, e)
      BY <1>2, <1>4 DEF SettleTrade
    <2> HIDE DEF e
    <2>3. QED
      BY <1>1, <1>2, <1>4, <2>1, <2>2, EndKeeps
  <1>5. CASE i.side # "buy"
    <2> DEFINE e == Completed(now, t, "sell", 0, got)
    <2>1. e \in Entries /\ e.at = now /\ e.kind = "completed" /\ e.trade = t /\ e.side = "sell" /\ e.amount = 0
      BY <1>3 DEF Completed, Event, Entries, Side
    <2>2. record' = Append(record, e) /\ i.side = "sell"
      BY <1>2, <1>3, <1>5 DEF SettleTrade, Side
    <2> HIDE DEF e
    <2>3. QED
      BY <1>1, <1>2, <2>1, <2>2, EndKeeps
  <1>6. QED
    BY <1>4, <1>5

LEMMA ReleaseKeeps == ASSUME LedgerInv, NEW t \in Trades, ReleaseTrade(t) PROVE LedgerInv'
  <1>1. t \in Open /\ Moment /\ UNCHANGED <<lock, txn>>
    BY DEF ReleaseTrade
  <1>2. PICK i : i = IntentOf(t) /\ i \in Entries
    <2>1. OpenIs /\ record \in Seq(Entries)
      BY WhoIsOpen DEF LedgerInv, LedgerTypes
    <2>2. t \in Accepted
      BY <1>1 DEF Open
    <2>3. QED
      BY <2>1, <2>2 DEF OpenIs
  <1>3. now \in 0 .. MaxBegun /\ i.side \in Side
    BY <1>2, LedgerAssumption DEF LedgerInv, LedgerTypes, Entries
  <1> DEFINE e == Failed(now, t, i.side)
  <1>4. e \in Entries /\ e.at = now /\ e.kind = "failed" /\ e.trade = t /\ e.side = i.side
    BY <1>3 DEF Failed, Event, Entries
  <1>5. record' = Append(record, e)
    BY <1>2 DEF ReleaseTrade
  <1> HIDE DEF e
  <1>6. QED
    BY <1>1, <1>2, <1>4, <1>5, EndKeeps

LEMMA NextLedgerInv == LedgerInv /\ [LedgerNext]_ledgerVars => LedgerInv'
  <1> SUFFICES ASSUME LedgerInv, [LedgerNext]_ledgerVars PROVE LedgerInv'
    OBVIOUS
  <1>1. CASE UNCHANGED ledgerVars
    <2>1. UNCHANGED <<now, record, lock, txn>>
      BY <1>1 DEF ledgerVars
    <2>2. /\ (InOrder' <=> InOrder) /\ (BudgetKept' <=> BudgetKept) /\ Budget' = Budget /\ Accepted' = Accepted
      BY <2>1, SameRecord
    <2>3. LedgerTypes' /\ SameWords'
      BY <2>1, <2>2 DEF LedgerInv, LedgerTypes, SameWords, Asked, SameTrade
    <2>4. \A w \in Writers : TxnKept(w)'
      BY <2>1, <2>2 DEF LedgerInv, TxnKept, NothingSince
    <2>5. QED
      BY <2>2, <2>3, <2>4 DEF LedgerInv
  <1>2. ASSUME NEW w \in Writers, RollBack(w) PROVE LedgerInv'
    BY <1>2, RollBackKeeps DEF RollBack
  <1>3. QED
    BY <1>1, <1>2, ReserveKeeps, FundKeeps, LockKeeps, WriteKeeps, SettleKeeps, ReleaseKeeps DEF LedgerNext

LEMMA LedgerInvHolds == LedgerSpec => []LedgerInv
  BY InitLedgerInv, NextLedgerInv, PTL DEF LedgerSpec

LEMMA LedgerInvIsTyped == LedgerInv => LedgerTypeOK
  <1> SUFFICES ASSUME LedgerInv PROVE LedgerTypeOK
    OBVIOUS
  <1>1. record \in Seq(Entries) /\ now \in 1 .. MaxBegun /\ lock \in Writers \cup {NoWriter} /\ MaxBegun \in Nat
    BY LedgerAssumption DEF LedgerInv, LedgerTypes
  <1>2. \A i \in DOMAIN record : record[i] \in Entries
    BY <1>1
  <1>3. \A w \in Writers : txn[w] \in Txns /\ TxnKept(w)
    BY LedgerKnows
  <1>4. now \in 0 .. MaxBegun
    BY <1>1
  <1>5. QED
    BY <1>1, <1>2, <1>3, <1>4 DEF LedgerTypeOK, Entries, Txns, TxnKept

LEMMA TypedIsWhole == LedgerTypes => BudgetIsWhole
  <1> SUFFICES ASSUME LedgerTypes, NEW n \in 1 .. Len(record), NEW b, b = Replay(ReadEvents(SubSeq(record, 1, n)))
               PROVE  /\ b.reserved = MapThenSumSet(LAMBDA h : h.reserved, b.held)
                      /\ b.settled >= 0 /\ b.reserved + b.settled <= b.granted
    BY DEF BudgetIsWhole
  <1>1. SubSeq(record, 1, n) \in Seq(Entries)
    <2>1. record \in Seq(Entries)
      BY DEF LedgerTypes
    <2>2. QED
      BY <2>1
  <1>2. b \in WholeBudgets
    BY <1>1, BudgetIsRead
  <1>3. b.reserved = HeldIn(b.held) /\ b.settled \in Nat /\ b.reserved + b.settled <= b.granted
    BY <1>2, OneHold
  <1>4. QED
    BY <1>3 DEF HeldIn

LEMMA KeptIsHeld == LedgerInv => AcceptedIsHeld
  <1> SUFFICES ASSUME LedgerInv, InOrder, NEW t \in Open PROVE HoldOf(Budget, t) # {}
    BY DEF AcceptedIsHeld
  <1>1. OpenIs /\ OpenAreHeld /\ t \in Accepted /\ t \notin Ended
    BY WhoIsOpen DEF LedgerInv, BudgetKept, Open
  <1>2. PICK i \in DOMAIN record : record[i].kind = "intended" /\ record[i].trade = t
    BY <1>1 DEF OpenIs
  <1>3. HoldFor(record[i]) \in Budget.held /\ HoldFor(record[i]).trade = t
    BY <1>1, <1>2 DEF OpenAreHeld, HoldFor
  <1>4. QED
    BY <1>3 DEF HoldOf

LEMMA KeptIsWithin == LedgerInv => DeployedWithinGrant
  <1> SUFFICES ASSUME LedgerInv, InOrder, NEW i \in DOMAIN record
               PROVE  MapThenSumSet(LAMBDA j : Spent(record[j]) - Overrun(record[j]), i .. Len(record)) <= Budget.granted
    BY DEF DeployedWithinGrant
  <1>1. LedgerTypes /\ record \in Seq(Entries) /\ DeployedIsSettled
    BY DEF LedgerInv, LedgerTypes, BudgetKept
  <1>2. Len(record) \in Nat /\ DOMAIN record = 1 .. Len(record) /\ i \in 1 .. Len(record)
    BY <1>1
  <1>3. i .. Len(record) \in SUBSET DOMAIN record
    BY <1>2
  <1>4. MapThenSumSet(LAMBDA j : Spent(record[j]) - Overrun(record[j]), i .. Len(record))
            = SumOver(Deploys, i .. Len(record))
    BY <1>1, <1>3, DeploysAreNumbers DEF DeploysAre
  <1>5. SumOver(Deploys, i .. Len(record)) <= Budget.settled
    BY <1>1, <1>2 DEF DeployedIsSettled
  <1>6. SumOver(Deploys, i .. Len(record)) \in Int
    <2>1. IsFiniteSet(i .. Len(record)) /\ i \in i .. Len(record)
      BY <1>2, FS_Interval
    <2>2. \A j \in i .. Len(record) : Deploys[j] \in Int
      BY <1>1, <1>3, DeploysAreNumbers DEF DeploysAre
    <2>3. QED
      BY <2>1, <2>2, SumOfOneMore
  <1>7. Budget.settled \in Nat /\ Budget.granted \in Nat /\ Budget.settled <= Budget.granted
    <2>1. Budget \in WholeBudgets
      BY <1>1, BudgetIsRead DEF Budget
    <2>2. Budget.settled \in Nat /\ Budget.granted \in Nat /\ Budget.reserved \in Nat
          /\ Budget.reserved + Budget.settled <= Budget.granted
      BY <2>1, OneHold
    <2>3. QED
      BY <2>2
  <1>8. SumOver(Deploys, i .. Len(record)) <= Budget.granted
    <2>1. \A n, m, k \in Int : n <= m /\ m <= k => n <= k
      OBVIOUS
    <2>2. QED
      BY <1>5, <1>6, <1>7, <2>1
  <1>9. QED
    BY <1>4, <1>8, Zenon

(* The three numbers of a budget belong together (budget.ts:4-8) after any *)
(* events in any order: what is reserved is what the unfinished trades     *)
(* hold, nothing lets go of more than is reserved, and what is committed   *)
(* never exceeds the grant.                                                *)
THEOREM BudgetStaysWhole == LedgerSpec => []BudgetIsWhole
  BY LedgerInvHolds, TypedIsWhole, PTL DEF LedgerInv

(* Two trades never both spend the last of a budget (ledger.ts:4-6): while *)
(* the record's two orders agree, any number of signers and owners at once *)
(* leave every accepted trade held until it has ended.                     *)
THEOREM AcceptedTradesAreHeld == LedgerSpec => []AcceptedIsHeld
  BY LedgerInvHolds, KeptIsHeld, PTL

(* A grant limits what is deployed at once (budget.ts credit): over any    *)
(* stretch of the record, what left less what came home is within it, but  *)
(* for what sending cost over its allowance.                               *)
THEOREM GrantIsALimit == LedgerSpec => []DeployedWithinGrant
  BY LedgerInvHolds, KeptIsWithin, PTL

-----------------------------------------------------------------------------
(* Signing in: the strengthening.  OneRowEach: a nonce has one row, and was issued.  ProvedIsSpent:  *)
(* where a request got past its proof, the row of its nonce is spent, if it*)
(* is still there.  LinkingOwners: who asks for a wallet is an owner.  OneOwner, *)
(* HasItsWallet: a wallet has one owner, and it is the one the request was told.   *)
Demand == [step : Steps, for : {"signIn", "link"}, nonce : Nonces, wallet : Wallets,
            owner : Owners \cup {NoOwner}, at : Nat, expires : Nat]

SignInShape ==
    /\ clock \in 0 .. MaxClock
    /\ issued \subseteq Nonces
    /\ owners \in [Owners -> Wallets \cup {NoWallet, NoOwner}]
    /\ asked \in [Requests -> {NotAsked, Refused} \cup Demand]

OneRowEach ==
    /\ nonces \subseteq NonceRow
    /\ \A row \in nonces : row.nonce \in issued
    /\ \A one, other \in nonces : one.nonce = other.nonce => one = other

NamesAnIssued == \A r \in Requests : asked[r] \in Demand => asked[r].nonce \in issued

ProvedIsSpent ==
    \A r \in Requests : Proved(r) =>
        \A row \in nonces : row.nonce = asked[r].nonce => row.used

\* A request to link a wallet, on its way.
IsLinking(r) ==
    \/ asked[r].step \in {"linking", "setting"}
    \/ asked[r].step = "proving" /\ asked[r].for = "link"

LinkingOwners == \A r \in Requests : IsLinking(r) => asked[r].owner \in Owners /\ Made(asked[r].owner)

OneOwner == \A o, p \in Owners : owners[o] \in Wallets /\ owners[o] = owners[p] => o = p

HasItsOwner(r) == asked[r].step \in {"starting", "signedIn", "linked", "ended"}
HasItsWallet == \A r \in Requests : HasItsOwner(r) => asked[r].owner \in Owners /\ owners[asked[r].owner] = asked[r].wallet

NonceInv == OneRowEach /\ NamesAnIssued /\ ProvedIsSpent /\ NonceAnsweredOnce
OwnerInv == LinkingOwners /\ OneOwner /\ HasItsWallet
SignInInv == SignInShape /\ NonceInv /\ OwnerInv

-----------------------------------------------------------------------------
(* A request that is at a step of its way has all its fields.              *)
LEMMA AtAStep ==
    ASSUME SignInShape, NEW r \in Requests, asked[r].step \in Steps
    PROVE  asked[r] \in Demand
  <1>1. NotAsked.step \notin Steps /\ Refused.step \notin Steps
    BY DEF NotAsked, Refused, Steps
  <1>2. QED
    BY <1>1 DEF SignInShape

(* A request that arrives, moves on or ends is the only one that changes.  *)
LEMMA InitSignInInv == SignInInit => SignInInv
  <1> SUFFICES ASSUME SignInInit PROVE SignInInv
    OBVIOUS
  <1>1. \A r \in Requests : asked[r] = NotAsked /\ asked[r].step = "new"
    BY DEF SignInInit, NotAsked
  <1>2. SignInShape
    BY SignInAssumption DEF SignInInit, SignInShape
  <1>3. \A r \in Requests : asked[r] \notin Demand
    BY <1>1 DEF Demand, Steps
  <1>4. NonceInv
    BY <1>1, <1>3 DEF SignInInit, NonceInv, OneRowEach, NamesAnIssued, ProvedIsSpent, Proved, NonceAnsweredOnce
  <1>5. OwnerInv
    BY <1>1, SignInAssumption DEF SignInInit, OwnerInv, LinkingOwners, IsLinking, OneOwner, HasItsWallet, HasItsOwner
  <1>6. QED
    BY <1>2, <1>4, <1>5 DEF SignInInv

-----------------------------------------------------------------------------
(* What a step leaves alone.                                               *)

\* A request with all its fields stays with them, at another step.
LEMMA AskedMoves ==
    ASSUME SignInShape, NEW r \in Requests, asked[r].step \in Steps, NEW s \in Steps, StepTo(r, s)
    PROVE  /\ asked' \in [Requests -> {NotAsked, Refused} \cup Demand]
           /\ asked'[r] \in Demand /\ asked'[r] = [asked[r] EXCEPT !.step = s]
           /\ \A q \in Requests \ {r} : asked'[q] = asked[q]
  <1>1. asked[r] \in Demand
    BY AtAStep
  <1>2. [asked[r] EXCEPT !.step = s] \in Demand
    BY <1>1 DEF Demand
  <1>3. asked \in [Requests -> {NotAsked, Refused} \cup Demand]
    BY DEF SignInShape
  <1>4. asked' = [asked EXCEPT ![r] = [asked[r] EXCEPT !.step = s]]
    BY DEF StepTo
  <1>5. QED
    BY <1>1, <1>2, <1>3, <1>4

\* A request that is refused, and nothing else.
LEMMA Refusals ==
    ASSUME SignInShape, NEW r \in Requests, Refuse(r)
    PROVE  /\ asked' \in [Requests -> {NotAsked, Refused} \cup Demand]
           /\ asked'[r] = Refused /\ asked'[r].step = "refused" /\ asked'[r] \notin Demand
           /\ \A q \in Requests \ {r} : asked'[q] = asked[q]
  <1>1. Refused.step = "refused" /\ Refused \notin Demand
    BY DEF Refused, Demand, Steps
  <1>2. QED
    BY <1>1 DEF SignInShape, Refuse

\* No request gets past its proof, and no row is added.
SameProofs ==
    /\ nonces' \subseteq nonces /\ issued' = issued
    /\ \A q \in Requests :
          /\ asked'[q] \in Demand => asked[q] \in Demand /\ asked'[q].nonce = asked[q].nonce
          /\ Proved(q)' => Proved(q) /\ asked'[q].nonce = asked[q].nonce

LEMMA NonceKept == SignInInv /\ SameProofs => NonceInv'
  <1> SUFFICES ASSUME SignInInv, SameProofs PROVE NonceInv'
    OBVIOUS
  <1> USE DEF SignInInv, NonceInv, SameProofs
  <1>1. OneRowEach'
    BY DEF OneRowEach
  <1>2. NamesAnIssued'
    BY DEF NamesAnIssued
  <1>3. ProvedIsSpent'
    BY DEF ProvedIsSpent
  <1>4. NonceAnsweredOnce'
    BY DEF NonceAnsweredOnce
  <1>5. QED
    BY <1>1, <1>2, <1>3, <1>4

\* No owner changes, nobody is told anything new, and nobody new is linking.
SameOwners ==
    /\ owners' = owners
    /\ \A q \in Requests :
          /\ HasItsOwner(q)' => /\ HasItsOwner(q)
                         /\ asked'[q].owner = asked[q].owner /\ asked'[q].wallet = asked[q].wallet
          /\ IsLinking(q)' => IsLinking(q) /\ asked'[q].owner = asked[q].owner

LEMMA OwnersKept == SignInInv /\ SameOwners => OwnerInv'
  <1> SUFFICES ASSUME SignInInv, SameOwners PROVE OwnerInv'
    OBVIOUS
  <1> USE DEF SignInInv, OwnerInv, SameOwners
  <1>1. LinkingOwners'
    BY DEF LinkingOwners, Made
  <1>2. OneOwner'
    BY DEF OneOwner
  <1>3. HasItsWallet'
    BY DEF HasItsWallet
  <1>4. QED
    BY <1>1, <1>2, <1>3

-----------------------------------------------------------------------------
(* The steps.                                                              *)

LEMMA IssuingKeeps ==
    ASSUME SignInInv, NEW n \in Nonces, NEW w \in Wallets, IssueNonce(n, w) PROVE SignInInv'
  <1> DEFINE new == [nonce |-> n, wallet |-> w, expires |-> clock + NonceValid, used |-> FALSE]
  <1>1. /\ n \notin issued /\ nonces' = nonces \cup {new} /\ issued' = issued \cup {n}
        /\ UNCHANGED <<clock, owners, asked>>
    BY DEF IssueNonce
  <1>2. SignInShape' /\ SameOwners
    BY <1>1 DEF SignInInv, SignInShape, SameOwners, HasItsOwner, IsLinking
  <1>3. new \in NonceRow /\ new.nonce = n
    BY SignInAssumption DEF SignInInv, SignInShape, NonceRow
  <1> HIDE DEF new
  <1>4. OneRowEach'
    BY <1>1, <1>3 DEF SignInInv, NonceInv, OneRowEach
  <1>5. NamesAnIssued' /\ NonceAnsweredOnce'
    BY <1>1 DEF SignInInv, NonceInv, NamesAnIssued, NonceAnsweredOnce, Proved
  <1>6. ProvedIsSpent'
    <2> SUFFICES ASSUME NEW q \in Requests, Proved(q), NEW row \in nonces', row.nonce = asked[q].nonce
                 PROVE  row.used
      BY <1>1 DEF ProvedIsSpent, Proved
    <2>1. asked[q].step \in Steps
      BY DEF Proved, Steps
    <2>2. asked[q].nonce \in issued
      BY <2>1, AtAStep DEF SignInInv, NonceInv, NamesAnIssued
    <2>3. row \in nonces
      BY <1>1, <1>3, <2>2
    <2>4. QED
      BY <2>3 DEF SignInInv, NonceInv, ProvedIsSpent
  <1>7. QED
    BY <1>2, <1>4, <1>5, <1>6, OwnersKept DEF SignInInv, NonceInv

LEMMA MakingOwnersKeeps ==
    ASSUME SignInInv, NEW o \in Owners, CreateOwnerForUser(o) PROVE SignInInv'
  <1>1. owners[o] = NoOwner /\ owners' = [owners EXCEPT ![o] = NoWallet]
        /\ UNCHANGED <<clock, nonces, issued, asked>>
    BY DEF CreateOwnerForUser, Made
  <1>2. SignInShape' /\ SameProofs
    BY <1>1 DEF SignInInv, SignInShape, SameProofs, Proved
  <1>3. OneOwner'
    BY <1>1, SignInAssumption DEF SignInInv, OwnerInv, OneOwner, SignInShape
  <1>4. LinkingOwners'
    BY <1>1, SignInAssumption DEF SignInInv, OwnerInv, LinkingOwners, IsLinking, SignInShape, Made
  <1>5. HasItsWallet'
    <2> SUFFICES ASSUME NEW q \in Requests, HasItsOwner(q)
                 PROVE  asked[q].owner \in Owners /\ owners'[asked[q].owner] = asked[q].wallet
      BY <1>1 DEF HasItsWallet, HasItsOwner
    <2>1. asked[q].step \in Steps
      BY DEF HasItsOwner, Steps
    <2>2. asked[q].wallet \in Wallets
      BY <2>1, AtAStep DEF SignInInv, Demand
    <2>3. asked[q].owner \in Owners /\ owners[asked[q].owner] = asked[q].wallet
      BY DEF SignInInv, OwnerInv, HasItsWallet
    <2>4. asked[q].owner # o
      BY <1>1, <2>2, <2>3, SignInAssumption
    <2>5. QED
      BY <1>1, <2>3, <2>4 DEF SignInInv, SignInShape
  <1>6. QED
    BY <1>2, <1>3, <1>4, <1>5, NonceKept DEF SignInInv, OwnerInv

LEMMA ArrivingKeeps ==
    ASSUME SignInInv, NEW r \in Requests, NEW for \in {"signIn", "link"}, NEW n \in Nonces,
           NEW w \in Wallets, NEW o \in Owners \cup {NoOwner}, Arrive(r, for, n, w, o),
           for = "link" => o \in Owners /\ Made(o)
    PROVE  SignInInv'
  <1> DEFINE new == [step |-> "proving", for |-> for, nonce |-> n, wallet |-> w, owner |-> o,
                     at |-> clock, expires |-> 0]
  <1>1. n \in issued /\ asked' = [asked EXCEPT ![r] = new] /\ UNCHANGED <<clock, nonces, issued, owners>>
    BY DEF Arrive
  <1>2. new \in Demand
    BY SignInAssumption DEF SignInInv, SignInShape, Demand, Steps
  <1>3. /\ asked'[r] = new /\ asked'[r].step = "proving" /\ asked'[r].for = for
        /\ asked'[r].nonce = n /\ asked'[r].owner = o
        /\ \A q \in Requests \ {r} : asked'[q] = asked[q]
    BY <1>1 DEF SignInInv, SignInShape
  <1>4. SignInShape'
    BY <1>1, <1>2 DEF SignInInv, SignInShape
  <1> HIDE DEF new
  <1>5. OneRowEach' /\ NamesAnIssued'
    BY <1>1, <1>3 DEF SignInInv, NonceInv, OneRowEach, NamesAnIssued
  <1>6. \A q \in Requests : Proved(q)' => q # r /\ Proved(q) /\ asked'[q] = asked[q]
    BY <1>3 DEF Proved
  <1>7. ProvedIsSpent' /\ NonceAnsweredOnce'
    BY <1>1, <1>6 DEF SignInInv, NonceInv, ProvedIsSpent, NonceAnsweredOnce
  <1>8. LinkingOwners'
    BY <1>1, <1>3 DEF SignInInv, OwnerInv, LinkingOwners, IsLinking, Made
  <1>9. OneOwner' /\ HasItsWallet'
    BY <1>1, <1>3 DEF SignInInv, OwnerInv, OneOwner, HasItsWallet, HasItsOwner
  <1>10. QED
    BY <1>4, <1>5, <1>7, <1>8, <1>9 DEF SignInInv, NonceInv, OwnerInv

LEMMA RefusingKeeps ==
    ASSUME SignInInv, NEW r \in Requests, Refuse(r), UNCHANGED <<clock, nonces, issued, owners>>
    PROVE  SignInInv'
  <1>1. /\ asked' \in [Requests -> {NotAsked, Refused} \cup Demand]
        /\ asked'[r].step = "refused" /\ asked'[r] \notin Demand
        /\ \A q \in Requests \ {r} : asked'[q] = asked[q]
    BY Refusals DEF SignInInv
  <1>2. SignInShape'
    BY <1>1 DEF SignInInv, SignInShape
  <1>3. SameProofs
    BY <1>1 DEF SameProofs, Proved
  <1>4. SameOwners
    BY <1>1 DEF SameOwners, HasItsOwner, IsLinking
  <1>5. QED
    BY <1>2, <1>3, <1>4, NonceKept, OwnersKept DEF SignInInv

(* The update touches the one row that names the request's nonce, and that *)
(* row was not spent, so nobody else had got past his proof with it.       *)
LEMMA SpendingKeeps == ASSUME SignInInv, NEW r \in Requests, SpendNonce(r) PROVE SignInInv'
  <1>1. asked[r].step = "proving" /\ UNCHANGED <<clock, issued, owners>>
    BY DEF SpendNonce
  <1>2. CASE ~\E row \in nonces : Spendable(row, r)
    BY <1>1, <1>2, RefusingKeeps DEF SpendNonce
  <1>3. CASE \E row \in nonces : Spendable(row, r)
    <2> DEFINE next == IF asked[r].for = "signIn" THEN "making" ELSE "linking"
               spent(row) == IF Spendable(row, r) THEN [row EXCEPT !.used = TRUE] ELSE row
    <2>1. nonces' = {spent(row) : row \in nonces} /\ StepTo(r, next)
      BY <1>3 DEF SpendNonce
    <2>2. asked[r] \in Demand /\ next \in Steps /\ "proving" \in Steps
      BY <1>1, AtAStep DEF SignInInv, Steps
    <2>3. /\ asked' \in [Requests -> {NotAsked, Refused} \cup Demand]
          /\ asked'[r] \in Demand /\ asked'[r] = [asked[r] EXCEPT !.step = next]
          /\ \A q \in Requests \ {r} : asked'[q] = asked[q]
      BY <1>1, <2>1, <2>2, AskedMoves DEF SignInInv
    <2>4. /\ asked'[r].step = next /\ asked'[r].nonce = asked[r].nonce
          /\ asked'[r].owner = asked[r].owner
      BY <2>2, <2>3 DEF Demand
    <2>5. SignInShape'
      BY <1>1, <2>3 DEF SignInInv, SignInShape
    <2>6. \A row \in nonces :
             /\ spent(row) \in NonceRow /\ spent(row).nonce = row.nonce
             /\ row.used => spent(row).used
             /\ Spendable(row, r) => spent(row).used
      BY DEF SignInInv, NonceInv, OneRowEach, NonceRow
    <2>7. PICK mine \in nonces : Spendable(mine, r)
      BY <1>3
    <2>8. mine.nonce = asked[r].nonce /\ ~mine.used
      BY <2>7 DEF Spendable
    <2> HIDE DEF next, spent
    <2>9. OneRowEach'
      BY <1>1, <2>1, <2>6 DEF SignInInv, NonceInv, OneRowEach
    <2>10. NamesAnIssued'
      BY <1>1, <2>2, <2>3, <2>4 DEF SignInInv, NonceInv, NamesAnIssued
    <2>11. \A q \in Requests : Proved(q) => asked[q].nonce # asked[r].nonce
      BY <2>8 DEF SignInInv, NonceInv, ProvedIsSpent
    <2>12. \A q \in Requests \ {r} : (Proved(q)' <=> Proved(q)) /\ asked'[q].nonce = asked[q].nonce
      BY <2>3 DEF Proved
    <2>13. NonceAnsweredOnce'
      <3> SUFFICES ASSUME NEW q \in Requests, NEW p \in Requests, Proved(q)', Proved(p)',
                          asked'[q].nonce = asked'[p].nonce
                   PROVE  q = p
        BY DEF NonceAnsweredOnce
      <3>1. CASE q = r \/ p = r
        BY <3>1, <2>4, <2>11, <2>12
      <3>2. CASE q # r /\ p # r
        BY <3>2, <2>12 DEF SignInInv, NonceInv, NonceAnsweredOnce
      <3>3. QED
        BY <3>1, <3>2
    <2>14. ProvedIsSpent'
      <3> SUFFICES ASSUME NEW q \in Requests, Proved(q)', NEW row \in nonces, row.nonce = asked'[q].nonce
                   PROVE  spent(row).used
        BY <2>1, <2>6 DEF ProvedIsSpent
      <3>1. CASE q = r
        BY <3>1, <2>4, <2>6, <2>7, <2>8 DEF SignInInv, NonceInv, OneRowEach
      <3>2. CASE q # r
        BY <3>2, <2>6, <2>12 DEF SignInInv, NonceInv, ProvedIsSpent
      <3>3. QED
        BY <3>1, <3>2
    <2>15. SameOwners
      <3>1. asked'[r].step \notin {"starting", "signedIn", "linked", "ended", "setting", "proving"}
        BY <2>4 DEF next
      <3>2. asked'[r].step = "linking" => asked[r].for = "link"
        BY <2>2, <2>4 DEF next, Demand
      <3>3. IsLinking(r)' => IsLinking(r) /\ ~HasItsOwner(r)'
        BY <1>1, <3>1, <3>2 DEF IsLinking, HasItsOwner
      <3>4. QED
        BY <1>1, <2>3, <2>4, <3>1, <3>3 DEF SameOwners, HasItsOwner, IsLinking
    <2>16. QED
      BY <2>5, <2>9, <2>10, <2>13, <2>14, <2>15, OwnersKept DEF SignInInv, NonceInv
  <1>4. QED
    BY <1>2, <1>3

(* The wallet's owner is found, or made for it: either way it is the one   *)
(* owner of that wallet the request is told.                               *)
LEMMA CreatingKeeps ==
    ASSUME SignInInv, NEW r \in Requests, NEW o \in Owners, CreateOwner(r, o) PROVE SignInInv'
  <1> DEFINE w == asked[r].wallet
             new == [asked[r] EXCEPT !.step = "starting", !.owner = o]
  <1>1. asked[r].step = "making" /\ asked' = [asked EXCEPT ![r] = new]
        /\ UNCHANGED <<clock, nonces, issued>>
    BY DEF CreateOwner
  <1>2. asked[r] \in Demand
    BY <1>1, AtAStep DEF SignInInv, Steps
  <1>3. w \in Wallets /\ new \in Demand /\ new.step = "starting" /\ new.owner = o
        /\ new.wallet = w /\ new.nonce = asked[r].nonce
    BY <1>2 DEF Demand, Steps
  <1>4. asked'[r] = new /\ \A q \in Requests \ {r} : asked'[q] = asked[q]
    BY <1>1 DEF SignInInv, SignInShape
  <1>5. \/ owners[o] = w /\ owners' = owners
        \/ /\ \A other \in Owners : owners[other] # w
           /\ owners[o] = NoOwner /\ owners' = [owners EXCEPT ![o] = w]
    BY DEF CreateOwner, Found, Made
  <1>6. /\ owners' \in [Owners -> Wallets \cup {NoWallet, NoOwner}] /\ owners'[o] = w
        /\ \A other \in Owners \ {o} : owners'[other] = owners[other]
        /\ owners[o] \in {w, NoOwner}
    BY <1>3, <1>5 DEF SignInInv, SignInShape
  <1>7. SignInShape'
    BY <1>1, <1>3, <1>6 DEF SignInInv, SignInShape
  <1>8. SameProofs
    BY <1>1, <1>2, <1>3, <1>4 DEF SameProofs, Proved
  <1> HIDE DEF w, new
  <1>9. OneOwner'
    BY <1>5, <1>6 DEF SignInInv, OwnerInv, OneOwner, SignInShape
  <1>10. \A p \in Owners : Made(p) => Made(p)' /\ owners'[p] = owners[p]
    BY <1>5, <1>6 DEF Made
  <1>11. LinkingOwners'
    BY <1>3, <1>4, <1>10 DEF SignInInv, OwnerInv, LinkingOwners, IsLinking
  <1>12. HasItsWallet'
    <2> SUFFICES ASSUME NEW q \in Requests, HasItsOwner(q)'
                 PROVE  asked'[q].owner \in Owners /\ owners'[asked'[q].owner] = asked'[q].wallet
      BY DEF HasItsWallet
    <2>1. CASE q = r
      BY <2>1, <1>3, <1>4, <1>6
    <2>2. CASE q # r
      <3>1. HasItsOwner(q) /\ asked'[q] = asked[q]
        BY <2>2, <1>4 DEF HasItsOwner
      <3>2. asked[q].owner \in Owners /\ owners[asked[q].owner] = asked[q].wallet
        BY <3>1 DEF SignInInv, OwnerInv, HasItsWallet
      <3>3. asked[q].wallet \in Wallets
        BY <3>1, AtAStep DEF SignInInv, HasItsOwner, Steps, Demand
      <3>4. Made(asked[q].owner)
        BY <3>2, <3>3, SignInAssumption DEF Made
      <3>5. QED
        BY <3>1, <3>2, <3>4, <1>10
    <2>3. QED
      BY <2>1, <2>2
  <1>13. QED
    BY <1>7, <1>8, <1>9, <1>11, <1>12, NonceKept DEF SignInInv, OwnerInv

LEMMA StartingKeeps == ASSUME SignInInv, NEW r \in Requests, StartSession(r) PROVE SignInInv'
  <1> DEFINE new == [asked[r] EXCEPT !.step = "signedIn", !.expires = asked[r].at + SessionValid]
  <1>1. asked[r].step = "starting" /\ asked' = [asked EXCEPT ![r] = new]
        /\ UNCHANGED <<clock, nonces, issued, owners>>
    BY DEF StartSession
  <1>2. asked[r] \in Demand
    BY <1>1, AtAStep DEF SignInInv, Steps
  <1>3. new \in Demand /\ new.step = "signedIn" /\ new.owner = asked[r].owner
        /\ new.wallet = asked[r].wallet /\ new.nonce = asked[r].nonce
    <2>1. asked[r].at + SessionValid \in Nat /\ "signedIn" \in Steps
      BY <1>2, SignInAssumption DEF Demand, Steps
    <2>2. QED
      BY <1>2, <2>1 DEF Demand
  <1>4. asked'[r] = new /\ \A q \in Requests \ {r} : asked'[q] = asked[q]
    BY <1>1 DEF SignInInv, SignInShape
  <1>5. SignInShape'
    BY <1>1, <1>3 DEF SignInInv, SignInShape
  <1> HIDE DEF new
  <1>6. SameProofs
    BY <1>1, <1>2, <1>3, <1>4 DEF SameProofs, Proved
  <1>7. SameOwners
    BY <1>1, <1>3, <1>4 DEF SameOwners, HasItsOwner, IsLinking
  <1>8. QED
    BY <1>5, <1>6, <1>7, NonceKept, OwnersKept DEF SignInInv

LEMMA ReadingKeeps == ASSUME SignInInv, NEW r \in Requests, ReadOwnersWallet(r) PROVE SignInInv'
  <1>1. asked[r].step = "linking" /\ UNCHANGED <<clock, nonces, issued, owners>>
    BY DEF ReadOwnersWallet
  <1>2. asked[r] \in Demand /\ asked[r].owner \in Owners
    BY <1>1, AtAStep DEF SignInInv, Steps, OwnerInv, LinkingOwners, IsLinking
  <1>3. \/ StepTo(r, "linked") /\ owners[asked[r].owner] = asked[r].wallet
        \/ StepTo(r, "setting")
        \/ Refuse(r)
    BY DEF ReadOwnersWallet
  <1>4. ASSUME NEW to \in {"linked", "setting"}, StepTo(r, to),
               to = "linked" => owners[asked[r].owner] = asked[r].wallet
        PROVE  SignInInv'
    <2>1. to \in Steps /\ "linking" \in Steps
      BY DEF Steps
    <2>2. /\ asked' \in [Requests -> {NotAsked, Refused} \cup Demand]
          /\ asked'[r] \in Demand /\ asked'[r] = [asked[r] EXCEPT !.step = to]
          /\ \A q \in Requests \ {r} : asked'[q] = asked[q]
      BY <1>1, <1>4, <2>1, AskedMoves DEF SignInInv
    <2>3. /\ asked'[r].step = to /\ asked'[r].nonce = asked[r].nonce
          /\ asked'[r].owner = asked[r].owner /\ asked'[r].wallet = asked[r].wallet
      BY <1>2, <2>2 DEF Demand
    <2>4. SignInShape'
      BY <1>1, <2>2 DEF SignInInv, SignInShape
    <2>5. SameProofs
      BY <1>1, <1>2, <2>2, <2>3 DEF SameProofs, Proved
    <2>6. LinkingOwners'
      <3>1. \A q \in Requests : IsLinking(q)' => IsLinking(q) /\ asked'[q].owner = asked[q].owner
        BY <1>1, <2>2, <2>3 DEF IsLinking
      <3>2. QED
        BY <1>1, <3>1 DEF SignInInv, OwnerInv, LinkingOwners, Made
    <2>7. OneOwner'
      BY <1>1 DEF SignInInv, OwnerInv, OneOwner
    <2>8. HasItsWallet'
      <3> SUFFICES ASSUME NEW q \in Requests, HasItsOwner(q)'
                   PROVE  asked'[q].owner \in Owners /\ owners[asked'[q].owner] = asked'[q].wallet
        BY <1>1 DEF HasItsWallet, HasItsOwner
      <3>1. CASE q = r
        BY <1>2, <1>4, <2>3, <3>1 DEF HasItsOwner
      <3>2. CASE q # r
        <4>1. HasItsOwner(q) /\ asked'[q] = asked[q]
          BY <2>2, <3>2 DEF HasItsOwner
        <4>2. QED
          BY <4>1 DEF SignInInv, OwnerInv, HasItsWallet
      <3>3. QED
        BY <3>1, <3>2
    <2>9. QED
      BY <2>4, <2>5, <2>6, <2>7, <2>8, NonceKept DEF SignInInv, OwnerInv
  <1>5. QED
    BY <1>1, <1>3, <1>4, RefusingKeeps

(* The owner still has no wallet and nobody has this one when the row is   *)
(* written, so nobody who was told of an owner loses his.                  *)
LEMMA SettingKeeps == ASSUME SignInInv, NEW r \in Requests, SetWallet(r) PROVE SignInInv'
  <1> DEFINE w == asked[r].wallet
             o == asked[r].owner
  <1>1. asked[r].step = "setting" /\ UNCHANGED <<clock, nonces, issued>>
    BY DEF SetWallet
  <1>2. CASE ~Linkable(o, w)
    BY <1>1, <1>2, RefusingKeeps DEF SetWallet
  <1>3. CASE Linkable(o, w)
    <2>1. owners' = [owners EXCEPT ![o] = w] /\ StepTo(r, "linked")
      BY <1>3 DEF SetWallet
    <2>2. "linked" \in Steps /\ "setting" \in Steps
      BY DEF Steps
    <2>3. asked[r] \in Demand /\ o \in Owners /\ w \in Wallets
      BY <1>1, <2>2, AtAStep DEF SignInInv, OwnerInv, LinkingOwners, IsLinking, Demand
    <2>4. /\ asked' \in [Requests -> {NotAsked, Refused} \cup Demand]
          /\ asked'[r] \in Demand /\ asked'[r] = [asked[r] EXCEPT !.step = "linked"]
          /\ \A q \in Requests \ {r} : asked'[q] = asked[q]
      BY <1>1, <2>1, <2>2, AskedMoves DEF SignInInv
    <2>5. /\ asked'[r].step = "linked" /\ asked'[r].nonce = asked[r].nonce
          /\ asked'[r].owner = o /\ asked'[r].wallet = w
      BY <2>3, <2>4 DEF Demand
    <2>6. owners[o] = NoWallet /\ \A other \in Owners : owners[other] # w
      BY <1>3 DEF Linkable
    <2>7. /\ owners' \in [Owners -> Wallets \cup {NoWallet, NoOwner}] /\ owners'[o] = w
          /\ \A other \in Owners \ {o} : owners'[other] = owners[other]
      BY <2>1, <2>3 DEF SignInInv, SignInShape
    <2> HIDE DEF w, o
    <2>8. SignInShape'
      BY <1>1, <2>4, <2>7 DEF SignInInv, SignInShape
    <2>9. SameProofs
      BY <1>1, <2>3, <2>4, <2>5 DEF SameProofs, Proved
    <2>10. OneOwner'
      BY <2>6, <2>7 DEF SignInInv, OwnerInv, OneOwner
    <2>11. \A p \in Owners : Made(p) => Made(p)'
      BY <2>3, <2>7, SignInAssumption DEF Made
    <2>12. LinkingOwners'
      BY <2>4, <2>5, <2>11 DEF SignInInv, OwnerInv, LinkingOwners, IsLinking
    <2>13. HasItsWallet'
      <3> SUFFICES ASSUME NEW q \in Requests, HasItsOwner(q)'
                   PROVE  asked'[q].owner \in Owners /\ owners'[asked'[q].owner] = asked'[q].wallet
        BY DEF HasItsWallet
      <3>1. CASE q = r
        BY <3>1, <2>3, <2>5, <2>7
      <3>2. CASE q # r
        <4>1. HasItsOwner(q) /\ asked'[q] = asked[q]
          BY <3>2, <2>4 DEF HasItsOwner
        <4>2. asked[q].owner \in Owners /\ owners[asked[q].owner] = asked[q].wallet
          BY <4>1 DEF SignInInv, OwnerInv, HasItsWallet
        <4>3. asked[q].wallet \in Wallets
          BY <4>1, AtAStep DEF SignInInv, HasItsOwner, Steps, Demand
        <4>4. asked[q].owner # o
          BY <4>2, <4>3, <2>6, SignInAssumption
        <4>5. QED
          BY <4>1, <4>2, <4>4, <2>7
      <3>3. QED
        BY <3>1, <3>2
    <2>14. QED
      BY <2>8, <2>9, <2>10, <2>12, <2>13, NonceKept DEF SignInInv, OwnerInv
  <1>4. QED
    BY <1>2, <1>3

LEMMA EndingKeeps == ASSUME SignInInv, NEW r \in Requests, EndSession(r) PROVE SignInInv'
  <1>1. asked[r].step = "signedIn" /\ StepTo(r, "ended") /\ UNCHANGED <<clock, nonces, issued, owners>>
    BY DEF EndSession
  <1>2. "ended" \in Steps /\ asked[r].step \in Steps
    BY <1>1 DEF Steps
  <1>3. asked[r] \in Demand
    BY <1>2, AtAStep DEF SignInInv
  <1>4. /\ asked' \in [Requests -> {NotAsked, Refused} \cup Demand]
        /\ asked'[r] \in Demand /\ asked'[r] = [asked[r] EXCEPT !.step = "ended"]
        /\ \A q \in Requests \ {r} : asked'[q] = asked[q]
    BY <1>1, <1>2, AskedMoves DEF SignInInv
  <1>5. /\ asked'[r].step = "ended" /\ asked'[r].nonce = asked[r].nonce
        /\ asked'[r].owner = asked[r].owner /\ asked'[r].wallet = asked[r].wallet
    BY <1>3, <1>4 DEF Demand
  <1>6. SignInShape'
    BY <1>1, <1>4 DEF SignInInv, SignInShape
  <1>7. SameProofs
    BY <1>1, <1>3, <1>4, <1>5 DEF SameProofs, Proved
  <1>8. SameOwners
    BY <1>1, <1>4, <1>5 DEF SameOwners, HasItsOwner, IsLinking
  <1>9. QED
    BY <1>6, <1>7, <1>8, NonceKept, OwnersKept DEF SignInInv

\* OneRowEach and sessions go, and what was proved with them stays proved.
LEMMA ForgettingKeeps == ASSUME SignInInv, ForgetExpired PROVE SignInInv'
  <1>1. /\ nonces' \subseteq nonces /\ UNCHANGED <<clock, issued, owners>>
        /\ asked' = [r \in Requests |->
              IF asked[r].step = "signedIn" /\ asked[r].expires < clock
              THEN [asked[r] EXCEPT !.step = "ended"] ELSE asked[r]]
    BY DEF ForgetExpired
  <1>2. ASSUME NEW q \in Requests
        PROVE  \/ asked'[q] = asked[q]
               \/ /\ asked[q] \in Demand /\ asked[q].step = "signedIn"
                  /\ asked'[q] \in Demand /\ asked'[q].step = "ended"
                  /\ asked'[q].nonce = asked[q].nonce
                  /\ asked'[q].owner = asked[q].owner /\ asked'[q].wallet = asked[q].wallet
    <2>1. CASE asked[q].step = "signedIn" /\ asked[q].expires < clock
      <3>1. asked[q] \in Demand
        BY <2>1, AtAStep DEF SignInInv, Steps
      <3>2. asked'[q] = [asked[q] EXCEPT !.step = "ended"]
        BY <1>1, <2>1
      <3>3. QED
        BY <2>1, <3>1, <3>2 DEF Demand, Steps
    <2>2. CASE ~(asked[q].step = "signedIn" /\ asked[q].expires < clock)
      BY <1>1, <2>2
    <2>3. QED
      BY <2>1, <2>2
  <1>3. asked' \in [Requests -> {NotAsked, Refused} \cup Demand]
    <2>1. \A q \in Requests : asked'[q] \in {NotAsked, Refused} \cup Demand
      BY <1>2 DEF SignInInv, SignInShape
    <2>2. asked' = [q \in Requests |-> asked'[q]]
      BY <1>1
    <2>3. QED
      BY <2>1, <2>2
  <1>4. SignInShape'
    BY <1>1, <1>3 DEF SignInInv, SignInShape
  <1>5. SameProofs
    BY <1>1, <1>2 DEF SameProofs, Proved
  <1>6. SameOwners
    BY <1>1, <1>2 DEF SameOwners, HasItsOwner, IsLinking
  <1>7. QED
    BY <1>4, <1>5, <1>6, NonceKept, OwnersKept DEF SignInInv

LEMMA TimeKeeps == ASSUME SignInInv, PassTime \/ UNCHANGED signInVars PROVE SignInInv'
  <1>1. clock' \in 0 .. MaxClock /\ UNCHANGED <<nonces, issued, owners, asked>>
    BY SignInAssumption DEF PassTime, signInVars, SignInInv, SignInShape
  <1>2. SignInShape' /\ SameProofs /\ SameOwners
    BY <1>1 DEF SignInInv, SignInShape, SameProofs, SameOwners, Proved, HasItsOwner, IsLinking
  <1>3. QED
    BY <1>2, NonceKept, OwnersKept DEF SignInInv

(* Whoever asks to link is an owner: he has a session, and its owner is one*)
(* he was told of, or he was made without a wallet.                        *)
LEMMA AskersAreOwners == ASSUME SignInInv, NEW o \in Owners, Asking(o) PROVE Made(o)
  <1>1. CASE owners[o] = NoWallet
    BY <1>1, SignInAssumption DEF Made
  <1>2. ASSUME NEW q \in Requests, LiveSession(q), asked[q].owner = o PROVE Made(o)
    <2>1. HasItsOwner(q) /\ asked[q].step \in Steps
      BY <1>2 DEF LiveSession, HasItsOwner, Steps
    <2>2. owners[o] = asked[q].wallet /\ asked[q].wallet \in Wallets
      BY <1>2, <2>1, AtAStep DEF SignInInv, OwnerInv, HasItsWallet, Demand
    <2>3. QED
      BY <2>2, SignInAssumption DEF Made
  <1>3. QED
    BY <1>1, <1>2 DEF Asking

LEMMA NextSignInInv == SignInInv /\ [SignInNext]_signInVars => SignInInv'
  <1> SUFFICES ASSUME SignInInv, [SignInNext]_signInVars PROVE SignInInv'
    OBVIOUS
  <1>1. CASE \E n \in Nonces, w \in Wallets : IssueNonce(n, w)
    BY <1>1, IssuingKeeps
  <1>2. CASE \E o \in Owners : CreateOwnerForUser(o)
    BY <1>2, MakingOwnersKeeps
  <1>3. ASSUME NEW r \in Requests, NEW n \in Nonces, NEW w \in Wallets, Verify(r, n, w)
        PROVE  SignInInv'
    BY <1>3, ArrivingKeeps DEF Verify
  <1>4. ASSUME NEW r \in Requests, NEW n \in Nonces, NEW w \in Wallets, NEW o \in Owners,
               LinkWallet(r, n, w, o)
        PROVE  SignInInv'
    <2>1. Made(o) /\ Arrive(r, "link", n, w, o)
      BY <1>4, AskersAreOwners DEF LinkWallet
    <2>2. QED
      BY <2>1, ArrivingKeeps
  <1>5. ASSUME NEW r \in Requests, Abandon(r) PROVE SignInInv'
    BY <1>5, RefusingKeeps DEF Abandon
  <1>6. ASSUME NEW r \in Requests,
               \/ SpendNonce(r) \/ StartSession(r) \/ ReadOwnersWallet(r) \/ SetWallet(r) \/ EndSession(r)
        PROVE  SignInInv'
    BY <1>6, SpendingKeeps, StartingKeeps, ReadingKeeps, SettingKeeps, EndingKeeps
  <1>7. ASSUME NEW r \in Requests, NEW o \in Owners, CreateOwner(r, o) PROVE SignInInv'
    BY <1>7, CreatingKeeps
  <1>8. CASE ForgetExpired
    BY <1>8, ForgettingKeeps
  <1>9. CASE PassTime \/ UNCHANGED signInVars
    BY <1>9, TimeKeeps
  <1>10. QED
    BY <1>1, <1>2, <1>3, <1>4, <1>5, <1>6, <1>7, <1>8, <1>9 DEF SignInNext

-----------------------------------------------------------------------------
(* The theorems.                                                           *)

LEMMA SignInInvHolds == SignInSpec => []SignInInv
  BY InitSignInInv, NextSignInInv, PTL DEF SignInSpec

LEMMA SignInInvIsTyped == SignInInv => SignInTypeOK
  <1> SUFFICES ASSUME SignInInv PROVE SignInTypeOK
    OBVIOUS
  <1>1. ASSUME NEW r \in Requests, asked[r] \notin {NotAsked, Refused}
        PROVE  /\ asked[r].step \in Steps
               /\ asked[r].nonce \in issued /\ asked[r].wallet \in Wallets
               /\ asked[r].owner \in Owners \cup {NoOwner}
               /\ asked[r].step \in {"starting", "signedIn", "linking", "setting", "linked"}
                     => owners[asked[r].owner] # NoOwner
    <2>1. asked[r] \in Demand
      BY <1>1 DEF SignInInv, SignInShape
    <2>2. asked[r].step \in Steps /\ asked[r].wallet \in Wallets /\ asked[r].owner \in Owners \cup {NoOwner}
      BY <2>1 DEF Demand
    <2>3. asked[r].nonce \in issued
      BY <2>1 DEF SignInInv, NonceInv, NamesAnIssued
    <2>4. CASE HasItsOwner(r)
      BY <2>2, <2>3, <2>4, SignInAssumption DEF SignInInv, OwnerInv, HasItsWallet
    <2>5. CASE ~HasItsOwner(r)
      BY <2>2, <2>3, <2>5 DEF SignInInv, OwnerInv, LinkingOwners, IsLinking, HasItsOwner, Made
    <2>6. QED
      BY <2>4, <2>5
  <1>2. QED
    BY <1>1 DEF SignInTypeOK, SignInInv, SignInShape, NonceInv, OneRowEach

(* The types of nonces, owners and sessions, whatever is asked.            *)
THEOREM SignInTypeCorrect == SignInSpec => []SignInTypeOK
  BY SignInInvHolds, SignInInvIsTyped, PTL

(* A nonce may be answered exactly once (sign-in.ts:4-10), by one request, *)
(* whoever races for it and whatever is forgotten in between.              *)
THEOREM NoncesAreSpentOnce == SignInSpec => []NonceAnsweredOnce
  <1>1. SignInInv => NonceAnsweredOnce
    BY DEF SignInInv, NonceInv
  <1>2. QED
    BY <1>1, SignInInvHolds, PTL

(* Whoever signed in with a wallet, or linked it, is the one owner who has *)
(* it, for good (owners.ts createOwner, people.ts linkWallet).             *)
THEOREM WalletsHaveOneOwner == SignInSpec => []SignedInAsItself
  <1>1. SignInInv => SignedInAsItself
    <2> SUFFICES ASSUME SignInInv, NEW r \in Requests, HasItsOwner(r)
                 PROVE  {o \in Owners : owners[o] = asked[r].wallet} = {asked[r].owner}
      BY DEF SignedInAsItself, HasItsOwner
    <2>1. asked[r].owner \in Owners /\ owners[asked[r].owner] = asked[r].wallet
      BY DEF SignInInv, OwnerInv, HasItsWallet
    <2>2. asked[r].wallet \in Wallets
      BY AtAStep DEF SignInInv, HasItsOwner, Steps, Demand
    <2>3. \A o \in Owners : owners[o] = asked[r].wallet => o = asked[r].owner
      BY <2>1, <2>2 DEF SignInInv, OwnerInv, OneOwner
    <2>4. QED
      BY <2>1, <2>3
  <1>2. QED
    BY <1>1, SignInInvHolds, PTL

-----------------------------------------------------------------------------
(* The tables together.                                                    *)

DatabaseInv == LedgerInv /\ LifeInv /\ SignInInv

(* The rows and the transactions of all the tables are what their code says*)
(* they are, whichever of them moves.                                      *)
THEOREM DatabaseTypeCorrect == DatabaseSpec => []DatabaseTypeOK
  <1>1. DatabaseInit => DatabaseInv
    BY InitLedgerInv, InitLifeInv, InitSignInInv DEF DatabaseInit, DatabaseInv
  <1>2. DatabaseInv /\ [DatabaseNext]_databaseVars => DatabaseInv'
    <2>1. [DatabaseNext]_databaseVars
              => [LedgerNext]_ledgerVars /\ [LifecycleNext]_lifecycleVars /\ [SignInNext]_signInVars
      BY DEF DatabaseNext, databaseVars
    <2>2. QED
      BY <2>1, NextLedgerInv, NextLifeInv, NextSignInInv DEF DatabaseInv
  <1>3. DatabaseInv => DatabaseTypeOK
    BY LedgerInvIsTyped, LifeInvIsTyped, SignInInvIsTyped DEF DatabaseInv, DatabaseTypeOK
  <1>4. QED
    BY <1>1, <1>2, <1>3, PTL DEF DatabaseSpec
=============================================================================
