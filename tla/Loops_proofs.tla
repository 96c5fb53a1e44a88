---------------------------- MODULE Loops_proofs ----------------------------
(***************************************************************************)
(* Proofs about the loops that read, wait and act on what they read: the   *)
(* price watcher, the traders and the bots, for any prices, levels, runs,  *)
(* owners' requests and restarts.                                          *)
(***************************************************************************)
EXTENDS MCLoops, Folding_proofs, SequenceTheorems

-----------------------------------------------------------------------------
(* Arithmetic.  A part of an amount carries its share of what the whole    *)
(* cost, rounded down (book.ts, following-range.ts); what is left carries  *)
(* the rest, so its average is not below what it was.                      *)

LEMMA DivisionBounds ==
    ASSUME NEW a \in Nat, NEW n \in Nat \ {0}
    PROVE  a \div n \in Nat /\ n * (a \div n) <= a /\ a < n * ((a \div n) + 1)
  OBVIOUS

LEMMA Orders ==
    ASSUME NEW a \in Nat, NEW b \in Nat, NEW n \in Nat \ {0}
    PROVE  /\ n * a < n * b => a < b
           /\ n * a <= n * b => a <= b
           /\ a <= b => n * a <= n * b
           /\ a < b => n * a < n * b
  OBVIOUS

LEMMA Share ==
    ASSUME NEW b \in Nat, NEW n \in Nat \ {0}, NEW s \in 0 .. n
    PROVE  LET c == (b * s) \div n IN
           /\ c \in 0 .. b
           /\ s = n => c = b
           /\ s < n /\ b > 0 => c < b
           /\ \A m \in Nat : n * m <= b => (n - s) * m <= b - c
  <1> DEFINE c == (b * s) \div n
  <1>1. b * s \in Nat /\ b * s <= b * n /\ b * n = n * b
    OBVIOUS
  <1>2. c \in Nat /\ n * c <= b * s /\ b * s < n * (c + 1)
    BY <1>1, DivisionBounds
  <1> HIDE DEF c
  <1>3. c <= b
    BY <1>1, <1>2, Orders
  <1>4. s = n => c = b
    <2>1. SUFFICES ASSUME s = n PROVE c = b
      OBVIOUS
    <2>2. n * b < n * (c + 1)
      BY <1>1, <1>2, <2>1
    <2>3. b < c + 1
      BY <1>2, <2>2, Orders
    <2>4. QED
      BY <1>2, <1>3, <2>3
  <1>5. s < n /\ b > 0 => c < b
    <2>1. SUFFICES ASSUME s < n, b > 0 PROVE c < b
      OBVIOUS
    <2>2. b * s < b * n
      BY <2>1
    <2>3. n * c < n * b
      BY <1>1, <1>2, <2>2
    <2>4. QED
      BY <1>2, <2>3, Orders
  <1>6. ASSUME NEW m \in Nat, n * m <= b PROVE (n - s) * m <= b - c
    <2>1. n * (b - c) = b * n - n * c
      BY <1>1, <1>2
    <2>2. b * (n - s) = b * n - b * s
      BY <1>1
    <2>3. b * (n - s) <= n * (b - c)
      BY <1>1, <1>2, <2>1, <2>2
    <2>4. (n * m) * (n - s) <= b * (n - s)
      BY <1>6
    <2>5. (n * m) * (n - s) = n * ((n - s) * m)
      OBVIOUS
    <2>6. (n - s) * m \in Nat /\ b - c \in Nat
      BY <1>2, <1>3
    <2>7. n * ((n - s) * m) <= n * (b - c)
      BY <1>1, <1>2, <1>6, <2>3, <2>4, <2>5, <2>6
    <2>8. QED
      BY <2>6, <2>7, Orders
  <1>7. QED
    BY <1>2, <1>3, <1>4, <1>5, <1>6 DEF c

LEMMA Average ==
    ASSUME NEW b \in Nat, NEW n \in Nat \ {0}, NEW m \in Nat, n * m <= b
    PROVE  b \div n \in Nat /\ m <= b \div n
  <1> DEFINE q == b \div n
  <1>1. q \in Nat /\ b < n * (q + 1)
    BY DivisionBounds
  <1> HIDE DEF q
  <1>2. n * m < n * (q + 1) /\ q + 1 \in Nat
    BY <1>1
  <1>3. m < q + 1
    BY <1>1, <1>2, Orders
  <1>4. QED
    BY <1>1, <1>3 DEF q

-----------------------------------------------------------------------------
(* The price watcher.  What a look has read stays as it was read; what is  *)
(* armed has been away from the price; at most one buy is under way unless *)
(* two were decided on top of each other; and who read a level to buy at   *)
(* read it of a machine that was not resting, or before its last sale.     *)

Ids == {"buy", "sell", "floor", "follow"}
KnownLevels == [id : Ids, at : Nat \ {0}, falls : BOOLEAN]
KnownSeen == [level : KnownLevels, armed : BOOLEAN, soon : BOOLEAN]

BandKept ==
    /\ running \in BOOLEAN /\ half \in Halves
    /\ band \in [anchor : Prices \cup {0}, fromLoss : BOOLEAN, rested : BOOLEAN,
                 bought : Nat, basis : Nat, sales : Nat]
    /\ band.bought = 0 <=> band.basis = 0
    /\ band.bought * (FloorGap + 1) <= band.basis

SeenKept ==
    /\ seen \subseteq KnownSeen
    /\ \A s, t \in seen : s.level = t.level => s = t
    /\ \A s \in seen : s.armed => s.level \in crossed

Fires(price) == \E level \in look.levels : ObservePrice(level, price).fire

LookKept ==
    /\ look \in [step : {"resting", "asking", "firing"}, levels : SUBSET KnownLevels, anchors : BOOLEAN,
                 price : Prices \cup {0}, sales : Nat]
    /\ look.step = "firing" => look.price \in Prices /\ Fires(look.price)

QueueKept ==
    /\ queue \subseteq [no : Nat, wokeOn : Ids, step : {"queued", "buying", "selling"}, sales : Nat, amount : Nat]
    /\ queued \in 0 .. MaxRuns /\ \A r \in queue : r.no \in 1 .. queued

OneBuying ==
    overlapped \/ /\ band.bought <= 1
                  /\ \A r \in queue : r.step = "buying" => band.bought = 0
                  /\ \A r, q \in queue : r.step = "buying" /\ q.step = "buying" => r = q

\* Read before the last sale, or of a machine that was not resting.
NotSince(sales) == sales <= band.sales /\ (sales = band.sales => ~band.fromLoss)

ReadBefore ==
    /\ \A level \in look.levels : level.id = "buy" => NotSince(look.sales)
    /\ \A r \in queue : r.wokeOn = "buy" => NotSince(r.sales)

WatcherInv ==
    BandKept /\ SeenKept /\ LookKept /\ QueueKept /\ OneBuying /\ ReadBefore /\ ~unearned /\ ~rushed

LEMMA InitWatcherInv == WatcherInit => WatcherInv
  <1> SUFFICES ASSUME WatcherInit PROVE WatcherInv
    OBVIOUS
  <1>1. BandKept
    BY WatcherAssumption DEF WatcherInit, NewBand, BandKept
  <1>2. LookKept /\ look.levels = {}
    BY DEF WatcherInit, NoLook, LookKept
  <1>3. SeenKept /\ QueueKept /\ OneBuying /\ ReadBefore
    BY <1>2, WatcherAssumption DEF WatcherInit, NewBand, SeenKept, QueueKept, OneBuying, ReadBefore
  <1>4. QED
    BY <1>1, <1>2, <1>3 DEF WatcherInit, WatcherInv

\* The levels a machine waits at are prices, and one to buy at is none of a machine that rests.
LEMMA LevelsOfABand ==
    ASSUME BandKept
    PROVE  /\ Levels(band) \subseteq KnownLevels
           /\ \A level \in Levels(band) : level.id = "buy" => ~band.fromLoss
  <1>1. /\ Prices \subseteq Nat \ {0} /\ half \in Nat \ {0} /\ FloorGap \in Nat \ {0}
        /\ band.anchor \in Prices \cup {0} /\ band.bought \in Nat /\ band.basis \in Nat
    BY WatcherAssumption DEF BandKept
  <1>2. CASE band.anchor = 0
    BY <1>2 DEF Levels
  <1>3. CASE band.anchor # 0 /\ Holds(band)
    <2> DEFINE entry == band.basis \div band.bought
    <2>1. entry \in Nat /\ FloorGap + 1 <= entry
      BY <1>1, <1>3, Average DEF BandKept, Holds
    <2> HIDE DEF entry
    <2>2. /\ Level("sell", entry + 2 * half, FALSE) \in KnownLevels
          /\ Level("floor", entry - FloorGap, TRUE) \in KnownLevels
      BY <1>1, <2>1 DEF Level, KnownLevels, Ids
    <2>3. Levels(band) = {Level("sell", entry + 2 * half, FALSE), Level("floor", entry - FloorGap, TRUE)}
      BY <1>3 DEF Levels, entry
    <2>4. QED
      BY <2>2, <2>3 DEF Level
  <1>4. CASE band.anchor # 0 /\ ~Holds(band)
    <2>1. band.anchor \in Nat /\ half < band.anchor
      BY <1>1, <1>4, WatcherAssumption DEF BandKept
    <2>2. /\ Level("buy", band.anchor - half, TRUE) \in KnownLevels
          /\ Level("follow", band.anchor + half, FALSE) \in KnownLevels
      BY <1>1, <2>1 DEF Level, KnownLevels, Ids
    <2>3. QED
      BY <1>4, <2>2 DEF Levels, Level, WaitsForAnchor
  <1>5. QED
    BY <1>2, <1>3, <1>4

\* What one price makes of a level: it fires only if it was armed, and is armed only if it was or is away.
LEMMA Observing ==
    ASSUME SeenKept, NEW level \in KnownLevels, NEW price \in Nat, NEW o, o = ObservePrice(level, price)
    PROVE  /\ o.state \in KnownSeen /\ o.state.level = level
           /\ o.fire => level \in crossed /\ ~o.state.armed
           /\ o.state.armed => level \in crossed \/ ~Reached(level, price)
  <1> DEFINE s == CHOOSE s \in SeenOf(level) : TRUE
  <1>1. CASE SeenOf(level) = {}
    <2>1. PICK a \in BOOLEAN : a = StartsArmed(level, price) /\ (a => ~Reached(level, price))
      BY DEF StartsArmed
    <2>2. o = [state |-> Seen(level, a, FALSE), fire |-> FALSE]
      BY <1>1, <2>1 DEF ObservePrice
    <2>3. o.state = [level |-> level, armed |-> a, soon |-> FALSE] /\ ~o.fire
      BY <2>2 DEF Seen
    <2>4. QED
      BY <2>1, <2>3 DEF KnownSeen
  <1>2. CASE SeenOf(level) # {}
    <2>1. s \in seen /\ s.level = level /\ s \in KnownSeen
      BY <1>2 DEF SeenOf, SeenKept
    <2>2. o = IF ClearOf(level, price) THEN [state |-> [s EXCEPT !.armed = TRUE], fire |-> FALSE]
              ELSE IF s.armed /\ Reached(level, price) /\ ~s.soon
              THEN [state |-> Seen(level, FALSE, TRUE), fire |-> TRUE]
              ELSE [state |-> s, fire |-> FALSE]
      BY <1>2 DEF ObservePrice
    <2> HIDE DEF s
    <2>3. CASE ClearOf(level, price)
      <3>1. \E a \in BOOLEAN : o = [state |-> [s EXCEPT !.armed = a], fire |-> FALSE]
        BY <2>2, <2>3, Zenon
      <3>2. PICK a \in BOOLEAN : o = [state |-> [s EXCEPT !.armed = a], fire |-> FALSE]
        BY <3>1
      <3>3. ~Reached(level, price)
        BY <2>3, WatcherAssumption DEF ClearOf, Reached, KnownLevels
      <3>4. [s EXCEPT !.armed = a] \in KnownSeen /\ [s EXCEPT !.armed = a].level = level
        BY <2>1 DEF KnownSeen
      <3>5. o.state = [s EXCEPT !.armed = a] /\ ~o.fire
        BY <3>2
      <3>6. QED
        BY <3>3, <3>4, <3>5
    <2>4. CASE ~ClearOf(level, price) /\ s.armed /\ Reached(level, price) /\ ~s.soon
      <3>1. o = [state |-> [level |-> level, armed |-> FALSE, soon |-> TRUE], fire |-> TRUE]
        BY <2>2, <2>4 DEF Seen
      <3>2. QED
        BY <2>1, <2>4, <3>1 DEF KnownSeen, SeenKept
    <2>5. CASE ~ClearOf(level, price) /\ ~(s.armed /\ Reached(level, price) /\ ~s.soon)
      <3>1. o = [state |-> s, fire |-> FALSE]
        BY <2>2, <2>5
      <3>2. QED
        BY <2>1, <3>1 DEF SeenKept
    <2>6. QED
      BY <2>3, <2>4, <2>5
  <1>3. QED
    BY <1>1, <1>2

\* What a look leaves behind.
LEMMA LiveIsKept ==
    ASSUME SeenKept, LookKept, NEW price \in Prices
    PROVE  /\ Live(price) \subseteq KnownSeen
           /\ \A s, t \in Live(price) : s.level = t.level => s = t
           /\ \A s \in Live(price) : s.armed =>
                 /\ s.level \in (crossed \cap look.levels) \cup AwayFrom(price)
                 /\ ~ObservePrice(s.level, price).fire
  <1>1. look.levels \subseteq KnownLevels /\ price \in Nat
    BY WatcherAssumption DEF LookKept
  <1>2. ASSUME NEW s \in Live(price)
        PROVE  \E level \in look.levels : s = ObservePrice(level, price).state /\ s.level = level /\ s \in KnownSeen
    BY <1>1, Observing DEF Live, Compared
  <1>3. ASSUME NEW s \in Live(price), s.armed
        PROVE  /\ s.level \in (crossed \cap look.levels) \cup AwayFrom(price)
               /\ ~ObservePrice(s.level, price).fire
    <2>1. PICK level \in look.levels : s = ObservePrice(level, price).state /\ s.level = level
      BY <1>2
    <2>2. level \in crossed \/ ~Reached(level, price)
      BY <1>1, <1>3, <2>1, Observing
    <2>3. ~ObservePrice(level, price).fire
      BY <1>1, <1>3, <2>1, Observing
    <2>4. QED
      BY <2>1, <2>2, <2>3 DEF AwayFrom
  <1>4. QED
    BY <1>2, <1>3

-----------------------------------------------------------------------------
(* The watcher's steps.                                                    *)

\* The runs and what was read for them, where the band moves but does not sell.
LEMMA RunsStay ==
    ASSUME WatcherInv, UNCHANGED runVars, BandKept',
           band'.bought = band.bought, band'.sales = band.sales, band'.fromLoss => band.fromLoss
    PROVE  /\ QueueKept' /\ OneBuying' /\ ~rushed'
           /\ \A r \in queue' : r.wokeOn = "buy" => NotSince(r.sales)'
           /\ \A n : NotSince(n) => NotSince(n)'
  <1>1. \A n : NotSince(n) => NotSince(n)'
    BY DEF NotSince
  <1>2. QED
    BY <1>1 DEF WatcherInv, QueueKept, OneBuying, ReadBefore, runVars

\* A look that is over has read nothing.
LEMMA NothingRead == ASSUME look' = NoLook PROVE LookKept' /\ look'.levels = {}
  BY DEF NoLook, LookKept

LEMMA LookEnds ==
    ASSUME WatcherInv, look' = NoLook, SeenKept', UNCHANGED <<machineVars, runVars>>, ~unearned'
    PROVE  WatcherInv'
  <1>1. BandKept'
    BY DEF WatcherInv, BandKept, machineVars
  <1>2. QueueKept' /\ OneBuying' /\ ~rushed' /\ \A r \in queue' : r.wokeOn = "buy" => NotSince(r.sales)'
    BY <1>1, RunsStay DEF machineVars
  <1>3. QED
    BY <1>1, <1>2, NothingRead DEF WatcherInv, ReadBefore

LEMMA ReadMachineKeeps == ASSUME WatcherInv, ReadMachine PROVE WatcherInv'
  <1> DEFINE levels == IF NeedsAnchor(band) THEN {} ELSE Levels(band)
  <1>1. UNCHANGED <<machineVars, seen, runVars, firingVars>>
    BY DEF ReadMachine
  <1>2. BandKept' /\ SeenKept' /\ ~unearned'
    BY <1>1 DEF WatcherInv, BandKept, SeenKept, machineVars, firingVars
  <1>3. QueueKept' /\ OneBuying' /\ ~rushed' /\ (\A r \in queue' : r.wokeOn = "buy" => NotSince(r.sales)')
        /\ \A n : NotSince(n) => NotSince(n)'
    BY <1>1, <1>2, RunsStay DEF machineVars
  <1>4. \E a \in BOOLEAN :
            look' = [step |-> "asking", levels |-> levels, anchors |-> a, price |-> 0, sales |-> band.sales]
    <2>1. NeedsAnchor(band) \in BOOLEAN
      BY DEF NeedsAnchor, WatcherInv, BandKept
    <2>2. PICK a \in BOOLEAN : a = NeedsAnchor(band)
      BY <2>1
    <2>3. look' = [NoLook EXCEPT !.step = "asking", !.anchors = a, !.sales = band.sales, !.levels = levels]
      BY <2>2, Zenon DEF ReadMachine
    <2> HIDE DEF levels
    <2>4. look' = [step |-> "asking", levels |-> levels, anchors |-> a, price |-> 0, sales |-> band.sales]
      BY <2>3 DEF NoLook
    <2>5. QED
      BY <2>4
  <1>5. /\ levels \subseteq KnownLevels /\ band.sales \in Nat
        /\ \A level \in levels : level.id = "buy" => NotSince(band.sales)
    BY LevelsOfABand DEF WatcherInv, BandKept, NotSince
  <1> HIDE DEF levels
  <1>6. LookKept' /\ look'.levels = levels /\ look'.sales = band.sales
    BY <1>4, <1>5 DEF LookKept
  <1>7. \A level \in look'.levels : level.id = "buy" => NotSince(look.sales)'
    BY <1>1, <1>5, <1>6 DEF NotSince, machineVars
  <1>8. QED
    BY <1>2, <1>3, <1>6, <1>7 DEF WatcherInv, ReadBefore

LEMMA LookWithoutItKeeps == ASSUME WatcherInv, LookWithoutIt PROVE WatcherInv'
  <1>1. UNCHANGED <<machineVars, look, runVars, unearned>> /\ seen' = {} /\ look.step = "resting"
    BY DEF LookWithoutIt
  <1>2. BandKept' /\ SeenKept' /\ LookKept'
    BY <1>1 DEF WatcherInv, BandKept, SeenKept, LookKept, machineVars
  <1>3. QueueKept' /\ OneBuying' /\ ReadBefore'
    BY <1>1 DEF WatcherInv, QueueKept, OneBuying, ReadBefore, NotSince, machineVars, runVars
  <1>4. QED
    BY <1>1, <1>2, <1>3 DEF WatcherInv, runVars

\* The band moves to a price.
LEMMA Recentred ==
    ASSUME BandKept, NEW price \in Prices, Recentre(price), UNCHANGED <<running, half>>
    PROVE  BandKept' /\ band'.bought = band.bought /\ band'.sales = band.sales /\ ~band'.fromLoss
  <1>1. \E no \in BOOLEAN : ~no /\ band' = [band EXCEPT !.anchor = price, !.fromLoss = no]
    BY Zenon DEF Recentre
  <1>2. PICK no \in BOOLEAN : ~no /\ band' = [band EXCEPT !.anchor = price, !.fromLoss = no]
    BY <1>1
  <1>3. /\ band' \in [anchor : Prices \cup {0}, fromLoss : BOOLEAN, rested : BOOLEAN,
                      bought : Nat, basis : Nat, sales : Nat]
        /\ band'.bought = band.bought /\ band'.sales = band.sales /\ band'.basis = band.basis
        /\ band'.fromLoss = no
    BY <1>2 DEF BandKept
  <1>4. QED
    BY <1>2, <1>3 DEF BandKept

LEMMA GiveAnchorKeeps ==
    ASSUME WatcherInv, NEW price \in Prices, NEW heard \in BOOLEAN, GiveAnchor(price, heard)
    PROVE  WatcherInv'
  <1>1. look' = NoLook /\ Recentre(price) /\ UNCHANGED <<running, half, runVars, unearned>>
    BY DEF GiveAnchor
  <1>2. BandKept' /\ band'.bought = band.bought /\ band'.sales = band.sales /\ ~band'.fromLoss
    BY <1>1, Recentred DEF WatcherInv
  <1>3. SeenKept'
    BY DEF GiveAnchor, WatcherInv, SeenKept
  <1>4. QueueKept' /\ OneBuying' /\ ~rushed' /\ \A r \in queue' : r.wokeOn = "buy" => NotSince(r.sales)'
    BY <1>1, <1>2, RunsStay
  <1>5. QED
    BY <1>1, <1>2, <1>3, <1>4, NothingRead DEF WatcherInv, ReadBefore

LEMMA GetPriceKeeps == ASSUME WatcherInv, NEW price \in Prices, GetPrice(price) PROVE WatcherInv'
  <1>1. UNCHANGED <<machineVars, runVars, unearned>>
    BY DEF GetPrice
  <1>2. CASE \E c \in Compared(price) : c.fire
    <2>1. look' = [look EXCEPT !.step = "firing", !.price = price] /\ UNCHANGED <<seen, crossed>>
      BY <1>2 DEF GetPrice
    <2>2. look' \in [step : {"resting", "asking", "firing"}, levels : SUBSET KnownLevels, anchors : BOOLEAN,
                     price : Prices \cup {0}, sales : Nat]
          /\ look'.levels = look.levels /\ look'.sales = look.sales /\ look'.price = price
      BY <2>1 DEF WatcherInv, LookKept
    <2>3. \E level \in look.levels : ObservePrice(level, price).fire
      BY <1>2 DEF Compared
    <2>4. Fires(look.price)'
      <3>1. \A level, p : ObservePrice(level, p)' = ObservePrice(level, p)
        BY <2>1 DEF ObservePrice, SeenOf
      <3>2. QED
        BY <2>2, <2>3, <3>1 DEF Fires
    <2>5. BandKept' /\ SeenKept' /\ QueueKept' /\ OneBuying'
      BY <1>1, <2>1 DEF WatcherInv, BandKept, SeenKept, QueueKept, OneBuying, machineVars, runVars
    <2>6. ReadBefore'
      BY <1>1, <2>2 DEF WatcherInv, ReadBefore, NotSince, machineVars, runVars
    <2>7. LookKept'
      BY <2>2, <2>4 DEF LookKept
    <2>8. QED
      BY <1>1, <2>5, <2>6, <2>7 DEF WatcherInv, runVars
  <1>3. CASE ~\E c \in Compared(price) : c.fire
    <2>1. look' = NoLook /\ seen' = Live(price) /\ crossed' = (crossed \cap look.levels) \cup AwayFrom(price)
      BY <1>3 DEF GetPrice
    <2>2. SeenKept'
      BY <2>1, LiveIsKept DEF WatcherInv, SeenKept
    <2>3. QED
      BY <1>1, <2>1, <2>2, LookEnds DEF WatcherInv
  <1>4. QED
    BY <1>2, <1>3

\* What fires is armed, reached and not too soon after the last time.
FiresWhenArmed == \A level, price : ObservePrice(level, price).fire <=>
    \E s \in seen : s.level = level /\ ~ClearOf(level, price) /\ s.armed /\ Reached(level, price) /\ ~s.soon

LEMMA WhatFires == SeenKept => FiresWhenArmed
  <1> SUFFICES ASSUME SeenKept, NEW level, NEW price
               PROVE  ObservePrice(level, price).fire <=>
                          \E s \in seen : s.level = level /\ ~ClearOf(level, price) /\ s.armed
                                          /\ Reached(level, price) /\ ~s.soon
    BY DEF FiresWhenArmed
  <1> DEFINE c == CHOOSE s \in SeenOf(level) : TRUE
             o == ObservePrice(level, price)
  <1>1. CASE SeenOf(level) = {}
    <2>1. o = [state |-> Seen(level, StartsArmed(level, price), FALSE), fire |-> FALSE]
      BY <1>1 DEF ObservePrice
    <2>2. ~o.fire
      BY <2>1
    <2>3. QED
      BY <1>1, <2>2 DEF SeenOf
  <1>2. CASE SeenOf(level) # {}
    <2>1. c \in seen /\ c.level = level /\ \A s \in seen : s.level = level => s = c
      BY <1>2 DEF SeenOf, SeenKept
    <2>2. o = IF ClearOf(level, price) THEN [state |-> [c EXCEPT !.armed = TRUE], fire |-> FALSE]
              ELSE IF c.armed /\ Reached(level, price) /\ ~c.soon
              THEN [state |-> Seen(level, FALSE, TRUE), fire |-> TRUE]
              ELSE [state |-> c, fire |-> FALSE]
      BY <1>2 DEF ObservePrice
    <2> HIDE DEF c
    <2>3. o.fire <=> ~ClearOf(level, price) /\ c.armed /\ Reached(level, price) /\ ~c.soon
      <3> HIDE DEF o
      <3>1. CASE ClearOf(level, price)
        <4>1. \E a : o = [state |-> a, fire |-> FALSE]
          BY <2>2, <3>1
        <4>2. QED
          BY <3>1, <4>1
      <3>2. CASE ~ClearOf(level, price) /\ c.armed /\ Reached(level, price) /\ ~c.soon
        <4>1. o = [state |-> Seen(level, FALSE, TRUE), fire |-> TRUE]
          BY <2>2, <3>2
        <4>2. QED
          BY <3>2, <4>1
      <3>3. CASE ~ClearOf(level, price) /\ ~(c.armed /\ Reached(level, price) /\ ~c.soon)
        <4>1. o = [state |-> c, fire |-> FALSE]
          BY <2>2, <3>3
        <4>2. QED
          BY <3>3, <4>1
      <3>4. QED
        BY <3>1, <3>2, <3>3
    <2>4. QED
      BY <2>1, <2>3
  <1>3. QED
    BY <1>1, <1>2

LEMMA FireKeeps == ASSUME WatcherInv, NEW heard \in BOOLEAN, Fire(heard) PROVE WatcherInv'
  <1> DEFINE f == Firing
  <1>1. /\ look' = NoLook /\ look.price \in Prices /\ look.price \in Nat
        /\ f \in look.levels /\ ObservePrice(f, look.price).fire /\ f \in KnownLevels
    BY WatcherAssumption DEF Fire, Firing, WatcherInv, LookKept, Fires
  <1> HIDE DEF f
  <1>2. f \in crossed /\ f.id \in Ids /\ (f.id = "buy" => NotSince(look.sales))
    BY <1>1, Observing DEF WatcherInv, ReadBefore, KnownLevels
  <1>3. ~unearned'
    BY <1>2 DEF Fire, WatcherInv, f
  <1>4. SeenKept'
    <2>1. CASE heard
      <3>1. seen' = Live(look.price) /\ crossed' = ((crossed \cap look.levels) \cup AwayFrom(look.price)) \ {f}
        BY <2>1 DEF Fire, f
      <3>2. /\ Live(look.price) \subseteq KnownSeen
            /\ \A s, t \in Live(look.price) : s.level = t.level => s = t
            /\ \A s \in Live(look.price) : s.armed =>
                  /\ s.level \in (crossed \cap look.levels) \cup AwayFrom(look.price)
                  /\ ~ObservePrice(s.level, look.price).fire
        BY <1>1, LiveIsKept DEF WatcherInv
      <3>3. QED
        BY <1>1, <3>1, <3>2 DEF SeenKept
    <2>2. CASE ~heard
      BY <2>2 DEF Fire, WatcherInv, SeenKept
    <2>3. QED
      BY <2>1, <2>2
  <1>5. CASE f.id = "follow"
    <2>1. Recentre(look.price) /\ UNCHANGED <<queue, queued>> /\ UNCHANGED <<running, half, overlapped, rushed>>
      BY <1>5 DEF Fire, f
    <2>2. BandKept' /\ band'.bought = band.bought /\ band'.sales = band.sales /\ ~band'.fromLoss
      BY <1>1, <2>1, Recentred DEF WatcherInv
    <2>3. QueueKept' /\ OneBuying' /\ ~rushed' /\ \A r \in queue' : r.wokeOn = "buy" => NotSince(r.sales)'
      BY <2>1, <2>2, RunsStay DEF runVars
    <2>4. QED
      BY <1>1, <1>3, <1>4, <2>2, <2>3, NothingRead DEF WatcherInv, ReadBefore
  <1>6. CASE f.id # "follow"
    <2> DEFINE n == NewRun(f.id, look.sales)
    <2>1. /\ queued < MaxRuns /\ queued' = queued + 1 /\ queue' = queue \cup {n}
          /\ UNCHANGED <<band, running, half, overlapped, rushed>>
      BY <1>6 DEF Fire, f
    <2>2. look.sales \in Nat /\ queued \in Nat /\ MaxRuns \in Nat
      BY WatcherAssumption DEF WatcherInv, LookKept, QueueKept
    <2>3. /\ n \in [no : Nat, wokeOn : Ids, step : {"queued", "buying", "selling"}, sales : Nat, amount : Nat]
          /\ n.no = queued + 1 /\ n.wokeOn = f.id /\ n.step = "queued" /\ n.sales = look.sales
      BY <1>2, <2>2 DEF NewRun
    <2> HIDE DEF n
    <2>4. BandKept'
      BY <2>1 DEF WatcherInv, BandKept
    <2>5. QueueKept'
      BY <2>1, <2>2, <2>3 DEF WatcherInv, QueueKept
    <2>6. OneBuying'
      BY <2>1, <2>3 DEF WatcherInv, OneBuying
    <2>7. \A r \in queue' : r.wokeOn = "buy" => NotSince(r.sales)'
      BY <1>2, <2>1, <2>3 DEF WatcherInv, ReadBefore, NotSince
    <2>8. QED
      BY <1>1, <1>3, <1>4, <2>1, <2>4, <2>5, <2>6, <2>7, NothingRead DEF WatcherInv, ReadBefore
  <1>7. QED
    BY <1>5, <1>6

LEMMA OtherEndsKeep == ASSUME WatcherInv, MissPrice \/ BreakLook \/ RestartWatcher PROVE WatcherInv'
  <1>1. look' = NoLook /\ UNCHANGED <<machineVars, runVars, unearned>>
    BY DEF MissPrice, BreakLook, RestartWatcher, firingVars
  <1>2. SeenKept'
    BY DEF MissPrice, BreakLook, RestartWatcher, firingVars, WatcherInv, SeenKept
  <1>3. QED
    BY <1>1, <1>2, LookEnds DEF WatcherInv

LEMMA PassGapKeeps == ASSUME WatcherInv, PassGap PROVE WatcherInv'
  <1>1. UNCHANGED <<machineVars, look, runVars, firingVars>>
    BY DEF PassGap
  <1>2. \E no \in BOOLEAN : ~no /\ seen' = {[s EXCEPT !.soon = no] : s \in seen}
    BY Zenon DEF PassGap
  <1>3. PICK no \in BOOLEAN : ~no /\ seen' = {[s EXCEPT !.soon = no] : s \in seen}
    BY <1>2
  <1>4. ASSUME NEW s \in seen
        PROVE  /\ [s EXCEPT !.soon = no] \in KnownSeen /\ [s EXCEPT !.soon = no].level = s.level
               /\ [s EXCEPT !.soon = no].armed = s.armed /\ ~[s EXCEPT !.soon = no].soon
    <2>1. s \in KnownSeen
      BY DEF WatcherInv, SeenKept
    <2>2. QED
      BY <1>3, <2>1 DEF KnownSeen
  <1>5. SeenKept'
    <2>1. UNCHANGED crossed /\ \A s \in seen : s.armed => s.level \in crossed
      BY <1>1 DEF WatcherInv, SeenKept, firingVars
    <2>2. \A q \in seen' : q \in KnownSeen /\ \E s \in seen :
              q = [s EXCEPT !.soon = no] /\ q.level = s.level /\ q.armed = s.armed
      BY <1>3, <1>4
    <2>3. \A p, q \in seen' : p.level = q.level => p = q
      BY <2>2 DEF WatcherInv, SeenKept
    <2>4. \A q \in seen' : q.armed => q.level \in crossed
      BY <2>1, <2>2
    <2>5. QED
      BY <2>1, <2>2, <2>3, <2>4 DEF SeenKept
  <1>6. LookKept'
    <2>1. SUFFICES ASSUME look.step = "firing" PROVE Fires(look.price)'
      BY <1>1 DEF WatcherInv, LookKept
    <2>2. PICK level \in look.levels : ObservePrice(level, look.price).fire
      BY <2>1 DEF WatcherInv, LookKept, Fires
    <2>3. PICK s \in seen : /\ s.level = level /\ ~ClearOf(level, look.price) /\ s.armed
                            /\ Reached(level, look.price) /\ ~s.soon
      BY <2>2, WhatFires DEF WatcherInv, FiresWhenArmed
    <2>4. [s EXCEPT !.soon = no] \in seen'
      BY <1>3
    <2>5. ObservePrice(level, look.price)'.fire
      <3>1. SeenKept' => FiresWhenArmed'
        BY WhatFires, PTL
      <3>2. \A p : ObservePrice(level, p)'.fire <=>
               \E q \in seen' : q.level = level /\ ~ClearOf(level, p) /\ q.armed /\ Reached(level, p) /\ ~q.soon
        BY <1>5, <3>1 DEF FiresWhenArmed
      <3>3. \E q \in seen' : q.level = level /\ ~ClearOf(level, look.price) /\ q.armed
                              /\ Reached(level, look.price) /\ ~q.soon
        BY <1>4, <2>3, <2>4
      <3>4. QED
        BY <1>1, <3>2, <3>3
    <2>6. QED
      BY <1>1, <2>2, <2>5 DEF Fires
  <1>7. BandKept' /\ QueueKept' /\ OneBuying' /\ ReadBefore'
    BY <1>1 DEF WatcherInv, BandKept, QueueKept, OneBuying, ReadBefore, NotSince, machineVars, runVars
  <1>8. QED
    BY <1>1, <1>5, <1>6, <1>7 DEF WatcherInv, runVars, firingVars

LEMMA RestIsOverKeeps == ASSUME WatcherInv, RestIsOver PROVE WatcherInv'
  <1>1. UNCHANGED <<running, half, seen, look, runVars, firingVars>>
    BY DEF RestIsOver
  <1>2. \E yes \in BOOLEAN : band' = [band EXCEPT !.rested = yes]
    BY Zenon DEF RestIsOver
  <1>3. PICK yes \in BOOLEAN : band' = [band EXCEPT !.rested = yes]
    BY <1>2
  <1>4. /\ band' \in [anchor : Prices \cup {0}, fromLoss : BOOLEAN, rested : BOOLEAN,
                      bought : Nat, basis : Nat, sales : Nat]
        /\ band'.bought = band.bought /\ band'.basis = band.basis
        /\ band'.sales = band.sales /\ band'.fromLoss = band.fromLoss
    BY <1>3 DEF WatcherInv, BandKept
  <1>5. BandKept'
    BY <1>1, <1>4 DEF WatcherInv, BandKept
  <1>6. /\ QueueKept' /\ OneBuying' /\ ~rushed'
        /\ \A r \in queue' : r.wokeOn = "buy" => NotSince(r.sales)'
        /\ \A n : NotSince(n) => NotSince(n)'
    BY <1>1, <1>4, <1>5, RunsStay
  <1>7. SeenKept' /\ LookKept'
    BY <1>1 DEF WatcherInv, SeenKept, LookKept, Fires, ObservePrice, SeenOf, firingVars
  <1>8. QED
    BY <1>1, <1>5, <1>6, <1>7 DEF WatcherInv, ReadBefore, firingVars

-----------------------------------------------------------------------------
(* The runs and the owner.                                                 *)

\* What the loop has seen and read is not theirs to change.
LEMMA LoopStays ==
    ASSUME WatcherInv, UNCHANGED <<seen, look, firingVars>>
    PROVE  SeenKept' /\ LookKept' /\ ~unearned'
  BY DEF WatcherInv, SeenKept, LookKept, Fires, ObservePrice, SeenOf, firingVars

LEMMA RunEnds ==
    ASSUME WatcherInv, NEW r \in queue, queue' = queue \ {r},
           UNCHANGED <<running, half, seen, look, queued, firingVars, overlapped, rushed, band>>
    PROVE  WatcherInv'
  <1>1. SeenKept' /\ LookKept' /\ ~unearned'
    BY LoopStays
  <1>2. BandKept' /\ QueueKept' /\ OneBuying' /\ ReadBefore'
    BY DEF WatcherInv, BandKept, QueueKept, OneBuying, ReadBefore, NotSince
  <1>3. QED
    BY <1>1, <1>2 DEF WatcherInv

LEMMA WatcherDecideKeeps == ASSUME WatcherInv, NEW r \in queue, Decide(r) PROVE WatcherInv'
  <1> DEFINE buys == r.wokeOn = "buy" /\ MayBuy
             sells == r.wokeOn \in {"sell", "floor"} /\ Holds(band)
             other == \E o \in queue : o.step = "buying"
             n == [r EXCEPT !.step = IF buys THEN "buying" ELSE "selling", !.amount = band.bought]
  <1>1. /\ r.step = "queued"
        /\ queue' = (queue \ {r}) \cup (IF ~running \/ ~(buys \/ sells) THEN {} ELSE {n})
        /\ overlapped' <=> overlapped \/ (running /\ buys /\ other)
        /\ rushed' <=> rushed \/ (running /\ buys /\ band.fromLoss /\ r.sales = band.sales)
        /\ UNCHANGED <<running, half, seen, look, queued, firingVars, band>>
    BY DEF Decide, watching
  <1>2. r \in [no : Nat, wokeOn : Ids, step : {"queued", "buying", "selling"}, sales : Nat, amount : Nat]
    BY DEF WatcherInv, QueueKept
  <1>3. /\ n \in [no : Nat, wokeOn : Ids, step : {"queued", "buying", "selling"}, sales : Nat, amount : Nat]
        /\ n.no = r.no /\ n.wokeOn = r.wokeOn /\ n.sales = r.sales
        /\ n.step = IF buys THEN "buying" ELSE "selling"
    BY <1>2 DEF WatcherInv, BandKept
  <1>4. buys => r.wokeOn = "buy" /\ band.bought = 0
    BY DEF MayBuy, Holds, WatcherInv, BandKept
  <1> HIDE DEF n, buys, sells
  <1>5. BandKept' /\ SeenKept' /\ LookKept' /\ ~unearned'
    BY <1>1, LoopStays DEF WatcherInv, BandKept
  <1>6. QueueKept'
    BY <1>1, <1>3 DEF WatcherInv, QueueKept
  <1>7. ~rushed'
    BY <1>1, <1>4 DEF WatcherInv, ReadBefore, NotSince
  <1>8. OneBuying'
    <2>1. CASE overlapped'
      BY <2>1 DEF OneBuying
    <2>2. CASE ~overlapped'
      <3>1. /\ band.bought <= 1
            /\ \A q \in queue : q.step = "buying" => band.bought = 0
            /\ \A p, q \in queue : p.step = "buying" /\ q.step = "buying" => p = q
        BY <1>1, <2>2 DEF WatcherInv, OneBuying
      <3>2. CASE running /\ buys
        <4>1. \A q \in queue : q.step # "buying"
          BY <1>1, <2>2, <3>2
        <4>2. \A q \in queue' : q.step = "buying" => q = n
          BY <1>1, <4>1
        <4>3. QED
          BY <1>1, <1>4, <3>1, <3>2, <4>2 DEF OneBuying
      <3>3. CASE ~(running /\ buys)
        <4>1. \A q \in queue' : q.step = "buying" => q \in queue
          BY <1>1, <1>3, <3>3
        <4>2. QED
          BY <1>1, <3>1, <4>1 DEF OneBuying
      <3>4. QED
        BY <3>2, <3>3
    <2>3. QED
      BY <2>1, <2>2
  <1>9. ReadBefore'
    BY <1>1, <1>3 DEF WatcherInv, ReadBefore, NotSince
  <1>10. QED
    BY <1>5, <1>6, <1>7, <1>8, <1>9 DEF WatcherInv

\* Decided again, a run knows no more than before.
LEMMA TakeOverKeeps == ASSUME WatcherInv, NEW r \in queue, TakeOver(r) PROVE WatcherInv'
  <1> DEFINE n == NewRun(r.wokeOn, r.sales)
  <1>1. /\ queued < MaxRuns /\ queued' = queued + 1 /\ queue' = queue \cup {n}
        /\ UNCHANGED <<band, running, half, overlapped, rushed>> /\ UNCHANGED <<seen, look, firingVars>>
    BY DEF TakeOver, machineVars
  <1>2. queued \in Nat /\ MaxRuns \in Nat
    BY WatcherAssumption DEF WatcherInv, QueueKept
  <1>3. r \in queue /\ r.wokeOn \in Ids /\ r.sales \in Nat
    BY DEF WatcherInv, QueueKept
  <1>4. /\ n \in [no : Nat, wokeOn : Ids, step : {"queued", "buying", "selling"}, sales : Nat, amount : Nat]
        /\ n.no = queued + 1 /\ n.wokeOn = r.wokeOn /\ n.step = "queued" /\ n.sales = r.sales
    BY <1>2, <1>3 DEF NewRun
  <1> HIDE DEF n
  <1>5. BandKept' /\ SeenKept' /\ LookKept' /\ ~unearned' /\ ~rushed'
    BY <1>1, LoopStays DEF WatcherInv, BandKept
  <1>6. QueueKept'
    BY <1>1, <1>2, <1>4 DEF WatcherInv, QueueKept
  <1>7. OneBuying'
    BY <1>1, <1>4 DEF WatcherInv, OneBuying
  <1>8. ReadBefore'
    BY <1>1, <1>4 DEF WatcherInv, ReadBefore, NotSince
  <1>9. QED
    BY <1>5, <1>6, <1>7, <1>8 DEF WatcherInv

LEMMA BuyKeeps == ASSUME WatcherInv, NEW r \in queue, NEW price \in Prices, Buy(r, price) PROVE WatcherInv'
  <1>1. /\ r.step = "buying" /\ queue' = queue \ {r}
        /\ band' = [band EXCEPT !.bought = @ + 1, !.basis = @ + price]
        /\ UNCHANGED <<running, half, seen, look, queued, firingVars, overlapped, rushed>>
    BY DEF Buy, watching
  <1>2. price \in Nat /\ FloorGap + 1 <= price /\ FloorGap \in Nat
    BY WatcherAssumption
  <1>3. /\ band' \in [anchor : Prices \cup {0}, fromLoss : BOOLEAN, rested : BOOLEAN,
                      bought : Nat, basis : Nat, sales : Nat]
        /\ band'.bought = band.bought + 1 /\ band'.basis = band.basis + price
        /\ band'.sales = band.sales /\ band'.fromLoss = band.fromLoss
    <2>1. PICK b \in Nat, c \in Nat : b = band.bought + 1 /\ c = band.basis + price
      BY <1>2 DEF WatcherInv, BandKept
    <2>2. band' = [band EXCEPT !.bought = b, !.basis = c]
      BY <1>1, <2>1
    <2>3. QED
      BY <2>1, <2>2 DEF WatcherInv, BandKept
  <1>4. BandKept'
    <2>1. band.bought \in Nat /\ band.basis \in Nat /\ band.bought * (FloorGap + 1) <= band.basis
      BY DEF WatcherInv, BandKept
    <2>2. (band.bought + 1) * (FloorGap + 1) = band.bought * (FloorGap + 1) + (FloorGap + 1)
      BY <1>2, <2>1
    <2>3. band'.bought * (FloorGap + 1) <= band'.basis
      BY <1>2, <1>3, <2>1, <2>2
    <2>4. QED
      BY <1>1, <1>2, <1>3, <2>1, <2>3 DEF WatcherInv, BandKept
  <1>5. SeenKept' /\ LookKept' /\ ~unearned'
    BY <1>1, LoopStays
  <1>6. QueueKept' /\ ReadBefore'
    BY <1>1, <1>3 DEF WatcherInv, QueueKept, ReadBefore, NotSince
  <1>7. OneBuying'
    BY <1>1, <1>3 DEF WatcherInv, OneBuying, BandKept
  <1>8. QED
    BY <1>1, <1>4, <1>5, <1>6, <1>7 DEF WatcherInv

LEMMA SellKeeps == ASSUME WatcherInv, NEW r \in queue, NEW price \in Prices, Sell(r, price) PROVE WatcherInv'
  <1> DEFINE sold == IF r.amount > band.bought THEN band.bought ELSE r.amount
             cost == IF Holds(band) THEN CostOf(band, sold) ELSE 0
             m == FloorGap + 1
  <1>1. /\ queue' = queue \ {r}
        /\ UNCHANGED <<running, half, seen, look, queued, firingVars, overlapped, rushed>>
    BY DEF Sell, watching
  <1>2. \E a \in BOOLEAN :
           band' = [anchor |-> price, fromLoss |-> a, rested |-> FALSE, bought |-> band.bought - sold,
                    basis |-> band.basis - cost, sales |-> band.sales + 1]
    <2>1. (price * r.amount < cost) \in BOOLEAN
      OBVIOUS
    <2>2. QED
      BY <2>1, Zenon DEF Sell
  <1>3. /\ band.bought \in Nat /\ band.basis \in Nat /\ band.sales \in Nat /\ r.amount \in Nat
        /\ (band.bought = 0 <=> band.basis = 0) /\ band.bought * m <= band.basis /\ m \in Nat
    BY WatcherAssumption DEF WatcherInv, BandKept, QueueKept
  <1>4. sold \in 0 .. band.bought
    BY <1>3
  <1> HIDE DEF sold, m
  <1>5. /\ cost \in 0 .. band.basis
        /\ band.bought = sold <=> band.basis = cost
        /\ (band.bought - sold) * m <= band.basis - cost
    <2>1. CASE band.bought = 0
      BY <1>3, <1>4, <2>1 DEF Holds
    <2>2. CASE band.bought > 0
      <3> DEFINE c == (band.basis * sold) \div band.bought
      <3>1. cost = c
        BY <2>2 DEF Holds, CostOf
      <3>2. band.bought \in Nat \ {0} /\ sold \in 0 .. band.bought /\ band.basis > 0
        BY <1>3, <1>4, <2>2
      <3>3. /\ c \in 0 .. band.basis
            /\ sold = band.bought => c = band.basis
            /\ sold < band.bought /\ band.basis > 0 => c < band.basis
            /\ \A k \in Nat : band.bought * k <= band.basis => (band.bought - sold) * k <= band.basis - c
        BY <1>3, <3>2, Share
      <3> HIDE DEF c, cost
      <3>4. (band.bought - sold) * m <= band.basis - c
        BY <1>3, <3>3
      <3>5. band.bought = sold <=> band.basis = c
        BY <3>2, <3>3
      <3>6. QED
        BY <3>1, <3>3, <3>4, <3>5
    <2>3. QED
      BY <1>3, <2>1, <2>2
  <1> HIDE DEF cost
  <1>6. PICK a \in BOOLEAN :
           band' = [anchor |-> price, fromLoss |-> a, rested |-> FALSE, bought |-> band.bought - sold,
                    basis |-> band.basis - cost, sales |-> band.sales + 1]
    BY <1>2
  <1>7. /\ band' \in [anchor : Prices \cup {0}, fromLoss : BOOLEAN, rested : BOOLEAN,
                      bought : Nat, basis : Nat, sales : Nat]
        /\ band'.bought = band.bought - sold /\ band'.basis = band.basis - cost /\ band'.sales = band.sales + 1
    BY <1>3, <1>4, <1>5, <1>6
  <1>8. BandKept'
    BY <1>1, <1>3, <1>4, <1>5, <1>7 DEF WatcherInv, BandKept, m
  <1>9. SeenKept' /\ LookKept' /\ ~unearned'
    BY <1>1, LoopStays
  <1>10. QueueKept'
    BY <1>1 DEF WatcherInv, QueueKept
  <1>11. OneBuying'
    BY <1>1, <1>3, <1>4, <1>7 DEF WatcherInv, OneBuying
  <1>12. ReadBefore'
    <2>1. look.sales \in Nat /\ \A q \in queue : q.sales \in Nat
      BY DEF WatcherInv, LookKept, QueueKept
    <2>2. \A n \in Nat : NotSince(n) => NotSince(n)'
      BY <1>3, <1>7 DEF NotSince
    <2>3. QED
      BY <1>1, <2>1, <2>2 DEF WatcherInv, ReadBefore
  <1>13. QED
    BY <1>1, <1>8, <1>9, <1>10, <1>11, <1>12 DEF WatcherInv

LEMMA OwnerKeeps ==
    ASSUME WatcherInv, PauseOrResume \/ \E to \in Halves : Retune(to)
    PROVE  WatcherInv'
  <1>1. UNCHANGED <<band, seen, look, runVars, firingVars>>
    BY DEF PauseOrResume, Retune
  <1>2. BandKept'
    BY DEF PauseOrResume, Retune, WatcherInv, BandKept
  <1>3. SeenKept' /\ LookKept' /\ ~unearned'
    BY <1>1, LoopStays
  <1>4. QueueKept' /\ OneBuying' /\ ReadBefore' /\ ~rushed'
    BY <1>1 DEF WatcherInv, QueueKept, OneBuying, ReadBefore, NotSince, runVars
  <1>5. QED
    BY <1>2, <1>3, <1>4 DEF WatcherInv

LEMMA NextWatcherInv == WatcherInv /\ [WatcherNext]_watcherVars => WatcherInv'
  <1> SUFFICES ASSUME WatcherInv, [WatcherNext]_watcherVars PROVE WatcherInv'
    OBVIOUS
  <1>1. CASE ReadMachine \/ LookWithoutIt
    BY <1>1, ReadMachineKeeps, LookWithoutItKeeps
  <1>2. ASSUME NEW price \in Prices, GetPrice(price) PROVE WatcherInv'
    BY <1>2, GetPriceKeeps
  <1>3. ASSUME NEW heard \in BOOLEAN, (\E price \in Prices : GiveAnchor(price, heard)) \/ Fire(heard)
        PROVE  WatcherInv'
    BY <1>3, GiveAnchorKeeps, FireKeeps
  <1>4. CASE MissPrice \/ BreakLook \/ RestartWatcher
    BY <1>4, OtherEndsKeep
  <1>5. CASE PassGap \/ RestIsOver
    BY <1>5, PassGapKeeps, RestIsOverKeeps
  <1>6. ASSUME NEW r \in queue, Decide(r) PROVE WatcherInv'
    BY <1>6, WatcherDecideKeeps
  <1>7. ASSUME NEW r \in queue, NEW price \in Prices, Buy(r, price) \/ Sell(r, price) PROVE WatcherInv'
    BY <1>7, BuyKeeps, SellKeeps
  <1>8. ASSUME NEW r \in queue, TradeFails(r) PROVE WatcherInv'
    BY <1>8, RunEnds DEF TradeFails, watching
  <1>9. ASSUME NEW r \in queue, TakeOver(r) PROVE WatcherInv'
    BY <1>9, TakeOverKeeps
  <1>10. CASE PauseOrResume \/ \E to \in Halves : Retune(to)
    BY <1>10, OwnerKeeps
  <1>11. CASE UNCHANGED watcherVars
    BY <1>11 DEF watcherVars, WatcherInv, BandKept, SeenKept, LookKept, Fires, ObservePrice, SeenOf,
                 QueueKept, OneBuying, ReadBefore, NotSince
  <1>12. QED
    BY <1>1, <1>2, <1>3, <1>4, <1>5, <1>6, <1>7, <1>8, <1>9, <1>10, <1>11 DEF WatcherNext

LEMMA WatcherInvIsTyped == WatcherInv => WatcherTypeOK
  <1> SUFFICES ASSUME WatcherInv PROVE WatcherTypeOK
    OBVIOUS
  <1>1. /\ running \in BOOLEAN /\ half \in Halves
        /\ band.anchor \in Prices \cup {0} /\ band.bought \in Nat /\ band.basis \in Nat
        /\ (band.bought = 0 <=> band.basis = 0)
    BY DEF WatcherInv, BandKept
  <1>2. (\A s \in seen : s.level.at > 0 /\ s.armed \in BOOLEAN) /\ \A s, t \in seen : s.level = t.level => s = t
    BY DEF WatcherInv, SeenKept, KnownSeen, KnownLevels
  <1>3. look.step \in {"resting", "asking", "firing"}
    BY DEF WatcherInv, LookKept
  <1>4. (\A r \in queue : r.no \in 1 .. queued /\ r.step \in {"queued", "buying", "selling"})
        /\ queued \in 0 .. MaxRuns
    BY DEF WatcherInv, QueueKept
  <1>5. QED
    BY <1>1, <1>2, <1>3, <1>4 DEF WatcherTypeOK

(* A level fires only when the price was away from it since it last fired  *)
(* and was watched (price-watcher.ts, price-trigger.ts): whatever prices   *)
(* come or do not, and however often the loop restarts, breaks off a look  *)
(* or finds the recipe retuned and the band moved.                         *)
THEOREM WatcherFiresOnCrossings == WatcherSpec => []FiresOnCrossings
  <1>1. WatcherInv => FiresOnCrossings
    BY DEF WatcherInv, FiresOnCrossings
  <1>2. QED
    BY <1>1, InitWatcherInv, NextWatcherInv, PTL DEF WatcherSpec

(* One position at a time (following-range.ts decide), unless two runs     *)
(* decided to buy before either's buy was in the record.                   *)
THEOREM WatcherBuysOnce == WatcherSpec => []OnePosition
  <1>1. WatcherInv => OnePosition
    BY DEF WatcherInv, OneBuying, OnePosition, BandKept
  <1>2. QED
    BY <1>1, InitWatcherInv, NextWatcherInv, PTL DEF WatcherSpec

(* After a loss the machine rests (following-range.ts levels): a buy is    *)
(* decided in the rest only of a level that was read before the sale.      *)
THEOREM WatcherRests == WatcherSpec => []RestsAfterTheFloor
  <1>1. WatcherInv => RestsAfterTheFloor
    BY DEF WatcherInv, RestsAfterTheFloor
  <1>2. QED
    BY <1>1, InitWatcherInv, NextWatcherInv, PTL DEF WatcherSpec

-----------------------------------------------------------------------------
(* The traders' books.                                                     *)

Balances(s) == s.cash + Costs(s) = StartCash + s.realized

BookKept(s, n) ==
    /\ s \in Books /\ s.fills \subseteq 1 .. n /\ Balances(s)
    /\ \A k \in Tokens :
          /\ s.values[k] \in Nat \cup {Unpriced}
          /\ k \notin Held(s) => s.held[k] = NotHeld /\ s.values[k] = Unpriced

LEMMA BooksAreTyped == ASSUME NEW s, BookKept(s, fills) PROVE RowTypeOK(s)
  BY DEF BookKept, Books, RowTypeOK

LEMMA MoreFills == ASSUME NEW s, NEW n \in Nat, NEW m \in Nat, n <= m, BookKept(s, n) PROVE BookKept(s, m)
  BY DEF BookKept

\* What the holdings cost is a sum over them.
CostsIn(s) == [k \in Tokens |-> s.held[k].cost]

LEMMA CostsAreASum ==
    ASSUME NEW s \in Books
    PROVE  /\ Costs(s) = SumOver(CostsIn(s), Held(s)) /\ IsFiniteSet(Held(s)) /\ Held(s) \subseteq Tokens
           /\ \A k \in Tokens : CostsIn(s)[k] = s.held[k].cost /\ CostsIn(s)[k] \in Int
  <1>1. IsFiniteSet(Held(s)) /\ Held(s) \subseteq Tokens
    BY TraderAssumption, FS_Subset DEF Held
  <1>2. \A k \in Tokens : CostsIn(s)[k] = s.held[k].cost /\ CostsIn(s)[k] \in Int
    BY DEF CostsIn, Books
  <1> DEFINE Step(f) == [t \in SUBSET Held(s) |->
                            IF t = {} THEN 0 ELSE LET x == CHOOSE x \in t : TRUE IN s.held[x].cost + f[t \ {x}]]
             StepOf(f) == [t \in SUBSET Held(s) |->
                            IF t = {} THEN 0 ELSE LET x == CHOOSE x \in t : TRUE IN CostsIn(s)[x] + f[t \ {x}]]
  <1>3. Costs(s) = (CHOOSE f : f = Step(f))[Held(s)]
    BY DEF Costs, MapThenSumSet, MapThenFoldSet
  <1>4. SumOver(CostsIn(s), Held(s)) = (CHOOSE f : f = StepOf(f))[Held(s)]
    BY DEF SumOver, MapThenSumSet, MapThenFoldSet
  <1>5. ASSUME NEW f PROVE Step(f) = StepOf(f)
    <2>1. ASSUME NEW t \in SUBSET Held(s), t # {}
          PROVE  s.held[CHOOSE x \in t : TRUE].cost = CostsIn(s)[CHOOSE x \in t : TRUE]
      <3>1. (CHOOSE x \in t : TRUE) \in Tokens
        BY <1>1, <2>1
      <3>2. QED
        BY <1>2, <3>1
    <2>2. QED
      BY <2>1
  <1> HIDE DEF Step, StepOf
  <1>6. (CHOOSE f : f = Step(f)) = (CHOOSE f : f = StepOf(f))
    BY <1>5
  <1>7. QED
    BY <1>1, <1>2, <1>3, <1>4, <1>6

LEMMA TheSameCosts ==
    ASSUME NEW s \in Books, NEW u \in Books, u.held = s.held, u.cash = s.cash, u.realized = s.realized
    PROVE  Held(u) = Held(s) /\ (Balances(s) => Balances(u))
  <1>1. Held(u) = Held(s) /\ CostsIn(u) = CostsIn(s)
    BY DEF Held, CostsIn
  <1>2. Costs(u) = Costs(s)
    BY <1>1, CostsAreASum
  <1>3. QED
    BY <1>1, <1>2 DEF Balances

\* A token that is not held costs nothing, so what is held costs that much more than the rest.
LEMMA CostsOfTheRest ==
    ASSUME NEW s \in Books, NEW k \in Tokens, k \notin Held(s) => s.held[k] = NotHeld
    PROVE  /\ Costs(s) = s.held[k].cost + SumOver(CostsIn(s), Held(s) \ {k})
           /\ SumOver(CostsIn(s), Held(s) \ {k}) \in Int
  <1>1. /\ Costs(s) = SumOver(CostsIn(s), Held(s)) /\ IsFiniteSet(Held(s)) /\ Held(s) \subseteq Tokens
        /\ \A j \in Tokens : CostsIn(s)[j] = s.held[j].cost /\ CostsIn(s)[j] \in Int
    BY CostsAreASum
  <1>2. CASE k \in Held(s)
    BY <1>1, <1>2, SumOfOneMore
  <1>3. CASE k \notin Held(s)
    <2>1. Held(s) \ {k} = Held(s) /\ s.held[k].cost = 0
      BY <1>3 DEF NotHeld
    <2>2. SumOver(CostsIn(s), Held(s)) \in Int
      <3>1. CASE Held(s) = {}
        BY <3>1, SumOfNothing
      <3>2. CASE Held(s) # {}
        <4>1. PICK j \in Held(s) : TRUE
          BY <3>2
        <4>2. QED
          BY <1>1, <4>1, SumOfOneMore
      <3>3. QED
        BY <3>1, <3>2
    <2>3. SumOver(CostsIn(s), Held(s) \ {k}) = SumOver(CostsIn(s), Held(s))
      BY <2>1, Zenon
    <2>4. QED
      BY <1>1, <2>1, <2>2, <2>3
  <1>4. QED
    BY <1>2, <1>3

\* One holding changed, and what it cost with it.
LEMMA CostsChange ==
    ASSUME NEW s \in Books, NEW u \in Books, NEW k \in Tokens,
           k \notin Held(s) => s.held[k] = NotHeld, k \notin Held(u) => u.held[k] = NotHeld,
           \A j \in Tokens \ {k} : u.held[j] = s.held[j]
    PROVE  Costs(u) = Costs(s) - s.held[k].cost + u.held[k].cost /\ Costs(s) \in Int
  <1> DEFINE rest == Held(s) \ {k}
  <1>1. Held(u) \ {k} = rest
    BY DEF Held
  <1>2. /\ Costs(s) = s.held[k].cost + SumOver(CostsIn(s), rest) /\ SumOver(CostsIn(s), rest) \in Int
        /\ Costs(u) = u.held[k].cost + SumOver(CostsIn(u), rest) /\ SumOver(CostsIn(u), rest) \in Int
    BY <1>1, CostsOfTheRest
  <1>3. IsFiniteSet(rest) /\ \A j \in rest : CostsIn(s)[j] \in Int /\ CostsIn(u)[j] = CostsIn(s)[j]
    <2>1. IsFiniteSet(rest) /\ rest \subseteq Tokens \ {k}
      BY CostsAreASum, FS_Subset
    <2>2. \A j \in Tokens : CostsIn(s)[j] = s.held[j].cost /\ CostsIn(s)[j] \in Int /\ CostsIn(u)[j] = u.held[j].cost
      BY CostsAreASum
    <2>3. QED
      BY <2>1, <2>2
  <1> HIDE DEF rest
  <1>4. SumOver(CostsIn(u), rest) = SumOver(CostsIn(s), rest)
    BY <1>3, SumOfTheSame
  <1>5. s.held[k].cost \in Nat /\ u.held[k].cost \in Nat
    BY DEF Books
  <1>6. QED
    BY <1>2, <1>4, <1>5

LEMMA ANewBook == ASSUME NEW n \in Nat PROVE BookKept(NewTrader, n) /\ NewTrader.status = "running"
  <1>1. StartCash \in Int
    BY TraderAssumption
  <1>2. NewTrader \in Books
    BY <1>1 DEF NewTrader, Books, NotHeld, Unpriced
  <1>3. Balances(NewTrader)
    <2>1. Held(NewTrader) = {}
      BY DEF NewTrader, Held, NotHeld
    <2>2. Costs(NewTrader) = 0
      BY <1>2, <2>1, CostsAreASum, SumOfNothing
    <2>3. NewTrader.cash = StartCash /\ NewTrader.realized = 0
      BY DEF NewTrader
    <2>4. QED
      BY <1>1, <2>2, <2>3 DEF Balances
  <1>4. QED
    BY <1>2, <1>3 DEF NewTrader, BookKept, Held, NotHeld, Unpriced

LEMMA WhatIsSpentIsHeld ==
    ASSUME NEW cash \in Int, NEW realized \in Int, NEW cost \in Int, NEW all \in Int,
           NEW cash2 \in Int, NEW realized2 \in Int, NEW cost2 \in Int, NEW start \in Int,
           cash + all = start + realized, cash2 + cost2 - realized2 = cash + cost - realized
    PROVE  cash2 + (all - cost + cost2) = start + realized2
  OBVIOUS

\* One token's holding and value changed, and a fill written down.
IsChange(c) ==
    /\ c.cash \in Int /\ c.realized \in Int /\ c.amount \in Nat /\ c.cost \in Nat
    /\ c.value \in Nat \cup {Unpriced}
    /\ c.amount = 0 => c.cost = 0 /\ c.value = Unpriced

\* What it realised less what it paid is what the holding costs less.
IsExact(s, k, c) == c.cash + c.cost - c.realized = s.cash + s.held[k].cost - s.realized

Changed(s, n, k, c) ==
    [s EXCEPT !.cash = c.cash, !.realized = c.realized,
              !.held = [@ EXCEPT ![k] = [amount |-> c.amount, cost |-> c.cost]],
              !.values = [@ EXCEPT ![k] = c.value],
              !.fills = @ \cup {n + 1}]

LEMMA BookChanged ==
    ASSUME NEW s, NEW n \in Nat, BookKept(s, n), NEW k \in Tokens, NEW c, IsChange(c), IsExact(s, k, c),
           NEW u, u = Changed(s, n, k, c)
    PROVE  /\ BookKept(u, n + 1) /\ u.status = s.status /\ s.fills \subseteq u.fills
           /\ Held(s) \ {k} \subseteq Held(u)
  <1> DEFINE h == [amount |-> c.amount, cost |-> c.cost]
  <1>1. /\ s \in Books /\ s.fills \subseteq 1 .. n
        /\ s.held \in [Tokens -> [amount : Nat, cost : Nat]] /\ s.values \in [Tokens -> Int]
    BY DEF BookKept, Books
  <1>2. h \in [amount : Nat, cost : Nat] /\ h.amount = c.amount /\ (c.amount = 0 => h = NotHeld)
    BY DEF NotHeld, IsChange
  <1> HIDE DEF h
  <1>3. u = [s EXCEPT !.cash = c.cash, !.realized = c.realized, !.held = [s.held EXCEPT ![k] = h],
                      !.values = [s.values EXCEPT ![k] = c.value], !.fills = s.fills \cup {n + 1}]
    BY <1>1 DEF h, Books, Changed
  <1>4. c.value \in Int /\ c.cash \in Int /\ c.realized \in Int
    BY DEF IsChange, Unpriced
  <1>5. /\ [s.held EXCEPT ![k] = h] \in [Tokens -> [amount : Nat, cost : Nat]]
        /\ [s.values EXCEPT ![k] = c.value] \in [Tokens -> Int]
        /\ s.fills \cup {n + 1} \in SUBSET Nat /\ s.fills \cup {n + 1} \subseteq 1 .. n + 1
    BY <1>1, <1>2, <1>4
  <1>6. /\ u \in Books /\ u.status = s.status /\ u.fills = s.fills \cup {n + 1}
        /\ u.held = [s.held EXCEPT ![k] = h] /\ u.values = [s.values EXCEPT ![k] = c.value]
    BY <1>1, <1>3, <1>4, <1>5 DEF Books
  <1>7. /\ u.held[k] = h /\ u.values[k] = c.value
        /\ \A j \in Tokens \ {k} : u.held[j] = s.held[j] /\ u.values[j] = s.values[j]
    BY <1>1, <1>6
  <1>8. (\A j \in Tokens \ {k} : j \in Held(u) <=> j \in Held(s)) /\ (k \in Held(u) <=> c.amount > 0)
    BY <1>2, <1>7 DEF Held
  <1>9. ASSUME NEW j \in Tokens
        PROVE  /\ u.values[j] \in Nat \cup {Unpriced}
               /\ j \notin Held(u) => u.held[j] = NotHeld /\ u.values[j] = Unpriced
    BY <1>2, <1>7, <1>8 DEF BookKept, IsChange
  <1>10. u.cash = c.cash /\ u.realized = c.realized /\ u.held[k].cost = c.cost
    BY <1>1, <1>2, <1>3, <1>4, <1>5, <1>7 DEF Books, h
  <1>11. Balances(u)
    <2>1. Costs(u) = Costs(s) - s.held[k].cost + u.held[k].cost /\ Costs(s) \in Int
      <3>1. k \notin Held(s) => s.held[k] = NotHeld
        BY DEF BookKept
      <3>2. QED
        BY <1>1, <1>6, <1>7, <1>9, <3>1, CostsChange
    <2>2. /\ s.cash \in Int /\ s.realized \in Int /\ s.held[k].cost \in Int /\ StartCash \in Int
          /\ c.cash \in Int /\ c.realized \in Int /\ c.cost \in Int
      BY <1>1, TraderAssumption DEF Books, IsChange
    <2>3. s.cash + Costs(s) = StartCash + s.realized
      BY DEF BookKept, Balances
    <2>4. c.cash + c.cost - c.realized = s.cash + s.held[k].cost - s.realized
      BY DEF IsExact
    <2>5. Costs(u) = Costs(s) - s.held[k].cost + c.cost
      BY <1>10, <2>1
    <2>6. c.cash + Costs(u) = StartCash + c.realized
      <3>1. c.cash + (Costs(s) - s.held[k].cost + c.cost) = StartCash + c.realized
        BY <2>1, <2>2, <2>3, <2>4, WhatIsSpentIsHeld
      <3>2. QED
        BY <2>5, <3>1
    <2>7. QED
      BY <1>10, <2>6 DEF Balances
  <1>12. QED
    BY <1>5, <1>6, <1>8, <1>9, <1>11 DEF BookKept, Held

LEMMA BuyingKeepsTheBook ==
    ASSUME NEW s, NEW n \in Nat, BookKept(s, n), NEW k \in Tokens, NEW usdc \in Nat, NEW received \in Nat \ {0},
           NEW u, u = BookBuy(s, k, usdc, received, n + 1)
    PROVE  BookKept(u, n + 1) /\ u.status = s.status /\ s.fills \subseteq u.fills /\ Held(s) \ {k} \subseteq Held(u)
  <1>1. /\ s \in Books /\ s.held[k] \in [amount : Nat, cost : Nat] /\ s.values[k] \in Nat \cup {Unpriced}
        /\ s.cash \in Int /\ s.realized \in Int /\ NetworkFee \in Nat
    BY TraderAssumption DEF BookKept, Books
  <1> DEFINE cash == s.cash - (usdc + NetworkFee)
             amount == s.held[k].amount + received
             cost == s.held[k].cost + usdc + NetworkFee
             value == (IF s.values[k] = Unpriced THEN 0 ELSE s.values[k]) + usdc
  <1>2. cash \in Int /\ amount \in Nat /\ amount # 0 /\ cost \in Nat /\ value \in Nat
    BY <1>1 DEF Unpriced
  <1> DEFINE c == [cash |-> cash, realized |-> s.realized, amount |-> amount, cost |-> cost, value |-> value]
  <1>3. u = Changed(s, n, k, c)
    BY <1>1 DEF BookBuy, Books, Changed
  <1> HIDE DEF cash, amount, cost, value
  <1>4. IsChange(c)
    BY <1>1, <1>2 DEF IsChange
  <1>5. IsExact(s, k, c)
    BY <1>1 DEF IsExact, cash, cost
  <1> HIDE DEF c
  <1>6. QED
    BY <1>3, <1>4, <1>5, BookChanged

LEMMA SellingKeepsTheBook ==
    ASSUME NEW s, NEW n \in Nat, BookKept(s, n), NEW k \in Tokens, NEW amount \in 1 .. s.held[k].amount,
           NEW usdc \in Nat, NEW u, u = BookSell(s, k, amount, usdc, n + 1)
    PROVE  BookKept(u, n + 1) /\ u.status = s.status /\ s.fills \subseteq u.fills /\ Held(s) \ {k} \subseteq Held(u)
  <1> DEFINE h == s.held[k]
             cost == CostOfPart(h, amount)
             left == h.amount - amount
             cash == s.cash + usdc - NetworkFee
             realized == s.realized + usdc - NetworkFee - cost
             keep == IF left = 0 THEN 0 ELSE h.cost - cost
             value == IF left = 0 THEN Unpriced ELSE s.values[k]
  <1>1. /\ s \in Books /\ h \in [amount : Nat, cost : Nat] /\ s.values[k] \in Nat \cup {Unpriced}
        /\ s.cash \in Int /\ s.realized \in Int /\ NetworkFee \in Nat
    BY TraderAssumption DEF BookKept, Books
  <1>2. cost \in 0 .. h.cost
    <2>1. h.cost \in Nat /\ h.amount \in Nat \ {0} /\ amount \in 0 .. h.amount
      BY <1>1
    <2>2. (h.cost * amount) \div h.amount \in 0 .. h.cost
      BY <2>1, Share
    <2>3. QED
      BY <2>2 DEF CostOfPart
  <1>3. left \in Nat
    BY <1>1
  <1> HIDE DEF cost, left
  <1>4. /\ cash \in Int /\ realized \in Int /\ keep \in Nat /\ value \in Nat \cup {Unpriced}
        /\ left = 0 => keep = 0 /\ value = Unpriced
    BY <1>1, <1>2, <1>3
  <1> DEFINE c == [cash |-> cash, realized |-> realized, amount |-> left, cost |-> keep, value |-> value]
  <1>5. u = Changed(s, n, k, c)
    <2>1. (IF left = 0 THEN NotHeld ELSE [amount |-> left, cost |-> h.cost - cost]) = [amount |-> left, cost |-> keep]
      BY DEF NotHeld
    <2>2. u = [s EXCEPT !.cash = @ + usdc - NetworkFee, !.realized = @ + usdc - NetworkFee - cost,
                      !.held[k] = [amount |-> left, cost |-> keep],
                      !.values[k] = IF left = 0 THEN Unpriced ELSE @,
                      !.fills = @ \cup {n + 1}]
      BY <2>1 DEF BookSell, cost, left
    <2> HIDE DEF keep
    <2>3. QED
      BY <1>1, <2>2 DEF Books, Changed
  <1> HIDE DEF cash, realized, keep, value
  <1>6. IsChange(c)
    BY <1>3, <1>4 DEF IsChange
  <1>7. IsExact(s, k, c)
    <2>1. keep = h.cost - cost
      <3>1. left = 0 => cost = h.cost
        <4>1. left = 0 => amount = h.amount
          BY <1>1 DEF left
        <4>2. h.cost \in Nat /\ h.amount \in Nat \ {0} /\ h.amount \in 0 .. h.amount
          BY <1>1
        <4>3. (h.cost * h.amount) \div h.amount = h.cost
          BY <4>2, Share
        <4>4. QED
          BY <4>1, <4>3 DEF cost, CostOfPart
      <3>2. QED
        BY <1>1, <1>2, <3>1 DEF keep
    <2>2. /\ s.cash \in Int /\ s.realized \in Int /\ h.cost \in Int /\ cost \in Int
          /\ NetworkFee \in Int /\ usdc \in Int
      BY <1>1, <1>2
    <2>3. cash + (h.cost - cost) - realized = s.cash + h.cost - s.realized
      BY <2>2 DEF cash, realized
    <2>4. QED
      BY <2>1, <2>3 DEF IsExact
  <1> HIDE DEF c
  <1>8. QED
    BY <1>5, <1>6, <1>7, BookChanged

-----------------------------------------------------------------------------
(* What holds of the traders' rows, of what was read of them, of the ticks *)
(* and of the requests.                                                    *)

TickSet ==
    [run : Runs, state : Books, step : {"pricing", "selling", "thinking", "done", "saving"},
     exits : SUBSET Tokens, late : BOOLEAN, crossed : BOOLEAN]

CallSet ==
    [step : {"idle", "making", "starting", "answered"}, run : Runs \cup {NoRun}]
        \cup [step : {"ending", "stopping"}, run : Runs, state : Books]

RowsKept ==
    /\ rows \in [Runs -> Books \cup {NoRun}] /\ fills \in 0 .. MaxFills
    /\ \A r \in Rows : BookKept(rows[r], fills)

MadeKept ==
    /\ made \in Seq(Runs) /\ ToSet(made) = Rows
    /\ IsFiniteSet(Rows) /\ Len(made) = Cardinality(Rows)

RoundKept ==
    /\ round \in [Runs -> Books \cup {NoRun}]
    /\ \A r \in Runs : round[r] # NoRun
          => r \in Rows /\ BookKept(round[r], fills) /\ round[r].status # "stopped"

TickKept(t) ==
    /\ t \in TickSet /\ t.run \in Rows /\ BookKept(t.state, fills)
    /\ t.exits \subseteq Held(t.state) /\ (t.step # "selling" => t.exits = {})
    /\ t.state.status # "stopped"

\* A tick has all that its row has, unless it says why not.
TickIsAhead(t) ==
    ~t.late /\ ~t.crossed /\ t.run \notin ended
        => /\ rows[t.run].fills \subseteq t.state.fills
           /\ rows[t.run].status # "running" => t.state.status # "running"

TicksKept ==
    /\ \A t \in ticks : TickKept(t) /\ TickIsAhead(t)
    /\ \A t, u \in ticks : t.run = u.run => t = u

CallerKept(u) ==
    /\ u.step = "making" => u.run \in Runs \ Rows
    /\ u.step \in {"starting", "ending", "stopping"} => u.run \in Rows
    /\ u.step \in {"ending", "stopping"} => BookKept(u.state, fills)
    /\ u.step = "stopping" => u.run \in ended

CallersKept ==
    /\ callers \in [Callers -> CallSet]
    /\ \A c \in Callers : CallerKept(callers[c])
    /\ \A c, d \in Callers :
          callers[c].step = "making" /\ callers[d].step = "making" /\ callers[c].run = callers[d].run
              => c = d

\* Nothing is under way for a run that is stopped, unless it was ended since the last start.
EndedKept ==
    /\ ended \subseteq Rows
    /\ \A t \in ticks : t.step = "saving" /\ t.run \in ended => t.crossed
    /\ \A r \in Rows \ ended : rows[r].status = "stopped"
          => /\ r \notin Busy /\ round[r] = NoRun
             /\ \A c \in Callers : ~(callers[c].step = "starting" /\ callers[c].run = r)

TraderInv == RowsKept /\ MadeKept /\ RoundKept /\ TicksKept /\ CallersKept /\ EndedKept

LEMMA RowsAreBooks ==
    ASSUME RowsKept, NEW r \in Rows
    PROVE  r \in Runs /\ rows[r] \in Books /\ rows[r] # NoRun /\ BookKept(rows[r], fills)
  BY DEF RowsKept, Rows

LEMMA BooksAreNotNoRun == NoRun \notin Books /\ NoRun \notin Runs
  BY TraderAssumption

LEMMA NoRoundIsKept == ASSUME NEW r \in Runs PROVE NoRound[r] = NoRun
  BY DEF NoRound

LEMMA TraderInvIsTyped == TraderInv => TraderTypeOK
  <1> SUFFICES ASSUME TraderInv PROVE TraderTypeOK
    OBVIOUS
  <1>1. \A r \in Rows : RowTypeOK(rows[r])
    BY RowsAreBooks, BooksAreTyped DEF TraderInv
  <1>2. \A t \in ticks : t.run \in Rows /\ RowTypeOK(t.state)
    BY BooksAreTyped DEF TraderInv, TicksKept, TickKept
  <1>3. \A c \in Callers : callers[c].run \in Runs \cup {NoRun}
    BY DEF TraderInv, CallersKept, CallSet
  <1>4. QED
    BY <1>1, <1>2, <1>3 DEF TraderInv, TraderTypeOK, RowsKept, MadeKept, TicksKept, EndedKept

LEMMA InitTraderInv == TraderInit => TraderInv
  <1> SUFFICES ASSUME TraderInit PROVE TraderInv
    OBVIOUS
  <1>1. Rows = {}
    BY DEF TraderInit, Rows
  <1>2. RowsKept
    BY <1>1, TraderAssumption DEF TraderInit, RowsKept
  <1>3. MadeKept
    BY <1>1, FS_EmptySet DEF TraderInit, MadeKept, ToSet
  <1>4. RoundKept
    BY DEF TraderInit, RoundKept
  <1>5. TicksKept
    BY DEF TraderInit, TicksKept
  <1>6. CallersKept
    <2>1. NotCalled \in CallSet /\ NotCalled.step = "idle"
      BY DEF NotCalled, CallSet
    <2>2. \A c \in Callers : callers[c] = NotCalled
      BY DEF TraderInit
    <2>3. callers \in [Callers -> CallSet]
      BY <2>1 DEF TraderInit
    <2>4. QED
      BY <2>1, <2>2, <2>3 DEF CallersKept, CallerKept
  <1>7. EndedKept
    BY <1>1 DEF TraderInit, EndedKept
  <1>8. QED
    BY <1>2, <1>3, <1>4, <1>5, <1>6, <1>7 DEF TraderInv

-----------------------------------------------------------------------------
(* A tick goes on or ends, and nothing else changes.                       *)

\* What a tick may become once n fills are written down.
GoesOn(t, u, n) ==
    /\ u \in TickSet /\ u.run = t.run /\ u.late = t.late /\ u.crossed = t.crossed
    /\ BookKept(u.state, n) /\ u.exits \subseteq Held(u.state) /\ (u.step # "selling" => u.exits = {})
    /\ t.state.fills \subseteq u.state.fills
    /\ u.state.status = t.state.status \/ u.state.status = "paused"
    /\ u.step = "saving" => u.run \notin ended

LEMMA TicksMove ==
    ASSUME TraderInv, NEW t \in ticks, NEW u, GoesOn(t, u, fills'), ticks' = (ticks \ {t}) \cup {u},
           fills' \in fills .. MaxFills, UNCHANGED <<rows, made, round, ended, callers>>
    PROVE  TraderInv'
  <1>1. Rows' = Rows /\ fills \in Nat /\ fills' \in Nat /\ fills <= fills'
    BY TraderAssumption DEF Rows, TraderInv, RowsKept
  <1>2. RowsKept'
    BY <1>1, MoreFills, RowsAreBooks DEF TraderInv, RowsKept
  <1>3. MadeKept'
    BY <1>1 DEF TraderInv, MadeKept
  <1>4. RoundKept'
    BY <1>1, MoreFills DEF TraderInv, RoundKept
  <1>5. TickKept(u)' /\ TickIsAhead(u)'
    <2>1. TickKept(t) /\ TickIsAhead(t)
      BY DEF TraderInv, TicksKept
    <2>2. TickKept(u)'
      BY <1>1, <2>1 DEF TickKept, GoesOn
    <2>3. TickIsAhead(u)'
      BY <1>1, <2>1 DEF TickIsAhead, GoesOn
    <2>4. QED
      BY <2>2, <2>3
  <1>6. ASSUME NEW v \in ticks PROVE TickKept(v)' /\ TickIsAhead(v)'
    <2>1. TickKept(v) /\ TickIsAhead(v)
      BY DEF TraderInv, TicksKept
    <2>2. BookKept(v.state, fills)' 
      BY <1>1, <2>1, MoreFills DEF TickKept
    <2>3. QED
      BY <1>1, <2>1, <2>2 DEF TickKept, TickIsAhead
  <1>7. TicksKept'
    BY <1>5, <1>6 DEF TraderInv, TicksKept, GoesOn
  <1>8. CallersKept'
    <2>1. ASSUME NEW c \in Callers PROVE CallerKept(callers[c])'
      BY <1>1, MoreFills DEF TraderInv, CallersKept, CallerKept
    <2>2. QED
      BY <2>1 DEF TraderInv, CallersKept
  <1>9. EndedKept'
    <2>1. Busy' = Busy
      BY DEF Busy, GoesOn
    <2>2. QED
      BY <1>1, <2>1 DEF TraderInv, EndedKept, GoesOn
  <1>10. QED
    BY <1>2, <1>3, <1>4, <1>7, <1>8, <1>9 DEF TraderInv

LEMMA TickEnds ==
    ASSUME TraderInv, NEW t \in ticks, ticks' = ticks \ {t}, UNCHANGED <<rows, made, round, ended, callers, fills>>
    PROVE  TraderInv'
  <1>1. Rows' = Rows /\ Busy' \subseteq Busy
    BY DEF Rows, Busy
  <1>2. RowsKept' /\ MadeKept' /\ RoundKept' /\ CallersKept'
    BY <1>1 DEF TraderInv, RowsKept, MadeKept, RoundKept, CallersKept, CallerKept
  <1>3. TicksKept'
    BY <1>1 DEF TraderInv, TicksKept, TickKept, TickIsAhead
  <1>4. EndedKept'
    BY <1>1 DEF TraderInv, EndedKept
  <1>5. QED
    BY <1>2, <1>3, <1>4 DEF TraderInv

\* What is known of a tick under way.
LEMMA ATick ==
    ASSUME TraderInv, NEW t \in ticks
    PROVE  /\ t \in TickSet /\ t.run \in Rows /\ BookKept(t.state, fills) /\ t.state \in Books
           /\ t.exits \subseteq Held(t.state) /\ (t.step # "selling" => t.exits = {})
           /\ t.state.status # "stopped"
           /\ fills \in Nat /\ (t.step = "saving" /\ t.run \in ended => t.crossed)
  BY TraderAssumption DEF TraderInv, TicksKept, TickKept, EndedKept, RowsKept, BookKept

-----------------------------------------------------------------------------
(* The steps of a tick.                                                    *)

StepTo(t, s, exits, step) == [t EXCEPT !.state = s, !.exits = exits, !.step = step]

MayStepTo(t, s, exits, step, n) ==
    /\ step \in {"pricing", "selling", "thinking", "done", "saving"} /\ (step = "saving" => t.run \notin ended)
    /\ BookKept(s, n) /\ exits \subseteq Held(s) /\ (step # "selling" => exits = {})
    /\ t.state.fills \subseteq s.fills
    /\ s.status = t.state.status \/ s.status = "paused"

LEMMA NextStep ==
    ASSUME TraderInv, NEW t \in ticks, NEW s, NEW exits, NEW step, NEW n \in Nat, MayStepTo(t, s, exits, step, n)
    PROVE  GoesOn(t, StepTo(t, s, exits, step), n)
  <1> DEFINE u == StepTo(t, s, exits, step)
  <1>1. t \in TickSet
    BY ATick
  <1>2. s \in Books /\ exits \in SUBSET Tokens /\ step \in {"pricing", "selling", "thinking", "done", "saving"}
    BY DEF BookKept, Held, MayStepTo
  <1>3. u \in TickSet /\ u.run = t.run /\ u.late = t.late /\ u.crossed = t.crossed
        /\ u.state = s /\ u.exits = exits /\ u.step = step
    BY <1>1, <1>2 DEF TickSet, StepTo
  <1> HIDE DEF u
  <1>4. GoesOn(t, u, n)
    BY <1>3 DEF GoesOn, MayStepTo
  <1>5. QED
    BY <1>4 DEF u

LEMMA PriceHoldingsKeeps == ASSUME TraderInv, NEW t \in ticks, PriceHoldings(t) PROVE TraderInv'
  <1> DEFINE Found(found) == [k \in Tokens |-> IF k \in Held(t.state) /\ found[k] # Unpriced
                                               THEN found[k] ELSE t.state.values[k]]
             Goes(s, exits) == Becomes(t, [t EXCEPT !.state = s, !.exits = exits, !.step = "selling"])
  <1>a. t.state.values \in [Tokens -> Int]
    BY ATick DEF Books
  <1>b. PICK found \in [Held(t.state) -> Quotes \cup {Unpriced}] :
             \E exits \in SUBSET Priced([t.state EXCEPT !.values = Found(found)]) :
                Goes([t.state EXCEPT !.values = Found(found)], exits)
    BY <1>a DEF PriceHoldings
  <1> DEFINE values == Found(found)
             s == [t.state EXCEPT !.values = values]
  <1>1. PICK exits \in SUBSET Priced(s) : Goes(s, exits)
    BY <1>b
  <1>2. t \in TickSet /\ t.state \in Books /\ BookKept(t.state, fills) /\ fills \in Nat
    BY ATick
  <1>3. ASSUME NEW k \in Tokens
        PROVE  /\ values[k] \in Nat \cup {Unpriced} /\ values[k] \in Int
               /\ k \notin Held(t.state) => values[k] = Unpriced
    <2>1. Quotes \subseteq Nat /\ Unpriced \in Int
      BY TraderAssumption DEF Unpriced
    <2>2. t.state.values[k] \in Nat \cup {Unpriced} /\ (k \notin Held(t.state) => t.state.values[k] = Unpriced)
      BY <1>2 DEF BookKept
    <2>3. CASE k \in Held(t.state) /\ found[k] # Unpriced
      BY <2>1, <2>3
    <2>4. CASE ~(k \in Held(t.state) /\ found[k] # Unpriced)
      BY <2>1, <2>2, <2>4
    <2>5. QED
      BY <2>3, <2>4
  <1>4. values \in [Tokens -> Int]
    BY <1>3
  <1> HIDE DEF values
  <1>5. /\ s \in Books /\ s.values = values /\ s.held = t.state.held /\ s.fills = t.state.fills
        /\ s.cash = t.state.cash /\ s.realized = t.state.realized
        /\ s.status = t.state.status
    BY <1>2, <1>4 DEF Books
  <1> HIDE DEF s
  <1>6. Held(s) = Held(t.state) /\ exits \subseteq Held(s)
    BY <1>5 DEF Held, Priced
  <1>7. BookKept(s, fills)
    <2>1. Balances(s)
      BY <1>2, <1>5, TheSameCosts DEF BookKept
    <2>2. QED
      BY <1>2, <1>3, <1>5, <1>6, <2>1 DEF BookKept
  <1> DEFINE u == [t EXCEPT !.state = s, !.exits = exits, !.step = "selling"]
  <1>8. GoesOn(t, u, fills)
    <2>1. MayStepTo(t, s, exits, "selling", fills)
      BY <1>5, <1>6, <1>7 DEF MayStepTo
    <2>2. u = StepTo(t, s, exits, "selling")
      BY DEF StepTo
    <2> HIDE DEF u
    <2>3. QED
      BY <1>2, <2>1, <2>2, NextStep
  <1>9. ticks' = (ticks \ {t}) \cup {u} /\ UNCHANGED <<rows, made, round, ended, callers, fills>>
    BY <1>1 DEF Becomes, PriceHoldings, outside
  <1> HIDE DEF u
  <1>10. fills' \in fills .. MaxFills /\ fills' = fills
    BY <1>9 DEF TraderInv, RowsKept
  <1>11. QED
    BY <1>8, <1>9, <1>10, TicksMove

LEMMA SellExitKeeps ==
    ASSUME TraderInv, NEW t \in ticks, NEW k \in Tokens, NEW usdc \in Quotes, SellExit(t, k, usdc)
    PROVE  TraderInv'
  <1> DEFINE s == BookSell(t.state, k, t.state.held[k].amount, usdc, fills + 1)
             exits == t.exits \ {k}
             u == [t EXCEPT !.state = s, !.exits = exits, !.step = "selling"]
  <1>1. t \in TickSet /\ t.state \in Books /\ BookKept(t.state, fills) /\ fills \in Nat
        /\ t.exits \subseteq Held(t.state) /\ usdc \in Nat
    BY ATick, TraderAssumption
  <1>2. t.state.held[k].amount \in 1 .. t.state.held[k].amount
    BY <1>1 DEF SellExit, Held, Books
  <1>3. BookKept(s, fills + 1) /\ s.status = t.state.status /\ t.state.fills \subseteq s.fills
        /\ Held(t.state) \ {k} \subseteq Held(s)
    BY <1>1, <1>2, SellingKeepsTheBook
  <1>4. fills' = fills + 1 /\ fills' \in fills .. MaxFills /\ UNCHANGED <<rows, made, round, ended, callers>>
    BY <1>1, TraderAssumption DEF SellExit, FillTakesPlace, outside
  <1>5. ticks' = (ticks \ {t}) \cup {u}
    BY <1>1 DEF SellExit, Becomes, TickSet
  <1> HIDE DEF s
  <1>6. GoesOn(t, u, fills + 1)
    <2>1. MayStepTo(t, s, exits, "selling", fills + 1)
      BY <1>1, <1>3 DEF MayStepTo
    <2>2. u = StepTo(t, s, exits, "selling")
      BY DEF StepTo
    <2> HIDE DEF u
    <2>3. QED
      BY <1>1, <2>1, <2>2, NextStep
  <1> HIDE DEF u
  <1>7. QED
    BY <1>4, <1>5, <1>6, TicksMove

\* The tick goes to another step, or lets a token go that it could not sell.
LEMMA StepsOn ==
    ASSUME TraderInv, NEW t \in ticks, NEW exits \in SUBSET t.exits, NEW step \in {"thinking", "done", "selling", "saving"},
           step = "saving" => t.run \notin ended, step # "selling" => exits = {},
           ticks' = (ticks \ {t}) \cup {[t EXCEPT !.exits = exits, !.step = step]},
           UNCHANGED <<rows, made, round, ended, callers, fills>>
    PROVE  TraderInv'
  <1>1. t \in TickSet /\ BookKept(t.state, fills) /\ fills \in Nat /\ exits \subseteq Held(t.state)
    BY ATick
  <1> DEFINE u == [t EXCEPT !.state = t.state, !.exits = exits, !.step = step]
  <1>2. ticks' = (ticks \ {t}) \cup {u}
    BY <1>1 DEF TickSet
  <1>3. GoesOn(t, u, fills)
    <2>1. MayStepTo(t, t.state, exits, step, fills)
      BY <1>1 DEF MayStepTo
    <2>2. u = StepTo(t, t.state, exits, step)
      BY DEF StepTo
    <2> HIDE DEF u
    <2>3. QED
      BY <1>1, <2>1, <2>2, NextStep
  <1> HIDE DEF u
  <1>4. fills' \in fills .. MaxFills /\ fills' = fills
    BY DEF TraderInv, RowsKept
  <1>5. QED
    BY <1>2, <1>3, <1>4, TicksMove

LEMMA ExitCouldNotSellKeeps ==
    ASSUME TraderInv, NEW t \in ticks, NEW k \in Tokens, ExitCouldNotSell(t, k)
    PROVE  TraderInv'
  <1>1. t \in TickSet /\ t.step = "selling"
    BY ATick DEF ExitCouldNotSell
  <1>2. ticks' = (ticks \ {t}) \cup {[t EXCEPT !.exits = t.exits \ {k}, !.step = "selling"]}
    BY <1>1 DEF ExitCouldNotSell, Becomes, TickSet
  <1>3. UNCHANGED <<rows, made, round, ended, callers, fills>>
    BY DEF ExitCouldNotSell, outside
  <1>4. QED
    BY <1>2, <1>3, StepsOn

\* The owner's book is the tick's, paused.
LEMMA PausingKeeps ==
    ASSUME TraderInv, NEW t \in ticks, NEW step \in {"done", "thinking"}, t.exits = {},
           ticks' = (ticks \ {t}) \cup {[t EXCEPT !.state = Pause(t.state), !.exits = t.exits, !.step = step]},
           UNCHANGED <<rows, made, round, ended, callers, fills>>
    PROVE  TraderInv'
  <1> DEFINE s == Pause(t.state)
             u == [t EXCEPT !.state = s, !.exits = t.exits, !.step = step]
  <1>1. t.state \in Books /\ BookKept(t.state, fills) /\ fills \in Nat /\ t.exits \subseteq Held(t.state)
    BY ATick
  <1>2. s \in Books /\ s.status = "paused" /\ s.held = t.state.held /\ s.values = t.state.values
        /\ s.cash = t.state.cash /\ s.realized = t.state.realized
        /\ s.fills = t.state.fills
    BY <1>1 DEF Books, Pause
  <1> HIDE DEF s
  <1>3. BookKept(s, fills) /\ t.exits \subseteq Held(s)
    <2>1. Balances(s) /\ Held(s) = Held(t.state)
      BY <1>1, <1>2, TheSameCosts DEF s, Pause, Books, BookKept
    <2>2. QED
      BY <1>1, <1>2, <2>1 DEF BookKept
  <1>4. MayStepTo(t, s, t.exits, step, fills)
    BY <1>2, <1>3 DEF MayStepTo
  <1>5. ticks' = (ticks \ {t}) \cup {u} /\ u = StepTo(t, s, t.exits, step)
    BY DEF s, StepTo
  <1> HIDE DEF u
  <1>6. GoesOn(t, u, fills)
    BY <1>1, <1>4, <1>5, NextStep
  <1>7. fills' \in fills .. MaxFills /\ fills' = fills
    BY DEF TraderInv, RowsKept
  <1>8. QED
    BY <1>5, <1>6, <1>7, TicksMove

LEMMA JudgeBookKeeps == ASSUME TraderInv, NEW t \in ticks, JudgeBook(t) PROVE TraderInv'
  <1>1. t \in TickSet /\ t.exits = {} /\ UNCHANGED <<rows, made, round, ended, callers, fills>>
    BY ATick DEF JudgeBook, outside
  <1>2. CASE DrawdownHit(t.state)
    <2>1. ticks' = (ticks \ {t}) \cup {[t EXCEPT !.state = Pause(t.state), !.exits = t.exits, !.step = "done"]}
      BY <1>1, <1>2 DEF JudgeBook, Becomes, TickSet
    <2>2. QED
      BY <1>1, <2>1, PausingKeeps
  <1>3. CASE ~DrawdownHit(t.state)
    <2>1. PICK step \in {"thinking", "done"} : Becomes(t, [t EXCEPT !.step = step])
      BY <1>3 DEF JudgeBook
    <2>2. ticks' = (ticks \ {t}) \cup {[t EXCEPT !.exits = t.exits, !.step = step]}
      BY <1>1, <2>1 DEF Becomes, TickSet
    <2>3. QED
      BY <1>1, <2>2, StepsOn
  <1>4. QED
    BY <1>2, <1>3

LEMMA AskToBuyKeeps ==
    ASSUME TraderInv, NEW t \in ticks, NEW k \in Tokens, NEW usdc \in Spends, NEW received \in Received,
           AskToBuy(t, k, usdc, received)
    PROVE  TraderInv'
  <1>1. /\ t \in TickSet /\ t.state \in Books /\ BookKept(t.state, fills) /\ fills \in Nat /\ t.exits \subseteq Held(t.state)
        /\ t.step = "thinking" /\ t.exits = {} /\ usdc \in Nat /\ received \in Nat \ {0}
        /\ UNCHANGED <<rows, made, round, ended, callers>>
    BY ATick, TraderAssumption DEF AskToBuy, outside
  <1>2. CASE DrawdownHit(t.state)
    <2>1. ticks' = (ticks \ {t}) \cup {[t EXCEPT !.state = Pause(t.state), !.exits = t.exits, !.step = "thinking"]}
      BY <1>1, <1>2 DEF AskToBuy, Becomes, TickSet
    <2>2. UNCHANGED <<rows, made, round, ended, callers, fills>>
      BY <1>1, <1>2 DEF AskToBuy
    <2>3. QED
      BY <1>1, <2>1, <2>2, PausingKeeps
  <1>3. CASE ~DrawdownHit(t.state)
    <2> DEFINE s == BookBuy(t.state, k, usdc, received, fills + 1)
    <2>1. BookKept(s, fills + 1) /\ s.status = t.state.status /\ t.state.fills \subseteq s.fills
      BY <1>1, BuyingKeepsTheBook
    <2>2. fills' = fills + 1 /\ fills' \in fills .. MaxFills
      BY <1>1, <1>3, TraderAssumption DEF AskToBuy, FillTakesPlace
    <2>3. ticks' = (ticks \ {t}) \cup {StepTo(t, s, t.exits, "thinking")}
      BY <1>1, <1>3 DEF AskToBuy, Becomes, TickSet, StepTo
    <2> HIDE DEF s
    <2>4. MayStepTo(t, s, t.exits, "thinking", fills + 1)
      BY <1>1, <2>1 DEF MayStepTo
    <2>5. GoesOn(t, StepTo(t, s, t.exits, "thinking"), fills + 1)
      BY <1>1, <2>4, NextStep
    <2>6. QED
      BY <1>1, <2>2, <2>3, <2>5, TicksMove
  <1>4. QED
    BY <1>2, <1>3

LEMMA AskToSellKeeps ==
    ASSUME TraderInv, NEW t \in ticks, NEW k \in Tokens, NEW amount \in 1 .. t.state.held[k].amount,
           NEW usdc \in Quotes, AskToSell(t, k, amount, usdc)
    PROVE  TraderInv'
  <1>1. /\ t \in TickSet /\ t.state \in Books /\ BookKept(t.state, fills) /\ fills \in Nat /\ t.exits \subseteq Held(t.state)
        /\ t.step = "thinking" /\ t.exits = {} /\ usdc \in Nat
        /\ UNCHANGED <<rows, made, round, ended, callers>>
    BY ATick, TraderAssumption DEF AskToSell, outside
  <1> DEFINE s == BookSell(t.state, k, amount, usdc, fills + 1)
  <1>2. BookKept(s, fills + 1) /\ s.status = t.state.status /\ t.state.fills \subseteq s.fills
    BY <1>1, SellingKeepsTheBook
  <1>3. fills' = fills + 1 /\ fills' \in fills .. MaxFills
    BY <1>1, TraderAssumption DEF AskToSell, FillTakesPlace
  <1>4. ticks' = (ticks \ {t}) \cup {StepTo(t, s, t.exits, "thinking")}
    BY <1>1 DEF AskToSell, Becomes, TickSet, StepTo
  <1> HIDE DEF s
  <1>5. MayStepTo(t, s, t.exits, "thinking", fills + 1)
    BY <1>1, <1>2 DEF MayStepTo
  <1>6. GoesOn(t, StepTo(t, s, t.exits, "thinking"), fills + 1)
    BY <1>1, <1>5, NextStep
  <1>7. QED
    BY <1>1, <1>3, <1>4, <1>6, TicksMove

LEMMA WaitingKeeps == ASSUME TraderInv, NEW t \in ticks, WaitForFeeds(t) \/ EndThought(t) PROVE TraderInv'
  <1>1. t \in TickSet /\ t.exits = {} /\ UNCHANGED <<rows, made, round, ended, callers, fills>>
    BY ATick DEF WaitForFeeds, EndThought, outside
  <1>2. ticks' = (ticks \ {t}) \cup {[t EXCEPT !.exits = t.exits, !.step = "done"]}
    BY <1>1 DEF WaitForFeeds, EndThought, Becomes, TickSet
  <1>3. QED
    BY <1>1, <1>2, StepsOn

LEMMA FinishTickKeeps == ASSUME TraderInv, NEW t \in ticks, FinishTick(t) PROVE TraderInv'
  <1>1. t \in TickSet /\ t.exits = {} /\ UNCHANGED <<rows, made, round, ended, callers, fills>>
    BY ATick DEF FinishTick, outside
  <1>2. CASE t.run \notin ended
    <2>1. ticks' = (ticks \ {t}) \cup {[t EXCEPT !.exits = t.exits, !.step = "saving"]}
      BY <1>1, <1>2 DEF FinishTick, MaySave, Becomes, TickSet
    <2>2. QED
      BY <1>1, <1>2, <2>1, StepsOn
  <1>3. CASE t.run \in ended
    BY <1>1, <1>3, TickEnds DEF FinishTick, MaySave
  <1>4. QED
    BY <1>2, <1>3

LEMMA FailTickKeeps == ASSUME TraderInv, NEW t \in ticks, FailTick(t) PROVE TraderInv'
  BY TickEnds DEF FailTick, outside

LEMMA LandTickKeeps == ASSUME TraderInv, NEW t \in ticks, LandTick(t) PROVE TraderInv'
  <1>1. /\ t \in TickSet /\ t.run \in Rows /\ BookKept(t.state, fills) /\ t.state \in Books
        /\ t.state # NoRun /\ t.state.status # "stopped"
    BY ATick, BooksAreNotNoRun
  <1>2. /\ rows' = [rows EXCEPT ![t.run] = t.state] /\ ticks' = ticks \ {t}
        /\ UNCHANGED <<made, round, ended, callers, fills>>
    BY DEF LandTick
  <1>3. /\ Rows' = Rows /\ rows'[t.run] = t.state
        /\ \A r \in Runs \ {t.run} : rows'[r] = rows[r]
    BY <1>1, <1>2 DEF Rows, TraderInv, RowsKept
  <1>4. RowsKept'
    BY <1>1, <1>2, <1>3 DEF TraderInv, RowsKept, Rows
  <1>5. MadeKept' /\ RoundKept' /\ CallersKept'
    BY <1>2, <1>3 DEF TraderInv, MadeKept, RoundKept, CallersKept, CallerKept
  <1>6. ASSUME NEW v \in ticks \ {t} PROVE v.run \in Rows \ {t.run}
    BY <1>6 DEF TraderInv, TicksKept, TickKept
  <1>7. TicksKept'
    <2>1. ASSUME NEW v \in ticks \ {t} PROVE TickKept(v)' /\ TickIsAhead(v)'
      <3>1. TickKept(v) /\ TickIsAhead(v) /\ rows'[v.run] = rows[v.run]
        BY <1>3, <1>6 DEF TraderInv, TicksKept, Rows
      <3>2. QED
        BY <1>2, <1>3, <3>1 DEF TickKept, TickIsAhead
    <2>2. QED
      BY <1>2, <2>1 DEF TraderInv, TicksKept
  <1>8. EndedKept'
    <2>1. Busy' \subseteq Busy
      BY <1>2 DEF Busy
    <2>2. ASSUME NEW r \in Rows \ ended, rows'[r].status = "stopped" PROVE rows[r].status = "stopped"
      BY <1>1, <1>3, <2>2 DEF Rows
    <2>3. QED
      BY <1>2, <1>3, <2>1, <2>2 DEF TraderInv, EndedKept
  <1>9. QED
    BY <1>4, <1>5, <1>7, <1>8 DEF TraderInv

LEMMA TickStepKeeps == ASSUME TraderInv, NEW t \in ticks, TickStep(t) PROVE TraderInv'
  BY PriceHoldingsKeeps, WaitingKeeps, JudgeBookKeeps, FinishTickKeeps, LandTickKeeps, FailTickKeeps,
     SellExitKeeps, ExitCouldNotSellKeeps, AskToBuyKeeps, AskToSellKeeps DEF TickStep

-----------------------------------------------------------------------------
(* The loop's round, and a run's first tick.                               *)

LEMMA ReadRoundKeeps == ASSUME TraderInv, ReadRound PROVE TraderInv'
  <1>1. UNCHANGED <<rows, made, ticks, ended, callers, fills>> /\ Rows' = Rows /\ Busy' = Busy
    BY DEF ReadRound, Rows, Busy
  <1>2. /\ round' \in [Runs -> Books \cup {NoRun}]
        /\ \A r \in Runs : round'[r] # NoRun => r \in Running /\ round'[r] = rows[r]
    BY DEF ReadRound, TraderInv, RowsKept
  <1>3. RoundKept'
    BY <1>1, <1>2, RowsAreBooks DEF TraderInv, RoundKept, Running
  <1>4. RowsKept' /\ MadeKept' /\ TicksKept' /\ CallersKept'
    BY <1>1 DEF TraderInv, RowsKept, MadeKept, TicksKept, TickKept, TickIsAhead, CallersKept, CallerKept
  <1>5. EndedKept'
    BY <1>1, <1>2 DEF TraderInv, EndedKept, Running, Rows
  <1>6. QED
    BY <1>3, <1>4, <1>5 DEF TraderInv

\* A tick begins with the book it is handed, which it knows to be the row's or not.
LEMMA ANewTick ==
    ASSUME TraderInv, NEW r \in Rows, NEW s, BookKept(s, fills), s.status # "stopped"
    PROVE  /\ TickKept(NewTick(r, s)) /\ TickIsAhead(NewTick(r, s))
           /\ NewTick(r, s).run = r /\ NewTick(r, s).step = "pricing"
  <1>1. PICK a \in BOOLEAN : a = (s # rows[r])
    OBVIOUS
  <1>2. PICK b \in BOOLEAN : b = FALSE
    OBVIOUS
  <1> DEFINE t == [run |-> r, state |-> s, step |-> "pricing", exits |-> {}, late |-> a, crossed |-> b]
  <1>3. NewTick(r, s) = t
    BY <1>1, <1>2, Zenon DEF NewTick
  <1>4. s \in Books /\ r \in Runs
    BY DEF BookKept, Rows
  <1>5. /\ t \in TickSet /\ t.run = r /\ t.state = s /\ t.step = "pricing" /\ t.exits = {}
        /\ t.late = a
    BY <1>4 DEF TickSet
  <1> HIDE DEF t
  <1>6. TickKept(t)
    BY <1>5 DEF TickKept
  <1>7. TickIsAhead(t)
    BY <1>1, <1>5 DEF TickIsAhead
  <1>8. QED
    BY <1>3, <1>5, <1>6, <1>7

\* Ticks are begun for runs that have none.
Begun(new) ==
    /\ \A t \in new : TickKept(t) /\ TickIsAhead(t) /\ t.step = "pricing" /\ MayTick(t.run)
    /\ \A t \in new : t.run \in ended \/ rows[t.run].status # "stopped"
    /\ \A t, u \in new : t.run = u.run => t = u

LEMMA TicksBegin ==
    ASSUME TraderInv, NEW new, Begun(new), ticks' = ticks \cup new, UNCHANGED <<rows, ended, fills>>
    PROVE  /\ TicksKept'
           /\ \A t \in ticks' : t.step = "saving" /\ t.run \in ended => t.crossed
           /\ \A r \in Rows \ ended : rows[r].status = "stopped" => r \notin Busy'
  <1>1. Rows' = Rows
    BY DEF Rows
  <1>2. ASSUME NEW t \in ticks' PROVE TickKept(t)' /\ TickIsAhead(t)'
    <2>1. TickKept(t) /\ TickIsAhead(t)
      BY DEF TraderInv, TicksKept, Begun
    <2>2. QED
      BY <1>1, <2>1 DEF TickKept, TickIsAhead
  <1>3. \A t, u \in ticks' : t.run = u.run => t = u
    BY DEF TraderInv, TicksKept, Begun, MayTick, Busy
  <1>4. TicksKept'
    BY <1>2, <1>3 DEF TicksKept
  <1>5. \A t \in ticks' : t.step = "saving" /\ t.run \in ended => t.crossed
    BY DEF TraderInv, EndedKept, Begun
  <1>6. \A r \in Rows \ ended : rows[r].status = "stopped" => r \notin Busy'
    BY DEF TraderInv, EndedKept, Begun, Busy
  <1>7. QED
    BY <1>4, <1>5, <1>6

LEMMA StartTicksKeeps == ASSUME TraderInv, StartTicks PROVE TraderInv'
  <1> DEFINE starting == {q \in Runs : round[q] # NoRun /\ MayTick(q)}
             new == {NewTick(r, round[r]) : r \in starting}
  <1>1. /\ ticks' = ticks \cup new /\ round' = NoRound
        /\ UNCHANGED <<rows, made, ended, callers, fills>> /\ Rows' = Rows
    BY DEF StartTicks, Rows
  <1>2. ASSUME NEW r \in starting
        PROVE  /\ TickKept(NewTick(r, round[r])) /\ TickIsAhead(NewTick(r, round[r]))
               /\ NewTick(r, round[r]).run = r /\ NewTick(r, round[r]).step = "pricing"
               /\ r \in ended \/ rows[r].status # "stopped"
    <2>1. r \in Rows /\ BookKept(round[r], fills) /\ round[r].status # "stopped"
      BY <1>2 DEF TraderInv, RoundKept
    <2>2. r \in ended \/ rows[r].status # "stopped"
      BY <1>2, <2>1 DEF TraderInv, EndedKept
    <2>3. QED
      BY <2>1, <2>2, ANewTick
  <1>3. Begun(new)
    BY <1>2 DEF Begun
  <1> HIDE DEF new
  <1>4. /\ TicksKept' /\ \A t \in ticks' : t.step = "saving" /\ t.run \in ended => t.crossed
        /\ \A r \in Rows \ ended : rows[r].status = "stopped" => r \notin Busy'
    BY <1>1, <1>3, TicksBegin
  <1>5. RowsKept' /\ MadeKept' /\ CallersKept'
    BY <1>1 DEF TraderInv, RowsKept, MadeKept, CallersKept, CallerKept
  <1>6. RoundKept'
    BY <1>1, NoRoundIsKept DEF RoundKept, NoRound
  <1>7. EndedKept'
    <2>1. \A r \in Rows : round'[r] = NoRun
      BY <1>1 DEF NoRound, Rows
    <2>2. QED
      BY <1>1, <1>4, <2>1 DEF TraderInv, EndedKept
  <1>8. QED
    BY <1>4, <1>5, <1>6, <1>7 DEF TraderInv

-----------------------------------------------------------------------------
(* Beginning and ending a run.                                             *)

\* The request moves on, and is one that may be made of the rows as they are.
LEMMA CallerMoves ==
    ASSUME TraderInv, NEW c \in Callers, NEW u, CallerAt(c, u), u \in CallSet, CallerKept(u),
           u.step = "making" => \A d \in Callers : callers[d].run # u.run,
           UNCHANGED <<rows, ended, fills>>
    PROVE  CallersKept'
  <1>1. /\ callers' \in [Callers -> CallSet] /\ Rows' = Rows
        /\ callers'[c] = u /\ \A d \in Callers \ {c} : callers'[d] = callers[d]
    BY DEF TraderInv, CallersKept, CallerAt, Rows
  <1>2. \A d \in Callers : CallerKept(callers'[d])
    BY <1>1 DEF TraderInv, CallersKept
  <1>3. \A d \in Callers : CallerKept(callers[d])'
    BY <1>1, <1>2 DEF CallerKept
  <1>4. QED
    BY <1>1, <1>3 DEF TraderInv, CallersKept

\* Only a request that is to start a run's ticks could start one.
LEMMA OnlyTheCallerMoved ==
    ASSUME TraderInv, NEW c \in Callers, NEW u, CallerAt(c, u), u.step # "starting", CallersKept',
           UNCHANGED <<rows, made, round, ticks, ended, fills>>
    PROVE  TraderInv'
  <1>1. Rows' = Rows /\ Busy' = Busy /\ callers'[c] = u /\ \A d \in Callers \ {c} : callers'[d] = callers[d]
    BY DEF TraderInv, CallersKept, CallerAt, Rows, Busy
  <1>2. RowsKept' /\ MadeKept' /\ RoundKept' /\ TicksKept'
    BY <1>1 DEF TraderInv, RowsKept, MadeKept, RoundKept, TicksKept, TickKept, TickIsAhead
  <1>3. EndedKept'
    BY <1>1 DEF TraderInv, EndedKept
  <1>4. QED
    BY <1>2, <1>3 DEF TraderInv

LEMMA TheNewestIsARow == ASSUME TraderInv, made # <<>> PROVE Last(made) \in Rows
  BY DEF TraderInv, MadeKept, ToSet, Last

LEMMA AnsweredIsKept == ASSUME NEW r \in Runs \cup {NoRun} PROVE Answered(r) \in CallSet /\ CallerKept(Answered(r)) /\ Answered(r).step = "answered"
  BY DEF Answered, CallSet, CallerKept

LEMMA BeginRunKeeps == ASSUME TraderInv, NEW c \in Callers, NEW r \in Runs, BeginRun(c, r) PROVE TraderInv'
  <1> DEFINE begun == [step |-> "making", run |-> r]
  <1>1. /\ r \notin Rows /\ \A d \in Callers : callers[d].run # r
        /\ UNCHANGED <<rows, made, round, ticks, ended, fills>>
    BY DEF BeginRun
  <1>2. CASE made # <<>> /\ rows[Last(made)].status = "running"
    <2>1. CallerAt(c, Answered(Last(made))) /\ Last(made) \in Runs
      BY <1>2, TheNewestIsARow DEF BeginRun, Rows
    <2>2. QED
      BY <1>1, <2>1, AnsweredIsKept, CallerMoves, OnlyTheCallerMoved
  <1>3. CASE ~(made # <<>> /\ rows[Last(made)].status = "running")
    <2>1. CallerAt(c, begun)
      BY <1>3 DEF BeginRun
    <2>2. begun \in CallSet /\ CallerKept(begun) /\ begun.step = "making" /\ begun.run = r
      BY <1>1 DEF CallSet, CallerKept
    <2> HIDE DEF begun
    <2>3. QED
      BY <1>1, <2>1, <2>2, CallerMoves, OnlyTheCallerMoved
  <1>4. QED
    BY <1>2, <1>3

LEMMA MakeRowKeeps == ASSUME TraderInv, NEW c \in Callers, MakeRow(c) PROVE TraderInv'
  <1> DEFINE r == callers[c].run
             u == [callers[c] EXCEPT !.step = "starting"]
  <1>1. /\ callers[c].step = "making" /\ r \in Runs /\ r \notin Rows
        /\ rows' = [rows EXCEPT ![r] = NewTrader] /\ made' = Append(made, r) /\ CallerAt(c, u)
        /\ UNCHANGED <<round, ticks, ended, fills>>
    BY DEF MakeRow, TraderInv, CallersKept, CallerKept
  <1>2. u = [step |-> "starting", run |-> r]
    BY <1>1 DEF TraderInv, CallersKept, CallSet
  <1>3. u \in CallSet /\ u.step = "starting" /\ u.run = r
    BY <1>1, <1>2 DEF CallSet
  <1>4. fills \in Nat /\ BookKept(NewTrader, fills) /\ NewTrader.status = "running" /\ NewTrader \in Books
        /\ NewTrader # NoRun
    BY ANewBook, BooksAreNotNoRun, TraderAssumption DEF TraderInv, RowsKept, BookKept
  <1> HIDE DEF r, u
  <1>5. /\ Rows' = Rows \cup {r} /\ rows'[r] = NewTrader
        /\ \A q \in Rows : rows'[q] = rows[q]
    BY <1>1, <1>4 DEF Rows, TraderInv, RowsKept
  <1>6. RowsKept'
    BY <1>1, <1>4, <1>5 DEF TraderInv, RowsKept
  <1>7. MadeKept'
    <2>1. made \in Seq(Runs) /\ ToSet(made) = Rows /\ IsFiniteSet(Rows) /\ Len(made) = Cardinality(Rows)
      BY DEF TraderInv, MadeKept
    <2>2. IsFiniteSet(Rows \cup {r}) /\ Cardinality(Rows \cup {r}) = Cardinality(Rows) + 1
      BY <1>1, <2>1, FS_AddElement
    <2>3. /\ made' \in Seq(Runs) /\ Len(made') = Len(made) + 1 /\ Len(made) \in Nat
          /\ made'[Len(made) + 1] = r /\ \A i \in 1 .. Len(made) : made'[i] = made[i]
      BY <1>1, <2>1
    <2>4. ToSet(made') = ToSet(made) \cup {r}
      BY <2>1, <2>3 DEF ToSet
    <2>5. QED
      BY <1>5, <2>1, <2>2, <2>3, <2>4 DEF MadeKept
  <1>8. RoundKept'
    BY <1>1, <1>5 DEF TraderInv, RoundKept
  <1>9. TicksKept'
    <2>1. ASSUME NEW t \in ticks PROVE TickKept(t)' /\ TickIsAhead(t)'
      <3>1. TickKept(t) /\ TickIsAhead(t) /\ t.run \in Rows
        BY DEF TraderInv, TicksKept, TickKept
      <3>2. rows'[t.run] = rows[t.run]
        BY <1>5, <3>1
      <3>3. QED
        BY <1>1, <1>5, <3>1, <3>2 DEF TickKept, TickIsAhead
    <2>2. QED
      BY <1>1, <2>1 DEF TraderInv, TicksKept
  <1>10. /\ callers' \in [Callers -> CallSet] /\ callers'[c] = u
         /\ \A d \in Callers \ {c} : callers'[d] = callers[d]
    BY <1>1, <1>3 DEF TraderInv, CallersKept, CallerAt
  <1>11. CallersKept'
    <2>1. ASSUME NEW d \in Callers PROVE CallerKept(callers[d])'
      <3>1. CASE d = c
        BY <1>3, <1>5, <1>10, <3>1 DEF CallerKept
      <3>2. CASE d # c
        <4>1. CallerKept(callers[d]) /\ callers'[d] = callers[d]
          BY <1>10, <3>2 DEF TraderInv, CallersKept
        <4>2. callers[d].step = "making" => callers[d].run # r
          BY <1>1, <3>2 DEF TraderInv, CallersKept, r
        <4>3. QED
          BY <1>1, <1>5, <4>1, <4>2 DEF CallerKept
      <3>3. QED
        BY <3>1, <3>2
    <2>2. QED
      BY <1>3, <1>10, <2>1 DEF TraderInv, CallersKept
  <1>12. EndedKept'
    <2>1. Busy' = Busy
      BY <1>1 DEF Busy
    <2>2. ASSUME NEW q \in Rows' \ ended, rows'[q].status = "stopped" 
          PROVE  q \in Rows \ ended /\ rows[q].status = "stopped" /\ q # r
      BY <1>1, <1>4, <1>5, <2>2
    <2>3. QED
      BY <1>1, <1>3, <1>5, <1>10, <2>1, <2>2 DEF TraderInv, EndedKept
  <1>13. QED
    BY <1>6, <1>7, <1>8, <1>9, <1>11, <1>12 DEF TraderInv

LEMMA FirstTickKeeps == ASSUME TraderInv, NEW c \in Callers, FirstTick(c) PROVE TraderInv'
  <1> DEFINE r == callers[c].run
             new == IF MayTick(r) THEN {NewTick(r, NewTrader)} ELSE {}
  <1>1. /\ callers[c].step = "starting" /\ CallerAt(c, Answered(r)) /\ ticks' = ticks \cup new
        /\ UNCHANGED <<rows, made, round, ended, fills>> /\ Rows' = Rows
    BY DEF FirstTick, Rows
  <1>2. r \in Rows /\ r \in Runs
    BY <1>1 DEF TraderInv, CallersKept, CallerKept, Rows
  <1>3. BookKept(NewTrader, fills) /\ NewTrader.status = "running"
    BY ANewBook, TraderAssumption DEF TraderInv, RowsKept
  <1>4. r \in ended \/ rows[r].status # "stopped"
    BY <1>1, <1>2 DEF TraderInv, EndedKept
  <1> HIDE DEF r
  <1>5. Begun(new)
    BY <1>2, <1>3, <1>4, ANewTick DEF Begun
  <1> HIDE DEF new
  <1>6. /\ TicksKept' /\ \A t \in ticks' : t.step = "saving" /\ t.run \in ended => t.crossed
        /\ \A q \in Rows \ ended : rows[q].status = "stopped" => q \notin Busy'
    BY <1>1, <1>5, TicksBegin
  <1>7. CallersKept'
    BY <1>1, <1>2, AnsweredIsKept, CallerMoves
  <1>8. RowsKept' /\ MadeKept' /\ RoundKept'
    BY <1>1 DEF TraderInv, RowsKept, MadeKept, RoundKept
  <1>9. /\ callers'[c] = Answered(r) /\ Answered(r).step = "answered"
        /\ \A d \in Callers \ {c} : callers'[d] = callers[d]
    BY <1>1 DEF TraderInv, CallersKept, CallerAt, Answered
  <1>10. EndedKept'
    BY <1>1, <1>6, <1>9 DEF TraderInv, EndedKept
  <1>11. QED
    BY <1>6, <1>7, <1>8, <1>10 DEF TraderInv

LEMMA ReadToEndKeeps == ASSUME TraderInv, NEW c \in Callers, ReadToEnd(c) PROVE TraderInv'
  <1> DEFINE r == Last(made)
             u == [step |-> "ending", run |-> r, state |-> rows[r]]
  <1>1. /\ r \in Rows /\ UNCHANGED <<rows, made, round, ticks, ended, fills>>
        /\ CallerAt(c, IF rows[r].status = "stopped" THEN Answered(r) ELSE u)
    BY TheNewestIsARow DEF ReadToEnd
  <1>2. r \in Runs /\ rows[r] \in Books /\ BookKept(rows[r], fills)
    BY <1>1, RowsAreBooks DEF TraderInv
  <1> HIDE DEF r
  <1>3. u \in CallSet /\ u.step = "ending" /\ CallerKept(u)
    BY <1>1, <1>2 DEF CallSet, CallerKept
  <1> HIDE DEF u
  <1>4. CASE rows[r].status = "stopped"
    BY <1>1, <1>2, <1>4, AnsweredIsKept, CallerMoves, OnlyTheCallerMoved
  <1>5. CASE rows[r].status # "stopped"
    BY <1>1, <1>3, <1>5, CallerMoves, OnlyTheCallerMoved
  <1>6. QED
    BY <1>4, <1>5

\* What a tick is once its run is marked as ended.
Marked(t, r) == IF t.run = r /\ t.step = "saving" THEN [t EXCEPT !.crossed = TRUE] ELSE t

LEMMA MarkedTicks ==
    ASSUME TraderInv, NEW t \in ticks, NEW r
    PROVE  /\ TickKept(Marked(t, r)) /\ Marked(t, r).run = t.run /\ Marked(t, r).step = t.step
           /\ Marked(t, r).late = t.late /\ Marked(t, r).state = t.state
           /\ (t.run = r /\ t.step = "saving" => Marked(t, r).crossed)
           /\ (t.run # r => Marked(t, r) = t)
           /\ (t.crossed => Marked(t, r).crossed)
  <1>1. t \in TickSet /\ TickKept(t)
    BY DEF TraderInv, TicksKept, TickKept
  <1>2. CASE t.run = r /\ t.step = "saving"
    <2>1. \E a \in BOOLEAN : a /\ Marked(t, r) = [t EXCEPT !.crossed = a]
      BY <1>2, Zenon DEF Marked
    <2>2. PICK a \in BOOLEAN : a /\ Marked(t, r) = [t EXCEPT !.crossed = a]
      BY <2>1
    <2> DEFINE u == Marked(t, r)
    <2> HIDE DEF u
    <2>3. u = [t EXCEPT !.crossed = a]
      BY <2>2 DEF u
    <2>4. /\ u \in TickSet /\ u.run = t.run /\ u.step = t.step /\ u.late = t.late /\ u.state = t.state
          /\ u.exits = t.exits /\ u.crossed = a
      BY <1>1, <2>3 DEF TickSet
    <2>5. TickKept(u)
      BY <1>1, <2>4 DEF TickKept
    <2>6. QED
      BY <1>2, <2>2, <2>4, <2>5 DEF u
  <1>3. CASE ~(t.run = r /\ t.step = "saving")
    BY <1>1, <1>3 DEF Marked
  <1>4. QED
    BY <1>2, <1>3

LEMMA MarkEndedKeeps == ASSUME TraderInv, NEW c \in Callers, MarkEnded(c) PROVE TraderInv'
  <1> DEFINE r == callers[c].run
             u == [callers[c] EXCEPT !.step = "stopping"]
  <1>1. /\ callers[c].step = "ending" /\ ended' = ended \cup {r} /\ CallerAt(c, u)
        /\ ticks' = {Marked(t, r) : t \in ticks}
        /\ UNCHANGED <<rows, made, round, fills>> /\ Rows' = Rows
    BY DEF MarkEnded, Rows, Marked
  <1>2. r \in Rows /\ BookKept(callers[c].state, fills)
    BY <1>1 DEF TraderInv, CallersKept, CallerKept
  <1>3. callers[c] \in [step : {"ending", "stopping"}, run : Runs, state : Books]
    BY <1>1 DEF TraderInv, CallersKept, CallSet
  <1>4. u \in CallSet /\ u.step = "stopping" /\ u.run = r /\ u.state = callers[c].state
    BY <1>3 DEF CallSet
  <1> HIDE DEF r, u
  <1>5. RowsKept' /\ MadeKept' /\ RoundKept'
    BY <1>1 DEF TraderInv, RowsKept, MadeKept, RoundKept
  <1>6. ASSUME NEW v \in ticks' PROVE TickKept(v)' /\ TickIsAhead(v)'
    <2>1. PICK t \in ticks : v = Marked(t, r)
      BY <1>1
    <2>2. /\ TickKept(v) /\ v.run = t.run /\ v.late = t.late /\ v.state = t.state
          /\ (t.run # r => v = t) /\ (t.crossed => v.crossed) /\ TickIsAhead(t)
      BY <2>1, MarkedTicks DEF TraderInv, TicksKept
    <2>3. TickKept(v)'
      BY <1>1, <2>2 DEF TickKept
    <2>4. TickIsAhead(v)'
      BY <1>1, <2>2 DEF TickIsAhead
    <2>5. QED
      BY <2>3, <2>4
  <1>7. TicksKept'
    <2>1. \A v, w \in ticks' : v.run = w.run => v = w
      BY <1>1, MarkedTicks DEF TraderInv, TicksKept
    <2>2. QED
      BY <1>6, <2>1 DEF TicksKept
  <1>8. /\ callers' \in [Callers -> CallSet] /\ callers'[c] = u
        /\ \A d \in Callers \ {c} : callers'[d] = callers[d]
    BY <1>1, <1>4 DEF TraderInv, CallersKept, CallerAt
  <1>9. CallersKept'
    <2>1. ASSUME NEW d \in Callers PROVE CallerKept(callers[d])'
      <3>1. CASE d = c
        BY <1>1, <1>2, <1>4, <1>8, <3>1 DEF CallerKept
      <3>2. CASE d # c
        BY <1>1, <1>8, <3>2 DEF TraderInv, CallersKept, CallerKept
      <3>3. QED
        BY <3>1, <3>2
    <2>2. QED
      BY <1>4, <1>8, <2>1 DEF TraderInv, CallersKept
  <1>10. EndedKept'
    <2>1. Busy' = Busy
      BY <1>1, MarkedTicks DEF Busy
    <2>2. ASSUME NEW v \in ticks', v.step = "saving", v.run \in ended' PROVE v.crossed
      <3>1. PICK t \in ticks : v = Marked(t, r)
        BY <1>1
      <3>2. QED
        BY <1>1, <2>2, <3>1, MarkedTicks DEF TraderInv, EndedKept
    <2>3. QED
      BY <1>1, <1>2, <1>4, <1>8, <2>1, <2>2 DEF TraderInv, EndedKept
  <1>11. QED
    BY <1>5, <1>7, <1>9, <1>10 DEF TraderInv

LEMMA SaveStoppedKeeps == ASSUME TraderInv, NEW c \in Callers, SaveStopped(c) PROVE TraderInv'
  <1> DEFINE r == callers[c].run
             s == [callers[c].state EXCEPT !.status = "stopped"]
  <1>1. /\ callers[c].step = "stopping" /\ rows' = [rows EXCEPT ![r] = s] /\ CallerAt(c, Answered(r))
        /\ UNCHANGED <<made, round, ticks, ended, fills>>
    BY DEF SaveStopped
  <1>2. r \in Rows /\ r \in ended /\ BookKept(callers[c].state, fills) /\ r \in Runs
    BY <1>1 DEF TraderInv, CallersKept, CallerKept, Rows
  <1>3. s \in Books /\ s.held = callers[c].state.held /\ s.values = callers[c].state.values
        /\ s.cash = callers[c].state.cash /\ s.realized = callers[c].state.realized
        /\ s.fills = callers[c].state.fills
    BY <1>2 DEF BookKept, Books
  <1>4. BookKept(s, fills) /\ s # NoRun
    <2>1. Balances(s) /\ Held(s) = Held(callers[c].state)
      BY <1>2, <1>3, TheSameCosts DEF BookKept
    <2>2. QED
      BY <1>2, <1>3, <2>1, BooksAreNotNoRun DEF BookKept
  <1> HIDE DEF r, s
  <1>5. /\ Rows' = Rows /\ rows'[r] = s
        /\ \A q \in Runs \ {r} : rows'[q] = rows[q]
    BY <1>1, <1>2, <1>4 DEF Rows, TraderInv, RowsKept
  <1>6. RowsKept'
    BY <1>1, <1>3, <1>4, <1>5 DEF TraderInv, RowsKept, Rows
  <1>7. MadeKept' /\ RoundKept'
    BY <1>1, <1>5 DEF TraderInv, MadeKept, RoundKept
  <1>8. TicksKept'
    <2>1. ASSUME NEW t \in ticks PROVE TickKept(t)' /\ TickIsAhead(t)'
      <3>1. TickKept(t) /\ TickIsAhead(t) /\ t.run \in Runs
        BY DEF TraderInv, TicksKept, TickKept, TickSet
      <3>2. t.run \notin ended => rows'[t.run] = rows[t.run]
        BY <1>2, <1>5, <3>1
      <3>3. QED
        BY <1>1, <1>5, <3>1, <3>2 DEF TickKept, TickIsAhead
    <2>2. QED
      BY <1>1, <2>1 DEF TraderInv, TicksKept
  <1>9. /\ callers' \in [Callers -> CallSet] /\ callers'[c] = Answered(r)
        /\ \A d \in Callers \ {c} : callers'[d] = callers[d]
    BY <1>1, <1>2, AnsweredIsKept DEF TraderInv, CallersKept, CallerAt
  <1>10. CallersKept'
    <2>1. ASSUME NEW d \in Callers PROVE CallerKept(callers[d])'
      <3>1. CASE d = c
        BY <1>9, <3>1 DEF CallerKept, Answered
      <3>2. CASE d # c
        BY <1>1, <1>5, <1>9, <3>2 DEF TraderInv, CallersKept, CallerKept
      <3>3. QED
        BY <3>1, <3>2
    <2>2. QED
      BY <1>9, <2>1 DEF TraderInv, CallersKept, Answered
  <1>11. EndedKept'
    <2>1. Busy' = Busy
      BY <1>1 DEF Busy
    <2>2. ASSUME NEW q \in Rows \ ended PROVE rows'[q] = rows[q]
      BY <1>2, <1>5 DEF Rows
    <2>3. QED
      BY <1>1, <1>5, <1>9, <2>1, <2>2 DEF TraderInv, EndedKept, Answered
  <1>12. QED
    BY <1>6, <1>7, <1>8, <1>10, <1>11 DEF TraderInv

LEMMA RestartGatewayKeeps == ASSUME TraderInv, RestartGateway PROVE TraderInv'
  <1>1. /\ round' = NoRound /\ ticks' = {} /\ ended' = {} /\ Rows' = Rows /\ Busy' = {}
        /\ UNCHANGED <<rows, made, fills>>
    BY DEF RestartGateway, Rows, Busy
  <1>2. ASSUME NEW c \in Callers
        PROVE  callers'[c] \in CallSet /\ callers'[c].step \in {"idle", "answered"}
    <2>1. callers[c].run \in Runs \cup {NoRun}
      BY DEF TraderInv, CallersKept, CallSet
    <2>2. NotCalled \in CallSet /\ NotCalled.step = "idle"
      BY DEF NotCalled, CallSet
    <2>3. callers'[c] \in {NotCalled, Answered(callers[c].run)}
      BY DEF RestartGateway
    <2>4. QED
      BY <2>1, <2>2, <2>3, AnsweredIsKept
  <1>3. callers' \in [Callers -> CallSet]
    <2>1. callers' = [c \in Callers |-> callers'[c]]
      BY DEF RestartGateway
    <2>2. QED
      BY <1>2, <2>1
  <1>4. CallersKept'
    <2>1. ASSUME NEW c \in Callers PROVE CallerKept(callers[c])'
      BY <1>2 DEF CallerKept
    <2>2. QED
      BY <1>2, <1>3, <2>1 DEF CallersKept
  <1>5. RowsKept' /\ MadeKept' /\ TicksKept'
    BY <1>1 DEF TraderInv, RowsKept, MadeKept, TicksKept
  <1>6. RoundKept'
    BY <1>1 DEF RoundKept, NoRound
  <1>7. EndedKept'
    <2>1. \A r \in Rows : round'[r] = NoRun
      BY <1>1 DEF NoRound, Rows
    <2>2. QED
      BY <1>1, <1>2, <2>1 DEF EndedKept
  <1>8. QED
    BY <1>4, <1>5, <1>6, <1>7 DEF TraderInv

LEMMA NextTraderInv == TraderInv /\ [TraderNext]_traderVars => TraderInv'
  <1> SUFFICES ASSUME TraderInv, [TraderNext]_traderVars PROVE TraderInv'
    OBVIOUS
  <1>1. CASE TraderNext
    BY <1>1, ReadRoundKeeps, StartTicksKeeps, TickStepKeeps, BeginRunKeeps, MakeRowKeeps, FirstTickKeeps,
       ReadToEndKeeps, MarkEndedKeeps, SaveStoppedKeeps, RestartGatewayKeeps DEF TraderNext
  <1>2. CASE UNCHANGED traderVars
    <2>1. Rows' = Rows /\ Busy' = Busy /\ UNCHANGED <<rows, made, round, ticks, ended, callers, fills>>
      BY <1>2 DEF traderVars, Rows, Busy
    <2>2. RowsKept' /\ MadeKept' /\ RoundKept'
      BY <2>1 DEF TraderInv, RowsKept, MadeKept, RoundKept
    <2>3. TicksKept' /\ CallersKept'
      BY <2>1 DEF TraderInv, TicksKept, TickKept, TickIsAhead, CallersKept, CallerKept
    <2>4. EndedKept'
      BY <2>1 DEF TraderInv, EndedKept
    <2>5. QED
      BY <2>2, <2>3, <2>4 DEF TraderInv
  <1>3. QED
    BY <1>1, <1>2

-----------------------------------------------------------------------------
(* What the trader promises.                                               *)

\* A row that was there changes when a tick's save lands and when an ended run is saved.
LEMMA WhoWrites ==
    ASSUME TraderInv, TraderNext, NEW r \in Rows
    PROVE  \/ rows'[r] = rows[r]
           \/ \E t \in ticks : LandTick(t) /\ t.run = r
           \/ \E c \in Callers : SaveStopped(c) /\ callers[c].run = r
  <1>1. rows \in [Runs -> Books \cup {NoRun}] /\ r \in Runs
    BY DEF TraderInv, RowsKept, Rows
  <1>2. ASSUME NEW t \in ticks, TickStep(t) PROVE LandTick(t) \/ rows' = rows
    BY <1>2 DEF TickStep, PriceHoldings, WaitForFeeds, JudgeBook, EndThought, FinishTick, FailTick,
                SellExit, ExitCouldNotSell, AskToBuy, AskToSell, outside
  <1>3. ASSUME NEW t \in ticks, LandTick(t), t.run # r PROVE rows'[r] = rows[r]
    BY <1>1, <1>3 DEF LandTick
  <1>4. ASSUME NEW c \in Callers, SaveStopped(c), callers[c].run # r PROVE rows'[r] = rows[r]
    BY <1>1, <1>4 DEF SaveStopped
  <1>5. ASSUME NEW c \in Callers, MakeRow(c) PROVE rows'[r] = rows[r]
    <2>1. callers[c].run # r
      BY <1>5 DEF MakeRow, TraderInv, CallersKept, CallerKept
    <2>2. QED
      BY <1>1, <1>5, <2>1 DEF MakeRow
  <1>6. ASSUME NEW c \in Callers, NEW q \in Runs,
               BeginRun(c, q) \/ FirstTick(c) \/ ReadToEnd(c) \/ MarkEnded(c)
        PROVE rows' = rows
    BY <1>6 DEF BeginRun, FirstTick, ReadToEnd, MarkEnded
  <1>7. ReadRound \/ StartTicks \/ RestartGateway => rows' = rows
    BY DEF ReadRound, StartTicks, RestartGateway
  <1>8. QED
    BY <1>1, <1>2, <1>3, <1>4, <1>5, <1>6, <1>7 DEF TraderNext

LEMMA SavesKeep ==
    ASSUME TraderInv, TraderNext, NEW r \in Rows
    PROVE  \/ /\ rows[r].fills \subseteq rows'[r].fills
              /\ rows[r].status = "paused" => rows'[r].status # "running"
           \/ stale'
  <1>1. rows \in [Runs -> Books \cup {NoRun}] /\ r \in Runs
    BY DEF TraderInv, RowsKept, Rows
  <1>2. ASSUME NEW t \in ticks, LandTick(t), t.run = r, ~stale'
        PROVE  /\ rows[r].fills \subseteq rows'[r].fills
               /\ rows[r].status = "paused" => rows'[r].status # "running"
    <2>1. rows'[r] = t.state /\ t.step = "saving" /\ ~t.late /\ ~t.crossed
      BY <1>1, <1>2 DEF LandTick
    <2>2. TickIsAhead(t) /\ t.run \notin ended
      BY <2>1 DEF TraderInv, TicksKept, EndedKept
    <2>3. QED
      BY <1>2, <2>1, <2>2 DEF TickIsAhead
  <1>3. ASSUME NEW c \in Callers, SaveStopped(c), callers[c].run = r, ~stale'
        PROVE  /\ rows[r].fills \subseteq rows'[r].fills
               /\ rows[r].status = "paused" => rows'[r].status # "running"
    <2>1. rows'[r] = [callers[c].state EXCEPT !.status = "stopped"] /\ callers[c].state = rows[r]
      BY <1>1, <1>3 DEF SaveStopped
    <2>2. rows[r] \in Books
      BY RowsAreBooks DEF TraderInv
    <2>3. QED
      BY <2>1, <2>2 DEF Books
  <1>4. QED
    BY <1>2, <1>3, WhoWrites

LEMMA EndedRunsStay ==
    ASSUME TraderInv, TraderNext, NEW r \in Rows, rows[r].status = "stopped", rows'[r].status # "stopped"
    PROVE  \E t \in ticks : t.run = r /\ t.crossed /\ t \notin ticks'
  <1>1. ASSUME NEW c \in Callers, SaveStopped(c), callers[c].run = r PROVE FALSE
    <2>1. callers[c].state \in Books
      BY <1>1 DEF SaveStopped, TraderInv, CallersKept, CallerKept, BookKept
    <2>2. rows'[r] = [callers[c].state EXCEPT !.status = "stopped"]
      BY <1>1 DEF SaveStopped, TraderInv, RowsKept, Rows
    <2>3. QED
      BY <2>1, <2>2 DEF Books
  <1>2. PICK t \in ticks : LandTick(t) /\ t.run = r
    BY <1>1, WhoWrites
  <1>3. t.step = "saving" /\ t \notin ticks' /\ r \in Busy
    BY <1>2 DEF LandTick, Busy
  <1>4. t.run \in ended
    BY <1>2, <1>3 DEF TraderInv, EndedKept
  <1>5. QED
    BY <1>2, <1>3, <1>4 DEF TraderInv, EndedKept

LEMMA TraderInvAlways == TraderSpec => []TraderInv
  BY InitTraderInv, NextTraderInv, PTL DEF TraderSpec

(* What the loop reads, ticks and saves is what its code says it is: a row *)
(* for each run that was made, one tick at a time for each run, books whose*)
(* amounts and costs are never negative (trader-runner.ts, book.ts).       *)
THEOREM TraderTypeCorrect == TraderSpec => []TraderTypeOK
  BY TraderInvAlways, TraderInvIsTyped, PTL

(* No save takes back a fill or a pause that was saved before it, unless it*)
(* was made from a state that was not the row's any more when it was handed*)
(* out, or the run was being ended meanwhile: for any runs, requests, books*)
(* and restarts (trader-runner.ts:5-6).                                    *)
THEOREM SavedTicksStay == TraderSpec => SavedTicksAreKept
  <1>1. ASSUME TraderInv, [TraderNext]_traderVars
        PROVE  [\A r \in Rows :
                  \/ rows[r].fills \subseteq rows'[r].fills
                     /\ (rows[r].status = "paused" => rows'[r].status # "running")
                  \/ stale']_traderVars
    BY <1>1, SavesKeep
  <1>2. QED
    BY <1>1, TraderInvAlways, PTL DEF SavedTicksAreKept, TraderSpec

(* A run that was stopped is not brought back to life by a tick that was in*)
(* flight, unless its save was on its way already when the run was marked  *)
(* (trader-runner.ts:58).                                                  *)
THEOREM EndedRunsStayEnded == TraderSpec => EndedStaysEnded
  <1>1. ASSUME TraderInv, [TraderNext]_traderVars
        PROVE  [\A r \in Rows :
                  rows[r].status = "stopped" /\ rows'[r].status # "stopped"
                      => \E t \in ticks : t.run = r /\ t.crossed /\ t \notin ticks']_traderVars
    BY <1>1, EndedRunsStay
  <1>2. QED
    BY <1>1, TraderInvAlways, PTL DEF EndedStaysEnded, TraderSpec

(* Whatever is bought, sold, paused, saved or given up, a book's cash and  *)
(* what its holdings cost are what it started with and what it realised:   *)
(* nothing drifts over any number of fills (book.ts:4-8).                  *)
THEOREM BooksAddUp == TraderSpec => []BookAddsUp
  <1>1. TraderInv => BookAddsUp
    <2> SUFFICES ASSUME TraderInv PROVE BookAddsUp
      OBVIOUS
    <2>1. \A r \in Rows : Balances(rows[r])
      BY RowsAreBooks DEF TraderInv, BookKept
    <2>2. \A t \in ticks : Balances(t.state)
      BY ATick DEF BookKept
    <2>3. QED
      BY <2>1, <2>2 DEF BookAddsUp, Balances
  <1>2. QED
    BY <1>1, TraderInvAlways, PTL

-----------------------------------------------------------------------------
(* Events in the order they happened.                                      *)

Happened == {e \in Events : happened[e].stage # "notYet"}

\* No two of them are of one moment.
Apart(S) ==
    /\ S \subseteq Events /\ \A e \in S : happened[e].at \in Nat
    /\ \A e, f \in S : happened[e].at = happened[f].at => e = f

LEMMA EventsAreFinite == ASSUME NEW S \in SUBSET Events PROVE IsFiniteSet(S) /\ Cardinality(S) \in Nat
  BY AlertsAssumption, FS_Subset, FS_CardinalityType

\* As many come before the later of two, and one more.
LEMMA LaterHasMoreBefore ==
    ASSUME NEW S, Apart(S), NEW e \in S, NEW f \in S, happened[e].at < happened[f].at
    PROVE  Cardinality(Before(e, S)) < Cardinality(Before(f, S))
  <1>1. Before(e, S) \subseteq Before(f, S) /\ e \in Before(f, S) /\ e \notin Before(e, S)
    BY DEF Before, Apart
  <1>2. Before(f, S) \in SUBSET Events /\ Before(e, S) \in SUBSET Events
    BY DEF Before, Apart
  <1>3. IsFiniteSet(Before(f, S)) /\ Cardinality(Before(f, S)) \in Nat /\ Cardinality(Before(e, S)) \in Nat
    BY <1>2, EventsAreFinite
  <1>4. Cardinality(Before(e, S)) <= Cardinality(Before(f, S))
        /\ (Cardinality(Before(f, S)) = Cardinality(Before(e, S)) => Before(f, S) = Before(e, S))
    BY <1>1, <1>3, FS_Subset
  <1>5. QED
    BY <1>1, <1>3, <1>4

\* Each has a place of its own, and each place has one.
LEMMA Places ==
    ASSUME NEW S, Apart(S)
    PROVE  /\ Cardinality(S) \in Nat
           /\ \A e \in S : Cardinality(Before(e, S)) \in 0 .. Cardinality(S) - 1
           /\ \A i \in 1 .. Cardinality(S) : \E e \in S : Cardinality(Before(e, S)) = i - 1
  <1> DEFINE n == Cardinality(S)
             place == [e \in S |-> Cardinality(Before(e, S)) + 1]
  <1>1. IsFiniteSet(S) /\ n \in Nat
    BY EventsAreFinite DEF Apart
  <1>2. ASSUME NEW e \in S PROVE Cardinality(Before(e, S)) \in 0 .. n - 1
    <2>1. Before(e, S) \in SUBSET S /\ e \notin Before(e, S) /\ Before(e, S) \in SUBSET Events
      BY DEF Before, Apart
    <2>2. Cardinality(Before(e, S)) \in Nat /\ Cardinality(Before(e, S)) <= n
          /\ (n = Cardinality(Before(e, S)) => S = Before(e, S))
      BY <1>1, <2>1, EventsAreFinite, FS_Subset
    <2>3. QED
      BY <1>1, <2>1, <2>2
  <1> HIDE DEF n
  <1>3. place \in [S -> 1 .. n]
    BY <1>1, <1>2
  <1>4. ASSUME NEW e \in S, NEW f \in S, place[e] = place[f] PROVE e = f
    <2>1. Cardinality(Before(e, S)) = Cardinality(Before(f, S)) /\ Cardinality(Before(e, S)) \in Int
      BY <1>1, <1>2, <1>4
    <2>2. ~(happened[e].at < happened[f].at) /\ ~(happened[f].at < happened[e].at)
      BY <2>1, LaterHasMoreBefore
    <2>3. QED
      BY <2>2 DEF Apart
  <1>5. place \in Injection(S, 1 .. n)
    BY <1>3, <1>4 DEF Injection, IsInjective
  <1>6. IsFiniteSet(1 .. n) /\ Cardinality(1 .. n) = n
    BY <1>1, FS_Interval
  <1>7. place \in Surjection(S, 1 .. n)
    BY <1>5, <1>6, FS_Injection DEF n
  <1>8. ASSUME NEW i \in 1 .. n PROVE \E e \in S : Cardinality(Before(e, S)) = i - 1
    <2>1. PICK e \in S : place[e] = i
      BY <1>7 DEF Surjection
    <2>2. QED
      BY <1>1, <1>2, <2>1
  <1>9. QED
    BY <1>1, <1>2, <1>8 DEF n

\* Sorted by when they happened, each once.
InOrder(q, S) ==
    /\ q \in Seq(S) /\ Len(q) = Cardinality(S)
    /\ \A e \in S : \E i \in DOMAIN q : q[i] = e
    /\ \A i, j \in DOMAIN q : i < j => happened[q[i]].at < happened[q[j]].at

LEMMA OldestFirstSorts == ASSUME NEW S, Apart(S) PROVE InOrder(OldestFirst(S), S)
  <1> DEFINE n == Cardinality(S)
             q == OldestFirst(S)
  <1>1. /\ n \in Nat
        /\ \A e \in S : Cardinality(Before(e, S)) \in 0 .. n - 1
        /\ \A i \in 1 .. n : \E e \in S : Cardinality(Before(e, S)) = i - 1
    BY Places
  <1>2. ASSUME NEW i \in 1 .. n PROVE q[i] \in S /\ Cardinality(Before(q[i], S)) = i - 1
    <2>1. q[i] = CHOOSE e \in S : Cardinality(Before(e, S)) = i - 1
      BY DEF OldestFirst
    <2>2. QED
      BY <1>1, <2>1
  <1>3. q = [i \in 1 .. n |-> q[i]]
    BY DEF OldestFirst
  <1> HIDE DEF n, q
  <1>4. q \in [1 .. n -> S] /\ q \in Seq(S) /\ DOMAIN q = 1 .. n /\ Len(q) = n
    BY <1>1, <1>2, <1>3
  <1>5. ASSUME NEW e \in S PROVE \E i \in DOMAIN q : q[i] = e
    <2> DEFINE i == Cardinality(Before(e, S)) + 1
    <2>1. i \in 1 .. n /\ i - 1 = Cardinality(Before(e, S))
      BY <1>1
    <2> HIDE DEF i
    <2>2. q[i] \in S /\ Cardinality(Before(q[i], S)) = Cardinality(Before(e, S))
          /\ Cardinality(Before(e, S)) \in Int
      BY <1>1, <1>2, <2>1
    <2>3. ~(happened[e].at < happened[q[i]].at) /\ ~(happened[q[i]].at < happened[e].at)
      BY <2>2, LaterHasMoreBefore
    <2>4. q[i] = e
      BY <2>2, <2>3 DEF Apart
    <2>5. QED
      BY <1>4, <2>1, <2>4
  <1>6. ASSUME NEW i \in DOMAIN q, NEW j \in DOMAIN q, i < j PROVE happened[q[i]].at < happened[q[j]].at
    <2>1. /\ q[i] \in S /\ Cardinality(Before(q[i], S)) = i - 1
          /\ q[j] \in S /\ Cardinality(Before(q[j], S)) = j - 1
          /\ i \in Int /\ j \in Int
      BY <1>2, <1>4
    <2>2. ~(happened[q[j]].at < happened[q[i]].at)
      BY <1>6, <2>1, LaterHasMoreBefore
    <2>3. q[i] # q[j]
      BY <1>6, <2>1
    <2>4. QED
      BY <2>1, <2>2, <2>3 DEF Apart
  <1>7. QED
    BY <1>4, <1>5, <1>6 DEF InOrder, n, q

\* What is left of the window, once an owner's own doings are out, is no longer than it.
LEMMA AWindowIsNoLonger ==
    ASSUME NEW S, Apart(S), NEW T \in SUBSET Limited(S)
    PROVE  Apart(T) /\ Cardinality(T) <= Window
  <1>1. T \subseteq S /\ Apart(T) /\ Window \in Nat
    BY AlertsAssumption DEF Limited, Apart
  <1> DEFINE q == OldestFirst(T)
             n == Cardinality(T)
  <1>2. InOrder(q, T) /\ n \in Nat /\ IsFiniteSet(T)
    BY <1>1, OldestFirstSorts, EventsAreFinite DEF Apart
  <1> HIDE DEF q
  <1>3. CASE n = 0
    BY <1>1, <1>3
  <1>4. CASE n # 0
    <2> DEFINE last == q[n]
    <2>1. n \in DOMAIN q /\ last \in T /\ \A e \in T : \E i \in 1 .. n : q[i] = e
      BY <1>2, <1>4 DEF InOrder
    <2>2. ASSUME NEW e \in T \ {last} PROVE e \in Before(last, S)
      <3>1. PICK i \in 1 .. n : q[i] = e
        BY <2>1
      <3>2. i < n /\ i \in DOMAIN q
        BY <1>2, <2>1, <2>2, <3>1 DEF InOrder
      <3>3. happened[e].at < happened[last].at
        BY <1>2, <2>1, <3>1, <3>2 DEF InOrder
      <3>4. QED
        BY <1>1, <3>3 DEF Before
    <2> HIDE DEF last
    <2>3. IsFiniteSet(T \ {last}) /\ Cardinality(T \ {last}) = n - 1
      BY <1>2, <2>1, FS_RemoveElement
    <2>4. Before(last, S) \in SUBSET Events
      BY DEF Before, Apart
    <2>5. IsFiniteSet(Before(last, S)) /\ Cardinality(Before(last, S)) \in Nat
      BY <2>4, EventsAreFinite
    <2>6. Cardinality(T \ {last}) <= Cardinality(Before(last, S))
      BY <2>2, <2>5, FS_Subset
    <2>7. Cardinality(Before(last, S)) < Window
      BY <2>1 DEF Limited
    <2>8. QED
      BY <1>1, <1>2, <2>3, <2>5, <2>6, <2>7
  <1>5. QED
    BY <1>1, <1>3, <1>4
-----------------------------------------------------------------------------
(* What holds of the record's events, of the look under way and of what was*)
(* told.                                                                   *)

WorthTelling(e) == e \in Committed /\ happened[e].news /\ happened[e].at > bots.since

MomentsKept ==
    /\ moment = Cardinality(Happened)
    /\ happened \in [Events -> [stage : {"notYet", "open", "committed", "undone"},
                                at : 0 .. moment, news : BOOLEAN]]
    /\ \A e, f \in Happened : happened[e].at = happened[f].at => e = f
    /\ bots.since \in 0 .. moment

LookIsKept ==
    /\ bots \in [step : {"resting", "telling", "marking"}, since : Nat, left : Seq(Events)]
    /\ bots.left = <<>> <=> bots.step = "resting"
    /\ Len(bots.left) <= Window
    /\ \A i \in DOMAIN bots.left : WorthTelling(bots.left[i]) /\ bots.left[i] \notin delivered
    /\ \A i, j \in DOMAIN bots.left : i < j => happened[bots.left[i]].at < happened[bots.left[j]].at

ToldKept ==
    /\ sends \in [Events -> 0 .. MaxSends]
    /\ delivered \subseteq {e \in Committed : happened[e].news /\ sends[e] > 0}
    /\ bots.step = "marking" => sends[Head(bots.left)] > 0
    /\ \A e \in Events : sends[e] > 0
          => /\ e \in Committed
             /\ e \in delivered \cup unmarked \/ (bots.step = "marking" /\ e = Head(bots.left))

\* Whatever is earlier than what this look is still to tell is in it too, or done with, or was late.
NothingSkipped ==
    \A e \in Events : WorthTelling(e) /\ e \notin late /\ sends[e] = 0 /\ e \notin unsent
        => \A i \in DOMAIN bots.left :
              happened[e].at < happened[bots.left[i]].at => \E j \in DOMAIN bots.left : bots.left[j] = e

AlertsInv ==
    MomentsKept /\ LookIsKept /\ ToldKept /\ NothingSkipped /\ ToldTwiceOnlyUnmarked /\ ToldInOrder

LEMMA AlertsInvIsTyped == AlertsInv => AlertsTypeOK
  <1> SUFFICES ASSUME AlertsInv PROVE AlertsTypeOK
    OBVIOUS
  <1>1. moment \in 0 .. Cardinality(Events)
    <2>1. IsFiniteSet(Events) /\ Happened \in SUBSET Events
      BY AlertsAssumption DEF Happened
    <2>2. Cardinality(Happened) <= Cardinality(Events) /\ Cardinality(Happened) \in Nat /\ Cardinality(Events) \in Nat
      BY <2>1, FS_Subset, EventsAreFinite
    <2>3. QED
      BY <2>2 DEF AlertsInv, MomentsKept
  <1>2. ToSet(bots.left) \subseteq Committed
    BY DEF AlertsInv, LookIsKept, WorthTelling, ToSet
  <1>3. QED
    BY <1>1, <1>2 DEF AlertsInv, AlertsTypeOK, MomentsKept, LookIsKept, ToldKept

LEMMA InitAlertsInv == AlertsInit => AlertsInv
  <1> SUFFICES ASSUME AlertsInit PROVE AlertsInv
    OBVIOUS
  <1>1. Happened = {} /\ Committed = {} /\ \A e \in Events : sends[e] = 0
    BY DEF AlertsInit, Happened, Committed, NotYet
  <1>2. bots.step = "resting" /\ bots.since = 0 /\ bots.left = <<>>
    BY DEF AlertsInit
  <1>3. MomentsKept
    <2>1. moment = 0 /\ Cardinality(Happened) = 0
      BY <1>1, FS_EmptySet DEF AlertsInit
    <2>2. \E a \in BOOLEAN : NotYet = [stage |-> "notYet", at |-> 0, news |-> a]
      BY Zenon DEF NotYet
    <2>3. NotYet \in [stage : {"notYet", "open", "committed", "undone"}, at : 0 .. 0, news : BOOLEAN]
      BY <2>2
    <2>4. QED
      BY <1>1, <1>2, <2>1, <2>3 DEF AlertsInit, MomentsKept
  <1>4. LookIsKept
    BY <1>2, AlertsAssumption DEF AlertsInit, LookIsKept
  <1>5. ToldKept
    BY <1>1, <1>2, AlertsAssumption DEF AlertsInit, ToldKept
  <1>6. NothingSkipped /\ ToldTwiceOnlyUnmarked /\ ToldInOrder
    BY <1>1 DEF NothingSkipped, WorthTelling, ToldTwiceOnlyUnmarked, ToldInOrder
  <1>7. QED
    BY <1>3, <1>4, <1>5, <1>6 DEF AlertsInv

-----------------------------------------------------------------------------
(* The record goes on while the bots do not.                               *)

LEMMA RecordMoves ==
    ASSUME AlertsInv, MomentsKept', UNCHANGED botsVars, late \subseteq late',
           \A e \in Committed : happened'[e] = happened[e],
           \A e \in Committed' \ Committed : \A f \in Committed :
              happened'[e].at < happened[f].at => e \in late'
    PROVE  AlertsInv'
  <1>1. /\ UNCHANGED <<delivered, bots, sends, unmarked, unsent>> /\ Committed \subseteq Committed'
        /\ \A e \in Committed : WorthTelling(e)' <=> WorthTelling(e)
    BY DEF botsVars, Committed, WorthTelling
  <1>2. LookIsKept'
    BY <1>1 DEF AlertsInv, LookIsKept, WorthTelling
  <1>3. ToldKept'
    BY <1>1 DEF AlertsInv, ToldKept
  <1>4. NothingSkipped'
    BY <1>1 DEF AlertsInv, NothingSkipped, LookIsKept, WorthTelling
  <1>5. ToldTwiceOnlyUnmarked'
    BY <1>1 DEF AlertsInv, ToldTwiceOnlyUnmarked
  <1>6. ToldInOrder'
    <2> SUFFICES ASSUME NEW e \in Committed', NEW f \in Committed', happened'[e].news, happened'[e].at > bots.since,
                        happened'[e].at < happened'[f].at, sends[f] > 0
                 PROVE  sends[e] > 0 \/ e \in unsent \cup late'
      BY <1>1 DEF ToldInOrder
    <2>1. f \in Committed
      BY DEF AlertsInv, ToldKept, Committed
    <2>2. QED
      BY <1>1, <2>1 DEF AlertsInv, ToldInOrder
  <1>7. QED
    BY <1>2, <1>3, <1>4, <1>5, <1>6 DEF AlertsInv

LEMMA BeginEventKeeps == ASSUME AlertsInv, NEW e \in Events, NEW news \in BOOLEAN, BeginEvent(e, news) PROVE AlertsInv'
  <1> DEFINE h == [stage |-> "open", at |-> moment + 1, news |-> news]
             Record(m) == [stage : {"notYet", "open", "committed", "undone"}, at : 0 .. m, news : BOOLEAN]
  <1>1. /\ happened[e].stage = "notYet" /\ moment' = moment + 1 /\ happened' = [happened EXCEPT ![e] = h]
        /\ late' = late /\ UNCHANGED botsVars
    BY DEF BeginEvent, NotYet
  <1>2. /\ moment \in Nat /\ happened \in [Events -> Record(moment)] /\ moment = Cardinality(Happened)
    BY EventsAreFinite DEF AlertsInv, MomentsKept, Happened
  <1>3. h \in Record(moment + 1) /\ h.stage = "open" /\ h.at = moment + 1
    BY <1>2
  <1> HIDE DEF h
  <1>4. happened' \in [Events -> Record(moment + 1)] /\ happened'[e] = h
        /\ \A f \in Events \ {e} : happened'[f] = happened[f]
    BY <1>1, <1>2, <1>3
  <1>5. Happened' = Happened \cup {e} /\ e \notin Happened
    BY <1>1, <1>3, <1>4 DEF Happened
  <1>6. moment' = Cardinality(Happened')
    <2>1. IsFiniteSet(Happened)
      BY EventsAreFinite DEF Happened
    <2>2. QED
      BY <1>1, <1>2, <1>5, <2>1, FS_AddElement
  <1>7. \A f, g \in Happened' : happened'[f].at = happened'[g].at => f = g
    BY <1>2, <1>3, <1>4, <1>5 DEF AlertsInv, MomentsKept, Happened
  <1>8. bots'.since \in 0 .. moment'
    BY <1>1, <1>2 DEF AlertsInv, MomentsKept, botsVars
  <1>9. MomentsKept'
    BY <1>1, <1>4, <1>6, <1>7, <1>8 DEF MomentsKept
  <1>10. Committed' = Committed /\ \A f \in Committed : happened'[f] = happened[f]
    BY <1>1, <1>3, <1>4 DEF Committed
  <1>11. QED
    BY <1>1, <1>9, <1>10, RecordMoves

\* An open event is committed or undone, at its moment.
LEMMA EventSettles ==
    ASSUME AlertsInv, NEW e \in Events, happened[e].stage = "open", NEW stage \in {"committed", "undone"},
           happened' = [happened EXCEPT ![e].stage = stage], moment' = moment, UNCHANGED botsVars
    PROVE  /\ MomentsKept' /\ e \notin Committed
           /\ happened'[e].at = happened[e].at /\ happened'[e].stage = stage
           /\ \A f \in Committed : happened'[f] = happened[f]
           /\ Committed' \subseteq Committed \cup {e}
  <1> DEFINE h == [happened[e] EXCEPT !.stage = stage]
             Record == [stage : {"notYet", "open", "committed", "undone"}, at : 0 .. moment, news : BOOLEAN]
  <1>1. happened \in [Events -> Record] /\ moment = Cardinality(Happened)
    BY DEF AlertsInv, MomentsKept
  <1>2. h \in Record /\ h.stage = stage /\ h.at = happened[e].at /\ happened' = [happened EXCEPT ![e] = h]
    BY <1>1
  <1> HIDE DEF h
  <1>3. happened' \in [Events -> Record] /\ happened'[e] = h
        /\ \A f \in Events \ {e} : happened'[f] = happened[f]
    BY <1>1, <1>2
  <1>4. Happened' = Happened /\ \A f \in Events : happened'[f].at = happened[f].at
    BY <1>2, <1>3 DEF Happened
  <1>5. MomentsKept'
    <2>1. \A f, g \in Happened' : happened'[f].at = happened'[g].at => f = g
      BY <1>4 DEF AlertsInv, MomentsKept, Happened
    <2>2. bots'.since \in 0 .. moment'
      BY DEF AlertsInv, MomentsKept, botsVars
    <2>3. moment' = Cardinality(Happened')
      BY <1>1, <1>4
    <2>4. QED
      BY <1>3, <2>1, <2>2, <2>3 DEF MomentsKept
  <1>6. QED
    BY <1>2, <1>3, <1>5 DEF Committed

LEMMA CommitEventKeeps == ASSUME AlertsInv, NEW e \in Events, CommitEvent(e) PROVE AlertsInv'
  <1>1. /\ happened[e].stage = "open" /\ happened' = [happened EXCEPT ![e].stage = "committed"]
        /\ late' = (IF \E f \in Committed : happened[f].at > happened[e].at THEN late \cup {e} ELSE late)
        /\ moment' = moment /\ UNCHANGED botsVars
    BY DEF CommitEvent
  <1>2. /\ MomentsKept' /\ happened'[e].at = happened[e].at
        /\ \A f \in Committed : happened'[f] = happened[f]
        /\ Committed' \subseteq Committed \cup {e}
    BY <1>1, EventSettles
  <1>3. late \subseteq late'
    BY <1>1
  <1>4. ASSUME NEW g \in Committed' \ Committed, NEW f \in Committed, happened'[g].at < happened[f].at
        PROVE  g \in late'
    <2>1. g = e /\ happened[e].at < happened[f].at
      BY <1>2, <1>4
    <2>2. happened[e].at \in Int /\ happened[f].at \in Int
      BY DEF AlertsInv, MomentsKept, Committed
    <2>3. QED
      BY <1>1, <2>1, <2>2
  <1>5. QED
    BY <1>1, <1>2, <1>3, <1>4, RecordMoves

LEMMA UndoEventKeeps == ASSUME AlertsInv, NEW e \in Events, UndoEvent(e) PROVE AlertsInv'
  <1>1. /\ happened[e].stage = "open" /\ happened' = [happened EXCEPT ![e].stage = "undone"]
        /\ late' = late /\ moment' = moment /\ UNCHANGED botsVars
    BY DEF UndoEvent
  <1>2. /\ MomentsKept' /\ e \notin Committed /\ happened'[e].stage = "undone"
        /\ \A f \in Committed : happened'[f] = happened[f]
        /\ Committed' \subseteq Committed \cup {e}
    BY <1>1, EventSettles
  <1>3. Committed' \ Committed = {}
    BY <1>2 DEF Committed
  <1>4. QED
    BY <1>1, <1>2, <1>3, RecordMoves

-----------------------------------------------------------------------------
(* A look.                                                                 *)

LEMMA TheMoment ==
    ASSUME AlertsInv
    PROVE  moment \in Nat /\ moment \in 0 .. moment /\ bots.since \in 0 .. moment
           /\ moment >= bots.since /\ bots.since >= bots.since
  <1>1. Happened \in SUBSET Events
    BY DEF Happened
  <1>2. moment \in Nat
    BY <1>1, EventsAreFinite DEF AlertsInv, MomentsKept
  <1>3. QED
    BY <1>2 DEF AlertsInv, MomentsKept

LEMMA WhatIsCommittedIsApart ==
    ASSUME AlertsInv, NEW S \in SUBSET Committed
    PROVE  Apart(S)
  BY DEF AlertsInv, MomentsKept, Apart, Committed, Happened

\* What is earlier than one of the window is in the window.
LEMMA WindowsBeginAtTheFirst ==
    ASSUME NEW S, Apart(S), NEW e \in S, NEW f \in Limited(S), happened[e].at < happened[f].at
    PROVE  e \in Limited(S)
  <1>1. Cardinality(Before(e, S)) < Cardinality(Before(f, S))
    BY LaterHasMoreBefore DEF Limited
  <1>2. Before(e, S) \in SUBSET Events /\ Before(f, S) \in SUBSET Events /\ Window \in Nat
    BY AlertsAssumption DEF Before, Apart
  <1>3. Cardinality(Before(e, S)) \in Nat /\ Cardinality(Before(f, S)) \in Nat
    BY <1>2, EventsAreFinite
  <1>4. QED
    BY <1>1, <1>2, <1>3 DEF Limited

LEMMA LookKeeps == ASSUME AlertsInv, Look PROVE AlertsInv'
  <1> DEFINE S == {f \in Committed : Untold(f)}
             T == {e \in Limited(S) : happened[e].news}
             q == PendingAlerts
  <1>1. /\ bots.step = "resting" /\ q # <<>> /\ bots' = [bots EXCEPT !.step = "telling", !.left = q]
        /\ UNCHANGED <<recordVars, delivered, sends, unmarked, unsent>>
    BY DEF Look
  <1>2. Apart(S) /\ T \in SUBSET Limited(S)
    BY WhatIsCommittedIsApart
  <1>3. Apart(T) /\ Cardinality(T) <= Window
    BY <1>2, AWindowIsNoLonger
  <1>4. InOrder(q, T)
    BY <1>3, OldestFirstSorts DEF PendingAlerts
  <1>5. \A e \in T : e \in S /\ WorthTelling(e) /\ e \notin delivered
    BY DEF Limited, Untold, WorthTelling
  <1>6. ASSUME NEW e \in S, WorthTelling(e), NEW f \in T, happened[e].at < happened[f].at PROVE e \in T
    BY <1>2, <1>6, WindowsBeginAtTheFirst DEF WorthTelling
  <1>7. \A e \in Events : WorthTelling(e) /\ e \notin delivered => e \in S
    BY DEF WorthTelling, Untold
  <1> HIDE DEF S, T, q
  <1>8. /\ q \in Seq(Events) /\ Len(q) <= Window
        /\ \A i \in DOMAIN q : q[i] \in T
        /\ \A i, j \in DOMAIN q : i < j => happened[q[i]].at < happened[q[j]].at
        /\ \A e \in T : \E i \in DOMAIN q : q[i] = e
    BY <1>3, <1>4 DEF InOrder, Apart
  <1>9. /\ bots' \in [step : {"resting", "telling", "marking"}, since : Nat, left : Seq(Events)]
        /\ bots'.step = "telling" /\ bots'.left = q /\ bots'.since = bots.since
    BY <1>1, <1>8 DEF AlertsInv, LookIsKept
  <1>10. Committed' = Committed /\ happened' = happened /\ \A e \in Events : WorthTelling(e)' <=> WorthTelling(e)
    BY <1>1, <1>9 DEF recordVars, Committed, WorthTelling
  <1>11. MomentsKept'
    BY <1>1, <1>9 DEF AlertsInv, MomentsKept, recordVars, Happened
  <1>12. LookIsKept'
    <2>1. ASSUME NEW i \in DOMAIN bots'.left PROVE WorthTelling(bots.left[i])' /\ bots'.left[i] \notin delivered'
      BY <1>1, <1>5, <1>8, <1>9, <1>10 DEF WorthTelling
    <2>2. QED
      BY <1>1, <1>8, <1>9, <1>10, <2>1 DEF LookIsKept
  <1>13. ToldKept'
    BY <1>1, <1>9, <1>10 DEF AlertsInv, ToldKept
  <1>14. NothingSkipped'
    <2> SUFFICES ASSUME NEW e \in Events, WorthTelling(e)', sends'[e] = 0,
                        NEW i \in DOMAIN bots'.left, happened'[e].at < happened'[bots'.left[i]].at
                 PROVE  \E j \in DOMAIN bots'.left : bots'.left[j] = e
      BY DEF NothingSkipped
    <2>1. WorthTelling(e) /\ e \notin delivered
      BY <1>1, <1>10 DEF AlertsInv, ToldKept
    <2>2. e \in T
      BY <1>6, <1>7, <1>8, <1>9, <1>10, <2>1
    <2>3. QED
      BY <1>8, <1>9, <2>2
  <1>15. ToldTwiceOnlyUnmarked' /\ ToldInOrder'
    BY <1>1, <1>9, <1>10 DEF AlertsInv, ToldTwiceOnlyUnmarked, ToldInOrder, recordVars
  <1>16. QED
    BY <1>11, <1>12, <1>13, <1>14, <1>15 DEF AlertsInv

-----------------------------------------------------------------------------
(* The next alert of a look is sent, fails, is marked, or is not.          *)

LEMMA TheNext ==
    ASSUME AlertsInv, bots.step # "resting", NEW h, h = Head(bots.left)
    PROVE  /\ h \in Events /\ WorthTelling(h) /\ h \notin delivered /\ h = bots.left[1]
           /\ 1 \in DOMAIN bots.left /\ Len(bots.left) \in Nat \ {0} /\ DOMAIN bots.left = 1 .. Len(bots.left)
  <1>1. bots.left \in Seq(Events) /\ bots.left # <<>>
    BY DEF AlertsInv, LookIsKept
  <1>2. 1 \in DOMAIN bots.left /\ Len(bots.left) \in Nat \ {0} /\ h = bots.left[1]
        /\ DOMAIN bots.left = 1 .. Len(bots.left)
    BY <1>1
  <1>3. QED
    BY <1>1, <1>2 DEF AlertsInv, LookIsKept

\* The look goes on to what is left, which is as untold as it was.
LEMMA GoingOnward ==
    ASSUME AlertsInv, bots.step # "resting", NEW h, h = Head(bots.left), bots' = Onward, UNCHANGED recordVars,
           delivered' \subseteq delivered \cup {h}
    PROVE  /\ MomentsKept' /\ LookIsKept' /\ bots'.step # "marking" /\ Committed' = Committed
           /\ \A e \in Events : WorthTelling(e)' <=> WorthTelling(e)
           /\ \A i \in DOMAIN bots'.left : i + 1 \in DOMAIN bots.left /\ bots'.left[i] = bots.left[i + 1]
           /\ \A i \in DOMAIN bots.left : bots.left[i] # h => \E j \in DOMAIN bots'.left : bots'.left[j] = bots.left[i]
  <1> DEFINE left == Tail(bots.left)
             step == IF Len(bots.left) > 1 THEN "telling" ELSE "resting"
  <1>1. bots.left \in Seq(Events) /\ bots.left # <<>> /\ Len(bots.left) <= Window /\ Window \in Nat
        /\ bots \in [step : {"resting", "telling", "marking"}, since : Nat, left : Seq(Events)]
    BY AlertsAssumption DEF AlertsInv, LookIsKept
  <1>2. /\ left \in Seq(Events) /\ Len(left) = Len(bots.left) - 1 /\ Len(bots.left) \in Nat
        /\ \A i \in 1 .. Len(left) : left[i] = bots.left[i + 1]
    BY <1>1, HeadTailProperties
  <1> HIDE DEF left
  <1>3. /\ DOMAIN left = 1 .. Len(left) /\ DOMAIN bots.left = 1 .. Len(bots.left)
        /\ (left = <<>> <=> step = "resting") /\ step \in {"resting", "telling"}
    BY <1>1, <1>2
  <1> HIDE DEF step
  <1>4. bots' = [bots EXCEPT !.left = left, !.step = step]
    BY DEF Onward, left, step
  <1>5. /\ bots'.left = left /\ bots'.step = step /\ bots'.since = bots.since
        /\ bots' \in [step : {"resting", "telling", "marking"}, since : Nat, left : Seq(Events)]
    BY <1>1, <1>2, <1>3, <1>4
  <1>6. /\ Committed' = Committed /\ happened' = happened
        /\ \A e \in Events : WorthTelling(e)' <=> WorthTelling(e)
    BY <1>5 DEF recordVars, Committed, WorthTelling
  <1>7. MomentsKept'
    BY <1>5 DEF AlertsInv, MomentsKept, recordVars, Happened
  <1>8. \A i \in DOMAIN left : i + 1 \in DOMAIN bots.left /\ left[i] = bots.left[i + 1]
    BY <1>2, <1>3
  <1>9. \A i, j \in DOMAIN left : i < j => happened[left[i]].at < happened[left[j]].at
    <2>1. \A i, j \in DOMAIN left : i < j => i + 1 < j + 1
      BY <1>3
    <2>2. QED
      BY <1>8, <2>1 DEF AlertsInv, LookIsKept
  <1>10. ASSUME NEW i \in DOMAIN left PROVE WorthTelling(left[i]) /\ left[i] \notin delivered /\ left[i] # h
    <2>1. WorthTelling(left[i]) /\ left[i] \notin delivered /\ left[i] = bots.left[i + 1]
      BY <1>8 DEF AlertsInv, LookIsKept
    <2>2. 1 \in DOMAIN bots.left /\ i + 1 \in DOMAIN bots.left /\ 1 < i + 1
      BY <1>2, <1>3
    <2>3. happened[bots.left[1]].at < happened[bots.left[i + 1]].at /\ h = bots.left[1]
      BY <2>2, TheNext DEF AlertsInv, LookIsKept
    <2>4. happened[h].at \in Int
      BY TheNext DEF AlertsInv, MomentsKept
    <2>5. QED
      BY <2>1, <2>3, <2>4
  <1>11. LookIsKept'
    <2>1. ASSUME NEW i \in DOMAIN bots'.left PROVE WorthTelling(bots.left[i])' /\ bots'.left[i] \notin delivered'
      BY <1>5, <1>6, <1>10 DEF WorthTelling
    <2>2. Len(left) <= Window
      BY <1>1, <1>2
    <2>3. QED
      BY <1>3, <1>5, <1>6, <1>9, <2>1, <2>2 DEF LookIsKept
  <1>12. ASSUME NEW i \in DOMAIN bots.left, bots.left[i] # h PROVE \E j \in DOMAIN left : left[j] = bots.left[i]
    <2>1. i # 1
      BY <1>12, TheNext
    <2>2. i - 1 \in DOMAIN left /\ left[i - 1] = bots.left[i]
      BY <1>2, <1>3, <2>1
    <2>3. QED
      BY <2>2
  <1>13. QED
    BY <1>3, <1>5, <1>6, <1>7, <1>8, <1>11, <1>12

\* Nothing is skipped when what the look goes on from is done with.
LEMMA OnwardSkipsNothing ==
    ASSUME AlertsInv, bots.step # "resting", NEW h, h = Head(bots.left), bots' = Onward, UNCHANGED recordVars,
           delivered' \subseteq delivered \cup {h},
           \A e \in Events : sends'[e] = 0 => sends[e] = 0, unsent \subseteq unsent',
           sends'[h] # 0 \/ h \in unsent'
    PROVE  NothingSkipped'
  <1> SUFFICES ASSUME NEW e \in Events, WorthTelling(e)', e \notin late', sends'[e] = 0, e \notin unsent',
                      NEW i \in DOMAIN bots'.left, happened'[e].at < happened'[bots'.left[i]].at
               PROVE  \E j \in DOMAIN bots'.left : bots'.left[j] = e
    BY DEF NothingSkipped
  <1>1. /\ \A i2 \in DOMAIN bots'.left : i2 + 1 \in DOMAIN bots.left /\ bots'.left[i2] = bots.left[i2 + 1]
        /\ \A i2 \in DOMAIN bots.left : bots.left[i2] # h => \E j \in DOMAIN bots'.left : bots'.left[j] = bots.left[i2]
        /\ WorthTelling(e) /\ happened' = happened /\ late' = late
    BY GoingOnward DEF recordVars
  <1>2. i + 1 \in DOMAIN bots.left /\ happened[e].at < happened[bots.left[i + 1]].at
    BY <1>1
  <1>3. PICK j \in DOMAIN bots.left : bots.left[j] = e
    BY <1>1, <1>2 DEF AlertsInv, NothingSkipped
  <1>4. QED
    BY <1>1, <1>3

\* The look is over, wherever it was.
LEMMA LookIsOver ==
    ASSUME AlertsInv, NEW since \in 0 .. moment, since >= bots.since,
           bots' = [step |-> "resting", since |-> since, left |-> <<>>], UNCHANGED recordVars
    PROVE  /\ MomentsKept' /\ LookIsKept' /\ NothingSkipped' /\ Committed' = Committed
           /\ \A e \in Events : WorthTelling(e)' => WorthTelling(e)
  <1>1. bots'.step = "resting" /\ bots'.since = since /\ bots'.left = <<>> /\ moment \in Nat
    BY TheMoment
  <1>2. MomentsKept'
    BY <1>1 DEF AlertsInv, MomentsKept, recordVars, Happened
  <1>3. LookIsKept'
    <2>1. <<>> \in Seq(Events) /\ Len(<<>>) = 0 /\ since \in Nat /\ Window \in Nat
      BY <1>1, AlertsAssumption
    <2>2. bots' \in [step : {"resting", "telling", "marking"}, since : Nat, left : Seq(Events)]
      BY <2>1
    <2>3. QED
      BY <1>1, <2>1, <2>2 DEF LookIsKept
  <1>4. NothingSkipped'
    BY <1>1 DEF NothingSkipped
  <1>5. Committed' = Committed
    BY DEF recordVars, Committed
  <1>6. ASSUME NEW e \in Events, WorthTelling(e)' PROVE WorthTelling(e)
    <2>1. happened[e].at \in Int /\ bots.since \in Int
      BY DEF AlertsInv, MomentsKept
    <2>2. QED
      BY <1>1, <1>5, <1>6, <2>1 DEF WorthTelling, recordVars
  <1>7. QED
    BY <1>2, <1>3, <1>4, <1>5, <1>6

\* What may change once nothing more is sent.
LEMMA NothingSent ==
    ASSUME AlertsInv, bots'.step # "marking", UNCHANGED <<sends, recordVars>>,
           \A e \in Events : WorthTelling(e)' => WorthTelling(e),
           unmarked \subseteq unmarked', unsent \subseteq unsent', delivered \subseteq delivered',
           delivered' \subseteq {e \in Committed : happened[e].news /\ sends[e] > 0},
           bots.step = "marking" => Head(bots.left) \in delivered' \cup unmarked'
    PROVE  ToldKept' /\ ToldTwiceOnlyUnmarked' /\ ToldInOrder'
  <1>1. Committed' = Committed /\ happened' = happened /\ late' = late /\ sends' = sends
    BY DEF recordVars, Committed
  <1>2. ToldKept'
    BY <1>1 DEF AlertsInv, ToldKept
  <1>3. ToldTwiceOnlyUnmarked'
    BY <1>1 DEF AlertsInv, ToldTwiceOnlyUnmarked
  <1>4. ToldInOrder'
    <2> SUFFICES ASSUME NEW e \in Committed, NEW f \in Committed, happened[e].news, happened[e].at > bots'.since,
                        happened[e].at < happened[f].at, sends[f] > 0
                 PROVE  sends[e] > 0 \/ e \in unsent' \cup late
      BY <1>1 DEF ToldInOrder
    <2>1. WorthTelling(e)
      BY <1>1 DEF WorthTelling, Committed
    <2>2. QED
      BY <2>1 DEF AlertsInv, ToldInOrder, WorthTelling
  <1>5. QED
    BY <1>2, <1>3, <1>4

\* One more was sent: the next of the look, before anything that is later than it.
LEMMA OneSent ==
    ASSUME AlertsInv, bots.step = "telling", NEW h, h = Head(bots.left),
           sends[h] < MaxSends, sends' = [sends EXCEPT ![h] = @ + 1], UNCHANGED <<recordVars, delivered, unsent>>,
           unmarked \subseteq unmarked', bots'.since = bots.since,
           h \in unmarked' \/ (bots'.step = "marking" /\ Head(bots'.left) = h),
           bots'.step = "marking" => Head(bots'.left) = h
    PROVE  ToldKept' /\ ToldTwiceOnlyUnmarked' /\ ToldInOrder'
  <1>1. /\ h \in Events /\ WorthTelling(h) /\ h \notin delivered /\ h = bots.left[1] /\ h \in Committed
        /\ 1 \in DOMAIN bots.left
    BY TheNext DEF WorthTelling
  <1>2. /\ Committed' = Committed /\ happened' = happened /\ late' = late /\ delivered' = delivered
        /\ unsent' = unsent
    BY DEF recordVars, Committed
  <1>3. sends \in [Events -> 0 .. MaxSends] /\ MaxSends \in Nat
    BY AlertsAssumption DEF AlertsInv, ToldKept
  <1>4. /\ sends' \in [Events -> 0 .. MaxSends] /\ sends'[h] = sends[h] + 1 /\ sends'[h] > 0
        /\ \A e \in Events \ {h} : sends'[e] = sends[e]
    BY <1>1, <1>3
  <1>5. \A e \in Events : sends[e] > 0 => sends'[e] > 0
    BY <1>3, <1>4
  <1>6. ToldKept'
    <2>1. delivered' \subseteq {e \in Committed' : happened'[e].news /\ sends'[e] > 0}
      BY <1>2, <1>5 DEF AlertsInv, ToldKept, Committed
    <2>2. ASSUME NEW e \in Events, sends'[e] > 0
          PROVE  /\ e \in Committed'
                 /\ e \in delivered' \cup unmarked' \/ (bots'.step = "marking" /\ e = Head(bots'.left))
      BY <1>1, <1>2, <1>4, <2>2 DEF AlertsInv, ToldKept
    <2>3. bots'.step = "marking" => sends'[Head(bots'.left)] > 0
      BY <1>4
    <2>4. QED
      BY <1>4, <2>1, <2>2, <2>3 DEF ToldKept
  <1>7. ToldTwiceOnlyUnmarked'
    <2>1. ASSUME sends'[h] > 1 PROVE h \in unmarked'
      <3>1. sends[h] > 0
        BY <1>1, <1>3, <1>4, <2>1
      <3>2. QED
        BY <1>1, <3>1 DEF AlertsInv, ToldKept
    <2>2. QED
      BY <1>4, <2>1 DEF AlertsInv, ToldTwiceOnlyUnmarked
  <1>8. ToldInOrder'
    <2> SUFFICES ASSUME NEW e \in Committed, NEW f \in Committed, happened[e].news, happened[e].at > bots.since,
                        happened[e].at < happened[f].at, sends'[f] > 0, ~(sends'[e] > 0)
                 PROVE  e \in unsent \cup late
      BY <1>2 DEF ToldInOrder
    <2>1. WorthTelling(e) /\ e \in Events /\ f \in Events
      BY DEF WorthTelling, Committed
    <2>2. CASE f # h
      BY <1>4, <1>5, <2>1, <2>2 DEF AlertsInv, ToldInOrder
    <2>3. CASE f = h
      <3> SUFFICES ASSUME e \notin unsent \cup late PROVE FALSE
        OBVIOUS
      <3>1. sends[e] = 0
        BY <1>3, <1>5, <2>1
      <3>2. PICK j \in DOMAIN bots.left : bots.left[j] = e
        BY <1>1, <2>1, <2>3, <3>1 DEF AlertsInv, NothingSkipped
      <3>3. j = 1 \/ 1 < j
        BY TheNext
      <3>4. happened[h].at <= happened[e].at
        BY <1>1, <2>1, <3>2, <3>3 DEF AlertsInv, LookIsKept, MomentsKept
      <3>5. QED
        BY <1>1, <2>1, <2>3, <3>4 DEF AlertsInv, MomentsKept
    <2>4. QED
      BY <2>2, <2>3
  <1>9. QED
    BY <1>6, <1>7, <1>8

LEMMA SendAlertKeeps == ASSUME AlertsInv, SendAlert PROVE AlertsInv'
  <1> DEFINE h == Head(bots.left)
  <1>1. /\ bots.step = "telling" /\ sends[h] < MaxSends /\ sends' = [sends EXCEPT ![h] = @ + 1]
        /\ UNCHANGED <<recordVars, delivered, unsent>>
    BY DEF SendAlert
  <1>2. /\ h \in Events /\ sends'[h] # 0 /\ \A e \in Events : sends'[e] = 0 => sends[e] = 0
    <2>1. h \in Events /\ sends \in [Events -> 0 .. MaxSends] /\ MaxSends \in Nat
      BY <1>1, TheNext, AlertsAssumption DEF AlertsInv, ToldKept
    <2> HIDE DEF h
    <2>2. QED
      BY <1>1, <2>1
  <1>3. CASE bots' = [bots EXCEPT !.step = "marking"] /\ UNCHANGED unmarked
    <2>1. /\ bots'.step = "marking" /\ bots'.left = bots.left /\ bots'.since = bots.since
          /\ bots' \in [step : {"resting", "telling", "marking"}, since : Nat, left : Seq(Events)]
      BY <1>3 DEF AlertsInv, LookIsKept
    <2>2. Committed' = Committed /\ happened' = happened /\ late' = late /\ unsent' = unsent /\ delivered' = delivered
          /\ \A e \in Events : WorthTelling(e)' <=> WorthTelling(e)
      BY <1>1, <2>1 DEF recordVars, Committed, WorthTelling
    <2>3. MomentsKept'
      BY <1>1, <2>1 DEF AlertsInv, MomentsKept, recordVars, Happened
    <2>4. LookIsKept'
      <3>1. ASSUME NEW i \in DOMAIN bots'.left PROVE WorthTelling(bots.left[i])' /\ bots'.left[i] \notin delivered'
        BY <2>1, <2>2 DEF AlertsInv, LookIsKept, WorthTelling
      <3>2. QED
        BY <1>1, <2>1, <2>2, <3>1 DEF AlertsInv, LookIsKept
    <2>5. NothingSkipped'
      BY <1>2, <2>1, <2>2 DEF AlertsInv, NothingSkipped
    <2>6. ToldKept' /\ ToldTwiceOnlyUnmarked' /\ ToldInOrder'
      BY <1>1, <1>3, <2>1, OneSent
    <2>7. QED
      BY <2>3, <2>4, <2>5, <2>6 DEF AlertsInv
  <1>4. CASE bots' = Onward /\ unmarked' = unmarked \cup {h}
    <2>1. MomentsKept' /\ LookIsKept' /\ bots'.step # "marking"
      BY <1>1, <1>4, GoingOnward
    <2>2. NothingSkipped'
      BY <1>1, <1>2, <1>4, OnwardSkipsNothing
    <2>3. bots'.since = bots.since
      BY <1>4 DEF Onward, AlertsInv, LookIsKept
    <2>4. ToldKept' /\ ToldTwiceOnlyUnmarked' /\ ToldInOrder'
      BY <1>1, <1>4, <2>1, <2>3, OneSent
    <2>5. QED
      BY <2>1, <2>2, <2>4 DEF AlertsInv
  <1>5. QED
    BY <1>3, <1>4 DEF SendAlert

LEMMA CouldNotSendKeeps == ASSUME AlertsInv, CouldNotSend PROVE AlertsInv'
  <1> DEFINE h == Head(bots.left)
  <1>1. /\ bots.step = "telling" /\ bots' = Onward /\ unsent' = unsent \cup {h}
        /\ UNCHANGED <<recordVars, delivered, sends, unmarked>>
    BY DEF CouldNotSend
  <1>2. MomentsKept' /\ LookIsKept' /\ bots'.step # "marking" /\ \A e \in Events : WorthTelling(e)' <=> WorthTelling(e)
    BY <1>1, GoingOnward
  <1>3. NothingSkipped'
    BY <1>1, OnwardSkipsNothing
  <1>4. delivered' \subseteq {e \in Committed : happened[e].news /\ sends[e] > 0}
    BY <1>1 DEF AlertsInv, ToldKept
  <1>5. ToldKept' /\ ToldTwiceOnlyUnmarked' /\ ToldInOrder'
    BY <1>1, <1>2, <1>4, NothingSent
  <1>6. QED
    BY <1>2, <1>3, <1>5 DEF AlertsInv

\* What is told, and may be marked or not.
LEMMA TheNextWasSent ==
    ASSUME AlertsInv, bots.step = "marking", NEW h, h = Head(bots.left)
    PROVE  /\ h \in {e \in Committed : happened[e].news /\ sends[e] > 0} /\ sends[h] # 0
           /\ delivered \cup {h} \subseteq {e \in Committed : happened[e].news /\ sends[e] > 0}
  <1>1. h \in Events /\ WorthTelling(h) /\ sends[h] > 0
    BY TheNext DEF AlertsInv, ToldKept
  <1>2. QED
    BY <1>1 DEF AlertsInv, ToldKept, WorthTelling

LEMMA MarkToldKeeps == ASSUME AlertsInv, MarkTold PROVE AlertsInv'
  <1> DEFINE h == Head(bots.left)
  <1>1. /\ bots.step = "marking" /\ bots' = Onward /\ delivered' = delivered \cup {h}
        /\ UNCHANGED <<recordVars, sends, unmarked, unsent>>
    BY DEF MarkTold
  <1>2. sends[h] # 0 /\ delivered' \subseteq {e \in Committed : happened[e].news /\ sends[e] > 0}
    BY <1>1, TheNextWasSent
  <1>3. MomentsKept' /\ LookIsKept' /\ bots'.step # "marking" /\ \A e \in Events : WorthTelling(e)' <=> WorthTelling(e)
    BY <1>1, GoingOnward
  <1>4. NothingSkipped'
    BY <1>1, <1>2, OnwardSkipsNothing
  <1>5. ToldKept' /\ ToldTwiceOnlyUnmarked' /\ ToldInOrder'
    BY <1>1, <1>2, <1>3, NothingSent
  <1>6. QED
    BY <1>3, <1>4, <1>5 DEF AlertsInv

LEMMA CouldNotMarkKeeps == ASSUME AlertsInv, CouldNotMark PROVE AlertsInv'
  <1> DEFINE h == Head(bots.left)
  <1>1. /\ bots.step = "marking" /\ unmarked' = unmarked \cup {h} /\ UNCHANGED <<recordVars, sends, unsent>>
        /\ delivered' \in {delivered, delivered \cup {h}}
    BY DEF CouldNotMark
  <1>2. sends[h] # 0 /\ delivered' \subseteq {e \in Committed : happened[e].news /\ sends[e] > 0}
    BY <1>1, TheNextWasSent
  <1>3. CASE bots' = Onward
    <2>1. MomentsKept' /\ LookIsKept' /\ bots'.step # "marking" /\ \A e \in Events : WorthTelling(e)' <=> WorthTelling(e)
      BY <1>1, <1>3, GoingOnward
    <2>2. NothingSkipped'
      BY <1>1, <1>2, <1>3, OnwardSkipsNothing
    <2>3. ToldKept' /\ ToldTwiceOnlyUnmarked' /\ ToldInOrder'
      BY <1>1, <1>2, <2>1, NothingSent
    <2>4. QED
      BY <2>1, <2>2, <2>3 DEF AlertsInv
  <1>4. CASE bots' = [bots EXCEPT !.step = "resting", !.left = <<>>]
    <2>1. bots' = [step |-> "resting", since |-> bots.since, left |-> <<>>] /\ bots.since \in 0 .. moment
          /\ bots.since >= bots.since
      BY <1>4, TheMoment DEF AlertsInv, LookIsKept
    <2>2. MomentsKept' /\ LookIsKept' /\ NothingSkipped' /\ \A e \in Events : WorthTelling(e)' => WorthTelling(e)
      BY <1>1, <2>1, LookIsOver
    <2>3. ToldKept' /\ ToldTwiceOnlyUnmarked' /\ ToldInOrder'
      BY <1>1, <1>2, <2>1, <2>2, NothingSent
    <2>4. QED
      BY <2>2, <2>3 DEF AlertsInv
  <1>5. QED
    BY <1>3, <1>4 DEF CouldNotMark

LEMMA RestartBotsKeeps == ASSUME AlertsInv, RestartBots PROVE AlertsInv'
  <1>1. /\ bots' = [step |-> "resting", since |-> moment, left |-> <<>>]
        /\ unmarked' = (IF bots.step = "marking" THEN unmarked \cup {Head(bots.left)} ELSE unmarked)
        /\ UNCHANGED <<recordVars, delivered, sends, unsent>>
    BY DEF RestartBots
  <1>2. moment \in 0 .. moment /\ moment >= bots.since
    BY TheMoment
  <1>3. MomentsKept' /\ LookIsKept' /\ NothingSkipped' /\ \A e \in Events : WorthTelling(e)' => WorthTelling(e)
    BY <1>1, <1>2, LookIsOver
  <1>4. delivered' \subseteq {e \in Committed : happened[e].news /\ sends[e] > 0}
    BY <1>1 DEF AlertsInv, ToldKept
  <1>5. ToldKept' /\ ToldTwiceOnlyUnmarked' /\ ToldInOrder'
    BY <1>1, <1>3, <1>4, NothingSent
  <1>6. QED
    BY <1>3, <1>5 DEF AlertsInv

LEMMA NextAlertsInv == AlertsInv /\ [AlertsNext]_alertsVars => AlertsInv'
  <1> SUFFICES ASSUME AlertsInv, [AlertsNext]_alertsVars PROVE AlertsInv'
    OBVIOUS
  <1>1. CASE AlertsNext
    BY <1>1, BeginEventKeeps, CommitEventKeeps, UndoEventKeeps, LookKeeps, SendAlertKeeps, CouldNotSendKeeps,
       MarkToldKeeps, CouldNotMarkKeeps, RestartBotsKeeps DEF AlertsNext
  <1>2. CASE UNCHANGED alertsVars
    <2>1. /\ UNCHANGED <<moment, happened, delivered, bots, sends, unmarked, unsent, late>>
          /\ Committed' = Committed /\ Happened' = Happened
      BY <1>2 DEF alertsVars, Committed, Happened
    <2>2. MomentsKept' /\ LookIsKept' /\ ToldKept'
      BY <2>1 DEF AlertsInv, MomentsKept, LookIsKept, ToldKept, WorthTelling
    <2>3. NothingSkipped' /\ ToldTwiceOnlyUnmarked' /\ ToldInOrder'
      BY <2>1 DEF AlertsInv, NothingSkipped, ToldTwiceOnlyUnmarked, ToldInOrder, WorthTelling
    <2>4. QED
      BY <2>2, <2>3 DEF AlertsInv
  <1>3. QED
    BY <1>1, <1>2

LEMMA AlertsInvAlways == AlertsSpec => []AlertsInv
  BY InitAlertsInv, NextAlertsInv, PTL DEF AlertsSpec

(* An alert is sent twice only when it was sent and could not be marked,   *)
(* whatever order events are seen in, looks fail and the bots restart, for *)
(* any events and any window (bots/src/alerts.ts:6-7).                     *)
THEOREM NeverTwiceUnlessUnmarked == AlertsSpec => []ToldTwiceOnlyUnmarked
  <1>1. AlertsInv => ToldTwiceOnlyUnmarked
    BY DEF AlertsInv
  <1>2. QED
    BY <1>1, AlertsInvAlways, PTL

(* Since the bots started an owner hears of an event before he heard of an *)
(* earlier one only if the earlier one could not be sent, or was not in the*)
(* record in time (db/src/alerts.ts pendingAlerts).                        *)
THEOREM HeardInOrder == AlertsSpec => []ToldInOrder
  <1>1. AlertsInv => ToldInOrder
    BY DEF AlertsInv
  <1>2. QED
    BY <1>1, AlertsInvAlways, PTL

-----------------------------------------------------------------------------
(* The loops together.  They share nothing, so each keeps what it keeps.   *)

LoopsInv == TraderInv /\ AlertsInv /\ WatcherInv

LEMMA NextLoopsInv == LoopsInv /\ [LoopsNext]_loopsVars => LoopsInv'
  <1> SUFFICES ASSUME LoopsInv, [LoopsNext]_loopsVars PROVE LoopsInv'
    OBVIOUS
  <1>1. [TraderNext]_traderVars /\ [AlertsNext]_alertsVars /\ [WatcherNext]_watcherVars
    BY DEF LoopsNext, loopsVars
  <1>2. QED
    BY <1>1, NextTraderInv, NextAlertsInv, NextWatcherInv DEF LoopsInv

(* What each of the loops reads, keeps and writes is what its code says it *)
(* is, whichever of them moves.                                            *)
THEOREM LoopsTypeCorrect == LoopsSpec => []LoopsTypeOK
  <1>1. LoopsInit => LoopsInv
    BY InitTraderInv, InitAlertsInv, InitWatcherInv DEF LoopsInit, LoopsInv
  <1>2. LoopsInv => LoopsTypeOK
    BY TraderInvIsTyped, AlertsInvIsTyped, WatcherInvIsTyped DEF LoopsInv, LoopsTypeOK
  <1>3. QED
    BY <1>1, <1>2, NextLoopsInv, PTL DEF LoopsSpec
=============================================================================
