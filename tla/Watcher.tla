------------------------------- MODULE Watcher -------------------------------
(***************************************************************************)
(* A machine whose band follows the price                                  *)
(* (packages/runtime/src/kinds/following-range.ts) and the loop that       *)
(* follows prices for it (services/orchestrator/src/price-watcher.ts,      *)
(* packages/runtime/src/price-trigger.ts, packages/db/src/                 *)
(* watching-machines.ts): a crossing becomes a queued run or moves the     *)
(* band, a node decides what the run does (services/daemon/src/            *)
(* machine-runner.ts), and the owner pauses, resumes and retunes           *)
(* (packages/db/src/retune.ts).                                            *)
(*                                                                         *)
(* What the record says of the machine is kept as what followingState      *)
(* makes of it.  The market is a choice of price at every look and trade;  *)
(* distances between levels are amounts rather than parts of the price.    *)
(***************************************************************************)
EXTENDS Integers

CONSTANTS
    Prices,
    Halves,         \* half the band, as the owner may set it
    FloorGap,       \* how far below what it paid the floor is
    Margin,         \* how far clear of a level arms it again
    MaxRuns         \* bound on the runs queued and taken over

\* A band and a floor are at most half the price (following-range.ts parse), so levels are prices.
ASSUME WatcherAssumption ==
    /\ Prices \subseteq Nat \ {0} /\ Halves \subseteq Nat \ {0}
    /\ FloorGap \in Nat \ {0} /\ Margin \in Nat /\ MaxRuns \in Nat
    /\ \A price \in Prices : FloorGap < price /\ \A h \in Halves : h < price

VARIABLES
    running,        \* whether the machine is running; if not it is paused
    half,           \* the recipe: half the band
    band,           \* where it stands, from its record
    seen,           \* what the loop has seen of each level
    look,           \* the look under way: what it read and what is left to compare
    queue,          \* runs queued or at a node; one that was taken over is in it twice
    queued,         \* runs queued and taken over so far
    crossed,        \* history: levels watched that the price was away from since they last fired
    unearned,       \* history: a level fired that the price had not been away from
    overlapped,     \* history: a buy was decided while another was under way
    rushed          \* history: a buy was decided in the rest, of a level read after the floor

watcherVars ==
    <<running, half, band, seen, look, queue, queued, crossed, unearned, overlapped, rushed>>

Holds(b) == b.bought > 0

-----------------------------------------------------------------------------
(* The levels.                                                             *)

Level(id, at, falls) == [id |-> id, at |-> at, falls |-> falls]

\* Variant: what set the anchor is not asked.
Waits(b) == FALSE

\* Resting after the floor, or waiting to be given a fresh price once the rest is over.
WaitsForAnchor(b) == b.fromLoss

\* A machine with no price to work around, or back from the floor.
NeedsAnchor(b) == b.anchor = 0 \/ (~Holds(b) /\ b.fromLoss /\ b.rested)

Levels(b) ==
    IF b.anchor = 0 THEN {}
    ELSE IF Holds(b) THEN
        LET entry == b.basis \div b.bought IN
        {Level("sell", entry + 2 * half, FALSE), Level("floor", entry - FloorGap, TRUE)}
    ELSE IF WaitsForAnchor(b) THEN {}
    ELSE {Level("buy", b.anchor - half, TRUE), Level("follow", b.anchor + half, FALSE)}

Reached(level, price) == IF level.falls THEN price <= level.at ELSE price >= level.at
ClearOf(level, price) ==
    IF level.falls THEN price > level.at + Margin ELSE price < level.at - Margin

Seen(level, armed, soon) == [level |-> level, armed |-> armed, soon |-> soon]
SeenOf(level) == {s \in seen : s.level = level}

\* Variant: it starts armed, wherever the price is.
ArmedFromTheStart(level, price) == TRUE

\* The first price decides: on the far side it is armed at once.
StartsArmed(level, price) == ~Reached(level, price)

\* observePrice: what the level has seen after this price, and whether it fires.
ObservePrice(level, price) ==
    IF SeenOf(level) = {} THEN [state |-> Seen(level, StartsArmed(level, price), FALSE), fire |-> FALSE]
    ELSE LET s == CHOOSE s \in SeenOf(level) : TRUE IN
        CASE ClearOf(level, price) -> [state |-> [s EXCEPT !.armed = TRUE], fire |-> FALSE]
          [] ~ClearOf(level, price) /\ s.armed /\ Reached(level, price) /\ ~s.soon ->
                [state |-> Seen(level, FALSE, TRUE), fire |-> TRUE]
          [] OTHER -> [state |-> s, fire |-> FALSE]

-----------------------------------------------------------------------------

NoLook == [step |-> "resting", levels |-> {}, anchors |-> FALSE, price |-> 0, sales |-> 0]
NewBand == [anchor |-> 0, fromLoss |-> FALSE, rested |-> FALSE, bought |-> 0, basis |-> 0, sales |-> 0]

WatcherTypeOK ==
    /\ running \in BOOLEAN /\ half \in Halves
    /\ band.anchor \in Prices \cup {0} /\ band.bought \in Nat /\ band.basis \in Nat
    /\ band.bought = 0 <=> band.basis = 0
    /\ \A s \in seen : s.level.at > 0 /\ s.armed \in BOOLEAN
    /\ \A s, t \in seen : s.level = t.level => s = t
    /\ look.step \in {"resting", "asking", "firing"}
    /\ \A r \in queue : r.no \in 1 .. queued /\ r.step \in {"queued", "buying", "selling"}
    /\ queued \in 0 .. MaxRuns

WatcherInit ==
    /\ running = TRUE
    /\ half \in Halves
    /\ band = NewBand
    /\ seen = {} /\ look = NoLook
    /\ queue = {} /\ queued = 0
    /\ crossed = {} /\ unearned = FALSE /\ overlapped = FALSE /\ rushed = FALSE

machineVars == <<running, half, band>>
runVars == <<queue, queued, overlapped, rushed>>
firingVars == <<crossed, unearned>>

\* The look begins with what the record says now; the price is asked for after that.
ReadMachine ==
    /\ look.step = "resting"
    /\ running /\ (NeedsAnchor(band) \/ Levels(band) # {})
    /\ look' = [NoLook EXCEPT !.step = "asking", !.anchors = NeedsAnchor(band), !.sales = band.sales,
                              !.levels = IF NeedsAnchor(band) THEN {} ELSE Levels(band)]
    /\ UNCHANGED <<machineVars, seen, runVars, firingVars>>

(* The machine waits on no price.  If others do, the look goes on without  *)
(* it, and what its levels had seen is dropped at the end.                 *)
LookWithoutIt ==
    /\ look.step = "resting" /\ seen # {}
    /\ ~(running /\ (NeedsAnchor(band) \/ Levels(band) # {}))
    /\ seen' = {} /\ crossed' = {}
    /\ UNCHANGED <<machineVars, look, runVars, unearned>>

Recentre(price) == band' = [band EXCEPT !.anchor = price, !.fromLoss = FALSE]

(* A band with nothing to sit around is given the price, and no level of it*)
(* keeps its state; if the move is not heard of, nothing is changed there. *)
GiveAnchor(price, heard) ==
    /\ look.step = "asking" /\ look.anchors
    /\ Recentre(price)
    /\ IF heard THEN seen' = {} /\ crossed' = {} ELSE UNCHANGED <<seen, crossed>>
    /\ look' = NoLook
    /\ UNCHANGED <<running, half, runVars, unearned>>

(* Every level is compared with one price, which reaches at most one of    *)
(* them: one is above where the band sits and the other below.  Nothing is *)
(* waited for unless it fires, and what is live is then all that was seen. *)
Compared(price) == {ObservePrice(level, price) : level \in look.levels}
Live(price) == {c.state : c \in Compared(price)}
AwayFrom(price) == {level \in look.levels : ~Reached(level, price)}

GetPrice(price) ==
    /\ look.step = "asking" /\ ~look.anchors
    /\ IF \E c \in Compared(price) : c.fire
       THEN look' = [look EXCEPT !.step = "firing", !.price = price] /\ UNCHANGED <<seen, crossed>>
       ELSE /\ look' = NoLook /\ seen' = Live(price)
            /\ crossed' = (crossed \cap look.levels) \cup AwayFrom(price)
    /\ UNCHANGED <<machineVars, runVars, unearned>>

\* No price for this token is no news: its levels keep what they had seen.
MissPrice ==
    /\ look.step = "asking"
    /\ seen' = {s \in seen : s.level \in look.levels}
    /\ crossed' = crossed \cap look.levels
    /\ look' = NoLook
    /\ UNCHANGED <<machineVars, runVars, unearned>>

Firing == CHOOSE level \in look.levels : ObservePrice(level, look.price).fire

NewRun(wokeOn, sales) ==
    [no |-> queued + 1, wokeOn |-> wokeOn, step |-> "queued", sales |-> sales, amount |-> 0]

(* The run is queued, or the band moves to the price that crossed.  The    *)
(* database may do it and not be heard, or another machine's firing in the *)
(* same pass may fail after it: then nothing of the look is kept.          *)
Fire(heard) ==
    /\ look.step = "firing"
    /\ IF Firing.id = "follow"
       THEN Recentre(look.price) /\ UNCHANGED <<queue, queued>>
       ELSE /\ queued < MaxRuns /\ queued' = queued + 1
            /\ queue' = queue \cup {NewRun(Firing.id, look.sales)}
            /\ UNCHANGED band
    /\ unearned' = (unearned \/ Firing \notin crossed)
    /\ IF heard
       THEN /\ seen' = Live(look.price)
            /\ crossed' = ((crossed \cap look.levels) \cup AwayFrom(look.price)) \ {Firing}
       ELSE UNCHANGED <<seen, crossed>>
    /\ look' = NoLook
    /\ UNCHANGED <<running, half, overlapped, rushed>>

\* Prices could not be read, or the run or the move not written: nothing of the look is kept.
BreakLook ==
    /\ look.step # "resting"
    /\ look' = NoLook
    /\ UNCHANGED <<machineVars, seen, runVars, firingVars>>

\* What each level has seen is in memory only.
RestartWatcher ==
    /\ look' = NoLook /\ seen' = {} /\ crossed' = {}
    /\ UNCHANGED <<machineVars, runVars, unearned>>

\* The least time between two firings of a level has passed.
PassGap ==
    /\ \E s \in seen : s.soon
    /\ seen' = {[s EXCEPT !.soon = FALSE] : s \in seen}
    /\ UNCHANGED <<machineVars, look, runVars, firingVars>>

RestIsOver ==
    /\ band.fromLoss /\ ~band.rested
    /\ band' = [band EXCEPT !.rested = TRUE]
    /\ UNCHANGED <<running, half, seen, look, runVars, firingVars>>

-----------------------------------------------------------------------------
(* The runs.  A node reads the context and decides from it; whatever else  *)
(* happens to the machine happens before or after that.                    *)

watching == <<running, half, seen, look, queued, firingVars>>

\* Variant: what it holds is not looked at.
BuysAnyway == TRUE

\* One position at a time.
MayBuy == ~Holds(band)

Decide(r) ==
    LET buys == r.wokeOn = "buy" /\ MayBuy
        sells == r.wokeOn \in {"sell", "floor"} /\ Holds(band) IN
    /\ r.step = "queued"
    /\ queue' = (queue \ {r}) \cup
          (IF ~running \/ ~(buys \/ sells) THEN {}
           ELSE {[r EXCEPT !.step = IF buys THEN "buying" ELSE "selling", !.amount = band.bought]})
    /\ overlapped' = (overlapped \/ (running /\ buys /\ \E other \in queue : other.step = "buying"))
    /\ rushed' = (rushed \/ (running /\ buys /\ band.fromLoss /\ r.sales = band.sales))
    /\ UNCHANGED <<watching, band>>

Buy(r, price) ==
    /\ r.step = "buying"
    /\ band' = [band EXCEPT !.bought = @ + 1, !.basis = @ + price]
    /\ queue' = queue \ {r}
    /\ UNCHANGED <<watching, overlapped, rushed>>

(* The lease lapsed under a node that had decided, and another decides for *)
(* the same run, before or after what the first proposed is over.  A run   *)
(* that decided to wait has changed nothing and needs no second decision.  *)
TakeOver(r) ==
    /\ r.step \in {"buying", "selling"}
    /\ queued < MaxRuns /\ queued' = queued + 1
    /\ queue' = queue \cup {NewRun(r.wokeOn, r.sales)}
    /\ UNCHANGED <<machineVars, seen, look, firingVars, overlapped, rushed>>

CostOf(b, sold) == (b.basis * sold) \div b.bought

\* All it held when it decided, or what is left of it.  Where it sold is where the band sits next.
Sell(r, price) ==
    LET sold == IF r.amount > band.bought THEN band.bought ELSE r.amount
        cost == IF Holds(band) THEN CostOf(band, sold) ELSE 0 IN
    /\ r.step = "selling"
    /\ band' = [anchor |-> price, fromLoss |-> price * r.amount < cost, rested |-> FALSE,
                bought |-> band.bought - sold, basis |-> band.basis - cost, sales |-> band.sales + 1]
    /\ queue' = queue \ {r}
    /\ UNCHANGED <<watching, overlapped, rushed>>

\* Refused, failed, or the lease was lost before the trade was proposed.
TradeFails(r) ==
    /\ r.step \in {"buying", "selling"}
    /\ queue' = queue \ {r}
    /\ UNCHANGED <<watching, band, overlapped, rushed>>

-----------------------------------------------------------------------------
(* The owner.                                                              *)

PauseOrResume ==
    /\ running' = ~running
    /\ UNCHANGED <<half, band, seen, look, runVars, firingVars>>

Retune(to) ==
    /\ ~running /\ to # half
    /\ half' = to
    /\ UNCHANGED <<running, band, seen, look, runVars, firingVars>>

WatcherNext ==
    \/ ReadMachine \/ LookWithoutIt
    \/ \E price \in Prices : GetPrice(price)
    \/ \E heard \in BOOLEAN : (\E price \in Prices : GiveAnchor(price, heard)) \/ Fire(heard)
    \/ MissPrice \/ BreakLook
    \/ RestartWatcher \/ PassGap \/ RestIsOver
    \/ \E r \in queue :
        \/ Decide(r) \/ TakeOver(r)
        \/ \E price \in Prices : Buy(r, price) \/ Sell(r, price)
        \/ TradeFails(r)
    \/ PauseOrResume
    \/ \E to \in Halves : Retune(to)

WatcherSpec == WatcherInit /\ [][WatcherNext]_watcherVars

-----------------------------------------------------------------------------
(* What watching promises.                                                 *)

(* Never a run, and never a move of the band, for a crossing that did not  *)
(* happen (price-watcher.ts:18): a level fires only when the price was away*)
(* from it since it last fired and was watched, through restarts, missing  *)
(* prices, changed recipes and bands that moved and came back.  Only one   *)
(* whose run or move was written and not heard of may fire again.          *)
FiresOnCrossings == ~unearned

(* One position at a time (following-range.ts decide): the machine never   *)
(* buys on top of what it holds, unless a second run, or the same run taken*)
(* over, decided to buy while the first buy was not in the record yet.     *)
OnePosition == band.bought > 1 => overlapped

(* After selling at the floor it rests, and starts again around a fresh    *)
(* price (following-range.ts:11-16): a buy is decided in the rest only for *)
(* a level that was read before the sale.                                  *)
RestsAfterTheFloor == ~rushed
=============================================================================
