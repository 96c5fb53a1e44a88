------------------------------- MODULE Trader -------------------------------
(***************************************************************************)
(* One owner's paper AI trader: the gateway's loop that ticks every running*)
(* run and saves it, the requests that begin and end a run                 *)
(* (services/gateway/src/trader-runner.ts, packages/db/src/trader-runs.ts),*)
(* and what a tick does to the run's book                                  *)
(* (packages/manager/src/trader/engine.ts, book.ts, limits.ts, tools.ts).  *)
(*                                                                         *)
(* A tick works on the state it was handed and saves it whole.  Between a  *)
(* read and the write that follows from it others may write.  Money is in  *)
(* units of the cash, a token's amount in units of the token.              *)
(*                                                                         *)
(* Left out of a tick, each as a choice of what it may do: a wait after a  *)
(* feed refused and the day's cap on thinking (it does less), the hourly   *)
(* and price impact limits (a buy is refused, which changes nothing), the  *)
(* AI's exit plans (more is sold than the owner's stop asks).              *)
(***************************************************************************)
EXTENDS Integers, SequencesExt

CONSTANTS
    Runs,           \* bound: runs this owner may ever begin
    Callers,        \* bound: requests to begin or end, each made once
    Tokens,
    StartCash, Spends,      \* what a run begins with, and what a buy may spend
    Received,               \* tokens a buy may bring
    Quotes,                 \* what a sale may bring, and a holding be worth
    NetworkFee, MaxPerTrade, MaxPositions, StopLossPct, DrawdownPct,
    MaxFills,       \* bound on fills
    MaxRestarts,    \* bound on the gateway's restarts
    NoRun

(* What a row may hold; NoRun is none of these.                            *)
Books ==
    [status : {"running", "paused", "stopped"}, cash : Int, realized : Int, fills : SUBSET Nat,
     held : [Tokens -> [amount : Nat, cost : Nat]], values : [Tokens -> Int]]

ASSUME TraderAssumption ==
    /\ Spends \subseteq Nat /\ Received \subseteq Nat \ {0} /\ Quotes \subseteq Nat
    /\ {StartCash, NetworkFee, MaxPerTrade, MaxPositions} \subseteq Nat
    /\ {StopLossPct, DrawdownPct} \subseteq 1 .. 100
    /\ IsFiniteSet(Tokens) /\ MaxFills \in Nat /\ MaxRestarts \in Nat /\ NoRun \notin Runs \cup Books

VARIABLES
    rows,           \* trader_runs: the state of each run, or NoRun
    made,           \* the rows in the order they were made
    round,          \* the loop: what it read and has not handed out yet
    ticks,          \* the ticks under way, of the runs that are busy
    ended,          \* runs ended since the gateway started
    callers,        \* requests to begin or end a run
    fills,          \* fills so far
    restarts,
    stale           \* history: the last save came from a state that was not the row's any more

traderVars == <<rows, made, round, ticks, ended, callers, fills, restarts, stale>>

-----------------------------------------------------------------------------
(* The book.                                                               *)

Unpriced == -1
NotHeld == [amount |-> 0, cost |-> 0]
NewTrader ==
    [status |-> "running", cash |-> StartCash, realized |-> 0, fills |-> {},
     held |-> [k \in Tokens |-> NotHeld], values |-> [k \in Tokens |-> Unpriced]]

Held(s) == {k \in Tokens : s.held[k].amount > 0}
Priced(s) == {k \in Held(s) : s.values[k] # Unpriced}
Costs(s) == MapThenSumSet(LAMBDA k : s.held[k].cost, Held(s))

\* A holding that cannot be priced counts as nothing.
WorthNow(s) == s.cash + MapThenSumSet(LAMBDA k : s.values[k], Priced(s))

DrawdownHit(s) == StartCash # 0 /\ (StartCash - WorthNow(s)) * 100 >= DrawdownPct * StartCash
StopHit(s, k) == (s.held[k].cost - s.values[k]) * 100 >= StopLossPct * s.held[k].cost

BookBuy(s, k, usdc, received, fill) ==
    [s EXCEPT !.cash = @ - (usdc + NetworkFee),
              !.held[k] = [amount |-> @.amount + received, cost |-> @.cost + usdc + NetworkFee],
              !.values[k] = (IF @ = Unpriced THEN 0 ELSE @) + usdc,
              !.fills = @ \cup {fill}]

\* Variant: the cost of one unit is rounded first.
CostOfUnits(h, amount) == (h.cost \div h.amount) * amount

\* The part sold carries its share of what the holding cost.
CostOfPart(h, amount) == (h.cost * amount) \div h.amount

BookSell(s, k, amount, usdc, fill) ==
    LET h == s.held[k]
        cost == CostOfPart(h, amount)
        left == h.amount - amount IN
    [s EXCEPT !.cash = @ + usdc - NetworkFee,
              !.realized = @ + usdc - NetworkFee - cost,
              !.held[k] = IF left = 0 THEN NotHeld
                          ELSE [amount |-> left, cost |-> h.cost - cost],
              !.values[k] = IF left = 0 THEN Unpriced ELSE @,
              !.fills = @ \cup {fill}]

CheckBuy(s, k, usdc) ==
    /\ 0 < usdc /\ usdc <= MaxPerTrade
    /\ usdc + NetworkFee <= s.cash
    /\ k \in Held(s) \/ Cardinality(Held(s)) < MaxPositions

-----------------------------------------------------------------------------
(* The rows, the loop and the requests.                                    *)

RowTypeOK(s) ==
    /\ s.status \in {"running", "paused", "stopped"}
    /\ s.cash \in Int /\ s.realized \in Int /\ s.fills \subseteq 1 .. fills
    /\ \A k \in Tokens :
          /\ s.held[k].amount \in Nat /\ s.held[k].cost \in Nat
          /\ s.values[k] \in Nat \cup {Unpriced}
          /\ k \notin Held(s) => s.held[k] = NotHeld /\ s.values[k] = Unpriced

Rows == {r \in Runs : rows[r] # NoRun}
Running == {r \in Rows : rows[r].status = "running"}
Busy == {t.run : t \in ticks}

NotCalled == [step |-> "idle", run |-> NoRun]

\* One row for each run made, one tick at a time for each of them.
TraderTypeOK ==
    /\ \A r \in Rows : RowTypeOK(rows[r])
    /\ ToSet(made) = Rows /\ Len(made) = Cardinality(Rows)
    /\ \A t \in ticks : t.run \in Rows /\ RowTypeOK(t.state)
    /\ \A t, u \in ticks : t.run = u.run => t = u
    /\ ended \subseteq Rows
    /\ \A c \in Callers : callers[c].run \in Runs \cup {NoRun}
    /\ fills \in 0 .. MaxFills

TraderInit ==
    /\ rows = [r \in Runs |-> NoRun]
    /\ made = <<>>
    /\ round = [r \in Runs |-> NoRun]
    /\ ticks = {} /\ ended = {}
    /\ callers = [c \in Callers |-> NotCalled]
    /\ fills = 0 /\ restarts = 0 /\ stale = FALSE

NoRound == [r \in Runs |-> NoRun]
NewTick(r, s) ==
    [run |-> r, state |-> s, step |-> "pricing", exits |-> {}, late |-> s # rows[r], crossed |-> FALSE]

\* The rows that are running, as they are now.  The answer is used when it arrives.
ReadRound ==
    /\ round = NoRound /\ Running # {}
    /\ round' = [r \in Runs |-> IF r \in Running THEN rows[r] ELSE NoRun]
    /\ UNCHANGED <<rows, made, ticks, ended, callers, fills, restarts, stale>>

\* Variant: nothing is asked of the ticks under way.
MayTickAgain(r) == TRUE

MayTick(r) == r \notin Busy

\* step, for each run of the round in turn, without waiting for any of them.
StartTicks ==
    /\ round # NoRound
    /\ ticks' = ticks \cup {NewTick(r, round[r]) : r \in {q \in Runs : round[q] # NoRun /\ MayTick(q)}}
    /\ round' = NoRound
    /\ UNCHANGED <<rows, made, ended, callers, fills, restarts, stale>>

-----------------------------------------------------------------------------
(* A tick, a wait at a time.                                               *)

outside == <<rows, made, round, ended, callers, restarts, stale>>

Becomes(t, u) == ticks' = (ticks \ {t}) \cup {u}
FillTakesPlace == fills < MaxFills /\ fills' = fills + 1

(* What it holds is priced, or keeps the value it had.  What has to be sold*)
(* is everything down past the owner's stop; plans may sell more.          *)
PriceHoldings(t) ==
    /\ t.step = "pricing"
    /\ \E found \in [Held(t.state) -> Quotes \cup {Unpriced}] :
          LET s == [t.state EXCEPT !.values = [k \in Tokens |->
                      IF k \in Held(t.state) /\ found[k] # Unpriced THEN found[k] ELSE @[k]]] IN
          \E exits \in SUBSET Priced(s) :
            /\ {k \in Priced(s) : StopHit(s, k)} \subseteq exits
            /\ Becomes(t, [t EXCEPT !.state = s, !.exits = exits, !.step = "selling"])
    /\ UNCHANGED <<outside, fills>>

\* An exit sells the whole holding.
SellExit(t, k, usdc) ==
    /\ t.step = "selling" /\ k \in t.exits
    /\ FillTakesPlace
    /\ Becomes(t, [t EXCEPT !.exits = @ \ {k},
                            !.state = BookSell(@, k, @.held[k].amount, usdc, fills + 1)])
    /\ UNCHANGED outside

ExitCouldNotSell(t, k) ==
    /\ t.step = "selling" /\ k \in t.exits
    /\ Becomes(t, [t EXCEPT !.exits = @ \ {k}])
    /\ UNCHANGED <<outside, fills>>

Pause(s) == [s EXCEPT !.status = "paused"]

\* The exits are done: the drawdown pauses the trader, or it may be time to think.
JudgeBook(t) ==
    /\ t.step = "selling" /\ t.exits = {}
    /\ IF DrawdownHit(t.state)
       THEN Becomes(t, [t EXCEPT !.state = Pause(@), !.step = "done"])
       ELSE \E step \in {"thinking", "done"} : Becomes(t, [t EXCEPT !.step = step])
    /\ UNCHANGED <<outside, fills>>

(* The AI's tools, as often as it likes.  A buy past the drawdown pauses   *)
(* the trader, and the AI goes on with its tools.                          *)
AskToBuy(t, k, usdc, received) ==
    /\ t.step = "thinking"
    /\ IF DrawdownHit(t.state)
       THEN Becomes(t, [t EXCEPT !.state = Pause(@)]) /\ UNCHANGED fills
       ELSE /\ CheckBuy(t.state, k, usdc)
            /\ FillTakesPlace
            /\ Becomes(t, [t EXCEPT !.state = BookBuy(@, k, usdc, received, fills + 1)])
    /\ UNCHANGED outside

AskToSell(t, k, amount, usdc) ==
    /\ t.step = "thinking" /\ amount \in 1 .. t.state.held[k].amount
    /\ FillTakesPlace
    /\ Becomes(t, [t EXCEPT !.state = BookSell(@, k, amount, usdc, fills + 1)])
    /\ UNCHANGED outside

EndThought(t) ==
    /\ t.step = "thinking"
    /\ Becomes(t, [t EXCEPT !.step = "done"])
    /\ UNCHANGED <<outside, fills>>

\* It waits after a feed refused: the state as it was handed in is saved again.
WaitForFeeds(t) ==
    /\ t.step = "pricing"
    /\ Becomes(t, [t EXCEPT !.step = "done"])
    /\ UNCHANGED <<outside, fills>>

\* Variant: whether the run was ended is not asked.
MaySaveAnyway(t) == TRUE

MaySave(t) == t.run \notin ended

FinishTick(t) ==
    /\ t.step = "done"
    /\ IF MaySave(t) THEN Becomes(t, [t EXCEPT !.step = "saving"]) ELSE ticks' = ticks \ {t}
    /\ UNCHANGED <<outside, fills>>

LandTick(t) ==
    /\ t.step = "saving"
    /\ rows' = [rows EXCEPT ![t.run] = t.state]
    /\ stale' = (t.late \/ t.crossed)
    /\ ticks' = ticks \ {t}
    /\ UNCHANGED <<made, round, ended, callers, fills, restarts>>

\* The key could not be read, or the save failed.
FailTick(t) ==
    /\ t.step \in {"pricing", "saving"}
    /\ ticks' = ticks \ {t}
    /\ UNCHANGED <<outside, fills>>

-----------------------------------------------------------------------------
(* Beginning and ending a run.                                             *)

CallerAt(c, u) == callers' = [callers EXCEPT ![c] = u]
Answered(r) == [step |-> "answered", run |-> r]

(* A run is begun unless the newest is running.  The read and the save are *)
(* apart, and so are the save and the run's first tick.                    *)
BeginRun(c, r) ==
    /\ callers[c] = NotCalled
    /\ r \notin Rows /\ \A d \in Callers : callers[d].run # r
    /\ CallerAt(c, IF made # <<>> /\ rows[Last(made)].status = "running"
               THEN Answered(Last(made)) ELSE [step |-> "making", run |-> r])
    /\ UNCHANGED <<rows, made, round, ticks, ended, fills, restarts, stale>>

MakeRow(c) ==
    /\ callers[c].step = "making"
    /\ rows' = [rows EXCEPT ![callers[c].run] = NewTrader]
    /\ made' = Append(made, callers[c].run)
    /\ CallerAt(c, [callers[c] EXCEPT !.step = "starting"])
    /\ UNCHANGED <<round, ticks, ended, fills, restarts, stale>>

FirstTick(c) ==
    /\ callers[c].step = "starting"
    /\ ticks' = IF MayTick(callers[c].run) THEN ticks \cup {NewTick(callers[c].run, NewTrader)} ELSE ticks
    /\ CallerAt(c, Answered(callers[c].run))
    /\ UNCHANGED <<rows, made, round, ended, fills, restarts, stale>>

\* end: the newest run, unless it is stopped.
ReadToEnd(c) ==
    /\ callers[c] = NotCalled /\ made # <<>>
    /\ LET r == Last(made) IN
       CallerAt(c, IF rows[r].status = "stopped" THEN Answered(r)
               ELSE [step |-> "ending", run |-> r, state |-> rows[r]])
    /\ UNCHANGED <<rows, made, round, ticks, ended, fills, restarts, stale>>

\* From here on no tick of it saves, but one whose save is on its way already.
MarkEnded(c) ==
    /\ callers[c].step = "ending"
    /\ ended' = ended \cup {callers[c].run}
    /\ ticks' = {IF t.run = callers[c].run /\ t.step = "saving" THEN [t EXCEPT !.crossed = TRUE] ELSE t
                   : t \in ticks}
    /\ CallerAt(c, [callers[c] EXCEPT !.step = "stopping"])
    /\ UNCHANGED <<rows, made, round, fills, restarts, stale>>

SaveStopped(c) ==
    LET r == callers[c].run IN
    /\ callers[c].step = "stopping"
    /\ rows' = [rows EXCEPT ![r] = [callers[c].state EXCEPT !.status = "stopped"]]
    /\ stale' = (callers[c].state # rows[r])
    /\ CallerAt(c, Answered(r))
    /\ UNCHANGED <<made, round, ticks, ended, fills, restarts>>

\* Everything but the rows is in the gateway's memory.
RestartGateway ==
    /\ restarts < MaxRestarts /\ restarts' = restarts + 1
    /\ round' = NoRound /\ ticks' = {} /\ ended' = {}
    /\ callers' = [c \in Callers |-> IF callers[c] = NotCalled THEN NotCalled ELSE Answered(callers[c].run)]
    /\ UNCHANGED <<rows, made, fills, stale>>

TickStep(t) ==
    \/ PriceHoldings(t) \/ WaitForFeeds(t) \/ JudgeBook(t) \/ EndThought(t)
    \/ FinishTick(t) \/ LandTick(t) \/ FailTick(t)
    \/ \E k \in Tokens :
        \/ \E usdc \in Quotes : SellExit(t, k, usdc)
        \/ ExitCouldNotSell(t, k)
        \/ \E usdc \in Spends, received \in Received : AskToBuy(t, k, usdc, received)
        \/ \E amount \in 1 .. t.state.held[k].amount, usdc \in Quotes : AskToSell(t, k, amount, usdc)

TraderNext ==
    \/ ReadRound
    \/ StartTicks
    \/ \E t \in ticks : TickStep(t)
    \/ \E c \in Callers :
        \/ \E r \in Runs : BeginRun(c, r)
        \/ MakeRow(c) \/ FirstTick(c)
        \/ ReadToEnd(c) \/ MarkEnded(c) \/ SaveStopped(c)
    \/ RestartGateway

TraderSpec == TraderInit /\ [][TraderNext]_traderVars

-----------------------------------------------------------------------------
(* What the trader promises.                                               *)

(* The book records in exact amounts, and nothing drifts through rounding  *)
(* over hundreds of trades (book.ts:4-8): in every state that is kept or   *)
(* ticking, its cash and what its holdings cost are what it started with   *)
(* and what it realised.                                                   *)
BookAddsUp ==
    \A s \in {rows[r] : r \in Rows} \cup {t.state : t \in ticks} :
        s.cash + Costs(s) = StartCash + s.realized

(* Saved after every tick, so a restart carries on where it was            *)
(* (trader-runner.ts:5-6): no save takes back a fill or a pause that was   *)
(* saved before it, unless it was made from a state that was not the row's *)
(* any more when it was handed out, or the run was being ended meanwhile.  *)
SavedTicksAreKept ==
    [][\A r \in Rows :
        \/ rows[r].fills \subseteq rows'[r].fills
           /\ (rows[r].status = "paused" => rows'[r].status # "running")
        \/ stale']_traderVars

(* A run that was stopped while a tick was in flight is not brought back to*)
(* life by that tick's save (trader-runner.ts:58), unless the save was on  *)
(* its way already when the run was marked.                                *)
EndedStaysEnded ==
    [][\A r \in Rows :
        rows[r].status = "stopped" /\ rows'[r].status # "stopped"
            => \E t \in ticks : t.run = r /\ t.crossed /\ t \notin ticks']_traderVars

(* "Only one runs at a time per owner." (trader-runner.ts:150)             *)
OneRunPerOwner == Cardinality(Running) <= 1
=============================================================================
