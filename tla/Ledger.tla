------------------------------- MODULE Ledger -------------------------------
(***************************************************************************)
(* One machine's budget with its amounts: what its owner granted, what its *)
(* trades hold, spend and bring home (packages/db/src/ledger.ts), worked   *)
(* out again from the record every time somebody asks                      *)
(* (packages/runtime/src/machine-budget.ts, packages/rules/src/budget.ts). *)
(*                                                                         *)
(* The record has two orders.  Events become visible when their transaction*)
(* commits; they are replayed by occurred_at, which is when it began       *)
(* (packages/db/src/read-events.ts).  A transaction that waits for the     *)
(* machine's row commits after events that are replayed behind its own.    *)
(*                                                                         *)
(* The machine trades one pair.  A buy spends the budget's currency, a sale*)
(* brings it home.  Amounts are units of that currency.                    *)
(***************************************************************************)
EXTENDS Integers, Record

CONSTANTS
    Writers,        \* transactions that may be open at once: signers' and owners'
    Trades,         \* trade ids
    Amounts,        \* what a trade may spend or bring home
    Grants,         \* what an owner may grant
    FeeAllowance,   \* held on top of what a buy spends
    Fees,           \* what sending a trade may really cost
    MaxBegun,       \* bound: transactions begun, each at a moment of its own
    NoWriter,
    NoTrade

ASSUME LedgerAssumption ==
    /\ Amounts \subseteq Nat \ {0} /\ Grants \subseteq Nat \ {0}
    /\ FeeAllowance \in Nat /\ Fees \subseteq Nat /\ MaxBegun \in Nat \ {0}
    /\ NoWriter \notin Writers /\ NoTrade \notin Trades

VARIABLES
    now,            \* the database's clock
    record,         \* the machine's events, in the order they were committed
    lock,           \* who has the machine's row
    txn             \* what each writer's transaction is at

ledgerVars == <<now, record, lock, txn>>

Side == {"buy", "sell"}

(* An event's fields are read by its kind: amount is the new grant, what a *)
(* trade means to spend, or what it spent; got is what it brought home.    *)
Event(kind, at, trade, side, amount, got) ==
    [kind |-> kind, at |-> at, trade |-> trade, side |-> side, amount |-> amount, got |-> got]

Granted(at, amount) == Event("granted", at, NoTrade, "buy", amount, 0)
Intended(at, t, side, amount) == Event("intended", at, t, side, amount, 0)
Completed(at, t, side, spent, got) == Event("completed", at, t, side, spent, got)
Failed(at, t, side) == Event("failed", at, t, side, 0, 0)

-----------------------------------------------------------------------------
(* The budget, one event at a time.                                        *)

Larger(a, b) == IF a >= b THEN a ELSE b
Smaller(a, b) == IF a <= b THEN a ELSE b

NewBudget == [granted |-> 0, reserved |-> 0, settled |-> 0, held |-> {}]

Available(b) == b.granted - b.reserved - b.settled

\* The most a trade can cost the budget: a sale costs it nothing.
Wanted(side, amount) == IF side = "buy" THEN amount + FeeAllowance ELSE 0

HoldOf(b, t) == {h \in b.held : h.trade = t}

\* Variant: the new grant is taken as it is, whatever is committed already.
SetGrantAsAsked(b, to) == [b EXCEPT !.granted = to]

\* The owner may lower the grant, but not below what is committed.
SetGrant(b, to) == [b EXCEPT !.granted = Larger(to, b.reserved + b.settled)]

\* Holds what the trade could cost; a repeat, or one that does not fit, holds nothing.
Reserve(b, t, side, amount) ==
    LET wanted == Wanted(side, amount) IN
    IF HoldOf(b, t) # {} \/ wanted > Available(b) THEN b
    ELSE [b EXCEPT !.reserved = @ + wanted,
                   !.held = @ \cup {[trade |-> t, side |-> side, reserved |-> wanted]}]

\* Variant: what came home makes room without end.
CreditAll(b, got) == [b EXCEPT !.settled = @ - got]

\* Money that came home is the owner's again, and never more room than was granted.
Credit(b, got) == [b EXCEPT !.settled = Larger(@ - got, 0)]

LetGo(b, h) == [b EXCEPT !.reserved = @ - h.reserved, !.held = @ \ {h}]

\* What it really cost replaces what was held; costing more settles what was held.
Settle(b, h, spent, got) ==
    LET paid == [LetGo(b, h) EXCEPT !.settled = @ + Smaller(spent, h.reserved)] IN
    IF h.side = "sell" THEN Credit(paid, got) ELSE paid

\* Only a trade that holds something can end.
Apply(b, e) ==
    CASE e.kind = "granted"   -> SetGrant(b, e.amount)
      [] e.kind = "intended"  -> Reserve(b, e.trade, e.side, e.amount)
      [] OTHER ->
            IF HoldOf(b, e.trade) = {} THEN b
            ELSE LET h == CHOOSE h \in HoldOf(b, e.trade) : TRUE IN
                 IF e.kind = "completed" THEN Settle(b, h, e.amount, e.got) ELSE LetGo(b, h)

\* What machineBudget makes of events in the order it is given them.
Replay(events) == FoldLeft(Apply, NewBudget, events)

Budget == Replay(ReadEvents(record))

-----------------------------------------------------------------------------
(* The transactions.  What a writer may be asked to write: a trade's hold  *)
(* or a new grant.                                                         *)

IdsOf(kinds) == {e.trade : e \in {f \in ToSet(record) : f.kind \in kinds}}
Accepted == IdsOf({"intended"})
Ended == IdsOf({"completed", "failed"})
IntentOf(t) == CHOOSE e \in ToSet(record) : e.kind = "intended" /\ e.trade = t

Job == [kind : {"granted"}, at : Nat, trade : {NoTrade}, side : {"buy"}, amount : Grants, got : {0}]
       \cup [kind : {"intended"}, at : Nat, trade : Trades, side : Side, amount : Amounts, got : {0}]

NoTransaction == [phase |-> "idle", available |-> 0, job |-> Granted(0, 0)]

LedgerTypeOK ==
    /\ now \in 0 .. MaxBegun
    /\ lock \in Writers \cup {NoWriter}
    /\ \A w \in Writers :
          /\ txn[w].phase \in {"idle", "begun", "holding"}
          /\ txn[w].phase # "idle" => txn[w].job \in Job
          /\ lock = w <=> txn[w].phase = "holding"
    /\ \A i \in DOMAIN record :
          /\ record[i].kind \in {"granted", "intended", "completed", "failed"}
          /\ record[i].at \in 0 .. MaxBegun

\* A machine is created with its grant in the record.
LedgerInit ==
    /\ now = 1
    /\ \E g \in Grants : record = <<Granted(0, g)>>
    /\ lock = NoWriter
    /\ txn = [w \in Writers |-> NoTransaction]

Moment == now < MaxBegun /\ now' = now + 1

\* A transaction's moment is when it begins; it waits for the machine's row after that.
Begin(w, job) ==
    /\ txn[w].phase = "idle"
    /\ Moment
    /\ txn' = [txn EXCEPT ![w] = [phase |-> "begun", available |-> 0, job |-> job]]
    /\ UNCHANGED <<record, lock>>

(* A trade may be asked about again, before it is accepted or after:       *)
(* nothing asks whether it was.  It is the same trade every time.          *)
ReserveForTrade(w, t, side, amount) ==
    /\ \A e \in ToSet(record) \cup {txn[v].job : v \in Writers} :
          e.kind = "intended" /\ e.trade = t => e.side = side /\ e.amount = amount
    /\ Begin(w, Intended(now, t, side, amount))

Fund(w, amount) == Begin(w, Granted(now, amount))

\* Variant: the row is read without taking it.
RowIsThere == TRUE

\* select ... for update: one transaction per machine at a time.
RowIsFree == lock = NoWriter

(* The row is taken, and the budget read after it: everything committed by *)
(* now is in it, whoever began first.                                      *)
LockMachine(w) ==
    /\ txn[w].phase = "begun"
    /\ RowIsFree
    /\ lock' = w
    /\ txn' = [txn EXCEPT ![w].phase = "holding", ![w].available = Available(Budget)]
    /\ UNCHANGED <<now, record>>

\* The event and the end of the transaction, unless the trade does not fit what was read.
Write(w) ==
    LET job == txn[w].job IN
    /\ txn[w].phase = "holding"
    /\ record' = IF job.kind = "intended" /\ Wanted(job.side, job.amount) > txn[w].available
                 THEN record ELSE Append(record, job)
    /\ txn' = [txn EXCEPT ![w] = NoTransaction]
    /\ lock' = NoWriter
    /\ UNCHANGED now

\* The fence refuses, or the connection is lost: nothing is written and the row is let go.
RollBack(w) ==
    /\ txn[w].phase # "idle"
    /\ txn' = [txn EXCEPT ![w] = NoTransaction]
    /\ lock' = IF lock = w THEN NoWriter ELSE lock
    /\ UNCHANGED <<now, record>>

Open == Accepted \ Ended

(* What the chain did, written without the row.  Sending may have cost more*)
(* than the allowance.  A trade ends once: it has one signature.           *)
SettleTrade(t, fee, got) ==
    /\ t \in Open
    /\ Moment
    /\ LET i == IntentOf(t) IN
       record' = Append(record, IF i.side = "buy" THEN Completed(now, t, "buy", i.amount + fee, 0)
                                                  ELSE Completed(now, t, "sell", 0, got))
    /\ UNCHANGED <<lock, txn>>

ReleaseTrade(t) ==
    /\ t \in Open
    /\ Moment
    /\ record' = Append(record, Failed(now, t, IntentOf(t).side))
    /\ UNCHANGED <<lock, txn>>

LedgerNext ==
    \/ \E w \in Writers :
        \/ \E t \in Trades, side \in Side, amount \in Amounts : ReserveForTrade(w, t, side, amount)
        \/ \E amount \in Grants : Fund(w, amount)
        \/ LockMachine(w)
        \/ Write(w)
        \/ RollBack(w)
    \/ \E t \in Trades :
        \/ \E fee \in Fees, got \in Amounts : SettleTrade(t, fee, got)
        \/ ReleaseTrade(t)

LedgerSpec == LedgerInit /\ [][LedgerNext]_ledgerVars

-----------------------------------------------------------------------------
(* What the ledger promises.                                               *)

(* The three numbers belong together (budget.ts:4-8), whatever order the   *)
(* events are replayed in: what is reserved is what the unfinished trades  *)
(* hold, what is committed never exceeds the grant, and releasing never    *)
(* finds less reserved than it lets go, which would throw.                 *)
BudgetIsWhole ==
    \A n \in 1 .. Len(record) :
        LET b == Replay(ReadEvents(SubSeq(record, 1, n))) IN
        /\ b.reserved = MapThenSumSet(LAMBDA h : h.reserved, b.held)
        /\ b.settled >= 0
        /\ b.reserved + b.settled <= b.granted

(* Events whose order decides anything were begun in the order they were   *)
(* committed.  Two holds may change places: neither makes room.            *)
InOrder ==
    \A i, j \in DOMAIN record :
        i < j /\ record[j].at < record[i].at
            => record[i].kind = "intended" /\ record[j].kind = "intended"

(* A budget is only a limit if two trades cannot both spend the last of it *)
(* (ledger.ts:4-6): as long as the two orders agree, every trade that was  *)
(* accepted and has not ended is held by whoever reads the record later.   *)
AcceptedIsHeld ==
    InOrder => \A t \in Open : HoldOf(Budget, t) # {}

Spent(e) == IF e.kind = "completed" THEN e.amount - e.got ELSE 0
Overrun(e) ==
    IF e.kind = "completed" /\ e.side = "buy"
    THEN Larger(e.amount - Wanted("buy", IntentOf(e.trade).amount), 0) ELSE 0

(* The grant limits what may be deployed at once (budget.ts credit): over  *)
(* any stretch of the record, what really left the budget less what came   *)
(* home is within the grant, but for what sending cost over its allowance. *)
(* A profit is the owner's and not a wider mandate.                        *)
DeployedWithinGrant ==
    InOrder =>
        \A i \in DOMAIN record :
            MapThenSumSet(LAMBDA j : Spent(record[j]) - Overrun(record[j]), i .. Len(record)) <= Budget.granted
=============================================================================
