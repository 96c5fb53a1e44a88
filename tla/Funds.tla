------------------------------- MODULE Funds -------------------------------
(***************************************************************************)
(* One machine's money where the chain keeps it: the trading account, the  *)
(* vault beside it and its owner's wallet.  Trades move it, profit above   *)
(* the float is swept into the vault (services/signer/src/sweep.ts) because*)
(* the orchestrator asks now and then                                      *)
(* (services/orchestrator/src/bank-profit.ts), and an owner takes          *)
(* everything home (services/signer/src/withdraw-everything.ts), or some   *)
(* of its SOL (withdraw.ts).                                               *)
(*                                                                         *)
(* What a sweep moves is decided from a balance read off the chain and a   *)
(* record read after it, with no lock against the trades and the transfers *)
(* of the meantime.  A transfer is written down, signed, sent and asked    *)
(* about one await at a time; the signer and the orchestrator may die      *)
(* between any two.                                                        *)
(*                                                                         *)
(* A trade buys one token for one unit, or sells one.  What the chain says *)
(* of a signature is the truth here; Confirm is about how it is read.      *)
(***************************************************************************)
EXTENDS Integers, FiniteSets

CONSTANTS
    Buys,           \* trade ids, by what the trade does
    Sells,
    Sweeps,         \* sweep ids
    Withdrawals,    \* requests to take everything, or some SOL, home
    Handlers,       \* requests the signer may be working on at once
    Target,         \* the float: what the owner granted
    Earned,         \* profit the machine may have made before
    Proceeds,       \* what selling one token may bring home
    MaxFaults,      \* bound: crashes of the signer or the orchestrator, and calls that throw
    Nothing

(* Taking everything home is a transaction for each account it empties,    *)
(* and one for the SOL, which is the same as a withdrawal of SOL alone.    *)
SolSteps == Withdrawals \X {"sol"}
Steps == Withdrawals \X {"vault", "trading"} \cup SolSteps
Transfers == Sweeps \cup Steps
Trades == Buys \cup Sells

ASSUME FundsAssumption ==
    /\ Target \in Nat \ {0} /\ Earned \subseteq Nat /\ Proceeds \subseteq Nat
    /\ MaxFaults \in Nat
    /\ Sweeps \cap Steps = {} /\ Nothing \notin Transfers

VARIABLES
    lifecycle,      \* running, paused or stopped
    leased,         \* whether a run of the machine is leased to a node
    trade,          \* what became of each trade
    bal,            \* the chain: the budget's currency in each account, and the SOL to spare
    tokens,         \* the chain: bought tokens the trading account holds
    transfer,       \* what the record says of each transfer
    chain,          \* what the chain knows of each transfer's transaction
    handler,        \* what each request in the signer is at
    banker,         \* what the orchestrator's loop is at
    swept,          \* history: what sweeps moved, and the most the trades ever earned
    faults

fundsVars == <<lifecycle, leased, trade, bal, tokens, transfer, chain, handler, banker, swept, faults>>

FaultLeft == faults.signer + faults.orchestrator < MaxFaults

Free == [pc |-> "free", on |-> Nothing, holding |-> 0]
Unasked == [asked |-> FALSE, amount |-> 0, tokens |-> 0, submitted |-> FALSE, ended |-> "no"]
Resting == [pc |-> "resting", sweep |-> Nothing]

FundsTypeOK ==
    /\ lifecycle \in {"running", "paused", "stopped"}
    /\ leased \in BOOLEAN
    /\ \A t \in Trades : trade[t] \in {"none", "open", "landed", "completed", "failed"}
    /\ \A a \in {"trading", "vault", "sol"} : bal[a] \in Nat
    /\ tokens \in Nat
    /\ \A x \in Transfers :
          /\ transfer[x].ended \in {"no", "completed", "failed"}
          /\ transfer[x].submitted \/ transfer[x].ended # "no" => transfer[x].asked
          /\ chain[x] \in {"unknown", "sent", "landed", "broken", "expired"}
    /\ \A h \in Handlers :
          /\ handler[h].pc \in {"free", "measured", "emptying", "building", "signed", "waiting"}
          /\ handler[h].pc # "free" => handler[h].on \in Transfers
    /\ banker.pc \in {"resting", "asking", "asked"}

FundsInit ==
    /\ lifecycle = "running"
    /\ leased = FALSE
    /\ trade = [t \in Trades |-> "none"]
    /\ \E e \in Earned :
          /\ bal = [trading |-> Target + e, vault |-> 0, sol |-> 1]
          /\ swept = [moved |-> 0, earned |-> e, peak |-> e]
    /\ tokens = 0
    /\ transfer = [x \in Transfers |-> Unasked]
    /\ chain = [x \in Transfers |-> "unknown"]
    /\ handler = [h \in Handlers |-> Free]
    /\ banker = Resting
    /\ faults = [signer |-> 0, orchestrator |-> 0]

-----------------------------------------------------------------------------
(* Trades, as far as they touch the machine's money.                       *)

OpenTrades == {t \in Trades : trade[t] \in {"open", "landed"}}
Completed(some) == Cardinality({t \in some : trade[t] = "completed"})

\* machinePnl: what the record says is held, which is also what it cost at one unit a token.
Position == Completed(Buys) - Completed(Sells)

Lease == leased' = ~leased /\ (leased \/ lifecycle = "running")
         /\ UNCHANGED <<lifecycle, trade, bal, tokens, transfer, chain, handler, banker, swept, faults>>

(* A trade is intended under a lease, by a machine that is running and has *)
(* something to sell or a budget to buy with.                              *)
Intend(t) ==
    /\ leased /\ lifecycle = "running"
    /\ trade[t] = "none"
    /\ IF t \in Sells THEN Position > 0
       ELSE Position + Cardinality(OpenTrades \cap Buys) < Target
    /\ trade' = [trade EXCEPT ![t] = "open"]
    /\ UNCHANGED <<lifecycle, leased, bal, tokens, transfer, chain, handler, banker, swept, faults>>

Peak(earned) == IF earned > swept.peak THEN earned ELSE swept.peak

(* The trade's transaction lands, if the account can pay for it.  It may do*)
(* so long after the run that asked for it was let go.                     *)
LandTrade(t) ==
    /\ trade[t] = "open"
    /\ trade' = [trade EXCEPT ![t] = "landed"]
    /\ \/ /\ t \in Buys /\ bal["trading"] >= 1
          /\ bal' = [bal EXCEPT !["trading"] = @ - 1]
          /\ tokens' = tokens + 1
          /\ UNCHANGED swept
       \/ /\ t \in Sells /\ tokens >= 1
          /\ tokens' = tokens - 1
          /\ \E got \in Proceeds :
                /\ bal' = [bal EXCEPT !["trading"] = @ + got]
                /\ swept' = [swept EXCEPT !.earned = @ + got - 1, !.peak = Peak(swept.earned + got - 1)]
    /\ UNCHANGED <<lifecycle, leased, transfer, chain, handler, banker, faults>>

\* The signer writes down how it ended.
EndTrade(t) ==
    /\ t \in OpenTrades
    /\ trade' = [trade EXCEPT ![t] = IF @ = "landed" THEN "completed" ELSE "failed"]
    /\ UNCHANGED <<lifecycle, leased, bal, tokens, transfer, chain, handler, banker, swept, faults>>

\* The owner, through the lifecycle's table.
Owner(to) ==
    /\ \/ lifecycle = "running" /\ to \in {"paused", "stopped"}
       \/ lifecycle = "paused" /\ to \in {"running", "stopped"}
    /\ lifecycle' = to
    /\ UNCHANGED <<leased, trade, bal, tokens, transfer, chain, handler, banker, swept, faults>>

-----------------------------------------------------------------------------
(* The orchestrator's loop.                                                *)

\* openSweepIn: sent and not written down as finished.
OpenSweeps == {x \in Sweeps : transfer[x].submitted /\ transfer[x].ended = "no"}
Unused == {x \in Sweeps : ~transfer[x].asked /\ \A h \in Handlers : handler[h].on # x}

\* Variant: every machine is asked about under a new id.
NeverResumed == {}
SweepToResume == OpenSweeps

(* The interval is longer than a transaction stays valid and than any call *)
(* to the signer is waited for.                                            *)
IntervalOver ==
    /\ \A x \in Transfers : chain[x] # "sent"
    /\ \A h \in Handlers : handler[h].on \notin Sweeps

(* sweepCandidates: the machine is running or paused and no run of it is   *)
(* leased.  Its open sweep is picked by id; a new one gets a new id.       *)
Candidate ==
    /\ banker.pc = "resting"
    /\ lifecycle \in {"running", "paused"} /\ ~leased
    /\ \E x \in IF SweepToResume # {} THEN SweepToResume ELSE Unused :
          banker' = [pc |-> "asking", sweep |-> x]
    /\ UNCHANGED <<lifecycle, leased, trade, bal, tokens, transfer, chain, handler, swept, faults>>

(* The request reaches the signer: a sweep with a signature is finished,   *)
(* any other is worked out, from the balance read off the chain.  Machines *)
(* are asked about one after the other, so much may have happened since it *)
(* was picked.                                                             *)
Ask(h) ==
    /\ banker.pc = "asking"
    /\ handler[h].pc = "free"
    /\ handler' = [handler EXCEPT ![h] =
          IF transfer[banker.sweep].submitted
          THEN [pc |-> "waiting", on |-> banker.sweep, holding |-> 0]
          ELSE [pc |-> "measured", on |-> banker.sweep, holding |-> bal["trading"]]]
    /\ banker' = [banker EXCEPT !.pc = "asked"]
    /\ UNCHANGED <<lifecycle, leased, trade, bal, tokens, transfer, chain, swept, faults>>

\* The answer, or the timeout, and the interval: the next look is after both.
Rest ==
    /\ banker.pc = "asked"
    /\ IntervalOver
    /\ banker' = Resting
    /\ UNCHANGED <<lifecycle, leased, trade, bal, tokens, transfer, chain, handler, swept, faults>>

\* The orchestrator dies.  It looks again the moment it is back.
RestartOrchestrator ==
    /\ banker.pc # "resting"
    /\ FaultLeft
    /\ faults' = [faults EXCEPT !.orchestrator = @ + 1]
    /\ banker' = Resting
    /\ UNCHANGED <<lifecycle, leased, trade, bal, tokens, transfer, chain, handler, swept>>

-----------------------------------------------------------------------------
(* The signer, deciding.                                                   *)

\* Variant: a machine with a position, or a trade in flight, is swept too.
EvenExposed == TRUE

\* Nothing bought and not sold, and no trade in flight, by the record.
Flat == Position = 0 /\ OpenTrades = {}

Surplus(holding) == holding + Position - Target

\* floatOf and sweepDue: decided and written down, or nothing is due and nothing is written.
Decide(h) ==
    LET x == handler[h].on  due == Flat /\ Surplus(handler[h].holding) > 0 IN
    /\ handler[h].pc = "measured"
    /\ transfer' = IF due
                   THEN [transfer EXCEPT ![x].asked = TRUE, ![x].amount = Surplus(handler[h].holding)]
                   ELSE transfer
    /\ handler' = [handler EXCEPT ![h] = IF due THEN [@ EXCEPT !.pc = "building", !.holding = 0] ELSE Free]
    /\ UNCHANGED <<lifecycle, leased, trade, bal, tokens, chain, banker, swept, faults>>

-----------------------------------------------------------------------------
(* The signer, taking everything home: the vault first, then the trading   *)
(* account, then the SOL, each read when its turn comes.                   *)

\* mustBeSettled, in the orchestrator.
Settled == lifecycle # "running"

NewRequest(h, w) ==
    /\ Settled
    /\ handler[h].pc = "free"
    /\ \A x \in Steps, g \in Handlers : x[1] = w => ~transfer[x].asked /\ handler[g].on # x

WithdrawEverything(h, w) ==
    /\ NewRequest(h, w)
    /\ handler' = [handler EXCEPT ![h] = [pc |-> "emptying", on |-> <<w, "vault">>, holding |-> 0]]
    /\ UNCHANGED <<lifecycle, leased, trade, bal, tokens, transfer, chain, banker, swept, faults>>

\* withdrawFunds: an amount of SOL by name, written down without reading what there is.
WithdrawFunds(h, w) ==
    LET x == <<w, "sol">> IN
    /\ NewRequest(h, w)
    /\ transfer' = [transfer EXCEPT ![x].asked = TRUE, ![x].amount = 1]
    /\ handler' = [handler EXCEPT ![h] = [pc |-> "building", on |-> x, holding |-> 0]]
    /\ UNCHANGED <<lifecycle, leased, trade, bal, tokens, chain, banker, swept, faults>>

NextAccount == [vault |-> "trading", trading |-> "sol"]

After(x) ==
    IF x[2] = "sol" THEN Free
    ELSE [pc |-> "emptying", on |-> <<x[1], NextAccount[x[2]]>>, holding |-> 0]

\* Everything in the account, written down; an empty account is passed over.
Empty(h) ==
    LET x == handler[h].on
        held == IF x[2] = "trading" THEN tokens ELSE 0 IN
    /\ handler[h].pc = "emptying"
    /\ IF bal[x[2]] + held = 0
       THEN handler' = [handler EXCEPT ![h] = After(x)] /\ UNCHANGED transfer
       ELSE /\ transfer' = [transfer EXCEPT ![x].asked = TRUE, ![x].amount = bal[x[2]], ![x].tokens = held]
            /\ handler' = [handler EXCEPT ![h].pc = "building"]
    /\ UNCHANGED <<lifecycle, leased, trade, bal, tokens, chain, banker, swept, faults>>

-----------------------------------------------------------------------------
(* The signer, sending: submitOnce.                                        *)

\* The bytes do not match the decision, or could not be made.
BuildFails(h) ==
    /\ handler[h].pc = "building"
    /\ FaultLeft
    /\ faults' = [faults EXCEPT !.signer = @ + 1]
    /\ transfer' = [transfer EXCEPT ![handler[h].on].ended = "failed"]
    /\ handler' = [handler EXCEPT ![h] = Free]
    /\ UNCHANGED <<lifecycle, leased, trade, bal, tokens, chain, banker, swept>>

\* Signed, and the signature in the record before anything is sent.
Submit(h) ==
    /\ handler[h].pc = "building"
    /\ transfer' = [transfer EXCEPT ![handler[h].on].submitted = TRUE]
    /\ handler' = [handler EXCEPT ![h].pc = "signed"]
    /\ UNCHANGED <<lifecycle, leased, trade, bal, tokens, chain, banker, swept, faults>>

\* A send that throws may have arrived all the same, so the chain is asked either way.
Send(h) ==
    LET x == handler[h].on IN
    /\ handler[h].pc = "signed"
    /\ \/ chain' = [chain EXCEPT ![x] = IF @ = "unknown" THEN "sent" ELSE @]
       \/ UNCHANGED chain
    /\ handler' = [handler EXCEPT ![h].pc = "waiting"]
    /\ UNCHANGED <<lifecycle, leased, trade, bal, tokens, transfer, banker, swept, faults>>

\* Variant: an answer that did not come is a failure.
SilenceIsFailure(x, answer) == IF answer = "landed" THEN "completed" ELSE "failed"

\* Variant: an answer that did not come is an end of its own.
SilenceIsAnEnd(x, answer) == IF answer = "landed" THEN "completed"
                             ELSE IF answer \in {"broken", "expired"} THEN "failed" ELSE "unresolved"

(* Landed is completed; broken or expired is failed; silence leaves it     *)
(* open, but for a withdrawal of SOL, which is then written down as failed.*)
Outcome(x, answer) ==
    CASE answer = "landed" -> "completed"
      [] answer \in {"broken", "expired"} \/ (x \in SolSteps /\ answer # "landed") -> "failed"
      [] OTHER -> "no"

\* What the chain says, written down: the request ends, or goes on to the next account.
Answer(h) ==
    LET x == handler[h].on IN
    /\ handler[h].pc = "waiting"
    /\ transfer' = [transfer EXCEPT ![x].ended = Outcome(x, chain[x])]
    /\ handler' = [handler EXCEPT ![h] = IF x \in Steps /\ chain[x] = "landed" THEN After(x) ELSE Free]
    /\ UNCHANGED <<lifecycle, leased, trade, bal, tokens, chain, banker, swept, faults>>

\* The request ends where it is: a call threw, or the signer died.
Lose(h) ==
    /\ handler[h].pc # "free"
    /\ FaultLeft
    /\ faults' = [faults EXCEPT !.signer = @ + 1]
    /\ handler' = [handler EXCEPT ![h] = Free]
    /\ UNCHANGED <<lifecycle, leased, trade, bal, tokens, transfer, chain, banker, swept>>

-----------------------------------------------------------------------------
(* The chain.                                                              *)

(* A checked transfer needs the amount to be there.  A withdrawal of tokens*)
(* also closes the account, which works only when nothing is left in it.   *)
Source(x) == IF x \in Sweeps THEN "trading" ELSE x[2]

Sound(x) ==
    /\ bal[Source(x)] >= transfer[x].amount
    /\ x \in Steps \ SolSteps => bal[x[2]] = transfer[x].amount
    /\ x \in Withdrawals \X {"trading"} => tokens = transfer[x].tokens

\* What was read of the SOL may have gone in fees since.
MayBreak(x) == ~Sound(x) \/ x \in SolSteps

\* Sent home, money has left the machine.
Land(x) ==
    LET paid == [bal EXCEPT ![Source(x)] = @ - transfer[x].amount] IN
    /\ chain[x] = "sent"
    /\ \/ /\ Sound(x)
          /\ chain' = [chain EXCEPT ![x] = "landed"]
          /\ bal' = IF x \in Sweeps THEN [paid EXCEPT !["vault"] = @ + transfer[x].amount] ELSE paid
          /\ tokens' = tokens - transfer[x].tokens
          /\ swept' = IF x \in Sweeps THEN [swept EXCEPT !.moved = @ + transfer[x].amount] ELSE swept
       \/ /\ MayBreak(x)
          /\ chain' = [chain EXCEPT ![x] = "broken"]
          /\ UNCHANGED <<bal, tokens, swept>>
    /\ UNCHANGED <<lifecycle, leased, trade, transfer, handler, banker, faults>>

\* The blockhash it was signed under is too old, and it is in no block.
Expire(x) ==
    /\ transfer[x].submitted /\ chain[x] \in {"unknown", "sent"}
    /\ chain' = [chain EXCEPT ![x] = "expired"]
    /\ UNCHANGED <<lifecycle, leased, trade, bal, tokens, transfer, handler, banker, swept, faults>>

SignerStep(h) == Decide(h) \/ Empty(h) \/ Submit(h) \/ Send(h) \/ Answer(h)

FundsNext ==
    \/ Lease
    \/ \E t \in Trades : LandTrade(t) \/ EndTrade(t) \/ Intend(t)
    \/ \E to \in {"running", "paused", "stopped"} : Owner(to)
    \/ Candidate \/ Rest \/ RestartOrchestrator
    \/ \E h \in Handlers :
        \/ Ask(h)
        \/ SignerStep(h)
        \/ BuildFails(h)
        \/ Lose(h)
        \/ \E w \in Withdrawals : WithdrawEverything(h, w) \/ WithdrawFunds(h, w)
    \/ \E x \in Transfers : Land(x) \/ Expire(x)

FundsSpec == FundsInit /\ [][FundsNext]_fundsVars

(* Services that stay up and a chain that goes on: a sent transaction lands*)
(* or expires, the loop comes round, and a machine is not leased at every  *)
(* look.                                                                   *)
TimelyFunds ==
    /\ FundsSpec
    /\ SF_fundsVars(Candidate) /\ WF_fundsVars(Rest)
    /\ WF_fundsVars(Lease /\ leased)
    /\ WF_fundsVars(\E h \in Handlers : Ask(h))
    /\ \A h \in Handlers : WF_fundsVars(SignerStep(h))
    /\ \A x \in Transfers : WF_fundsVars(Land(x) \/ Expire(x))

-----------------------------------------------------------------------------
(* What banking and withdrawing promise.                                   *)

(* The same profit is never banked twice (bank-profit.ts:8-16), so the     *)
(* stake is never swept: what has moved into the vault is never more than  *)
(* the trades ever earned, whichever trades and transfers came between the *)
(* reading of the balance and the landing.                                 *)
NeverBankedTwice == swept.moved <= swept.peak

\* The same, of an orchestrator that stays up.
BankedOnceWhileUp == faults.orchestrator = 0 => NeverBankedTwice

(* A transfer is written down before it can move anything, as completed    *)
(* only when it landed, and as failed only when it never will; silence     *)
(* leaves it open (sweep.ts:20-22).  Of SOL the denial is not promised.    *)
TransfersAreTrue ==
    \A x \in Transfers :
        /\ transfer[x].ended = "completed" => chain[x] = "landed"
        /\ transfer[x].ended = "failed" /\ transfer[x].submitted /\ x \notin SolSteps
              => chain[x] \in {"broken", "expired"}
        /\ chain[x] \in {"sent", "landed", "broken"} => transfer[x].submitted

(* "Unresolved is not the same as failed, and an owner is told which. The  *)
(* money may still move" (withdraw.ts:196): where the record says that a   *)
(* withdrawal of SOL failed, the SOL has not gone.                         *)
FailedSolStays == \A x \in SolSteps : transfer[x].ended = "failed" => chain[x] # "landed"

(* A sweep that went out is finished, unless the owner stops the machine:  *)
(* the loop asks about it by its id until the chain has answered.          *)
SweepsAreFinished ==
    \A x \in Sweeps : x \in OpenSweeps ~> x \notin OpenSweeps \/ lifecycle = "stopped"
=============================================================================
