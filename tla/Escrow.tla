------------------------------- MODULE Escrow -------------------------------
(***************************************************************************)
(* What the trade path promises about a machine's money, with nothing about*)
(* how: a trade's money is set aside before anything can be sent, at most  *)
(* Capacity trades' money is set aside or spent at a time, and money that  *)
(* was set aside comes back only while nothing can have been sent, or once *)
(* what was sent is dead.                                                  *)
(*                                                                         *)
(* Money is counted in trades: each costs one unit, and Capacity is the    *)
(* number of trades the owner's grant can pay for.                         *)
(***************************************************************************)
EXTENDS Naturals, FiniteSets

CONSTANTS
    Trades,         \* trade ids
    Capacity        \* budgetGranted, in trades

\* What the theorems take for granted; TradePath's own assumption includes it.
EscrowAssumption == IsFiniteSet(Trades) /\ Capacity \in Nat

VARIABLES
    stage,          \* where each trade's money is
    chain           \* what has become of each trade's transaction

escrowVars == <<stage, chain>>

Stage == {"none", "held", "out", "paid", "freed"}
Fate == {"unsent", "pending", "landed", "dead"}

EscrowTypeOK == stage \in [Trades -> Stage] /\ chain \in [Trades -> Fate]

\* Money that is not the machine's to use again: set aside, in flight or spent.
Committed == {t \in Trades : stage[t] \in {"held", "out", "paid"}}

EscrowInit ==
    /\ stage = [t \in Trades |-> "none"]
    /\ chain = [t \in Trades |-> "unsent"]

Move(t, from, to) ==
    /\ stage[t] = from
    /\ stage' = [stage EXCEPT ![t] = to]
    /\ UNCHANGED chain

(* Two trades cannot both get the same money: the reservation is what      *)
(* decides.                                                                *)
SetAside(t) == Cardinality(Committed) < Capacity /\ Move(t, "none", "held")

\* The transaction has a signature, so from here on it may be sent.
LetGo(t) == Move(t, "held", "out")

\* The chain: it arrives, lands, or can never land any more.
Happen(t, from, to) ==
    /\ chain[t] \in from
    /\ stage[t] = "out"
    /\ chain' = [chain EXCEPT ![t] = to]
    /\ UNCHANGED stage

Arrive(t) == Happen(t, {"unsent"}, "pending")
Land(t) == Happen(t, {"pending"}, "landed")
Die(t) == Happen(t, {"unsent", "pending"}, "dead")

\* Only what landed is paid for.
Pay(t) == chain[t] = "landed" /\ Move(t, "out", "paid")

\* The money comes back when nothing was signed, or what was signed is dead.
Free(t) ==
    \/ Move(t, "held", "freed")
    \/ chain[t] = "dead" /\ Move(t, "out", "freed")

EscrowNext ==
    \E t \in Trades :
        SetAside(t) \/ LetGo(t) \/ Arrive(t) \/ Land(t) \/ Die(t) \/ Pay(t) \/ Free(t)

(* Most steps of what implements it leave the money alone, so that is the  *)
(* first thing to look at.                                                 *)
EscrowSpec == EscrowInit /\ [][UNCHANGED escrowVars \/ EscrowNext]_escrowVars

-----------------------------------------------------------------------------
(* The machine never has more money committed than its owner granted       *)
(* (product.ts:146, "the machine cannot go over it").                      *)
WithinGrant == Cardinality(Committed) <= Capacity

(* A transaction that can land, or has, is one whose money is committed:   *)
(* no spend nobody knows of (ledger.ts:52-54), at most Capacity of them.   *)
SpendsAreKnown ==
    /\ \A t \in Trades : chain[t] \in {"pending", "landed"} => stage[t] \in {"out", "paid"}
    /\ Cardinality({t \in Trades : chain[t] \in {"pending", "landed"}}) <= Capacity
=============================================================================
