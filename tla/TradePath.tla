----------------------------- MODULE TradePath -----------------------------
(***************************************************************************)
(* A trade, from the node that wants it to the chain that executes it.     *)
(*                                                                         *)
(* A node holding a run proposes a trade once (machine-runner.ts).  The    *)
(* orchestrator asks whether the node holds the run (propose-route.ts) and *)
(* forwards the proposal to the signer, whose layers are, outermost first, *)
(* the halt, the rules and the budget (compose.ts); inside them the trade  *)
(* is signed, written down, sent and asked about (chain-signer.ts,         *)
(* submit-once.ts).  Every step of a proposal is a step of its own, because*)
(* every one awaits the database, the wallet provider or the chain, and    *)
(* anything may happen between two of them: the lease lapses and the run   *)
(* is given away, the owner pauses the machine, a halt is engaged, the     *)
(* signer or the node dies, another proposal of the machine moves on.      *)
(*                                                                         *)
(* The queue of runs and its leases is module Leases.  All runs belong to  *)
(* one machine, whose row the signer locks.  Each trade costs one unit of  *)
(* budget and all of them buy.  The record is replayed in the order it was *)
(* written.                                                                *)
(***************************************************************************)
EXTENDS Leases

CONSTANTS
    Trades,         \* trade ids, each made by one proposal of a node
    NoTrade,        \* the node has proposed nothing on its run
    Answered,       \* the node has its answer, or has given up waiting for it
    Capacity,       \* budgetGranted, in trades
    DailyCap,       \* maxPerDay, in trades
    MaxAttempts     \* bound: how often one proposal can reach the signer

ASSUME TradePathAssumption ==
    /\ NoTrade \notin Trades /\ Answered \notin Trades /\ NoTrade # Answered
    /\ IsFiniteSet(Trades)
    /\ Capacity \in Nat /\ DailyCap \in Nat
    /\ MaxAttempts \in Nat \ {0}

VARIABLES
    asked,      \* what each node is waiting for
    req,        \* each request at the signer: where it is, and who proposed it
    machine,    \* the machine's state, as the record says
    halted,     \* a halt is in force
    facts,      \* the machine's trade events in the record
    signature,  \* which attempt's signature the record has for a trade
    open,       \* trades that hold budget
    paid,       \* trades that settled
    tx          \* what the chain knows of each attempt's transaction

tradeVars == <<asked, req, machine, halted, facts, signature, open, paid, tx>>
tradePathVars == <<vars, tradeVars>>

Attempts == 1 .. MaxAttempts
Reqs == Trades \X Attempts
TradeOf(q) == q[1]

\* Where a request is.  From "submit" to "broken" and "refuseHeld" the budget layer holds money.
BeforeHold == {"halt", "rules", "afford", "pause", "refuse", "hold"}
Holding == {"submit", "sign", "record", "send", "confirm", "settle", "release", "refuseHeld"}
Handling == {"broken", "undo", "giveBack"}
Working == BeforeHold \cup Holding \cup Handling
Over == {"signed", "refused", "error"}

FactType == {"trade.intended", "trade.submitted", "trade.completed", "trade.failed",
             "trade.refused"}
TxState == {"none", "pending", "landed", "failed", "expired"}
Request == [pc : {"free"} \cup Working \cup Over, run : Runs \cup {NoRun},
            node : Nodes \cup {NoNode}, epoch : Nat]
NoRequest == [pc |-> "free", run |-> NoRun, node |-> NoNode, epoch |-> 0]

TradeTypeOK ==
    /\ TypeOK
    /\ asked \in [Nodes -> Trades \cup {NoTrade, Answered}]
    /\ req \in [Reqs -> Request]
    /\ \A q \in Reqs : req[q].pc # "free" => req[q].run \in Runs /\ req[q].node \in Nodes
    /\ machine \in {"running", "paused", "stopped"}
    /\ halted \in BOOLEAN
    /\ facts \subseteq [type : FactType, trade : Trades, epoch : Nat]
    /\ signature \in [Trades -> Attempts \cup {0}]
    /\ open \subseteq Trades
    /\ paid \subseteq Trades
    /\ tx \in [Reqs -> TxState]

TradeInit ==
    /\ Init
    /\ asked = [n \in Nodes |-> NoTrade]
    /\ req = [q \in Reqs |-> NoRequest]
    /\ machine = "running"
    /\ halted = FALSE
    /\ facts = {}
    /\ signature = [t \in Trades |-> 0]
    /\ open = {}
    /\ paid = {}
    /\ tx = [q \in Reqs |-> "none"]

-----------------------------------------------------------------------------
(* What the signer reads, and what the record takes.                       *)

RunOf(q) == run[req[q].run]

\* leaseFor with held: some node has the run.  Neither which one, nor whether its lease is over.
RunIsHeld(q) == RunOf(q).state = "leased"

\* appendEvent under the epoch leaseFor has just read: only the expiry can still refuse it.
Appendable(q) == RunIsHeld(q) /\ Fenced(req[q].run, RunOf(q).epoch)

Fact(type, q) == [type |-> type, trade |-> TradeOf(q), epoch |-> RunOf(q).epoch]

\* What the chain did is filed under no lease, so no epoch is asked of it.
ChainFact(type, t) == [type |-> type, trade |-> t, epoch |-> 0]

Recorded(type, t) == \E f \in facts : f.type = type /\ f.trade = t

\* machineBudget: what is left of the grant, counting what is held and what was spent.
Available == Capacity - Cardinality(open) - Cardinality(paid)

Goto(q, pc) == req' = [req EXCEPT ![q].pc = pc]

recordVars == <<machine, facts, signature, open, paid>>
outside == <<vars, asked, halted>>

-----------------------------------------------------------------------------
(* The node and the orchestrator.                                          *)

(* The node proposes, on a context it read while it held the run, however  *)
(* stale by now, and the orchestrator asks whether it still holds the run. *)
(* A node that does not is told it lost the lease, and nothing is recorded.*)
Propose(n, t, d) ==
    LET q == <<t, 1>> IN
    /\ node[n].phase = "running" /\ ~node[n].lost
    /\ asked[n] = NoTrade
    /\ req[q].pc = "free"
    /\ IF Holds(n, node[n].run, node[n].epoch, d)
       THEN /\ req' = [req EXCEPT ![q] = [pc |-> "halt", run |-> node[n].run,
                                          node |-> n, epoch |-> node[n].epoch]]
            /\ asked' = [asked EXCEPT ![n] = t]
       ELSE /\ asked' = [asked EXCEPT ![n] = Answered]
            /\ UNCHANGED req
    /\ UNCHANGED <<vars, halted, recordVars, tx>>

(* The same proposal reaches the signer once more.  Nothing in the services*)
(* sends it twice; submitOnce and recordSubmission say what happens if it  *)
(* is.                                                                     *)
Redeliver(t, k) ==
    /\ k > 1 /\ req[<<t, k>>].pc = "free" /\ req[<<t, k - 1>>].pc # "free"
    /\ req' = [req EXCEPT ![<<t, k>>] = [req[<<t, k - 1>>] EXCEPT !.pc = "halt"]]
    /\ UNCHANGED <<outside, recordVars, tx>>

\* The answer reaches the node that asked, or the node stops waiting for it.
HearOrGiveUp(n) ==
    /\ asked[n] \in Trades
    /\ asked' = [asked EXCEPT ![n] = Answered]
    /\ UNCHANGED <<vars, halted, req, recordVars, tx>>

\* A node that leaves its run starts the next one with nothing asked.
LeavesRun(n) == asked' = [asked EXCEPT ![n] = NoTrade]

LeaseStep(n, d) ==
    \/ \E r \in Runs : ClaimDueRun(n, r, d) \/ ClaimAnswerLost(n, r, d)
    \/ ReportStarted(n, d)
    \/ RenewLease(n, d)

\* A node reports its outcome only once its proposal, if it made one, is answered.
EndRun(n, type, d) == asked[n] \notin Trades /\ ReportEnd(n, type, d)

QueueOrNode ==
    \/ /\ \/ \E r \in Runs : QueueRun(r)
          \/ \E n \in Nodes, d \in Skew : LeaseStep(n, d)
          \/ Tick
       /\ UNCHANGED tradeVars
    \/ /\ \E n \in Nodes :
             /\ \/ \E type \in Final, d \in Skew : EndRun(n, type, d)
                \/ Forget(n)
             /\ LeavesRun(n)
       /\ UNCHANGED <<req, machine, halted, facts, signature, open, paid, tx>>

-----------------------------------------------------------------------------
(* The halt, and the rules.                                                *)

EngageHalt == ~halted /\ halted' = TRUE /\ UNCHANGED <<vars, asked, req, recordVars, tx>>
ReleaseHalt == halted /\ halted' = FALSE /\ UNCHANGED <<vars, asked, req, recordVars, tx>>

(* The owner's own actions.  They are not fenced, and stopped is final.    *)
OwnerActs ==
    /\ \/ machine = "running" /\ machine' \in {"paused", "stopped"}
       \/ machine = "paused" /\ machine' \in {"running", "stopped"}
    /\ UNCHANGED <<outside, req, facts, signature, open, paid, tx>>

\* Variant: the halt is looked up and the proposal let through.
CheckHaltOpen(q) ==
    /\ req[q].pc = "halt"
    /\ Goto(q, "rules")
    /\ UNCHANGED <<outside, recordVars, tx>>

CheckHalt(q) ==
    /\ req[q].pc = "halt"
    /\ Goto(q, IF halted THEN "refuse" ELSE "rules")
    /\ UNCHANGED <<outside, recordVars, tx>>

\* What checkTrade asks of the record's facts: a running machine, and the day's spending.
RulesAllow == machine = "running" /\ Cardinality(paid) < DailyCap

(* factsFor reads the record and then, by itself, the budget; the rules are*)
(* judged on both, whatever happens after they were read.  Any rule the    *)
(* model leaves out (tokens, prices, lateness, the simulation) may refuse, *)
(* some of them pausing the machine first.                                 *)
JudgeFacts(q) ==
    /\ req[q].pc = "rules"
    /\ \/ RunIsHeld(q) /\ RulesAllow /\ Goto(q, "afford")
       \/ Goto(q, "refuse")
       \/ RunIsHeld(q) /\ Goto(q, "pause")
    /\ UNCHANGED <<outside, recordVars, tx>>

\* The last rule: a budget that is used up pauses the machine.
JudgeBudget(q) ==
    /\ req[q].pc = "afford"
    /\ Goto(q, IF Available > 0 THEN "hold" ELSE "pause")
    /\ UNCHANGED <<outside, recordVars, tx>>

\* pauseMachine is a node's event, fenced like any other, and pauses only a running machine.
PauseMachine(q) ==
    /\ req[q].pc = "pause"
    /\ IF Appendable(q)
       THEN /\ machine' = IF machine = "running" THEN "paused" ELSE machine
            /\ Goto(q, "refuse")
       ELSE /\ Goto(q, "error")
            /\ UNCHANGED machine
    /\ UNCHANGED <<outside, facts, signature, open, paid, tx>>

\* trade.refused in the record releases whatever the trade holds.
WriteRefusal(q) ==
    /\ facts' = facts \cup {Fact("trade.refused", q)}
    /\ open' = open \ {TradeOf(q)}

(* recordRefusal by the halt and the rules.  Without a held run there is   *)
(* nothing to write it under, and the request fails instead.               *)
Refuse(q) ==
    /\ req[q].pc = "refuse"
    /\ IF Appendable(q)
       THEN WriteRefusal(q) /\ Goto(q, "refused")
       ELSE Goto(q, "error") /\ UNCHANGED <<facts, open>>
    /\ UNCHANGED <<outside, machine, signature, paid, tx>>

-----------------------------------------------------------------------------
(* The budget.                                                             *)

\* Variant: the budget the rules read, before the lock was taken, is believed.
CoveredByRules(q) == TRUE

\* Whether the budget read under the machine's lock covers the trade.
Covered(q) == Available > 0

\* trade.intended in the record holds the money, unless the trade holds some already.
WriteIntent(q) ==
    /\ facts' = facts \cup {Fact("trade.intended", q)}
    /\ open' = open \cup {TradeOf(q)}

(* hold.  A run nobody holds and a budget that cannot cover the trade are  *)
(* the same answer, a refusal by the budget that nothing records.          *)
Hold(q) ==
    /\ req[q].pc = "hold"
    /\ \/ /\ ~RunIsHeld(q) \/ ~Covered(q)
          /\ Goto(q, "refused")
          /\ UNCHANGED <<facts, open>>
       \/ /\ Covered(q) /\ Appendable(q)
          /\ WriteIntent(q)
          /\ Goto(q, "submit")
       \/ /\ RunIsHeld(q) /\ Covered(q) /\ ~Appendable(q)
          /\ Goto(q, "error")
          /\ UNCHANGED <<facts, open>>
    /\ UNCHANGED <<outside, machine, signature, paid, tx>>

\* Giving the money back writes trade.failed, whoever holds the run, and frees what is held.
WriteFailure(t) ==
    /\ facts' = facts \cup {ChainFact("trade.failed", t)}
    /\ open' = open \ {t}

(* giveBack, after a refusal or after something broke.  It asks for a held *)
(* run first, and fails without one: the money then stays held.            *)
GiveBack(q) ==
    /\ req[q].pc \in {"giveBack", "undo"}
    /\ IF RunIsHeld(q)
       THEN /\ WriteFailure(TradeOf(q))
            /\ Goto(q, IF req[q].pc = "giveBack" THEN "refused" ELSE "error")
       ELSE Goto(q, "error") /\ UNCHANGED <<facts, open>>
    /\ UNCHANGED <<outside, machine, signature, paid, tx>>

\* Variant: whatever broke, the money is given back.
NeverOut(q) == FALSE

\* Whether a trade whose signing broke may have gone out: it has a signature in the record.
MayBeOut(q) == signature[TradeOf(q)] # 0

(* Anything thrown below the budget ends here.  With a signature in the    *)
(* record the money stays held; without one it is given back.              *)
Broken(q) ==
    /\ req[q].pc = "broken"
    /\ Goto(q, IF MayBeOut(q) THEN "error" ELSE "undo")
    /\ UNCHANGED <<outside, recordVars, tx>>

-----------------------------------------------------------------------------
(* Signing and sending, at most once.                                      *)

(* The shape and the wallet are looked at, and the record is asked whether *)
(* the trade already has a signature: then nothing is signed again.        *)
Submit(q) ==
    /\ req[q].pc = "submit"
    /\ \/ Goto(q, "refuseHeld")
       \/ Goto(q, IF signature[TradeOf(q)] # 0 THEN "confirm" ELSE "sign")
    /\ UNCHANGED <<outside, recordVars, tx>>

\* Variant: the signed bytes go straight out, and are never written down.
SignThenSend(q) ==
    /\ req[q].pc = "sign"
    /\ Goto(q, "send") \/ Goto(q, "refuseHeld")
    /\ UNCHANGED <<outside, recordVars, tx>>

\* The provider signs, or refuses.
Sign(q) ==
    /\ req[q].pc = "sign"
    /\ Goto(q, "record") \/ Goto(q, "refuseHeld")
    /\ UNCHANGED <<outside, recordVars, tx>>

\* A refusal by the signer's inside: recorded, and then answered with the money given back.
RefuseHeld(q) ==
    /\ req[q].pc = "refuseHeld"
    /\ IF Appendable(q)
       THEN WriteRefusal(q) /\ Goto(q, "giveBack")
       ELSE Goto(q, "broken") /\ UNCHANGED <<facts, open>>
    /\ UNCHANGED <<outside, machine, signature, paid, tx>>

\* Variant: the check is left to submitOnce, which asked before signing.
UnsignedEarlier(t) == TRUE

\* No other signature for this trade: what recordSubmission asks under the machine's lock.
Unsigned(t) == signature[t] = 0

(* The signature is written down before anything is sent.                  *)
RecordSubmission(q) ==
    /\ req[q].pc = "record"
    /\ IF Appendable(q) /\ Unsigned(TradeOf(q))
       THEN /\ facts' = facts \cup {Fact("trade.submitted", q)}
            /\ signature' = [signature EXCEPT ![TradeOf(q)] = q[2]]
            /\ Goto(q, "send")
       ELSE Goto(q, "broken") /\ UNCHANGED <<facts, signature>>
    /\ UNCHANGED <<outside, machine, open, paid, tx>>

\* Sending.  Whether it arrives or not, and whatever the node says, the chain is asked next.
Send(q) ==
    /\ req[q].pc = "send"
    /\ \/ tx[q] = "none" /\ tx' = [tx EXCEPT ![q] = "pending"]
       \/ UNCHANGED tx
    /\ Goto(q, "confirm")
    /\ UNCHANGED <<outside, recordVars>>

\* The transaction the record has a signature for.
Submitted(t) == <<t, signature[t]>>

(* Variant: no answer is taken for an expired transaction.                 *)
ConfirmBySilence(q) ==
    /\ req[q].pc = "confirm"
    /\ Goto(q, IF tx[Submitted(TradeOf(q))] = "landed" THEN "settle" ELSE "release")
    /\ UNCHANGED <<outside, recordVars, tx>>

(* confirmSignature.  Landed and expired are final when the proposed expiry*)
(* is the real one, which module Confirm shows.  Failed is taken as final  *)
(* too: a failure read in a block that is then replaced, which Confirm     *)
(* shows is believed, is left out here.  Unknown may be said at any time,  *)
(* and leaves the trade open.                                              *)
Confirm(q) ==
    /\ req[q].pc = "confirm"
    /\ \/ tx[Submitted(TradeOf(q))] = "landed" /\ Goto(q, "settle")
       \/ tx[Submitted(TradeOf(q))] \in {"failed", "expired"} /\ Goto(q, "release")
       \/ Goto(q, "signed")
    /\ UNCHANGED <<outside, recordVars, tx>>

\* The budget pays for a trade it still holds; a trade released before that costs it nothing.
Settle(q) ==
    LET t == TradeOf(q) IN
    /\ req[q].pc = "settle"
    /\ facts' = facts \cup {ChainFact("trade.completed", t)}
    /\ paid' = IF t \in open THEN paid \cup {t} ELSE paid
    /\ open' = open \ {t}
    /\ Goto(q, "signed")
    /\ UNCHANGED <<outside, machine, signature, tx>>

Release(q) ==
    /\ req[q].pc = "release"
    /\ WriteFailure(TradeOf(q))
    /\ Goto(q, "signed")
    /\ UNCHANGED <<outside, machine, signature, paid, tx>>

-----------------------------------------------------------------------------
(* What goes wrong, and the chain.                                         *)

\* Variant: whatever throws is failed, which is no state of a request.
AfterThrowFailed(pc) == "failed"

\* Variant: giving the money back is tried again when it fails.
AfterThrowAgain(pc) == IF pc \in Holding \cup Handling THEN "broken" ELSE "error"

\* Where a request goes when the call it awaits throws.
AfterThrow(pc) == IF pc \in Holding THEN "broken" ELSE "error"

(* A call throws: the database, the provider, the node or the chain's      *)
(* answer cannot be had.                                                   *)
Throw(q) ==
    /\ req[q].pc \in Working
    /\ Goto(q, AfterThrow(req[q].pc))
    /\ UNCHANGED <<outside, recordVars, tx>>

\* The signer dies with whatever it was doing; nothing picks its requests up again.
SignerCrash ==
    /\ \E q \in Reqs : req[q].pc \in Working
    /\ faults < MaxFaults
    /\ faults' = faults + 1
    /\ req' = [q \in Reqs |->
                 IF req[q].pc \in Working THEN [req[q] EXCEPT !.pc = "error"] ELSE req[q]]
    /\ UNCHANGED <<run, node, reports, granted, asked, halted, recordVars, tx>>

\* A sent transaction lands, fails on chain or expires; one never sent can only expire.
ChainDecides(q) ==
    /\ \/ tx[q] = "pending" /\ \E s \in {"landed", "failed"} : tx' = [tx EXCEPT ![q] = s]
       \/ /\ tx[q] = "pending" \/ (tx[q] = "none" /\ signature[TradeOf(q)] = q[2])
          /\ tx' = [tx EXCEPT ![q] = "expired"]
    /\ UNCHANGED <<outside, req, recordVars>>

SignerStep(q) ==
    \/ CheckHalt(q) \/ JudgeFacts(q) \/ JudgeBudget(q) \/ PauseMachine(q) \/ Refuse(q)
    \/ Hold(q) \/ GiveBack(q) \/ Broken(q)
    \/ Submit(q) \/ Sign(q) \/ RefuseHeld(q) \/ RecordSubmission(q) \/ Send(q)
    \/ Confirm(q) \/ Settle(q) \/ Release(q)

TradeNext ==
    \/ QueueOrNode
    \/ \E n \in Nodes, t \in Trades, d \in Skew : Propose(n, t, d)
    \/ \E t \in Trades, k \in Attempts : Redeliver(t, k)
    \/ \E n \in Nodes : HearOrGiveUp(n)
    \/ EngageHalt \/ ReleaseHalt \/ OwnerActs
    \/ \E q \in Reqs : SignerStep(q) \/ Throw(q) \/ ChainDecides(q)
    \/ SignerCrash

TradeSpec == TradeInit /\ [][TradeNext]_tradePathVars

(* The signer is a live process: a request it works on moves on.  The chain*)
(* decides.  Nothing is assumed of nodes, owners or operators.             *)
LiveSignerSpec ==
    /\ TradeSpec
    /\ \A q \in Reqs : WF_tradePathVars(SignerStep(q)) /\ WF_tradePathVars(ChainDecides(q))

-----------------------------------------------------------------------------
(* What holds.                                                             *)

Live(q) == tx[q] \in {"pending", "landed"}

(* A transaction only ever goes out after its signature is in the record   *)
(* (submit-once.ts:88-90), and a trade goes out once, however often and    *)
(* however concurrently it is asked for (submit-once.ts:11-13).            *)
SentOnceAndRecorded ==
    \A q \in Reqs : tx[q] # "none" => signature[TradeOf(q)] = q[2]

(* The record never says of a trade that it did not happen while its       *)
(* transaction has landed or still can, nor that it happened when it did   *)
(* not (record.ts:151-154), whoever holds the run by then.                 *)
RecordTellsTheTruth ==
    \A q \in Reqs :
        /\ Recorded("trade.failed", TradeOf(q)) \/ Recorded("trade.refused", TradeOf(q))
               => ~Live(q)
        /\ signature[TradeOf(q)] = q[2] /\ Recorded("trade.completed", TradeOf(q))
               => tx[q] = "landed"

(* Money that has left or may still leave the wallet is held or settled in *)
(* the budget: a crash never leaves a spend nobody knows of (ledger.ts:52).*)
SpendsAreCovered ==
    \A q \in Reqs : Live(q) => TradeOf(q) \in open \cup paid

\* Where a trade's money is, as Escrow sees it, read from the record alone.
StageOf(t) ==
    IF Recorded("trade.completed", t) THEN "paid"
    ELSE IF Recorded("trade.failed", t) \/ Recorded("trade.refused", t)
    THEN IF Recorded("trade.intended", t) THEN "freed" ELSE "none"
    ELSE IF Recorded("trade.submitted", t) THEN "out"
    ELSE IF Recorded("trade.intended", t) THEN "held" ELSE "none"

FateOf(t) ==
    LET Seen(state) == \E k \in Attempts : tx[<<t, k>>] = state IN
    IF Seen("landed") THEN "landed"
    ELSE IF Seen("pending") THEN "pending"
    ELSE IF \A k \in Attempts : tx[<<t, k>>] = "none" THEN "unsent" ELSE "dead"

Purse == INSTANCE Escrow WITH
    stage <- [t \in Trades |-> StageOf(t)],
    chain <- [t \in Trades |-> FateOf(t)]

(* The halt, the rules, the lease fence, the budget and the chain together *)
(* keep a machine's money the way an escrow does.                          *)
KeepsEscrow == Purse!EscrowSpec

(* The budget rebuilt from the record is never more than the grant.        *)
NeverOverGrant == Purse!WithinGrant

(* Every proposal is answered, even when the node that made it is gone.    *)
EveryProposalAnswered == \A q \in Reqs : req[q].pc \in Working ~> req[q].pc \in Over

(* A proposal that reaches the signer while a halt is in force holds no    *)
(* money and is not signed for as long as the halt stays (halts.ts:48).    *)
HaltStopsWhatArrives ==
    \A q \in Reqs :
        [](halted /\ req[q].pc = "halt" => [](req[q].pc \notin Holding) \/ <>~halted)

-----------------------------------------------------------------------------
(* What the repository says of the program and the program does not do.    *)

(* runs.ts (schema):4, "The occurrence key is what stops the same buy      *)
(* happening twice."                                                       *)
OneBuyPerOccurrence ==
    \A q, p \in Reqs :
        tx[q] = "landed" /\ tx[p] = "landed" /\ req[q].run = req[p].run => q = p
=============================================================================
