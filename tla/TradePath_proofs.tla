-------------------------- MODULE TradePath_proofs --------------------------
(***************************************************************************)
(* Proofs about TradePath, for every set of nodes, runs and trades, every  *)
(* grant, every interleaving, crash and throw, and every number of         *)
(* deliveries of one proposal; about its money, for one delivery.          *)
(***************************************************************************)
EXTENDS TradePath, Leases_proofs, FiniteSetTheorems

RequestOK ==
    /\ req \in [Reqs -> Request]
    /\ \A q \in Reqs : req[q].pc # "free" => req[q].run \in Runs /\ req[q].node \in Nodes

RecordOK ==
    /\ machine \in {"running", "paused", "stopped"}
    /\ facts \subseteq [type : FactType, trade : Trades, epoch : Nat]
    /\ signature \in [Trades -> Attempts \cup {0}]
    /\ open \subseteq Trades
    /\ paid \subseteq Trades

LEMMA TradeTypeParts ==
    TradeTypeOK <=> /\ TypeOK /\ RequestOK /\ RecordOK
                    /\ asked \in [Nodes -> Trades \cup {NoTrade, Answered}]
                    /\ halted \in BOOLEAN
                    /\ tx \in [Reqs -> TxState]
  BY DEF TradeTypeOK, RequestOK, RecordOK

-----------------------------------------------------------------------------
(* The step of a request at the signer.                                    *)

LEMMA RequestParts ==
    ASSUME NEW q \in Reqs PROVE TradeOf(q) \in Trades /\ q[2] \in Attempts
  BY DEF Reqs, TradeOf

(* A request only ever moves from one place of the pipeline to another.    *)
LEMMA StepGoesSomewhere ==
    ASSUME NEW q \in Reqs, SignerStep(q) \/ Throw(q)
    PROVE  /\ req[q].pc \in Working
           /\ \E pc \in Working \cup Over : Goto(q, pc)
  <1> USE DEF Working, BeforeHold, Holding, Handling, Over
  <1>1. ASSUME CheckHalt(q) \/ JudgeFacts(q) \/ JudgeBudget(q) \/ PauseMachine(q) \/ Refuse(q)
        PROVE  req[q].pc \in Working /\ \E pc \in Working \cup Over : Goto(q, pc)
    BY <1>1 DEF CheckHalt, JudgeFacts, JudgeBudget, PauseMachine, Refuse
  <1>2. ASSUME Hold(q) \/ GiveBack(q) \/ Broken(q)
        PROVE  req[q].pc \in Working /\ \E pc \in Working \cup Over : Goto(q, pc)
    BY <1>2 DEF Hold, GiveBack, Broken
  <1>3. ASSUME Submit(q) \/ Sign(q) \/ RefuseHeld(q) \/ RecordSubmission(q) \/ Send(q)
        PROVE  req[q].pc \in Working /\ \E pc \in Working \cup Over : Goto(q, pc)
    BY <1>3 DEF Submit, Sign, RefuseHeld, RecordSubmission, Send
  <1>4. ASSUME Confirm(q) \/ Settle(q) \/ Release(q) \/ Throw(q)
        PROVE  req[q].pc \in Working /\ \E pc \in Working \cup Over : Goto(q, pc)
    BY <1>4 DEF Confirm, Settle, Release, Throw, AfterThrow
  <1>5. QED
    BY <1>1, <1>2, <1>3, <1>4 DEF SignerStep

LEMMA WorkingIsNotFree == "free" \notin Working \cup Over
  BY DEF Working, BeforeHold, Holding, Handling, Over

LEMMA GotoRequestOK ==
    ASSUME RequestOK, NEW q \in Reqs, req[q].pc # "free",
           NEW pc \in Working \cup Over, Goto(q, pc)
    PROVE  RequestOK'
  <1>1. req' = [req EXCEPT ![q] = [req[q] EXCEPT !.pc = pc]]
    BY DEF Goto, RequestOK
  <1>2. /\ [req[q] EXCEPT !.pc = pc] \in Request
        /\ [req[q] EXCEPT !.pc = pc].run = req[q].run
        /\ [req[q] EXCEPT !.pc = pc].node = req[q].node
    BY DEF RequestOK, Request
  <1>3. req' \in [Reqs -> Request]
    BY <1>1, <1>2 DEF RequestOK
  <1>4. ASSUME NEW p \in Reqs, req'[p].pc # "free"
        PROVE  req'[p].run \in Runs /\ req'[p].node \in Nodes
    <2>1. CASE p = q
      BY <1>1, <1>2, <2>1 DEF RequestOK
    <2>2. CASE p # q
      BY <1>1, <1>4, <2>2 DEF RequestOK
    <2>3. QED
      BY <2>1, <2>2
  <1>5. QED
    BY <1>3, <1>4 DEF RequestOK

(* What a request may add to the record is an event of one of its trades.  *)
LEMMA FactsOK ==
    ASSUME TradeTypeOK, NEW q \in Reqs, req[q].pc # "free", NEW type \in FactType
    PROVE  /\ Fact(type, q) \in [type : FactType, trade : Trades, epoch : Nat]
           /\ ChainFact(type, TradeOf(q)) \in [type : FactType, trade : Trades, epoch : Nat]
  <1>1. TradeOf(q) \in Trades
    BY RequestParts
  <1>2. RunOf(q).epoch \in Nat
    BY DEF TradeTypeOK, TypeOK, RunOf, Row
  <1>3. QED
    BY <1>1, <1>2 DEF Fact, ChainFact

LEMMA StepTypeOK ==
    ASSUME TradeTypeOK, NEW q \in Reqs, SignerStep(q) \/ Throw(q)
    PROVE  TradeTypeOK'
  <1>1. /\ TypeOK /\ RequestOK /\ RecordOK
        /\ asked \in [Nodes -> Trades \cup {NoTrade, Answered}]
        /\ halted \in BOOLEAN
        /\ tx \in [Reqs -> TxState]
    BY TradeTypeParts
  <1>2. req[q].pc # "free" /\ RequestOK'
    BY <1>1, StepGoesSomewhere, WorkingIsNotFree, GotoRequestOK
  <1>3. TradeOf(q) \in Trades /\ q[2] \in Attempts
    BY RequestParts
  <1>4. UNCHANGED <<vars, asked, halted>>
    BY DEF SignerStep, Throw, CheckHalt, JudgeFacts, JudgeBudget, PauseMachine, Refuse, Hold,
       GiveBack,
       Broken, Submit, Sign, RefuseHeld, RecordSubmission, Send, Confirm, Settle, Release, outside
  <1>5. TypeOK' /\ asked' \in [Nodes -> Trades \cup {NoTrade, Answered}] /\ halted' \in BOOLEAN
    BY <1>1, <1>4 DEF vars, TypeOK
  <1>6. tx' \in [Reqs -> TxState]
    BY <1>1 DEF SignerStep, Throw, CheckHalt, JudgeFacts, JudgeBudget, PauseMachine, Refuse, Hold,
       GiveBack,
       Broken, Submit, Sign, RefuseHeld, RecordSubmission, Send, Confirm, Settle, Release, TxState
  <1>7. RecordOK'
    <2>1. \A type \in FactType :
            /\ Fact(type, q) \in [type : FactType, trade : Trades, epoch : Nat]
            /\ ChainFact(type, TradeOf(q)) \in [type : FactType, trade : Trades, epoch : Nat]
      BY <1>2, FactsOK
    <2>2. {"trade.intended", "trade.submitted", "trade.completed", "trade.failed",
           "trade.refused"} \subseteq FactType
      BY DEF FactType
    <2>3. CASE UNCHANGED recordVars
      BY <1>1, <2>3 DEF recordVars, RecordOK
    <2>4. CASE PauseMachine(q)
      BY <1>1, <2>4 DEF PauseMachine, RecordOK
    <2>5. CASE Refuse(q) \/ RefuseHeld(q)
      BY <1>1, <2>1, <2>2, <2>5 DEF Refuse, RefuseHeld, WriteRefusal, RecordOK
    <2>6. CASE Hold(q)
      BY <1>1, <1>3, <2>1, <2>2, <2>6 DEF Hold, WriteIntent, RecordOK
    <2>7. CASE GiveBack(q) \/ Release(q)
      BY <1>1, <2>1, <2>2, <2>7 DEF GiveBack, Release, WriteFailure, RecordOK
    <2>8. CASE RecordSubmission(q)
      BY <1>1, <1>3, <2>1, <2>2, <2>8 DEF RecordSubmission, RecordOK
    <2>9. CASE Settle(q)
      BY <1>1, <1>3, <2>1, <2>2, <2>9 DEF Settle, RecordOK
    <2>10. QED
      BY <2>3, <2>4, <2>5, <2>6, <2>7, <2>8, <2>9
         DEF SignerStep, Throw, CheckHalt, JudgeFacts, JudgeBudget, Broken, Submit, Sign, Send,
             Confirm
  <1>8. QED
    BY <1>2, <1>5, <1>6, <1>7 DEF TradeTypeOK, RequestOK, RecordOK

-----------------------------------------------------------------------------
(* Every other step.                                                       *)

(* The queue, a node's lease and a node's leaving move as Leases says.     *)
LEMMA QueueIsLeases == QueueOrNode => [Next]_vars
  BY DEF QueueOrNode, LeaseStep, EndRun, Next, NodeStep

LEMMA QueueTypeOK == TradeTypeOK /\ QueueOrNode => TradeTypeOK'
  <1> SUFFICES ASSUME TradeTypeOK, QueueOrNode PROVE TradeTypeOK'
    OBVIOUS
  <1>1. TypeOK'
    BY QueueIsLeases, NextTypeOK DEF TradeTypeOK
  <1>2. UNCHANGED <<req, machine, halted, facts, signature, open, paid, tx>>
    BY DEF QueueOrNode, tradeVars
  <1>3. asked' \in [Nodes -> Trades \cup {NoTrade, Answered}]
    BY DEF QueueOrNode, LeavesRun, tradeVars, TradeTypeOK
  <1>4. QED
    BY <1>1, <1>2, <1>3 DEF TradeTypeOK

LEMMA ProposeTypeOK ==
    ASSUME TradeTypeOK, NEW n \in Nodes, NEW t \in Trades, NEW d \in Skew, Propose(n, t, d)
    PROVE  TradeTypeOK'
  <1>1. <<t, 1>> \in Reqs
    BY TradePathAssumption DEF Reqs, Attempts
  <1>2. UNCHANGED <<vars, halted, recordVars, tx>>
    BY DEF Propose
  <1>3. asked' \in [Nodes -> Trades \cup {NoTrade, Answered}]
    BY DEF Propose, TradeTypeOK
  <1>4. RequestOK'
    <2> DEFINE q0 == [pc |-> "halt", run |-> node[n].run, node |-> n, epoch |-> node[n].epoch]
    <2>1. req' = req \/ req' = [req EXCEPT ![<<t, 1>>] = q0]
      BY DEF Propose
    <2>2. node[n].run \in Runs /\ node[n].epoch \in Nat
      BY DEF Propose, TradeTypeOK, TypeOK, Belief
    <2>3. q0 \in Request /\ q0.run \in Runs /\ q0.node \in Nodes
      BY <2>2 DEF Request, Working, BeforeHold
    <2>4. CASE req' = req
      BY <2>4 DEF TradeTypeOK, RequestOK
    <2>5. CASE req' = [req EXCEPT ![<<t, 1>>] = q0]
      <3>1. req' \in [Reqs -> Request]
        BY <2>3, <2>5 DEF TradeTypeOK
      <3>2. ASSUME NEW p \in Reqs, req'[p].pc # "free"
            PROVE  req'[p].run \in Runs /\ req'[p].node \in Nodes
        <4>1. CASE p = <<t, 1>>
          <5>1. req'[p] = q0
            BY <2>5, <4>1 DEF TradeTypeOK
          <5>2. QED
            BY <2>3, <5>1
        <4>2. CASE p # <<t, 1>>
          <5>1. req'[p] = req[p]
            BY <2>5, <4>2 DEF TradeTypeOK
          <5>2. QED
            BY <3>2, <5>1 DEF TradeTypeOK
        <4>3. QED
          BY <4>1, <4>2
      <3>3. QED
        BY <3>1, <3>2 DEF RequestOK
    <2>6. QED
      BY <2>1, <2>4, <2>5
  <1>5. TypeOK'
    BY <1>2 DEF TradeTypeOK, vars, TypeOK
  <1>6. QED
    BY <1>2, <1>3, <1>4, <1>5 DEF TradeTypeOK, RequestOK, recordVars

LEMMA RedeliverTypeOK ==
    ASSUME TradeTypeOK, NEW t \in Trades, NEW k \in Attempts, Redeliver(t, k)
    PROVE  TradeTypeOK'
  <1> DEFINE old == <<t, k - 1>>
             new == [req[old] EXCEPT !.pc = "halt"]
  <1>1. <<t, k>> \in Reqs /\ old \in Reqs
    BY TradePathAssumption DEF Redeliver, Reqs, Attempts
  <1>2. /\ new \in Request /\ new.run \in Runs /\ new.node \in Nodes
    BY <1>1 DEF Redeliver, TradeTypeOK, Request, Working, BeforeHold
  <1>3. req' = [req EXCEPT ![<<t, k>>] = new] /\ UNCHANGED <<outside, recordVars, tx>>
    BY DEF Redeliver
  <1>4. req' \in [Reqs -> Request]
    BY <1>1, <1>2, <1>3 DEF TradeTypeOK
  <1>5. ASSUME NEW p \in Reqs, req'[p].pc # "free"
        PROVE  req'[p].run \in Runs /\ req'[p].node \in Nodes
    <2>1. CASE p = <<t, k>>
      <3>1. req'[p] = new
        BY <1>1, <1>3, <2>1 DEF TradeTypeOK
      <3>2. QED
        BY <1>2, <3>1
    <2>2. CASE p # <<t, k>>
      <3>1. req'[p] = req[p]
        BY <1>3, <2>2 DEF TradeTypeOK
      <3>2. QED
        BY <1>5, <3>1 DEF TradeTypeOK
    <2>3. QED
      BY <2>1, <2>2
  <1>6. TypeOK'
    BY <1>3 DEF TradeTypeOK, outside, vars, TypeOK
  <1>7. QED
    BY <1>3, <1>4, <1>5, <1>6 DEF TradeTypeOK, outside, recordVars

LEMMA CrashTypeOK == TradeTypeOK /\ SignerCrash => TradeTypeOK'
  <1> SUFFICES ASSUME TradeTypeOK, SignerCrash PROVE TradeTypeOK'
    OBVIOUS
  <1>1. UNCHANGED <<run, node, reports, granted, asked, halted, recordVars, tx>>
    BY DEF SignerCrash
  <1>2. TypeOK'
    BY <1>1 DEF SignerCrash, TradeTypeOK, TypeOK
  <1>3. \A q \in Reqs : /\ [req[q] EXCEPT !.pc = "error"] \in Request
                        /\ [req[q] EXCEPT !.pc = "error"].run = req[q].run
                        /\ [req[q] EXCEPT !.pc = "error"].node = req[q].node
    BY DEF TradeTypeOK, Request, Over
  <1>4. "free" \notin Working
    BY WorkingIsNotFree
  <1>5. req' = [q \in Reqs |->
                 IF req[q].pc \in Working THEN [req[q] EXCEPT !.pc = "error"] ELSE req[q]]
    BY DEF SignerCrash
  <1>6. /\ req' \in [Reqs -> Request]
        /\ \A q \in Reqs : req'[q].pc # "free" => req'[q].run \in Runs /\ req'[q].node \in Nodes
    BY <1>3, <1>4, <1>5 DEF TradeTypeOK
  <1>7. QED
    BY <1>1, <1>2, <1>6 DEF TradeTypeOK, recordVars

(* Owners, operators, waiting nodes and the chain.                         *)
LEMMA OutsideTypeOK ==
    ASSUME TradeTypeOK,
           \/ EngageHalt \/ ReleaseHalt \/ OwnerActs
           \/ \E n \in Nodes : HearOrGiveUp(n)
           \/ \E q \in Reqs : ChainDecides(q)
           \/ UNCHANGED tradePathVars
    PROVE  TradeTypeOK'
  <1>1. TypeOK'
    BY DEF EngageHalt, ReleaseHalt, OwnerActs, HearOrGiveUp, ChainDecides, tradePathVars,
       outside, TradeTypeOK, vars, TypeOK
  <1>2. req' = req
    BY DEF EngageHalt, ReleaseHalt, OwnerActs, HearOrGiveUp, ChainDecides, tradePathVars, tradeVars
  <1>3. /\ UNCHANGED <<facts, signature, open, paid>>
        /\ machine' \in {"running", "paused", "stopped"} /\ halted' \in BOOLEAN
    BY DEF EngageHalt, ReleaseHalt, OwnerActs, HearOrGiveUp, ChainDecides, tradePathVars,
       tradeVars, outside, recordVars, TradeTypeOK
  <1>4. asked' \in [Nodes -> Trades \cup {NoTrade, Answered}]
    BY DEF EngageHalt, ReleaseHalt, OwnerActs, HearOrGiveUp, ChainDecides, tradePathVars,
       tradeVars, outside, TradeTypeOK
  <1>5. tx' \in [Reqs -> TxState]
    BY DEF EngageHalt, ReleaseHalt, OwnerActs, HearOrGiveUp, ChainDecides, tradePathVars,
       tradeVars, TradeTypeOK, TxState
  <1>6. QED
    BY <1>1, <1>2, <1>3, <1>4, <1>5 DEF TradeTypeOK

LEMMA TradeInitTypeOK == TradeInit => TradeTypeOK
  <1> SUFFICES ASSUME TradeInit PROVE TradeTypeOK
    OBVIOUS
  <1>1. TypeOK
    BY InitTypeOK DEF TradeInit
  <1>2. NoRequest \in Request /\ NoRequest.pc = "free"
    BY DEF NoRequest, Request
  <1>3. QED
    BY <1>1, <1>2 DEF TradeInit, TradeTypeOK, TxState

LEMMA TradeNextTypeOK == TradeTypeOK /\ [TradeNext]_tradePathVars => TradeTypeOK'
  BY QueueTypeOK, ProposeTypeOK, RedeliverTypeOK, CrashTypeOK, OutsideTypeOK, StepTypeOK
     DEF TradeNext

(* The types of the whole composition, the queue of runs included.         *)
THEOREM TradeTypeCorrect == TradeSpec => []TradeTypeOK
  <1>1. QED
    BY TradeInitTypeOK, TradeNextTypeOK, PTL DEF TradeSpec

-----------------------------------------------------------------------------
(* Sent once, and never unrecorded.                                        *)

(* The strengthening: whoever is about to send is the one whose signature  *)
(* is in the record; signatures once recorded stay.                        *)
SInv ==
    /\ TradeTypeOK
    /\ \A q \in Reqs : req[q].pc = "send" \/ tx[q] # "none" => signature[TradeOf(q)] = q[2]

(* A step that records no signature, sends nothing and lets none send.     *)
LEMMA SentStays ==
    ASSUME SInv, TradeTypeOK', UNCHANGED signature,
           \A q \in Reqs : /\ req'[q].pc = "send" => req[q].pc = "send"
                           /\ tx'[q] # "none" => \/ tx[q] # "none" \/ req[q].pc = "send"
                                                \/ signature[TradeOf(q)] = q[2]
    PROVE  SInv'
  BY DEF SInv

LEMMA GotoElsewhere ==
    ASSUME TradeTypeOK, NEW q \in Reqs, NEW pc, Goto(q, pc), pc # "send",
           NEW p \in Reqs, req'[p].pc = "send"
    PROVE  req[p].pc = "send"
  <1>1. p # q
    BY DEF Goto, TradeTypeOK, Request
  <1>2. QED
    BY <1>1 DEF Goto, TradeTypeOK

(* Only RecordSubmission leads to sending, and only for the first attempt  *)
(* to get there.                                                           *)
LEMMA RecordSubmissionSInv ==
    ASSUME SInv, TradeTypeOK', NEW q \in Reqs, RecordSubmission(q)
    PROVE  SInv'
  <1>1. CASE Goto(q, "broken") /\ UNCHANGED <<facts, signature>>
    BY <1>1, GotoElsewhere, SentStays DEF RecordSubmission, SInv
  <1>2. CASE /\ Unsigned(TradeOf(q)) /\ Goto(q, "send")
             /\ signature' = [signature EXCEPT ![TradeOf(q)] = q[2]]
    <2>1. tx' = tx
      BY DEF RecordSubmission
    <2>2. TradeOf(q) \in Trades /\ q[2] \in Attempts /\ 0 \notin Attempts
      BY RequestParts DEF Attempts
    <2>3. ASSUME NEW p \in Reqs, req'[p].pc = "send" \/ tx'[p] # "none"
          PROVE  signature'[TradeOf(p)] = p[2]
      <3>1. CASE p = q
        BY <1>2, <2>2, <3>1 DEF SInv, TradeTypeOK
      <3>2. CASE p # q
        <4>1. req'[p] = req[p]
          BY <1>2, <3>2 DEF Goto, SInv, TradeTypeOK
        <4>2. signature[TradeOf(p)] = p[2] /\ p[2] \in Attempts /\ TradeOf(p) \in Trades
          BY <2>1, <2>3, <4>1, RequestParts DEF SInv
        <4>3. TradeOf(p) # TradeOf(q)
          BY <1>2, <2>2, <4>2 DEF Unsigned
        <4>4. QED
          BY <1>2, <4>2, <4>3 DEF SInv, TradeTypeOK
      <3>3. QED
        BY <3>1, <3>2
    <2>4. QED
      BY <2>3 DEF SInv
  <1>3. QED
    BY <1>1, <1>2 DEF RecordSubmission

LEMMA SendSInv ==
    ASSUME SInv, TradeTypeOK', NEW q \in Reqs, Send(q)
    PROVE  SInv'
  <1>1. Goto(q, "confirm") /\ signature' = signature /\ req[q].pc = "send"
    BY DEF Send, recordVars
  <1>2. \A p \in Reqs : req'[p].pc = "send" => req[p].pc = "send"
    BY <1>1, GotoElsewhere DEF SInv
  <1>3. \A p \in Reqs : tx'[p] # "none" => tx[p] # "none" \/ req[p].pc = "send"
    BY <1>1 DEF Send, SInv, TradeTypeOK
  <1>4. QED
    BY <1>1, <1>2, <1>3, SentStays

LEMMA OtherStepSInv ==
    ASSUME SInv, TradeTypeOK', NEW q \in Reqs, SignerStep(q) \/ Throw(q),
           ~RecordSubmission(q), ~Send(q)
    PROVE  SInv'
  <1>1. \E pc : pc # "send" /\ Goto(q, pc)
    BY DEF SignerStep, Throw, CheckHalt, JudgeFacts, JudgeBudget, PauseMachine, Refuse, Hold,
       GiveBack, Broken,
       Submit, Sign, RefuseHeld, Confirm, Settle, Release, AfterThrow
  <1>2. signature' = signature /\ tx' = tx
    BY DEF SignerStep, Throw, CheckHalt, JudgeFacts, JudgeBudget, PauseMachine, Refuse, Hold,
       GiveBack, Broken,
       Submit, Sign, RefuseHeld, Confirm, Settle, Release, recordVars
  <1>3. \A p \in Reqs : req'[p].pc = "send" => req[p].pc = "send"
    BY <1>1, GotoElsewhere DEF SInv
  <1>4. QED
    BY <1>2, <1>3, SentStays

LEMMA TradeNextSInv == SInv /\ [TradeNext]_tradePathVars => SInv'
  <1> SUFFICES ASSUME SInv, [TradeNext]_tradePathVars PROVE SInv'
    OBVIOUS
  <1>1. TradeTypeOK /\ TradeTypeOK'
    BY TradeNextTypeOK DEF SInv
  <1>2. ASSUME NEW q \in Reqs, SignerStep(q) \/ Throw(q) PROVE SInv'
    BY <1>1, <1>2, RecordSubmissionSInv, SendSInv, OtherStepSInv
  <1>3. ASSUME NEW n \in Nodes, NEW t \in Trades, NEW d \in Skew, Propose(n, t, d) PROVE SInv'
    <2>1. \A p \in Reqs : req'[p].pc = "send" => req[p].pc = "send"
      BY <1>1, <1>3 DEF Propose, TradeTypeOK
    <2>2. QED
      BY <1>1, <1>3, <2>1, SentStays DEF Propose, recordVars
  <1>4. ASSUME NEW t \in Trades, NEW k \in Attempts, Redeliver(t, k) PROVE SInv'
    <2>1. <<t, k - 1>> \in Reqs
      BY <1>4, TradePathAssumption DEF Redeliver, Reqs, Attempts
    <2>2. [req[<<t, k - 1>>] EXCEPT !.pc = "halt"].pc = "halt"
      BY <1>1, <2>1 DEF TradeTypeOK, Request
    <2>3. \A p \in Reqs : req'[p].pc = "send" => req[p].pc = "send"
      BY <1>1, <1>4, <2>2 DEF Redeliver, TradeTypeOK
    <2>4. QED
      BY <1>1, <1>4, <2>3, SentStays DEF Redeliver, recordVars
  <1>5. CASE SignerCrash
    <2>1. \A p \in Reqs : [req[p] EXCEPT !.pc = "error"].pc # "send"
      BY <1>1 DEF TradeTypeOK, Request
    <2>2. \A p \in Reqs : req'[p].pc = "send" => req[p].pc = "send"
      BY <1>5, <2>1 DEF SignerCrash
    <2>3. QED
      BY <1>1, <1>5, <2>2, SentStays DEF SignerCrash, recordVars
  <1>6. CASE \/ QueueOrNode \/ EngageHalt \/ ReleaseHalt \/ OwnerActs
             \/ \E n \in Nodes : HearOrGiveUp(n)
             \/ UNCHANGED tradePathVars
    <2>1. UNCHANGED <<req, signature, tx>>
      BY <1>6 DEF QueueOrNode, EngageHalt, ReleaseHalt, OwnerActs, HearOrGiveUp, tradePathVars,
         tradeVars, recordVars
    <2>2. QED
      BY <1>1, <2>1, SentStays
  <1>7. ASSUME NEW q \in Reqs, ChainDecides(q) PROVE SInv'
    <2>1. UNCHANGED <<req, signature>>
      BY <1>7 DEF ChainDecides, recordVars
    <2>2. \A p \in Reqs : tx'[p] # "none" => tx[p] # "none" \/ signature[TradeOf(p)] = p[2]
      BY <1>1, <1>7 DEF ChainDecides, TradeTypeOK
    <2>3. QED
      BY <1>1, <2>1, <2>2, SentStays
  <1>8. QED
    BY <1>2, <1>3, <1>4, <1>5, <1>6, <1>7 DEF TradeNext

(* A trade's transaction goes out only after its signature is in the       *)
(* record, and only under that one signature, however often the proposal   *)
(* is delivered and however the signer crashes (submit-once.ts).           *)
THEOREM SentAtMostOnce == TradeSpec => []SentOnceAndRecorded
  <1>1. TradeInit => SInv
    BY TradeInitTypeOK DEF TradeInit, SInv, NoRequest
  <1>2. SInv => SentOnceAndRecorded
    BY DEF SInv, SentOnceAndRecorded
  <1>3. QED
    BY <1>1, <1>2, TradeNextSInv, PTL DEF TradeSpec

-----------------------------------------------------------------------------
(* The halt.                                                               *)

\* What arrived during a halt, for as long as it stays.
Stopping == {"halt", "refuse"} \cup Over

LEMMA StoppingStays ==
    ASSUME TradeTypeOK, [TradeNext]_tradePathVars, NEW q \in Reqs, halted, req[q].pc \in Stopping, halted'
    PROVE  req'[q].pc \in Stopping
  <1>1. ASSUME NEW p \in Reqs, SignerStep(p) \/ Throw(p) PROVE req'[q].pc \in Stopping
    <2>1. CASE p = q
      <3>1. /\ req[q].pc = "halt" => Goto(q, "refuse") \/ Goto(q, "error")
            /\ req[q].pc = "refuse" => Goto(q, "refused") \/ Goto(q, "error")
            /\ req[q].pc \in {"halt", "refuse"}
        BY <1>1, <2>1
           DEF Stopping, Over, SignerStep, Throw, AfterThrow, Working, BeforeHold, Holding, Handling,
           CheckHalt, JudgeFacts, JudgeBudget, PauseMachine, Refuse, Hold, GiveBack, Broken,
           Submit, Sign, RefuseHeld, RecordSubmission, Send, Confirm, Settle, Release
      <3>2. \A pc : Goto(q, pc) => req'[q].pc = pc
        BY DEF Goto, TradeTypeOK, Request
      <3>3. QED
        BY <3>1, <3>2 DEF Stopping, Over
    <2>2. CASE p # q
      <3>1. PICK pc : Goto(p, pc)
        BY <1>1, StepGoesSomewhere
      <3>2. req'[q] = req[q]
        BY <2>2, <3>1 DEF Goto, TradeTypeOK
      <3>3. QED
        BY <3>2
    <2>3. QED
      BY <2>1, <2>2
  <1>2. ASSUME NEW n \in Nodes, NEW t \in Trades, NEW d \in Skew, Propose(n, t, d) PROVE req'[q].pc \in Stopping
    BY <1>2 DEF Propose, TradeTypeOK, Stopping
  <1>3. ASSUME NEW t \in Trades, NEW k \in Attempts, Redeliver(t, k) PROVE req'[q].pc \in Stopping
    <2>1. q # <<t, k>>
      BY <1>3 DEF Redeliver, Stopping, Over
    <2>2. QED
      BY <1>3, <2>1 DEF Redeliver, TradeTypeOK
  <1>4. CASE SignerCrash
    <2>1. [req[q] EXCEPT !.pc = "error"].pc = "error"
      BY DEF TradeTypeOK, Request
    <2>2. QED
      BY <1>4, <2>1 DEF SignerCrash, Stopping, Over
  <1>5. CASE \/ QueueOrNode \/ EngageHalt \/ ReleaseHalt \/ OwnerActs
             \/ \E n \in Nodes : HearOrGiveUp(n)
             \/ \E p \in Reqs : ChainDecides(p)
             \/ UNCHANGED tradePathVars
    <2>1. UNCHANGED req
      BY <1>5 DEF QueueOrNode, EngageHalt, ReleaseHalt, OwnerActs, HearOrGiveUp, ChainDecides, outside,
         tradePathVars, tradeVars
    <2>2. QED
      BY <2>1
  <1>6. QED
    BY <1>1, <1>2, <1>3, <1>4, <1>5 DEF TradeNext

(* A proposal that reaches the signer during a halt gets no further than a *)
(* refusal while the halt stays (halts.ts:48): no money of it is held and  *)
(* it is not signed, whatever throws, and whoever is fair.                 *)
THEOREM HaltsStopWhatArrives == TradeSpec => HaltStopsWhatArrives
  <1> SUFFICES ASSUME NEW q \in Reqs
               PROVE  TradeSpec => [](halted /\ req[q].pc = "halt" => [](req[q].pc \notin Holding) \/ <>~halted)
    BY DEF HaltStopsWhatArrives
  <1> DEFINE In == req[q].pc \in Stopping
             Out == req[q].pc \notin Holding
             Arrived == req[q].pc = "halt"
  <1>1. Arrived => In
    BY DEF Stopping
  <1>2. In => Out
    BY DEF Stopping, Over, Holding
  <1>3. TradeTypeOK /\ [TradeNext]_tradePathVars /\ halted /\ In /\ halted' => In'
    BY StoppingStays
  <1> HIDE DEF In, Out, Arrived
  <1>4. TradeSpec => [](halted /\ Arrived => []Out \/ <>~halted)
    BY <1>1, <1>2, <1>3, TradeTypeCorrect, PTL DEF TradeSpec
  <1>5. QED
    BY <1>4 DEF Arrived, Out

-----------------------------------------------------------------------------
(* The money, for proposals that are delivered once, which is what the     *)
(* services do.                                                            *)

OneDelivery == MaxAttempts = 1

\* The one request of a trade, and its one transaction.
Pc(t) == req[<<t, 1>>].pc
Tx(t) == tx[<<t, 1>>]

\* Nothing in the record says that the trade did not happen.
Clean(t) == ~Recorded("trade.failed", t) /\ ~Recorded("trade.refused", t)

Early == {"free"} \cup BeforeHold
Unsealed == {"submit", "sign", "record", "refuseHeld"}
Sealed == {"send", "confirm", "settle", "release"}

(* The strengthening, in two halves.  Where the request is says what the   *)
(* record has about its trade: nothing before the hold, an intent and no   *)
(* end while money is held, a signature from the moment it is written.     *)
Place(t) ==
    /\ Pc(t) \in Early => ~Recorded("trade.intended", t)
    /\ Pc(t) \in Holding \cup Handling => Recorded("trade.intended", t)
    /\ Pc(t) \in Early \cup Unsealed \cup {"undo", "giveBack"} => signature[t] = 0
    /\ Pc(t) \in Sealed => signature[t] = 1
    /\ Pc(t) \in Early \cup Holding => Clean(t)
    /\ Pc(t) \in Holding => t \in open
    /\ Pc(t) = "settle" => Tx(t) = "landed"
    /\ Pc(t) = "release" => Tx(t) \in {"failed", "expired"}

(* And the record agrees with the chain and with the budget: wherever the  *)
(* request is, or if nobody works on it any more.                          *)
Books(t) ==
    /\ signature[t] = 0 => Tx(t) = "none"
    /\ signature[t] = 1 <=> Recorded("trade.submitted", t)
    /\ signature[t] = 1 => Recorded("trade.intended", t)
    /\ ~Clean(t) => /\ Tx(t) \in {"none", "failed", "expired"}
                    /\ signature[t] = 1 => Tx(t) # "none"
    /\ Recorded("trade.completed", t) => Tx(t) = "landed"
    /\ t \in open <=> /\ Recorded("trade.intended", t) /\ Clean(t)
                      /\ ~Recorded("trade.completed", t)
    /\ t \in paid <=> Recorded("trade.completed", t)

Good(t) == Place(t) /\ Books(t)

MInv == TradeTypeOK /\ \A t \in Trades : Good(t)

-----------------------------------------------------------------------------
(* What a step changes of a trade.                                         *)

Said == {"trade.intended", "trade.submitted", "trade.completed", "trade.failed",
         "trade.refused"}

LEMMA OneRequest ==
    ASSUME OneDelivery, NEW q \in Reqs
    PROVE  q = <<TradeOf(q), 1>> /\ TradeOf(q) \in Trades /\ q[2] = 1
  BY DEF OneDelivery, Reqs, Attempts, TradeOf

LEMMA RequestOf ==
    ASSUME OneDelivery, NEW t \in Trades
    PROVE  <<t, 1>> \in Reqs /\ TradeOf(<<t, 1>>) = t
  BY DEF OneDelivery, Reqs, Attempts, TradeOf

(* Nothing is written about a trade; and its request does not move either. *)
Quiet(t) ==
    /\ Tx(t)' = Tx(t) /\ signature'[t] = signature[t]
    /\ (t \in open') <=> (t \in open)
    /\ (t \in paid') <=> (t \in paid)
    /\ \A type \in Said : Recorded(type, t)' <=> Recorded(type, t)

Untouched(t) == Pc(t)' = Pc(t) /\ Quiet(t)

LEMMA UntouchedStays ==
    ASSUME NEW t \in Trades, Good(t), Untouched(t)
    PROVE  Good(t)'
  <1>1. /\ Recorded("trade.intended", t)' <=> Recorded("trade.intended", t)
        /\ Recorded("trade.submitted", t)' <=> Recorded("trade.submitted", t)
        /\ Recorded("trade.completed", t)' <=> Recorded("trade.completed", t)
        /\ Recorded("trade.failed", t)' <=> Recorded("trade.failed", t)
        /\ Recorded("trade.refused", t)' <=> Recorded("trade.refused", t)
    BY DEF Untouched, Quiet, Said
  <1>2. Clean(t)' <=> Clean(t)
    BY <1>1 DEF Clean
  <1>3. Place(t)'
    BY <1>1, <1>2 DEF Good, Place, Untouched, Quiet
  <1>4. Books(t)'
    BY <1>1, <1>2 DEF Good, Books, Untouched, Quiet
  <1>5. QED
    BY <1>3, <1>4 DEF Good

LEMMA MovedRequest ==
    ASSUME OneDelivery, TradeTypeOK, NEW q \in Reqs, NEW pc, Goto(q, pc)
    PROVE  /\ Pc(TradeOf(q))' = pc
           /\ \A t \in Trades : t # TradeOf(q) => Pc(t)' = Pc(t)
  <1>1. q = <<TradeOf(q), 1>> /\ TradeOf(q) \in Trades
    BY OneRequest
  <1>2. req'[q].pc = pc /\ \A p \in Reqs : p # q => req'[p] = req[p]
    BY DEF Goto, TradeTypeOK, Request
  <1>3. \A t \in Trades : t # TradeOf(q) => <<t, 1>> \in Reqs /\ <<t, 1>> # q
    BY <1>1, RequestOf
  <1>4. QED
    BY <1>1, <1>2, <1>3 DEF Pc

(* What a request writes is about its own trade.                           *)
LEMMA Noted ==
    ASSUME NEW q, NEW type,
           \/ facts' = facts \cup {Fact(type, q)}
           \/ facts' = facts \cup {ChainFact(type, TradeOf(q))}
    PROVE  /\ \A ty : Recorded(ty, TradeOf(q))' <=> Recorded(ty, TradeOf(q)) \/ ty = type
           /\ \A ty, t : t # TradeOf(q) => (Recorded(ty, t)' <=> Recorded(ty, t))
  <1>1. PICK f : f.type = type /\ f.trade = TradeOf(q) /\ facts' = facts \cup {f}
    BY DEF Fact, ChainFact
  <1>2. QED
    BY <1>1 DEF Recorded

(* A step of a request, or a throw in it, leaves the other trades alone.   *)
LEMMA OtherTrades ==
    ASSUME OneDelivery, TradeTypeOK, NEW q \in Reqs, SignerStep(q) \/ Throw(q),
           NEW t \in Trades, t # TradeOf(q)
    PROVE  Untouched(t)
  <1>1. q = <<TradeOf(q), 1>> /\ TradeOf(q) \in Trades /\ <<t, 1>> \in Reqs /\ <<t, 1>> # q
    BY OneRequest, RequestOf
  <1>2. Pc(t)' = Pc(t)
    BY StepGoesSomewhere, MovedRequest
  <1>3. Tx(t)' = Tx(t)
    <2>1. tx' = tx \/ tx' = [tx EXCEPT ![q] = "pending"]
      BY DEF SignerStep, Throw, CheckHalt, JudgeFacts, JudgeBudget, PauseMachine, Refuse, Hold,
         GiveBack, Broken, Submit, Sign, RefuseHeld, RecordSubmission, Send, Confirm, Settle,
         Release
    <2>2. QED
      BY <1>1, <2>1 DEF Tx, TradeTypeOK
  <1>4. signature'[t] = signature[t]
    <2>1. signature' = signature \/ signature' = [signature EXCEPT ![TradeOf(q)] = q[2]]
      BY DEF SignerStep, Throw, CheckHalt, JudgeFacts, JudgeBudget, PauseMachine, Refuse, Hold,
         GiveBack, Broken, Submit, Sign, RefuseHeld, RecordSubmission, Send, Confirm, Settle,
         Release, recordVars
    <2>2. QED
      BY <2>1 DEF TradeTypeOK
  <1>5. /\ open' \in {open, open \ {TradeOf(q)}, open \cup {TradeOf(q)}}
        /\ paid' \in {paid, paid \cup {TradeOf(q)}}
    BY DEF SignerStep, Throw, CheckHalt, JudgeFacts, JudgeBudget, PauseMachine, Refuse, Hold,
       GiveBack, Broken, Submit, Sign, RefuseHeld, RecordSubmission, Send, Confirm, Settle,
       Release, WriteRefusal, WriteIntent, WriteFailure, recordVars
  <1>6. \A type : Recorded(type, t)' <=> Recorded(type, t)
    <2>1. \/ facts' = facts
          \/ \E type : \/ facts' = facts \cup {Fact(type, q)}
                       \/ facts' = facts \cup {ChainFact(type, TradeOf(q))}
      BY DEF SignerStep, Throw, CheckHalt, JudgeFacts, JudgeBudget, PauseMachine, Refuse, Hold,
         GiveBack, Broken, Submit, Sign, RefuseHeld, RecordSubmission, Send, Confirm, Settle,
         Release, WriteRefusal, WriteIntent, WriteFailure, recordVars
    <2>2. CASE facts' = facts
      BY <2>2 DEF Recorded
    <2>3. QED
      BY <2>1, <2>2, Noted
  <1>7. QED
    BY <1>2, <1>3, <1>4, <1>5, <1>6 DEF Untouched, Quiet

LEMMA NothingWritten ==
    ASSUME NEW t \in Trades, UNCHANGED <<facts, signature, open, paid, tx>>
    PROVE  Quiet(t)
  <1>1. \A type \in Said : Recorded(type, t)' <=> Recorded(type, t)
    BY DEF Recorded
  <1>2. Tx(t)' = Tx(t)
    BY DEF Tx
  <1>3. QED
    BY <1>1, <1>2 DEF Quiet

(* A request that moves and writes nothing: the books stay, and the place  *)
(* is the one the request moved to.                                        *)
LEMMA QuietBooks ==
    ASSUME NEW t \in Trades, Books(t), Quiet(t)
    PROVE  Books(t)' /\ (Clean(t)' <=> Clean(t))
  <1>1. Clean(t)' <=> Clean(t)
    BY DEF Quiet, Clean, Said
  <1>2. QED
    BY <1>1 DEF Quiet, Books, Said

LEMMA QuietPlace ==
    ASSUME NEW t \in Trades, Place(t), Books(t), Quiet(t),
           \/ Pc(t) \in Early /\ Pc(t)' \in BeforeHold \cup Over
           \/ Pc(t) \in Holding \cup Handling /\ Pc(t)' \in Over \cup {"broken"}
           \/ Pc(t) = "broken" /\ Pc(t)' = "undo" /\ signature[t] = 0
           \/ Pc(t) \in Unsealed /\ Pc(t)' \in Unsealed
           \/ Pc(t) \in {"send", "confirm"} /\ Pc(t)' = "confirm"
           \/ Pc(t) \in {"confirm"} /\ Pc(t)' = "settle" /\ Tx(t) = "landed"
           \/ Pc(t) \in {"confirm"} /\ Pc(t)' = "release" /\ Tx(t) \in {"failed", "expired"}
    PROVE  Place(t)'
  <1>1. Clean(t)' <=> Clean(t)
    BY DEF Quiet, Clean, Said
  <1>2. QED
    BY <1>1 DEF Place, Quiet, Said, Early, Unsealed, Sealed, BeforeHold, Holding, Handling, Over

-----------------------------------------------------------------------------
(* The request's own trade, step by step.                                  *)

LEMMA WhereItIs ==
    ASSUME OneDelivery, TradeTypeOK, NEW q \in Reqs, NEW pc, Goto(q, pc)
    PROVE  /\ TradeOf(q) \in Trades /\ q = <<TradeOf(q), 1>> /\ q[2] = 1
           /\ Pc(TradeOf(q)) = req[q].pc /\ Pc(TradeOf(q))' = pc
           /\ Tx(TradeOf(q)) = tx[q] /\ Tx(TradeOf(q))' = tx'[q]
           /\ signature[TradeOf(q)] \in {0, 1}
  <1>1. /\ TradeOf(q) \in Trades /\ q = <<TradeOf(q), 1>> /\ q[2] = 1
    BY OneRequest
  <1>2. Pc(TradeOf(q))' = pc
    BY MovedRequest
  <1>3. signature[TradeOf(q)] \in 1 .. 1 \cup {0}
    BY <1>1 DEF TradeTypeOK, Attempts, OneDelivery
  <1>4. QED
    BY <1>1, <1>2, <1>3 DEF Pc, Tx

(* Steps that read and decide, and throws.                                 *)
LEMMA Deciding ==
    ASSUME OneDelivery, TradeTypeOK, NEW q \in Reqs, Good(TradeOf(q)),
           \/ CheckHalt(q) \/ JudgeFacts(q) \/ JudgeBudget(q) \/ PauseMachine(q) \/ Broken(q)
           \/ Submit(q) \/ Sign(q) \/ Confirm(q) \/ Throw(q)
    PROVE  Good(TradeOf(q))'
  <1> DEFINE t == TradeOf(q)
  <1>1. UNCHANGED <<facts, signature, open, paid, tx>>
    BY DEF CheckHalt, JudgeFacts, JudgeBudget, PauseMachine, Broken, Submit, Sign, Confirm, Throw,
       recordVars
  <1>2. t \in Trades /\ Quiet(t)
    BY <1>1, NothingWritten, OneRequest
  <1>3. Books(t)'
    BY <1>2, QuietBooks DEF Good
  <1>4. Place(t)'
    <2> USE DEF Early, BeforeHold, Holding, Handling, Over, Unsealed
    <2> HIDE DEF t
    <2>1. CASE CheckHalt(q) \/ JudgeFacts(q) \/ JudgeBudget(q) \/ PauseMachine(q)
      <3>1. PICK pc \in BeforeHold \cup Over : Goto(q, pc) /\ req[q].pc \in Early
        BY <2>1 DEF CheckHalt, JudgeFacts, JudgeBudget, PauseMachine
      <3>2. Pc(t) \in Early /\ Pc(t)' \in BeforeHold \cup Over
        BY <3>1, WhereItIs DEF t
      <3>3. QED
        BY <1>2, <3>2, QuietPlace DEF Good, t
    <2>2. CASE Throw(q)
      <3>1. PICK pc : Goto(q, pc) /\ pc = AfterThrow(req[q].pc) /\ req[q].pc \in Working
        BY <2>2 DEF Throw
      <3>2. \/ Pc(t) \in Early /\ Pc(t)' \in Over
            \/ Pc(t) \in Holding \cup Handling /\ Pc(t)' \in Over \cup {"broken"}
        BY <3>1, WhereItIs DEF t, AfterThrow, Working
      <3>3. QED
        BY <1>2, <3>2, QuietPlace DEF Good, t
    <2>3. CASE Broken(q)
      <3>1. PICK pc : /\ Goto(q, pc) /\ req[q].pc = "broken"
                      /\ \/ pc = "error"
                         \/ pc = "undo" /\ signature[TradeOf(q)] = 0
        BY <2>3 DEF Broken, MayBeOut
      <3>2. \/ Pc(t) \in Holding \cup Handling /\ Pc(t)' \in Over
            \/ Pc(t) = "broken" /\ Pc(t)' = "undo" /\ signature[t] = 0
        BY <3>1, WhereItIs DEF t
      <3>3. QED
        BY <1>2, <3>2, QuietPlace DEF Good, t
    <2>4. CASE Submit(q) \/ Sign(q)
      <3>1. req[q].pc \in {"submit", "sign"} /\ \E pc : Goto(q, pc)
        BY <2>4 DEF Submit, Sign
      <3>2. Pc(t) \in {"submit", "sign"} /\ signature[t] = 0
        BY <3>1, WhereItIs DEF Good, Place, t
      <3>3. PICK pc \in Unsealed : Goto(q, pc)
        BY <2>4, <3>2 DEF Submit, Sign, t
      <3>4. Pc(t) \in Unsealed /\ Pc(t)' \in Unsealed
        BY <3>2, <3>3, WhereItIs DEF t
      <3>5. QED
        BY <1>2, <3>4, QuietPlace DEF Good, t
    <2>5. CASE Confirm(q)
      <3>1. req[q].pc = "confirm" /\ \E pc : Goto(q, pc)
        BY <2>5 DEF Confirm
      <3>2. Pc(t) = "confirm" /\ signature[t] = 1
        BY <3>1, WhereItIs DEF Good, Place, Sealed, t
      <3>3. tx[Submitted(TradeOf(q))] = Tx(t)
        BY <3>2 DEF Submitted, Tx, t
      <3>4. PICK pc : /\ Goto(q, pc)
                      /\ \/ Tx(t) = "landed" /\ pc = "settle"
                         \/ Tx(t) \in {"failed", "expired"} /\ pc = "release"
                         \/ pc = "signed"
        BY <2>5, <3>3 DEF Confirm
      <3>5. \/ Tx(t) = "landed" /\ Pc(t)' = "settle"
            \/ Tx(t) \in {"failed", "expired"} /\ Pc(t)' = "release"
            \/ Pc(t)' \in Over
        BY <3>4, WhereItIs DEF t
      <3>6. QED
        BY <1>2, <3>2, <3>5, QuietPlace DEF Good, t
    <2>6. QED
      BY <2>1, <2>2, <2>3, <2>4, <2>5
  <1>5. QED
    BY <1>3, <1>4 DEF Good

(* Steps that write: the event, the money it frees or holds, and the next  *)
(* place.  First the ones that find they may not write.                    *)
LEMMA NotAllowed ==
    ASSUME OneDelivery, TradeTypeOK, NEW q \in Reqs, Good(TradeOf(q)),
           UNCHANGED <<facts, signature, open, paid, tx>>,
           \/ req[q].pc \in Early \cup Handling /\ \E pc \in Over : Goto(q, pc)
           \/ req[q].pc \in Holding /\ Goto(q, "broken")
    PROVE  Good(TradeOf(q))'
  <1> DEFINE t == TradeOf(q)
  <1>1. t \in Trades /\ Quiet(t)
    BY NothingWritten, OneRequest
  <1> HIDE DEF t
  <1>2. \/ Pc(t) \in Early /\ Pc(t)' \in Over
        \/ Pc(t) \in Holding \cup Handling /\ Pc(t)' \in Over \cup {"broken"}
    BY WhereItIs DEF t
  <1>3. QED
    BY <1>1, <1>2, QuietPlace, QuietBooks DEF Good, t

LEMMA Refusing ==
    ASSUME OneDelivery, TradeTypeOK, NEW q \in Reqs, Good(TradeOf(q)), WriteRefusal(q),
           UNCHANGED <<signature, paid, tx>>,
           \/ req[q].pc = "refuse" /\ Goto(q, "refused")
           \/ req[q].pc = "refuseHeld" /\ Goto(q, "giveBack")
    PROVE  Good(TradeOf(q))'
  <1> DEFINE t == TradeOf(q)
  <1>1. t \in Trades /\ Tx(t)' = Tx(t)
    BY OneRequest DEF Tx
  <1> HIDE DEF t
  <1>2. \/ Pc(t) = "refuse" /\ Pc(t)' = "refused"
        \/ Pc(t) = "refuseHeld" /\ Pc(t)' = "giveBack"
    BY WhereItIs DEF t
  <1>3. \A type : Recorded(type, t)' <=> Recorded(type, t) \/ type = "trade.refused"
    BY Noted DEF WriteRefusal, t
  <1>4. t \notin open'
    BY DEF WriteRefusal, t
  <1>5. signature[t] = 0 /\ Clean(t) /\ Place(t) /\ Books(t)
    BY <1>2 DEF Good, t, Place, Early, BeforeHold, Holding, Unsealed
  <1>6. ~Clean(t)'
    BY <1>3 DEF Clean
  <1>7. /\ Recorded("trade.intended", t)' <=> Recorded("trade.intended", t)
        /\ Recorded("trade.submitted", t)' <=> Recorded("trade.submitted", t)
        /\ Recorded("trade.completed", t)' <=> Recorded("trade.completed", t)
    BY <1>3
  <1>8. Place(t)'
    BY <1>1, <1>2, <1>5, <1>7 DEF Place, Early, BeforeHold, Holding, Handling, Unsealed, Sealed
  <1>9. Books(t)'
    BY <1>1, <1>4, <1>5, <1>6, <1>7 DEF Books
  <1>10. QED
    BY <1>8, <1>9 DEF Good, t

LEMMA Intending ==
    ASSUME OneDelivery, TradeTypeOK, NEW q \in Reqs, Good(TradeOf(q)), WriteIntent(q),
           UNCHANGED <<signature, paid, tx>>, req[q].pc = "hold", Goto(q, "submit")
    PROVE  Good(TradeOf(q))'
  <1> DEFINE t == TradeOf(q)
  <1>1. t \in Trades /\ Tx(t)' = Tx(t)
    BY OneRequest DEF Tx
  <1> HIDE DEF t
  <1>2. Pc(t) = "hold" /\ Pc(t)' = "submit"
    BY WhereItIs DEF t
  <1>3. \A type : Recorded(type, t)' <=> Recorded(type, t) \/ type = "trade.intended"
    BY Noted DEF WriteIntent, t
  <1>4. t \in open'
    BY DEF WriteIntent, t
  <1>5. /\ signature[t] = 0 /\ Clean(t) /\ Place(t) /\ Books(t)
        /\ ~Recorded("trade.completed", t)
    BY <1>2 DEF Good, t, Place, Books, Early, BeforeHold
  <1>6. Clean(t)' /\ Recorded("trade.intended", t)'
    BY <1>3, <1>5 DEF Clean
  <1>7. /\ Recorded("trade.submitted", t)' <=> Recorded("trade.submitted", t)
        /\ Recorded("trade.completed", t)' <=> Recorded("trade.completed", t)
    BY <1>3
  <1>8. Place(t)'
    BY <1>1, <1>2, <1>4, <1>5, <1>6 DEF Place, Early, BeforeHold, Holding, Handling, Unsealed,
       Sealed
  <1>9. Books(t)'
    BY <1>1, <1>4, <1>5, <1>6, <1>7 DEF Books
  <1>10. QED
    BY <1>8, <1>9 DEF Good, t

(* What is written failed has no signature, or is dead on the chain.       *)
LEMMA Failing ==
    ASSUME OneDelivery, TradeTypeOK, NEW q \in Reqs, Good(TradeOf(q)), WriteFailure(TradeOf(q)),
           UNCHANGED <<signature, paid, tx>>,
           req[q].pc \in {"giveBack", "undo", "release"}, \E pc \in Over : Goto(q, pc)
    PROVE  Good(TradeOf(q))'
  <1> DEFINE t == TradeOf(q)
  <1>1. t \in Trades /\ Tx(t)' = Tx(t)
    BY OneRequest DEF Tx
  <1>2. \A type : Recorded(type, t)' <=> Recorded(type, t) \/ type = "trade.failed"
    BY Noted DEF WriteFailure
  <1>3. t \notin open'
    BY DEF WriteFailure
  <1> HIDE DEF t
  <1>4. Pc(t) \in {"giveBack", "undo", "release"} /\ Pc(t)' \in Over
    BY WhereItIs DEF t
  <1>5. Place(t) /\ Books(t)
    BY DEF Good, t
  <1>6. \/ signature[t] = 0 /\ Tx(t) = "none"
        \/ signature[t] = 1 /\ Tx(t) \in {"failed", "expired"}
    <2>1. CASE Pc(t) \in {"giveBack", "undo"}
      <3>1. signature[t] = 0
        BY <1>5, <2>1 DEF Place
      <3>2. QED
        BY <1>5, <3>1 DEF Books
    <2>2. CASE Pc(t) = "release"
      BY <1>5, <2>2 DEF Place, Sealed
    <2>3. QED
      BY <1>4, <2>1, <2>2
  <1>7. ~Clean(t)'
    BY <1>2 DEF Clean
  <1>8. /\ Recorded("trade.intended", t)' <=> Recorded("trade.intended", t)
        /\ Recorded("trade.submitted", t)' <=> Recorded("trade.submitted", t)
        /\ Recorded("trade.completed", t)' <=> Recorded("trade.completed", t)
    BY <1>2
  <1>9. Place(t)'
    BY <1>4 DEF Place, Early, BeforeHold, Holding, Handling, Unsealed, Sealed, Over
  <1>10. Books(t)'
    BY <1>1, <1>3, <1>5, <1>6, <1>7, <1>8 DEF Books
  <1>11. QED
    BY <1>9, <1>10 DEF Good, t

LEMMA Recording ==
    ASSUME OneDelivery, TradeTypeOK, NEW q \in Reqs, Good(TradeOf(q)),
           facts' = facts \cup {Fact("trade.submitted", q)},
           signature' = [signature EXCEPT ![TradeOf(q)] = q[2]],
           UNCHANGED <<open, paid, tx>>, req[q].pc = "record", Goto(q, "send")
    PROVE  Good(TradeOf(q))'
  <1> DEFINE t == TradeOf(q)
  <1>1. t \in Trades /\ Tx(t)' = Tx(t) /\ signature'[t] = 1
    BY OneRequest DEF Tx, TradeTypeOK
  <1>2. \A type : Recorded(type, t)' <=> Recorded(type, t) \/ type = "trade.submitted"
    BY Noted
  <1> HIDE DEF t
  <1>3. Pc(t) = "record" /\ Pc(t)' = "send"
    BY WhereItIs DEF t
  <1>4. /\ Recorded("trade.intended", t) /\ Clean(t) /\ t \in open
        /\ ~Recorded("trade.completed", t) /\ t \notin paid
    BY <1>3 DEF Good, t, Place, Books, Holding
  <1>5. /\ Recorded("trade.intended", t)' /\ Clean(t)' /\ Recorded("trade.submitted", t)'
        /\ ~Recorded("trade.completed", t)'
    BY <1>2, <1>4 DEF Clean
  <1>6. Place(t)'
    BY <1>1, <1>3, <1>4, <1>5 DEF Place, Early, BeforeHold, Holding, Unsealed, Sealed
  <1>7. Books(t)'
    BY <1>1, <1>4, <1>5 DEF Books
  <1>8. QED
    BY <1>6, <1>7 DEF Good, t

LEMMA Sending ==
    ASSUME OneDelivery, TradeTypeOK, NEW q \in Reqs, Good(TradeOf(q)), Send(q)
    PROVE  Good(TradeOf(q))'
  <1> DEFINE t == TradeOf(q)
  <1>1. UNCHANGED <<facts, signature, open, paid>>
    BY DEF Send, recordVars
  <1>2. Goto(q, "confirm") /\ req[q].pc = "send"
    BY DEF Send
  <1>3. \A type : Recorded(type, t)' <=> Recorded(type, t)
    BY <1>1 DEF Recorded
  <1> HIDE DEF t
  <1>4. /\ t \in Trades /\ Pc(t) = "send" /\ Pc(t)' = "confirm"
        /\ Tx(t) = tx[q] /\ Tx(t)' = tx'[q]
    BY <1>2, WhereItIs DEF t
  <1>5. Tx(t)' \in {Tx(t), "pending"}
    BY <1>4 DEF Send, TradeTypeOK
  <1>6. /\ Recorded("trade.intended", t) /\ Clean(t) /\ t \in open /\ signature[t] = 1
        /\ ~Recorded("trade.completed", t) /\ t \notin paid
    BY <1>4 DEF Good, t, Place, Books, Holding, Sealed
  <1>7. Clean(t)'
    BY <1>3, <1>6 DEF Clean
  <1>8. Place(t)'
    BY <1>1, <1>3, <1>4, <1>6, <1>7 DEF Place, Early, BeforeHold, Holding, Unsealed, Sealed
  <1>9. Books(t)'
    BY <1>1, <1>3, <1>6, <1>7 DEF Books, Good, t
  <1>10. QED
    BY <1>8, <1>9 DEF Good, t

LEMMA Settling ==
    ASSUME OneDelivery, TradeTypeOK, NEW q \in Reqs, Good(TradeOf(q)), Settle(q)
    PROVE  Good(TradeOf(q))'
  <1> DEFINE t == TradeOf(q)
  <1>1. t \in Trades /\ Tx(t)' = Tx(t) /\ signature' = signature
    BY OneRequest DEF Settle, Tx
  <1>2. Goto(q, "signed") /\ req[q].pc = "settle"
    BY DEF Settle
  <1>3. \A type : Recorded(type, t)' <=> Recorded(type, t) \/ type = "trade.completed"
    BY Noted DEF Settle
  <1>4. t \in open => t \in paid' /\ t \notin open'
    BY DEF Settle
  <1> HIDE DEF t
  <1>5. Pc(t) = "settle" /\ Pc(t)' = "signed"
    BY <1>2, WhereItIs DEF t
  <1>6. /\ Recorded("trade.intended", t) /\ Clean(t) /\ t \in open /\ signature[t] = 1
        /\ Recorded("trade.submitted", t) /\ Tx(t) = "landed"
    BY <1>5 DEF Good, t, Place, Books, Holding, Sealed
  <1>7. /\ Clean(t)' /\ Recorded("trade.completed", t)' /\ Recorded("trade.intended", t)'
        /\ Recorded("trade.submitted", t)'
    BY <1>3, <1>6 DEF Clean
  <1>8. Place(t)'
    BY <1>5 DEF Place, Early, BeforeHold, Holding, Handling, Unsealed, Sealed
  <1>9. Books(t)'
    BY <1>1, <1>4, <1>6, <1>7 DEF Books
  <1>10. QED
    BY <1>8, <1>9 DEF Good, t

(* Whatever the request does next.                                         *)
LEMMA OwnTrade ==
    ASSUME OneDelivery, TradeTypeOK, NEW q \in Reqs, Good(TradeOf(q)), SignerStep(q) \/ Throw(q)
    PROVE  Good(TradeOf(q))'
  <1> USE DEF Early, BeforeHold, Holding, Handling, Over
  <1>1. CASE Refuse(q)
    <2>1. CASE WriteRefusal(q) /\ Goto(q, "refused")
      BY <1>1, <2>1, Refusing DEF Refuse
    <2>2. CASE Goto(q, "error") /\ UNCHANGED <<facts, open>>
      BY <1>1, <2>2, NotAllowed DEF Refuse
    <2>3. QED
      BY <1>1, <2>1, <2>2 DEF Refuse
  <1>2. CASE RefuseHeld(q)
    <2>1. CASE WriteRefusal(q) /\ Goto(q, "giveBack")
      BY <1>2, <2>1, Refusing DEF RefuseHeld
    <2>2. CASE Goto(q, "broken") /\ UNCHANGED <<facts, open>>
      BY <1>2, <2>2, NotAllowed DEF RefuseHeld
    <2>3. QED
      BY <1>2, <2>1, <2>2 DEF RefuseHeld
  <1>3. CASE Hold(q)
    <2>1. CASE WriteIntent(q) /\ Goto(q, "submit")
      BY <1>3, <2>1, Intending DEF Hold
    <2>2. CASE (Goto(q, "refused") \/ Goto(q, "error")) /\ UNCHANGED <<facts, open>>
      BY <1>3, <2>2, NotAllowed DEF Hold
    <2>3. QED
      BY <1>3, <2>1, <2>2 DEF Hold
  <1>4. CASE GiveBack(q)
    <2>1. CASE WriteFailure(TradeOf(q)) /\ (Goto(q, "refused") \/ Goto(q, "error"))
      BY <1>4, <2>1, Failing DEF GiveBack
    <2>2. CASE Goto(q, "error") /\ UNCHANGED <<facts, open>>
      BY <1>4, <2>2, NotAllowed DEF GiveBack
    <2>3. QED
      BY <1>4, <2>1, <2>2 DEF GiveBack
  <1>5. CASE RecordSubmission(q)
    <2>1. CASE /\ Goto(q, "send") /\ facts' = facts \cup {Fact("trade.submitted", q)}
               /\ signature' = [signature EXCEPT ![TradeOf(q)] = q[2]]
      BY <1>5, <2>1, Recording DEF RecordSubmission
    <2>2. CASE Goto(q, "broken") /\ UNCHANGED <<facts, signature>>
      BY <1>5, <2>2, NotAllowed DEF RecordSubmission
    <2>3. QED
      BY <1>5, <2>1, <2>2 DEF RecordSubmission
  <1>6. CASE Release(q)
    BY <1>6, Failing DEF Release
  <1>7. QED
    BY <1>1, <1>2, <1>3, <1>4, <1>5, <1>6, Deciding, Sending, Settling DEF SignerStep

-----------------------------------------------------------------------------
(* Every other step.                                                       *)

LEMMA Proposing ==
    ASSUME OneDelivery, MInv, NEW n \in Nodes, NEW p \in Trades, NEW d \in Skew,
           Propose(n, p, d), NEW t \in Trades
    PROVE  Good(t)'
  <1>1. t \in Trades /\ Good(t) /\ <<p, 1>> \in Reqs /\ <<t, 1>> \in Reqs
    BY RequestOf DEF MInv
  <1>2. Quiet(t)
    BY NothingWritten DEF Propose, recordVars
  <1>3. Pc(t)' = Pc(t) \/ (Pc(t) = "free" /\ Pc(t)' = "halt")
    <2>1. CASE t = p
      BY <1>1, <2>1 DEF Propose, Pc, MInv, TradeTypeOK
    <2>2. CASE t # p
      BY <1>1, <2>2 DEF Propose, Pc, MInv, TradeTypeOK
    <2>3. QED
      BY <2>1, <2>2
  <1>4. CASE Pc(t)' = Pc(t)
    BY <1>1, <1>2, <1>4, UntouchedStays DEF Untouched
  <1>5. CASE Pc(t) \in Early /\ Pc(t)' \in BeforeHold
    BY <1>1, <1>2, <1>5, QuietPlace, QuietBooks DEF Good
  <1>6. QED
    BY <1>3, <1>4, <1>5 DEF Early, BeforeHold

LEMMA Crashing ==
    ASSUME OneDelivery, MInv, SignerCrash, NEW t \in Trades
    PROVE  Good(t)'
  <1>1. Good(t) /\ <<t, 1>> \in Reqs
    BY RequestOf DEF MInv
  <1>2. Quiet(t)
    BY NothingWritten DEF SignerCrash, recordVars
  <1>3. Pc(t)' = Pc(t) \/ (Pc(t) \in Working /\ Pc(t)' = "error")
    <2>1. [req[<<t, 1>>] EXCEPT !.pc = "error"].pc = "error"
      BY <1>1 DEF MInv, TradeTypeOK, Request
    <2>2. QED
      BY <1>1, <2>1 DEF SignerCrash, Pc
  <1>4. CASE Pc(t)' = Pc(t)
    BY <1>1, <1>2, <1>4, UntouchedStays DEF Untouched
  <1>5. CASE Pc(t) \in Working /\ Pc(t)' \in Over
    BY <1>1, <1>2, <1>5, QuietPlace, QuietBooks DEF Good, Working, Early
  <1>6. QED
    BY <1>3, <1>4, <1>5 DEF Over

(* The chain may decide on what was recorded and sent, and on nothing else.*)
LEMMA ChainDeciding ==
    ASSUME OneDelivery, MInv, NEW q \in Reqs, ChainDecides(q), NEW t \in Trades
    PROVE  Good(t)'
  <1>1. /\ Good(t) /\ <<t, 1>> \in Reqs
        /\ q = <<TradeOf(q), 1>> /\ TradeOf(q) \in Trades /\ q[2] = 1
    BY RequestOf, OneRequest DEF MInv
  <1>2. UNCHANGED <<req, facts, signature, open, paid>>
    BY DEF ChainDecides, recordVars
  <1>3. Pc(t)' = Pc(t) /\ (\A type \in Said : Recorded(type, t)' <=> Recorded(type, t))
    BY <1>2 DEF Pc, Recorded
  <1>4. CASE t # TradeOf(q)
    <2>1. Tx(t)' = Tx(t)
      BY <1>1, <1>4 DEF ChainDecides, Tx, MInv, TradeTypeOK
    <2>2. QED
      BY <1>1, <1>2, <1>3, <2>1, UntouchedStays DEF Untouched, Quiet
  <1>5. CASE t = TradeOf(q)
    <2>1. \/ Tx(t) = "pending" /\ Tx(t)' \in {"landed", "failed", "expired"}
          \/ Tx(t) = "none" /\ signature[t] = 1 /\ Tx(t)' = "expired"
      BY <1>1, <1>5 DEF ChainDecides, Tx, MInv, TradeTypeOK
    <2>2. Clean(t)' <=> Clean(t)
      BY <1>3 DEF Clean, Said
    <2>3. signature[t] = 1 /\ Clean(t) /\ ~Recorded("trade.completed", t)
      <3>1. signature[t] \in 1 .. 1 \cup {0}
        BY DEF MInv, TradeTypeOK, Attempts, OneDelivery
      <3>2. signature[t] = 1
        BY <1>1, <2>1, <3>1 DEF Good, Books
      <3>3. QED
        BY <1>1, <2>1, <3>2 DEF Good, Books
    <2>4. Place(t)'
      BY <1>1, <1>2, <1>3, <2>1, <2>2 DEF Good, Place, Said
    <2>5. Books(t)'
      BY <1>1, <1>2, <1>3, <2>1, <2>2, <2>3 DEF Good, Books, Said
    <2>6. QED
      BY <2>4, <2>5 DEF Good
  <1>6. QED
    BY <1>4, <1>5

LEMMA MInitially == OneDelivery /\ TradeInit => MInv
  <1> SUFFICES ASSUME OneDelivery, TradeInit PROVE MInv
    OBVIOUS
  <1>1. TradeTypeOK
    BY TradeInitTypeOK
  <1>2. ASSUME NEW t \in Trades PROVE Good(t)
    <2>1. Pc(t) = "free" /\ Tx(t) = "none" /\ signature[t] = 0
      BY RequestOf DEF TradeInit, Pc, Tx, NoRequest
    <2>2. t \notin open /\ t \notin paid /\ \A type : ~Recorded(type, t)
      BY DEF TradeInit, Recorded
    <2>3. Clean(t)
      BY <2>2 DEF Clean
    <2>4. QED
      BY <2>1, <2>2, <2>3 DEF Good, Place, Books, Early, BeforeHold, Holding, Handling, Unsealed,
         Sealed
  <1>3. QED
    BY <1>1, <1>2 DEF MInv

LEMMA MNext == OneDelivery /\ MInv /\ [TradeNext]_tradePathVars => MInv'
  <1> SUFFICES ASSUME OneDelivery, MInv, [TradeNext]_tradePathVars PROVE MInv'
    OBVIOUS
  <1>1. TradeTypeOK /\ TradeTypeOK'
    BY TradeNextTypeOK DEF MInv
  <1>2. ASSUME NEW t \in Trades PROVE Good(t)'
    <2>1. ASSUME NEW q \in Reqs, SignerStep(q) \/ Throw(q) PROVE Good(t)'
      BY <1>1, <2>1, OwnTrade, OtherTrades, UntouchedStays DEF MInv
    <2>2. ASSUME NEW n \in Nodes, NEW p \in Trades, NEW d \in Skew, Propose(n, p, d)
          PROVE  Good(t)'
      BY <2>2, Proposing
    <2>3. ASSUME NEW p \in Trades, NEW k \in Attempts, Redeliver(p, k) PROVE Good(t)'
      BY <2>3 DEF Redeliver, Attempts, OneDelivery
    <2>4. CASE SignerCrash
      BY <2>4, Crashing
    <2>5. ASSUME NEW q \in Reqs, ChainDecides(q) PROVE Good(t)'
      BY <2>5, ChainDeciding
    <2>6. CASE \/ QueueOrNode \/ EngageHalt \/ ReleaseHalt \/ OwnerActs
               \/ \E n \in Nodes : HearOrGiveUp(n)
               \/ UNCHANGED tradePathVars
      <3>1. UNCHANGED <<req, facts, signature, open, paid, tx>>
        BY <2>6 DEF QueueOrNode, EngageHalt, ReleaseHalt, OwnerActs, HearOrGiveUp, tradePathVars,
           tradeVars, recordVars
      <3>2. Untouched(t)
        BY <3>1, NothingWritten DEF Untouched, Pc
      <3>3. QED
        BY <3>2, UntouchedStays DEF MInv
    <2>7. QED
      BY <2>1, <2>2, <2>3, <2>4, <2>5, <2>6 DEF TradeNext
  <1>3. QED
    BY <1>1, <1>2 DEF MInv

(* With one delivery, the two halves hold of every trade, always.          *)
LEMMA MInvariant ==
    ASSUME OneDelivery
    PROVE  TradeSpec => []MInv
  <1>1. TradeInit => MInv
    BY MInitially
  <1>2. MInv /\ [TradeNext]_tradePathVars => MInv'
    BY MNext
  <1>3. QED
    BY <1>1, <1>2, PTL DEF TradeSpec

(* Money that has left or may still leave the wallet is held or settled in *)
(* the budget, whatever crashes, throws or lapses (ledger.ts, record.ts).  *)
THEOREM SpendsCovered ==
    ASSUME OneDelivery
    PROVE  TradeSpec => []SpendsAreCovered
  <1>1. MInv => SpendsAreCovered
    <2> SUFFICES ASSUME MInv, NEW q \in Reqs, Live(q) PROVE TradeOf(q) \in open \cup paid
      BY DEF SpendsAreCovered
    <2> DEFINE t == TradeOf(q)
    <2>1. t \in Trades /\ Tx(t) \in {"pending", "landed"} /\ Good(t)
      BY OneRequest DEF Live, Tx, MInv
    <2>2. signature[t] \in 1 .. 1 \cup {0}
      BY <2>1 DEF MInv, TradeTypeOK, Attempts, OneDelivery
    <2> HIDE DEF t
    <2>3. signature[t] = 1 /\ Clean(t)
      BY <2>1, <2>2 DEF Good, Books
    <2>4. t \in open \/ t \in paid
      BY <2>1, <2>3 DEF Good, Books
    <2>5. QED
      BY <2>4 DEF t
  <1>2. QED
    BY <1>1, MInvariant, PTL

(* The record never says of a trade that it did not happen while its       *)
(* transaction has landed or still can, nor that it happened when it did   *)
(* not, whoever writes it and whenever (record.ts, submit-once.ts).        *)
THEOREM RecordIsTrue ==
    ASSUME OneDelivery
    PROVE  TradeSpec => []RecordTellsTheTruth
  <1>1. MInv => RecordTellsTheTruth
    <2> SUFFICES ASSUME MInv, NEW q \in Reqs
                 PROVE  /\ ~Clean(TradeOf(q)) => ~Live(q)
                        /\ Recorded("trade.completed", TradeOf(q)) => tx[q] = "landed"
      BY DEF RecordTellsTheTruth, Clean
    <2> DEFINE t == TradeOf(q)
    <2>1. t \in Trades /\ tx[q] = Tx(t) /\ Good(t)
      BY OneRequest DEF Tx, MInv
    <2> HIDE DEF t
    <2>2. /\ ~Clean(t) => Tx(t) \notin {"pending", "landed"}
          /\ Recorded("trade.completed", t) => Tx(t) = "landed"
      BY <2>1 DEF Good, Books
    <2>3. QED
      BY <2>1, <2>2 DEF Live, t
  <1>2. QED
    BY <1>1, MInvariant, PTL

-----------------------------------------------------------------------------
(* The composition keeps a machine's money the way Escrow does.            *)

\* The stages and fates of every trade, as Escrow has them.
Stages == [t \in Trades |-> StageOf(t)]
Fates == [t \in Trades |-> FateOf(t)]

ReadStage(t) ==
    IF Recorded("trade.completed", t) THEN "paid"
    ELSE IF ~Clean(t) THEN IF Recorded("trade.intended", t) THEN "freed" ELSE "none"
    ELSE IF Recorded("trade.submitted", t) THEN "out"
    ELSE IF Recorded("trade.intended", t) THEN "held" ELSE "none"

ReadFate(t) ==
    IF Tx(t) = "landed" THEN "landed"
    ELSE IF Tx(t) = "pending" THEN "pending"
    ELSE IF Tx(t) = "none" THEN "unsent" ELSE "dead"

LEMMA StageIs == ASSUME NEW t PROVE StageOf(t) = ReadStage(t)
  BY DEF StageOf, ReadStage, Clean

LEMMA FateIs == ASSUME OneDelivery, NEW t PROVE FateOf(t) = ReadFate(t)
  <1>1. \A state : (\E k \in Attempts : tx[<<t, k>>] = state) <=> Tx(t) = state
    BY DEF OneDelivery, Attempts, Tx
  <1>2. (\A k \in Attempts : tx[<<t, k>>] = "none") <=> Tx(t) = "none"
    BY DEF OneDelivery, Attempts, Tx
  <1>3. QED
    BY <1>1, <1>2 DEF FateOf, ReadFate

LEMMA ReadNext ==
    ASSUME OneDelivery, NEW t
    PROVE  (StageOf(t) = ReadStage(t) /\ FateOf(t) = ReadFate(t))'
  <1>1. StageOf(t) = ReadStage(t) /\ FateOf(t) = ReadFate(t)
    BY StageIs, FateIs
  <1>2. QED
    BY <1>1, PTL

(* What Escrow calls committed is what the signer's budget counts.         *)
LEMMA Counted ==
    ASSUME MInv
    PROVE  /\ Purse!Committed = open \cup paid
           /\ Available \in Int
           /\ Cardinality(Purse!Committed) \in Nat
           /\ Available = Capacity - Cardinality(Purse!Committed)
  <1>1. \A t \in Trades : StageOf(t) \in {"held", "out", "paid"} <=> t \in open \cup paid
    <2> SUFFICES ASSUME NEW t \in Trades
                 PROVE  StageOf(t) \in {"held", "out", "paid"} <=> t \in open \cup paid
      OBVIOUS
    <2>1. Books(t) /\ signature[t] \in Attempts \cup {0}
      BY DEF MInv, Good, TradeTypeOK
    <2>2. Recorded("trade.completed", t) => StageOf(t) = "paid" /\ t \in paid
      BY <2>1, StageIs DEF Books, ReadStage
    <2>3. CASE ~Recorded("trade.completed", t) /\ ~Clean(t)
      BY <2>1, <2>3, StageIs DEF Books, ReadStage
    <2>4. CASE ~Recorded("trade.completed", t) /\ Clean(t)
      BY <2>1, <2>4, StageIs DEF Books, ReadStage
    <2>5. QED
      BY <2>2, <2>3, <2>4
  <1>2. open \subseteq Trades /\ paid \subseteq Trades /\ open \cap paid = {}
    BY DEF MInv, Good, Books, TradeTypeOK
  <1>3. Purse!Committed = open \cup paid
    BY <1>1, <1>2 DEF Purse!Committed
  <1>4. IsFiniteSet(open) /\ IsFiniteSet(paid)
    BY <1>2, FS_Subset, TradePathAssumption
  <1>5. /\ Cardinality(open) \in Nat /\ Cardinality(paid) \in Nat
        /\ Cardinality(open \cap paid) = 0
    BY <1>2, <1>4, FS_CardinalityType, FS_EmptySet
  <1>6. Cardinality(open \cup paid) = Cardinality(open) + Cardinality(paid)
    <2>1. Cardinality(open \cup paid)
            = Cardinality(open) + Cardinality(paid) - Cardinality(open \cap paid)
      BY <1>4, FS_Union
    <2>2. QED
      BY <1>5, <2>1
  <1>7. QED
    BY <1>3, <1>5, <1>6, TradePathAssumption DEF Available

\* Escrow counts as this module does.
LEMMA SameCount == ASSUME NEW S PROVE Purse!Cardinality(S) = Cardinality(S)
  BY DEF Purse!Cardinality, Cardinality

(* A step about one trade, seen by Escrow.                                 *)
LEMMA Unread ==
    ASSUME OneDelivery, NEW t \in Trades, Quiet(t)
    PROVE  StageOf(t)' = StageOf(t) /\ FateOf(t)' = FateOf(t)
  <1>1. /\ \A type \in Said : Recorded(type, t)' <=> Recorded(type, t)
        /\ Tx(t)' = Tx(t)
    BY DEF Quiet
  <1>2. Clean(t)' <=> Clean(t)
    BY <1>1 DEF Clean, Said
  <1>3. ReadStage(t)' = ReadStage(t) /\ ReadFate(t)' = ReadFate(t)
    BY <1>1, <1>2 DEF ReadStage, ReadFate, Said
  <1>4. QED
    BY <1>3, StageIs, FateIs, ReadNext

LEMMA OneStage ==
    ASSUME OneDelivery, NEW t \in Trades, \A u \in Trades : u # t => Quiet(u),
           FateOf(t)' = FateOf(t)
    PROVE  Fates' = Fates /\ Stages' = [Stages EXCEPT ![t] = StageOf(t)']
  BY Unread DEF Stages, Fates

LEMMA OneFate ==
    ASSUME OneDelivery, NEW t \in Trades, \A u \in Trades : u # t => Quiet(u),
           StageOf(t)' = StageOf(t)
    PROVE  Stages' = Stages /\ Fates' = [Fates EXCEPT ![t] = FateOf(t)']
  BY Unread DEF Stages, Fates

LEMMA Stutters ==
    ASSUME OneDelivery, \A t \in Trades : StageOf(t)' = StageOf(t) /\ FateOf(t)' = FateOf(t)
    PROVE  [Purse!EscrowNext]_(Purse!escrowVars)
  <1>1. Stages' = Stages /\ Fates' = Fates
    BY DEF Stages, Fates
  <1>2. QED
    BY <1>1 DEF Stages, Fates, Purse!escrowVars

LEMMA StageMoves ==
    ASSUME OneDelivery, NEW t \in Trades, \A u \in Trades : u # t => Quiet(u),
           FateOf(t)' = FateOf(t),
           \/ StageOf(t) = "none" /\ StageOf(t)' = "held" /\ Cardinality(Purse!Committed) < Capacity
           \/ StageOf(t) = "held" /\ StageOf(t)' \in {"out", "freed"}
           \/ StageOf(t) = "out" /\ StageOf(t)' = "paid" /\ FateOf(t) = "landed"
           \/ StageOf(t) = "out" /\ StageOf(t)' = "freed" /\ FateOf(t) = "dead"
    PROVE  [Purse!EscrowNext]_(Purse!escrowVars)
  <1>1. Fates' = Fates /\ Stages' = [Stages EXCEPT ![t] = StageOf(t)']
    BY OneStage
  <1>2. Stages[t] = StageOf(t) /\ Fates[t] = FateOf(t)
    BY DEF Stages, Fates
  <1>3. Purse!Move(t, StageOf(t), StageOf(t)')
    BY <1>1, <1>2 DEF Purse!Move, Stages, Fates
  <1>4. CASE /\ StageOf(t) = "none" /\ StageOf(t)' = "held"
             /\ Cardinality(Purse!Committed) < Capacity
    <2>1. Purse!SetAside(t)
      BY <1>3, <1>4, SameCount DEF Purse!SetAside
    <2>2. QED
      BY <2>1 DEF Purse!EscrowNext
  <1>5. CASE StageOf(t) = "held" /\ StageOf(t)' \in {"out", "freed"}
    <2>1. Purse!LetGo(t) \/ Purse!Free(t)
      BY <1>3, <1>5 DEF Purse!LetGo, Purse!Free
    <2>2. QED
      BY <2>1 DEF Purse!EscrowNext
  <1>6. CASE StageOf(t) = "out" /\ StageOf(t)' = "paid" /\ FateOf(t) = "landed"
    <2>1. Purse!Pay(t)
      BY <1>2, <1>3, <1>6 DEF Purse!Pay, Fates
    <2>2. QED
      BY <2>1 DEF Purse!EscrowNext
  <1>7. CASE StageOf(t) = "out" /\ StageOf(t)' = "freed" /\ FateOf(t) = "dead"
    <2>1. Purse!Free(t)
      BY <1>2, <1>3, <1>7 DEF Purse!Free, Fates
    <2>2. QED
      BY <2>1 DEF Purse!EscrowNext
  <1>8. QED
    BY <1>4, <1>5, <1>6, <1>7

LEMMA FateMoves ==
    ASSUME OneDelivery, NEW t \in Trades, \A u \in Trades : u # t => Quiet(u),
           StageOf(t)' = StageOf(t), StageOf(t) = "out",
           \/ FateOf(t) = "unsent" /\ FateOf(t)' \in {"pending", "dead"}
           \/ FateOf(t) = "pending" /\ FateOf(t)' \in {"landed", "dead"}
    PROVE  [Purse!EscrowNext]_(Purse!escrowVars)
  <1>1. Stages' = Stages /\ Fates' = [Fates EXCEPT ![t] = FateOf(t)']
    BY OneFate
  <1>2. Stages[t] = StageOf(t) /\ Fates[t] = FateOf(t)
    BY DEF Stages, Fates
  <1>3. \A from : FateOf(t) \in from => Purse!Happen(t, from, FateOf(t)')
    BY <1>1, <1>2 DEF Purse!Happen, Stages, Fates
  <1>4. Purse!Arrive(t) \/ Purse!Land(t) \/ Purse!Die(t)
    BY <1>3 DEF Purse!Arrive, Purse!Land, Purse!Die
  <1>5. QED
    BY <1>4 DEF Purse!EscrowNext

LEMMA NothingMoves ==
    ASSUME OneDelivery, UNCHANGED <<facts, signature, open, paid, tx>>
    PROVE  [Purse!EscrowNext]_(Purse!escrowVars)
  BY NothingWritten, Unread, Stutters

(* What a step that writes an event makes of its trade's stage.            *)
LEMMA Rewritten ==
    ASSUME OneDelivery, NEW q \in Reqs, NEW type, tx' = tx,
           \/ facts' = facts \cup {Fact(type, q)}
           \/ facts' = facts \cup {ChainFact(type, TradeOf(q))},
           NEW t, t = TradeOf(q)
    PROVE  /\ StageOf(t) = ReadStage(t) /\ StageOf(t)' = ReadStage(t)'
           /\ FateOf(t) = ReadFate(t) /\ FateOf(t)' = FateOf(t)
           /\ \A ty : Recorded(ty, t)' <=> Recorded(ty, t) \/ ty = type
  <1>1. \A ty : Recorded(ty, t)' <=> Recorded(ty, t) \/ ty = type
    BY Noted
  <1>2. ReadFate(t)' = ReadFate(t)
    BY DEF ReadFate, Tx
  <1>3. QED
    BY <1>1, <1>2, StageIs, FateIs, ReadNext

LEMMA RefusingKeeps ==
    ASSUME OneDelivery, MInv, NEW q \in Reqs, SignerStep(q), WriteRefusal(q), tx' = tx,
           req[q].pc \in {"refuse", "refuseHeld"}
    PROVE  [Purse!EscrowNext]_(Purse!escrowVars)
  <1> DEFINE t == TradeOf(q)
  <1>1. t \in Trades /\ Good(t) /\ Pc(t) = req[q].pc /\ \A u \in Trades : u # t => Quiet(u)
    BY OneRequest, OtherTrades DEF MInv, Pc, Untouched
  <1>2. /\ StageOf(t) = ReadStage(t) /\ StageOf(t)' = ReadStage(t)' /\ FateOf(t)' = FateOf(t)
        /\ \A ty : Recorded(ty, t)' <=> Recorded(ty, t) \/ ty = "trade.refused"
    BY Rewritten DEF WriteRefusal
  <1> HIDE DEF t
  <1>3. signature[t] = 0 /\ Clean(t) /\ (Pc(t) = "refuse" <=> ~Recorded("trade.intended", t))
    BY <1>1 DEF Good, Place, Early, BeforeHold, Holding, Unsealed
  <1>4. ~Recorded("trade.completed", t) /\ ~Recorded("trade.submitted", t)
    BY <1>1, <1>3 DEF Good, Books
  <1>5. \/ StageOf(t) = "none" /\ StageOf(t)' = "none"
        \/ StageOf(t) = "held" /\ StageOf(t)' = "freed"
    BY <1>2, <1>3, <1>4 DEF ReadStage, Clean
  <1>6. CASE StageOf(t)' = StageOf(t)
    BY <1>1, <1>2, <1>6, Unread, Stutters
  <1>7. QED
    BY <1>1, <1>2, <1>5, <1>6, StageMoves

LEMMA IntendingKeeps ==
    ASSUME OneDelivery, MInv, NEW q \in Reqs, SignerStep(q), WriteIntent(q), tx' = tx,
           req[q].pc = "hold", Covered(q)
    PROVE  [Purse!EscrowNext]_(Purse!escrowVars)
  <1> DEFINE t == TradeOf(q)
  <1>1. t \in Trades /\ Good(t) /\ Pc(t) = req[q].pc /\ \A u \in Trades : u # t => Quiet(u)
    BY OneRequest, OtherTrades DEF MInv, Pc, Untouched
  <1>2. /\ StageOf(t) = ReadStage(t) /\ StageOf(t)' = ReadStage(t)' /\ FateOf(t)' = FateOf(t)
        /\ \A ty : Recorded(ty, t)' <=> Recorded(ty, t) \/ ty = "trade.intended"
    BY Rewritten DEF WriteIntent
  <1> HIDE DEF t
  <1>3. signature[t] = 0 /\ Clean(t) /\ ~Recorded("trade.intended", t)
    BY <1>1 DEF Good, Place, Early, BeforeHold
  <1>4. ~Recorded("trade.completed", t) /\ ~Recorded("trade.submitted", t)
    BY <1>1, <1>3 DEF Good, Books
  <1>5. StageOf(t) = "none" /\ StageOf(t)' = "held"
    BY <1>2, <1>3, <1>4 DEF ReadStage, Clean
  <1>6. Cardinality(Purse!Committed) < Capacity
    BY Counted, TradePathAssumption DEF Covered
  <1>7. QED
    BY <1>1, <1>2, <1>5, <1>6, StageMoves

LEMMA FailingKeeps ==
    ASSUME OneDelivery, MInv, NEW q \in Reqs, SignerStep(q), WriteFailure(TradeOf(q)), tx' = tx,
           req[q].pc \in {"giveBack", "undo", "release"}
    PROVE  [Purse!EscrowNext]_(Purse!escrowVars)
  <1> DEFINE t == TradeOf(q)
  <1>1. t \in Trades /\ Good(t) /\ Pc(t) = req[q].pc /\ \A u \in Trades : u # t => Quiet(u)
    BY OneRequest, OtherTrades DEF MInv, Pc, Untouched
  <1>2. /\ StageOf(t) = ReadStage(t) /\ StageOf(t)' = ReadStage(t)' /\ FateOf(t)' = FateOf(t)
        /\ FateOf(t) = ReadFate(t)
        /\ \A ty : Recorded(ty, t)' <=> Recorded(ty, t) \/ ty = "trade.failed"
    BY Rewritten DEF WriteFailure
  <1> HIDE DEF t
  <1>3. CASE Pc(t) \in {"giveBack", "undo"}
    <2>1. signature[t] = 0 /\ Recorded("trade.intended", t)
      BY <1>1, <1>3 DEF Good, Place, Handling
    <2>2. ~Recorded("trade.completed", t) /\ ~Recorded("trade.submitted", t)
      BY <1>1, <2>1 DEF Good, Books
    <2>3. StageOf(t) \in {"held", "freed"} /\ StageOf(t)' = "freed"
      BY <1>2, <2>1, <2>2 DEF ReadStage, Clean
    <2>4. CASE StageOf(t)' = StageOf(t)
      BY <1>1, <1>2, <2>4, Unread, Stutters
    <2>5. QED
      BY <1>1, <1>2, <2>3, <2>4, StageMoves
  <1>4. CASE Pc(t) = "release"
    <2>1. /\ signature[t] = 1 /\ Clean(t) /\ Tx(t) \in {"failed", "expired"}
      BY <1>1, <1>4 DEF Good, Place, Holding, Sealed
    <2>2. /\ Recorded("trade.intended", t) /\ Recorded("trade.submitted", t)
          /\ ~Recorded("trade.completed", t)
      BY <1>1, <2>1 DEF Good, Books
    <2>3. StageOf(t) = "out" /\ StageOf(t)' = "freed" /\ FateOf(t) = "dead"
      BY <1>2, <2>1, <2>2 DEF ReadStage, ReadFate, Clean
    <2>4. QED
      BY <1>1, <1>2, <2>3, StageMoves
  <1>5. QED
    BY <1>1, <1>3, <1>4

LEMMA RecordingKeeps ==
    ASSUME OneDelivery, MInv, NEW q \in Reqs, SignerStep(q), tx' = tx, req[q].pc = "record",
           facts' = facts \cup {Fact("trade.submitted", q)}
    PROVE  [Purse!EscrowNext]_(Purse!escrowVars)
  <1> DEFINE t == TradeOf(q)
  <1>1. t \in Trades /\ Good(t) /\ Pc(t) = req[q].pc /\ \A u \in Trades : u # t => Quiet(u)
    BY OneRequest, OtherTrades DEF MInv, Pc, Untouched
  <1>2. /\ StageOf(t) = ReadStage(t) /\ StageOf(t)' = ReadStage(t)' /\ FateOf(t)' = FateOf(t)
        /\ \A ty : Recorded(ty, t)' <=> Recorded(ty, t) \/ ty = "trade.submitted"
    BY Rewritten
  <1> HIDE DEF t
  <1>3. signature[t] = 0 /\ Clean(t) /\ Recorded("trade.intended", t)
    BY <1>1 DEF Good, Place, Holding, Unsealed
  <1>4. ~Recorded("trade.completed", t) /\ ~Recorded("trade.submitted", t)
    BY <1>1, <1>3 DEF Good, Books
  <1>5. StageOf(t) = "held" /\ StageOf(t)' = "out"
    BY <1>2, <1>3, <1>4 DEF ReadStage, Clean
  <1>6. QED
    BY <1>1, <1>2, <1>5, StageMoves

LEMMA SettlingKeeps ==
    ASSUME OneDelivery, MInv, NEW q \in Reqs, SignerStep(q), Settle(q)
    PROVE  [Purse!EscrowNext]_(Purse!escrowVars)
  <1> DEFINE t == TradeOf(q)
  <1>0. tx' = tx /\ req[q].pc = "settle" /\ facts' = facts \cup {ChainFact("trade.completed", t)}
    BY DEF Settle
  <1>1. t \in Trades /\ Good(t) /\ Pc(t) = req[q].pc /\ \A u \in Trades : u # t => Quiet(u)
    BY OneRequest, OtherTrades DEF MInv, Pc, Untouched
  <1>2. /\ StageOf(t) = ReadStage(t) /\ StageOf(t)' = ReadStage(t)' /\ FateOf(t)' = FateOf(t)
        /\ FateOf(t) = ReadFate(t)
        /\ \A ty : Recorded(ty, t)' <=> Recorded(ty, t) \/ ty = "trade.completed"
    BY <1>0, Rewritten
  <1> HIDE DEF t
  <1>3. signature[t] = 1 /\ Clean(t) /\ Tx(t) = "landed" /\ t \in open
    BY <1>0, <1>1 DEF Good, Place, Holding, Sealed
  <1>4. /\ ~Recorded("trade.completed", t) /\ Recorded("trade.submitted", t)
        /\ Recorded("trade.intended", t)
    BY <1>1, <1>3 DEF Good, Books
  <1>5. StageOf(t) = "out" /\ StageOf(t)' = "paid" /\ FateOf(t) = "landed"
    BY <1>2, <1>3, <1>4 DEF ReadStage, ReadFate
  <1>6. QED
    BY <1>1, <1>2, <1>5, StageMoves

(* The two steps that move the transaction and write nothing.              *)
LEMMA Fated ==
    ASSUME OneDelivery, MInv, NEW t \in Trades, UNCHANGED facts,
           \A u \in Trades : u # t => Quiet(u),
           signature[t] = 1, Clean(t), ~Recorded("trade.completed", t),
           \/ Tx(t)' = Tx(t)
           \/ Tx(t) = "none" /\ Tx(t)' \in {"pending", "expired"}
           \/ Tx(t) = "pending" /\ Tx(t)' \in {"landed", "failed", "expired"}
    PROVE  [Purse!EscrowNext]_(Purse!escrowVars)
  <1>1. \A type : Recorded(type, t)' <=> Recorded(type, t)
    BY DEF Recorded
  <1>2. Clean(t)' <=> Clean(t)
    BY <1>1 DEF Clean
  <1>3. StageOf(t)' = StageOf(t)
    BY <1>1, <1>2, StageIs, ReadNext DEF ReadStage
  <1>4. Recorded("trade.submitted", t)
    BY DEF MInv, Good, Books
  <1>5. StageOf(t) = "out"
    BY <1>4, StageIs DEF ReadStage
  <1>6. FateOf(t) = ReadFate(t) /\ FateOf(t)' = ReadFate(t)'
    BY FateIs, ReadNext
  <1>7. CASE Tx(t)' = Tx(t)
    <2>1. FateOf(t)' = FateOf(t)
      BY <1>6, <1>7 DEF ReadFate
    <2>2. QED
      BY <1>3, <2>1, Unread, Stutters
  <1>8. CASE \/ Tx(t) = "none" /\ Tx(t)' \in {"pending", "expired"}
             \/ Tx(t) = "pending" /\ Tx(t)' \in {"landed", "failed", "expired"}
    <2>1. \/ FateOf(t) = "unsent" /\ FateOf(t)' \in {"pending", "dead"}
          \/ FateOf(t) = "pending" /\ FateOf(t)' \in {"landed", "dead"}
      BY <1>6, <1>8 DEF ReadFate
    <2>2. QED
      BY <1>3, <1>5, <2>1, FateMoves
  <1>9. QED
    BY <1>7, <1>8

LEMMA SendingKeeps ==
    ASSUME OneDelivery, MInv, NEW q \in Reqs, SignerStep(q), Send(q)
    PROVE  [Purse!EscrowNext]_(Purse!escrowVars)
  <1> DEFINE t == TradeOf(q)
  <1>1. /\ t \in Trades /\ Good(t) /\ Pc(t) = req[q].pc /\ q = <<t, 1>>
        /\ \A u \in Trades : u # t => Quiet(u)
    BY OneRequest, OtherTrades DEF MInv, Pc, Untouched
  <1>2. facts' = facts /\ req[q].pc = "send"
    BY DEF Send, recordVars
  <1>3. Tx(t)' = Tx(t) \/ (Tx(t) = "none" /\ Tx(t)' = "pending")
    BY <1>1 DEF Send, Tx, MInv, TradeTypeOK
  <1> HIDE DEF t
  <1>4. signature[t] = 1 /\ Clean(t) /\ t \in open
    BY <1>1, <1>2 DEF Good, Place, Holding, Sealed
  <1>5. ~Recorded("trade.completed", t)
    BY <1>1, <1>4 DEF Good, Books
  <1>6. QED
    BY <1>1, <1>2, <1>3, <1>4, <1>5, Fated

LEMMA ChainKeeps ==
    ASSUME OneDelivery, MInv, NEW q \in Reqs, ChainDecides(q)
    PROVE  [Purse!EscrowNext]_(Purse!escrowVars)
  <1> DEFINE t == TradeOf(q)
  <1>1. t \in Trades /\ Good(t) /\ q = <<t, 1>> /\ q[2] = 1
    BY OneRequest DEF MInv
  <1>2. UNCHANGED <<facts, signature, open, paid>>
    BY DEF ChainDecides, recordVars
  <1>3. ASSUME NEW u \in Trades, u # t PROVE Quiet(u)
    <2>1. Tx(u)' = Tx(u)
      BY <1>1, <1>3 DEF ChainDecides, Tx, MInv, TradeTypeOK, Reqs
    <2>2. QED
      BY <1>2, <2>1 DEF Quiet, Recorded
  <1>4. \/ Tx(t) = "pending" /\ Tx(t)' \in {"landed", "failed", "expired"}
        \/ Tx(t) = "none" /\ signature[t] = 1 /\ Tx(t)' = "expired"
    <2>1. q \in Reqs /\ tx \in [Reqs -> TxState]
      BY DEF MInv, TradeTypeOK
    <2>2. QED
      BY <1>1, <2>1 DEF ChainDecides, Tx
  <1>5. signature[t] \in 1 .. 1 \cup {0}
    BY <1>1 DEF MInv, TradeTypeOK, Attempts, OneDelivery
  <1> HIDE DEF t
  <1>6. signature[t] = 1
    BY <1>1, <1>4, <1>5 DEF Good, Books
  <1>7. Clean(t) /\ ~Recorded("trade.completed", t)
    BY <1>1, <1>4, <1>6 DEF Good, Books
  <1>8. QED
    BY <1>1, <1>2, <1>3, <1>4, <1>6, <1>7, Fated

LEMMA RequestKeeps ==
    ASSUME OneDelivery, MInv, NEW q \in Reqs, SignerStep(q) \/ Throw(q)
    PROVE  [Purse!EscrowNext]_(Purse!escrowVars)
  <1> DEFINE Keeps == [Purse!EscrowNext]_(Purse!escrowVars)
  <1> HIDE DEF Keeps
  <1> SUFFICES Keeps
    BY DEF Keeps
  <1>1. CASE UNCHANGED <<facts, signature, open, paid, tx>>
    BY <1>1, NothingMoves DEF Keeps
  <1>2. CASE Refuse(q)
    BY <1>1, <1>2, RefusingKeeps DEF Refuse, SignerStep, Keeps
  <1>3. CASE RefuseHeld(q)
    BY <1>1, <1>3, RefusingKeeps DEF RefuseHeld, SignerStep, Keeps
  <1>4. CASE Hold(q)
    BY <1>1, <1>4, IntendingKeeps DEF Hold, SignerStep, Keeps
  <1>5. CASE GiveBack(q)
    BY <1>1, <1>5, FailingKeeps DEF GiveBack, SignerStep, Keeps
  <1>6. CASE Release(q)
    BY <1>6, FailingKeeps DEF Release, SignerStep, Keeps
  <1>7. CASE RecordSubmission(q)
    BY <1>1, <1>7, RecordingKeeps DEF RecordSubmission, SignerStep, Keeps
  <1>8. CASE Settle(q) \/ Send(q)
    BY <1>8, SettlingKeeps, SendingKeeps DEF SignerStep, Keeps
  <1>9. CASE \/ CheckHalt(q) \/ JudgeFacts(q) \/ JudgeBudget(q) \/ PauseMachine(q) \/ Broken(q)
             \/ Submit(q) \/ Sign(q) \/ Confirm(q) \/ Throw(q)
    BY <1>1, <1>9 DEF CheckHalt, JudgeFacts, JudgeBudget, PauseMachine, Broken, Submit, Sign,
       Confirm, Throw, recordVars
  <1>10. QED
    BY <1>2, <1>3, <1>4, <1>5, <1>6, <1>7, <1>8, <1>9 DEF SignerStep

LEMMA TradeStepKeeps ==
    ASSUME OneDelivery, MInv, [TradeNext]_tradePathVars
    PROVE  [Purse!EscrowNext]_(Purse!escrowVars)
  <1>1. ASSUME NEW q \in Reqs, SignerStep(q) \/ Throw(q)
        PROVE  [Purse!EscrowNext]_(Purse!escrowVars)
    BY <1>1, RequestKeeps
  <1>2. ASSUME NEW q \in Reqs, ChainDecides(q) PROVE [Purse!EscrowNext]_(Purse!escrowVars)
    BY <1>2, ChainKeeps
  <1>3. CASE \/ QueueOrNode \/ EngageHalt \/ ReleaseHalt \/ OwnerActs \/ SignerCrash
             \/ \E n \in Nodes : HearOrGiveUp(n)
             \/ \E n \in Nodes, t \in Trades, d \in Skew : Propose(n, t, d)
             \/ \E t \in Trades, k \in Attempts : Redeliver(t, k)
             \/ UNCHANGED tradePathVars
    <2>1. UNCHANGED <<facts, signature, open, paid, tx>>
      BY <1>3 DEF QueueOrNode, EngageHalt, ReleaseHalt, OwnerActs, SignerCrash, HearOrGiveUp,
         Propose, Redeliver, tradePathVars, tradeVars, recordVars
    <2>2. QED
      BY <2>1, NothingMoves
  <1>4. QED
    BY <1>1, <1>2, <1>3 DEF TradeNext

LEMMA TradeStartsEscrow ==
    ASSUME OneDelivery, TradeInit
    PROVE  Purse!EscrowInit
  <1>1. ASSUME NEW t \in Trades PROVE StageOf(t) = "none" /\ FateOf(t) = "unsent"
    <2>1. Tx(t) = "none" /\ \A type : ~Recorded(type, t)
      BY RequestOf DEF TradeInit, Tx, Recorded
    <2>2. ReadStage(t) = "none" /\ ReadFate(t) = "unsent"
      BY <2>1 DEF ReadStage, ReadFate, Clean
    <2>3. QED
      BY <2>2, StageIs, FateIs
  <1>2. QED
    BY <1>1 DEF Purse!EscrowInit

(* However many trades, nodes and runs there are, and whatever crashes,    *)
(* throws or lapses, the pipeline of the signer and the record keep a      *)
(* machine's money the way an escrow does (with-budget.ts, ledger.ts).     *)
THEOREM TradePathKeepsEscrow ==
    ASSUME OneDelivery
    PROVE  TradeSpec => KeepsEscrow
  <1>1. TradeInit => Purse!EscrowInit
    BY TradeStartsEscrow
  <1>2. MInv /\ [TradeNext]_tradePathVars => [Purse!EscrowNext]_(Purse!escrowVars)
    BY TradeStepKeeps
  <1>3. QED
    BY <1>1, <1>2, MInvariant, PTL DEF TradeSpec, KeepsEscrow, Purse!EscrowSpec

LEMMA GrantStays ==
    ASSUME OneDelivery, MInv, NeverOverGrant, [Purse!EscrowNext]_(Purse!escrowVars)
    PROVE  NeverOverGrant'
  <1> DEFINE C == Purse!Committed
  <1>1. C = {u \in Trades : Stages[u] \in {"held", "out", "paid"}}
    BY DEF Purse!Committed, Stages
  <1>2. C' = {u \in Trades : Stages'[u] \in {"held", "out", "paid"}}
    BY DEF Purse!Committed, Stages
  <1>3. Cardinality(C) <= Capacity
    BY SameCount DEF NeverOverGrant, Purse!WithinGrant
  <1>4. NeverOverGrant' <=> Cardinality(C') <= Capacity
    BY SameCount DEF NeverOverGrant, Purse!WithinGrant
  <1>5. IsFiniteSet(C) /\ Cardinality(C) \in Nat
    BY <1>1, FS_Subset, FS_CardinalityType, TradePathAssumption
  <1> HIDE DEF C
  <1>6. CASE C' \subseteq C
    <2>1. IsFiniteSet(C') /\ Cardinality(C') <= Cardinality(C)
      BY <1>5, <1>6, FS_Subset
    <2>2. Cardinality(C') \in Nat
      BY <2>1, FS_CardinalityType
    <2>3. QED
      BY <1>3, <1>4, <1>5, <2>1, <2>2, TradePathAssumption
  <1>7. ASSUME NEW t \in Trades, Purse!SetAside(t) PROVE NeverOverGrant'
    <2>1. Stages[t] = "none" /\ Stages' = [Stages EXCEPT ![t] = "held"]
      BY <1>7 DEF Purse!SetAside, Purse!Move, Stages
    <2>2. C' = C \cup {t} /\ t \notin C
      BY <1>1, <1>2, <2>1 DEF Stages
    <2>3. Cardinality(C') = Cardinality(C) + 1
      BY <1>5, <2>2, FS_AddElement
    <2>4. Cardinality(C) < Capacity
      BY <1>7, SameCount DEF Purse!SetAside, C
    <2>5. QED
      BY <1>4, <1>5, <2>3, <2>4, TradePathAssumption
  <1>8. ASSUME NEW t \in Trades,
               \/ Purse!LetGo(t) \/ Purse!Arrive(t) \/ Purse!Land(t) \/ Purse!Die(t)
               \/ Purse!Pay(t) \/ Purse!Free(t)
        PROVE  C' \subseteq C
    <2>1. \/ Stages' = Stages
          \/ /\ Stages[t] \in {"held", "out"}
             /\ \E to : Stages' = [Stages EXCEPT ![t] = to]
      BY <1>8 DEF Purse!LetGo, Purse!Arrive, Purse!Land, Purse!Die, Purse!Pay, Purse!Free,
         Purse!Move, Purse!Happen, Stages
    <2>2. QED
      BY <1>1, <1>2, <2>1 DEF Stages
  <1>9. CASE UNCHANGED Purse!escrowVars
    <2>1. Stages' = Stages
      BY <1>9 DEF Purse!escrowVars, Stages
    <2>2. QED
      BY <1>1, <1>2, <1>6, <2>1
  <1>10. QED
    BY <1>6, <1>7, <1>8, <1>9 DEF Purse!EscrowNext

(* The budget rebuilt from the record is never more than the grant, for    *)
(* any number of proposals at once (ledger.ts reserveForTrade).            *)
THEOREM GrantIsKept ==
    ASSUME OneDelivery
    PROVE  TradeSpec => []NeverOverGrant
  <1>1. TradeInit => NeverOverGrant
    <2> SUFFICES ASSUME TradeInit PROVE NeverOverGrant
      OBVIOUS
    <2>1. Purse!Committed = {}
      BY MInitially, Counted DEF TradeInit
    <2>2. Cardinality(Purse!Committed) = 0
      BY <2>1, FS_EmptySet
    <2>3. QED
      BY <2>2, SameCount, TradePathAssumption DEF NeverOverGrant, Purse!WithinGrant
  <1>2. MInv /\ NeverOverGrant /\ [TradeNext]_tradePathVars => NeverOverGrant'
    BY TradeStepKeeps, GrantStays
  <1>3. QED
    BY <1>1, <1>2, MInvariant, PTL DEF TradeSpec
=============================================================================
