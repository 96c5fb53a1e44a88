--------------------------- MODULE Leases_proofs ---------------------------
(***************************************************************************)
(* Proofs about Leases, for every set of nodes and runs, every lease       *)
(* length, every skew of the clocks and every number of faults.            *)
(***************************************************************************)
EXTENDS Leases, TLAPS

(* The inductive strengthening.  What makes the properties inductive is    *)
(* that everything ever granted or reported about a run carries an epoch   *)
(* no larger than the row's, that the row's holder is the one its epoch    *)
(* was granted to, and that only a done run has an outcome.                *)
EpochBound ==
    /\ \A g \in granted : g.epoch <= run[g.run].epoch
    /\ \A e \in reports : e.epoch <= run[e.run].epoch

IInv == TypeOK /\ EpochBound /\ OneHolderPerEpoch /\ OutcomeIffDone /\ OneOutcome

-----------------------------------------------------------------------------
(* Type correctness.                                                       *)

LEMMA InitTypeOK == Init => TypeOK
  BY LeasesAssumption DEF Init, TypeOK, Idle, RunState, ReportType, Lease, Row, Belief

(* What a claim writes, whether or not its answer arrives.                 *)
LEMMA GrantTypeOK ==
    ASSUME TypeOK, NEW n \in Nodes, NEW r \in Runs, NEW d \in Skew
    PROVE  /\ NextEpoch(r) \in Nat
           /\ [state |-> "leased", holder |-> n, epoch |-> NextEpoch(r), left |-> LeaseLength + d]
                \in Row
           /\ [phase |-> "claimed", run |-> r, epoch |-> NextEpoch(r), lost |-> FALSE] \in Belief
           /\ [run |-> r, epoch |-> NextEpoch(r), node |-> n] \in Lease
  <1>1. run[r].epoch \in Nat
    BY DEF TypeOK, Row
  <1>2. LeaseLength + d \in Int
    BY LeasesAssumption DEF Skew
  <1>3. QED
    BY <1>1, <1>2 DEF NextEpoch, RunState, Lease, Row, Belief

(* A node's report is a report, and forgetting a run leaves it idle.       *)
LEMMA ReportTypeOK ==
    ASSUME TypeOK, NEW n \in Nodes, node[n].phase # "idle", NEW type \in ReportType
    PROVE  Report(n, type) \in [run : Runs, epoch : Nat, node : Nodes, type : ReportType]
  BY DEF TypeOK, Report, Belief

LEMMA IdleTypeOK == Idle \in Belief /\ Idle.phase = "idle"
  BY DEF Idle, Belief

LEMMA BeliefTypeOK ==
    ASSUME TypeOK, NEW n \in Nodes, NEW b \in Belief, b.phase # "idle" => b.run \in Runs,
           node' = [node EXCEPT ![n] = b]
    PROVE  /\ node' \in [Nodes -> Belief]
           /\ \A m \in Nodes : node'[m].phase # "idle" => node'[m].run \in Runs
  <1>1. node' \in [Nodes -> Belief]
    BY DEF TypeOK
  <1>2. ASSUME NEW m \in Nodes, node'[m].phase # "idle" PROVE node'[m].run \in Runs
    <2>1. CASE m = n
      BY <2>1, <1>2 DEF TypeOK
    <2>2. CASE m # n
      BY <2>2, <1>2 DEF TypeOK
    <2>3. QED
      BY <2>1, <2>2
  <1>3. QED
    BY <1>1, <1>2

LEMMA NextTypeOK == TypeOK /\ [Next]_vars => TypeOK'
  <1> SUFFICES ASSUME TypeOK, [Next]_vars PROVE TypeOK'
    OBVIOUS
  <1>1. ASSUME NEW r \in Runs, QueueRun(r) PROVE TypeOK'
    BY <1>1 DEF QueueRun, RunState, TypeOK, Row
  <1>2. ASSUME NEW n \in Nodes, NEW r \in Runs, NEW d \in Skew,
               ClaimDueRun(n, r, d) \/ ClaimAnswerLost(n, r, d)
        PROVE  TypeOK'
    <2>1. /\ [state |-> "leased", holder |-> n, epoch |-> NextEpoch(r), left |-> LeaseLength + d]
               \in Row
          /\ [phase |-> "claimed", run |-> r, epoch |-> NextEpoch(r), lost |-> FALSE] \in Belief
          /\ [run |-> r, epoch |-> NextEpoch(r), node |-> n] \in Lease
      BY GrantTypeOK
    <2>2. run' \in [Runs -> Row] /\ granted' \subseteq Lease
      BY <1>2, <2>1 DEF ClaimDueRun, ClaimAnswerLost, TypeOK
    <2>3. /\ node' \in [Nodes -> Belief]
          /\ \A m \in Nodes : node'[m].phase # "idle" => node'[m].run \in Runs
      <3>1. CASE ClaimDueRun(n, r, d)
        BY <3>1, <2>1, BeliefTypeOK DEF ClaimDueRun
      <3>2. CASE ClaimAnswerLost(n, r, d)
        BY <3>2 DEF ClaimAnswerLost, TypeOK
      <3>3. QED
        BY <1>2, <3>1, <3>2
    <2>4. reports' = reports /\ faults' \in Nat
      BY <1>2 DEF ClaimDueRun, ClaimAnswerLost, TypeOK
    <2>5. QED
      BY <2>2, <2>3, <2>4 DEF TypeOK
  <1>3. ASSUME NEW n \in Nodes, NEW d \in Skew, ReportStarted(n, d) PROVE TypeOK'
    <2>1. Report(n, "run.started") \in [run : Runs, epoch : Nat, node : Nodes, type : ReportType]
      BY <1>3, ReportTypeOK DEF ReportStarted, ReportType
    <2>2. reports' \subseteq [run : Runs, epoch : Nat, node : Nodes, type : ReportType]
      BY <1>3, <2>1 DEF ReportStarted, TypeOK
    <2>3. PICK b \in Belief : /\ b.phase # "idle" => b.run \in Runs
                              /\ node' = [node EXCEPT ![n] = b]
      <3>1. /\ [node[n] EXCEPT !.phase = "running"] \in Belief
            /\ [node[n] EXCEPT !.phase = "running"].run \in Runs
        BY <1>3 DEF ReportStarted, TypeOK, Belief
      <3>2. \/ node' = [node EXCEPT ![n] = [node[n] EXCEPT !.phase = "running"]]
            \/ node' = [node EXCEPT ![n] = Idle]
        BY <1>3 DEF ReportStarted, TypeOK
      <3>3. QED
        BY <3>1, <3>2, IdleTypeOK
    <2>4. /\ node' \in [Nodes -> Belief]
          /\ \A m \in Nodes : node'[m].phase # "idle" => node'[m].run \in Runs
      BY <2>3, BeliefTypeOK
    <2>5. QED
      BY <1>3, <2>2, <2>4 DEF ReportStarted, TypeOK
  <1>4. ASSUME NEW n \in Nodes, NEW d \in Skew, RenewLease(n, d) PROVE TypeOK'
    <2>1. node[n].run \in Runs /\ [run[node[n].run] EXCEPT !.left = LeaseLength + d] \in Row
      <3>1. LeaseLength + d \in Int
        BY LeasesAssumption DEF Skew
      <3>2. node[n].run \in Runs /\ run[node[n].run] \in Row
        BY <1>4 DEF RenewLease, TypeOK
      <3>3. QED
        BY <3>1, <3>2 DEF Row
    <2>2. run' \in [Runs -> Row]
      BY <1>4, <2>1 DEF RenewLease, TypeOK
    <2>3. PICK b \in Belief : /\ b.phase # "idle" => b.run \in Runs
                              /\ node' = [node EXCEPT ![n] = b]
      <3>1. /\ [node[n] EXCEPT !.lost = TRUE] \in Belief
            /\ [node[n] EXCEPT !.lost = TRUE].run \in Runs
            /\ node[n] \in Belief
        BY <2>1 DEF TypeOK, Belief
      <3>2. \/ node' = [node EXCEPT ![n] = [node[n] EXCEPT !.lost = TRUE]]
            \/ node' = [node EXCEPT ![n] = node[n]]
        BY <1>4 DEF RenewLease, TypeOK
      <3>3. QED
        BY <2>1, <3>1, <3>2
    <2>4. /\ node' \in [Nodes -> Belief]
          /\ \A m \in Nodes : node'[m].phase # "idle" => node'[m].run \in Runs
      BY <2>3, BeliefTypeOK
    <2>5. QED
      BY <1>4, <2>2, <2>4 DEF RenewLease, TypeOK
  <1>5. ASSUME NEW n \in Nodes, NEW d \in Skew, NEW type \in Final, ReportEnd(n, type, d)
        PROVE  TypeOK'
    <2>1. Report(n, type) \in [run : Runs, epoch : Nat, node : Nodes, type : ReportType]
      BY <1>5, ReportTypeOK DEF ReportEnd, ReportType
    <2>2. reports' \subseteq [run : Runs, epoch : Nat, node : Nodes, type : ReportType]
      BY <1>5, <2>1 DEF ReportEnd, TypeOK
    <2>3. node[n].run \in Runs /\ Closed(node[n].run) \in Row
      <3>1. node[n].run \in Runs
        BY <1>5 DEF ReportEnd, TypeOK
      <3>2. \A r \in Runs : Closed(r) \in Row
        BY DEF TypeOK, Closed, Row, RunState
      <3>3. QED
        BY <3>1, <3>2
    <2>4. run' \in [Runs -> Row]
      BY <1>5, <2>3 DEF ReportEnd, TypeOK
    <2>5. /\ node' \in [Nodes -> Belief]
          /\ \A m \in Nodes : node'[m].phase # "idle" => node'[m].run \in Runs
      BY <1>5, IdleTypeOK, BeliefTypeOK DEF ReportEnd
    <2>6. QED
      BY <1>5, <2>2, <2>4, <2>5 DEF ReportEnd, TypeOK
  <1>6. ASSUME NEW n \in Nodes, Forget(n) PROVE TypeOK'
    BY <1>6, IdleTypeOK DEF Forget, TypeOK
  <1>7. CASE Tick
    <2>1. \A r \in Runs : [run[r] EXCEPT !.left = @ - 1] \in Row
      BY DEF TypeOK, Row
    <2>2. QED
      BY <1>7, <2>1 DEF Tick, TypeOK
  <1>8. CASE UNCHANGED vars
    BY <1>8 DEF vars, TypeOK
  <1>9. QED
    BY <1>1, <1>2, <1>3, <1>4, <1>5, <1>6, <1>7, <1>8 DEF Next, NodeStep

(* The queue, the nodes and the record keep their types in every behaviour *)
(* of the lease protocol (runs.ts, work-loop.ts), and a node at work       *)
(* always has a run in hand.                                               *)
THEOREM TypeCorrect == Spec => []TypeOK
  <1>1. QED
    BY InitTypeOK, NextTypeOK, PTL DEF Spec

-----------------------------------------------------------------------------
(* The safety properties, from IInv.                                       *)

LEMMA InitIInv == Init => IInv
  <1> SUFFICES ASSUME Init PROVE IInv
    OBVIOUS
  <1>1. TypeOK
    BY InitTypeOK
  <1>2. EpochBound /\ OneHolderPerEpoch /\ OneOutcome
    BY DEF Init, EpochBound, OneHolderPerEpoch, OneOutcome
  <1>3. OutcomeIffDone
    BY DEF Init, OutcomeIffDone
  <1>4. QED
    BY <1>1, <1>2, <1>3 DEF IInv

(* A step that grants nothing, reports nothing, and leaves every epoch and *)
(* every closed run as it was.                                             *)
LEMMA QuietStep ==
    ASSUME IInv, TypeOK', granted' = granted, reports' = reports,
           \A r \in Runs : /\ run'[r].epoch = run[r].epoch
                           /\ run'[r].state = "done" <=> run[r].state = "done"
    PROVE  IInv'
  <1>1. EpochBound'
    <2>1. /\ \A g \in granted : g.run \in Runs
          /\ \A e \in reports : e.run \in Runs
      BY DEF IInv, TypeOK, Lease
    <2>2. QED
      BY <2>1 DEF IInv, EpochBound
  <1>2. OneHolderPerEpoch' /\ OutcomeIffDone' /\ OneOutcome'
    BY DEF IInv, OneHolderPerEpoch, OutcomeIffDone, OneOutcome
  <1>3. QED
    BY <1>1, <1>2 DEF IInv

(* A lease granted: the new epoch is above every one granted or reported.  *)
LEMMA GrantStep ==
    ASSUME IInv, TypeOK', NEW n \in Nodes, NEW r \in Runs, NEW d \in Skew,
           ClaimDueRun(n, r, d) \/ ClaimAnswerLost(n, r, d)
    PROVE  IInv'
  <1> DEFINE g0 == [run |-> r, epoch |-> NextEpoch(r), node |-> n]
  <1>1. /\ granted' = granted \cup {g0}
        /\ reports' = reports
        /\ run' = [run EXCEPT ![r] = [state |-> "leased", holder |-> n,
                                     epoch |-> NextEpoch(r), left |-> LeaseLength + d]]
        /\ run[r].state # "done"
    BY DEF ClaimDueRun, ClaimAnswerLost, Claimable
  <1>2. /\ run \in [Runs -> Row]
        /\ \A q \in Runs : run[q].epoch \in Nat
        /\ \A g \in granted : g.run \in Runs /\ g.epoch \in Nat
        /\ \A e \in reports : e.run \in Runs /\ e.epoch \in Nat
    BY DEF IInv, TypeOK, Lease, Row
  <1>3. /\ run'[r].epoch = run[r].epoch + 1
        /\ run'[r].state = "leased"
        /\ \A q \in Runs : q # r => run'[q] = run[q]
    BY <1>1, <1>2 DEF NextEpoch
  <1>4. \A q \in Runs : run[q].epoch <= run'[q].epoch
    BY <1>2, <1>3
  <1>5. EpochBound'
    <2>1. ASSUME NEW g \in granted PROVE g.epoch <= run'[g.run].epoch
      <3>1. g.epoch <= run[g.run].epoch
        BY DEF IInv, EpochBound
      <3>2. /\ g.run \in Runs /\ g.epoch \in Nat
            /\ run[g.run].epoch \in Nat /\ run[g.run].epoch <= run'[g.run].epoch
            /\ run'[g.run].epoch \in Nat
        BY <1>2, <1>3, <1>4
      <3>3. QED
        BY <3>1, <3>2
    <2>2. ASSUME NEW e \in reports PROVE e.epoch <= run'[e.run].epoch
      <3>1. e.epoch <= run[e.run].epoch
        BY DEF IInv, EpochBound
      <3>2. /\ e.run \in Runs /\ e.epoch \in Nat
            /\ run[e.run].epoch \in Nat /\ run[e.run].epoch <= run'[e.run].epoch
            /\ run'[e.run].epoch \in Nat
        BY <1>2, <1>3, <1>4
      <3>3. QED
        BY <3>1, <3>2
    <2>3. g0.epoch <= run'[g0.run].epoch
      BY <1>2, <1>3 DEF NextEpoch
    <2>4. QED
      BY <1>1, <2>1, <2>2, <2>3 DEF EpochBound
  <1>6. OneHolderPerEpoch'
    <2>1. \A g \in granted : g.run = r => g.epoch # g0.epoch
      <3>1. \A g \in granted : g.epoch <= run[g.run].epoch
        BY DEF IInv, EpochBound
      <3>2. g0.epoch = run[r].epoch + 1
        BY DEF NextEpoch
      <3>3. QED
        BY <1>2, <3>1, <3>2
    <2>2. QED
      BY <1>1, <2>1 DEF IInv, OneHolderPerEpoch
  <1>7. OutcomeIffDone'
    <2>1. \A q \in Runs : run'[q].state = "done" <=> run[q].state = "done"
      BY <1>1, <1>3
    <2>2. QED
      BY <1>1, <2>1 DEF IInv, OutcomeIffDone
  <1>8. OneOutcome'
    BY <1>1 DEF IInv, OneOutcome
  <1>9. QED
    BY <1>5, <1>6, <1>7, <1>8 DEF IInv

(* A report accepted: the run is not done, so it has no outcome yet, and   *)
(* the report's epoch is the row's, so no report's is above it.            *)
LEMMA ReportStep ==
    ASSUME IInv, TypeOK', NEW n \in Nodes, NEW d \in Skew, NEW type \in ReportType,
           node[n].phase # "idle", Reportable(n, node[n].run, node[n].epoch, d),
           reports' = reports \cup {Report(n, type)}, granted' = granted,
           \A q \in Runs : run'[q].epoch = run[q].epoch,
           \A q \in Runs : run'[q].state = "done" <=>
                \/ run[q].state = "done"
                \/ q = node[n].run /\ type \in Final
    PROVE  IInv'
  <1> DEFINE e0 == Report(n, type)
             r0 == node[n].run
  <1>1. /\ r0 \in Runs /\ run[r0].state = "leased"
        /\ e0.run = r0 /\ e0.epoch = run[r0].epoch /\ e0.type = type
    BY DEF IInv, TypeOK, Reportable, Holds, LeasedTo, Report
  <1>2. /\ \A q \in Runs : run[q].epoch \in Nat
        /\ \A g \in granted : g.run \in Runs /\ g.epoch \in Nat
        /\ \A e \in reports : e.run \in Runs /\ e.epoch \in Nat
    BY DEF IInv, TypeOK, Lease, Row
  <1>3. \A e \in reports : e.epoch <= run[e.run].epoch
    BY DEF IInv, EpochBound
  <1>4. EpochBound'
    <2>1. \A g \in granted : g.epoch <= run'[g.run].epoch
      BY <1>2 DEF IInv, EpochBound
    <2>2. \A e \in reports : e.epoch <= run'[e.run].epoch
      BY <1>2, <1>3
    <2>3. e0.epoch <= run'[e0.run].epoch
      BY <1>1, <1>2
    <2>4. QED
      BY <2>1, <2>2, <2>3 DEF EpochBound
  <1>5. OneHolderPerEpoch'
    BY DEF IInv, OneHolderPerEpoch
  <1>6. \A e \in reports : e.run = r0 => e.type \notin Final
    BY <1>1 DEF IInv, OutcomeIffDone
  <1>7. OutcomeIffDone'
    <2>1. ASSUME NEW q \in Runs
          PROVE run'[q].state = "done" <=> \E e \in reports' : e.run = q /\ e.type \in Final
      <3>1. run[q].state = "done" <=> \E e \in reports : e.run = q /\ e.type \in Final
        BY DEF IInv, OutcomeIffDone
      <3>2. QED
        BY <1>1, <3>1
    <2>2. QED
      BY <2>1 DEF OutcomeIffDone
  <1>8. OneOutcome'
    <2>1. ASSUME NEW e \in reports', NEW f \in reports', e.run = f.run, e.type \in Final
          PROVE (f.type \in Final => f = e) /\ f.epoch <= e.epoch
      <3>1. CASE e \in reports /\ f \in reports
        BY <2>1, <3>1 DEF IInv, OneOutcome
      <3>2. CASE e = e0 /\ f \in reports
        BY <1>1, <1>2, <1>3, <1>6, <2>1, <3>2
      <3>3. CASE e \in reports /\ f = e0
        BY <1>1, <1>6, <2>1, <3>3
      <3>4. CASE e = e0 /\ f = e0
        BY <1>1, <1>2, <3>4
      <3>5. QED
        BY <3>1, <3>2, <3>3, <3>4
    <2>2. QED
      BY <2>1 DEF OneOutcome
  <1>9. QED
    BY <1>4, <1>5, <1>7, <1>8 DEF IInv

LEMMA NextIInv == IInv /\ [Next]_vars => IInv'
  <1> SUFFICES ASSUME IInv, [Next]_vars PROVE IInv'
    OBVIOUS
  <1>0. TypeOK /\ TypeOK' /\ run \in [Runs -> Row]
    BY NextTypeOK DEF IInv, TypeOK
  <1>1. ASSUME NEW r \in Runs, QueueRun(r) PROVE IInv'
    <2>1. \A q \in Runs : /\ run'[q].epoch = run[q].epoch
                          /\ run'[q].state = "done" <=> run[q].state = "done"
      BY <1>0, <1>1 DEF QueueRun, Row
    <2>2. QED
      BY <1>0, <1>1, <2>1, QuietStep DEF QueueRun
  <1>2. ASSUME NEW n \in Nodes, NEW r \in Runs, NEW d \in Skew,
               ClaimDueRun(n, r, d) \/ ClaimAnswerLost(n, r, d)
        PROVE  IInv'
    BY <1>0, <1>2, GrantStep
  <1>3. ASSUME NEW n \in Nodes, NEW d \in Skew, ReportStarted(n, d) PROVE IInv'
    <2>1. node[n].phase # "idle" /\ run' = run /\ granted' = granted
      BY <1>3 DEF ReportStarted
    <2>2. CASE Reportable(n, node[n].run, node[n].epoch, d)
      <3>1. reports' = reports \cup {Report(n, "run.started")} /\ "run.started" \in ReportType
        BY <1>3, <2>2 DEF ReportStarted, ReportType
      <3>2. "run.started" \notin Final
        BY DEF Final
      <3>3. QED
        BY <1>0, <2>1, <2>2, <3>1, <3>2, ReportStep
    <2>3. CASE ~Reportable(n, node[n].run, node[n].epoch, d)
      BY <1>0, <1>3, <2>1, <2>3, QuietStep DEF ReportStarted
    <2>4. QED
      BY <2>2, <2>3
  <1>4. ASSUME NEW n \in Nodes, NEW d \in Skew, RenewLease(n, d) PROVE IInv'
    <2>1. \A q \in Runs : /\ run'[q].epoch = run[q].epoch
                          /\ run'[q].state = "done" <=> run[q].state = "done"
      BY <1>0, <1>4 DEF RenewLease, Row
    <2>2. QED
      BY <1>0, <1>4, <2>1, QuietStep DEF RenewLease
  <1>5. ASSUME NEW n \in Nodes, NEW d \in Skew, NEW type \in Final, ReportEnd(n, type, d)
        PROVE  IInv'
    <2>1. node[n].phase # "idle" /\ granted' = granted /\ node[n].run \in Runs
      BY <1>0, <1>5 DEF ReportEnd, TypeOK
    <2>2. CASE Reportable(n, node[n].run, node[n].epoch, d)
      <3>1. /\ reports' = reports \cup {Report(n, type)}
            /\ run' = [run EXCEPT ![node[n].run] = Closed(node[n].run)]
            /\ type \in ReportType
        BY <1>5, <2>2 DEF ReportEnd, ReportType
      <3>2. \A q \in Runs : /\ run'[q].epoch = run[q].epoch
                            /\ run'[q].state = "done" <=>
                                 \/ run[q].state = "done"
                                 \/ q = node[n].run /\ type \in Final
        BY <1>0, <2>1, <3>1 DEF Closed
      <3>3. QED
        BY <1>0, <2>1, <2>2, <3>1, <3>2, ReportStep
    <2>3. CASE ~Reportable(n, node[n].run, node[n].epoch, d)
      BY <1>0, <1>5, <2>1, <2>3, QuietStep DEF ReportEnd
    <2>4. QED
      BY <2>2, <2>3
  <1>6. ASSUME NEW n \in Nodes, Forget(n) PROVE IInv'
    BY <1>0, <1>6, QuietStep DEF Forget
  <1>7. CASE Tick
    <2>1. \A q \in Runs : /\ run'[q].epoch = run[q].epoch
                          /\ run'[q].state = "done" <=> run[q].state = "done"
      BY <1>0, <1>7 DEF Tick, Row
    <2>2. QED
      BY <1>0, <1>7, <2>1, QuietStep DEF Tick
  <1>8. CASE UNCHANGED vars
    BY <1>0, <1>8, QuietStep DEF vars
  <1>9. QED
    BY <1>1, <1>2, <1>3, <1>4, <1>5, <1>6, <1>7, <1>8 DEF Next, NodeStep

LEMMA IInvHolds == Spec => []IInv
  BY InitIInv, NextIInv, PTL DEF Spec

(* An epoch of a run is granted once and to one node, whatever claims,     *)
(* lapses and lost answers come before (runs.ts claimDueRun).              *)
THEOREM EpochsAreExclusive == Spec => []OneHolderPerEpoch
  <1>1. IInv => OneHolderPerEpoch
    BY DEF IInv
  <1>2. QED
    BY <1>1, IInvHolds, PTL

(* A run is done exactly when the record has its outcome, and it has one   *)
(* outcome, the last word under the last epoch (runs.ts reportRun).        *)
THEOREM OutcomesAreExact == Spec => []ClosedWithItsOutcome
  <1>1. IInv => ClosedWithItsOutcome
    BY DEF IInv, ClosedWithItsOutcome
  <1>2. QED
    BY <1>1, IInvHolds, PTL

(* What one step may add to the record.                                    *)
LEMMA StepReports ==
    ASSUME IInv, [Next]_vars, NEW e \in reports' \ reports
    PROVE  /\ \A g \in granted : g.run = e.run => g.epoch <= e.epoch
           /\ \A f \in reports : f.run = e.run => f.type \notin Final
  <1>1. PICK n \in Nodes, d \in Skew, type \in ReportType :
            /\ e = Report(n, type)
            /\ node[n].phase # "idle"
            /\ Reportable(n, node[n].run, node[n].epoch, d)
    <2>1. ASSUME NEW n \in Nodes, NEW d \in Skew, ReportStarted(n, d)
          PROVE  /\ e = Report(n, "run.started") /\ "run.started" \in ReportType
                 /\ node[n].phase # "idle" /\ Reportable(n, node[n].run, node[n].epoch, d)
      BY <2>1 DEF ReportStarted, ReportType
    <2>2. ASSUME NEW n \in Nodes, NEW d \in Skew, NEW type \in Final, ReportEnd(n, type, d)
          PROVE  /\ e = Report(n, type) /\ type \in ReportType
                 /\ node[n].phase # "idle" /\ Reportable(n, node[n].run, node[n].epoch, d)
      BY <2>2 DEF ReportEnd, ReportType
    <2>3. CASE \/ \E n \in Nodes, d \in Skew : ReportStarted(n, d)
               \/ \E n \in Nodes, d \in Skew, type \in Final : ReportEnd(n, type, d)
      BY <2>1, <2>2, <2>3
    <2>4. reports' = reports \/ \E n \in Nodes, d \in Skew :
                ReportStarted(n, d) \/ \E type \in Final : ReportEnd(n, type, d)
      <3>1. \A r \in Runs : QueueRun(r) => reports' = reports
        BY DEF QueueRun
      <3>2. \A n \in Nodes, r \in Runs, d \in Skew :
                ClaimDueRun(n, r, d) \/ ClaimAnswerLost(n, r, d) => reports' = reports
        BY DEF ClaimDueRun, ClaimAnswerLost
      <3>3. \A n \in Nodes, d \in Skew : RenewLease(n, d) => reports' = reports
        BY DEF RenewLease
      <3>4. /\ \A n \in Nodes : Forget(n) => reports' = reports
            /\ Tick => reports' = reports
            /\ UNCHANGED vars => reports' = reports
        BY DEF Forget, Tick, vars
      <3>5. QED
        BY <3>1, <3>2, <3>3, <3>4 DEF Next, NodeStep
    <2>5. QED
      BY <2>3, <2>4
  <1>2. /\ node[n].run \in Runs /\ e.run = node[n].run
        /\ e.epoch = run[e.run].epoch /\ run[e.run].state = "leased"
    BY <1>1 DEF IInv, TypeOK, Report, Reportable, Holds, LeasedTo
  <1>3. \A g \in granted : g.run = e.run => g.epoch <= e.epoch
    BY <1>2 DEF IInv, EpochBound
  <1>4. \A f \in reports : f.run = e.run => f.type \notin Final
    BY <1>2 DEF IInv, OutcomeIffDone
  <1>5. QED
    BY <1>3, <1>4

(* No step lets a node say anything about a run that another node has      *)
(* since been given, or whose outcome is already in the record (runs.ts    *)
(* reportRun, record.ts appendEvent).                                      *)
THEOREM OnlyTheHolderIsHeard == Spec => OnlyTheHolderReports
  <1>1. IInv /\ [Next]_vars =>
            [\A e \in reports' \ reports :
                /\ \A g \in granted : g.run = e.run => g.epoch <= e.epoch
                /\ \A f \in reports : f.run = e.run => f.type \notin Final]_vars
    BY StepReports
  <1>2. QED
    BY <1>1, IInvHolds, PTL DEF Spec, OnlyTheHolderReports
-----------------------------------------------------------------------------
(* With nodes that keep their beat.                                        *)

\* Both clocks may be wrong in opposite ways, at the claim and at a take-over.
SkewWithinLease == LeaseLength > 2 * MaxSkew

(* What a node believes is so: whoever is at work holds the run, under a   *)
(* lease that no clock calls over.                                         *)
HoldsWhatItWorksOn ==
    \A n \in Nodes : node[n].phase # "idle" =>
        /\ LeasedTo(n, node[n].run, node[n].epoch)
        /\ run[node[n].run].left > MaxSkew

TimelyInv == TypeOK /\ HoldsWhatItWorksOn

LEMMA TimelyIsNext == TimelyNext => Next
  BY DEF TimelyNext, Next

\* A lease just given or renewed is over by no clock.
LEMMA FreshLease ==
    ASSUME SkewWithinLease, NEW d \in Skew
    PROVE  LeaseLength + d \in Int /\ LeaseLength + d > MaxSkew
  BY LeasesAssumption DEF SkewWithinLease, Skew

\* Whoever works on a run keeps it from being claimed.
LEMMA NotClaimable ==
    ASSUME TimelyInv, NEW n \in Nodes, node[n].phase # "idle", NEW d \in Skew
    PROVE  ~Claimable(node[n].run, d)
  <1>1. /\ run[node[n].run].state = "leased"
        /\ run[node[n].run].left > MaxSkew
        /\ run[node[n].run].left \in Int
    BY DEF TimelyInv, HoldsWhatItWorksOn, LeasedTo, TypeOK, Row
  <1>2. d \in Int /\ d <= MaxSkew
    BY LeasesAssumption DEF Skew
  <1>3. QED
    BY <1>1, <1>2, LeasesAssumption DEF Claimable

\* Two nodes at work have two runs.
LEMMA RunsApart ==
    ASSUME TimelyInv, NEW n \in Nodes, NEW m \in Nodes,
           node[n].phase # "idle", node[m].phase # "idle", node[n].run = node[m].run
    PROVE  n = m
  BY DEF TimelyInv, HoldsWhatItWorksOn, LeasedTo

LEMMA TimelyStep == SkewWithinLease /\ TimelyInv /\ [TimelyNext]_vars => TimelyInv'
  <1> SUFFICES ASSUME SkewWithinLease, TimelyInv, [TimelyNext]_vars PROVE TimelyInv'
    OBVIOUS
  <1>0. TypeOK /\ TypeOK' /\ run \in [Runs -> Row] /\ node \in [Nodes -> Belief]
    BY NextTypeOK, TimelyIsNext DEF TimelyInv, TypeOK
  <1>a. \A n \in Nodes : node[n].phase # "idle" => node[n].run \in Runs
    BY <1>0 DEF TypeOK
  <1>1. ASSUME NEW r \in Runs, QueueRun(r) PROVE HoldsWhatItWorksOn'
    <2>1. run[r].state = "absent" /\ node' = node /\ \A q \in Runs \ {r} : run'[q] = run[q]
      BY <1>0, <1>1 DEF QueueRun
    <2>2. QED
      BY <1>a, <2>1 DEF TimelyInv, HoldsWhatItWorksOn, LeasedTo
  <1>2. ASSUME NEW n \in Nodes, NEW r \in Runs, NEW d \in Skew,
               ClaimDueRun(n, r, d) \/ ClaimAnswerLost(n, r, d)
        PROVE  HoldsWhatItWorksOn'
    <2>1. /\ run'[r] = [state |-> "leased", holder |-> n,
                        epoch |-> NextEpoch(r), left |-> LeaseLength + d]
          /\ \A q \in Runs \ {r} : run'[q] = run[q]
          /\ node[n].phase = "idle" /\ Claimable(r, d)
          /\ \A m \in Nodes \ {n} : node'[m] = node[m]
          /\ \/ node'[n] = node[n]
             \/ node'[n] = [phase |-> "claimed", run |-> r, epoch |-> NextEpoch(r), lost |-> FALSE]
      BY <1>0, <1>2 DEF ClaimDueRun, ClaimAnswerLost
    <2>2. ASSUME NEW m \in Nodes, node'[m] = node[m], node'[m].phase # "idle"
          PROVE  LeasedTo(m, node[m].run, node[m].epoch)' /\ run'[node[m].run].left > MaxSkew
      <3>1. node[m].run \in Runs \ {r}
        BY <1>a, <2>1, <2>2, NotClaimable
      <3>2. QED
        BY <2>1, <2>2, <3>1 DEF TimelyInv, HoldsWhatItWorksOn, LeasedTo
    <2>3. CASE node'[n] = [phase |-> "claimed", run |-> r, epoch |-> NextEpoch(r), lost |-> FALSE]
      BY <2>1, <2>2, <2>3, FreshLease DEF HoldsWhatItWorksOn, LeasedTo
    <2>4. CASE node'[n] = node[n]
      BY <2>1, <2>2, <2>4 DEF HoldsWhatItWorksOn, LeasedTo
    <2>5. QED
      BY <2>1, <2>3, <2>4
  <1>3. ASSUME NEW n \in Nodes, NEW d \in Skew, ReportStarted(n, d) PROVE HoldsWhatItWorksOn'
    <2>1. /\ run' = run /\ node[n].phase # "idle" /\ \A m \in Nodes \ {n} : node'[m] = node[m]
          /\ \/ node'[n].phase = "idle"
             \/ node'[n].run = node[n].run /\ node'[n].epoch = node[n].epoch
      BY <1>0, <1>3 DEF ReportStarted, Idle, Belief
    <2>2. QED
      BY <2>1 DEF TimelyInv, HoldsWhatItWorksOn, LeasedTo
  <1>4. ASSUME NEW n \in Nodes, NEW d \in Skew, RenewLease(n, d) PROVE HoldsWhatItWorksOn'
    <2>1. node[n].phase # "idle" /\ node[n].run \in Runs /\ LeasedTo(n, node[n].run, node[n].epoch)
      BY <1>a, <1>4 DEF RenewLease, TimelyInv, HoldsWhatItWorksOn
    <2>2. node' = node /\ run' = [run EXCEPT ![node[n].run].left = LeaseLength + d]
      BY <1>4, <2>1 DEF RenewLease
    <2>3. \A q \in Runs : /\ run'[q].state = run[q].state /\ run'[q].holder = run[q].holder
                          /\ run'[q].epoch = run[q].epoch
                          /\ run'[q].left = IF q = node[n].run THEN LeaseLength + d ELSE run[q].left
      BY <1>0, <2>2 DEF Row
    <2>4. QED
      BY <1>a, <2>2, <2>3, FreshLease DEF TimelyInv, HoldsWhatItWorksOn, LeasedTo
  <1>5. ASSUME NEW n \in Nodes, NEW d \in Skew, NEW type \in Final, ReportEnd(n, type, d)
        PROVE  HoldsWhatItWorksOn'
    <2>1. /\ node[n].phase # "idle" /\ node'[n].phase = "idle"
          /\ \A m \in Nodes \ {n} : node'[m] = node[m]
          /\ \A q \in Runs \ {node[n].run} : run'[q] = run[q]
      BY <1>0, <1>5 DEF ReportEnd, Idle
    <2>2. \A m \in Nodes \ {n} : node[m].phase # "idle" => node[m].run # node[n].run
      BY <2>1, RunsApart
    <2>3. QED
      BY <1>a, <2>1, <2>2 DEF TimelyInv, HoldsWhatItWorksOn, LeasedTo
  <1>6. ASSUME NEW n \in Nodes, Forget(n) PROVE HoldsWhatItWorksOn'
    <2>1. run' = run /\ node'[n].phase = "idle" /\ \A m \in Nodes \ {n} : node'[m] = node[m]
      BY <1>0, <1>6 DEF Forget, Idle
    <2>2. QED
      BY <2>1 DEF TimelyInv, HoldsWhatItWorksOn, LeasedTo
  <1>7. ASSUME Tick, BeatInTime PROVE HoldsWhatItWorksOn'
    <2>1. node' = node
      BY <1>7 DEF Tick
    <2>2. \A q \in Runs : /\ run'[q].state = run[q].state /\ run'[q].holder = run[q].holder
                          /\ run'[q].epoch = run[q].epoch
                          /\ run'[q].left >= run[q].left - 1
                          /\ run[q].left \in Int /\ run'[q].left \in Int
      BY <1>0, <1>7 DEF Tick, Row
    <2>3. ASSUME NEW n \in Nodes, node[n].phase # "idle"
          PROVE  LeasedTo(n, node[n].run, node[n].epoch)' /\ run'[node[n].run].left > MaxSkew
      <3>1. LeasedTo(n, node[n].run, node[n].epoch) /\ node[n].run \in Runs
        BY <1>a, <2>3 DEF TimelyInv, HoldsWhatItWorksOn
      <3>2. run[node[n].run].left > MaxSkew + 1
        BY <1>7, <2>3, <3>1 DEF BeatInTime
      <3>3. QED
        BY <2>1, <2>2, <3>1, <3>2, LeasesAssumption DEF LeasedTo
    <2>4. QED
      BY <2>1, <2>3 DEF HoldsWhatItWorksOn, LeasedTo
  <1>8. ASSUME UNCHANGED vars PROVE HoldsWhatItWorksOn'
    <2>1. run' = run /\ node' = node
      BY <1>8 DEF vars
    <2>2. QED
      BY <2>1 DEF TimelyInv, HoldsWhatItWorksOn, LeasedTo
  <1>9. QED
    BY <1>0, <1>1, <1>2, <1>3, <1>4, <1>5, <1>6, <1>7, <1>8 DEF TimelyNext, NodeStep, TimelyInv

(* With nodes that renew in time (work-loop.ts), and clocks that differ by *)
(* less than half a lease, no two nodes work on one run at a time, however *)
(* many die and whichever answers are lost.                                *)
THEOREM OneNodeAtWork ==
    ASSUME SkewWithinLease PROVE TimelySpec => []OneWorkerPerRun
  <1>1. Init => TimelyInv
    BY InitTypeOK DEF Init, TimelyInv, HoldsWhatItWorksOn, Idle
  <1>2. TimelyInv /\ [TimelyNext]_vars => TimelyInv'
    BY TimelyStep
  <1>3. TimelyInv => OneWorkerPerRun
    BY RunsApart DEF OneWorkerPerRun
  <1>4. QED
    BY <1>1, <1>2, <1>3, PTL DEF TimelySpec
=============================================================================
