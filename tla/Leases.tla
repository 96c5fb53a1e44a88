------------------------------- MODULE Leases -------------------------------
(***************************************************************************)
(* The run queue and the nodes that work through it.                       *)
(*                                                                         *)
(* One row per occurrence: queued by the price watcher, leased to a node   *)
(* for a limited time under a rising epoch, and done once its outcome is   *)
(* in the record.  A node holds a run only as long as it keeps renewing    *)
(* the lease; one that is cut off loses the run to another node and must   *)
(* not be able to say anything more about it.                              *)
(*                                                                         *)
(* Source: packages/db/src/runs.ts and record.ts (what the database does), *)
(* services/daemon/src/work-loop.ts (what a node does with the answers).   *)
(*                                                                         *)
(* Time is relative: run[r].left is how much longer the database thinks    *)
(* the lease lasts, at or below zero once it has expired.  The orchestrator*)
(* passes its own clock to every statement but appendEvent, which asks     *)
(* the database's; the two may differ by up to MaxSkew at any call, and an *)
(* offset d says by how much the orchestrator's clock is ahead.            *)
(***************************************************************************)
EXTENDS Integers, FiniteSets

CONSTANTS
    Nodes,          \* the machines' daemons, by node id
    Runs,           \* occurrences: (machine, occurrence key) pairs
    NoNode,         \* leased_by null
    NoRun,          \* a node with no run in hand
    LeaseLength,    \* leaseSeconds, in ticks
    MaxSkew,        \* bound: how far apart the two clocks can be
    MaxEpoch,       \* bound: leases granted per run
    MaxFaults       \* bound: crashes of nodes and lost answers

ASSUME LeasesAssumption ==
    /\ NoNode \notin Nodes
    /\ NoRun \notin Runs
    /\ MaxSkew \in Nat
    /\ LeaseLength \in Nat /\ LeaseLength > MaxSkew
    /\ MaxEpoch \in Nat
    /\ MaxFaults \in Nat

VARIABLES
    run,        \* the runs table
    node,       \* what each node believes it is doing
    reports,    \* the run events in the record, with the lease they were written under
    granted,    \* history: every lease ever granted
    faults      \* how many faults there have been

vars == <<run, node, reports, granted, faults>>

Skew == -MaxSkew .. MaxSkew
RunState == {"absent", "queued", "leased", "done"}
Final == {"run.skipped", "run.finished"}
ReportType == {"run.started"} \cup Final
Lease == [run : Runs, epoch : Nat, node : Nodes]
Idle == [phase |-> "idle", run |-> NoRun, epoch |-> 0, lost |-> FALSE]

Row == [state : RunState, holder : Nodes \cup {NoNode}, epoch : Nat, left : Int]
Belief == [phase : {"idle", "claimed", "running"}, run : Runs \cup {NoRun},
           epoch : Nat, lost : BOOLEAN]

TypeOK ==
    /\ run \in [Runs -> Row]
    /\ node \in [Nodes -> Belief]
    /\ \A n \in Nodes : node[n].phase # "idle" => node[n].run \in Runs
    /\ reports \subseteq [run : Runs, epoch : Nat, node : Nodes, type : ReportType]
    /\ granted \subseteq Lease
    /\ faults \in Nat

Init ==
    /\ run = [r \in Runs |-> [state |-> "absent", holder |-> NoNode, epoch |-> 0, left |-> 0]]
    /\ node = [n \in Nodes |-> Idle]
    /\ reports = {}
    /\ granted = {}
    /\ faults = 0

-----------------------------------------------------------------------------
(* What the statements ask of a row.                                       *)

\* Variant: any leased run may be taken, whether its lease is over or not.
ClaimableEarly(r, d) == run[r].state \in {"queued", "leased"}

\* Variant: only a run nobody ever took may be claimed.
ClaimableOnce(r, d) == run[r].state = "queued"

\* Due and free: never taken, or taken under a lease the orchestrator's clock says is over.
Claimable(r, d) ==
    \/ run[r].state = "queued"
    \/ run[r].state = "leased" /\ run[r].left <= d

\* Variant: taking a run over keeps the epoch the last holder was given.
SameEpoch(r) == IF run[r].epoch = 0 THEN 1 ELSE run[r].epoch

NextEpoch(r) == run[r].epoch + 1

\* leased_by, lease_epoch and state, without the expiry: what renewLease asks.
LeasedTo(n, r, e) ==
    /\ run[r].state = "leased"
    /\ run[r].holder = n
    /\ run[r].epoch = e

\* What holdsRun and reportRun ask: the same, and the lease not over by the caller's clock.
Holds(n, r, e, d) == LeasedTo(n, r, e) /\ run[r].left > d

\* The fence in appendEvent: the epoch is the run's, and the lease not over by the database's clock.
Fenced(r, e) == run[r].epoch = e /\ run[r].left > 0

\* Variant: the report believes whoever was once granted the run.
ReportableByAnyHolder(n, r, e, d) ==
    /\ run[r].state \in {"queued", "leased"}
    /\ [run |-> r, epoch |-> e, node |-> n] \in granted

\* A report is written when both checks pass, in one transaction that locks the row.
Reportable(n, r, e, d) == Holds(n, r, e, d) /\ Fenced(r, e)

\* Variant: the state is the outcome's name.
ClosedAsFinished(r) == [state |-> "finished", holder |-> NoNode, epoch |-> run[r].epoch, left |-> 0]

\* Variant: the outcome is recorded and the row left as it was.
LeftOpen(r) == run[r]

\* The row once its outcome is recorded: done, and the lease let go.
Closed(r) == [state |-> "done", holder |-> NoNode, epoch |-> run[r].epoch, left |-> 0]

-----------------------------------------------------------------------------
(* Queueing.  On a conflict with the occurrence key nothing is inserted,   *)
(* so queueing an occurrence again, whatever became of it, changes nothing.*)
QueueRun(r) ==
    /\ run[r].state = "absent"
    /\ run' = [run EXCEPT ![r].state = "queued"]
    /\ UNCHANGED <<node, reports, granted, faults>>

\* claimDueRun, and the node hearing which run it got.
ClaimDueRun(n, r, d) ==
    /\ node[n].phase = "idle"
    /\ Claimable(r, d)
    /\ NextEpoch(r) <= MaxEpoch
    /\ run' = [run EXCEPT ![r] = [state |-> "leased", holder |-> n,
                                  epoch |-> NextEpoch(r), left |-> LeaseLength + d]]
    /\ granted' = granted \cup {[run |-> r, epoch |-> NextEpoch(r), node |-> n]}
    /\ node' = [node EXCEPT ![n] = [phase |-> "claimed", run |-> r,
                                    epoch |-> NextEpoch(r), lost |-> FALSE]]
    /\ UNCHANGED <<reports, faults>>

(* The answer to a claim is lost: the run is leased to a node that does    *)
(* not know it, until the lease is over.                                   *)
ClaimAnswerLost(n, r, d) ==
    /\ node[n].phase = "idle"
    /\ Claimable(r, d)
    /\ NextEpoch(r) <= MaxEpoch
    /\ faults < MaxFaults
    /\ faults' = faults + 1
    /\ run' = [run EXCEPT ![r] = [state |-> "leased", holder |-> n,
                                  epoch |-> NextEpoch(r), left |-> LeaseLength + d]]
    /\ granted' = granted \cup {[run |-> r, epoch |-> NextEpoch(r), node |-> n]}
    /\ UNCHANGED <<node, reports>>

-----------------------------------------------------------------------------
(* Reporting.                                                              *)

Report(n, type) == [run |-> node[n].run, epoch |-> node[n].epoch, node |-> n, type |-> type]

\* The node says it has started; told it no longer holds the run, it leaves the run alone.
ReportStarted(n, d) ==
    /\ node[n].phase = "claimed"
    /\ \/ /\ Reportable(n, node[n].run, node[n].epoch, d)
          /\ reports' = reports \cup {Report(n, "run.started")}
          /\ node' = [node EXCEPT ![n].phase = "running"]
       \/ /\ ~Reportable(n, node[n].run, node[n].epoch, d)
          /\ node' = [node EXCEPT ![n] = Idle]
          /\ UNCHANGED reports
    /\ UNCHANGED <<run, granted, faults>>

(* The final report.  Accepted, the event and the closing of the run are   *)
(* one transaction; refused, the node has lost the run and nothing is      *)
(* written.  A node told it lost the run while it was proposing reports it *)
(* as finished all the same, and is refused.                               *)
ReportEnd(n, type, d) ==
    /\ node[n].phase = "running"
    /\ type \in Final
    /\ \/ /\ Reportable(n, node[n].run, node[n].epoch, d)
          /\ reports' = reports \cup {Report(n, type)}
          /\ run' = [run EXCEPT ![node[n].run] = Closed(node[n].run)]
       \/ /\ ~Reportable(n, node[n].run, node[n].epoch, d)
          /\ UNCHANGED <<reports, run>>
    /\ node' = [node EXCEPT ![n] = Idle]
    /\ UNCHANGED <<granted, faults>>

(* The renewal beat.  It asks who was granted the run and not whether the  *)
(* lease is over, so a lapsed lease nobody took is alive again.  Refused,  *)
(* the node knows it has lost the run.                                     *)
RenewLease(n, d) ==
    /\ node[n].phase = "running"
    /\ ~node[n].lost
    /\ \/ /\ LeasedTo(n, node[n].run, node[n].epoch)
          /\ run' = [run EXCEPT ![node[n].run].left = LeaseLength + d]
          /\ UNCHANGED node
       \/ /\ ~LeasedTo(n, node[n].run, node[n].epoch)
          /\ node' = [node EXCEPT ![n].lost = TRUE]
          /\ UNCHANGED run
    /\ UNCHANGED <<reports, granted, faults>>

(* A node forgets its run: it crashed and restarted, or the orchestrator   *)
(* could not be reached and the loop gave up on the run.  Whatever the     *)
(* database holds stays.                                                   *)
Forget(n) ==
    /\ node[n].phase # "idle"
    /\ faults < MaxFaults
    /\ faults' = faults + 1
    /\ node' = [node EXCEPT ![n] = Idle]
    /\ UNCHANGED <<run, reports, granted>>

\* Time passes for every lease.  Below -MaxSkew a lease is over by every clock.
Tick ==
    /\ \E r \in Runs : run[r].state = "leased" /\ run[r].left > -MaxSkew
    /\ run' = [r \in Runs |->
                 IF run[r].state = "leased" /\ run[r].left > -MaxSkew
                 THEN [run[r] EXCEPT !.left = @ - 1] ELSE run[r]]
    /\ UNCHANGED <<node, reports, granted, faults>>

NodeStep(n) ==
    \E d \in Skew :
        \/ \E r \in Runs : ClaimDueRun(n, r, d) \/ ClaimAnswerLost(n, r, d)
        \/ ReportStarted(n, d)
        \/ RenewLease(n, d)
        \/ \E type \in Final : ReportEnd(n, type, d)

Next ==
    \/ \E r \in Runs : QueueRun(r)
    \/ \E n \in Nodes : NodeStep(n) \/ Forget(n)
    \/ Tick

Spec == Init /\ [][Next]_vars

-----------------------------------------------------------------------------
(* The same system with nodes that keep their beat: a lease does not run   *)
(* out under a node that is working on it, because it is renewed several   *)
(* times in its length (work-loop.ts, "The lease has room for several").   *)
(* Every step a live node can take is eventually taken, and time passes.   *)

BeatInTime ==
    \A n \in Nodes :
        node[n].phase # "idle" /\ LeasedTo(n, node[n].run, node[n].epoch)
            => run[node[n].run].left > MaxSkew + 1

TimelyNext ==
    \/ \E r \in Runs : QueueRun(r)
    \/ \E n \in Nodes : NodeStep(n) \/ Forget(n)
    \/ Tick /\ BeatInTime

Progress(n) ==
    \E d \in Skew :
        \/ \E r \in Runs : ClaimDueRun(n, r, d)
        \/ ReportStarted(n, d)
        \/ \E type \in Final : ReportEnd(n, type, d)

TimelySpec ==
    /\ Init /\ [][TimelyNext]_vars
    /\ WF_vars(Tick /\ BeatInTime)
    /\ \A n \in Nodes : WF_vars(Progress(n)) /\ WF_vars(\E d \in Skew : RenewLease(n, d))

-----------------------------------------------------------------------------
(* What the queue promises.                                                *)

(* One node per run (runs.ts:8-9): an epoch names one lease, so it is never*)
(* granted to two nodes, however claims, lapses and lost answers fall.     *)
OneHolderPerEpoch ==
    \A g, h \in granted : g.run = h.run /\ g.epoch = h.epoch => g.node = h.node

(* A run is never closed without its outcome in the record, has only one   *)
(* outcome, and the outcome is the last epoch's (runs.ts:186-188).         *)
OutcomeIffDone ==
    \A r \in Runs : run[r].state = "done" <=> \E e \in reports : e.run = r /\ e.type \in Final

OneOutcome ==
    \A e, f \in reports : e.run = f.run /\ e.type \in Final =>
        /\ f.type \in Final => f = e
        /\ f.epoch <= e.epoch

ClosedWithItsOutcome == OutcomeIffDone /\ OneOutcome

(* A report can never land after another node took the run (runs.ts:187):  *)
(* whatever a step adds to the record was said under the latest lease      *)
(* granted, and about a run whose outcome was not yet in.                  *)
OnlyTheHolderReports ==
    [][\A e \in reports' \ reports :
          /\ \A g \in granted : g.run = e.run => g.epoch <= e.epoch
          /\ \A f \in reports : f.run = e.run => f.type \notin Final]_vars

(* With nodes that keep their beat, no two work on one run at a time.      *)
OneWorkerPerRun ==
    \A n, m \in Nodes :
        node[n].phase = "running" /\ node[m].phase = "running" /\ node[n].run = node[m].run
            => n = m

(* With nodes that keep their beat, every queued run gets an outcome, also *)
(* when a node dies with it: a dead node holds nothing for ever.           *)
EveryRunCloses ==
    \A r \in Runs : run[r].state = "queued" ~> run[r].state = "done"
=============================================================================
