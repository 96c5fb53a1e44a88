----------------------------- MODULE Lifecycle -----------------------------
(***************************************************************************)
(* What one machine may do, and who says so.  Its owner's actions are      *)
(* checked against its state, under its row                                *)
(* (packages/db/src/owner-machines.ts, retune.ts,                          *)
(* packages/runtime/src/lifecycle.ts); the signer's rules pause it without *)
(* the row and unchecked (packages/db/src/signer-record.ts pauseMachine);  *)
(* an operator stops every machine (packages/db/src/halts.ts).  Its state  *)
(* is never stored: it is what packages/runtime/src/machine-state.ts makes *)
(* of the record, which is replayed in another order than it was written.  *)
(***************************************************************************)
EXTENDS Integers, FiniteSets, Record

CONSTANTS
    Acting,         \* transactions that may be open at once
    MaxStamp,       \* bound: transactions begun, each at a moment of its own
    Nobody

ASSUME LifecycleAssumption == MaxStamp \in Nat /\ Nobody \notin Acting

VARIABLES
    stamp,          \* the database's clock
    life,           \* the machine's lifecycle events, in the order they were committed
    holder,         \* who has the machine's row
    act             \* what each transaction is at

lifecycleVars == <<stamp, life, holder, act>>

MachineState == {"ready", "running", "paused", "stopped"}
OwnerActions == {"fund", "start", "pause", "resume", "stop", "retune"}

-----------------------------------------------------------------------------
(* The state, from the record.  A machine is created with a grant in its   *)
(* record, so it is never a draft to anybody who reads it.                 *)

\* Variant: a start or a resume starts it, whatever it was.
FollowAnyStart(state, e) ==
    CASE e.kind = "stop" -> "stopped"
      [] e.kind \in {"start", "resume"} -> "running"
      [] e.kind = "pause" /\ state = "running" -> "paused"
      [] OTHER -> state

\* Variant: only a resume wakes a paused machine.
FollowResumeOnly(state, e) ==
    CASE state = "stopped" \/ e.kind = "stop" -> "stopped"
      [] e.kind = "start" /\ state = "ready" -> "running"
      [] e.kind = "resume" /\ state = "paused" -> "running"
      [] e.kind = "pause" /\ state = "running" -> "paused"
      [] OTHER -> state

\* What an event makes of a state: one that does not apply is history and nothing else.
Follow(state, e) ==
    CASE state = "stopped" \/ e.kind = "stop" -> "stopped"
      [] e.kind = "start" /\ state \in {"ready", "paused"} -> "running"
      [] e.kind = "resume" /\ state = "paused" -> "running"
      [] e.kind = "pause" /\ state = "running" -> "paused"
      [] OTHER -> state

StateAfter(events) == FoldLeft(Follow, "ready", ReadEvents(events))

(* What an owner may ask of a machine in a state, and the state he is told *)
(* it is in then.  Retuning changes what it does and not whether it does.  *)
Allowed ==
    [fund   |-> {"ready", "running", "paused"}, start  |-> {"ready", "paused"},
     pause  |-> {"running"},                    resume |-> {"paused"},
     stop   |-> {"ready", "running", "paused"}, retune |-> {"paused"}]

Moved(state, action) ==
    CASE action \in {"start", "resume"} -> "running"
      [] action = "pause" -> "paused"
      [] action = "stop" -> "stopped"
      [] OTHER -> state

-----------------------------------------------------------------------------
(* The transactions.                                                       *)

\* crossed: the rules' pause was written between the reading and the writing.
LifeEvent(kind, at, by, to, crossed) ==
    [kind |-> kind, at |-> at, by |-> by, to |-> to, crossed |-> crossed]

NoAct == [phase |-> "idle", kind |-> "fund", by |-> "owner", at |-> 0, saw |-> "ready", crossed |-> FALSE]

LifecycleTypeOK ==
    /\ stamp \in 0 .. MaxStamp
    /\ \A i \in DOMAIN life :
          /\ life[i].kind \in OwnerActions /\ life[i].at \in 1 .. MaxStamp
          /\ life[i].by \in {"owner", "rules", "operator"} /\ life[i].to \in MachineState
    /\ holder \in Acting \cup {Nobody}
    /\ \A w \in Acting :
          /\ act[w].phase \in {"idle", "begun", "waiting", "holding", "writing"}
          /\ act[w].saw \in MachineState
          /\ holder = w <=> act[w].phase = "holding"

LifecycleInit ==
    /\ stamp = 0
    /\ life = <<>>
    /\ holder = Nobody
    /\ act = [w \in Acting |-> NoAct]

BeginAct(w, kind, by, phase) ==
    /\ act[w].phase = "idle"
    /\ stamp < MaxStamp /\ stamp' = stamp + 1
    /\ act' = [act EXCEPT ![w] = [NoAct EXCEPT !.phase = phase, !.kind = kind, !.by = by, !.at = stamp']]
    /\ UNCHANGED <<life, holder>>

ActOnMachine(w, action) == BeginAct(w, action, "owner", "waiting")

WasStarted == \E i \in DOMAIN life : life[i].kind = "start"

\* A run leased while the machine ran may be judged long after: its state is not asked again.
PauseMachine(w) == WasStarted /\ BeginAct(w, "pause", "rules", "writing")

StopEveryMachine(w) == BeginAct(w, "stop", "operator", "begun")

(* The machines to stop are those started and not stopped as the statement *)
(* began; waiting for their rows does not look at their events again.      *)
FindRunning(w) ==
    /\ act[w].phase = "begun"
    /\ act' = IF WasStarted /\ \A i \in DOMAIN life : life[i].kind # "stop"
              THEN [act EXCEPT ![w].phase = "waiting"] ELSE [act EXCEPT ![w] = NoAct]
    /\ UNCHANGED <<stamp, life, holder>>

RowIsUntaken == holder = Nobody

\* The row, and the state after everything committed by now.
TakeRow(w) ==
    /\ act[w].phase = "waiting"
    /\ RowIsUntaken
    /\ holder' = w
    /\ act' = [act EXCEPT ![w].phase = "holding", ![w].saw = StateAfter(life)]
    /\ UNCHANGED <<stamp, life>>

\* What an owner asks has to be allowed; an operator's stop is written as it is.
WriteAct(w) ==
    LET a == act[w] IN
    /\ a.phase = "holding"
    /\ life' = IF a.by = "owner" /\ a.saw \notin Allowed[a.kind] THEN life
               ELSE Append(life, LifeEvent(a.kind, a.at, a.by, Moved(a.saw, a.kind), a.crossed))
    /\ act' = [act EXCEPT ![w] = NoAct]
    /\ holder' = Nobody
    /\ UNCHANGED stamp

\* The rules' pause, under its run's lease and nothing else.
WritePause(w) ==
    /\ act[w].phase = "writing"
    /\ life' = Append(life, LifeEvent("pause", act[w].at, "rules", "paused", FALSE))
    /\ act' = [v \in Acting |-> IF v = w THEN NoAct
                                ELSE [act[v] EXCEPT !.crossed = @ \/ v = holder]]
    /\ UNCHANGED <<stamp, holder>>

\* The connection is lost, or the lease was: nothing is written.
GiveUpAct(w) ==
    /\ act[w].phase # "idle"
    /\ act' = [act EXCEPT ![w] = NoAct]
    /\ holder' = IF holder = w THEN Nobody ELSE holder
    /\ UNCHANGED <<stamp, life>>

LifecycleNext ==
    \E w \in Acting :
        \/ \E action \in OwnerActions : ActOnMachine(w, action)
        \/ PauseMachine(w)
        \/ StopEveryMachine(w)
        \/ FindRunning(w)
        \/ TakeRow(w)
        \/ WriteAct(w)
        \/ WritePause(w)
        \/ GiveUpAct(w)

LifecycleSpec == LifecycleInit /\ [][LifecycleNext]_lifecycleVars

-----------------------------------------------------------------------------
(* What the lifecycle promises.                                            *)

(* Stopped is final, and there is no way back (lifecycle.ts:12-14): once a *)
(* stop is in the record the machine is stopped, even where a start that   *)
(* was written before the stop is replayed after it.                       *)
StoppedIsFinal ==
    (\E i \in DOMAIN life : life[i].kind = "stop") => StateAfter(life) = "stopped"

\* The events up to this one were begun in the order they were committed.
CommittedAsBegun(n) == \A i, j \in 1 .. n : i < j => life[i].at < life[j].at

(* The strict half and the forgiving half agree (lifecycle.ts:4-6): as long*)
(* as the two orders of the record do, an owner is told the state that the *)
(* record gives once his change is in it, unless the rules paused the      *)
(* machine between; and a machine the rules paused is not running.         *)
ToldAsItIs ==
    \A n \in DOMAIN life :
        CommittedAsBegun(n) /\ ~life[n].crossed =>
            LET state == StateAfter(SubSeq(life, 1, n)) IN
            IF life[n].by = "rules" THEN state # "running" ELSE state = life[n].to
=============================================================================
