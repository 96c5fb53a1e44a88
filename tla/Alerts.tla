------------------------------- MODULE Alerts -------------------------------
(***************************************************************************)
(* Telling owners what their machines did: the bots' loop                  *)
(* (services/bots/src/alerts.ts) over what the record says is worth        *)
(* telling and has not been told (packages/db/src/alerts.ts).              *)
(*                                                                         *)
(* An event's moment is when its transaction began, and it is seen once it *)
(* is committed.  An event is news, or an owner's own pause or stop, which *)
(* is never told.  Events of all the owners asked about share one window.  *)
(***************************************************************************)
EXTENDS Integers, SequencesExt

CONSTANTS
    Events,         \* bound: events of the kinds worth telling
    Window,         \* the most rows one look reads
    MaxSends        \* bound on messages sent

ASSUME AlertsAssumption == IsFiniteSet(Events) /\ Window \in Nat \ {0} /\ MaxSends \in Nat

VARIABLES
    moment,         \* the time
    happened,       \* each event's moment, whether it is news, and where its transaction is
    delivered,      \* rows of deliveries
    bots,           \* the loop: what it was started at, and what is left of this look
    sends,          \* history: how often each event was sent
    unmarked,       \* history: events sent and not marked
    unsent,         \* history: events that failed to send
    late            \* history: events committed after one of a later moment

alertsVars == <<moment, happened, delivered, bots, sends, unmarked, unsent, late>>

NotYet == [stage |-> "notYet", at |-> 0, news |-> FALSE]
Committed == {e \in Events : happened[e].stage = "committed"}

AlertsTypeOK ==
    /\ moment \in 0 .. Cardinality(Events)
    /\ happened \in [Events -> [stage : {"notYet", "open", "committed", "undone"},
                                at : 0 .. moment, news : BOOLEAN]]
    /\ delivered \subseteq {e \in Committed : happened[e].news /\ sends[e] > 0}
    /\ bots.step \in {"resting", "telling", "marking"} /\ bots.since \in 0 .. moment
    /\ ToSet(bots.left) \subseteq Committed /\ Len(bots.left) <= Window
    /\ bots.left = <<>> <=> bots.step = "resting"
    /\ sends \in [Events -> 0 .. MaxSends]

AlertsInit ==
    /\ moment = 0
    /\ happened = [e \in Events |-> NotYet]
    /\ delivered = {} /\ unmarked = {} /\ unsent = {} /\ late = {}
    /\ bots = [step |-> "resting", since |-> 0, left |-> <<>>]
    /\ sends = [e \in Events |-> 0]

botsVars == <<delivered, bots, sends, unmarked, unsent>>
recordVars == <<moment, happened, late>>

BeginEvent(e, news) ==
    /\ happened[e] = NotYet
    /\ moment' = moment + 1
    /\ happened' = [happened EXCEPT ![e] = [stage |-> "open", at |-> moment', news |-> news]]
    /\ UNCHANGED <<late, botsVars>>

CommitEvent(e) ==
    /\ happened[e].stage = "open"
    /\ happened' = [happened EXCEPT ![e].stage = "committed"]
    /\ late' = IF \E f \in Committed : happened[f].at > happened[e].at THEN late \cup {e} ELSE late
    /\ UNCHANGED <<moment, botsVars>>

UndoEvent(e) ==
    /\ happened[e].stage = "open"
    /\ happened' = [happened EXCEPT ![e].stage = "undone"]
    /\ UNCHANGED <<moment, late, botsVars>>

\* Those of some events that happened before one of them.
Before(e, events) == {f \in events : happened[f].at < happened[e].at}

\* Variant: those that happened last come first.
NewestFirst(events) ==
    [i \in 1 .. Cardinality(events) |->
        CHOOSE e \in events : Cardinality(Before(e, events)) = Cardinality(events) - i]

\* No two events are of one moment.
OldestFirst(events) ==
    [i \in 1 .. Cardinality(events) |-> CHOOSE e \in events : Cardinality(Before(e, events)) = i - 1]

Limited(events) == {e \in events : Cardinality(Before(e, events)) < Window}

\* Variant: what was told is not looked up.
SinceThen(e) == happened[e].at > bots.since

Untold(e) == happened[e].at > bots.since /\ e \notin delivered

(* pendingAlerts: the window is cut from all the kinds worth telling, and  *)
(* what an owner did is left out of it after that.                         *)
PendingAlerts ==
    OldestFirst({e \in Limited({f \in Committed : Untold(f)}) : happened[e].news})

Look ==
    /\ bots.step = "resting"
    /\ PendingAlerts # <<>>
    /\ bots' = [bots EXCEPT !.step = "telling", !.left = PendingAlerts]
    /\ UNCHANGED <<recordVars, delivered, sends, unmarked, unsent>>

\* On to the next alert of this look, or to rest until the next look.
Onward == [bots EXCEPT !.left = Tail(@), !.step = IF Len(bots.left) > 1 THEN "telling" ELSE "resting"]

\* Sent, whether or not Telegram's answer arrives.
SendAlert ==
    /\ bots.step = "telling"
    /\ sends[Head(bots.left)] < MaxSends
    /\ sends' = [sends EXCEPT ![Head(bots.left)] = @ + 1]
    /\ \/ bots' = [bots EXCEPT !.step = "marking"] /\ UNCHANGED unmarked
       \/ bots' = Onward /\ unmarked' = unmarked \cup {Head(bots.left)}
    /\ UNCHANGED <<recordVars, delivered, unsent>>

CouldNotSend ==
    /\ bots.step = "telling"
    /\ bots' = Onward
    /\ unsent' = unsent \cup {Head(bots.left)}
    /\ UNCHANGED <<recordVars, delivered, sends, unmarked>>

MarkTold ==
    /\ bots.step = "marking"
    /\ delivered' = delivered \cup {Head(bots.left)}
    /\ bots' = Onward
    /\ UNCHANGED <<recordVars, sends, unmarked, unsent>>

\* Refused, and the look goes on; or not answered, and the look ends, whether or not it is marked.
CouldNotMark ==
    /\ bots.step = "marking"
    /\ unmarked' = unmarked \cup {Head(bots.left)}
    /\ \/ bots' = Onward /\ UNCHANGED delivered
       \/ /\ bots' = [bots EXCEPT !.step = "resting", !.left = <<>>]
          /\ \/ delivered' = delivered \cup {Head(bots.left)}
             \/ UNCHANGED delivered
    /\ UNCHANGED <<recordVars, sends, unsent>>

\* since: new Date()
RestartBots ==
    /\ bots' = [step |-> "resting", since |-> moment, left |-> <<>>]
    /\ unmarked' = IF bots.step = "marking" THEN unmarked \cup {Head(bots.left)} ELSE unmarked
    /\ UNCHANGED <<recordVars, delivered, sends, unsent>>

AlertsNext ==
    \/ \E e \in Events :
        \/ \E news \in BOOLEAN : BeginEvent(e, news)
        \/ CommitEvent(e)
        \/ UndoEvent(e)
    \/ Look
    \/ SendAlert
    \/ CouldNotSend
    \/ MarkTold
    \/ CouldNotMark
    \/ RestartBots

AlertsSpec == AlertsInit /\ [][AlertsNext]_alertsVars

-----------------------------------------------------------------------------
(* What telling promises.                                                  *)

(* One that sent but could not be marked may be sent twice (bots/src/      *)
(* alerts.ts:6-7), and nothing else is: whatever order events are seen in, *)
(* looks fail and the bots restart.                                        *)
ToldTwiceOnlyUnmarked == \A e \in Events : sends[e] > 1 => e \in unmarked

(* Oldest first (db/src/alerts.ts pendingAlerts): since the bots started,  *)
(* an owner hears of an event before he heard of an earlier one only if    *)
(* the earlier one could not be sent, or was not in the record in time.    *)
ToldInOrder ==
    \A e, f \in Committed :
        /\ happened[e].news /\ happened[e].at > bots.since
        /\ happened[e].at < happened[f].at /\ sends[f] > 0
        => sends[e] > 0 \/ e \in unsent \cup late
=============================================================================
