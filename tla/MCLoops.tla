------------------------------ MODULE MCLoops ------------------------------
(* The loops that read, wait and act on what they read, checked in one     *)
(* run: the traders', the bots' and the price watcher's share nothing, so  *)
(* each behaviour is a behaviour of one of them and the others stay where  *)
(* they began.                                                             *)
EXTENDS Trader, Alerts, Watcher, TLC

CONSTANT Loops          \* those to check

VARIABLE loop           \* the one that moves

loopsVars == <<loop, traderVars, alertsVars, watcherVars>>

\* Only the one that moves begins in every way it may.
LoopsInit ==
    /\ loop \in Loops /\ TraderInit /\ AlertsInit /\ WatcherInit
    /\ loop # "watcher" => half = CHOOSE h \in Halves : TRUE

LoopsNext ==
    /\ UNCHANGED loop
    /\ \/ loop = "trader" /\ TraderNext /\ UNCHANGED <<alertsVars, watcherVars>>
       \/ loop = "alerts" /\ AlertsNext /\ UNCHANGED <<traderVars, watcherVars>>
       \/ loop = "watcher" /\ WatcherNext /\ UNCHANGED <<traderVars, alertsVars>>

LoopsSpec == LoopsInit /\ [][LoopsNext]_loopsVars

(* What each loop reads, keeps and writes is what its code says it is.     *)
LoopsTypeOK == TraderTypeOK /\ AlertsTypeOK /\ WatcherTypeOK

Symmetry == Permutations(Runs) \cup Permutations(Callers)
=============================================================================
