----------------------------- MODULE MCDatabase -----------------------------
(* What the database decides, checked in one run: leases, budgets,         *)
(* lifecycles and sign-ins wait for nothing of each other's, so each       *)
(* behaviour is a behaviour of one of them and the others stay where they  *)
(* began.                                                                  *)
EXTENDS Leases, Ledger, Lifecycle, SignIn, TLC

CONSTANT Tables         \* those to check

VARIABLE table          \* the one that moves

databaseVars == <<table, vars, ledgerVars, lifecycleVars, signInVars>>

\* Only the one that moves begins in every way it may.
DatabaseInit ==
    /\ table \in Tables /\ Init /\ LedgerInit /\ LifecycleInit /\ SignInInit
    /\ table # "ledger" => record = <<Granted(0, CHOOSE g \in Grants : TRUE)>>

DatabaseNext ==
    /\ UNCHANGED table
    /\ \/ table = "leases" /\ Next /\ UNCHANGED <<ledgerVars, lifecycleVars, signInVars>>
       \/ table = "ledger" /\ LedgerNext /\ UNCHANGED <<vars, lifecycleVars, signInVars>>
       \/ table = "signIn" /\ SignInNext /\ UNCHANGED <<vars, ledgerVars, lifecycleVars>>
       \/ table = "lifecycle" /\ LifecycleNext /\ UNCHANGED <<vars, ledgerVars, signInVars>>

DatabaseSpec == DatabaseInit /\ [][DatabaseNext]_databaseVars

(* The rows and transactions of the other tables are what their code says  *)
(* they are; TypeOK is of the leases.                                      *)
DatabaseTypeOK == LedgerTypeOK /\ LifecycleTypeOK /\ SignInTypeOK

\* Sets of different tables share their model values, so that few permutations serve them all.
Symmetry == UNION {Permutations(names) : names \in {Nodes, Runs, Trades, Owners}}
=============================================================================
