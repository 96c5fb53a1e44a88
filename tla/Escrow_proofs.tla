--------------------------- MODULE Escrow_proofs ---------------------------
(***************************************************************************)
(* Proofs about Escrow, for every finite set of trades and every grant.    *)
(***************************************************************************)
EXTENDS Escrow, FiniteSetTheorems, TLAPS

(* The strengthening: what the chain has done agrees with the stage of the *)
(* money, so that committed money covers whatever can still be spent.      *)
Agree ==
    \A t \in Trades :
        /\ chain[t] \in {"pending", "landed"} => stage[t] \in {"out", "paid"}
        /\ stage[t] = "paid" => chain[t] = "landed"

PInv == EscrowTypeOK /\ WithinGrant /\ Agree

LEMMA CommittedIsFinite ==
    ASSUME EscrowAssumption
    PROVE  IsFiniteSet(Committed) /\ Cardinality(Committed) \in Nat
  <1>1. Committed \subseteq Trades
    BY DEF Committed
  <1>2. IsFiniteSet(Committed)
    BY <1>1, FS_Subset DEF EscrowAssumption
  <1>3. QED
    BY <1>2, FS_CardinalityType

LEMMA EscrowInitPInv == EscrowAssumption /\ EscrowInit => PInv
  <1> SUFFICES ASSUME EscrowAssumption, EscrowInit PROVE PInv
    OBVIOUS
  <1>1. EscrowTypeOK /\ Agree
    BY DEF EscrowInit, EscrowTypeOK, Agree, Stage, Fate
  <1>2. Committed = {}
    BY DEF EscrowInit, Committed
  <1>3. WithinGrant
    BY <1>2, FS_EmptySet DEF WithinGrant, EscrowAssumption
  <1>4. QED
    BY <1>1, <1>3 DEF PInv

(* A move that commits no trade that was not committed.                    *)
LEMMA NoNewCommitment ==
    ASSUME EscrowAssumption, WithinGrant, Committed' \subseteq Committed
    PROVE  WithinGrant'
  <1>1. IsFiniteSet(Committed) /\ Cardinality(Committed) \in Nat
    BY CommittedIsFinite
  <1>2. Cardinality(Committed') <= Cardinality(Committed)
    BY <1>1, FS_Subset
  <1>3. IsFiniteSet(Committed') /\ Cardinality(Committed') \in Nat
    BY <1>1, FS_Subset, FS_CardinalityType
  <1>4. QED
    BY <1>1, <1>2, <1>3 DEF WithinGrant, EscrowAssumption

LEMMA EscrowNextPInv == EscrowAssumption /\ PInv /\ [EscrowNext]_escrowVars => PInv'
  <1> SUFFICES ASSUME EscrowAssumption, PInv, [EscrowNext]_escrowVars PROVE PInv'
    OBVIOUS
  <1>0. EscrowTypeOK /\ WithinGrant /\ Agree
    BY DEF PInv
  <1>1. ASSUME NEW t \in Trades, SetAside(t) PROVE PInv'
    <2>1. EscrowTypeOK' /\ Agree'
      BY <1>0, <1>1 DEF SetAside, Move, EscrowTypeOK, Agree, Stage, Fate
    <2>2. Committed' = Committed \cup {t} /\ t \notin Committed
      BY <1>0, <1>1 DEF SetAside, Move, EscrowTypeOK, Committed
    <2>3. Cardinality(Committed') = Cardinality(Committed) + 1
      BY <2>2, CommittedIsFinite, FS_AddElement
    <2>4. Cardinality(Committed) < Capacity /\ Cardinality(Committed) \in Nat
      BY <1>1, CommittedIsFinite DEF SetAside
    <2>5. WithinGrant'
      BY <2>3, <2>4 DEF WithinGrant, EscrowAssumption
    <2>6. QED
      BY <2>1, <2>5 DEF PInv
  <1>2. ASSUME NEW t \in Trades, LetGo(t) \/ Pay(t) PROVE PInv'
    <2>1. EscrowTypeOK' /\ Agree'
      BY <1>0, <1>2 DEF LetGo, Pay, Move, EscrowTypeOK, Agree, Stage, Fate
    <2>2. Committed' \subseteq Committed
      BY <1>0, <1>2 DEF LetGo, Pay, Move, EscrowTypeOK, Committed
    <2>3. QED
      BY <1>0, <2>1, <2>2, NoNewCommitment DEF PInv
  <1>3. ASSUME NEW t \in Trades, Arrive(t) \/ Land(t) \/ Die(t) PROVE PInv'
    <2>1. EscrowTypeOK' /\ Agree'
      BY <1>0, <1>3 DEF Arrive, Land, Die, Happen, EscrowTypeOK, Agree, Stage, Fate
    <2>2. Committed' \subseteq Committed
      BY <1>3 DEF Arrive, Land, Die, Happen, Committed
    <2>3. QED
      BY <1>0, <2>1, <2>2, NoNewCommitment DEF PInv
  <1>4. ASSUME NEW t \in Trades, Free(t) PROVE PInv'
    <2>1. chain[t] \notin {"pending", "landed"}
      BY <1>0, <1>4 DEF Free, Move, EscrowTypeOK, Agree
    <2>2. EscrowTypeOK' /\ Agree'
      BY <1>0, <1>4, <2>1 DEF Free, Move, EscrowTypeOK, Agree, Stage, Fate
    <2>3. Committed' \subseteq Committed
      BY <1>0, <1>4 DEF Free, Move, EscrowTypeOK, Committed
    <2>4. QED
      BY <1>0, <2>2, <2>3, NoNewCommitment DEF PInv
  <1>5. CASE UNCHANGED escrowVars
    <2>1. EscrowTypeOK' /\ Agree' /\ Committed' \subseteq Committed
      BY <1>0, <1>5 DEF escrowVars, EscrowTypeOK, Agree, Committed
    <2>2. QED
      BY <1>0, <2>1, NoNewCommitment DEF PInv
  <1>6. QED
    BY <1>1, <1>2, <1>3, <1>4, <1>5 DEF EscrowNext

LEMMA PInvHolds == ASSUME EscrowAssumption PROVE EscrowSpec => []PInv
  BY EscrowInitPInv, EscrowNextPInv, PTL DEF EscrowSpec

(* However many trades run at once, no more money is ever committed than   *)
(* the owner granted (ledger.ts reserveForTrade).                          *)
THEOREM GrantIsNeverExceeded == ASSUME EscrowAssumption PROVE EscrowSpec => []WithinGrant
  <1>1. PInv => WithinGrant
    BY DEF PInv
  <1>2. QED
    BY <1>1, PInvHolds, PTL

(* Whatever can land, or has, is money committed, and there is never more  *)
(* of it than the grant (submit-once.ts, ledger.ts releaseTrade).          *)
THEOREM NoSpendIsUnknown == ASSUME EscrowAssumption PROVE EscrowSpec => []SpendsAreKnown
  <1>1. ASSUME PInv PROVE SpendsAreKnown
    <2> DEFINE L == {t \in Trades : chain[t] \in {"pending", "landed"}}
    <2>1. \A t \in Trades : chain[t] \in {"pending", "landed"} => stage[t] \in {"out", "paid"}
      BY <1>1 DEF PInv, Agree
    <2>2. L \subseteq Committed
      BY <2>1 DEF Committed
    <2>3. /\ IsFiniteSet(Committed) /\ Cardinality(Committed) \in Nat
          /\ Cardinality(Committed) <= Capacity
      BY <1>1, CommittedIsFinite DEF PInv, WithinGrant
    <2>4. Cardinality(L) <= Cardinality(Committed) /\ Cardinality(L) \in Nat
      BY <2>2, <2>3, FS_Subset, FS_CardinalityType
    <2>5. Cardinality(L) <= Capacity
      BY <2>3, <2>4 DEF EscrowAssumption
    <2>6. QED
      BY <2>1, <2>5 DEF SpendsAreKnown
  <1>2. QED
    BY <1>1, PInvHolds, PTL
=============================================================================
