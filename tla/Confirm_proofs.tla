--------------------------- MODULE Confirm_proofs ---------------------------
(***************************************************************************)
(* Proofs about Confirm, for every height, every number of forks, with and *)
(* without the blockhash: when the claimed expiry is not below the real    *)
(* one, confirmSignature never writes off a transaction that can land, and *)
(* never calls landed one that a fork can undo.                            *)
(***************************************************************************)
EXTENDS Confirm, TLAPS

-----------------------------------------------------------------------------
(* Types, of an honest claim or not.                                       *)

LEMMA ConfirmInitType == ConfirmInit => ConfirmTypeOK
  <1> SUFFICES ASSUME ConfirmInit PROVE ConfirmTypeOK
    OBVIOUS
  <1>1. worked \in BOOLEAN /\ blockhash \in BOOLEAN
    BY DEF ConfirmInit
  <1>2. asking \in Question /\ outcome \in Outcome
    BY DEF ConfirmInit, Question, Outcome
  <1>3. QED
    BY <1>1, <1>2 DEF ConfirmInit, ConfirmTypeOK

LEMMA ConfirmNextType == ConfirmTypeOK /\ [ConfirmNext]_confirmVars => ConfirmTypeOK'
  <1> SUFFICES ASSUME ConfirmTypeOK, [ConfirmNext]_confirmVars PROVE ConfirmTypeOK'
    OBVIOUS
  <1>1. ASSUME NewBlock PROVE ConfirmTypeOK'
    BY <1>1 DEF NewBlock, ConfirmTypeOK, callerVars
  <1>2. ASSUME Fork PROVE ConfirmTypeOK'
    <2>1. PICK h \in confirmed .. tip - 1 :
            /\ tip' = h
            /\ IF at > h THEN at' = 0 /\ worked' = FALSE ELSE UNCHANGED <<at, worked>>
      BY <1>2 DEF Fork
    <2>2. tip' \in Nat
      BY <2>1 DEF ConfirmTypeOK
    <2>3. at' \in Nat
      BY <2>1 DEF ConfirmTypeOK
    <2>4. worked' \in BOOLEAN
      <3>1. worked' = FALSE \/ worked' = worked
        BY <2>1
      <3>2. QED
        BY <3>1 DEF ConfirmTypeOK
    <2>5. QED
      BY <1>2, <2>2, <2>3, <2>4 DEF Fork, ConfirmTypeOK, callerVars
  <1>3. ASSUME ConfirmBlock \/ FinalizeBlock PROVE ConfirmTypeOK'
    BY <1>3 DEF ConfirmBlock, FinalizeBlock, ConfirmTypeOK, callerVars
  <1>4. ASSUME Caller \/ TimeOut PROVE ConfirmTypeOK'
    <2>1. UNCHANGED chainVars /\ UNCHANGED blockhash
      BY <1>4 DEF Caller, AskStatus, AskHeight, AskHistory, AskBlockhash, AskAgain, TimeOut, Ask, Answer
    <2>2. asking' \in Question /\ outcome' \in Outcome
      BY <1>4 DEF Caller, AskStatus, AskHeight, AskHistory, AskBlockhash, AskAgain, TimeOut, Ask, Answer,
            ConfirmTypeOK, Question, Outcome
    <2>3. QED
      BY <2>1, <2>2 DEF ConfirmTypeOK, chainVars
  <1>5. ASSUME UNCHANGED confirmVars PROVE ConfirmTypeOK'
    BY <1>5 DEF confirmVars, chainVars, callerVars, ConfirmTypeOK
  <1>6. QED
    BY <1>1, <1>2, <1>3, <1>4, <1>5 DEF ConfirmNext, Chain

(* Whatever the claim, the reader only ever asks the questions and gives   *)
(* the answers confirmSignature has (confirm.ts:128-166).                  *)
THEOREM ConfirmTypeCorrect == ConfirmSpec => []ConfirmTypeOK
  <1>1. QED
    BY ConfirmInitType, ConfirmNextType, PTL DEF ConfirmSpec

-----------------------------------------------------------------------------
\* The claim is the transaction's own expiry or later.
Honest == ClaimedLast >= RealLast

(* The strengthening: blocks are finalized out of the confirmed and        *)
(* confirmed out of the processed ones; the transaction is in a block of   *)
(* the chain, no higher than its expiry; from the moment its history is    *)
(* searched, the confirmed chain is past that expiry and no fork takes it  *)
(* back, so a transaction in no block can enter none.                      *)
Heights == finalized <= confirmed /\ confirmed <= tip
InTheChain == at <= tip /\ at <= RealLast
PastExpiry ==
    /\ asking \in {"history", "blockhash"} => confirmed > RealLast
    /\ asking = "blockhash" => at = 0
    /\ outcome = "expired" => confirmed > RealLast /\ at = 0
LandedIsSettled == outcome = "landed" => at # 0 /\ worked /\ at <= confirmed

CInv == ConfirmTypeOK /\ Heights /\ InTheChain /\ PastExpiry /\ LandedIsSettled

LEMMA ConfirmInitCInv == Honest /\ ConfirmInit => CInv
  <1> SUFFICES ASSUME Honest, ConfirmInit PROVE CInv
    OBVIOUS
  <1>1. asking = "status" /\ outcome = "none"
    BY DEF Honest, ConfirmInit
  <1>2. ConfirmTypeOK
    BY <1>1 DEF ConfirmInit, ConfirmTypeOK, Question, Outcome
  <1>3. Heights /\ InTheChain
    BY ConfirmAssumption DEF ConfirmInit, Heights, InTheChain
  <1>4. PastExpiry /\ LandedIsSettled
    BY <1>1 DEF PastExpiry, LandedIsSettled
  <1>5. QED
    BY <1>2, <1>3, <1>4 DEF CInv

(* What the chain does disturbs nothing the caller has been told.          *)
LEMMA ChainStep == CInv /\ Chain => CInv'
  <1> SUFFICES ASSUME CInv, Chain PROVE CInv'
    OBVIOUS
  <1> USE ConfirmAssumption DEF CInv, ConfirmTypeOK, Heights, InTheChain, PastExpiry,
          LandedIsSettled, callerVars
  <1>1. CASE NewBlock
    BY <1>1 DEF NewBlock
  <1>2. CASE Fork
    <2>1. PICK h \in confirmed .. tip - 1 :
            /\ tip' = h
            /\ IF at > h THEN at' = 0 /\ worked' = FALSE ELSE UNCHANGED <<at, worked>>
      BY <1>2 DEF Fork
    <2>2. h \in Nat /\ confirmed <= h
      OBVIOUS
    <2>3. forks' \in Nat /\ UNCHANGED <<confirmed, finalized, callerVars>>
      BY <1>2 DEF Fork
    <2>4. CASE at > h
      <3>1. at' = 0 /\ worked' = FALSE
        BY <2>1, <2>4
      <3>2. outcome # "landed"
        BY <2>2, <2>4
      <3>3. worked' \in BOOLEAN
        BY <3>1
      <3>4. LandedIsSettled'
        BY <2>3, <3>2
      <3>5. tip' \in Nat /\ Heights' /\ InTheChain' /\ PastExpiry'
        BY <2>1, <2>2, <2>3, <3>1
      <3>6. QED
        BY <2>1, <2>3, <3>1, <3>3, <3>4, <3>5
    <2>5. CASE ~(at > h)
      <3>1. at' = at /\ worked' = worked
        BY <2>1, <2>5
      <3>2. QED
        BY <2>1, <2>2, <2>3, <2>5, <3>1
    <2>6. QED
      BY <2>4, <2>5
  <1>3. CASE ConfirmBlock
    BY <1>3 DEF ConfirmBlock
  <1>4. CASE FinalizeBlock
    BY <1>4 DEF FinalizeBlock
  <1>5. QED
    BY <1>1, <1>2, <1>3, <1>4 DEF Chain

(* The questions, in the order confirmSignature asks them.                 *)
LEMMA CallerStep == Honest /\ CInv /\ (Caller \/ TimeOut) => CInv'
  <1> SUFFICES ASSUME Honest, CInv, Caller \/ TimeOut PROVE CInv'
    OBVIOUS
  <1> USE ConfirmAssumption DEF Honest, CInv, ConfirmTypeOK, Heights, InTheChain, PastExpiry,
          LandedIsSettled, chainVars, Answer, Ask, Question, Outcome
  <1>1. CASE AskStatus
    BY <1>1 DEF AskStatus, InABlock, Settled, Forgotten
  <1>2. CASE AskHeight
    BY <1>2 DEF AskHeight, BlockHeight
  <1>3. CASE AskHistory
    BY <1>3 DEF AskHistory, InABlock
  <1>4. CASE AskBlockhash
    BY <1>4 DEF AskBlockhash, BlockhashValid
  <1>5. CASE AskAgain \/ TimeOut
    BY <1>5 DEF AskAgain, TimeOut
  <1>6. QED
    BY <1>1, <1>2, <1>3, <1>4, <1>5 DEF Caller

LEMMA ConfirmNextCInv == Honest /\ CInv /\ [ConfirmNext]_confirmVars => CInv'
  <1>1. CInv /\ UNCHANGED confirmVars => CInv'
    BY DEF confirmVars, chainVars, callerVars, CInv, ConfirmTypeOK, Heights, InTheChain,
          PastExpiry, LandedIsSettled
  <1>2. QED
    BY <1>1, ChainStep, CallerStep DEF ConfirmNext

(* A trade or sweep declared expired never lands, whatever the chain does  *)
(* between the questions (confirm.ts:128-166).                             *)
THEOREM ExpiryIsFinal ==
    ASSUME Honest PROVE ConfirmSpec => []ExpiredNeverLands
  <1>1. ConfirmInit => CInv
    BY ConfirmInitCInv
  <1>2. CInv /\ [ConfirmNext]_confirmVars => CInv'
    BY ConfirmNextCInv
  <1>3. CInv => ExpiredNeverLands
    BY DEF CInv, PastExpiry, ExpiredNeverLands
  <1>4. QED
    BY <1>1, <1>2, <1>3, PTL DEF ConfirmSpec

(* A transaction declared landed stays landed (confirm.ts:125 and :139).   *)
THEOREM LandingIsFinal ==
    ASSUME Honest PROVE ConfirmSpec => []LandedStays
  <1>1. ConfirmInit => CInv
    BY ConfirmInitCInv
  <1>2. CInv /\ [ConfirmNext]_confirmVars => CInv'
    BY ConfirmNextCInv
  <1>3. CInv => LandedStays
    BY DEF CInv, LandedIsSettled, LandedStays
  <1>4. QED
    BY <1>1, <1>2, <1>3, PTL DEF ConfirmSpec
=============================================================================
