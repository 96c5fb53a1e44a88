------------------------------ MODULE Confirm ------------------------------
(***************************************************************************)
(* Finding out whether a transaction landed (packages/solana/src/confirm.ts*)
(* with the reader in rpc.ts), while the chain moves on between any two of *)
(* the questions.                                                          *)
(*                                                                         *)
(* The chain is external.  It is modelled by what the reader can see: a tip*)
(* that grows and may be replaced by a fork, blocks that become confirmed  *)
(* and then finalized and are never replaced once confirmed, and one       *)
(* transaction, which can be put in a block no higher than RealLast, the   *)
(* last height its blockhash is good for.  ClaimedLast is the height the   *)
(* proposer said.  One node answers every question; a status a node has in *)
(* its recent cache is forgotten only when it is finalized.                *)
(***************************************************************************)
EXTENDS Integers

CONSTANTS
    RealLast,       \* the last height that can hold the transaction
    ClaimedLast,    \* lastValidBlockHeight of the request
    MaxHeight,      \* bound: how far the chain grows
    MaxForks        \* bound: how often the tip is replaced

ASSUME ConfirmAssumption ==
    /\ RealLast \in Nat /\ ClaimedLast \in Nat
    /\ MaxHeight \in Nat /\ MaxForks \in Nat

VARIABLES
    tip,            \* height of the newest block a node has processed
    confirmed,      \* height of the newest confirmed block
    finalized,      \* height of the newest finalized block
    at,             \* the height the transaction is in, 0 when in none
    worked,         \* whether it worked there
    forks,          \* how often the tip was replaced
    blockhash,      \* whether the request carries the transaction's blockhash
    asking,         \* the question the caller asks next
    outcome         \* the answer, once there is one

chainVars == <<tip, confirmed, finalized, at, worked, forks>>
callerVars == <<blockhash, asking, outcome>>
confirmVars == <<chainVars, callerVars>>

Question == {"status", "height", "history", "blockhash", "again", "done"}
Outcome == {"none", "landed", "failed", "expired", "unknown"}

ConfirmTypeOK ==
    /\ tip \in Nat /\ confirmed \in Nat /\ finalized \in Nat /\ at \in Nat
    /\ worked \in BOOLEAN
    /\ forks \in Nat
    /\ blockhash \in BOOLEAN
    /\ asking \in Question
    /\ outcome \in Outcome

ConfirmInit ==
    /\ tip = 0 /\ confirmed = 0 /\ finalized = 0
    /\ at = 0 /\ worked = FALSE
    /\ forks = 0
    /\ blockhash \in BOOLEAN
    /\ asking = "status"
    /\ outcome = "none"

-----------------------------------------------------------------------------
(* The chain.                                                              *)

\* A block, with the transaction in it or not.
NewBlock ==
    /\ tip < MaxHeight
    /\ tip' = tip + 1
    /\ \/ UNCHANGED <<at, worked>>
       \/ /\ at = 0 /\ tip + 1 <= RealLast
          /\ at' = tip + 1
          /\ worked' \in BOOLEAN
    /\ UNCHANGED <<confirmed, finalized, forks, callerVars>>

\* Blocks above the confirmed ones are replaced, and what they held is in no block.
Fork ==
    /\ forks < MaxForks
    /\ forks' = forks + 1
    /\ \E h \in confirmed .. tip - 1 :
         /\ tip' = h
         /\ IF at > h THEN at' = 0 /\ worked' = FALSE ELSE UNCHANGED <<at, worked>>
    /\ UNCHANGED <<confirmed, finalized, callerVars>>

ConfirmBlock ==
    /\ confirmed < tip
    /\ confirmed' = confirmed + 1
    /\ UNCHANGED <<tip, finalized, at, worked, forks, callerVars>>

FinalizeBlock ==
    /\ finalized < confirmed
    /\ finalized' = finalized + 1
    /\ UNCHANGED <<tip, confirmed, at, worked, forks, callerVars>>

-----------------------------------------------------------------------------
(* What the reader answers.                                                *)

InABlock == at # 0

\* Variant: a status is an answer however unsettled it is.
SettledEarly == InABlock

\* isAtLeast(status.commitment, "confirmed"), which is what every caller waits for.
Settled == InABlock /\ at <= confirmed

\* Only a finalized transaction can be missing from the recent cache.
Forgotten == InABlock /\ at <= finalized

\* Variant: the height is the newest the node has seen.
BlockHeightAtTip == {tip}

\* Variant: the height is read once, before the first question.
BlockHeightCached == {0}

(* getBlockHeight is asked without a commitment: whether the client or the *)
(* node then means confirmed or finalized is theirs to say.                *)
BlockHeight == {confirmed, finalized}

\* isBlockhashValid is asked at confirmed.
BlockhashValid == confirmed <= RealLast

-----------------------------------------------------------------------------
(* The caller.                                                             *)

\* Variant: giving up is an answer of its own.
AnswerTimeout(o) == outcome' = "timeout" /\ asking' = "done" /\ UNCHANGED blockhash

Answer(o) == outcome' = o /\ asking' = "done" /\ UNCHANGED blockhash
Ask(question) == asking' = question /\ UNCHANGED <<outcome, blockhash>>

\* The recent cache.  A failure is believed at any commitment, a success once it is settled.
AskStatus ==
    /\ asking = "status"
    /\ \/ InABlock /\ ~worked /\ Answer("failed")
       \/ Settled /\ worked /\ Answer("landed")
       \/ InABlock /\ worked /\ ~Settled /\ Ask("again")
       \/ (~InABlock \/ Forgotten) /\ Ask("height")
    /\ UNCHANGED chainVars

\* Only past the claimed expiry is absence worth a second look.
AskHeight ==
    /\ asking = "height"
    /\ \E height \in BlockHeight : Ask(IF height > ClaimedLast THEN "history" ELSE "again")
    /\ UNCHANGED chainVars

\* The history knows every transaction that is in a block.  What it says is believed as it is.
AskHistory ==
    /\ asking = "history"
    /\ IF InABlock
       THEN Answer(IF worked THEN "landed" ELSE "failed")
       ELSE IF blockhash THEN Ask("blockhash") ELSE Answer("expired")
    /\ UNCHANGED chainVars

AskBlockhash ==
    /\ asking = "blockhash"
    /\ Answer(IF BlockhashValid THEN "unknown" ELSE "expired")
    /\ UNCHANGED chainVars

\* Sleeping, and once more from the first question.
AskAgain == asking = "again" /\ Ask("status") /\ UNCHANGED chainVars

\* timeoutMs is up.
TimeOut == asking = "again" /\ Answer("unknown") /\ UNCHANGED chainVars

Chain == NewBlock \/ Fork \/ ConfirmBlock \/ FinalizeBlock
Caller == AskStatus \/ AskHeight \/ AskHistory \/ AskBlockhash \/ AskAgain

ConfirmNext == Chain \/ Caller \/ TimeOut

ConfirmSpec == ConfirmInit /\ [][ConfirmNext]_confirmVars

\* The chain grows and settles, and the caller keeps asking.
ConfirmFair ==
    /\ ConfirmSpec
    /\ WF_confirmVars(NewBlock) /\ WF_confirmVars(ConfirmBlock) /\ WF_confirmVars(FinalizeBlock)
    /\ WF_confirmVars(Caller)

-----------------------------------------------------------------------------
(* A transaction declared expired is in no block and will be in none, so   *)
(* its money can be given back (confirm.ts:157, "No validator will accept  *)
(* it now, and nothing has ever heard of it. It did not happen.").  A claim*)
(* that understates the expiry is asked to keep it too (confirm.ts:146).   *)
ExpiredNeverLands == outcome = "expired" => at = 0

(* A transaction declared landed is in a block, worked there, and stays    *)
(* there, whatever forks come (confirm.ts:7).                              *)
LandedStays == outcome = "landed" => at # 0 /\ worked

(* The caller gets its answer from the chain alone: were the time never up,*)
(* the transaction would still be settled or seen to expire.               *)
TheChainAnswers == <>(outcome # "none")
=============================================================================
