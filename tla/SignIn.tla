------------------------------- MODULE SignIn -------------------------------
(***************************************************************************)
(* Signing in (services/gateway/src/session.ts) and what the database      *)
(* remembers of it (packages/db/src/sign-in.ts, owners.ts, people.ts): the *)
(* nonce a wallet answers once, the owner that wallet belongs to, and the  *)
(* session.  A request takes the time when it arrives, and each of its     *)
(* statements reaches the database later, between those of the others.     *)
(*                                                                         *)
(* A request's message is taken as well signed by the wallet it names; it  *)
(* may name any nonce ever issued.  Tokens are the request that got them.  *)
(***************************************************************************)
EXTENDS Integers, FiniteSets

CONSTANTS
    Wallets,
    Nonces,
    Owners,         \* owner ids
    Requests,       \* bound: requests to sign in or to link a wallet
    NonceValid,     \* challengeValidForMs
    SessionValid,   \* sessionValidForMs
    MaxClock,       \* bound on time
    NoWallet,
    NoOwner

ASSUME SignInAssumption ==
    /\ NonceValid \in Nat \ {0} /\ SessionValid \in Nat \ {0} /\ MaxClock \in Nat
    /\ NoWallet \notin Wallets /\ NoOwner \notin Owners \cup Wallets \cup {NoWallet}

VARIABLES
    clock,
    nonces,         \* rows of sign_in_nonces
    issued,         \* history: the nonces ever handed out
    owners,         \* the wallet of each row of owners
    asked           \* each request: what it names, where it is, and its row of sessions

signInVars == <<clock, nonces, issued, owners, asked>>

NonceRow == [nonce : Nonces, wallet : Wallets, expires : Nat, used : BOOLEAN]

NotAsked == [step |-> "new"]
Refused == [step |-> "refused"]     \* what it named matters to nobody any more
Steps == {"proving", "making", "starting", "linking", "setting", "signedIn", "linked", "ended"}

SignInTypeOK ==
    /\ clock \in 0 .. MaxClock
    /\ nonces \subseteq NonceRow
    /\ \A one, other \in nonces : one.nonce = other.nonce => one = other
    /\ owners \in [Owners -> Wallets \cup {NoWallet, NoOwner}]
    /\ \A r \in Requests : asked[r] \in {NotAsked, Refused}
          \/ /\ asked[r].step \in Steps
             /\ asked[r].nonce \in issued /\ asked[r].wallet \in Wallets
             /\ asked[r].owner \in Owners \cup {NoOwner}
             /\ asked[r].step \in {"starting", "signedIn", "linking", "setting", "linked"}
                   => owners[asked[r].owner] # NoOwner

SignInInit ==
    /\ clock = 0
    /\ nonces = {}
    /\ issued = {}
    /\ owners = [o \in Owners |-> NoOwner]
    /\ asked = [r \in Requests |-> NotAsked]

IssueNonce(n, w) ==
    /\ n \notin issued
    /\ nonces' = nonces \cup
          {[nonce |-> n, wallet |-> w, expires |-> clock + NonceValid, used |-> FALSE]}
    /\ issued' = issued \cup {n}
    /\ UNCHANGED <<clock, owners, asked>>

Made(o) == owners[o] # NoOwner

\* Somebody signs in with an email: an owner without a wallet.
CreateOwnerForUser(o) ==
    /\ ~Made(o)
    /\ owners' = [owners EXCEPT ![o] = NoWallet]
    /\ UNCHANGED <<clock, nonces, issued, asked>>

\* ownerOfSession: not ended, and not past its time.
LiveSession(r) == asked[r].step = "signedIn" /\ asked[r].expires > clock

\* A person's own session is kept elsewhere: an owner made for one may always be asking.
Asking(o) == owners[o] = NoWallet \/ \E r \in Requests : LiveSession(r) /\ asked[r].owner = o

Arrive(r, for, n, w, o) ==
    /\ asked[r] = NotAsked
    /\ n \in issued
    /\ asked' = [asked EXCEPT ![r] =
          [step |-> "proving", for |-> for, nonce |-> n, wallet |-> w, owner |-> o,
           at |-> clock, expires |-> 0]]
    /\ UNCHANGED <<clock, nonces, issued, owners>>

Verify(r, n, w) == Arrive(r, "signIn", n, w, NoOwner)
LinkWallet(r, n, w, o) == Asking(o) /\ Arrive(r, "link", n, w, o)

StepTo(r, step) == asked' = [asked EXCEPT ![r].step = step]
Refuse(r) == asked' = [asked EXCEPT ![r] = Refused]

\* Variant: whether it was spent was looked at when the request arrived.
StillGood(row, r) == row.nonce = asked[r].nonce /\ row.wallet = asked[r].wallet
                     /\ row.expires > asked[r].at

\* The row the update touches: unspent, unexpired when the request arrived, this wallet's.
Spendable(row, r) ==
    /\ row.nonce = asked[r].nonce
    /\ row.wallet = asked[r].wallet
    /\ ~row.used
    /\ row.expires > asked[r].at

SpendNonce(r) ==
    /\ asked[r].step = "proving"
    /\ IF \E row \in nonces : Spendable(row, r)
       THEN /\ nonces' = {IF Spendable(row, r) THEN [row EXCEPT !.used = TRUE] ELSE row : row \in nonces}
            /\ StepTo(r, IF asked[r].for = "signIn" THEN "making" ELSE "linking")
       ELSE /\ Refuse(r)
            /\ UNCHANGED nonces
    /\ UNCHANGED <<clock, issued, owners>>

\* Variant: the id just made is answered, though the row was not inserted.
TheIdItMade(o, w) == TRUE

Found(o, w) == owners[o] = w

(* Inserted unless the wallet has an owner, who is then found: wallets are *)
(* never taken away, so the second statement cannot miss.                  *)
CreateOwner(r, o) ==
    /\ asked[r].step = "making"
    /\ IF \E other \in Owners : owners[other] = asked[r].wallet
       THEN Found(o, asked[r].wallet) /\ UNCHANGED owners
       ELSE ~Made(o) /\ owners' = [owners EXCEPT ![o] = asked[r].wallet]
    /\ asked' = [asked EXCEPT ![r].step = "starting", ![r].owner = o]
    /\ UNCHANGED <<clock, nonces, issued>>

StartSession(r) ==
    /\ asked[r].step = "starting"
    /\ asked' = [asked EXCEPT ![r].step = "signedIn", ![r].expires = asked[r].at + SessionValid]
    /\ UNCHANGED <<clock, nonces, issued, owners>>

\* An owner who has this wallet is done, and one who has another keeps it.
ReadOwnersWallet(r) ==
    /\ asked[r].step = "linking"
    /\ CASE owners[asked[r].owner] = asked[r].wallet -> StepTo(r, "linked")
         [] owners[asked[r].owner] = NoWallet -> StepTo(r, "setting")
         [] OTHER -> Refuse(r)
    /\ UNCHANGED <<clock, nonces, issued, owners>>

\* Variant: that the owner has no wallet is known from the read.
NobodysWallet(o, w) == \A other \in Owners : owners[other] # w

\* The owner still has no wallet, and the wallet still has no owner.
Linkable(o, w) == owners[o] = NoWallet /\ \A other \in Owners : owners[other] # w

SetWallet(r) ==
    /\ asked[r].step = "setting"
    /\ IF Linkable(asked[r].owner, asked[r].wallet)
       THEN owners' = [owners EXCEPT ![asked[r].owner] = asked[r].wallet] /\ StepTo(r, "linked")
       ELSE UNCHANGED owners /\ Refuse(r)
    /\ UNCHANGED <<clock, nonces, issued>>

EndSession(r) ==
    /\ asked[r].step = "signedIn"
    /\ StepTo(r, "ended")
    /\ UNCHANGED <<clock, nonces, issued, owners>>

\* The gateway stops or the database fails in the middle of a request: it goes no further.
Abandon(r) ==
    /\ asked[r].step \in {"proving", "making", "starting", "linking", "setting"}
    /\ Refuse(r)
    /\ UNCHANGED <<clock, nonces, issued, owners>>

\* Nonces and sessions past their time are deleted.
ForgetExpired ==
    /\ nonces' = {row \in nonces : row.expires >= clock}
    /\ asked' = [r \in Requests |->
          IF asked[r].step = "signedIn" /\ asked[r].expires < clock
          THEN [asked[r] EXCEPT !.step = "ended"] ELSE asked[r]]
    /\ UNCHANGED <<clock, issued, owners>>

PassTime == clock < MaxClock /\ clock' = clock + 1 /\ UNCHANGED <<nonces, issued, owners, asked>>

SignInNext ==
    \/ \E n \in Nonces, w \in Wallets : IssueNonce(n, w)
    \/ \E o \in Owners : CreateOwnerForUser(o)
    \/ \E r \in Requests :
        \/ \E n \in Nonces, w \in Wallets : Verify(r, n, w)
        \/ \E n \in Nonces, w \in Wallets, o \in Owners : LinkWallet(r, n, w, o)
        \/ SpendNonce(r)
        \/ \E o \in Owners : CreateOwner(r, o)
        \/ StartSession(r)
        \/ ReadOwnersWallet(r)
        \/ SetWallet(r)
        \/ EndSession(r)
        \/ Abandon(r)
    \/ ForgetExpired
    \/ PassTime

SignInSpec == SignInInit /\ [][SignInNext]_signInVars

-----------------------------------------------------------------------------
(* What signing in promises.                                               *)

\* A request got past its proof.
Proved(r) == asked[r].step \in {"making", "starting", "linking", "setting", "signedIn", "linked", "ended"}

(* A nonce may be answered exactly once (sign-in.ts:4-10): of all the      *)
(* requests that name it, to sign in or to link, at most one gets past its *)
(* proof, however they interleave and whatever is forgotten in between.    *)
NonceAnsweredOnce ==
    \A one, other \in Requests :
        /\ Proved(one) /\ Proved(other)
        /\ asked[one].nonce = asked[other].nonce
        => one = other

(* A wallet belongs to one owner, and an owner that has one keeps it       *)
(* (people.ts linkWallet): whoever signed in with a wallet, or linked it,  *)
(* is the owner who has it for as long as anybody looks, and no other      *)
(* owner does.                                                             *)
SignedInAsItself ==
    \A r \in Requests :
        asked[r].step \in {"starting", "signedIn", "linked", "ended"} =>
            {o \in Owners : owners[o] = asked[r].wallet} = {asked[r].owner}
=============================================================================
