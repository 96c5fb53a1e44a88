---------------------------- MODULE Funds_proofs ----------------------------
(***************************************************************************)
(* Proofs about Funds, for any trades, sweeps, withdrawals, requests and   *)
(* faults: what the record says of a transfer is what the chain did, and,  *)
(* while the orchestrator stays up, the same profit is banked once.        *)
(***************************************************************************)
EXTENDS Funds, TLAPS

-----------------------------------------------------------------------------
(* The strengthening.                                                      *)

Accounts == {"vault", "trading", "sol"}
Before == {"measured", "emptying", "building"}      \* a request has no signature yet
Since == {"signed", "waiting"}

On(h) == handler[h].on
At(h, pcs) == handler[h].pc \in pcs

IsTransfer(t) ==
    t \in [asked : BOOLEAN, amount : {t.amount}, tokens : {t.tokens}, submitted : BOOLEAN,
           ended : {"no", "completed", "failed"}]

IsRequest(r) ==
    /\ r \in [pc : {r.pc}, on : {r.on}, holding : {r.holding}]
    /\ \/ r.pc = "free" /\ r.on = Nothing
       \/ r.pc \in Before \cup Since /\ r.on \in Transfers
    /\ r.pc = "emptying" => r.on \in Steps

Shape ==
    /\ transfer = [x \in Transfers |-> transfer[x]] /\ \A x \in Transfers : IsTransfer(transfer[x])
    /\ chain \in [Transfers -> {"unknown", "sent", "landed", "broken", "expired"}]
    /\ handler = [h \in Handlers |-> handler[h]] /\ \A h \in Handlers : IsRequest(handler[h])
    /\ banker \in [pc : {"resting", "asking", "asked"}, sweep : Sweeps \cup {Nothing}]
    /\ banker.pc = "asking" => banker.sweep \in Sweeps

(* Before its signature is in the record a transfer is one request's       *)
(* alone, and the chain knows nothing of it; after that, whoever works on  *)
(* it only sends it again or asks.                                         *)
Alone == \A g, h \in Handlers : At(h, Before) /\ On(g) = On(h) => g = h

Fresh == \A h \in Handlers :
    /\ At(h, Before) => ~transfer[On(h)].submitted /\ transfer[On(h)].ended = "no"
    /\ At(h, {"measured", "emptying"}) => ~transfer[On(h)].asked
    /\ At(h, {"building"}) => transfer[On(h)].asked
    /\ At(h, Since) => transfer[On(h)].submitted

\* Taking everything home is one request's work, and it leaves alone the accounts still to come.
Later == [vault |-> {"trading", "sol"}, trading |-> {"sol"}, sol |-> {}]

OneEach == \A w \in Withdrawals, a, b \in Accounts, g, h \in Handlers :
    On(g) = <<w, a>> /\ On(h) = <<w, b>> => g = h

Ahead == \A h \in Handlers, w \in Withdrawals, a \in Accounts :
    On(h) = <<w, a>> => \A b \in Later[a] : ~transfer[<<w, b>>].asked

\* The orchestrator asks about a sweep that was sent, or about one nobody has heard of.
Picked == banker.pc = "asking" =>
    \/ transfer[banker.sweep].submitted
    \/ ~transfer[banker.sweep].asked /\ \A h \in Handlers : On(h) # banker.sweep

\* What is written down of a transfer, and what the chain made of it.
Truth == \A x \in Transfers :
    /\ ~transfer[x].asked => ~transfer[x].submitted /\ transfer[x].ended = "no"
    /\ ~transfer[x].submitted => chain[x] = "unknown" /\ transfer[x].ended # "completed"
    /\ transfer[x].ended = "completed" => chain[x] = "landed"
    /\ transfer[x].ended = "failed" /\ transfer[x].submitted /\ x \notin SolSteps
          => chain[x] \in {"broken", "expired"}

FundsInv == Shape /\ Alone /\ Fresh /\ OneEach /\ Ahead /\ Picked /\ Truth

-----------------------------------------------------------------------------
LEMMA TheSteps == Steps = Withdrawals \X Accounts /\ SolSteps \subseteq Steps
  BY DEF Steps, SolSteps, Accounts

LEMMA InitFundsInv == FundsInit => FundsInv
  <1> SUFFICES ASSUME FundsInit PROVE FundsInv
    OBVIOUS
  <1>1. /\ \A x \in Transfers : transfer[x] = Unasked /\ chain[x] = "unknown"
        /\ \A h \in Handlers : handler[h] = Free
        /\ banker = Resting
    BY DEF FundsInit
  <1>2. Shape
    <2>1. IsTransfer(Unasked) /\ IsRequest(Free)
      BY DEF IsTransfer, IsRequest, Unasked, Free
    <2>2. transfer = [x \in Transfers |-> transfer[x]] /\ handler = [h \in Handlers |-> handler[h]]
      BY DEF FundsInit
    <2>3. chain \in [Transfers -> {"unknown", "sent", "landed", "broken", "expired"}]
      BY DEF FundsInit
    <2>4. banker \in [pc : {"resting", "asking", "asked"}, sweep : Sweeps \cup {Nothing}]
          /\ banker.pc # "asking"
      BY <1>1 DEF Resting
    <2>5. QED
      BY <1>1, <2>1, <2>2, <2>3, <2>4 DEF Shape
  <1>3. Alone /\ Fresh /\ OneEach /\ Ahead
    <2>1. \A h \in Handlers : ~At(h, Before \cup Since) /\ On(h) = Nothing
      BY <1>1 DEF At, On, Free, Before, Since
    <2>2. \A w \in Withdrawals, a \in Accounts : <<w, a>> # Nothing
      BY FundsAssumption, TheSteps DEF Transfers
    <2>3. QED
      BY <2>1, <2>2 DEF Alone, Fresh, OneEach, Ahead, At, Before, Since
  <1>4. Picked /\ Truth
    BY <1>1 DEF Picked, Truth, Resting, Unasked
  <1>5. QED
    BY <1>2, <1>3, <1>4 DEF FundsInv

-----------------------------------------------------------------------------
(* How one step changes the requests and the record.                       *)

LEMMA Handling ==
    ASSUME Shape, NEW h \in Handlers, NEW r, handler' = [handler EXCEPT ![h] = r], IsRequest(r)
    PROVE  /\ handler' = [g \in Handlers |-> handler'[g]] /\ \A g \in Handlers : IsRequest(handler'[g])
           /\ handler'[h] = r /\ \A g \in Handlers \ {h} : handler'[g] = handler[g]
  BY DEF Shape

LEMMA Writing ==
    ASSUME Shape, NEW x \in Transfers, NEW t, transfer' = [transfer EXCEPT ![x] = t], IsTransfer(t)
    PROVE  /\ transfer' = [y \in Transfers |-> transfer'[y]] /\ \A y \in Transfers : IsTransfer(transfer'[y])
           /\ transfer'[x] = t /\ \A y \in Transfers \ {x} : transfer'[y] = transfer[y]
  BY DEF Shape

\* What is at work on something is at work on a transfer.
LEMMA AtWork ==
    ASSUME Shape, NEW h \in Handlers, handler[h].pc # "free"
    PROVE  On(h) \in Transfers /\ At(h, Before \cup Since) /\ IsTransfer(transfer[On(h)])
  BY DEF Shape, IsRequest, On, At

\* Trades, leases and owners leave all of it alone.
LEMMA OthersKeep ==
    ASSUME FundsInv, UNCHANGED <<transfer, chain, handler, banker>>
    PROVE  FundsInv'
  <1>1. Shape' /\ Picked'
    BY DEF FundsInv, Shape, Picked, On
  <1>2. Alone' /\ Fresh'
    BY DEF FundsInv, Alone, Fresh, On, At
  <1>3. OneEach' /\ Ahead' /\ Truth'
    BY DEF FundsInv, OneEach, Ahead, Truth, On
  <1>4. QED
    BY <1>1, <1>2, <1>3 DEF FundsInv

LEMMA RestingKeeps ==
    ASSUME FundsInv, UNCHANGED <<transfer, chain, handler>>, banker' = Resting
    PROVE  FundsInv'
  <1>1. banker'.pc # "asking" /\ banker' \in [pc : {"resting", "asking", "asked"}, sweep : Sweeps \cup {Nothing}]
    BY DEF Resting
  <1>2. QED
    BY <1>1 DEF FundsInv, Shape, Alone, Fresh, OneEach, Ahead, Picked, Truth, On, At

LEMMA PickingKeeps == ASSUME FundsInv, Candidate PROVE FundsInv'
  <1>1. PICK x \in OpenSweeps \cup Unused : banker' = [pc |-> "asking", sweep |-> x]
    BY DEF Candidate, SweepToResume
  <1>2. /\ UNCHANGED <<transfer, chain, handler>>
        /\ x \in Sweeps /\ x \in Transfers
        /\ \/ transfer[x].submitted
           \/ ~transfer[x].asked /\ \A h \in Handlers : On(h) # x
    BY <1>1 DEF Candidate, OpenSweeps, Unused, On, Transfers
  <1>3. Shape' /\ Picked'
    BY <1>1, <1>2 DEF FundsInv, Shape, Picked, On
  <1>4. Alone' /\ Fresh' /\ OneEach' /\ Ahead' /\ Truth'
    BY <1>2 DEF FundsInv, Alone, Fresh, OneEach, Ahead, Truth, On, At
  <1>5. QED
    BY <1>3, <1>4 DEF FundsInv

LEMMA AskingKeeps == ASSUME FundsInv, NEW h \in Handlers, Ask(h) PROVE FundsInv'
  <1> DEFINE x == banker.sweep
  <1>1. x \in Sweeps /\ x \in Transfers /\ x \notin Steps /\ handler[h].pc = "free"
    BY FundsAssumption DEF Ask, FundsInv, Shape, Transfers
  <1>2. /\ UNCHANGED <<transfer, chain>>
        /\ banker' = [banker EXCEPT !.pc = "asked"]
    BY DEF Ask
  <1> DEFINE r == IF transfer[x].submitted
                  THEN [pc |-> "waiting", on |-> x, holding |-> 0]
                  ELSE [pc |-> "measured", on |-> x, holding |-> bal["trading"]]
  <1>3. /\ handler' = [handler EXCEPT ![h] = r] /\ r.on = x /\ IsRequest(r)
        /\ r.pc = IF transfer[x].submitted THEN "waiting" ELSE "measured"
    <2>1. handler' = [handler EXCEPT ![h] = r]
      BY DEF Ask
    <2>2. CASE transfer[x].submitted
      BY <1>1, <2>1, <2>2 DEF IsRequest, Since
    <2>3. CASE ~transfer[x].submitted
      BY <1>1, <2>1, <2>3 DEF IsRequest, Before
    <2>4. QED
      BY <2>2, <2>3
  <1> HIDE DEF r
  <1>4. /\ handler' = [g \in Handlers |-> handler'[g]] /\ \A g \in Handlers : IsRequest(handler'[g])
        /\ handler'[h] = r /\ \A g \in Handlers \ {h} : handler'[g] = handler[g]
    BY <1>3, Handling DEF FundsInv
  <1>5. banker'.pc = "asked" /\ banker' \in [pc : {"resting", "asking", "asked"}, sweep : Sweeps \cup {Nothing}]
    BY <1>2 DEF FundsInv, Shape
  <1>6. /\ \/ transfer[x].submitted
           \/ ~transfer[x].asked /\ \A g \in Handlers : On(g) # x
        /\ ~transfer[x].asked => transfer[x].ended = "no"
    BY <1>1 DEF Ask, FundsInv, Picked, Truth
  <1> HIDE DEF x
  <1>7. Shape'
    BY <1>2, <1>4, <1>5 DEF FundsInv, Shape
  <1>8. Alone'
    BY <1>3, <1>4, <1>6 DEF FundsInv, Alone, Fresh, On, At, Before, Since
  <1>9. Fresh'
    BY <1>2, <1>3, <1>4, <1>6 DEF FundsInv, Fresh, On, At, Before, Since
  <1>10. OneEach' /\ Ahead'
    <2>1. \A w \in Withdrawals, a \in Accounts : x # <<w, a>>
      BY <1>1, TheSteps
    <2>2. \A g \in Handlers : On(g)' = x \/ On(g)' = On(g)
      BY <1>3, <1>4 DEF On
    <2>3. \A g \in Handlers, w \in Withdrawals, a \in Accounts : On(g)' = <<w, a>> => On(g) = <<w, a>>
      BY <2>1, <2>2
    <2>4. OneEach'
      BY <2>3 DEF FundsInv, OneEach
    <2>5. Ahead'
      BY <1>2, <2>3 DEF FundsInv, Ahead
    <2>6. QED
      BY <2>4, <2>5
  <1>11. Picked' /\ Truth'
    BY <1>2, <1>5 DEF FundsInv, Picked, Truth
  <1>12. QED
    BY <1>7, <1>8, <1>9, <1>10, <1>11 DEF FundsInv

-----------------------------------------------------------------------------
(* The signer's steps, by what they do to a request and its transfer.      *)

\* Nobody else works on what a request has not signed yet.
LEMMA NobodyElse ==
    ASSUME FundsInv, NEW h \in Handlers, At(h, Before), NEW g \in Handlers, On(g) = On(h)
    PROVE  g = h
  BY DEF FundsInv, Alone

(* A request goes on with its transfer: written down, or signed.           *)
LEMMA AdvancingKeeps ==
    ASSUME FundsInv, NEW h \in Handlers, At(h, Before), NEW t, NEW r,
           transfer' = [transfer EXCEPT ![On(h)] = t], IsTransfer(t),
           handler' = [handler EXCEPT ![h] = r], IsRequest(r), r.on = On(h),
           t.asked, t.ended = "no",
           \/ r.pc = "building" /\ ~t.submitted
           \/ r.pc = "signed" /\ t.submitted,
           UNCHANGED <<chain, banker>>
    PROVE  FundsInv'
  <1> DEFINE x == On(h)
  <1>1. x \in Transfers /\ ~transfer[x].submitted /\ chain[x] = "unknown"
    <2>1. handler[h].pc # "free"
      BY DEF At, Before
    <2>2. QED
      BY <2>1, AtWork DEF FundsInv, Fresh, Truth
  <1>2. /\ transfer' = [y \in Transfers |-> transfer'[y]] /\ \A y \in Transfers : IsTransfer(transfer'[y])
        /\ transfer'[x] = t /\ \A y \in Transfers \ {x} : transfer'[y] = transfer[y]
    BY <1>1, Writing DEF FundsInv
  <1>3. /\ handler' = [g \in Handlers |-> handler'[g]] /\ \A g \in Handlers : IsRequest(handler'[g])
        /\ handler'[h] = r /\ \A g \in Handlers \ {h} : handler'[g] = handler[g]
    BY Handling DEF FundsInv
  <1>4. /\ \A g \in Handlers : On(g)' = On(g)
        /\ \A g \in Handlers : At(g, Before)' => At(g, Before)
    BY <1>3 DEF On, At, Before
  <1>5. \A g \in Handlers \ {h} : On(g) # x
    BY NobodyElse
  <1> HIDE DEF x
  <1>6. Shape'
    BY <1>2, <1>3 DEF FundsInv, Shape
  <1>7. Alone'
    BY <1>4 DEF FundsInv, Alone
  <1>8. Fresh'
    <2>1. ASSUME NEW g \in Handlers, g # h, At(g, Before \cup Since) PROVE transfer'[On(g)] = transfer[On(g)]
      <3>1. On(g) \in Transfers
        BY <2>1, AtWork DEF FundsInv, At, Before, Since
      <3>2. QED
        BY <3>1, <1>2, <1>5, <2>1
    <2>2. QED
      BY <1>2, <1>3, <2>1 DEF x, FundsInv, Fresh, On, At, Before, Since
  <1>9. OneEach'
    BY <1>4 DEF FundsInv, OneEach
  <1>10. Ahead'
    <2>1. ASSUME NEW g \in Handlers, NEW w \in Withdrawals, NEW a \in Accounts, On(g) = <<w, a>>, NEW b \in Later[a]
          PROVE  ~transfer'[<<w, b>>].asked
      <3>1. b \in Accounts /\ b # a /\ <<w, b>> \in Transfers
        BY <2>1, TheSteps DEF Later, Accounts, Transfers
      <3>2. x # <<w, b>>
        BY <2>1, <3>1 DEF x, FundsInv, OneEach
      <3>3. ~transfer[<<w, b>>].asked
        BY <2>1 DEF FundsInv, Ahead
      <3>4. QED
        BY <1>2, <3>1, <3>2, <3>3
    <2>2. QED
      BY <1>4, <2>1 DEF Ahead
  <1>11. Picked'
    <2>1. banker.pc = "asking" => banker.sweep \in Transfers
      BY DEF FundsInv, Shape, Transfers
    <2>2. banker.pc = "asking" => banker.sweep # x \/ transfer[banker.sweep].submitted
      BY DEF x, FundsInv, Picked
    <2>3. QED
      BY <1>1, <1>2, <1>4, <2>1, <2>2 DEF FundsInv, Picked
  <1>12. Truth'
    BY <1>1, <1>2 DEF FundsInv, Truth
  <1>13. QED
    BY <1>6, <1>7, <1>8, <1>9, <1>10, <1>11, <1>12 DEF FundsInv

(* A request is over, or goes on to a later account.                       *)
Comes(w, b) == [pc |-> "emptying", on |-> <<w, b>>, holding |-> 0]

LEMMA ClosingKeeps ==
    ASSUME FundsInv, NEW h \in Handlers, At(h, Before \cup Since), NEW r,
           handler' = [handler EXCEPT ![h] = r],
           \/ r = Free
           \/ \E w \in Withdrawals, a, b \in Accounts :
                 /\ On(h) = <<w, a>> /\ b \in Later[a] /\ Later[b] \subseteq Later[a]
                 /\ r = Comes(w, b),
           transfer' = [y \in Transfers |-> transfer'[y]], \A y \in Transfers : IsTransfer(transfer'[y]),
           \A y \in Transfers :
              /\ transfer'[y].asked = transfer[y].asked /\ transfer'[y].submitted = transfer[y].submitted
              /\ y # On(h) => transfer'[y].ended = transfer[y].ended,
           Truth', UNCHANGED <<chain, banker>>
    PROVE  FundsInv'
  <1>1. \A w \in Withdrawals, b \in Accounts : <<w, b>> \in Transfers /\ <<w, b>> \in Steps /\ <<w, b>> \notin Sweeps
    BY FundsAssumption, TheSteps DEF Transfers
  <1>2. IsRequest(r)
    BY <1>1 DEF IsRequest, Free, Comes, Before
  <1>3. /\ handler' = [g \in Handlers |-> handler'[g]] /\ \A g \in Handlers : IsRequest(handler'[g])
        /\ handler'[h] = r /\ \A g \in Handlers \ {h} : handler'[g] = handler[g]
    BY <1>2, Handling DEF FundsInv
  <1>4. Nothing \notin Transfers
    BY FundsAssumption
  <1>5. Shape'
    BY <1>3 DEF FundsInv, Shape
  <1>6. \A g \in Handlers \ {h} : On(g)' = On(g) /\ \A pcs : At(g, pcs)' = At(g, pcs)
    BY <1>3 DEF On, At
  <1>7. ASSUME NEW g \in Handlers \ {h}, At(g, Before) PROVE On(g) # On(h)
    BY <1>7, NobodyElse
  <1>8. \/ r = Free /\ On(h)' = Nothing /\ handler'[h].pc = "free"
        \/ \E w \in Withdrawals, a, b \in Accounts :
              /\ On(h) = <<w, a>> /\ b \in Later[a] /\ Later[b] \subseteq Later[a]
              /\ r = Comes(w, b) /\ On(h)' = <<w, b>> /\ handler'[h].pc = "emptying"
              /\ ~transfer[<<w, b>>].asked
              /\ \A g \in Handlers \ {h}, c \in Accounts : On(g) # <<w, c>>
    <2>1. ASSUME NEW w \in Withdrawals, NEW a \in Accounts, NEW b \in Accounts,
                 On(h) = <<w, a>>, b \in Later[a]
          PROVE  /\ ~transfer[<<w, b>>].asked
                 /\ \A g \in Handlers \ {h}, c \in Accounts : On(g) # <<w, c>>
      BY <2>1 DEF FundsInv, Ahead, OneEach
    <2>2. CASE r = Free
      BY <1>3, <2>2 DEF On, Free
    <2>3. CASE \E w \in Withdrawals, a, b \in Accounts :
                 /\ On(h) = <<w, a>> /\ b \in Later[a] /\ Later[b] \subseteq Later[a]
                 /\ r = Comes(w, b)
      <3>1. PICK w \in Withdrawals, a \in Accounts, b \in Accounts :
                 /\ On(h) = <<w, a>> /\ b \in Later[a] /\ Later[b] \subseteq Later[a]
                 /\ r = Comes(w, b)
        BY <2>3
      <3>2. handler'[h].on = <<w, b>> /\ handler'[h].pc = "emptying"
        BY <1>3, <3>1 DEF Comes
      <3>3. QED
        BY <2>1, <3>1, <3>2 DEF On
    <2>4. QED
      BY <2>2, <2>3
  <1> DEFINE Over == On(h)' = Nothing /\ handler'[h].pc = "free"
             Next(w, a, b) ==
                 /\ On(h) = <<w, a>> /\ b \in Later[a] /\ Later[b] \subseteq Later[a]
                 /\ On(h)' = <<w, b>> /\ handler'[h].pc = "emptying"
                 /\ ~transfer[<<w, b>>].asked
                 /\ \A g \in Handlers \ {h}, c \in Accounts : On(g) # <<w, c>>
  <1>9. Over \/ \E w \in Withdrawals, a, b \in Accounts : Next(w, a, b)
    BY <1>8
  <1>10. ASSUME NEW g \in Handlers \ {h} PROVE On(g)' # On(h)' \/ On(h)' = Nothing
    <2>1. ASSUME NEW w \in Withdrawals, NEW a \in Accounts, NEW b \in Accounts, Next(w, a, b)
          PROVE  On(g)' # On(h)'
      BY <1>6, <2>1
    <2>2. QED
      BY <1>9, <2>1
  <1>11. At(h, Before)' => On(h)' # Nothing
    BY <1>3, <1>4 DEF At, Before, On, IsRequest
  <1>12. Alone'
    <2>1. SUFFICES ASSUME NEW f \in Handlers, NEW g \in Handlers, At(g, Before)', On(f)' = On(g)' PROVE f = g
      BY DEF Alone
    <2>2. CASE f = h \/ g = h
      <3>1. At(g, Before)' => On(g)' # Nothing
        BY <1>3, <1>4 DEF At, Before, Since, On, IsRequest
      <3>2. QED
        BY <1>10, <2>1, <2>2, <3>1
    <2>3. CASE f # h /\ g # h
      BY <1>6, <2>1, <2>3 DEF FundsInv, Alone
    <2>4. QED
      BY <2>2, <2>3
  <1>13. Fresh'
    <2>1. ASSUME NEW g \in Handlers, g # h, At(g, Before \cup Since)
          PROVE  /\ transfer'[On(g)].asked = transfer[On(g)].asked
                 /\ transfer'[On(g)].submitted = transfer[On(g)].submitted
                 /\ At(g, Before) => transfer'[On(g)].ended = transfer[On(g)].ended
      <3>1. On(g) \in Transfers
        BY <2>1, AtWork DEF FundsInv, At, Before, Since
      <3>2. QED
        BY <1>7, <2>1, <3>1
    <2>2. ASSUME NEW g \in Handlers, g # h
          PROVE  /\ At(g, Before)' => ~transfer'[On(g)'].submitted /\ transfer'[On(g)'].ended = "no"
                 /\ At(g, {"measured", "emptying"})' => ~transfer'[On(g)'].asked
                 /\ At(g, {"building"})' => transfer'[On(g)'].asked
                 /\ At(g, Since)' => transfer'[On(g)'].submitted
      BY <1>6, <2>1, <2>2 DEF FundsInv, Fresh, At, Before, Since
    <2>3. ASSUME NEW w \in Withdrawals, NEW a \in Accounts, NEW b \in Accounts, Next(w, a, b)
          PROVE  /\ ~transfer'[On(h)'].asked /\ ~transfer'[On(h)'].submitted /\ transfer'[On(h)'].ended = "no"
                 /\ handler'[h].pc = "emptying"
      BY <1>1, <2>3 DEF Truth
    <2>4. /\ At(h, Before)' => ~transfer'[On(h)'].submitted /\ transfer'[On(h)'].ended = "no"
          /\ At(h, {"measured", "emptying"})' => ~transfer'[On(h)'].asked
          /\ At(h, {"building"})' => transfer'[On(h)'].asked
          /\ At(h, Since)' => transfer'[On(h)'].submitted
      BY <1>9, <2>3 DEF At, Before, Since
    <2>5. QED
      BY <2>2, <2>4 DEF Fresh
  <1>14. ASSUME NEW g \in Handlers, NEW w \in Withdrawals, NEW a \in Accounts, On(g)' = <<w, a>>
         PROVE  \E c \in Accounts : On(g) = <<w, c>> /\ Later[a] \subseteq Later[c]
    <2>1. CASE g # h
      BY <1>6, <1>14, <2>1
    <2>2. CASE g = h
      <3>1. PICK v \in Withdrawals, b \in Accounts, c \in Accounts : Next(v, b, c)
        BY <1>1, <1>4, <1>9, <1>14, <2>2
      <3>2. v = w /\ c = a
        BY <1>14, <2>2, <3>1
      <3>3. QED
        BY <2>2, <3>1, <3>2
    <2>3. QED
      BY <2>1, <2>2
  <1>15. OneEach'
    BY <1>14 DEF FundsInv, OneEach
  <1>16. Ahead'
    <2>1. ASSUME NEW g \in Handlers, NEW w \in Withdrawals, NEW a \in Accounts, On(g)' = <<w, a>>,
                 NEW b \in Later[a]
          PROVE  ~transfer'[<<w, b>>].asked
      <3>1. b \in Accounts
        BY DEF Later, Accounts
      <3>2. ~transfer[<<w, b>>].asked
        BY <1>14, <2>1 DEF FundsInv, Ahead
      <3>3. QED
        BY <1>1, <3>1, <3>2
    <2>2. QED
      BY <2>1 DEF Ahead
  <1>17. Picked'
    <2>1. banker.pc = "asking" => banker.sweep \in Sweeps /\ banker.sweep \in Transfers
      BY DEF FundsInv, Shape, Transfers
    <2>2. On(h)' \notin Sweeps
      <3>1. CASE Over
        BY <1>4, <3>1 DEF Transfers
      <3>2. ASSUME NEW w \in Withdrawals, NEW a \in Accounts, NEW b \in Accounts, Next(w, a, b)
            PROVE  On(h)' \notin Sweeps
        BY <1>1, <3>2
      <3>3. QED
        BY <1>9, <3>1, <3>2
    <2>3. \A g \in Handlers : On(g)' = On(g) \/ On(g)' \notin Sweeps
      BY <1>6, <2>2
    <2> HIDE DEF Next, Over
    <2>4. QED
      BY <2>1, <2>3 DEF FundsInv, Picked
  <1>18. QED
    BY <1>5, <1>12, <1>13, <1>15, <1>16, <1>17 DEF FundsInv

\* A request that ends without a word leaves everything as it is.
LEMMA LosingKeeps ==
    ASSUME FundsInv, NEW h \in Handlers, handler[h].pc # "free",
           handler' = [handler EXCEPT ![h] = Free],
           UNCHANGED <<transfer, chain, banker>>
    PROVE  FundsInv'
  <1>1. At(h, Before \cup Since)
    BY AtWork DEF FundsInv
  <1>2. transfer' = [y \in Transfers |-> transfer'[y]] /\ \A y \in Transfers : IsTransfer(transfer'[y])
    BY DEF FundsInv, Shape
  <1>3. Truth'
    BY DEF FundsInv, Truth
  <1>4. QED
    BY <1>1, <1>2, <1>3, ClosingKeeps

-----------------------------------------------------------------------------
(* The actions, one by one.                                                *)

LEMMA DecideKeeps == ASSUME FundsInv, NEW h \in Handlers, Decide(h) PROVE FundsInv'
  <1> DEFINE x == On(h)
             due == Flat /\ Surplus(handler[h].holding) > 0
             t == [transfer[x] EXCEPT !.asked = TRUE, !.amount = Surplus(handler[h].holding)]
             r == [handler[h] EXCEPT !.pc = "building", !.holding = 0]
  <1>1. handler[h].pc = "measured" /\ UNCHANGED <<chain, banker>>
    BY DEF Decide
  <1>2. x \in Transfers /\ IsTransfer(transfer[x]) /\ IsRequest(handler[h]) /\ At(h, Before)
    BY <1>1, AtWork DEF FundsInv, Shape, At, Before
  <1>3. CASE due
    <2>1. handler' = [handler EXCEPT ![h] = r]
      BY <1>3 DEF Decide
    <2>2. transfer' = [transfer EXCEPT ![x] = t]
      BY <1>3 DEF Decide, On
    <2>3. ~transfer[x].submitted /\ transfer[x].ended = "no"
      BY <1>2 DEF FundsInv, Fresh
    <2>4. IsTransfer(t) /\ t.asked /\ t.ended = "no" /\ ~t.submitted
      BY <1>2, <2>3 DEF IsTransfer
    <2>5. IsRequest(r) /\ r.on = x /\ r.pc = "building"
      BY <1>2 DEF IsRequest, On, Before
    <2> HIDE DEF t, r
    <2>6. QED
      BY <1>1, <1>2, <2>1, <2>2, <2>4, <2>5, AdvancingKeeps
  <1>4. CASE ~due
    <2>1. handler' = [handler EXCEPT ![h] = Free] /\ UNCHANGED transfer
      BY <1>4 DEF Decide
    <2>2. QED
      BY <1>1, <2>1, LosingKeeps
  <1>5. QED
    BY <1>3, <1>4

LEMMA SubmitKeeps == ASSUME FundsInv, NEW h \in Handlers, Submit(h) PROVE FundsInv'
  <1> DEFINE x == On(h)
             t == [transfer[x] EXCEPT !.submitted = TRUE]
             r == [handler[h] EXCEPT !.pc = "signed"]
  <1>1. handler[h].pc = "building" /\ UNCHANGED <<chain, banker>>
        /\ handler' = [handler EXCEPT ![h] = r] /\ transfer' = [transfer EXCEPT ![x] = t]
    BY DEF Submit, On
  <1>2. x \in Transfers /\ IsTransfer(transfer[x]) /\ IsRequest(handler[h]) /\ At(h, Before)
    BY <1>1, AtWork DEF FundsInv, Shape, At, Before
  <1>3. transfer[x].asked /\ transfer[x].ended = "no"
    BY <1>1, <1>2 DEF FundsInv, Fresh, At
  <1>4. IsTransfer(t) /\ t.asked /\ t.ended = "no" /\ t.submitted
    BY <1>2, <1>3 DEF IsTransfer
  <1>5. IsRequest(r) /\ r.on = x /\ r.pc = "signed"
    BY <1>2 DEF IsRequest, On, Since
  <1> HIDE DEF t, r
  <1>6. QED
    BY <1>1, <1>2, <1>4, <1>5, AdvancingKeeps

\* Where a request goes from the account it is at.
LEMMA TheAccountsInOrder ==
    ASSUME NEW h, NEW w \in Withdrawals, NEW a \in Accounts, On(h) = <<w, a>>
    PROVE  \/ After(On(h)) = Free
           \/ \E v \in Withdrawals, c, b \in Accounts :
                 /\ On(h) = <<v, c>> /\ b \in Later[c] /\ Later[b] \subseteq Later[c]
                 /\ After(On(h)) = Comes(v, b)
  <1>1. CASE a = "sol"
    BY <1>1 DEF After
  <1>2. CASE a = "trading"
    <2>1. After(On(h)) = Comes(w, "sol") /\ "sol" \in Later[a] /\ Later["sol"] \subseteq Later[a] /\ "sol" \in Accounts
      BY <1>2 DEF After, Comes, Later, NextAccount, Accounts
    <2>2. QED
      BY <2>1
  <1>3. CASE a = "vault"
    <2>1. After(On(h)) = Comes(w, "trading") /\ "trading" \in Later[a] /\ Later["trading"] \subseteq Later[a]
          /\ "trading" \in Accounts
      BY <1>3 DEF After, Comes, Later, NextAccount, Accounts
    <2>2. QED
      BY <2>1
  <1>4. QED
    BY <1>1, <1>2, <1>3 DEF Accounts

LEMMA EmptyKeeps == ASSUME FundsInv, NEW h \in Handlers, Empty(h), On(h) \in Steps PROVE FundsInv'
  <1> DEFINE x == On(h)
             held == IF x[2] = "trading" THEN tokens ELSE 0
             t == [transfer[x] EXCEPT !.asked = TRUE, !.amount = bal[x[2]], !.tokens = held]
             r == [handler[h] EXCEPT !.pc = "building"]
  <1>1. handler[h].pc = "emptying" /\ UNCHANGED <<chain, banker>>
    BY DEF Empty
  <1>2. x \in Transfers /\ IsTransfer(transfer[x]) /\ IsRequest(handler[h]) /\ At(h, Before)
    BY <1>1, AtWork DEF FundsInv, Shape, At, Before
  <1>3. CASE bal[x[2]] + held = 0
    <2>1. handler' = [handler EXCEPT ![h] = After(x)] /\ UNCHANGED transfer
      BY <1>3 DEF Empty, On
    <2>2. PICK w \in Withdrawals, a \in Accounts : x = <<w, a>>
      BY TheSteps
    <2>3. \/ After(x) = Free
          \/ \E v \in Withdrawals, c, b \in Accounts :
                /\ On(h) = <<v, c>> /\ b \in Later[c] /\ Later[b] \subseteq Later[c]
                /\ After(x) = Comes(v, b)
      BY <2>2, TheAccountsInOrder
    <2>4. transfer' = [y \in Transfers |-> transfer'[y]] /\ \A y \in Transfers : IsTransfer(transfer'[y])
      BY <2>1 DEF FundsInv, Shape
    <2>5. Truth'
      BY <1>1, <2>1 DEF FundsInv, Truth
    <2>6. At(h, Before \cup Since)
      BY <1>2 DEF At
    <2>7. \A y \in Transfers :
              /\ transfer'[y].asked = transfer[y].asked /\ transfer'[y].submitted = transfer[y].submitted
              /\ y # On(h) => transfer'[y].ended = transfer[y].ended
      BY <2>1
    <2>8. QED
      BY <1>1, <2>1, <2>3, <2>4, <2>5, <2>6, <2>7, ClosingKeeps
  <1>4. CASE bal[x[2]] + held # 0
    <2>1. handler' = [handler EXCEPT ![h] = r] /\ transfer' = [transfer EXCEPT ![x] = t]
      BY <1>4 DEF Empty, On
    <2>2. ~transfer[x].submitted /\ transfer[x].ended = "no"
      BY <1>2 DEF FundsInv, Fresh
    <2>3. IsTransfer(t) /\ t.asked /\ t.ended = "no" /\ ~t.submitted
      BY <1>2, <2>2 DEF IsTransfer
    <2>4. IsRequest(r) /\ r.on = x /\ r.pc = "building"
      BY <1>2 DEF IsRequest, On, Before
    <2> HIDE DEF t, r
    <2>5. QED
      BY <1>1, <1>2, <2>1, <2>3, <2>4, AdvancingKeeps
  <1>5. QED
    BY <1>3, <1>4

\* How a transfer is written down as ended, or as open still.
LEMMA Ending ==
    ASSUME FundsInv, NEW x \in Transfers, NEW e \in {"no", "completed", "failed"},
           transfer' = [transfer EXCEPT ![x].ended = e], UNCHANGED chain,
           transfer[x].asked,
           e = "completed" => transfer[x].submitted /\ chain[x] = "landed",
           e = "failed" /\ transfer[x].submitted /\ x \notin SolSteps => chain[x] \in {"broken", "expired"}
    PROVE  /\ transfer' = [y \in Transfers |-> transfer'[y]] /\ \A y \in Transfers : IsTransfer(transfer'[y])
           /\ \A y \in Transfers :
                 /\ transfer'[y].asked = transfer[y].asked /\ transfer'[y].submitted = transfer[y].submitted
                 /\ y # x => transfer'[y].ended = transfer[y].ended
           /\ Truth'
  <1> DEFINE t == [transfer[x] EXCEPT !.ended = e]
  <1>1. IsTransfer(transfer[x]) /\ transfer' = [transfer EXCEPT ![x] = t]
    BY DEF FundsInv, Shape
  <1>2. IsTransfer(t) /\ t.asked = transfer[x].asked /\ t.submitted = transfer[x].submitted /\ t.ended = e
    BY <1>1 DEF IsTransfer
  <1> HIDE DEF t
  <1>3. /\ transfer' = [y \in Transfers |-> transfer'[y]] /\ \A y \in Transfers : IsTransfer(transfer'[y])
        /\ transfer'[x] = t /\ \A y \in Transfers \ {x} : transfer'[y] = transfer[y]
    BY <1>1, <1>2, Writing DEF FundsInv
  <1>4. Truth'
    BY <1>2, <1>3 DEF FundsInv, Truth
  <1>5. QED
    BY <1>2, <1>3, <1>4

LEMMA BuildFailsKeeps == ASSUME FundsInv, NEW h \in Handlers, BuildFails(h) PROVE FundsInv'
  <1> DEFINE x == On(h)
  <1>1. /\ handler[h].pc = "building" /\ UNCHANGED <<chain, banker>>
        /\ transfer' = [transfer EXCEPT ![x].ended = "failed"]
        /\ handler' = [handler EXCEPT ![h] = Free]
    BY DEF BuildFails, On
  <1>2. x \in Transfers /\ At(h, Before) /\ At(h, Before \cup Since)
    BY <1>1, AtWork DEF FundsInv, At, Before
  <1>3. transfer[x].asked /\ ~transfer[x].submitted
    BY <1>1, <1>2 DEF FundsInv, Fresh, At
  <1>4. QED
    BY <1>1, <1>2, <1>3, Ending, ClosingKeeps

LEMMA AnswerKeeps == ASSUME FundsInv, NEW h \in Handlers, Answer(h) PROVE FundsInv'
  <1> DEFINE x == On(h)
             e == Outcome(x, chain[x])
             r == IF x \in Steps /\ chain[x] = "landed" THEN After(x) ELSE Free
  <1>1. /\ handler[h].pc = "waiting" /\ UNCHANGED <<chain, banker>>
        /\ transfer' = [transfer EXCEPT ![x].ended = e]
        /\ handler' = [handler EXCEPT ![h] = r]
    BY DEF Answer, On
  <1>2. x \in Transfers /\ At(h, Since) /\ At(h, Before \cup Since)
    BY <1>1, AtWork DEF FundsInv, At, Since
  <1>3. transfer[x].submitted /\ transfer[x].asked
    BY <1>2 DEF FundsInv, Fresh, Truth
  <1>4. /\ e \in {"no", "completed", "failed"}
        /\ e = "completed" => chain[x] = "landed"
        /\ e = "failed" /\ x \notin SolSteps => chain[x] \in {"broken", "expired"}
    BY DEF Outcome
  <1>5. \/ r = Free
        \/ \E v \in Withdrawals, c, b \in Accounts :
              /\ On(h) = <<v, c>> /\ b \in Later[c] /\ Later[b] \subseteq Later[c]
              /\ r = Comes(v, b)
    <2>1. CASE x \in Steps
      <3>1. PICK w \in Withdrawals, a \in Accounts : x = <<w, a>>
        BY <2>1, TheSteps
      <3>2. QED
        BY <3>1, TheAccountsInOrder
    <2>2. CASE x \notin Steps
      BY <2>2
    <2>3. QED
      BY <2>1, <2>2
  <1> HIDE DEF e, r
  <1>6. QED
    BY <1>1, <1>2, <1>3, <1>4, <1>5, Ending, ClosingKeeps

\* What the chain makes of a transfer that has a signature.
LEMMA ChainKeepsTruth ==
    ASSUME FundsInv, NEW x \in Transfers, transfer[x].submitted, chain[x] \in {"unknown", "sent"},
           NEW c \in {"unknown", "sent", "landed", "broken", "expired"},
           chain' = [chain EXCEPT ![x] = c], UNCHANGED transfer
    PROVE  Truth' /\ chain' \in [Transfers -> {"unknown", "sent", "landed", "broken", "expired"}]
  <1>1. chain \in [Transfers -> {"unknown", "sent", "landed", "broken", "expired"}]
    BY DEF FundsInv, Shape
  <1>2. chain' \in [Transfers -> {"unknown", "sent", "landed", "broken", "expired"}]
        /\ chain'[x] = c /\ \A y \in Transfers \ {x} : chain'[y] = chain[y]
    BY <1>1
  <1>3. transfer[x].ended # "completed"
        /\ (transfer[x].ended = "failed" => x \in SolSteps)
    BY DEF FundsInv, Truth
  <1>4. QED
    BY <1>2, <1>3 DEF FundsInv, Truth

LEMMA SendKeeps == ASSUME FundsInv, NEW h \in Handlers, Send(h) PROVE FundsInv'
  <1> DEFINE x == On(h)
             r == [handler[h] EXCEPT !.pc = "waiting"]
  <1>1. /\ handler[h].pc = "signed" /\ UNCHANGED <<transfer, banker>>
        /\ handler' = [handler EXCEPT ![h] = r]
        /\ \/ chain[x] = "unknown" /\ chain' = [chain EXCEPT ![x] = "sent"]
           \/ chain[x] # "unknown" /\ chain' = [chain EXCEPT ![x] = chain[x]]
           \/ UNCHANGED chain
    BY DEF Send, On
  <1>2. x \in Transfers /\ IsRequest(handler[h]) /\ At(h, Since)
    BY <1>1, AtWork DEF FundsInv, Shape, At, Since
  <1>3. transfer[x].submitted
    BY <1>2 DEF FundsInv, Fresh
  <1>4. IsRequest(r) /\ r.on = x /\ r.pc = "waiting"
    BY <1>2 DEF IsRequest, On, Since
  <1> HIDE DEF r
  <1>5. /\ handler' = [g \in Handlers |-> handler'[g]] /\ \A g \in Handlers : IsRequest(handler'[g])
        /\ handler'[h] = r /\ \A g \in Handlers \ {h} : handler'[g] = handler[g]
    BY <1>1, <1>4, Handling DEF FundsInv
  <1>6. Truth' /\ chain' \in [Transfers -> {"unknown", "sent", "landed", "broken", "expired"}]
    <2>1. CASE chain[x] = "unknown" /\ chain' = [chain EXCEPT ![x] = "sent"]
      BY <1>1, <1>2, <1>3, <2>1, ChainKeepsTruth
    <2>2. CASE chain' = chain
      BY <1>1, <2>2 DEF FundsInv, Shape, Truth
    <2>3. chain' = [chain EXCEPT ![x] = chain[x]] => chain' = chain
      BY <1>2 DEF FundsInv, Shape
    <2>4. QED
      BY <1>1, <2>1, <2>2, <2>3
  <1>7. Shape'
    BY <1>1, <1>5, <1>6 DEF FundsInv, Shape
  <1>8. \A g \in Handlers :
            /\ On(g)' = On(g)
            /\ At(g, Before)' = At(g, Before) /\ At(g, Since)' = At(g, Since)
            /\ At(g, {"measured", "emptying"})' = At(g, {"measured", "emptying"})
            /\ At(g, {"building"})' = At(g, {"building"})
    BY <1>1, <1>4, <1>5 DEF On, At, Before, Since
  <1>9. Alone' /\ OneEach'
    BY <1>8 DEF FundsInv, Alone, OneEach
  <1>10. Fresh'
    BY <1>1, <1>8 DEF FundsInv, Fresh
  <1>11. Ahead' /\ Picked'
    BY <1>1, <1>8 DEF FundsInv, Ahead, Picked
  <1>12. QED
    BY <1>6, <1>7, <1>9, <1>10, <1>11 DEF FundsInv

\* A withdrawal nobody has asked for begins.
LEMMA BeginningKeeps ==
    ASSUME FundsInv, NEW h \in Handlers, NEW w \in Withdrawals, NewRequest(h, w), NEW a \in Accounts,
           NEW r, handler' = [handler EXCEPT ![h] = r], IsRequest(r), r.on = <<w, a>>,
           UNCHANGED <<chain, banker>>,
           \/ r.pc = "emptying" /\ UNCHANGED transfer
           \/ /\ a = "sol" /\ r.pc = "building"
              /\ transfer' = [transfer EXCEPT ![<<w, a>>].asked = TRUE, ![<<w, a>>].amount = 1]
    PROVE  FundsInv'
  <1> DEFINE x == <<w, a>>
             t == [transfer[x] EXCEPT !.asked = TRUE, !.amount = 1]
  <1>1. /\ x \in Steps /\ x \in Transfers /\ x \notin Sweeps
        /\ \A b \in Accounts : <<w, b>> \in Steps
    BY FundsAssumption, TheSteps DEF Transfers
  <1>2. \A b \in Accounts : ~transfer[<<w, b>>].asked /\ \A g \in Handlers : On(g) # <<w, b>>
    <2>1. ASSUME NEW b \in Accounts PROVE ~transfer[<<w, b>>].asked /\ \A g \in Handlers : On(g) # <<w, b>>
      <3>1. <<w, b>> \in Steps /\ <<w, b>>[1] = w
        BY <1>1
      <3>2. QED
        BY <3>1 DEF NewRequest, On
    <2>2. QED
      BY <2>1
  <1>3. /\ handler' = [g \in Handlers |-> handler'[g]] /\ \A g \in Handlers : IsRequest(handler'[g])
        /\ handler'[h] = r /\ \A g \in Handlers \ {h} : handler'[g] = handler[g]
    BY Handling DEF FundsInv
  <1>4. IsTransfer(transfer[x]) /\ ~transfer[x].asked /\ ~transfer[x].submitted /\ transfer[x].ended = "no"
        /\ chain[x] = "unknown"
    BY <1>1, <1>2 DEF FundsInv, Shape, Truth
  <1>5. /\ transfer' = [y \in Transfers |-> transfer'[y]] /\ \A y \in Transfers : IsTransfer(transfer'[y])
        /\ \A y \in Transfers \ {x} : transfer'[y] = transfer[y]
        /\ ~transfer'[x].submitted /\ transfer'[x].ended = "no"
        /\ r.pc = "building" => transfer'[x].asked
        /\ r.pc = "emptying" => ~transfer'[x].asked
    <2>1. CASE UNCHANGED transfer /\ r.pc = "emptying"
      BY <1>4, <2>1 DEF FundsInv, Shape
    <2>2. CASE r.pc = "building" /\ transfer' = [transfer EXCEPT ![x].asked = TRUE, ![x].amount = 1]
      <3>1. transfer' = [transfer EXCEPT ![x] = t]
        BY <1>1, <2>2 DEF FundsInv, Shape
      <3>2. IsTransfer(t) /\ t.asked /\ ~t.submitted /\ t.ended = "no"
        BY <1>4 DEF IsTransfer
      <3> HIDE DEF t
      <3>3. QED
        BY <1>1, <2>2, <3>1, <3>2, Writing DEF FundsInv
    <2>3. QED
      BY <2>1, <2>2
  <1>6. On(h)' = x /\ \A g \in Handlers \ {h} : On(g)' = On(g) /\ On(g) # x /\ \A pcs : At(g, pcs)' = At(g, pcs)
    BY <1>2, <1>3 DEF On, At
  <1>7. r.pc \in {"emptying", "building"} /\ handler'[h].pc = r.pc
    BY <1>3
  <1> HIDE DEF x, t
  <1>8. Shape'
    BY <1>3, <1>5 DEF FundsInv, Shape
  <1>9. Alone'
    BY <1>6 DEF FundsInv, Alone
  <1>10. Fresh'
    <2>1. ASSUME NEW g \in Handlers \ {h}, At(g, Before \cup Since) PROVE transfer'[On(g)] = transfer[On(g)]
      <3>1. On(g) \in Transfers
        BY <2>1, AtWork DEF FundsInv, At, Before, Since
      <3>2. QED
        BY <1>5, <1>6, <3>1
    <2>2. ASSUME NEW g \in Handlers \ {h}
          PROVE  /\ At(g, Before)' => ~transfer'[On(g)'].submitted /\ transfer'[On(g)'].ended = "no"
                 /\ At(g, {"measured", "emptying"})' => ~transfer'[On(g)'].asked
                 /\ At(g, {"building"})' => transfer'[On(g)'].asked
                 /\ At(g, Since)' => transfer'[On(g)'].submitted
      BY <1>6, <2>1 DEF FundsInv, Fresh, At, Before, Since
    <2>3. /\ At(h, Before)' => ~transfer'[On(h)'].submitted /\ transfer'[On(h)'].ended = "no"
          /\ At(h, {"measured", "emptying"})' => ~transfer'[On(h)'].asked
          /\ At(h, {"building"})' => transfer'[On(h)'].asked
          /\ At(h, Since)' => transfer'[On(h)'].submitted
      BY <1>5, <1>6, <1>7 DEF At, Before, Since
    <2>4. QED
      BY <2>2, <2>3 DEF Fresh
  <1>11. OneEach'
    <2>1. ASSUME NEW v \in Withdrawals, NEW b \in Accounts, NEW c \in Accounts, NEW f \in Handlers, NEW g \in Handlers,
                 On(f)' = <<v, b>>, On(g)' = <<v, c>>
          PROVE  f = g
      <3>1. CASE f # h /\ g # h
        BY <1>6, <2>1, <3>1 DEF FundsInv, OneEach
      <3>2. CASE f = h \/ g = h
        <4>1. v = w
          BY <1>6, <2>1, <3>2 DEF x
        <4>2. QED
          BY <1>2, <1>6, <2>1, <4>1
      <3>3. QED
        BY <3>1, <3>2
    <2>2. QED
      BY <2>1 DEF OneEach
  <1>12. Ahead'
    <2>1. ASSUME NEW g \in Handlers, NEW v \in Withdrawals, NEW b \in Accounts, On(g)' = <<v, b>>, NEW c \in Later[b]
          PROVE  ~transfer'[<<v, c>>].asked
      <3>1. c \in Accounts /\ c # b /\ b # "sol" /\ <<v, c>> \in Transfers
        BY TheSteps DEF Later, Accounts, Transfers
      <3>2. CASE g = h
        <4>1. v = w /\ b = a
          BY <1>6, <2>1, <3>2 DEF x
        <4>2. <<v, c>> # x
          BY <3>1, <4>1 DEF x
        <4>3. QED
          BY <1>2, <1>5, <3>1, <4>1, <4>2
      <3>3. CASE g # h
        <4>1. ~transfer[<<v, c>>].asked /\ v # w
          BY <1>2, <1>6, <2>1, <3>3 DEF FundsInv, Ahead
        <4>2. <<v, c>> # x
          BY <4>1 DEF x
        <4>3. QED
          BY <1>5, <3>1, <4>1, <4>2
      <3>4. QED
        BY <3>2, <3>3
    <2>2. QED
      BY <2>1 DEF Ahead
  <1>13. Picked'
    <2>1. banker.pc = "asking" => banker.sweep \in Sweeps /\ banker.sweep \in Transfers
      BY DEF FundsInv, Shape, Transfers
    <2>2. QED
      BY <1>1, <1>5, <1>6, <2>1 DEF FundsInv, Picked
  <1>14. Truth'
    BY <1>1, <1>4, <1>5 DEF FundsInv, Truth
  <1>15. QED
    BY <1>8, <1>9, <1>10, <1>11, <1>12, <1>13, <1>14 DEF FundsInv

LEMMA WithdrawalsKeep ==
    ASSUME FundsInv, NEW h \in Handlers, NEW w \in Withdrawals,
           WithdrawEverything(h, w) \/ WithdrawFunds(h, w)
    PROVE  FundsInv'
  <1> DEFINE r(pc, a) == [pc |-> pc, on |-> <<w, a>>, holding |-> 0]
  <1>1. ASSUME NEW a \in Accounts, NEW pc \in {"emptying", "building"}
        PROVE  IsRequest(r(pc, a)) /\ r(pc, a).on = <<w, a>> /\ r(pc, a).pc = pc
    BY <1>1, TheSteps DEF IsRequest, Before, Transfers
  <1>2. NewRequest(h, w) /\ UNCHANGED <<chain, banker>>
    BY DEF WithdrawEverything, WithdrawFunds
  <1>3. CASE WithdrawEverything(h, w)
    <2>1. handler' = [handler EXCEPT ![h] = r("emptying", "vault")] /\ UNCHANGED transfer /\ "vault" \in Accounts
      BY <1>3 DEF WithdrawEverything, Accounts
    <2> HIDE DEF r
    <2>2. QED
      BY <1>1, <1>2, <2>1, BeginningKeeps
  <1>4. CASE WithdrawFunds(h, w)
    <2>1. /\ handler' = [handler EXCEPT ![h] = r("building", "sol")] /\ "sol" \in Accounts
          /\ transfer' = [transfer EXCEPT ![<<w, "sol">>].asked = TRUE, ![<<w, "sol">>].amount = 1]
      BY <1>4 DEF WithdrawFunds, Accounts
    <2> HIDE DEF r
    <2>2. QED
      BY <1>1, <1>2, <2>1, BeginningKeeps
  <1>5. QED
    BY <1>3, <1>4

LEMMA ChainKeeps == ASSUME FundsInv, NEW x \in Transfers, Land(x) \/ Expire(x) PROVE FundsInv'
  <1>1. UNCHANGED <<transfer, handler, banker>>
    BY DEF Land, Expire
  <1>2. transfer[x].submitted /\ chain[x] \in {"unknown", "sent"}
    BY DEF Land, Expire, FundsInv, Truth
  <1>3. PICK c \in {"landed", "broken", "expired"} : chain' = [chain EXCEPT ![x] = c]
    BY DEF Land, Expire
  <1>4. Truth' /\ chain' \in [Transfers -> {"unknown", "sent", "landed", "broken", "expired"}]
    BY <1>1, <1>2, <1>3, ChainKeepsTruth
  <1>5. Shape' /\ Picked'
    BY <1>1, <1>4 DEF FundsInv, Shape, Picked, On
  <1>6. Alone' /\ Fresh'
    BY <1>1 DEF FundsInv, Alone, Fresh, On, At
  <1>7. OneEach' /\ Ahead'
    BY <1>1 DEF FundsInv, OneEach, Ahead, On
  <1>8. QED
    BY <1>4, <1>5, <1>6, <1>7 DEF FundsInv

-----------------------------------------------------------------------------
LEMMA NextFundsInv == FundsInv /\ [FundsNext]_fundsVars => FundsInv'
  <1> SUFFICES ASSUME FundsInv, [FundsNext]_fundsVars PROVE FundsInv'
    OBVIOUS
  <1>1. CASE Lease
    BY <1>1, OthersKeep DEF Lease
  <1>2. ASSUME NEW t \in Trades, LandTrade(t) \/ EndTrade(t) \/ Intend(t) PROVE FundsInv'
    BY <1>2, OthersKeep DEF LandTrade, EndTrade, Intend
  <1>3. ASSUME NEW to, Owner(to) PROVE FundsInv'
    BY <1>3, OthersKeep DEF Owner
  <1>4. CASE Candidate
    BY <1>4, PickingKeeps
  <1>5. CASE Rest \/ RestartOrchestrator
    BY <1>5, RestingKeeps DEF Rest, RestartOrchestrator
  <1>6. ASSUME NEW h \in Handlers, Ask(h) PROVE FundsInv'
    BY <1>6, AskingKeeps
  <1>7. ASSUME NEW h \in Handlers, SignerStep(h) PROVE FundsInv'
    <2>1. CASE Empty(h)
      <3>1. On(h) \in Steps
        BY <2>1 DEF Empty, On, FundsInv, Shape, IsRequest
      <3>2. QED
        BY <2>1, <3>1, EmptyKeeps
    <2>2. QED
      BY <1>7, <2>1, DecideKeeps, SubmitKeeps, SendKeeps, AnswerKeeps DEF SignerStep
  <1>8. ASSUME NEW h \in Handlers, BuildFails(h) PROVE FundsInv'
    BY <1>8, BuildFailsKeeps
  <1>9. ASSUME NEW h \in Handlers, Lose(h) PROVE FundsInv'
    BY <1>9, LosingKeeps DEF Lose
  <1>10. ASSUME NEW h \in Handlers, NEW w \in Withdrawals, WithdrawEverything(h, w) \/ WithdrawFunds(h, w)
         PROVE  FundsInv'
    BY <1>10, WithdrawalsKeep
  <1>11. ASSUME NEW x \in Transfers, Land(x) \/ Expire(x) PROVE FundsInv'
    BY <1>11, ChainKeeps
  <1>12. CASE UNCHANGED fundsVars
    BY <1>12, OthersKeep DEF fundsVars
  <1>13. QED
    BY <1>1, <1>2, <1>3, <1>4, <1>5, <1>6, <1>7, <1>8, <1>9, <1>10, <1>11, <1>12 DEF FundsNext

(* What the record says of a transfer is what the chain did, whichever     *)
(* requests, answers, crashes and withdrawals there were: a transfer is in *)
(* the record before it can move anything, as completed only when it       *)
(* landed, and, SOL apart, as failed only when it never will (sweep.ts,    *)
(* withdraw-everything.ts and submitOnce).                                 *)
THEOREM TransfersTellTheTruth == FundsSpec => []TransfersAreTrue
  <1>1. FundsInv => TransfersAreTrue
    BY DEF FundsInv, Truth, TransfersAreTrue
  <1>2. QED
    BY <1>1, InitFundsInv, NextFundsInv, PTL DEF FundsSpec
-----------------------------------------------------------------------------
(* Types.  What the accounts hold and what transfers move are amounts that *)
(* can be taken from them; only the trading account's withdrawal moves     *)
(* tokens.                                                                 *)

MachineTypes ==
    /\ lifecycle \in {"running", "paused", "stopped"} /\ leased \in BOOLEAN
    /\ trade \in [Trades -> {"none", "open", "landed", "completed", "failed"}]

Balances ==
    /\ bal \in [Accounts -> Nat] /\ tokens \in Nat
    /\ swept \in [moved : Nat, earned : Int, peak : Int]

AmountsOf(x) ==
    /\ transfer[x].amount \in Nat /\ transfer[x].tokens \in Nat
    /\ x \notin Withdrawals \X {"trading"} => transfer[x].tokens = 0

Measures ==
    /\ \A x \in Transfers : AmountsOf(x)
    /\ \A h \in Handlers : handler[h].holding \in Nat
    /\ faults \in [signer : Nat, orchestrator : Nat]

(* What banking rests on.  The machine never has more than its owner       *)
(* granted and it earned, less what was swept.  While the orchestrator     *)
(* stays up, a sweep is worked on or on its way only between its being     *)
(* asked about and the end of the interval, and no other one is; and what  *)
(* it was worked out to move is within what has been earned and not swept. *)
AddsUp ==
    /\ bal["trading"] + tokens + swept.moved <= Target + swept.earned
    /\ swept.earned <= swept.peak

OneSweep ==
    /\ \A h \in Handlers : On(h) \in Sweeps => banker.pc = "asked" /\ On(h) = banker.sweep
    /\ \A x \in Sweeps : chain[x] = "sent" => banker.pc = "asked" /\ x = banker.sweep

Leaves(amount) == amount + swept.moved <= swept.peak

WithinEarned ==
    /\ Leaves(0)
    /\ \A h \in Handlers : On(h) \in Sweeps =>
          /\ At(h, {"measured"}) => handler[h].holding + swept.moved <= Target + swept.peak
          /\ At(h, {"building", "signed"}) /\ chain[On(h)] = "unknown" => Leaves(transfer[On(h)].amount)
    /\ \A x \in Sweeps : chain[x] = "sent" => Leaves(transfer[x].amount)

Up == faults.orchestrator = 0

BankInv == MachineTypes /\ Balances /\ Measures /\ AddsUp /\ (Up => OneSweep /\ WithinEarned)

LEMMA InitBankInv == FundsInit => BankInv
  <1> SUFFICES ASSUME FundsInit PROVE BankInv
    OBVIOUS
  <1>1. MachineTypes
    BY DEF FundsInit, MachineTypes
  <1>2. PICK e \in Nat : /\ bal = [trading |-> Target + e, vault |-> 0, sol |-> 1]
                         /\ swept = [moved |-> 0, earned |-> e, peak |-> e]
    BY FundsAssumption DEF FundsInit
  <1>3. Target + e \in Nat /\ Target \in Nat
    BY FundsAssumption
  <1>4. bal["trading"] = Target + e /\ bal["vault"] = 0 /\ bal["sol"] = 1
    BY <1>2
  <1>5. bal \in [Accounts -> Nat]
    BY <1>2, <1>3, <1>4 DEF Accounts
  <1>6. swept \in [moved : Nat, earned : Int, peak : Int] /\ tokens = 0
    BY <1>2 DEF FundsInit
  <1>7. Balances /\ AddsUp
    BY <1>2, <1>3, <1>4, <1>5, <1>6 DEF Balances, AddsUp
  <1>8. Measures
    BY DEF FundsInit, Measures, AmountsOf, Unasked, Free
  <1>9. OneSweep /\ WithinEarned
    <2>1. /\ \A h \in Handlers : On(h) \notin Sweeps
          /\ \A x \in Sweeps : chain[x] # "sent"
      BY FundsAssumption DEF FundsInit, On, Free, Transfers
    <2>2. Leaves(0)
      BY <1>2 DEF Leaves
    <2>3. QED
      BY <2>1, <2>2 DEF OneSweep, WithinEarned
  <1>10. QED
    BY <1>1, <1>7, <1>8, <1>9 DEF BankInv

\* The same numbers in the accounts and in the history of sweeps.
LEMMA SameBalances ==
    ASSUME BankInv, UNCHANGED <<bal, tokens, swept>>
    PROVE  Balances' /\ AddsUp' /\ \A a : Leaves(a)' = Leaves(a)
  BY DEF BankInv, Balances, AddsUp, Leaves

LEMMA QuietKeepsBank ==
    ASSUME BankInv, UNCHANGED <<bal, tokens, transfer, chain, handler, banker, swept, faults>>, MachineTypes'
    PROVE  BankInv'
  <1>1. Balances' /\ AddsUp' /\ Measures'
    BY DEF BankInv, Balances, AddsUp, Measures, AmountsOf
  <1>2. Up' => OneSweep' /\ WithinEarned'
    BY DEF BankInv, Up, OneSweep, WithinEarned, Leaves, On, At
  <1>3. QED
    BY <1>1, <1>2 DEF BankInv

\* A buy costs what it brings in tokens; a sale earns what it brings home beyond what the token cost.
LEMMA TradesKeepBank == ASSUME FundsInv, BankInv, NEW t \in Trades, LandTrade(t) PROVE BankInv'
  <1>1. /\ UNCHANGED <<lifecycle, leased, transfer, chain, handler, banker, faults>>
        /\ trade' = [trade EXCEPT ![t] = "landed"]
    BY DEF LandTrade
  <1>2. MachineTypes' /\ Measures'
    BY <1>1 DEF BankInv, MachineTypes, Measures, AmountsOf
  <1>3. /\ bal \in [Accounts -> Nat] /\ "trading" \in Accounts /\ tokens \in Nat /\ Target \in Nat
        /\ swept.moved \in Nat /\ swept.earned \in Int /\ swept.peak \in Int
    BY FundsAssumption DEF BankInv, Balances, Accounts
  <1>4. Balances' /\ AddsUp' /\ swept'.moved = swept.moved /\ swept.peak <= swept'.peak
    <2>1. CASE /\ bal["trading"] >= 1 /\ bal' = [bal EXCEPT !["trading"] = @ - 1]
               /\ tokens' = tokens + 1 /\ UNCHANGED swept
      <3>1. bal' \in [Accounts -> Nat] /\ bal'["trading"] = bal["trading"] - 1
        BY <1>3, <2>1
      <3>2. QED
        BY <1>3, <2>1, <3>1 DEF BankInv, Balances, AddsUp
    <2>2. ASSUME NEW got \in Proceeds, tokens >= 1, tokens' = tokens - 1,
                 bal' = [bal EXCEPT !["trading"] = @ + got],
                 swept' = [swept EXCEPT !.earned = @ + got - 1, !.peak = Peak(swept.earned + got - 1)]
          PROVE  Balances' /\ AddsUp' /\ swept'.moved = swept.moved /\ swept.peak <= swept'.peak
      <3>1. got \in Nat
        BY FundsAssumption
      <3>2. bal' \in [Accounts -> Nat] /\ bal'["trading"] = bal["trading"] + got
        BY <1>3, <2>2, <3>1
      <3>3. PICK e \in Int, p \in Int :
                 e = swept.earned + got - 1 /\ p = Peak(e) /\ swept.peak <= p /\ e <= p
        BY <1>3, <3>1 DEF Peak
      <3>4. swept' = [swept EXCEPT !.earned = e, !.peak = p]
        BY <2>2, <3>3
      <3>5. swept \in [moved : Nat, earned : Int, peak : Int]
        BY DEF BankInv, Balances
      <3>6. /\ swept' \in [moved : Nat, earned : Int, peak : Int]
            /\ swept'.moved = swept.moved /\ swept'.earned = e /\ swept'.peak = p
        BY <3>4, <3>5
      <3>7. QED
        BY <1>3, <2>2, <3>1, <3>2, <3>3, <3>6 DEF BankInv, Balances, AddsUp
    <2>3. QED
      BY <2>1, <2>2 DEF LandTrade
  <1>5. Up' => OneSweep'
    BY <1>1 DEF BankInv, Up, OneSweep, On
  <1>6. Up' => WithinEarned'
    <2>1. ASSUME NEW a \in Nat, Leaves(a) PROVE Leaves(a)'
      BY <1>3, <1>4, <2>1 DEF Leaves, Balances
    <2>2. \A x \in Transfers : transfer[x].amount \in Nat
      BY DEF BankInv, Measures, AmountsOf
    <2>3. \A h \in Handlers : handler[h].holding \in Nat
      BY DEF BankInv, Measures
    <2>4. ASSUME Up, NEW h \in Handlers, On(h) \in Sweeps, At(h, {"measured"})
          PROVE  handler[h].holding + swept'.moved <= Target + swept'.peak
      <3>1. handler[h].holding + swept.moved <= Target + swept.peak
        BY <2>4 DEF BankInv, WithinEarned
      <3>2. swept'.peak \in Int
        BY <1>4 DEF Balances
      <3>3. QED
        BY <1>3, <1>4, <2>3, <3>1, <3>2
    <2>5. QED
      BY <1>1, <2>1, <2>2, <2>4 DEF BankInv, Up, WithinEarned, On, At, Transfers
  <1>7. QED
    BY <1>2, <1>4, <1>5, <1>6 DEF BankInv

\* The loop between two looks: nothing of a sweep is under way when it rests, or it was killed.
LEMMA LoopKeepsBank ==
    ASSUME FundsInv, BankInv, Candidate \/ Rest \/ RestartOrchestrator
    PROVE  BankInv'
  <1>1. UNCHANGED <<lifecycle, leased, trade, bal, tokens, transfer, chain, handler, swept>>
    BY DEF Candidate, Rest, RestartOrchestrator
  <1>2. MachineTypes' /\ Balances' /\ AddsUp' /\ \A a : Leaves(a)' = Leaves(a)
    BY <1>1, SameBalances DEF BankInv, MachineTypes
  <1>3. faults' \in [signer : Nat, orchestrator : Nat] /\ (Up' => Up /\ faults' = faults)
    BY DEF Candidate, Rest, RestartOrchestrator, BankInv, Measures, Up
  <1>4. Measures'
    BY <1>1, <1>3 DEF BankInv, Measures, AmountsOf
  <1>5. Up' => WithinEarned'
    BY <1>1, <1>2, <1>3 DEF BankInv, WithinEarned, On, At
  <1>6. Up' => OneSweep'
    <2> SUFFICES ASSUME Up' PROVE OneSweep'
      OBVIOUS
    <2>1. ~RestartOrchestrator
      BY DEF RestartOrchestrator, Up, BankInv, Measures
    <2>2. \A h \in Handlers : On(h) \notin Sweeps
      BY <1>3, <2>1 DEF Candidate, Rest, IntervalOver, BankInv, OneSweep, On
    <2>3. \A x \in Sweeps : chain[x] # "sent"
      BY <1>3, <2>1 DEF Candidate, Rest, IntervalOver, BankInv, OneSweep, Transfers
    <2>4. QED
      BY <1>1, <2>2, <2>3 DEF OneSweep, On
  <1>7. QED
    BY <1>2, <1>4, <1>5, <1>6 DEF BankInv

\* The sweep asked about is then the only one.
LEMMA AskKeepsBank == ASSUME FundsInv, BankInv, NEW h \in Handlers, Ask(h) PROVE BankInv'
  <1> DEFINE x == banker.sweep
             r == IF transfer[x].submitted
                  THEN [pc |-> "waiting", on |-> x, holding |-> 0]
                  ELSE [pc |-> "measured", on |-> x, holding |-> bal["trading"]]
  <1>1. /\ UNCHANGED <<lifecycle, leased, trade, bal, tokens, transfer, chain, swept, faults>>
        /\ banker.pc = "asking" /\ banker' = [banker EXCEPT !.pc = "asked"]
        /\ handler' = [handler EXCEPT ![h] = r]
    BY DEF Ask
  <1>2. banker'.pc = "asked" /\ banker'.sweep = x
    BY <1>1 DEF FundsInv, Shape
  <1>3. /\ r.on = x /\ r.pc \in {"waiting", "measured"} /\ r.holding \in Nat
        /\ r.pc = "measured" => r.holding = bal["trading"]
    BY DEF BankInv, Balances, Accounts
  <1> HIDE DEF r, x
  <1>4. handler'[h] = r /\ \A g \in Handlers \ {h} : handler'[g] = handler[g]
    BY <1>1 DEF FundsInv, Shape
  <1>5. MachineTypes' /\ Balances' /\ AddsUp' /\ \A a : Leaves(a)' = Leaves(a)
    BY <1>1, SameBalances DEF BankInv, MachineTypes
  <1>6. Measures'
    BY <1>1, <1>3, <1>4 DEF BankInv, Measures, AmountsOf
  <1>7. ASSUME Up' PROVE OneSweep' /\ WithinEarned'
    <2>1. Up /\ OneSweep /\ WithinEarned
      BY <1>1, <1>7 DEF Up, BankInv
    <2>2. /\ \A g \in Handlers \ {h} : On(g)' \notin Sweeps
          /\ \A y \in Sweeps : chain'[y] # "sent"
      BY <1>1, <1>4, <2>1 DEF OneSweep, On
    <2>3. On(h)' = x /\ ~At(h, {"building", "signed"})' /\ handler'[h].holding = r.holding
          /\ (At(h, {"measured"})' => r.holding = bal["trading"])
      BY <1>3, <1>4 DEF On, At
    <2>4. bal["trading"] + swept.moved <= Target + swept.peak
      BY FundsAssumption DEF BankInv, Balances, AddsUp, Accounts
    <2>5. OneSweep'
      BY <1>2, <2>2, <2>3 DEF OneSweep
    <2>6. WithinEarned'
      BY <1>1, <1>5, <2>1, <2>2, <2>3, <2>4 DEF WithinEarned
    <2>7. QED
      BY <2>5, <2>6
  <1>8. QED
    BY <1>5, <1>6, <1>7 DEF BankInv

-----------------------------------------------------------------------------
(* The signer's steps, by what they do to a request and its transfer: it   *)
(* goes on with the transfer it has, or with no sweep; what it is to send  *)
(* is within what was earned; and only what it signed is newly sent.       *)

LEMMA RequestKeepsBank ==
    ASSUME FundsInv, BankInv, NEW h \in Handlers, NEW r,
           handler' = [handler EXCEPT ![h] = r], r.holding \in Nat,
           UNCHANGED <<lifecycle, leased, trade, bal, tokens, banker, swept>>,
           faults' \in [signer : Nat, orchestrator : Nat], faults'.orchestrator = faults.orchestrator,
           \A x \in Transfers : AmountsOf(x)',
           \A x \in Sweeps :
              \/ transfer'[x].amount = transfer[x].amount
              \/ x = On(h) /\ At(h, {"measured"}),
           \A x \in Sweeps :
              /\ chain'[x] = "unknown" => chain[x] = "unknown"
              /\ chain'[x] = "sent" => chain[x] = "sent" \/ (x = On(h) /\ At(h, {"signed"}) /\ chain[x] = "unknown"),
           r.on \in Sweeps => r.on = On(h) /\ r.pc \in {"building", "signed", "waiting"},
           Up /\ r.on \in Sweeps /\ r.pc \in {"building", "signed"} /\ chain[r.on] = "unknown"
              => Leaves(transfer'[r.on].amount)
    PROVE  BankInv'
  <1>1. MachineTypes' /\ Balances' /\ AddsUp' /\ \A a : Leaves(a)' = Leaves(a)
    BY SameBalances DEF BankInv, MachineTypes
  <1>2. handler'[h] = r /\ \A g \in Handlers \ {h} : handler'[g] = handler[g]
    BY DEF FundsInv, Shape
  <1>3. Measures'
    BY <1>2 DEF BankInv, Measures
  <1>4. ASSUME Up' PROVE OneSweep' /\ WithinEarned'
    <2>1. Up /\ OneSweep /\ WithinEarned
      BY <1>4 DEF Up, BankInv
    <2>2. \A g \in Handlers : On(g)' \in Sweeps => On(g)' = On(g)
      BY <1>2 DEF On
    <2>3. OneSweep'
      BY <2>1, <2>2 DEF OneSweep
    <2>4. ASSUME NEW g \in Handlers, On(g)' \in Sweeps, At(g, {"measured"})'
          PROVE  handler'[g].holding + swept'.moved <= Target + swept'.peak
      <3>1. g # h
        BY <1>2, <2>4 DEF On, At
      <3>2. handler'[g] = handler[g]
        BY <1>2, <3>1
      <3>3. QED
        BY <2>1, <2>4, <3>2 DEF WithinEarned, On, At
    <2>5. ASSUME NEW g \in Handlers, On(g)' \in Sweeps, At(g, {"building", "signed"})', chain'[On(g)'] = "unknown"
          PROVE  Leaves(transfer'[On(g)'].amount)
      <3>1. CASE g = h
        BY <1>2, <2>1, <2>5, <3>1 DEF On, At
      <3>2. CASE g # h
        <4>1. handler'[g] = handler[g] /\ On(g)' = On(g) /\ At(g, {"building", "signed"})
          BY <1>2, <2>5, <3>2 DEF On, At
        <4>2. ~(On(g) = On(h) /\ At(h, {"measured"}))
          BY <3>2, NobodyElse DEF At, Before
        <4>3. transfer'[On(g)].amount = transfer[On(g)].amount /\ chain[On(g)] = "unknown"
          BY <2>5, <4>1, <4>2
        <4>4. QED
          BY <2>1, <2>5, <4>1, <4>3 DEF WithinEarned
      <3>3. QED
        BY <3>1, <3>2
    <2>6. ASSUME NEW x \in Sweeps, chain'[x] = "sent" PROVE Leaves(transfer'[x].amount)
      <3>1. CASE chain[x] = "sent"
        <4>1. ~(x = On(h) /\ At(h, {"measured"}))
          BY <3>1 DEF FundsInv, Fresh, Truth, At, Before, Transfers
        <4>2. QED
          BY <2>1, <3>1, <4>1 DEF WithinEarned
      <3>2. CASE x = On(h) /\ At(h, {"signed"}) /\ chain[x] = "unknown"
        <4>1. transfer'[x].amount = transfer[x].amount
          BY <3>2 DEF At
        <4>2. QED
          BY <2>1, <3>2, <4>1 DEF WithinEarned, At
      <3>3. QED
        BY <2>6, <3>1, <3>2
    <2>7. Leaves(0)
      BY <2>1 DEF WithinEarned
    <2>8. WithinEarned'
      BY <1>1, <2>4, <2>5, <2>6, <2>7 DEF WithinEarned
    <2>9. QED
      BY <2>3, <2>8
  <1>5. QED
    BY <1>1, <1>3, <1>4 DEF BankInv

\* What is written down of a transfer, but for its amounts.
LEMMA SameAmounts ==
    ASSUME BankInv,
           \A x \in Transfers : /\ transfer'[x].amount = transfer[x].amount
                                /\ transfer'[x].tokens = transfer[x].tokens
    PROVE  \A x \in Transfers : AmountsOf(x)'
  BY DEF BankInv, Measures, AmountsOf

LEMMA SameFaults ==
    ASSUME BankInv, faults' = faults \/ faults' = [faults EXCEPT !.signer = @ + 1]
    PROVE  faults' \in [signer : Nat, orchestrator : Nat] /\ faults'.orchestrator = faults.orchestrator
  BY DEF BankInv, Measures

(* A sweep is worked out from a balance within what was granted and earned,*)
(* and from a record that says nothing is held: it leaves the float.       *)
LEMMA DecideKeepsBank == ASSUME FundsInv, BankInv, NEW h \in Handlers, Decide(h) PROVE BankInv'
  <1> DEFINE x == On(h)
             due == Flat /\ Surplus(handler[h].holding) > 0
             amount == Surplus(handler[h].holding)
             r == IF due THEN [handler[h] EXCEPT !.pc = "building", !.holding = 0] ELSE Free
  <1>1. /\ handler[h].pc = "measured" /\ At(h, {"measured"}) /\ At(h, Before)
        /\ UNCHANGED <<lifecycle, leased, trade, bal, tokens, chain, banker, swept, faults>>
        /\ handler' = [handler EXCEPT ![h] = r]
        /\ transfer' = IF due THEN [transfer EXCEPT ![x].asked = TRUE, ![x].amount = amount] ELSE transfer
    BY DEF Decide, On, At, Before
  <1>2. x \in Transfers /\ IsTransfer(transfer[x]) /\ IsRequest(handler[h])
    BY <1>1, AtWork DEF FundsInv, Shape
  <1>3. /\ r.holding = 0
        /\ due => r.on = x /\ r.pc = "building"
        /\ ~due => r.on = Nothing
    BY <1>2 DEF IsRequest, Free, On
  <1>4. /\ swept.moved \in Nat /\ swept.peak \in Int
        /\ handler[h].holding \in Nat /\ Target \in Nat
    BY FundsAssumption DEF BankInv, Balances, Measures
  <1>5. due => amount \in Nat /\ amount = handler[h].holding - Target
    BY <1>4 DEF Flat, Surplus
  <1>6. /\ \A y \in Transfers \ {x} : transfer'[y] = transfer[y]
        /\ due => transfer'[x].amount = amount
        /\ ~due => transfer'[x].amount = transfer[x].amount
        /\ transfer'[x].tokens = transfer[x].tokens
    BY <1>1, <1>2 DEF FundsInv, Shape, IsTransfer
  <1>7. \A y \in Transfers : AmountsOf(y)'
    <2>1. ASSUME NEW y \in Transfers PROVE transfer'[y].amount \in Nat /\ transfer'[y].tokens = transfer[y].tokens
      BY <1>5, <1>6 DEF BankInv, Measures, AmountsOf
    <2>2. QED
      BY <2>1 DEF BankInv, Measures, AmountsOf
  <1>8. ASSUME Up, x \in Sweeps, due PROVE Leaves(amount)
    <2>1. handler[h].holding + swept.moved <= Target + swept.peak
      BY <1>1, <1>8 DEF BankInv, WithinEarned
    <2>2. QED
      BY <1>4, <1>5, <1>8, <2>1 DEF Leaves
  <1>9. \A y \in Sweeps : transfer'[y].amount = transfer[y].amount \/ (y = On(h) /\ At(h, {"measured"}))
    BY <1>1, <1>6 DEF Transfers
  <1>10. Nothing \notin Sweeps
    BY FundsAssumption DEF Transfers
  <1>11. faults' \in [signer : Nat, orchestrator : Nat] /\ faults'.orchestrator = faults.orchestrator
    BY <1>1, SameFaults
  <1> HIDE DEF r, due, amount
  <1>12. r.on \in Sweeps => due /\ r.on = On(h) /\ r.pc = "building"
    BY <1>3, <1>10
  <1>13. Up /\ r.on \in Sweeps => Leaves(transfer'[r.on].amount)
    BY <1>6, <1>8, <1>12
  <1>14. r.holding \in Nat
    BY <1>3
  <1>15. QED
    BY <1>1, <1>7, <1>9, <1>11, <1>12, <1>13, <1>14, RequestKeepsBank

\* Withdrawals are no sweeps, and move what is there.
LEMMA WithdrawalsKeepBank ==
    ASSUME FundsInv, BankInv, NEW h \in Handlers,
           \/ Empty(h) /\ On(h) \in Steps
           \/ \E w \in Withdrawals : WithdrawEverything(h, w) \/ WithdrawFunds(h, w)
    PROVE  BankInv'
  <1>1. Steps = Withdrawals \X Accounts /\ Steps \cap Sweeps = {} /\ Nothing \notin Sweeps /\ Steps \subseteq Transfers
    BY FundsAssumption, TheSteps DEF Transfers
  <1>2. UNCHANGED <<lifecycle, leased, trade, bal, tokens, chain, banker, swept, faults>>
    BY DEF Empty, WithdrawEverything, WithdrawFunds
  <1>3. faults' \in [signer : Nat, orchestrator : Nat] /\ faults'.orchestrator = faults.orchestrator
    BY <1>2, SameFaults
  <1>4. ASSUME NEW r, handler' = [handler EXCEPT ![h] = r], r.holding \in Nat, r.on \notin Sweeps,
               NEW x \in Steps, NEW t, transfer' = [transfer EXCEPT ![x] = t],
               t.amount \in Nat, t.tokens \in Nat, x \notin Withdrawals \X {"trading"} => t.tokens = 0
        PROVE  BankInv'
    <2>1. \A y \in Transfers : transfer'[y] = IF y = x THEN t ELSE transfer[y]
      BY <1>4 DEF FundsInv, Shape
    <2>2. \A y \in Transfers : AmountsOf(y)'
      BY <1>4, <2>1 DEF BankInv, Measures, AmountsOf
    <2>3. \A y \in Sweeps : transfer'[y].amount = transfer[y].amount
      BY <1>1, <1>4, <2>1 DEF Transfers
    <2>4. QED
      BY <1>2, <1>3, <1>4, <2>2, <2>3, RequestKeepsBank
  <1>5. ASSUME NEW r, handler' = [handler EXCEPT ![h] = r], r.holding \in Nat, r.on \notin Sweeps, UNCHANGED transfer
        PROVE  BankInv'
    <2>1. \A y \in Transfers : AmountsOf(y)'
      BY <1>5, SameAmounts
    <2>2. QED
      BY <1>2, <1>3, <1>5, <2>1, RequestKeepsBank
  <1>6. ASSUME Empty(h), On(h) \in Steps PROVE BankInv'
    <2> DEFINE x == On(h)
               held == IF x[2] = "trading" THEN tokens ELSE 0
               t == [transfer[x] EXCEPT !.asked = TRUE, !.amount = bal[x[2]], !.tokens = held]
               r == [handler[h] EXCEPT !.pc = "building"]
    <2>1. PICK w \in Withdrawals, a \in Accounts : x = <<w, a>>
      BY <1>1, <1>6
    <2>2. IsTransfer(transfer[x]) /\ IsRequest(handler[h]) /\ x \in Transfers
      BY <1>1, <1>6 DEF FundsInv, Shape
    <2>3. CASE bal[x[2]] + held = 0
      <3>1. handler' = [handler EXCEPT ![h] = After(x)] /\ UNCHANGED transfer
        BY <1>6, <2>3 DEF Empty, On
      <3>2. After(x) = Free \/ \E b \in Accounts : After(x) = Comes(w, b)
        BY <2>1 DEF After, Comes, NextAccount, Accounts
      <3>3. After(x).holding \in Nat /\ After(x).on \notin Sweeps
        BY <1>1, <3>2 DEF Free, Comes
      <3>4. QED
        BY <1>5, <3>1, <3>3
    <2>4. CASE bal[x[2]] + held # 0
      <3>1. handler' = [handler EXCEPT ![h] = r] /\ transfer' = [transfer EXCEPT ![x] = t]
        BY <1>6, <2>2, <2>4 DEF Empty, On, FundsInv, Shape
      <3>2. r.on = x /\ r.holding = handler[h].holding /\ r.holding \in Nat
        BY <2>2 DEF IsRequest, On, BankInv, Measures
      <3>3. t.amount = bal[a] /\ t.tokens = held
        BY <2>1, <2>2 DEF IsTransfer
      <3>4. t.amount \in Nat /\ t.tokens \in Nat /\ (x \notin Withdrawals \X {"trading"} => t.tokens = 0)
        BY <2>1, <3>3 DEF BankInv, Balances
      <3>5. x \notin Sweeps
        BY <1>1, <1>6
      <3> HIDE DEF t, r, x
      <3>6. QED
        BY <1>1, <1>4, <1>6, <3>1, <3>2, <3>4, <3>5 DEF x
    <2>5. QED
      BY <2>3, <2>4
  <1>7. ASSUME NEW w \in Withdrawals, WithdrawEverything(h, w) PROVE BankInv'
    <2>1. <<w, "vault">> \notin Sweeps
      BY <1>1 DEF Accounts
    <2> DEFINE r == [pc |-> "emptying", on |-> <<w, "vault">>, holding |-> 0]
    <2>2. handler' = [handler EXCEPT ![h] = r] /\ UNCHANGED transfer
      BY <1>7 DEF WithdrawEverything
    <2>3. r.holding \in Nat /\ r.on \notin Sweeps
      BY <2>1
    <2> HIDE DEF r
    <2>4. QED
      BY <1>5, <2>2, <2>3
  <1>8. ASSUME NEW w \in Withdrawals, WithdrawFunds(h, w) PROVE BankInv'
    <2> DEFINE x == <<w, "sol">>
               t == [transfer[x] EXCEPT !.asked = TRUE, !.amount = 1]
               r == [pc |-> "building", on |-> x, holding |-> 0]
    <2>1. x \in Steps /\ x \notin Sweeps /\ x \in Transfers /\ x \notin Withdrawals \X {"trading"}
      BY <1>1 DEF Accounts
    <2>2. handler' = [handler EXCEPT ![h] = r] /\ transfer' = [transfer EXCEPT ![x] = t]
      BY <1>8, <2>1 DEF WithdrawFunds, FundsInv, Shape
    <2>3. IsTransfer(transfer[x]) /\ transfer[x].tokens = 0
      BY <2>1 DEF FundsInv, Shape, BankInv, Measures, AmountsOf
    <2>4. t.amount \in Nat /\ t.tokens \in Nat /\ t.tokens = 0
      BY <2>3 DEF IsTransfer
    <2>5. r.holding \in Nat /\ r.on \notin Sweeps
      BY <2>1
    <2> HIDE DEF r, t, x
    <2>6. QED
      BY <1>4, <2>1, <2>2, <2>4, <2>5
  <1>9. QED
    BY <1>6, <1>7, <1>8

\* Signing what was worked out, sending it, writing down the answer, and ending on the way.
LEMMA SendingKeepsBank ==
    ASSUME FundsInv, BankInv, NEW h \in Handlers,
           Submit(h) \/ Send(h) \/ Answer(h) \/ BuildFails(h) \/ Lose(h)
    PROVE  BankInv'
  <1> DEFINE x == On(h)
             Goes(pc) == [handler[h] EXCEPT !.pc = pc]
  <1>1. UNCHANGED <<lifecycle, leased, trade, bal, tokens, banker, swept>>
    BY DEF Submit, Send, Answer, BuildFails, Lose
  <1>2. faults' \in [signer : Nat, orchestrator : Nat] /\ faults'.orchestrator = faults.orchestrator
    BY SameFaults DEF Submit, Send, Answer, BuildFails, Lose
  <1>3. x \in Transfers /\ IsTransfer(transfer[x]) /\ IsRequest(handler[h])
    <2>1. handler[h].pc # "free"
      BY DEF Submit, Send, Answer, BuildFails, Lose
    <2>2. QED
      BY <2>1, AtWork DEF FundsInv, Shape
  <1>4. \A y \in Transfers : /\ transfer'[y].amount = transfer[y].amount
                             /\ transfer'[y].tokens = transfer[y].tokens
    <2>1. \/ UNCHANGED transfer
          \/ transfer' = [transfer EXCEPT ![x].submitted = TRUE]
          \/ \E e : transfer' = [transfer EXCEPT ![x].ended = e]
      BY DEF Submit, Send, Answer, BuildFails, Lose, On
    <2>2. QED
      BY <1>3, <2>1 DEF FundsInv, Shape, IsTransfer
  <1>5. (\A y \in Transfers : AmountsOf(y)') /\ \A y \in Sweeps : transfer'[y].amount = transfer[y].amount
    BY <1>4, SameAmounts DEF Transfers
  <1>6. Nothing \notin Sweeps /\ Steps \cap Sweeps = {}
    BY FundsAssumption DEF Transfers
  <1>7. ASSUME NEW pc \in {"signed", "waiting"}
        PROVE  Goes(pc).on = x /\ Goes(pc).pc = pc /\ Goes(pc).holding \in Nat
    <2>1. handler[h].holding \in Nat
      BY DEF BankInv, Measures
    <2>2. QED
      BY <1>3, <1>7, <2>1 DEF IsRequest, On
  <1>8. CASE Submit(h)
    <2>1. /\ handler' = [handler EXCEPT ![h] = Goes("signed")] /\ UNCHANGED chain
          /\ At(h, {"building", "signed"})
      BY <1>8 DEF Submit, At
    <2>2. Up /\ x \in Sweeps /\ chain[x] = "unknown" => Leaves(transfer'[x].amount)
      BY <1>5, <2>1 DEF BankInv, WithinEarned
    <2> HIDE DEF Goes
    <2>3. QED
      BY <1>1, <1>2, <1>5, <1>7, <2>1, <2>2, RequestKeepsBank
  <1>9. CASE Send(h)
    <2>1. /\ handler' = [handler EXCEPT ![h] = Goes("waiting")]
          /\ At(h, {"signed"})
          /\ \/ chain' = [chain EXCEPT ![x] = IF @ = "unknown" THEN "sent" ELSE @]
             \/ UNCHANGED chain
      BY <1>9 DEF Send, At, On
    <2>2. \A y \in Sweeps :
              /\ chain'[y] = "unknown" => chain[y] = "unknown"
              /\ chain'[y] = "sent" => chain[y] = "sent" \/ (y = On(h) /\ At(h, {"signed"}) /\ chain[y] = "unknown")
      BY <2>1 DEF FundsInv, Shape, Transfers
    <2> HIDE DEF Goes
    <2>3. QED
      BY <1>1, <1>2, <1>5, <1>7, <2>1, <2>2, RequestKeepsBank
  <1>10. ASSUME NEW r, handler' = [handler EXCEPT ![h] = r], r = Free \/ (x \in Steps /\ r = After(x)), UNCHANGED chain
         PROVE  BankInv'
    <2>1. r = Free \/ \E w \in Withdrawals, b \in Accounts : r = Comes(w, b)
      <3>1. ASSUME x \in Steps PROVE After(x) = Free \/ \E w \in Withdrawals, b \in Accounts : After(x) = Comes(w, b)
        <4>1. PICK w \in Withdrawals, a \in Accounts : x = <<w, a>>
          BY <3>1, TheSteps
        <4>2. QED
          BY <4>1 DEF After, Comes, NextAccount, Accounts
      <3>2. QED
        BY <1>10, <3>1
    <2>2. r.holding \in Nat /\ r.on \notin Sweeps
      BY <1>6, <2>1, TheSteps DEF Free, Comes
    <2>3. QED
      BY <1>1, <1>2, <1>5, <1>10, <2>2, RequestKeepsBank
  <1>11. CASE Answer(h)
    <2> DEFINE r == IF x \in Steps /\ chain[x] = "landed" THEN After(x) ELSE Free
    <2>1. handler' = [handler EXCEPT ![h] = r] /\ UNCHANGED chain
      BY <1>11 DEF Answer, On
    <2>2. r = Free \/ (x \in Steps /\ r = After(x))
      OBVIOUS
    <2> HIDE DEF r, x
    <2>3. QED
      BY <1>10, <2>1, <2>2
  <1>12. CASE BuildFails(h) \/ Lose(h)
    <2>1. handler' = [handler EXCEPT ![h] = Free] /\ UNCHANGED chain
      BY <1>12 DEF BuildFails, Lose
    <2>2. QED
      BY <1>10, <2>1
  <1>13. QED
    BY <1>8, <1>9, <1>11, <1>12

-----------------------------------------------------------------------------
(* The chain.                                                              *)

\* Nothing moved: a transfer was refused, or is too old.
LEMMA RefusingKeepsBank ==
    ASSUME FundsInv, BankInv, NEW x \in Transfers, NEW c \in {"broken", "expired"},
           chain' = [chain EXCEPT ![x] = c],
           UNCHANGED <<lifecycle, leased, trade, bal, tokens, transfer, handler, banker, swept, faults>>
    PROVE  BankInv'
  <1>1. MachineTypes' /\ Balances' /\ AddsUp' /\ \A a : Leaves(a)' = Leaves(a)
    BY SameBalances DEF BankInv, MachineTypes
  <1>2. Measures'
    BY DEF BankInv, Measures, AmountsOf
  <1>3. \A y \in Sweeps : chain'[y] \in {"unknown", "sent"} => chain[y] = chain'[y]
    BY DEF FundsInv, Shape, Transfers
  <1>4. Up' => OneSweep'
    BY <1>3 DEF BankInv, Up, OneSweep, On
  <1>5. Up' => WithinEarned'
    <2>1. SUFFICES ASSUME Up' PROVE WithinEarned'
      OBVIOUS
    <2>2. WithinEarned
      BY <2>1 DEF BankInv, Up
    <2>3. \A h \in Handlers : On(h)' = On(h) /\ \A pcs : At(h, pcs)' = At(h, pcs)
      BY DEF On, At
    <2>4. QED
      BY <1>1, <1>3, <2>2, <2>3 DEF WithinEarned
  <1>6. QED
    BY <1>1, <1>2, <1>4, <1>5 DEF BankInv

(* A sweep that lands takes from the trading account what it puts in the   *)
(* vault.  Nobody works on a sweep of before, and no other was sent.       *)
LEMMA SweepLands ==
    ASSUME FundsInv, BankInv, NEW x \in Sweeps, chain[x] = "sent", Sound(x),
           chain' = [chain EXCEPT ![x] = "landed"],
           bal' = [bal EXCEPT !["trading"] = @ - transfer[x].amount, !["vault"] = @ + transfer[x].amount],
           tokens' = tokens - transfer[x].tokens,
           swept' = [swept EXCEPT !.moved = @ + transfer[x].amount],
           UNCHANGED <<lifecycle, leased, trade, transfer, handler, banker, faults>>
    PROVE  BankInv'
  <1> DEFINE a == transfer[x].amount
  <1>1. /\ x \in Transfers /\ a \in Nat /\ transfer[x].tokens = 0
    BY FundsAssumption DEF BankInv, Measures, AmountsOf, Transfers, Steps
  <1>2. /\ bal \in [Accounts -> Nat] /\ "trading" \in Accounts /\ "vault" \in Accounts
        /\ swept \in [moved : Nat, earned : Int, peak : Int] /\ tokens \in Nat
        /\ bal["trading"] \in Nat /\ bal["vault"] \in Nat /\ bal["trading"] >= a
    BY DEF BankInv, Balances, Accounts, Sound, Source
  <1> HIDE DEF a
  <1>3. /\ bal' \in [Accounts -> Nat] /\ bal'["trading"] = bal["trading"] - a
    <2>1. bal["trading"] - a \in Nat /\ bal["vault"] + a \in Nat
      BY <1>1, <1>2
    <2>2. bal' = [bal EXCEPT !["trading"] = bal["trading"] - a, !["vault"] = bal["vault"] + a]
      BY <1>2 DEF a
    <2>3. QED
      BY <1>2, <2>1, <2>2
  <1>4. /\ swept' \in [moved : Nat, earned : Int, peak : Int] /\ tokens' = tokens
        /\ swept'.moved = swept.moved + a /\ swept'.earned = swept.earned /\ swept'.peak = swept.peak
    BY <1>1, <1>2 DEF a
  <1>5. MachineTypes' /\ Balances' /\ AddsUp'
    BY FundsAssumption, <1>1, <1>2, <1>3, <1>4 DEF BankInv, MachineTypes, Balances, AddsUp
  <1>6. Measures'
    BY DEF BankInv, Measures, AmountsOf
  <1>7. \A y \in Sweeps : chain'[y] = IF y = x THEN "landed" ELSE chain[y]
    BY DEF FundsInv, Shape, Transfers
  <1>8. ASSUME Up' PROVE OneSweep' /\ WithinEarned'
    <2>1. Up /\ OneSweep /\ WithinEarned
      BY <1>8 DEF Up, BankInv
    <2>2. banker.pc = "asked" /\ x = banker.sweep
      BY <2>1 DEF OneSweep
    <2>3. OneSweep'
      BY <1>7, <2>1 DEF OneSweep, On
    <2>4. \A y \in Sweeps : chain'[y] # "sent"
      BY <1>7, <2>1, <2>2 DEF OneSweep
    <2>5. ASSUME NEW h \in Handlers, On(h) \in Sweeps PROVE On(h) = x /\ ~At(h, {"measured"})
      <3>1. On(h) = x
        BY <2>1, <2>2, <2>5 DEF OneSweep
      <3>2. QED
        BY <1>1, <3>1 DEF FundsInv, Fresh, Truth, At, Before
    <2>6. Leaves(0)'
      <3>1. a + swept.moved <= swept.peak
        BY <2>1 DEF WithinEarned, Leaves, a
      <3>2. QED
        BY <1>1, <1>2, <1>4, <3>1 DEF Leaves
    <2>7. WithinEarned'
      <3>1. \A h \in Handlers : On(h)' = On(h) /\ At(h, {"measured"})' = At(h, {"measured"})
        BY DEF On, At
      <3>2. QED
        BY <1>7, <2>4, <2>5, <2>6, <3>1 DEF WithinEarned
    <2>8. QED
      BY <2>3, <2>7
  <1>9. QED
    BY <1>5, <1>6, <1>8 DEF BankInv

\* A withdrawal that lands takes what is there, and of the tokens all.
LEMMA WithdrawalLands ==
    ASSUME FundsInv, BankInv, NEW x \in Steps, Sound(x),
           chain' = [chain EXCEPT ![x] = "landed"],
           bal' = [bal EXCEPT ![Source(x)] = @ - transfer[x].amount],
           tokens' = tokens - transfer[x].tokens,
           UNCHANGED <<lifecycle, leased, trade, transfer, handler, banker, swept, faults>>
    PROVE  BankInv'
  <1> DEFINE a == transfer[x].amount
  <1>1. x \in Transfers /\ x \notin Sweeps /\ x[2] \in Accounts /\ Source(x) = x[2]
    BY FundsAssumption, TheSteps DEF Transfers, Source
  <1>2. a \in Nat /\ bal[x[2]] \in Nat /\ bal[x[2]] >= a /\ bal \in [Accounts -> Nat] /\ tokens \in Nat
    BY <1>1 DEF BankInv, Measures, AmountsOf, Balances, Sound
  <1>3. tokens' \in Nat /\ tokens' <= tokens
    <2>1. CASE x \in Withdrawals \X {"trading"}
      BY <1>2, <2>1 DEF Sound
    <2>2. CASE x \notin Withdrawals \X {"trading"}
      BY <1>1, <1>2, <2>2 DEF BankInv, Measures, AmountsOf
    <2>3. QED
      BY <2>1, <2>2
  <1>4. bal' \in [Accounts -> Nat] /\ bal'["trading"] <= bal["trading"]
    BY <1>1, <1>2 DEF Accounts
  <1>5. MachineTypes' /\ Balances' /\ AddsUp'
    <2>1. bal["trading"] \in Nat /\ bal'["trading"] \in Nat /\ Target \in Nat
          /\ swept.moved \in Nat /\ swept.earned \in Int
      BY FundsAssumption, <1>2, <1>4 DEF BankInv, Balances, Accounts
    <2>2. QED
      BY <1>2, <1>3, <1>4, <2>1 DEF BankInv, MachineTypes, Balances, AddsUp
  <1>6. Measures'
    BY DEF BankInv, Measures, AmountsOf
  <1>7. \A y \in Sweeps : chain'[y] = chain[y]
    BY <1>1 DEF FundsInv, Shape, Transfers
  <1>8. Up' => OneSweep'
    BY <1>7 DEF BankInv, Up, OneSweep, On
  <1>9. Up' => WithinEarned'
    BY <1>7 DEF BankInv, Up, WithinEarned, Leaves, On, At
  <1>10. QED
    BY <1>5, <1>6, <1>8, <1>9 DEF BankInv

LEMMA ChainKeepsBank == ASSUME FundsInv, BankInv, NEW x \in Transfers, Land(x) \/ Expire(x) PROVE BankInv'
  <1>1. CASE Expire(x)
    BY <1>1, RefusingKeepsBank DEF Expire
  <1>2. CASE Land(x) /\ chain' = [chain EXCEPT ![x] = "broken"] /\ UNCHANGED <<bal, tokens, swept>>
    BY <1>2, RefusingKeepsBank DEF Land
  <1>3. CASE Land(x) /\ ~(chain' = [chain EXCEPT ![x] = "broken"] /\ UNCHANGED <<bal, tokens, swept>>)
    <2>1. CASE x \in Sweeps
      <3>1. bal' = [bal EXCEPT !["trading"] = @ - transfer[x].amount, !["vault"] = @ + transfer[x].amount]
        BY <1>3, <2>1 DEF Land, Source
      <3>2. QED
        BY <1>3, <2>1, <3>1, SweepLands DEF Land
    <2>2. CASE x \notin Sweeps
      <3>1. x \in Steps
        BY <2>2 DEF Transfers
      <3>2. QED
        BY <1>3, <2>2, <3>1, WithdrawalLands DEF Land
    <2>3. QED
      BY <2>1, <2>2
  <1>4. QED
    BY <1>1, <1>2, <1>3

-----------------------------------------------------------------------------
LEMMA NextBankInv == FundsInv /\ BankInv /\ [FundsNext]_fundsVars => BankInv'
  <1> SUFFICES ASSUME FundsInv, BankInv, [FundsNext]_fundsVars PROVE BankInv'
    OBVIOUS
  <1>1. CASE Lease
    BY <1>1, QuietKeepsBank DEF Lease, BankInv, MachineTypes
  <1>2. ASSUME NEW t \in Trades, LandTrade(t) \/ EndTrade(t) \/ Intend(t) PROVE BankInv'
    <2>1. CASE LandTrade(t)
      BY <2>1, TradesKeepBank
    <2>2. CASE EndTrade(t) \/ Intend(t)
      <3>1. UNCHANGED <<bal, tokens, transfer, chain, handler, banker, swept, faults>>
        BY <2>2 DEF EndTrade, Intend
      <3>2. MachineTypes'
        BY <2>2 DEF EndTrade, Intend, BankInv, MachineTypes
      <3>3. QED
        BY <3>1, <3>2, QuietKeepsBank
    <2>3. QED
      BY <1>2, <2>1, <2>2
  <1>3. ASSUME NEW to \in {"running", "paused", "stopped"}, Owner(to) PROVE BankInv'
    BY <1>3, QuietKeepsBank DEF Owner, BankInv, MachineTypes
  <1>4. CASE Candidate \/ Rest \/ RestartOrchestrator
    BY <1>4, LoopKeepsBank
  <1>5. ASSUME NEW h \in Handlers, Ask(h) PROVE BankInv'
    BY <1>5, AskKeepsBank
  <1>6. ASSUME NEW h \in Handlers, SignerStep(h) PROVE BankInv'
    <2>1. CASE Empty(h)
      <3>1. On(h) \in Steps
        BY <2>1 DEF Empty, On, FundsInv, Shape, IsRequest
      <3>2. QED
        BY <2>1, <3>1, WithdrawalsKeepBank
    <2>2. QED
      BY <1>6, <2>1, DecideKeepsBank, SendingKeepsBank DEF SignerStep
  <1>7. ASSUME NEW h \in Handlers, BuildFails(h) \/ Lose(h) PROVE BankInv'
    BY <1>7, SendingKeepsBank
  <1>8. ASSUME NEW h \in Handlers, NEW w \in Withdrawals, WithdrawEverything(h, w) \/ WithdrawFunds(h, w)
        PROVE  BankInv'
    BY <1>8, WithdrawalsKeepBank
  <1>9. ASSUME NEW x \in Transfers, Land(x) \/ Expire(x) PROVE BankInv'
    BY <1>9, ChainKeepsBank
  <1>10. CASE UNCHANGED fundsVars
    BY <1>10, QuietKeepsBank DEF fundsVars, BankInv, MachineTypes
  <1>11. QED
    BY <1>1, <1>2, <1>3, <1>4, <1>5, <1>6, <1>7, <1>8, <1>9, <1>10 DEF FundsNext

\* No account is ever drawn below nothing, and what the record holds of transfers and requests is of its type.
THEOREM FundsTypeCorrect == FundsSpec => []FundsTypeOK
  <1>1. FundsInv /\ BankInv => FundsTypeOK
    <2> SUFFICES ASSUME FundsInv, BankInv PROVE FundsTypeOK
      OBVIOUS
    <2>1. /\ lifecycle \in {"running", "paused", "stopped"} /\ leased \in BOOLEAN
          /\ \A t \in Trades : trade[t] \in {"none", "open", "landed", "completed", "failed"}
      BY DEF BankInv, MachineTypes
    <2>2. (\A a \in {"trading", "vault", "sol"} : bal[a] \in Nat) /\ tokens \in Nat
      BY DEF BankInv, Balances, Accounts
    <2>3. \A x \in Transfers :
              /\ transfer[x].ended \in {"no", "completed", "failed"}
              /\ transfer[x].submitted \/ transfer[x].ended # "no" => transfer[x].asked
              /\ chain[x] \in {"unknown", "sent", "landed", "broken", "expired"}
      BY DEF FundsInv, Shape, IsTransfer, Truth
    <2>4. \A h \in Handlers :
              /\ handler[h].pc \in {"free", "measured", "emptying", "building", "signed", "waiting"}
              /\ handler[h].pc # "free" => handler[h].on \in Transfers
      BY DEF FundsInv, Shape, IsRequest, Before, Since
    <2>5. banker.pc \in {"resting", "asking", "asked"}
      BY DEF FundsInv, Shape
    <2>6. QED
      BY <2>1, <2>2, <2>3, <2>4, <2>5 DEF FundsTypeOK
  <1>2. QED
    BY <1>1, InitFundsInv, InitBankInv, NextFundsInv, NextBankInv, PTL DEF FundsSpec

(* The same profit is never banked twice by an orchestrator that stays up  *)
(* (bank-profit.ts): whatever trades land, and whatever requests are lost  *)
(* or answered late between the reading of a balance and the landing of    *)
(* its sweep, what went into the vault is within what was once earned.     *)
THEOREM ProfitIsBankedOnce == FundsSpec => []BankedOnceWhileUp
  <1>1. BankInv => BankedOnceWhileUp
    <2> SUFFICES ASSUME BankInv, faults.orchestrator = 0 PROVE swept.moved <= swept.peak
      BY DEF BankedOnceWhileUp, NeverBankedTwice
    <2>1. Leaves(0) /\ swept.moved \in Nat /\ swept.peak \in Int
      BY DEF BankInv, Up, WithinEarned, Balances
    <2>2. QED
      BY <2>1 DEF Leaves
  <1>2. QED
    BY <1>1, InitFundsInv, InitBankInv, NextFundsInv, NextBankInv, PTL DEF FundsSpec
=============================================================================
