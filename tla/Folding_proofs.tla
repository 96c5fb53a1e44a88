--------------------------- MODULE Folding_proofs ---------------------------
(***************************************************************************)
(* What the proofs need of sums and folds, for data of any size: that the  *)
(* community modules' folds, which are recursive over subsets, take one    *)
(* more element by one more step.  The induction is over the size of what  *)
(* is folded, as the absence of a least counterexample.                    *)
(***************************************************************************)
EXTENDS Integers, SequencesExt, FiniteSetTheorems, WellFoundedInduction, TLAPS

LEMMA LeastOf == ASSUME NEW T \in SUBSET Nat, T # {} PROVE \E m \in T : \A n \in T : m <= n
  <1> DEFINE R == OpToRel(<, Nat)
  <1>1. IsWellFoundedOn(R, Nat)
    BY NatLessThanWellFounded
  <1>2. \A m, n \in Nat : n < m => <<n, m>> \in R
    BY DEF OpToRel
  <1> HIDE DEF R
  <1>3. PICK m \in T : \A n \in T : ~(<<n, m>> \in R)
    BY <1>1, WFMin
  <1>4. ASSUME NEW n \in T PROVE m <= n
    <2>1. ~(n < m)
      BY <1>2, <1>3
    <2>2. m \in Nat /\ n \in Nat
      OBVIOUS
    <2>3. QED
      BY <2>1, <2>2
  <1>5. QED
    BY <1>4

UpTo(U, n) == {s \in SUBSET U : Cardinality(s) <= n}

LEMMA Removed ==
    ASSUME NEW U, IsFiniteSet(U), NEW s \in SUBSET U
    PROVE  /\ IsFiniteSet(s) /\ Cardinality(s) \in Nat /\ (Cardinality(s) = 0 <=> s = {})
           /\ \A k \in s : Cardinality(s \ {k}) = Cardinality(s) - 1
  <1>1. IsFiniteSet(s)
    BY FS_Subset
  <1>2. QED
    BY <1>1, FS_CardinalityType, FS_EmptySet, FS_RemoveElement

-----------------------------------------------------------------------------
(* Sums over finite sets.                                                  *)

SumOver(c, S) == MapThenSumSet(LAMBDA k : c[k], S)

\* What adds each of the elements of a subset once, whatever order they are taken in.
IsSum(F, c, subsets) ==
    /\ F \in [subsets -> Int] /\ F[{}] = 0
    /\ \A s \in subsets : \A k \in s : F[s] = c[k] + F[s \ {k}]

LEMMA SumsExist ==
    ASSUME NEW U, IsFiniteSet(U), NEW c, \A k \in U : c[k] \in Int
    PROVE  \E F : IsSum(F, c, SUBSET U)
  <1> DEFINE Exists(n) == \E F : IsSum(F, c, UpTo(U, n))
             none == {n \in Nat : ~Exists(n)}
  <1>1. Exists(0)
    <2> DEFINE F == [s \in UpTo(U, 0) |-> 0]
    <2>1. UpTo(U, 0) = {{}}
      BY Removed DEF UpTo
    <2>2. IsSum(F, c, UpTo(U, 0))
      BY <2>1 DEF IsSum
    <2>3. QED
      BY <2>2
  <1>2. ASSUME NEW n \in Nat, Exists(n) PROVE Exists(n + 1)
    <2>1. PICK F : IsSum(F, c, UpTo(U, n))
      BY <1>2
    <2> DEFINE G == [s \in UpTo(U, n + 1) |->
                        IF s = {} THEN 0 ELSE c[CHOOSE x \in s : TRUE] + F[s \ {CHOOSE x \in s : TRUE}]]
    <2>2. ASSUME NEW s \in UpTo(U, n + 1), NEW k \in s
          PROVE  s \ {k} \in UpTo(U, n) /\ s \ {k} \in UpTo(U, n + 1) /\ c[k] \in Int
      <3>1. s \in SUBSET U /\ Cardinality(s) <= n + 1 /\ Cardinality(s) \in Nat /\ Cardinality(s \ {k}) = Cardinality(s) - 1
        BY Removed DEF UpTo
      <3>2. QED
        BY <3>1 DEF UpTo
    <2>3. ASSUME NEW s \in UpTo(U, n + 1), NEW k \in s PROVE G[s] = c[k] + F[s \ {k}]
      <3> DEFINE x == CHOOSE x \in s : TRUE
      <3>1. x \in s /\ G[s] = c[x] + F[s \ {x}]
        OBVIOUS
      <3> HIDE DEF x
      <3>2. CASE x = k
        BY <3>1, <3>2
      <3>3. CASE x # k
        <4>1. /\ s \ {x} \in UpTo(U, n) /\ s \ {k} \in UpTo(U, n) /\ k \in s \ {x} /\ x \in s \ {k}
              /\ c[x] \in Int /\ c[k] \in Int
          BY <2>2, <3>1, <3>3
        <4>2. (s \ {x}) \ {k} = (s \ {k}) \ {x} /\ (s \ {k}) \ {x} \in UpTo(U, n)
          <5>1. (s \ {x}) \ {k} = (s \ {k}) \ {x}
            OBVIOUS
          <5>2. s \ {k} \in SUBSET U /\ Cardinality(s \ {k}) <= n
            BY <4>1 DEF UpTo
          <5>3. Cardinality((s \ {k}) \ {x}) = Cardinality(s \ {k}) - 1 /\ Cardinality(s \ {k}) \in Nat
            BY <4>1, <5>2, Removed
          <5>4. QED
            BY <5>1, <5>2, <5>3 DEF UpTo
        <4> DEFINE rest == F[(s \ {k}) \ {x}]
        <4>3. rest \in Int /\ F[s \ {k}] = c[x] + rest
          BY <2>1, <4>1, <4>2 DEF IsSum
        <4>4. F[s \ {x}] = c[k] + rest
          <5>1. F[s \ {x}] = c[k] + F[(s \ {x}) \ {k}]
            BY <2>1, <4>1 DEF IsSum
          <5>2. QED
            BY <4>2, <5>1
        <4> HIDE DEF rest
        <4>5. G[s] = c[x] + (c[k] + rest) /\ c[k] + (c[x] + rest) = c[x] + (c[k] + rest)
          BY <3>1, <4>1, <4>3, <4>4
        <4>6. QED
          BY <4>3, <4>5
      <3>4. QED
        BY <3>2, <3>3
    <2>4. ASSUME NEW s \in UpTo(U, n) PROVE s \in UpTo(U, n + 1) /\ F[s] \in Int
      BY <2>1, Removed DEF UpTo, IsSum
    <2>5. G[{}] = 0 /\ {} \in UpTo(U, n + 1)
      BY FS_EmptySet DEF UpTo
    <2> HIDE DEF G
    <2>6. ASSUME NEW s \in UpTo(U, n) PROVE G[s] = F[s]
      <3>1. CASE s = {}
        BY <2>1, <2>5, <3>1 DEF IsSum
      <3>2. CASE s # {}
        <4>1. PICK k \in s : TRUE
          BY <3>2
        <4>2. QED
          BY <2>1, <2>3, <2>4, <4>1 DEF IsSum
      <3>3. QED
        BY <3>1, <3>2
    <2>7. ASSUME NEW s \in UpTo(U, n + 1), NEW k \in s PROVE G[s] = c[k] + G[s \ {k}]
      BY <2>2, <2>3, <2>6
    <2>8. G \in [UpTo(U, n + 1) -> Int]
      <3>1. ASSUME NEW s \in UpTo(U, n + 1) PROVE G[s] \in Int
        <4>1. CASE s = {}
          BY <2>5, <4>1
        <4>2. CASE s # {}
          <5>1. PICK k \in s : TRUE
            BY <4>2
          <5>2. s \ {k} \in UpTo(U, n) /\ c[k] \in Int
            BY <2>2, <5>1
          <5>3. G[s] = c[k] + F[s \ {k}] /\ F[s \ {k}] \in Int
            BY <2>3, <2>4, <5>1, <5>2
          <5>4. QED
            BY <5>2, <5>3
        <4>3. QED
          BY <4>1, <4>2
      <3>2. QED
        BY <3>1 DEF G
    <2>9. IsSum(G, c, UpTo(U, n + 1))
      BY <2>5, <2>7, <2>8 DEF IsSum
    <2>10. QED
      BY <2>9
  <1> HIDE DEF Exists
  <1>3. none = {}
    <2> SUFFICES ASSUME none # {} PROVE FALSE
      OBVIOUS
    <2>1. PICK m \in none : \A n \in none : m <= n
      BY LeastOf
    <2>2. m # 0 /\ m - 1 \in Nat /\ m - 1 \notin none
      BY <1>1, <2>1
    <2>3. Exists((m - 1) + 1) /\ (m - 1) + 1 = m
      BY <1>2, <2>2
    <2>4. QED
      BY <2>1, <2>3
  <1>4. Cardinality(U) \in Nat /\ UpTo(U, Cardinality(U)) = SUBSET U
    BY FS_CardinalityType, FS_Subset DEF UpTo
  <1>5. Exists(Cardinality(U))
    BY <1>3, <1>4
  <1>6. QED
    BY <1>4, <1>5 DEF Exists

\* The community modules' fold takes the elements in some order.
LEMMA SumIsTheFold ==
    ASSUME NEW U, IsFiniteSet(U), NEW c, NEW F, IsSum(F, c, SUBSET U)
    PROVE  SumOver(c, U) = F[U]
  <1> DEFINE Step(f) == [s \in SUBSET U |-> IF s = {} THEN 0
                                            ELSE LET x == CHOOSE x \in s : TRUE IN c[x] + f[s \ {x}]]
             iter == CHOOSE f : f = Step(f)
  <1>1. SumOver(c, U) = iter[U]
    BY DEF SumOver, MapThenSumSet, MapThenFoldSet
  <1>2. F = Step(F)
    <2>1. F \in [SUBSET U -> Int] /\ F[{}] = 0
      BY DEF IsSum
    <2>2. ASSUME NEW s \in SUBSET U, s # {}
          PROVE  F[s] = c[CHOOSE x \in s : TRUE] + F[s \ {CHOOSE x \in s : TRUE}]
      <3>1. (CHOOSE x \in s : TRUE) \in s
        BY <2>2
      <3>2. QED
        BY <3>1 DEF IsSum
    <2>3. QED
      BY <2>1, <2>2
  <1>3. iter = Step(iter)
    BY <1>2
  <1> HIDE DEF iter
  <1> DEFINE differ == {n \in Nat : \E s \in SUBSET U : Cardinality(s) = n /\ iter[s] # F[s]}
  <1>4. differ = {}
    <2> SUFFICES ASSUME differ # {} PROVE FALSE
      OBVIOUS
    <2>1. PICK m \in differ : \A n \in differ : m <= n
      BY LeastOf
    <2>2. PICK s \in SUBSET U : Cardinality(s) = m /\ iter[s] # F[s]
      BY <2>1
    <2>3. CASE s = {}
      BY <1>3, <2>2, <2>3 DEF IsSum
    <2>4. CASE s # {}
      <3> DEFINE x == CHOOSE x \in s : TRUE
      <3>1. x \in s
        BY <2>4
      <3>2. iter[s] = c[x] + iter[s \ {x}]
        BY <1>3, <2>4
      <3> HIDE DEF x
      <3>3. Cardinality(s \ {x}) = m - 1 /\ m \in Nat /\ Cardinality(s \ {x}) \in Nat
        BY <2>2, <3>1, Removed
      <3>4. m - 1 \notin differ
        BY <2>1, <3>3
      <3>5. iter[s \ {x}] = F[s \ {x}]
        BY <3>3, <3>4
      <3>6. F[s] = c[x] + F[s \ {x}]
        BY <3>1 DEF IsSum
      <3>7. QED
        BY <2>2, <3>2, <3>5, <3>6
    <2>5. QED
      BY <2>3, <2>4
  <1>5. Cardinality(U) \in Nat
    BY FS_CardinalityType
  <1>6. QED
    BY <1>1, <1>4, <1>5

LEMMA SumOfNothing == ASSUME NEW c PROVE SumOver(c, {}) = 0
  <1>1. PICK F : IsSum(F, c, SUBSET {})
    BY FS_EmptySet, SumsExist
  <1>2. QED
    BY <1>1, FS_EmptySet, SumIsTheFold DEF IsSum

LEMMA SumOfOneMore ==
    ASSUME NEW U, IsFiniteSet(U), NEW c, \A k \in U : c[k] \in Int, NEW k \in U
    PROVE  /\ SumOver(c, U) = c[k] + SumOver(c, U \ {k})
           /\ SumOver(c, U) \in Int /\ SumOver(c, U \ {k}) \in Int
  <1> DEFINE V == U \ {k}
  <1>1. PICK F : IsSum(F, c, SUBSET U)
    BY SumsExist
  <1> DEFINE G == [s \in SUBSET V |-> F[s]]
  <1>2. IsSum(G, c, SUBSET V) /\ G[V] = F[V]
    BY <1>1 DEF IsSum
  <1>3. IsFiniteSet(V)
    BY FS_Subset
  <1> HIDE DEF G
  <1>4. SumOver(c, U) = F[U] /\ SumOver(c, V) = F[V]
    BY <1>1, <1>2, <1>3, SumIsTheFold
  <1>5. F[U] = c[k] + F[V] /\ F[U] \in Int /\ F[V] \in Int
    BY <1>1 DEF IsSum
  <1>6. QED
    BY <1>4, <1>5

LEMMA SumOfTheSame ==
    ASSUME NEW U, IsFiniteSet(U), NEW c, NEW d, \A k \in U : c[k] \in Int /\ d[k] = c[k]
    PROVE  SumOver(d, U) = SumOver(c, U)
  <1>1. PICK F : IsSum(F, c, SUBSET U)
    BY SumsExist
  <1>2. IsSum(F, d, SUBSET U)
    BY <1>1 DEF IsSum
  <1>3. QED
    BY <1>1, <1>2, SumIsTheFold

-----------------------------------------------------------------------------
(* Folds over sequences, from the left.                                    *)

LEMMA LastOf ==
    ASSUME NEW n \in Nat, NEW s \in SUBSET (1 .. n), s # {}
    PROVE  Max(s) \in s /\ \A k \in s : k <= Max(s)
  <1> DEFINE T == {n - k : k \in s}
  <1>1. T \in SUBSET Nat /\ T # {}
    <2>1. \A k \in s : n - k \in Nat
      OBVIOUS
    <2>2. QED
      BY <2>1
  <1>2. PICK m \in T : \A k \in T : m <= k
    BY <1>1, LeastOf
  <1>3. PICK x \in s : m = n - x
    BY <1>2
  <1>4. ASSUME NEW k \in s PROVE k <= x
    <2>1. n - k \in T /\ k \in Int /\ x \in Int
      OBVIOUS
    <2>2. n - x <= n - k
      BY <1>2, <1>3, <2>1
    <2>3. QED
      BY <2>1, <2>2
  <1>5. \E y \in s : \A k \in s : y >= k
    BY <1>4
  <1>6. QED
    BY <1>5 DEF Max

\* What a step makes of each set of places, taking the last of them last.
IsFold(F, States, step, base, seq) ==
    /\ F \in [SUBSET DOMAIN seq -> States] /\ F[{}] = base
    /\ \A s \in SUBSET DOMAIN seq : s # {} => F[s] = step[F[s \ {Max(s)}], seq[Max(s)]]

FoldTo(States, step, base, seq) == (CHOOSE F : IsFold(F, States, step, base, seq))[DOMAIN seq]

LEMMA PlacesOfAll ==
    ASSUME NEW Events, NEW seq \in Seq(Events)
    PROVE  /\ DOMAIN seq = 1 .. Len(seq) /\ Len(seq) \in Nat /\ IsFiniteSet(DOMAIN seq)
           /\ Cardinality(DOMAIN seq) = Len(seq)
           /\ \A s \in SUBSET DOMAIN seq : s # {} => Max(s) \in s /\ seq[Max(s)] \in Events
  <1>1. DOMAIN seq = 1 .. Len(seq) /\ Len(seq) \in Nat
    OBVIOUS
  <1>2. IsFiniteSet(1 .. Len(seq)) /\ Cardinality(1 .. Len(seq)) = Len(seq)
    BY <1>1, FS_Interval
  <1>3. ASSUME NEW s \in SUBSET DOMAIN seq, s # {} PROVE Max(s) \in s /\ seq[Max(s)] \in Events
    <2>1. s \in SUBSET (1 .. Len(seq))
      BY <1>1
    <2>2. Max(s) \in s
      BY <1>1, <1>3, <2>1, LastOf
    <2>3. QED
      BY <1>1, <2>1, <2>2
  <1>4. QED
    BY <1>1, <1>2, <1>3

LEMMA FoldsExist ==
    ASSUME NEW States, NEW Events, NEW step \in [States \X Events -> States], NEW base \in States,
           NEW seq \in Seq(Events)
    PROVE  \E F : IsFold(F, States, step, base, seq)
  <1> DEFINE U == DOMAIN seq
             IsPart(F, n) ==
                 /\ F \in [UpTo(U, n) -> States] /\ F[{}] = base
                 /\ \A s \in UpTo(U, n) : s # {} => F[s] = step[F[s \ {Max(s)}], seq[Max(s)]]
             Exists(n) == \E F : IsPart(F, n)
             none == {n \in Nat : ~Exists(n)}
  <1>1. /\ IsFiniteSet(U) /\ Cardinality(U) \in Nat
        /\ \A s \in SUBSET U : s # {} => Max(s) \in s /\ seq[Max(s)] \in Events
    BY PlacesOfAll
  <1> HIDE DEF U
  <1>2. Exists(0)
    <2> DEFINE F == [s \in UpTo(U, 0) |-> base]
    <2>1. UpTo(U, 0) = {{}}
      BY <1>1, Removed DEF UpTo
    <2>2. IsPart(F, 0)
      BY <2>1
    <2>3. QED
      BY <2>2
  <1>3. ASSUME NEW n \in Nat, Exists(n) PROVE Exists(n + 1)
    <2>1. PICK F : IsPart(F, n)
      BY <1>3
    <2> DEFINE G == [s \in UpTo(U, n + 1) |-> IF s = {} THEN base ELSE step[F[s \ {Max(s)}], seq[Max(s)]]]
    <2>2. ASSUME NEW s \in UpTo(U, n + 1), s # {}
          PROVE  s \ {Max(s)} \in UpTo(U, n) /\ s \ {Max(s)} \in UpTo(U, n + 1) /\ seq[Max(s)] \in Events
      <3>1. s \in SUBSET U /\ Cardinality(s) <= n + 1 /\ Max(s) \in s /\ seq[Max(s)] \in Events
        BY <1>1, <2>2 DEF UpTo
      <3>2. Cardinality(s) \in Nat /\ Cardinality(s \ {Max(s)}) = Cardinality(s) - 1
        BY <1>1, <3>1, Removed
      <3>3. QED
        BY <3>1, <3>2 DEF UpTo
    <2>3. ASSUME NEW s \in UpTo(U, n) PROVE G[s] = F[s] /\ s \in UpTo(U, n + 1)
      <3>1. s \in UpTo(U, n + 1)
        BY <1>1, Removed DEF UpTo
      <3>2. QED
        BY <2>1, <3>1
    <2>4. ASSUME NEW s \in UpTo(U, n + 1) PROVE G[s] \in States
      <3>1. CASE s = {}
        BY <3>1
      <3>2. CASE s # {}
        <4>1. F[s \ {Max(s)}] \in States /\ seq[Max(s)] \in Events
          BY <2>1, <2>2, <3>2
        <4>2. QED
          BY <3>2, <4>1
      <3>3. QED
        BY <3>1, <3>2
    <2>5. G[{}] = base
      <3>1. {} \in UpTo(U, n + 1)
        BY FS_EmptySet DEF UpTo
      <3>2. QED
        BY <3>1
    <2>6. \A s \in UpTo(U, n + 1) : s # {} => G[s] = step[G[s \ {Max(s)}], seq[Max(s)]]
      BY <2>2, <2>3
    <2>7. G \in [UpTo(U, n + 1) -> States]
      BY <2>4
    <2> HIDE DEF G
    <2>8. IsPart(G, n + 1)
      BY <2>5, <2>6, <2>7
    <2>9. QED
      BY <2>8
  <1> HIDE DEF Exists
  <1>4. none = {}
    <2> SUFFICES ASSUME none # {} PROVE FALSE
      OBVIOUS
    <2>1. PICK m \in none : \A n \in none : m <= n
      BY LeastOf
    <2>2. m # 0 /\ m - 1 \in Nat /\ m - 1 \notin none
      BY <1>2, <2>1
    <2>3. Exists((m - 1) + 1) /\ (m - 1) + 1 = m
      BY <1>3, <2>2
    <2>4. QED
      BY <2>1, <2>3
  <1>5. Exists(Cardinality(U))
    BY <1>1, <1>4
  <1>6. UpTo(U, Cardinality(U)) = SUBSET U
    BY <1>1, FS_Subset DEF UpTo
  <1>7. QED
    BY <1>5, <1>6 DEF Exists, IsFold, U

\* The least set on which two recursions differ would have a largest place to take away.
Alike(F, G, seq) ==
    /\ F[{}] = G[{}]
    /\ \A s \in SUBSET DOMAIN seq : s # {} /\ F[s \ {Max(s)}] = G[s \ {Max(s)}] => F[s] = G[s]

LEMMA SameOnAll ==
    ASSUME NEW Events, NEW seq \in Seq(Events), NEW F, NEW G, Alike(F, G, seq)
    PROVE  \A s \in SUBSET DOMAIN seq : F[s] = G[s]
  <1> DEFINE U == DOMAIN seq
             differ == {n \in Nat : \E s \in SUBSET U : Cardinality(s) = n /\ F[s] # G[s]}
  <1>1. IsFiniteSet(U) /\ \A s \in SUBSET U : s # {} => Max(s) \in s
    BY PlacesOfAll
  <1> HIDE DEF U
  <1>2. differ = {}
    <2> SUFFICES ASSUME differ # {} PROVE FALSE
      OBVIOUS
    <2>1. PICK m \in differ : \A n \in differ : m <= n
      BY LeastOf
    <2>2. PICK s \in SUBSET U : Cardinality(s) = m /\ F[s] # G[s]
      BY <2>1
    <2>3. s # {} /\ Max(s) \in s
      <3>1. F[{}] = G[{}]
        BY DEF Alike
      <3>2. QED
        BY <1>1, <2>2, <3>1
    <2>4. Cardinality(s \ {Max(s)}) = m - 1 /\ m \in Nat /\ m - 1 \in Nat
      <3>1. Cardinality(s) \in Nat /\ Cardinality(s \ {Max(s)}) = Cardinality(s) - 1
        BY <1>1, <2>3, Removed
      <3>2. s \ {Max(s)} \in SUBSET U
        OBVIOUS
      <3>3. Cardinality(s \ {Max(s)}) \in Nat
        BY <1>1, <3>2, Removed
      <3>4. QED
        BY <2>2, <3>1, <3>3
    <2>5. m - 1 \notin differ
      BY <2>1, <2>4
    <2>6. F[s \ {Max(s)}] = G[s \ {Max(s)}]
      BY <2>4, <2>5
    <2>7. QED
      BY <2>2, <2>3, <2>6 DEF U, Alike
  <1>3. ASSUME NEW s \in SUBSET U PROVE F[s] = G[s]
    BY <1>1, <1>2, Removed DEF Alike
  <1>4. QED
    BY <1>3 DEF U

LEMMA TheFold ==
    ASSUME NEW States, NEW Events, NEW step \in [States \X Events -> States], NEW base \in States,
           NEW seq \in Seq(Events), NEW F, IsFold(F, States, step, base, seq)
    PROVE  FoldTo(States, step, base, seq) = F[DOMAIN seq] /\ F[DOMAIN seq] \in States
  <1> DEFINE G == CHOOSE G : IsFold(G, States, step, base, seq)
  <1>1. IsFold(G, States, step, base, seq)
    BY FoldsExist
  <1> HIDE DEF G
  <1>2. Alike(F, G, seq)
    BY <1>1 DEF IsFold, Alike
  <1>3. \A s \in SUBSET DOMAIN seq : F[s] = G[s]
    BY <1>2, SameOnAll
  <1>4. QED
    BY <1>3 DEF FoldTo, G, IsFold

LEMMA FoldOfNothing ==
    ASSUME NEW States, NEW Events, NEW step \in [States \X Events -> States], NEW base \in States
    PROVE  FoldTo(States, step, base, <<>>) = base
  <1> DEFINE seq == <<>>
  <1>1. seq \in Seq(Events) /\ DOMAIN seq = {}
    OBVIOUS
  <1> HIDE DEF seq
  <1>2. PICK F : IsFold(F, States, step, base, seq)
    BY <1>1, FoldsExist
  <1>3. FoldTo(States, step, base, seq) = F[DOMAIN seq] /\ F[DOMAIN seq] \in States
    BY <1>1, <1>2, TheFold
  <1>4. FoldTo(States, step, base, seq) = base
    BY <1>1, <1>2, <1>3 DEF IsFold
  <1>5. QED
    BY <1>4 DEF seq

LEMMA FoldOfOneMore ==
    ASSUME NEW States, NEW Events, NEW step \in [States \X Events -> States], NEW base \in States,
           NEW seq \in Seq(Events), NEW e \in Events
    PROVE  /\ FoldTo(States, step, base, Append(seq, e)) = step[FoldTo(States, step, base, seq), e]
           /\ FoldTo(States, step, base, Append(seq, e)) \in States /\ FoldTo(States, step, base, seq) \in States
  <1> DEFINE more == Append(seq, e)
             n == Len(seq)
  <1>1. /\ more \in Seq(Events) /\ DOMAIN more = 1 .. n + 1 /\ DOMAIN seq = 1 .. n /\ n \in Nat
        /\ more[n + 1] = e /\ \A k \in 1 .. n : more[k] = seq[k]
    OBVIOUS
  <1> HIDE DEF more, n
  <1>2. PICK F : IsFold(F, States, step, base, more)
    BY <1>1, FoldsExist
  <1> DEFINE G == [s \in SUBSET (1 .. n) |-> F[s]]
  <1>3. IsFold(G, States, step, base, seq)
    <2>1. SUBSET (1 .. n) \subseteq SUBSET (1 .. n + 1)
      BY <1>1
    <2>2. G \in [SUBSET (1 .. n) -> States] /\ G[{}] = base
      BY <1>1, <1>2, <2>1 DEF IsFold
    <2>3. ASSUME NEW s \in SUBSET (1 .. n), s # {} PROVE G[s] = step[G[s \ {Max(s)}], seq[Max(s)]]
      <3>1. Max(s) \in s /\ s \in SUBSET (1 .. n + 1) /\ s \ {Max(s)} \in SUBSET (1 .. n)
        BY <1>1, <2>1, <2>3, LastOf
      <3>2. F[s] = step[F[s \ {Max(s)}], more[Max(s)]]
        BY <1>1, <1>2, <2>3, <3>1 DEF IsFold
      <3>3. more[Max(s)] = seq[Max(s)]
        BY <1>1, <3>1
      <3>4. QED
        BY <3>1, <3>2, <3>3
    <2>4. QED
      BY <1>1, <2>2, <2>3 DEF IsFold
  <1>4. FoldTo(States, step, base, seq) = G[1 .. n] /\ G[1 .. n] = F[1 .. n] /\ G[1 .. n] \in States
    <2>1. FoldTo(States, step, base, seq) = G[DOMAIN seq] /\ G[DOMAIN seq] \in States
      BY <1>3, TheFold
    <2>2. QED
      BY <1>1, <2>1
  <1> HIDE DEF G
  <1>5. FoldTo(States, step, base, more) = F[1 .. n + 1] /\ F[1 .. n + 1] \in States
    <2>1. FoldTo(States, step, base, more) = F[DOMAIN more] /\ F[DOMAIN more] \in States
      BY <1>1, <1>2, TheFold
    <2>2. QED
      BY <1>1, <2>1
  <1>6. Max(1 .. n + 1) = n + 1 /\ (1 .. n + 1) \ {n + 1} = 1 .. n /\ 1 .. n + 1 # {}
    <2> DEFINE all == 1 .. n + 1
    <2>1. n + 1 \in Nat /\ n + 1 \in all /\ all \in SUBSET (1 .. n + 1)
      BY <1>1
    <2>2. \A k \in Int : k \in all \ {n + 1} <=> k \in 1 .. n
      BY <1>1
    <2>3. \A k \in all : k \in Int /\ k <= n + 1
      BY <1>1
    <2>4. all \ {n + 1} = 1 .. n
      BY <2>2, <2>3
    <2> HIDE DEF all
    <2>5. all # {}
      BY <2>1
    <2>6. Max(all) \in all /\ n + 1 <= Max(all)
      BY <2>1, <2>5, LastOf
    <2>7. Max(all) = n + 1
      <3>1. \A m \in Int : m <= n + 1 /\ n + 1 <= m => m = n + 1
        BY <1>1
      <3>2. QED
        BY <2>3, <2>6, <3>1
    <2>8. QED
      BY <2>4, <2>5, <2>7 DEF all
  <1>7. F[1 .. n + 1] = step[F[1 .. n], e]
    BY <1>1, <1>2, <1>6 DEF IsFold
  <1>8. QED
    BY <1>4, <1>5, <1>7 DEF more
=============================================================================
