------------------------------ MODULE SetFacts -----------------------------
(***************************************************************************)
(* Facts about finite sets: MapThenSumSet, the sum of a weight, which the  *)
(* ledger and the provider's books are stated with; least elements; and    *)
(* SetToSeq.  The sum is an iterated choice of elements; the lemmas show   *)
(* that it exists, does not depend on the choice, and grows by the weight  *)
(* of an element.  Induction is by a minimal counterexample among the      *)
(* subsets of a finite set, so that no lemma takes an operator as a        *)
(* parameter.                                                              *)
(***************************************************************************)
EXTENDS SequencesExt, FiniteSetTheorems, TLAPS

(* The element an iteration over s takes first. *)
First(s) == CHOOSE x \in s : TRUE

(* g is the iteration of MapThenSumSet over the subsets of S, for the       *)
(* weight w (a function).                                                   *)
IsIteration(g, w, S) ==
    g = [s \in SUBSET S |->
           IF s = {} THEN 0 ELSE w[First(s)] + g[s \ {First(s)}]]

SumOver(w, S) == (CHOOSE g : IsIteration(g, w, S))[S]

Weights(S) == [S -> Nat]

-----------------------------------------------------------------------------
(* A nonempty set of subsets of a finite set has a minimal element.         *)
LEMMA MinimalSubset ==
    ASSUME NEW S, IsFiniteSet(S), NEW B, B \subseteq SUBSET S, B # {}
    PROVE  \E m \in B : \A y \in B : y \subseteq m => y = m
<1>1. IsWellFoundedOn(StrictSubsetOrdering(S), FiniteSubsetsOf(S))
  BY FS_StrictSubsetOrderingWellFounded
<1>2. FiniteSubsetsOf(S) = SUBSET S
  BY FS_FiniteSubsetsOfFinite
<1>3. \E m \in B : \A y \in B : ~ (<<y, m>> \in StrictSubsetOrdering(S))
  BY <1>1, <1>2, WFMin
<1>4. \A m, y \in B : <<y, m>> \in StrictSubsetOrdering(S)
                        <=> y \subseteq m /\ y # m
  BY DEF StrictSubsetOrdering
<1>5. QED
  BY <1>3, <1>4

LEMMA FirstIn ==
    ASSUME NEW s, s # {}
    PROVE  First(s) \in s
BY DEF First

(* Two iterations agree on the subsets they share. *)
LEMMA IterationUnique ==
    ASSUME NEW S, IsFiniteSet(S), NEW T, T \subseteq S, NEW w,
           NEW g, IsIteration(g, w, S), NEW h, IsIteration(h, w, T)
    PROVE  \A s \in SUBSET T : g[s] = h[s]
<1> DEFINE B == {s \in SUBSET T : g[s] # h[s]}
<1> SUFFICES ASSUME B # {}
             PROVE  FALSE
  OBVIOUS
<1>1. PICK m \in B : \A y \in B : y \subseteq m => y = m
  <2>1. IsFiniteSet(T) /\ B \subseteq SUBSET T /\ B # {}
    BY FS_Subset
  <2> HIDE DEF B
  <2>2. QED
    BY <2>1, MinimalSubset
<1>2. /\ g[m] = IF m = {} THEN 0 ELSE w[First(m)] + g[m \ {First(m)}]
      /\ h[m] = IF m = {} THEN 0 ELSE w[First(m)] + h[m \ {First(m)}]
  BY DEF IsIteration
<1>3. CASE m = {}
  BY <1>2, <1>3
<1>4. CASE m # {}
  <2> DEFINE r == m \ {First(m)}
  <2>1. r \subseteq m /\ r # m
    BY <1>4, FirstIn
  <2>2. g[r] = h[r]
    BY <1>1, <2>1
  <2>3. QED
    BY <1>2, <1>4, <2>2
<1>5. QED
  BY <1>3, <1>4

(* The iteration over a subset is the restriction of the one over the set.  *)
LEMMA IterationRestricts ==
    ASSUME NEW S, NEW T, T \subseteq S, NEW w, NEW g, IsIteration(g, w, S)
    PROVE  IsIteration([s \in SUBSET T |-> g[s]], w, T)
<1> DEFINE h == [s \in SUBSET T |-> g[s]]
<1>1. \A s \in SUBSET T :
        h[s] = IF s = {} THEN 0 ELSE w[First(s)] + h[s \ {First(s)}]
  <2> SUFFICES ASSUME NEW s \in SUBSET T
               PROVE  h[s] = IF s = {} THEN 0
                             ELSE w[First(s)] + h[s \ {First(s)}]
    OBVIOUS
  <2>1. s \in SUBSET S /\ s \ {First(s)} \in SUBSET T
    OBVIOUS
  <2>2. g[s] = IF s = {} THEN 0 ELSE w[First(s)] + g[s \ {First(s)}]
    BY <2>1 DEF IsIteration
  <2>3. QED
    BY <2>1, <2>2
<1>2. QED
  BY <1>1 DEF IsIteration

(* Where an iteration exists, the sum is its value. *)
LEMMA SumIsIterated ==
    ASSUME NEW S, IsFiniteSet(S), NEW w, NEW g, IsIteration(g, w, S),
           NEW T, T \subseteq S
    PROVE  SumOver(w, T) = g[T]
<1> DEFINE h == CHOOSE f : IsIteration(f, w, T)
<1>1. IsIteration([s \in SUBSET T |-> g[s]], w, T)
  BY IterationRestricts
<1>2. IsIteration(h, w, T)
  BY <1>1, Zenon
<1> HIDE DEF h
<1>3. \A s \in SUBSET T : g[s] = h[s]
  BY <1>2, IterationUnique
<1>4. SumOver(w, T) = h[T]
  BY DEF SumOver, h
<1>5. QED
  BY <1>3, <1>4

(* An iteration exists over every finite set. *)
LEMMA IterationExists ==
    ASSUME NEW S, IsFiniteSet(S), NEW w
    PROVE  \E g : IsIteration(g, w, S)
<1> DEFINE B == {s \in SUBSET S : ~ \E g : IsIteration(g, w, s)}
<1> SUFFICES ASSUME B # {}
             PROVE  FALSE
  OBVIOUS
<1>1. PICK m \in B : \A y \in B : y \subseteq m => y = m
  <2>1. B \subseteq SUBSET S /\ B # {}
    OBVIOUS
  <2> HIDE DEF B
  <2>2. QED
    BY <2>1, MinimalSubset
<1>2. m \subseteq S /\ IsFiniteSet(m) /\ ~ \E g : IsIteration(g, w, m)
  BY FS_Subset
<1>3. ASSUME NEW t \in SUBSET m, t # m
      PROVE  SumOver(w, t) = IF t = {} THEN 0
                             ELSE w[First(t)] + SumOver(w, t \ {First(t)})
  <2>1. PICK g : IsIteration(g, w, t)
    BY <1>1, <1>2, <1>3
  <2>2. IsFiniteSet(t) /\ t \ {First(t)} \subseteq t /\ t \in SUBSET t
    BY <1>2, FS_Subset
  <2>3. SumOver(w, t) = g[t] /\ SumOver(w, t \ {First(t)}) = g[t \ {First(t)}]
    BY <2>1, <2>2, SumIsIterated
  <2>4. g[t] = IF t = {} THEN 0 ELSE w[First(t)] + g[t \ {First(t)}]
    BY <2>1, <2>2 DEF IsIteration
  <2>5. QED
    BY <2>3, <2>4
<1> DEFINE f == [s \in SUBSET m |->
                   IF s = {} THEN 0
                   ELSE w[First(s)] + SumOver(w, s \ {First(s)})]
<1>4. \A s \in SUBSET m :
        f[s] = IF s = {} THEN 0 ELSE w[First(s)] + f[s \ {First(s)}]
  <2> SUFFICES ASSUME NEW s \in SUBSET m, s # {}
               PROVE  f[s \ {First(s)}] = SumOver(w, s \ {First(s)})
    OBVIOUS
  <2>1. s \ {First(s)} \in SUBSET m /\ s \ {First(s)} # m
    BY FirstIn
  <2>2. QED
    BY <1>3, <2>1
<1>5. IsIteration(f, w, m)
  BY <1>4 DEF IsIteration
<1>6. QED
  BY <1>2, <1>5, Zenon

(* So a sum unfolds along the choice of elements ... *)
LEMMA SumUnfolds ==
    ASSUME NEW S, IsFiniteSet(S), NEW w
    PROVE  SumOver(w, S) = IF S = {} THEN 0
                           ELSE w[First(S)] + SumOver(w, S \ {First(S)})
<1>1. PICK g : IsIteration(g, w, S)
  BY IterationExists
<1>2. SumOver(w, S) = g[S] /\ SumOver(w, S \ {First(S)}) = g[S \ {First(S)}]
  BY <1>1, SumIsIterated
<1>3. g[S] = IF S = {} THEN 0 ELSE w[First(S)] + g[S \ {First(S)}]
  <2>1. S \in SUBSET S
    OBVIOUS
  <2>2. QED
    BY <1>1, <2>1 DEF IsIteration
<1>4. QED
  BY <1>2, <1>3

(* ... is a natural number ... *)
LEMMA SumIsNatural ==
    ASSUME NEW S, IsFiniteSet(S), NEW w, \A x \in S : w[x] \in Nat
    PROVE  SumOver(w, S) \in Nat
<1> DEFINE B == {s \in SUBSET S : SumOver(w, s) \notin Nat}
<1> SUFFICES ASSUME B # {}
             PROVE  FALSE
  OBVIOUS
<1>1. PICK m \in B : \A y \in B : y \subseteq m => y = m
  <2>1. B \subseteq SUBSET S /\ B # {}
    OBVIOUS
  <2> HIDE DEF B
  <2>2. QED
    BY <2>1, MinimalSubset
<1>2. IsFiniteSet(m)
  BY FS_Subset
<1>3. SumOver(w, m) = IF m = {} THEN 0
                      ELSE w[First(m)] + SumOver(w, m \ {First(m)})
  BY <1>2, SumUnfolds
<1>4. CASE m = {}
  BY <1>3, <1>4
<1>5. CASE m # {}
  <2>1. First(m) \in m /\ m \ {First(m)} # m /\ m \ {First(m)} \subseteq m
    BY <1>5, FirstIn
  <2>2. w[First(m)] \in Nat /\ SumOver(w, m \ {First(m)}) \in Nat
    BY <1>1, <2>1
  <2>3. QED
    BY <1>3, <1>5, <2>2
<1>6. QED
  BY <1>4, <1>5

(* ... and grows by the weight of an element that is added, whichever       *)
(* element the choice takes first.                                          *)
LEMMA SumAddElement ==
    ASSUME NEW U, IsFiniteSet(U), NEW w, \A x \in U : w[x] \in Nat,
           NEW S, S \subseteq U, NEW e \in U, e \notin S
    PROVE  SumOver(w, S \cup {e}) = w[e] + SumOver(w, S)
<1> DEFINE B == {s \in SUBSET U :
                   \E x \in U \ s : SumOver(w, s \cup {x}) # w[x] + SumOver(w, s)}
<1> SUFFICES ASSUME B # {}
             PROVE  FALSE
  OBVIOUS
<1>1. PICK m \in B : \A y \in B : y \subseteq m => y = m
  <2>1. B \subseteq SUBSET U /\ B # {}
    OBVIOUS
  <2> HIDE DEF B
  <2>2. QED
    BY <2>1, MinimalSubset
<1>2. PICK x \in U \ m : SumOver(w, m \cup {x}) # w[x] + SumOver(w, m)
  OBVIOUS
<1>3. \A s \in SUBSET U : s \subseteq m /\ s # m =>
        \A y \in U \ s : SumOver(w, s \cup {y}) = w[y] + SumOver(w, s)
  BY <1>1
<1> DEFINE V == m \cup {x}
           c == First(V)
<1>4. c \in V /\ V \subseteq U /\ m \subseteq U /\ V # {}
  BY FirstIn
<1>5. IsFiniteSet(V) /\ IsFiniteSet(m) /\ IsFiniteSet(m \ {c})
  <2>1. m \ {c} \subseteq U
    BY <1>4
  <2>2. QED
    BY <1>4, <2>1, FS_Subset
<1>6. SumOver(w, V) = w[c] + SumOver(w, V \ {c})
  BY <1>4, <1>5, SumUnfolds
<1> HIDE DEF c, B
<1>7. CASE c = x
  <2>1. V \ {c} = m
    BY <1>7
  <2>2. QED
    BY <1>2, <1>6, <1>7, <2>1
<1>8. CASE c # x
  <2> DEFINE r == m \ {c}
  <2>1. /\ c \in m /\ r \in SUBSET U /\ r \subseteq m /\ r # m
        /\ c \in U \ r /\ x \in U \ r
        /\ V \ {c} = r \cup {x} /\ r \cup {c} = m
    BY <1>4, <1>8
  <2>2. /\ SumOver(w, r \cup {x}) = w[x] + SumOver(w, r)
        /\ SumOver(w, r \cup {c}) = w[c] + SumOver(w, r)
    BY <1>3, <2>1
  <2>3. SumOver(w, r) \in Nat /\ w[c] \in Nat /\ w[x] \in Nat
    <3>1. \A y \in r : w[y] \in Nat
      BY <2>1
    <3>2. QED
      BY <1>5, <2>1, <3>1, SumIsNatural
  <2> HIDE DEF r, V
  <2>4. SumOver(w, V) = w[x] + SumOver(w, m)
    <3>1. SumOver(w, V) = w[c] + (w[x] + SumOver(w, r))
      BY <1>6, <2>1, <2>2
    <3>2. SumOver(w, m) = w[c] + SumOver(w, r)
      BY <2>1, <2>2
    <3>3. QED
      BY <2>3, <3>1, <3>2
  <2>5. QED
    BY <1>2, <2>4 DEF V
<1>9. QED
  BY <1>7, <1>8

(* Taking an element away never makes a sum larger. *)
LEMMA SumRemoveElement ==
    ASSUME NEW S, IsFiniteSet(S), NEW w, \A x \in S : w[x] \in Nat, NEW e
    PROVE  SumOver(w, S \ {e}) <= SumOver(w, S)
<1> DEFINE r == S \ {e}
<1>1. IsFiniteSet(r) /\ r \subseteq S
  BY FS_Subset
<1>2. SumOver(w, r) \in Nat /\ SumOver(w, S) \in Nat
  BY <1>1, SumIsNatural
<1>3. CASE e \in S
  <2>1. r \cup {e} = S /\ e \notin r
    BY <1>3
  <2>2. SumOver(w, r \cup {e}) = w[e] + SumOver(w, r)
    BY <1>1, <1>3, <2>1, SumAddElement
  <2>3. w[e] \in Nat
    BY <1>3
  <2> HIDE DEF r
  <2>4. SumOver(w, r) <= SumOver(w, S)
    BY <1>2, <2>1, <2>2, <2>3
  <2>5. QED
    BY <2>4 DEF r
<1>4. CASE e \notin S
  <2>1. r = S
    BY <1>4
  <2>2. QED
    BY <1>2, <2>1
<1>5. QED
  BY <1>3, <1>4

-----------------------------------------------------------------------------
(* Least elements. *)

(* Some natural numbers up to n, if there are any, have a least one.        *)
LEMMA LeastPlace ==
    ASSUME NEW n \in Nat, NEW S, S \subseteq 1..n, S # {}
    PROVE  \E i \in S : \A j \in S : i <= j
<1> DEFINE B == {1..i : i \in S}
<1>1. PICK N : N = 1..n
  OBVIOUS
<1>2. PICK m \in B : \A y \in B : y \subseteq m => y = m
  <2>1. IsFiniteSet(N)
    BY <1>1, FS_Interval
  <2>2. \A i \in S : 1..i \subseteq N
    BY <1>1
  <2>3. B \subseteq SUBSET N
    BY <2>2
  <2>4. B # {}
    OBVIOUS
  <2> HIDE DEF B
  <2>5. QED
    BY <2>1, <2>3, <2>4, MinimalSubset
<1>3. PICK i \in S : m = 1..i
  BY <1>2
<1>4. ASSUME NEW j \in S PROVE i <= j
  <2>1. i \in Nat \ {0} /\ j \in Nat \ {0}
    OBVIOUS
  <2>2. CASE j < i
    <3>1. 1..j \in B /\ 1..j \subseteq 1..i
      BY <2>1, <2>2
    <3>2. 1..j = 1..i
      BY <3>1, <1>2, <1>3
    <3>3. i \in 1..j
      BY <3>2, <2>1
    <3>4. QED
      BY <3>3, <2>1, <2>2
  <2>3. QED
    BY <2>1, <2>2
<1>5. QED
  BY <1>4

-----------------------------------------------------------------------------
(* Listing a set, and appending the list. *)

(* SetToSeq lists the elements of a finite set. *)
LEMMA Listed ==
    ASSUME NEW S, IsFiniteSet(S)
    PROVE  /\ SetToSeq(S) \in [1..Cardinality(S) -> S] /\ Cardinality(S) \in Nat
           /\ \A x \in S : \E i \in 1..Cardinality(S) : SetToSeq(S)[i] = x
<1>1. Cardinality(S) \in Nat /\ ExistsBijection(1..Cardinality(S), S)
  BY FS_CardinalityType
<1>2. PICK n \in Nat : n = Cardinality(S)
  BY <1>1
<1>3. \E f \in [1..n -> S] : IsInjective(f)
  BY <1>1, <1>2 DEF ExistsBijection, Bijection, Injection
<1>4. PICK f : f = SetToSeq(S)
  OBVIOUS
<1>5. f \in [1..n -> S] /\ IsInjective(f)
  BY <1>2, <1>3, <1>4 DEF SetToSeq
<1>6. f \in Injection(1..n, S)
  BY <1>5 DEF Injection
<1>7. IsFiniteSet(1..n) /\ Cardinality(1..n) = n
  BY FS_Interval
<1>8. f \in Surjection(1..n, S)
  BY <1>2, <1>6, <1>7, FS_Injection
<1>9. QED
  BY <1>2, <1>4, <1>5, <1>8 DEF Surjection

(* What is appended comes after the rest. *)
LEMMA Appended ==
    ASSUME NEW X, NEW s \in Seq(X), NEW t \in Seq(X), NEW m \in Nat, NEW n \in Nat,
           m = Len(s), n = Len(t)
    PROVE  /\ s \o t \in Seq(X) /\ DOMAIN s = 1..m /\ DOMAIN (s \o t) = 1..(m + n)
           /\ \A i \in 1..m : (s \o t)[i] = s[i]
           /\ \A i \in (m + 1)..(m + n) : (s \o t)[i] = t[i - m]
<1>1. s \o t \in Seq(X) /\ Len(s \o t) = m + n
  OBVIOUS
<1>2. DOMAIN s = 1..m /\ DOMAIN (s \o t) = 1..(m + n)
  BY <1>1
<1>3. \A i \in 1..m : (s \o t)[i] = s[i]
  OBVIOUS
<1>4. \A i \in (m + 1)..(m + n) : (s \o t)[i] = t[i - m]
  OBVIOUS
<1>5. QED
  BY <1>1, <1>2, <1>3, <1>4

===============================================================================
