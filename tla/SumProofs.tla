------------------------------ MODULE SumProofs ------------------------------
(***************************************************************************)
(* Sums over finite sets, as MapThenSumSet of the models forms them: bytes *)
(* of records and messages of batches.  The theorems on induction cannot   *)
(* be used with the provers at hand; each lemma takes a smallest           *)
(* counterexample instead.                                                 *)
(***************************************************************************)
EXTENDS Integers, FiniteSetsExt, FiniteSetTheorems, WellFoundedInduction, TLAPS

\* Some element of s.
Pick(s) == CHOOSE x \in s : TRUE

\* f gives the sum of w over every subset of T.
IsFold(f, w, T) ==
    f = [s \in SUBSET T |-> IF s = {} THEN 0 ELSE w[Pick(s)] + f[s \ {Pick(s)}]]

\* The sum of w over T.
Sum(w, T) == (CHOOSE f : IsFold(f, w, T))[T]

\* w gives a natural for each element of the finite set U, of which s is a part.
Weighted(w, U, s) == IsFiniteSet(U) /\ w \in [U -> Nat] /\ s \subseteq U

\* t is s without x, and s falls into a and b.
Removed(t, s, x) == x \in s /\ t = s \ {x}
Divided(s, a, b) == s = a \cup b /\ a \cap b = {}

-----------------------------------------------------------------------------
(* Smallest counterexamples.                                               *)

\* A set of naturals has a least element (the naturals are well-founded).
LEMMA Least ==
    ASSUME NEW S \in SUBSET Nat, S # {}
    PROVE  \E n \in S : \A m \in S : n <= m
  <1>1. PICK R : R = OpToRel(<, Nat)
    OBVIOUS
  <1>2. IsWellFoundedOn(R, Nat)
    BY <1>1, NatLessThanWellFounded
  <1>3. PICK n \in S : \A m \in S : ~ (<<m, n>> \in R)
    BY <1>2, WFMin
  <1>4. \A m \in S : m < n => <<m, n>> \in R
    BY <1>1 DEF OpToRel
  <1>5. ASSUME NEW m \in S PROVE n <= m
    <2>1. ~(m < n)
      BY <1>3, <1>4, Zenon
    <2>2. m \in Nat /\ n \in Nat
      OBVIOUS
    <2> QED BY <2>1, <2>2
  <1> QED BY <1>3, <1>5

\* Among subsets of a finite set there is one that contains no other.
LEMMA Minimal ==
    ASSUME NEW U, NEW Q \in SUBSET (SUBSET U), IsFiniteSet(U), Q # {}
    PROVE  \E s \in Q : \A t \in Q : t \subseteq s => t = s
  <1>1. \A s \in Q : IsFiniteSet(s) /\ Cardinality(s) \in Nat
    BY FS_Subset, FS_CardinalityType
  <1>2. PICK n \in {Cardinality(s) : s \in Q} : \A m \in {Cardinality(s) : s \in Q} : n <= m
    <2>1. {Cardinality(s) : s \in Q} \in SUBSET Nat
      BY <1>1
    <2>2. {Cardinality(s) : s \in Q} # {}
      OBVIOUS
    <2> QED BY <2>1, <2>2, Least
  <1>3. PICK s \in Q : n = Cardinality(s)
    BY <1>2
  <1>4. ASSUME NEW t \in Q, t \subseteq s PROVE t = s
    <2>1. Cardinality(s) <= Cardinality(t) /\ Cardinality(t) \in Nat /\ Cardinality(s) \in Nat
      BY <1>1, <1>2, <1>3
    <2>2. Cardinality(t) <= Cardinality(s)
      BY <1>1, <1>4, FS_Subset
    <2>3. Cardinality(t) = Cardinality(s)
      BY <2>1, <2>2
    <2> QED BY <1>1, <1>4, <2>3, FS_Subset
  <1> QED BY <1>3, <1>4

\* A finite set of naturals has a greatest element.
LEMMA Greatest ==
    ASSUME NEW S \in SUBSET Nat, IsFiniteSet(S), S # {}
    PROVE  \E m \in S : \A y \in S : m >= y
  <1> DEFINE Q == {t \in SUBSET S : t # {} /\ \A m \in t : \E y \in t : ~(m >= y)}
  <1>1. \A t : t \in Q <=> t \in SUBSET S /\ t # {} /\ \A m \in t : \E y \in t : ~(m >= y)
    OBVIOUS
  <1>2. SUFFICES ASSUME Q # {} PROVE FALSE
    BY <1>1
  <1> HIDE DEF Q
  <1>3. PICK s \in Q : \A t \in Q : t \subseteq s => t = s
    <2>1. Q \in SUBSET (SUBSET S)
      BY <1>1
    <2>2. PICK U : U = S
      OBVIOUS
    <2>3. IsFiniteSet(U) /\ Q \in SUBSET (SUBSET U)
      BY <2>1, <2>2
    <2> QED BY <1>2, <2>3, Minimal
  <1>4. s \in SUBSET S /\ s # {} /\ \A m \in s : \E y \in s : ~(m >= y)
    BY <1>1
  <1>5. PICK x \in s : TRUE
    BY <1>4
  <1>6. PICK t : t = s \ {x}
    OBVIOUS
  <1>7. t # s /\ t \subseteq s /\ t \in SUBSET S
    BY <1>4, <1>5, <1>6
  <1>8. t \notin Q
    BY <1>3, <1>7
  <1>9. x \in Nat
    BY <1>4, <1>5
  <1>10. CASE t = {}
    <2>1. s = {x}
      BY <1>5, <1>6, <1>10
    <2>2. x >= x
      BY <1>9
    <2> QED BY <1>4, <2>1, <2>2
  <1>11. CASE t # {}
    <2>1. PICK m \in t : \A y \in t : m >= y
      BY <1>1, <1>7, <1>8, <1>11
    <2>2. m \in Nat /\ m \in s /\ t \subseteq Nat
      BY <1>7, <2>1
    <2>3. CASE m >= x
      <3>1. \A y \in s : m >= y
        BY <1>6, <2>1, <2>3
      <3> QED BY <1>4, <2>2, <3>1
    <2>4. CASE x >= m
      <3>1. ASSUME NEW y \in t PROVE x >= y
        <4>1. m >= y /\ y \in Nat
          BY <2>1, <2>2
        <4> QED BY <1>9, <2>2, <2>4, <4>1
      <3>2. x >= x
        BY <1>9
      <3>3. \A y \in s : x >= y
        BY <1>6, <3>1, <3>2
      <3> QED BY <1>4, <1>5, <3>3
    <2> QED BY <1>9, <2>2, <2>3, <2>4
  <1> QED BY <1>10, <1>11

\* The element a fold takes out first.
LEMMA PickIn ==
    ASSUME NEW s, s # {}
    PROVE  Pick(s) \in s
  BY DEF Pick

-----------------------------------------------------------------------------
(* There is a sum, and only one.                                           *)

\* What a fold gives for a subset.
LEMMA FoldAt ==
    ASSUME NEW f, NEW w, NEW T, IsFold(f, w, T), NEW s \in SUBSET T
    PROVE  /\ s = {} => f[s] = 0
           /\ s # {} => f[s] = w[Pick(s)] + f[s \ {Pick(s)}]
  BY DEF IsFold

\* Folds agree where both are defined.
LEMMA FoldsAgree ==
    ASSUME NEW w, NEW f, NEW T, IsFold(f, w, T), NEW g, NEW V, IsFold(g, w, V),
           NEW s \in SUBSET T, s \in SUBSET V, IsFiniteSet(s)
    PROVE  f[s] = g[s]
  <1> DEFINE Q == {t \in SUBSET s : f[t] # g[t]}
  <1>1. SUFFICES ASSUME Q # {} PROVE FALSE
    OBVIOUS
  <1>2. PICK t \in Q : \A u \in Q : u \subseteq t => u = t
    <2>1. Q \in SUBSET (SUBSET s)
      OBVIOUS
    <2> HIDE DEF Q
    <2> QED BY <1>1, <2>1, Minimal
  <1>3. t \in SUBSET T /\ t \in SUBSET V /\ f[t] # g[t]
    BY <1>2
  <1>4. t # {}
    BY <1>3, FoldAt
  <1>5. Pick(t) \in t
    BY <1>4, PickIn
  <1>6. f[t \ {Pick(t)}] = g[t \ {Pick(t)}]
    BY <1>2, <1>5
  <1>7. f[t] = w[Pick(t)] + f[t \ {Pick(t)}] /\ g[t] = w[Pick(t)] + g[t \ {Pick(t)}]
    BY <1>3, <1>4, FoldAt
  <1> QED BY <1>3, <1>6, <1>7

\* Over a finite set there is such a function.
LEMMA FoldExists ==
    ASSUME NEW w, NEW U, IsFiniteSet(U)
    PROVE  \E f : IsFold(f, w, U)
  <1> DEFINE Q == {T \in SUBSET U : ~ \E f : IsFold(f, w, T)}
  <1>1. SUFFICES ASSUME Q # {} PROVE FALSE
    OBVIOUS
  <1>2. PICK T \in Q : \A V \in Q : V \subseteq T => V = T
    <2>1. Q \in SUBSET (SUBSET U)
      OBVIOUS
    <2> HIDE DEF Q
    <2> QED BY <1>1, <2>1, Minimal
  <1>3. \A V \in SUBSET T : IsFiniteSet(V)
    BY <1>2, FS_Subset
  <1> DEFINE F(V) == CHOOSE f : IsFold(f, w, V)
  <1>4. ASSUME NEW V \in SUBSET T, V # T PROVE IsFold(F(V), w, V)
    BY <1>2, <1>4
  <1> DEFINE g == [s \in SUBSET T |-> IF s = {} THEN 0
                                      ELSE w[Pick(s)] + F(s \ {Pick(s)})[s \ {Pick(s)}]]
  <1> HIDE DEF F, Q
  <1>5. ASSUME NEW s \in SUBSET T, s # {}
        PROVE  g[s \ {Pick(s)}] = F(s \ {Pick(s)})[s \ {Pick(s)}]
    <2>1. PICK u : u = s \ {Pick(s)}
      OBVIOUS
    <2>2. u \in SUBSET T /\ u # T
      BY <1>5, <2>1, PickIn
    <2>3. IsFold(F(u), w, u)
      BY <1>4, <2>2
    <2>4. CASE u = {}
      <3>1. F(u)[u] = 0
        BY <2>3, <2>4, FoldAt
      <3> QED BY <2>1, <2>2, <2>4, <3>1
    <2>5. CASE u # {}
      <3>1. PICK v : v = u \ {Pick(u)}
        OBVIOUS
      <3>2. v \in SUBSET u /\ v \in SUBSET T /\ v # T
        BY <2>2, <2>5, <3>1, PickIn
      <3>3. IsFold(F(v), w, v) /\ IsFiniteSet(v)
        BY <1>3, <1>4, <3>2
      <3>4. F(u)[v] = F(v)[v]
        BY <2>3, <3>2, <3>3, FoldsAgree
      <3>5. F(u)[u] = w[Pick(u)] + F(u)[v]
        BY <2>3, <2>5, <3>1, FoldAt
      <3>6. g[u] = w[Pick(u)] + F(v)[v]
        BY <2>2, <2>5, <3>1
      <3> QED BY <2>1, <3>4, <3>5, <3>6
    <2> QED BY <2>4, <2>5
  <1>6. g = [s \in SUBSET T |-> IF s = {} THEN 0 ELSE w[Pick(s)] + g[s \ {Pick(s)}]]
    <2>1. ASSUME NEW s \in SUBSET T
          PROVE  g[s] = IF s = {} THEN 0 ELSE w[Pick(s)] + g[s \ {Pick(s)}]
      <3>1. g[s] = IF s = {} THEN 0 ELSE w[Pick(s)] + F(s \ {Pick(s)})[s \ {Pick(s)}]
        OBVIOUS
      <3> HIDE DEF g
      <3> QED BY <1>5, <3>1
    <2>2. g = [s \in SUBSET T |-> g[s]]
      OBVIOUS
    <2> HIDE DEF g
    <2> QED BY <2>1, <2>2
  <1>7. IsFold(g, w, T)
    BY <1>6 DEF IsFold
  <1> QED BY <1>2, <1>7 DEF Q

\* The recursion that defines a sum.
LEMMA SumRec ==
    ASSUME NEW w, NEW U, IsFiniteSet(U)
    PROVE  /\ U = {} => Sum(w, U) = 0
           /\ U # {} => Sum(w, U) = w[Pick(U)] + Sum(w, U \ {Pick(U)})
  <1> DEFINE F(V) == CHOOSE f : IsFold(f, w, V)
  <1>1. ASSUME NEW V \in SUBSET U PROVE IsFiniteSet(V) /\ IsFold(F(V), w, V) /\ Sum(w, V) = F(V)[V]
    <2>1. IsFiniteSet(V)
      BY FS_Subset
    <2>2. \E f : IsFold(f, w, V)
      BY <2>1, FoldExists
    <2> QED BY <2>1, <2>2 DEF Sum
  <1> HIDE DEF F
  <1>2. PICK u : u = U \ {Pick(U)}
    OBVIOUS
  <1>3. IsFold(F(U), w, U) /\ Sum(w, U) = F(U)[U]
    BY <1>1
  <1>4. IsFold(F(u), w, u) /\ Sum(w, u) = F(u)[u] /\ IsFiniteSet(u) /\ u \in SUBSET U
    BY <1>1, <1>2
  <1>5. F(U)[u] = F(u)[u]
    BY <1>3, <1>4, FoldsAgree
  <1>6. U = {} => F(U)[U] = 0
    BY <1>3, FoldAt
  <1>7. U # {} => F(U)[U] = w[Pick(U)] + F(U)[u]
    BY <1>2, <1>3, FoldAt
  <1> QED BY <1>2, <1>3, <1>4, <1>5, <1>6, <1>7

-----------------------------------------------------------------------------
(* Laws of sums.                                                           *)

\* Sums of naturals are naturals.
LEMMA SumType ==
    ASSUME NEW U, NEW w, IsFiniteSet(U), w \in [U -> Nat]
    PROVE  \A s \in SUBSET U : Sum(w, s) \in Nat
  <1> DEFINE Q == {s \in SUBSET U : Sum(w, s) \notin Nat}
  <1>1. SUFFICES ASSUME Q # {} PROVE FALSE
    OBVIOUS
  <1>2. PICK s \in Q : \A t \in Q : t \subseteq s => t = s
    <2>1. Q \in SUBSET (SUBSET U)
      OBVIOUS
    <2> HIDE DEF Q
    <2> QED BY <1>1, <2>1, Minimal
  <1>3. s \in SUBSET U /\ IsFiniteSet(s) /\ Sum(w, s) \notin Nat
    BY <1>2, FS_Subset
  <1>4. s # {}
    <2>1. s = {} => Sum(w, s) = 0
      BY <1>3, SumRec
    <2> QED BY <1>3, <2>1
  <1>5. Pick(s) \in s
    BY <1>4, PickIn
  <1>6. Sum(w, s \ {Pick(s)}) \in Nat
    BY <1>2, <1>5
  <1>7. Sum(w, s) = w[Pick(s)] + Sum(w, s \ {Pick(s)})
    BY <1>3, <1>4, SumRec
  <1>8. w[Pick(s)] \in Nat
    BY <1>3, <1>5
  <1> QED BY <1>3, <1>6, <1>7, <1>8

\* Any element can be taken out of a sum.
LEMMA SumRemove ==
    ASSUME NEW U, NEW w, IsFiniteSet(U), w \in [U -> Nat]
    PROVE  \A s \in SUBSET U : \A x \in s : Sum(w, s) = w[x] + Sum(w, s \ {x})
  <1> DEFINE Q == {s \in SUBSET U : \E x \in s : Sum(w, s) # w[x] + Sum(w, s \ {x})}
  <1>1. SUFFICES ASSUME Q # {} PROVE FALSE
    OBVIOUS
  <1>2. PICK s \in Q : \A t \in Q : t \subseteq s => t = s
    <2>1. Q \in SUBSET (SUBSET U)
      OBVIOUS
    <2> HIDE DEF Q
    <2> QED BY <1>1, <2>1, Minimal
  <1>3. PICK x \in s : Sum(w, s) # w[x] + Sum(w, s \ {x})
    BY <1>2
  <1>4. s \in SUBSET U
    BY <1>2
  <1>5. PICK y \in s : y = Pick(s)
    BY <1>3, PickIn
  <1>6. Sum(w, s) = w[y] + Sum(w, s \ {y})
    <2>1. IsFiniteSet(s)
      BY <1>4, FS_Subset
    <2> QED BY <1>3, <1>5, <2>1, SumRec
  <1>7. x # y
    BY <1>3, <1>6
  <1>8. ASSUME NEW z \in s, NEW v \in s, z # v
        PROVE  Sum(w, s \ {z}) = w[v] + Sum(w, s \ {z, v})
    <2>1. PICK t : t = s \ {z}
      OBVIOUS
    <2>2. t \in SUBSET U /\ v \in t /\ t \subseteq s /\ t # s
      BY <1>4, <1>8, <2>1
    <2>3. t \notin Q
      BY <1>2, <2>2
    <2>4. t \ {v} = s \ {z, v}
      BY <2>1
    <2> QED BY <2>1, <2>2, <2>3, <2>4
  <1>9. Sum(w, s \ {x}) = w[y] + Sum(w, s \ {x, y}) /\ Sum(w, s \ {y}) = w[x] + Sum(w, s \ {y, x})
    BY <1>7, <1>8
  <1>10. Sum(w, s \ {y, x}) = Sum(w, s \ {x, y})
    <2>1. s \ {y, x} = s \ {x, y}
      OBVIOUS
    <2> QED BY <2>1, Zenon
  <1>11. w[x] \in Nat /\ w[y] \in Nat /\ Sum(w, s \ {x, y}) \in Nat
    <2>1. s \ {x, y} \in SUBSET U
      BY <1>4
    <2> QED BY <1>4, <2>1, SumType
  <1> HIDE DEF Q
  <1> QED BY <1>3, <1>6, <1>9, <1>10, <1>11

\* One element taken out of a sum.
LEMMA SumTake ==
    ASSUME NEW U, NEW w, NEW s, NEW x, NEW t, Weighted(w, U, s), Removed(t, s, x)
    PROVE  Sum(w, s) = w[x] + Sum(w, t)
  BY SumRemove DEF Weighted, Removed

\* The sum over a union without overlap.
LEMMA SumUnion ==
    ASSUME NEW U, NEW w, NEW A, IsFiniteSet(U), w \in [U -> Nat], A \in SUBSET U
    PROVE  \A B \in SUBSET U : A \cap B = {} => Sum(w, A \cup B) = Sum(w, A) + Sum(w, B)
  <1> DEFINE Q == {B \in SUBSET U : A \cap B = {} /\ Sum(w, A \cup B) # Sum(w, A) + Sum(w, B)}
  <1>1. SUFFICES ASSUME Q # {} PROVE FALSE
    OBVIOUS
  <1>2. PICK B \in Q : \A t \in Q : t \subseteq B => t = B
    <2>1. Q \in SUBSET (SUBSET U)
      OBVIOUS
    <2> HIDE DEF Q
    <2> QED BY <1>1, <2>1, Minimal
  <1>3. B \in SUBSET U /\ A \cap B = {} /\ Sum(w, A \cup B) # Sum(w, A) + Sum(w, B)
    BY <1>2
  <1>4. B # {}
    <2>1. SUFFICES ASSUME B = {} PROVE FALSE
      OBVIOUS
    <2>2. IsFiniteSet(B) /\ Sum(w, A) \in Nat /\ A \cup B = A
      BY <1>3, <2>1, FS_Subset, SumType
    <2>3. Sum(w, B) = 0
      BY <2>1, <2>2, SumRec
    <2>4. Sum(w, A \cup B) = Sum(w, A)
      BY <2>2, Zenon
    <2> HIDE DEF Q
    <2> QED BY <1>3, <2>2, <2>3, <2>4
  <1>5. PICK x \in B : TRUE
    BY <1>4
  <1>6. PICK D : D = B \ {x}
    OBVIOUS
  <1>7. Sum(w, A \cup D) = Sum(w, A) + Sum(w, D)
    <2>1. D \in SUBSET U /\ D \subseteq B /\ D # B /\ A \cap D = {}
      BY <1>3, <1>5, <1>6
    <2> QED BY <1>2, <2>1
  <1>8. Sum(w, B) = w[x] + Sum(w, D)
    BY <1>3, <1>5, <1>6, SumRemove
  <1>9. Sum(w, A \cup B) = w[x] + Sum(w, A \cup D)
    <2>1. A \cup B \in SUBSET U /\ x \in A \cup B /\ (A \cup B) \ {x} = A \cup D
      BY <1>3, <1>5, <1>6
    <2> QED BY <2>1, SumRemove
  <1>10. w[x] \in Nat /\ Sum(w, A) \in Nat /\ Sum(w, D) \in Nat
    BY <1>3, <1>5, <1>6, SumType
  <1> QED BY <1>3, <1>7, <1>8, <1>9, <1>10

\* Sums over a set depend on the values there.
LEMMA SumEqual ==
    ASSUME NEW U, NEW w, NEW v, IsFiniteSet(U), \A x \in U : w[x] = v[x]
    PROVE  Sum(w, U) = Sum(v, U)
  <1> DEFINE Q == {s \in SUBSET U : Sum(w, s) # Sum(v, s)}
  <1>1. SUFFICES ASSUME Q # {} PROVE FALSE
    OBVIOUS
  <1>2. PICK s \in Q : \A t \in Q : t \subseteq s => t = s
    <2>1. Q \in SUBSET (SUBSET U)
      OBVIOUS
    <2> HIDE DEF Q
    <2> QED BY <1>1, <2>1, Minimal
  <1>3. s \in SUBSET U /\ IsFiniteSet(s) /\ Sum(w, s) # Sum(v, s)
    BY <1>2, FS_Subset
  <1>4. s # {}
    <2>1. s = {} => Sum(w, s) = 0 /\ Sum(v, s) = 0
      BY <1>3, SumRec
    <2> QED BY <1>3, <2>1
  <1>5. Pick(s) \in s
    BY <1>4, PickIn
  <1>6. Sum(w, s \ {Pick(s)}) = Sum(v, s \ {Pick(s)})
    BY <1>2, <1>5
  <1>7. /\ Sum(w, s) = w[Pick(s)] + Sum(w, s \ {Pick(s)})
        /\ Sum(v, s) = v[Pick(s)] + Sum(v, s \ {Pick(s)})
    BY <1>3, <1>4, SumRec
  <1> QED BY <1>3, <1>5, <1>6, <1>7

\* A sum of values that are at most m.
LEMMA SumBound ==
    ASSUME NEW U, NEW w, NEW m \in Nat,
           IsFiniteSet(U), w \in [U -> Nat], \A x \in U : w[x] <= m
    PROVE  \A s \in SUBSET U : Sum(w, s) <= Cardinality(s) * m
  <1> DEFINE Q == {s \in SUBSET U : ~(Sum(w, s) <= Cardinality(s) * m)}
  <1>1. SUFFICES ASSUME Q # {} PROVE FALSE
    OBVIOUS
  <1>2. PICK s \in Q : \A t \in Q : t \subseteq s => t = s
    <2>1. Q \in SUBSET (SUBSET U)
      OBVIOUS
    <2> HIDE DEF Q
    <2> QED BY <1>1, <2>1, Minimal
  <1>3. s \in SUBSET U /\ IsFiniteSet(s) /\ ~(Sum(w, s) <= Cardinality(s) * m)
    BY <1>2, FS_Subset
  <1>4. s # {}
    <2>1. s = {} => Sum(w, s) = 0 /\ Cardinality(s) = 0
      BY <1>3, SumRec, FS_EmptySet
    <2> QED BY <1>3, <2>1
  <1>5. PICK x \in s : TRUE
    BY <1>4
  <1>6. PICK t : t = s \ {x}
    OBVIOUS
  <1>7. t \in SUBSET U /\ t # s /\ t \subseteq s
    BY <1>3, <1>5, <1>6
  <1>8. Sum(w, t) <= Cardinality(t) * m
    BY <1>2, <1>7
  <1>9. Sum(w, s) = w[x] + Sum(w, t)
    BY <1>3, <1>6, SumRemove
  <1>10. IsFiniteSet(t) /\ Cardinality(t) = Cardinality(s) - 1 /\ Cardinality(s) \in Nat
    BY <1>3, <1>5, <1>6, FS_RemoveElement, FS_CardinalityType
  <1>11. w[x] \in Nat /\ w[x] <= m /\ Sum(w, t) \in Nat
    BY <1>3, <1>7, SumType
  <1>12. ASSUME NEW n \in Nat, NEW k \in Int, k = n - 1 PROVE k * m = n * m - m
    BY <1>12
  <1>13. Cardinality(t) * m = Cardinality(s) * m - m
    BY <1>10, <1>12
  <1>14. PICK a, b : a = Cardinality(t) * m /\ b = Cardinality(s) * m
    OBVIOUS
  <1>15. a \in Int /\ b \in Int
    BY <1>10, <1>14, FS_CardinalityType
  <1> HIDE DEF Q
  <1> QED BY <1>3, <1>8, <1>9, <1>11, <1>13, <1>14, <1>15

\* The sum over an interval, counted from another start.
LEMMA SumOfShift ==
    ASSUME NEW d \in Nat, NEW n \in Nat, NEW w, NEW v,
           w \in [1 .. d + n -> Nat], v \in [1 .. n -> Nat], \A i \in 1 .. n : w[d + i] = v[i]
    PROVE  Sum(w, d + 1 .. d + n) = Sum(v, 1 .. n)
  <1> DEFINE Q == {k \in 0 .. n : Sum(w, d + 1 .. d + k) # Sum(v, 1 .. k)}
  <1>1. SUFFICES ASSUME Q # {} PROVE FALSE
    <2>1. n \in 0 .. n
      OBVIOUS
    <2> QED BY <2>1
  <1>2. PICK k \in Q : \A j \in Q : k <= j
    <2>1. Q \in SUBSET Nat
      OBVIOUS
    <2> HIDE DEF Q
    <2> QED BY <1>1, <2>1, Least
  <1>3. k \in 0 .. n /\ Sum(w, d + 1 .. d + k) # Sum(v, 1 .. k)
    BY <1>2
  <1>4. k # 0
    <2>1. SUFFICES ASSUME k = 0 PROVE FALSE
      OBVIOUS
    <2>2. d + 1 .. d + k = {} /\ 1 .. k = {}
      BY <2>1
    <2>3. Sum(w, d + 1 .. d + k) = Sum(w, {}) /\ Sum(v, 1 .. k) = Sum(v, {})
      BY <2>2, Zenon
    <2>4. Sum(w, {}) = 0 /\ Sum(v, {}) = 0
      BY SumRec, FS_EmptySet
    <2> HIDE DEF Q
    <2> QED BY <1>3, <2>3, <2>4
  <1>5. Sum(w, d + 1 .. d + (k - 1)) = Sum(v, 1 .. k - 1)
    <2>1. k - 1 \in 0 .. n /\ ~(k <= k - 1)
      BY <1>3, <1>4
    <2> QED BY <1>2, <2>1
  <1>6. Sum(w, d + 1 .. d + k) = w[d + k] + Sum(w, d + 1 .. d + (k - 1))
    <2>1. PICK U, s, t, x : U = 1 .. d + n /\ s = (d + 1 .. d + k) /\ t = (d + 1 .. d + (k - 1)) /\ x = d + k
      OBVIOUS
    <2>2. s \subseteq U
      BY <1>3, <2>1
    <2>3. IsFiniteSet(U)
      BY <2>1, FS_Interval
    <2>4. Weighted(w, U, s)
      BY <2>1, <2>2, <2>3, Zenon DEF Weighted
    <2>5. Removed(t, s, x)
      <3>1. x \in s
        BY <1>3, <1>4, <2>1
      <3>2. ASSUME NEW y \in Int PROVE y \in t <=> y \in s /\ y # x
        BY <1>3, <1>4, <2>1
      <3>3. t = s \ {x}
        <4>1. t \subseteq Int /\ s \subseteq Int
          BY <2>1
        <4> QED BY <3>2, <4>1
      <3> QED BY <3>1, <3>3 DEF Removed
    <2>6. Sum(w, s) = w[x] + Sum(w, t)
      BY <2>4, <2>5, SumTake
    <2> QED BY <2>1, <2>6, Zenon
  <1>7. Sum(v, 1 .. k) = v[k] + Sum(v, 1 .. k - 1)
    <2>1. PICK U, s, t, x : U = 1 .. n /\ s = 1 .. k /\ t = 1 .. k - 1 /\ x = k
      OBVIOUS
    <2>2. s \subseteq U
      BY <1>3, <2>1
    <2>3. IsFiniteSet(U)
      BY <2>1, FS_Interval
    <2>4. Weighted(v, U, s)
      BY <2>1, <2>2, <2>3, Zenon DEF Weighted
    <2>5. Removed(t, s, x)
      <3>1. x \in s
        BY <1>3, <1>4, <2>1
      <3>2. ASSUME NEW y \in Int PROVE y \in t <=> y \in s /\ y # x
        BY <1>3, <1>4, <2>1
      <3>3. t = s \ {x}
        <4>1. t \subseteq Int /\ s \subseteq Int
          BY <2>1
        <4> QED BY <3>2, <4>1
      <3> QED BY <3>1, <3>3 DEF Removed
    <2>6. Sum(v, s) = v[x] + Sum(v, t)
      BY <2>4, <2>5, SumTake
    <2> QED BY <2>1, <2>6, Zenon
  <1>8. w[d + k] = v[k]
    BY <1>3, <1>4
  <1> HIDE DEF Q
  <1> QED BY <1>3, <1>5, <1>6, <1>7, <1>8

-----------------------------------------------------------------------------
(* The same laws, in the form in which the provers find them.              *)

\* A sum is a natural.
LEMMA SumNat ==
    ASSUME NEW U, NEW w, NEW s, Weighted(w, U, s)
    PROVE  Sum(w, s) \in Nat
  BY SumType DEF Weighted

\* A sum over two parts.
LEMMA SumDivided ==
    ASSUME NEW U, NEW w, NEW s, NEW a, NEW b, Weighted(w, U, s), Divided(s, a, b)
    PROVE  Sum(w, s) = Sum(w, a) + Sum(w, b) /\ Sum(w, a) \in Nat /\ Sum(w, b) \in Nat
  <1>1. /\ IsFiniteSet(U) /\ w \in [U -> Nat]
        /\ a \in SUBSET U /\ b \in SUBSET U /\ s = a \cup b /\ a \cap b = {}
    BY DEF Weighted, Divided
  <1>2. Sum(w, a \cup b) = Sum(w, a) + Sum(w, b)
    BY <1>1, SumUnion
  <1>3. Sum(w, a) \in Nat /\ Sum(w, b) \in Nat
    BY <1>1, SumType
  <1> QED BY <1>1, <1>2, <1>3

\* w and v agree, but for a shift by d, and t is where w repeats v.
Shifted(w, v, d, n, t) ==
    /\ w \in [1 .. d + n -> Nat] /\ v \in [1 .. n -> Nat]
    /\ \A i \in 1 .. n : w[d + i] = v[i]
    /\ t = d + 1 .. d + n

\* The sum over the shifted interval.
LEMMA SumShifted ==
    ASSUME NEW d \in Nat, NEW n \in Nat, NEW w, NEW v, NEW t, Shifted(w, v, d, n, t)
    PROVE  Sum(w, t) = Sum(v, 1 .. n)
  <1>1. Sum(w, d + 1 .. d + n) = Sum(v, 1 .. n)
    <2>1. /\ w \in [1 .. d + n -> Nat] /\ v \in [1 .. n -> Nat]
          /\ \A i \in 1 .. n : w[d + i] = v[i]
      BY DEF Shifted
    <2> QED BY <2>1, SumOfShift
  <1> QED BY <1>1 DEF Shifted

\* The sum over a part is no larger.
LEMMA SumPart ==
    ASSUME NEW U, NEW w, NEW s, NEW a, Weighted(w, U, s), a \subseteq s
    PROVE  Sum(w, a) <= Sum(w, s) /\ Sum(w, a) \in Nat /\ Sum(w, s) \in Nat
  <1>1. PICK b : b = s \ a
    OBVIOUS
  <1>2. Divided(s, a, b)
    BY <1>1 DEF Divided
  <1>3. Sum(w, s) = Sum(w, a) + Sum(w, b) /\ Sum(w, a) \in Nat /\ Sum(w, b) \in Nat
    BY <1>2, SumDivided
  <1> QED BY <1>3

\* The sum over one element.
LEMMA SumOne ==
    ASSUME NEW U, NEW w, NEW x \in U, NEW s, Weighted(w, U, s), s = {x}
    PROVE  Sum(w, s) = w[x]
  <1>1. PICK t : t = {}
    OBVIOUS
  <1>2. Removed(t, s, x)
    BY <1>1 DEF Removed
  <1>3. Sum(w, s) = w[x] + Sum(w, t)
    BY <1>2, SumTake
  <1>4. Sum(w, t) = 0
    <2>1. IsFiniteSet(t)
      BY <1>1, FS_EmptySet
    <2> QED BY <1>1, <2>1, SumRec
  <1>5. w[x] \in Nat
    BY DEF Weighted
  <1> QED BY <1>3, <1>4, <1>5

\* A finite set has more than one element when it has two.
LEMMA Several ==
    ASSUME NEW s, IsFiniteSet(s)
    PROVE  Cardinality(s) > 1 <=> \E x, y \in s : x # y
  <1>1. Cardinality(s) \in Nat
    BY FS_CardinalityType
  <1>2. ASSUME NEW x \in s, NEW y \in s, x # y PROVE Cardinality(s) > 1
    <2>1. Cardinality(s) # 0
      BY FS_EmptySet
    <2>2. Cardinality(s) # 1
      <3>1. s # {x} /\ s # {y}
        BY <1>2
      <3>2. ASSUME NEW z PROVE s # {z}
        BY <1>2
      <3> QED BY <3>2, FS_Singleton
    <2> QED BY <1>1, <2>1, <2>2
  <1>3. ASSUME Cardinality(s) > 1 PROVE \E x, y \in s : x # y
    <2>1. s # {}
      BY <1>1, <1>3, FS_EmptySet
    <2>2. PICK x \in s : TRUE
      BY <2>1
    <2>3. s # {x}
      <3>1. Cardinality({x}) = 1
        BY FS_Singleton
      <3> QED BY <1>3, <3>1
    <2> QED BY <2>2, <2>3
  <1> QED BY <1>2, <1>3

-----------------------------------------------------------------------------
(* Arithmetic.                                                             *)

\* Multiplication grows with its factor.
LEMMA TimesGrows ==
    ASSUME NEW m \in Nat, NEW n \in Nat, NEW l \in Nat, m <= n
    PROVE  m * l <= n * l
  <1>1. PICK d \in Nat : d = n - m
    OBVIOUS
  <1>2. n * l = m * l + d * l /\ d * l \in Nat /\ m * l \in Nat
    BY <1>1
  <1> QED BY <1>2

\* Below what is below a bound.
LEMMA LessTrans ==
    ASSUME NEW x \in Nat, NEW y \in Nat, NEW b \in Nat, y <= x, x < b
    PROVE  y < b
  OBVIOUS

\* An interval grows by its last element.
LEMMA IntervalStep ==
    ASSUME NEW f \in Nat, NEW l \in Nat, NEW i \in Nat, NEW n \in Nat,
           0 < f, f <= l, i = l + 1, i <= n
    PROVE  /\ Removed(f .. l, f .. i, i) /\ f .. i \subseteq 1 .. n
           /\ \A j \in f .. i - 1 : j = l \/ j \in f .. l - 1
           /\ f < i
  BY DEF Removed

=============================================================================
