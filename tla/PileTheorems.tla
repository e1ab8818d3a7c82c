---------------------------- MODULE PileTheorems ----------------------------
(* How the size of a pile changes when one number changes. *)
EXTENDS Piles, Integers, FiniteSets, FiniteSetTheorems,
        FunctionTheorems, TLAPS

\* The tokens of a pile, spelled out.
LEMMA PileMember ==
  ASSUME NEW S, NEW f, NEW p
  PROVE  p \in Pile(S, f) <=> \E x \in S : \E i \in 1..f[x] : p = <<x, i>>
BY DEF Pile

\* Only the values on S matter.
LEMMA PileSame ==
  ASSUME NEW S, NEW f, NEW g, \A y \in S : g[y] = f[y]
  PROVE  Pile(S, g) = Pile(S, f)
<1>1. ASSUME NEW p PROVE p \in Pile(S, g) <=> p \in Pile(S, f)
  BY PileMember
<1> QED
  BY <1>1

\* One element's tokens.
LEMMA PileSingle ==
  ASSUME NEW x, NEW n \in Nat
  PROVE  /\ IsFiniteSet({x} \X (1..n))
         /\ Cardinality({x} \X (1..n)) = n
<1>1. IsFiniteSet({x}) /\ Cardinality({x}) = 1
  BY FS_Singleton
<1>2. IsFiniteSet(1..n) /\ Cardinality(1..n) = n
  BY FS_Interval
<1>3. /\ IsFiniteSet({x} \X (1..n))
      /\ Cardinality({x} \X (1..n)) = Cardinality({x}) * Cardinality(1..n)
  BY <1>1, <1>2, FS_Product
<1> QED
  BY <1>1, <1>2, <1>3

\* The sum grows by the number of an element that joins.
LEMMA PileAdd ==
  ASSUME NEW S, NEW f, NEW g, NEW x, x \notin S, g[x] \in Nat,
         \A y \in S : g[y] = f[y], IsFiniteSet(Pile(S, f))
  PROVE  /\ IsFiniteSet(Pile(S \cup {x}, g))
         /\ Cardinality(Pile(S \cup {x}, g)) = Cardinality(Pile(S, f)) + g[x]
<1> DEFINE X == {x} \X (1..g[x])
<1>1. Pile(S \cup {x}, g) = Pile(S, f) \cup X
  BY PileMember
<1>2. Pile(S, f) \cap X = {}
  BY PileMember
<1>3. IsFiniteSet(X) /\ Cardinality(X) = g[x]
  BY PileSingle
<1>4. Cardinality(Pile(S, f) \cap X) = 0
  BY <1>2, FS_EmptySet
<1>5. Cardinality(Pile(S, f)) \in Nat
  BY FS_CardinalityType
<1> HIDE DEF X
<1>6. /\ IsFiniteSet(Pile(S, f) \cup X)
      /\ Cardinality(Pile(S, f) \cup X)
           = Cardinality(Pile(S, f)) + Cardinality(X) - Cardinality(Pile(S, f) \cap X)
  BY <1>3, FS_Union
<1>7. Cardinality(Pile(S, f) \cup X) = Cardinality(Pile(S, f)) + g[x]
  BY <1>3, <1>4, <1>5, <1>6
<1> QED
  BY <1>1, <1>6, <1>7

\* The sum shrinks by the number of an element that leaves.
LEMMA PileRemove ==
  ASSUME NEW S, NEW f, NEW x \in S, f[x] \in Nat, IsFiniteSet(Pile(S, f))
  PROVE  /\ IsFiniteSet(Pile(S \ {x}, f))
         /\ Cardinality(Pile(S \ {x}, f)) = Cardinality(Pile(S, f)) - f[x]
<1>1. Pile(S \ {x}, f) \subseteq Pile(S, f)
  BY PileMember
<1>2. IsFiniteSet(Pile(S \ {x}, f)) /\ Cardinality(Pile(S \ {x}, f)) \in Nat
  BY <1>1, FS_Subset, FS_CardinalityType
<1>3. (S \ {x}) \cup {x} = S
  OBVIOUS
<1>4. Cardinality(Pile((S \ {x}) \cup {x}, f)) = Cardinality(Pile(S \ {x}, f)) + f[x]
  BY <1>2, PileAdd
<1>5. Cardinality(Pile(S, f)) = Cardinality(Pile(S \ {x}, f)) + f[x]
  BY <1>3, <1>4
<1>6. Cardinality(Pile(S, f)) \in Nat
  BY FS_CardinalityType
<1> QED
  BY <1>2, <1>5, <1>6

\* The sum moves by the change of one element's number.
LEMMA PileChange ==
  ASSUME NEW S, NEW f, NEW g, NEW x \in S, f[x] \in Nat, g[x] \in Nat,
         \A y \in S \ {x} : g[y] = f[y], IsFiniteSet(Pile(S, f))
  PROVE  /\ IsFiniteSet(Pile(S, g))
         /\ Cardinality(Pile(S, g)) = Cardinality(Pile(S, f)) - f[x] + g[x]
<1>1. /\ IsFiniteSet(Pile(S \ {x}, f))
      /\ Cardinality(Pile(S \ {x}, f)) = Cardinality(Pile(S, f)) - f[x]
  BY PileRemove
<1>2. (S \ {x}) \cup {x} = S
  OBVIOUS
<1>3. /\ IsFiniteSet(Pile((S \ {x}) \cup {x}, g))
      /\ Cardinality(Pile((S \ {x}) \cup {x}, g)) = Cardinality(Pile(S \ {x}, f)) + g[x]
  BY <1>1, PileAdd
<1> QED
  BY <1>1, <1>2, <1>3

\* If every x owns at most f[x] of the elements of H, then H is no larger than
\* the sum of f.
LEMMA PileBound ==
  ASSUME NEW S, NEW f, NEW H, NEW own, IsFiniteSet(H),
         \A h \in H : own[h] \in S,
         \A x \in S : f[x] \in Nat /\ Cardinality({h \in H : own[h] = x}) <= f[x],
         IsFiniteSet(Pile(S, f))
  PROVE  Cardinality(H) <= Cardinality(Pile(S, f))
<1> DEFINE Of(x) == {h \in H : own[h] = x}
           num == [x \in S |-> CHOOSE b : b \in Bijection(Of(x), 1..Cardinality(Of(x)))]
           inj == [h \in H |-> <<own[h], num[own[h]][h]>>]
<1>1. ASSUME NEW x \in S
      PROVE  num[x] \in Bijection(Of(x), 1..Cardinality(Of(x)))
  <2>1. IsFiniteSet(Of(x))
    BY FS_Subset
  <2>2. Cardinality(Of(x)) \in Nat /\ ExistsBijection(1..Cardinality(Of(x)), Of(x))
    BY <2>1, FS_CardinalityType
  <2>3. ExistsBijection(Of(x), 1..Cardinality(Of(x)))
    BY <2>2, Fun_ExistsBijSymmetric
  <2> QED
    BY <2>3 DEF ExistsBijection
<1>2. ASSUME NEW h \in H
      PROVE  inj[h] \in Pile(S, f)
  <2>1. own[h] \in S /\ h \in Of(own[h])
    OBVIOUS
  <2>2. num[own[h]] \in Bijection(Of(own[h]), 1..Cardinality(Of(own[h])))
    BY <1>1, <2>1
  <2>3. num[own[h]][h] \in 1..Cardinality(Of(own[h]))
    BY <2>1, <2>2 DEF Bijection, Injection, IsInjective
  <2>4. Cardinality(Of(own[h])) <= f[own[h]] /\ f[own[h]] \in Nat
    BY <2>1
  <2>5. IsFiniteSet(Of(own[h]))
    BY FS_Subset
  <2>6. Cardinality(Of(own[h])) \in Nat
    BY <2>5, FS_CardinalityType
  <2> HIDE DEF num, Of
  <2>7. num[own[h]][h] \in 1..f[own[h]]
    BY <2>3, <2>4, <2>6
  <2> QED
    BY <2>1, <2>7, PileMember
<1>3. ASSUME NEW h \in H, NEW k \in H, inj[h] = inj[k]
      PROVE  h = k
  <2>1. own[h] = own[k] /\ num[own[h]][h] = num[own[k]][k]
    BY <1>3
  <2>2. own[h] \in S /\ h \in Of(own[h]) /\ k \in Of(own[h])
    BY <2>1
  <2>3. num[own[h]] \in Bijection(Of(own[h]), 1..Cardinality(Of(own[h])))
    BY <1>1, <2>2
  <2> HIDE DEF num, Of
  <2> QED
    BY <2>1, <2>2, <2>3 DEF Bijection, Injection, IsInjective
<1>4. inj \in Injection(H, Pile(S, f))
  BY <1>2, <1>3 DEF Injection, IsInjective
<1> QED
  BY <1>4, FS_Injection

\* The numbers f gives the elements of S are natural.
NatOn(S, f) == \A x \in S : f[x] \in Nat

\* A pile of natural numbers over a finite set is finite.
LEMMA PileFinite ==
  ASSUME NEW S, IsFiniteSet(S), NEW f, NatOn(S, f)
  PROVE  IsFiniteSet(Pile(S, f))
<1> DEFINE T == {{x} \X (1..f[x]) : x \in S}
           h == [x \in S |-> {x} \X (1..f[x])]
<1>1. h \in Surjection(S, T)
  BY DEF Surjection
<1>2. IsFiniteSet(T)
  BY <1>1, FS_Surjection
<1>3. ASSUME NEW t \in T
      PROVE  IsFiniteSet(t)
  <2>1. PICK x \in S : t = {x} \X (1..f[x])
    OBVIOUS
  <2>2. IsFiniteSet({x} \X (1..f[x]))
    BY PileSingle DEF NatOn
  <2> QED
    BY <2>1, <2>2
<1> HIDE DEF T
<1>4. IsFiniteSet(UNION T)
  BY <1>2, <1>3, FS_UNION
<1> QED
  BY <1>4 DEF T, Pile

-----------------------------------------------------------------------------
(* The same facts about the sums of natural numbers over finite sets. *)

LEMMA TotalType ==
  ASSUME NEW S, IsFiniteSet(S), NEW f, NatOn(S, f)
  PROVE  Total(S, f) \in Nat
BY PileFinite, FS_CardinalityType DEF Total

LEMMA TotalEmpty ==
  ASSUME NEW f
  PROVE  Total({}, f) = 0
<1>1. Pile({}, f) = {}
  BY DEF Pile
<1> QED
  <2>1. Cardinality({}) = 0
    BY FS_EmptySet
  <2> QED
    BY <1>1, <2>1 DEF Total

LEMMA TotalSame ==
  ASSUME NEW S, NEW f, NEW g, \A x \in S : g[x] = f[x]
  PROVE  Total(S, g) = Total(S, f)
BY PileSame DEF Total

LEMMA TotalAdd ==
  ASSUME NEW S, IsFiniteSet(S), NEW f, NatOn(S, f),
         NEW x, x \notin S, NEW g, g[x] \in Nat, \A y \in S : g[y] = f[y]
  PROVE  Total(S \cup {x}, g) = Total(S, f) + g[x]
<1>1. IsFiniteSet(Pile(S, f))
  BY PileFinite
<1>2. /\ IsFiniteSet(Pile(S \cup {x}, g))
      /\ Cardinality(Pile(S \cup {x}, g)) = Cardinality(Pile(S, f)) + g[x]
  BY <1>1, PileAdd
<1> QED
  BY <1>2 DEF Total

LEMMA TotalRemove ==
  ASSUME NEW S, IsFiniteSet(S), NEW f, NatOn(S, f),
         NEW x \in S, NEW g, \A y \in S \ {x} : g[y] = f[y]
  PROVE  Total(S \ {x}, g) = Total(S, f) - f[x]
<1>1. f[x] \in Nat
  BY DEF NatOn
<1>2. Total(S \ {x}, f) = Total(S, f) - f[x]
  BY <1>1, PileFinite, PileRemove DEF Total
<1> QED
  BY <1>2, TotalSame

LEMMA TotalChange ==
  ASSUME NEW S, IsFiniteSet(S), NEW f, NatOn(S, f),
         NEW x \in S, NEW g, g[x] \in Nat, \A y \in S \ {x} : g[y] = f[y]
  PROVE  Total(S, g) = Total(S, f) - f[x] + g[x]
<1>1. IsFiniteSet(Pile(S, f))
  BY PileFinite
<1>2. /\ IsFiniteSet(Pile(S, g))
      /\ Cardinality(Pile(S, g)) = Cardinality(Pile(S, f)) - f[x] + g[x]
  <2>1. f[x] \in Nat
    BY DEF NatOn
  <2> QED
    BY <1>1, <2>1, PileChange
<1> QED
  BY <1>2 DEF Total

\* Sums of disjoint sets add up.
LEMMA TotalSplit ==
  ASSUME NEW S, IsFiniteSet(S), NEW T, IsFiniteSet(T), S \cap T = {},
         NEW f, NatOn(S \cup T, f)
  PROVE  Total(S \cup T, f) = Total(S, f) + Total(T, f)
<1>1. Pile(S \cup T, f) = Pile(S, f) \cup Pile(T, f)
  BY PileMember
<1>2. Pile(S, f) \cap Pile(T, f) = {}
  BY PileMember
<1>3. IsFiniteSet(Pile(S, f)) /\ IsFiniteSet(Pile(T, f))
  BY PileFinite DEF NatOn
<1>4. Cardinality(Pile(S, f) \cap Pile(T, f)) = 0
  BY <1>2, FS_EmptySet
<1>5. Cardinality(Pile(S, f)) \in Nat /\ Cardinality(Pile(T, f)) \in Nat
  BY <1>3, FS_CardinalityType
<1>6. Cardinality(Pile(S, f) \cup Pile(T, f))
        = Cardinality(Pile(S, f)) + Cardinality(Pile(T, f)) - Cardinality(Pile(S, f) \cap Pile(T, f))
  BY <1>3, FS_Union
<1> QED
  <2>1. Cardinality(Pile(S, f) \cup Pile(T, f)) = Cardinality(Pile(S, f)) + Cardinality(Pile(T, f))
    BY <1>4, <1>5, <1>6
  <2> QED
    BY <1>1, <2>1 DEF Total

\* A part is no more than the whole.
LEMMA TotalSubset ==
  ASSUME NEW S, IsFiniteSet(S), NEW T, T \subseteq S, NEW f, NatOn(S, f)
  PROVE  Total(T, f) <= Total(S, f)
<1>1. Pile(T, f) \subseteq Pile(S, f)
  BY PileMember
<1> QED
  <2>1. IsFiniteSet(Pile(S, f))
    BY PileFinite
  <2> QED
    BY <1>1, <2>1, FS_Subset DEF Total
=============================================================================
