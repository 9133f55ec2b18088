------------------------------ MODULE Counting ------------------------------
(***************************************************************************)
(* Facts about numbers that the proofs of several modules use.  First, how *)
(* many members of a finite set a function maps into a set of labels, and  *)
(* how that number changes when one member is mapped elsewhere: the        *)
(* accounting of every semaphore in this project is stated with it.  Then, *)
(* the least-number principle for sets of natural numbers.  The library    *)
(* states it for predicates; with a set in the predicate's place it can be *)
(* cited like any other fact, for what a search loop finds first.          *)
(***************************************************************************)
EXTENDS Integers, FiniteSets, FiniteSetTheorems, WellFoundedInduction, TLAPS

CountAt(f, T, L) == Cardinality({t \in T : f[t] \in L})

(* A label counts as one or as nothing.                                    *)
Adds(l, L) == IF l \in L THEN 1 ELSE 0

(* The count is a natural number, zero exactly when no member is counted.  *)
LEMMA CountAtType ==
    ASSUME NEW T, IsFiniteSet(T), NEW f, NEW L
    PROVE  /\ CountAt(f, T, L) \in Nat
           /\ CountAt(f, T, L) = 0 <=> \A t \in T : f[t] \notin L
<1> DEFINE A == {t \in T : f[t] \in L}
<1>1. IsFiniteSet(A)
  BY FS_Subset
<1>2. Cardinality(A) \in Nat /\ (Cardinality(A) = 0 <=> A = {})
  BY <1>1, FS_CardinalityType, FS_EmptySet
<1> QED BY <1>2 DEF CountAt

(* If f and g differ at t only, the count changes by what t contributes.   *)
OnlyAt(t, T, f, g) == \A u \in T : u # t => g[u] = f[u]

LEMMA CountAtMove ==
    ASSUME NEW T, IsFiniteSet(T), NEW f, NEW g, NEW t \in T, NEW L,
           OnlyAt(t, T, f, g)
    PROVE  CountAt(g, T, L) =
             CountAt(f, T, L) - Adds(f[t], L) + Adds(g[t], L)
<1> DEFINE A == {u \in T : f[u] \in L}
           B == {u \in T : g[u] \in L}
<1>1. IsFiniteSet(A) /\ IsFiniteSet(B)
  BY FS_Subset
<1>2. A \ {t} = B \ {t}
  BY DEF OnlyAt
<1>3. (t \in A <=> f[t] \in L) /\ (t \in B <=> g[t] \in L)
  OBVIOUS
<1>4. CountAt(f, T, L) = Cardinality(A) /\ CountAt(g, T, L) = Cardinality(B)
  BY DEF CountAt
<1> HIDE DEF A, B
<1>5. Cardinality(A) \in Nat /\ Cardinality(B) \in Nat
  BY <1>1, FS_CardinalityType
<1>6. Cardinality(A \ {t}) =
          IF t \in A THEN Cardinality(A) - 1 ELSE Cardinality(A)
  BY <1>1, FS_RemoveElement
<1>7. Cardinality(B \ {t}) =
          IF t \in B THEN Cardinality(B) - 1 ELSE Cardinality(B)
  BY <1>1, FS_RemoveElement
<1>8. Cardinality(A \ {t}) = Cardinality(B \ {t})
  BY <1>2
<1>9. CASE t \in A /\ t \in B
  BY <1>3, <1>4, <1>5, <1>6, <1>7, <1>8, <1>9 DEF Adds
<1>10. CASE t \in A /\ t \notin B
  BY <1>3, <1>4, <1>5, <1>6, <1>7, <1>8, <1>10 DEF Adds
<1>11. CASE t \notin A /\ t \in B
  BY <1>3, <1>4, <1>5, <1>6, <1>7, <1>8, <1>11 DEF Adds
<1>12. CASE t \notin A /\ t \notin B
  BY <1>3, <1>4, <1>5, <1>6, <1>7, <1>8, <1>12 DEF Adds
<1> QED BY <1>9, <1>10, <1>11, <1>12

(* If at most one member is counted, any two counted members are the same. *)
LEMMA CountAtOne ==
    ASSUME NEW T, IsFiniteSet(T), NEW f, NEW L, CountAt(f, T, L) <= 1,
           NEW t \in T, f[t] \in L, NEW u \in T, f[u] \in L
    PROVE  t = u
<1> DEFINE A == {v \in T : f[v] \in L}
<1>1. IsFiniteSet(A)
  BY FS_Subset
<1>2. Cardinality(A) \in Nat /\ Cardinality(A) <= 1
  BY <1>1, FS_CardinalityType DEF CountAt
<1>3. t \in A /\ u \in A
  OBVIOUS
<1> HIDE DEF A
<1>4. IsFiniteSet(A \ {t}) /\ Cardinality(A \ {t}) = Cardinality(A) - 1
  BY <1>1, <1>3, FS_RemoveElement
<1>5. Cardinality(A \ {t}) \in Nat
  BY <1>4, FS_CardinalityType
<1>6. A \ {t} = {}
  BY <1>2, <1>4, <1>5, FS_EmptySet
<1> QED BY <1>3, <1>6

(* If more than one member is counted, there is another beside t.          *)
LEMMA CountAtOther ==
    ASSUME NEW T, IsFiniteSet(T), NEW f, NEW L, CountAt(f, T, L) > 1, NEW t
    PROVE  \E u \in T : u # t /\ f[u] \in L
<1> DEFINE A == {v \in T : f[v] \in L}
<1>1. IsFiniteSet(A)
  BY FS_Subset
<1>2. Cardinality(A) \in Nat /\ Cardinality(A) > 1
  BY <1>1, FS_CardinalityType DEF CountAt
<1>3. SUFFICES ASSUME A \ {t} = {} PROVE FALSE
  OBVIOUS
<1> HIDE DEF A
<1>4. Cardinality(A \ {t}) = 0
  BY <1>3, FS_EmptySet
<1>5. Cardinality(A \ {t}) =
          IF t \in A THEN Cardinality(A) - 1 ELSE Cardinality(A)
  BY <1>1, FS_RemoveElement
<1> QED BY <1>2, <1>4, <1>5

-----------------------------------------------------------------------------
Below == {p \in Nat \X Nat : p[1] < p[2]}

LEMMA BelowWellFounded == IsWellFoundedOn(Below, Nat)
BY NatLessThanWellFounded DEF OpToRel, Below

LEMMA NotBelow ==
    ASSUME NEW x \in Nat, NEW y \in Nat, <<y, x>> \notin Below
    PROVE  x <= y
<1>1. <<y, x>> \in Nat \X Nat
  OBVIOUS
<1>2. ~(<<y, x>>[1] < <<y, x>>[2])
  BY <1>1 DEF Below
<1> QED BY <1>2

(* Every set of natural numbers that has a member has a least one.         *)
LEMMA LeastMember ==
    ASSUME NEW T, T \subseteq Nat, T # {}
    PROVE  \E x \in T : \A y \in T : x <= y
<1>1. PICK x \in T : \A y \in T : <<y, x>> \notin Below
  BY BelowWellFounded, WFMin, Zenon
<1>2. \A y \in T : x <= y
  BY <1>1, NotBelow
<1> QED BY <1>2
=============================================================================
