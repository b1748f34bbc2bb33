---------------------------- MODULE SumTheorems -----------------------------
(***************************************************************************)
(* What SumFunctionOnSet of the community modules computes, for every      *)
(* finite set: the facts that the proofs about ledgers need. The sum is a  *)
(* recursive function that picks one member after the other; the lemmas go *)
(* by induction on the size of the set, in the form of a smallest          *)
(* counterexample.                                                         *)
(***************************************************************************)
EXTENDS Integers, FiniteSets, Functions, FiniteSetTheorems, WellFoundedInduction, TLAPS

Picked(s) == CHOOSE x \in s : TRUE

(* The function "it" adds up f over the subsets of S. *)
AddsUp(it, f, S) ==
    it = [s \in SUBSET S |-> IF s = {} THEN 0 ELSE f[Picked(s)] + it[s \ {Picked(s)}]]

(* It counts the member x of s. *)
Counts(it, f, s, x) == it[s] = f[x] + it[s \ {x}]

(* The sum is the value of such a function, if there is one. *)
LEMMA SumUnfolded ==
    ASSUME NEW f, NEW S
    PROVE  SumFunctionOnSet(f, S) = (CHOOSE it : AddsUp(it, f, S))[S]
BY DEF SumFunctionOnSet, FoldFunctionOnSet, MapThenFoldSet, AddsUp, Picked

(* A set of numbers has a smallest one. *)
LEMMA SmallestOne ==
    ASSUME NEW T, T \subseteq Nat, T # {}
    PROVE  \E n \in T : \A j \in T : n <= j
<1>1. PICK n \in T : \A j \in T : ~ (<<j, n>> \in OpToRel(<, Nat))
  BY NatLessThanWellFounded, WFMin
<1>2. \A j \in T : ~ (j < n)
  BY <1>1 DEF OpToRel
<1> QED
  BY <1>2

(* One member less. *)
LEMMA OneLess ==
    ASSUME NEW S, IsFiniteSet(S), NEW T \in SUBSET S, NEW x \in T
    PROVE  /\ IsFiniteSet(T) /\ T \ {x} \in SUBSET S /\ Cardinality(T) \in Nat
           /\ Cardinality(T \ {x}) \in Nat /\ Cardinality(T \ {x}) = Cardinality(T) - 1
<1>1. IsFiniteSet(T) /\ IsFiniteSet(T \ {x})
  BY FS_Subset
<1>2. Cardinality(T) \in Nat /\ Cardinality(T \ {x}) \in Nat
  BY <1>1, FS_CardinalityType
<1>3. Cardinality(T \ {x}) = Cardinality(T) - 1
  BY <1>1, FS_RemoveElement
<1> QED
  BY <1>1, <1>2, <1>3

(* The member that is picked. *)
LEMMA PickedOne == ASSUME NEW s, s # {} PROVE Picked(s) \in s
BY DEF Picked

AddsUpSmall(it, f, S, n) ==
    \A s \in SUBSET S : Cardinality(s) <= n =>
        it[s] = IF s = {} THEN 0 ELSE f[Picked(s)] + it[s \ {Picked(s)}]

(* For every size there is a function that adds up the sets of that size.  *)
LEMMA AddsUpTo ==
    ASSUME NEW S, IsFiniteSet(S), NEW f, \A x \in S : f[x] \in Int, NEW n \in Nat
    PROVE  \E it \in [SUBSET S -> Int] : AddsUpSmall(it, f, S, n)
<1> DEFINE Ok(k) == \E it \in [SUBSET S -> Int] : AddsUpSmall(it, f, S, k)
           bad == {k \in Nat : ~Ok(k)}
<1>1. SUFFICES ASSUME bad # {} PROVE FALSE
  BY <1>1
<1>2. PICK m \in bad : \A j \in bad : m <= j
  <2>1. bad \subseteq Nat
    OBVIOUS
  <2> HIDE DEF bad
  <2> QED
    BY <1>1, <2>1, SmallestOne
<1>3. \A s \in SUBSET S : Cardinality(s) \in Nat /\ (Cardinality(s) = 0 <=> s = {})
  BY FS_Subset, FS_CardinalityType, FS_EmptySet
<1>4. m # 0
  <2>1. Ok(0)
    <3>1. [s \in SUBSET S |-> 0] \in [SUBSET S -> Int]
      OBVIOUS
    <3>2. \A s \in SUBSET S : Cardinality(s) <= 0 => s = {}
      BY <1>3
    <3>3. \A s \in SUBSET S : Cardinality(s) <= 0 => [t \in SUBSET S |-> 0][s] = 0
      OBVIOUS
    <3> QED
      BY <3>1, <3>2, <3>3 DEF AddsUpSmall
  <2> QED
    BY <1>2, <2>1
<1>5. m - 1 \in Nat /\ m - 1 \notin bad /\ m \in Nat
  <2>1. m \in Nat
    BY <1>2
  <2> HIDE DEF bad
  <2> QED
    BY <1>2, <1>4, <2>1
<1>6. PICK old \in [SUBSET S -> Int] :
         \A s \in SUBSET S : Cardinality(s) <= m - 1 =>
             old[s] = IF s = {} THEN 0 ELSE f[Picked(s)] + old[s \ {Picked(s)}]
  BY <1>5 DEF AddsUpSmall
<1> DEFINE new == [s \in SUBSET S |-> IF s = {} THEN 0 ELSE f[Picked(s)] + old[s \ {Picked(s)}]]
<1>7. new \in [SUBSET S -> Int]
  <2>1. ASSUME NEW s \in SUBSET S
        PROVE  (IF s = {} THEN 0 ELSE f[Picked(s)] + old[s \ {Picked(s)}]) \in Int
    <3>1. CASE s = {}
      BY <3>1
    <3>2. CASE s # {}
      <4>1. f[Picked(s)] \in Int /\ old[s \ {Picked(s)}] \in Int
        BY <3>2, PickedOne
      <4> QED
        BY <3>2, <4>1
    <3> QED
      BY <3>1, <3>2
  <2> QED
    BY <2>1
<1>8. ASSUME NEW s \in SUBSET S, Cardinality(s) <= m
      PROVE  new[s] = IF s = {} THEN 0 ELSE f[Picked(s)] + new[s \ {Picked(s)}]
  <2>1. CASE s = {}
    BY <2>1
  <2>2. CASE s # {}
    <3> DEFINE x == Picked(s)
               t == s \ {x}
    <3>1. x \in s /\ t \in SUBSET S
      BY <2>2, PickedOne
    <3>2. Cardinality(t) <= m - 1
      <4>1. Cardinality(t) = Cardinality(s) - 1 /\ Cardinality(s) \in Nat
        BY <3>1, OneLess, ZenonT(60)
      <4> QED
        BY <1>5, <1>8, <4>1
    <3>3. old[t] = IF t = {} THEN 0 ELSE f[Picked(t)] + old[t \ {Picked(t)}]
      BY <1>6, <3>1, <3>2
    <3>4. new[t] = IF t = {} THEN 0 ELSE f[Picked(t)] + old[t \ {Picked(t)}]
      BY <3>1
    <3>5. new[s] = f[x] + old[t]
      BY <2>2
    <3> QED
      BY <2>2, <3>3, <3>4, <3>5
  <2> QED
    BY <2>1, <2>2
<1>9. Ok(m)
  <2> HIDE DEF new
  <2>1. AddsUpSmall(new, f, S, m)
    BY <1>8 DEF AddsUpSmall
  <2> QED
    BY <1>7, <2>1
<1> QED
  BY <1>2, <1>9

(* There is a function that adds up all of them, so the sum is one's value. *)
LEMMA SumAddsUp ==
    ASSUME NEW S, IsFiniteSet(S), NEW f, \A x \in S : f[x] \in Int
    PROVE  \E it : AddsUp(it, f, S) /\ SumFunctionOnSet(f, S) = it[S]
<1>1. PICK n \in Nat : n = Cardinality(S)
  BY FS_CardinalityType
<1>2. PICK it \in [SUBSET S -> Int] : AddsUpSmall(it, f, S, n)
  BY AddsUpTo
<1>3. \A s \in SUBSET S : Cardinality(s) <= n
  BY <1>1, FS_Subset
<1>4. AddsUp(it, f, S)
  <2>1. \A s \in SUBSET S : it[s] = IF s = {} THEN 0 ELSE f[Picked(s)] + it[s \ {Picked(s)}]
    BY <1>2, <1>3 DEF AddsUpSmall
  <2> QED
    BY <2>1 DEF AddsUp
<1>5. PICK c : c = CHOOSE i : AddsUp(i, f, S)
  OBVIOUS
<1>6. AddsUp(c, f, S)
  BY <1>4, <1>5
<1>7. SumFunctionOnSet(f, S) = c[S]
  BY <1>5, SumUnfolded
<1> QED
  BY <1>6, <1>7

(* A function that adds up does so step by step. *)
LEMMA AddsUpStep ==
    ASSUME NEW S, NEW f, NEW it, AddsUp(it, f, S), NEW s, s \subseteq S, s # {}
    PROVE  Picked(s) \in s /\ Counts(it, f, s, Picked(s))
<1>1. it[s] = IF s = {} THEN 0 ELSE f[Picked(s)] + it[s \ {Picked(s)}]
  <2>1. s \in SUBSET S
    OBVIOUS
  <2> QED
    BY <2>1 DEF AddsUp
<1> QED
  BY <1>1, PickedOne DEF Counts

(* No members add up to nothing. *)
LEMMA AddsUpNothing ==
    ASSUME NEW S, NEW f, NEW it, AddsUp(it, f, S) PROVE it[{}] = 0
<1>1. {} \in SUBSET S
  OBVIOUS
<1> QED
  BY <1>1 DEF AddsUp

(* Functions that add up the same values agree. *)
LEMMA AddsUpOnce ==
    ASSUME NEW S, NEW S2, NEW f, NEW g, NEW it, NEW it2, AddsUp(it, f, S), AddsUp(it2, g, S2),
           NEW T, IsFiniteSet(T), T \subseteq S, T \subseteq S2, \A x \in T : f[x] = g[x]
    PROVE  it[T] = it2[T]
<1> DEFINE bad == {n \in Nat : \E s \in SUBSET T : Cardinality(s) = n /\ it[s] # it2[s]}
<1>1. SUFFICES ASSUME it[T] # it2[T] PROVE FALSE
  OBVIOUS
<1>2. bad # {}
  <2>1. Cardinality(T) \in Nat
    BY FS_CardinalityType
  <2>2. Cardinality(T) \in bad
    BY <1>1, <2>1
  <2> QED
    BY <2>2
<1>3. PICK m \in bad : \A j \in bad : m <= j
  <2>1. bad \subseteq Nat
    OBVIOUS
  <2> HIDE DEF bad
  <2> QED
    BY <1>2, <2>1, SmallestOne
<1>4. PICK s \in SUBSET T : Cardinality(s) = m /\ it[s] # it2[s]
  BY <1>3
<1>5. s \subseteq S /\ s \subseteq S2
  OBVIOUS
<1>6. CASE s = {}
  BY <1>4, <1>6, AddsUpNothing
<1>7. CASE s # {}
  <2> DEFINE x == Picked(s)
             t == s \ {x}
  <2>0. x \in s /\ Counts(it, f, s, x) /\ Counts(it2, g, s, x)
    BY <1>5, <1>7, AddsUpStep
  <2> HIDE DEF x
  <2>1. /\ x \in s /\ it[s] = f[x] + it[t]
    BY <2>0 DEF Counts
  <2>2. it2[s] = g[x] + it2[t]
    BY <2>0 DEF Counts
  <2>3. f[x] = g[x]
    BY <2>1
  <2>4. Cardinality(t) = m - 1 /\ m \in Nat /\ Cardinality(t) \in Nat /\ t \in SUBSET T
    BY <1>4, <2>1, OneLess
  <2>5. m - 1 \notin bad
    BY <1>3, <2>4
  <2>6. it[t] = it2[t]
    BY <2>4, <2>5
  <2> QED
    BY <1>4, <2>1, <2>2, <2>3, <2>6
<1> QED
  BY <1>6, <1>7

(* The values of such a function are numbers, and it does not matter which *)
(* member is taken first.                                                  *)
LEMMA AddsUpInAnyOrder ==
    ASSUME NEW S, IsFiniteSet(S), NEW f, \A x \in S : f[x] \in Int, NEW it, AddsUp(it, f, S)
    PROVE  /\ \A T \in SUBSET S : it[T] \in Int
           /\ \A T \in SUBSET S : \A x \in T : Counts(it, f, T, x)
<1>1. \A T \in SUBSET S : it[T] \in Int
  <2> DEFINE bad == {n \in Nat : \E s \in SUBSET S : Cardinality(s) = n /\ it[s] \notin Int}
  <2>1. SUFFICES ASSUME NEW T \in SUBSET S, it[T] \notin Int PROVE FALSE
    OBVIOUS
  <2>2. bad # {}
    <3>1. Cardinality(T) \in Nat
      BY FS_CardinalityType, FS_Subset
    <3>2. Cardinality(T) \in bad
      BY <2>1, <3>1
    <3> QED
      BY <3>2
  <2>3. PICK m \in bad : \A j \in bad : m <= j
    <3>1. bad \subseteq Nat
      OBVIOUS
    <3> HIDE DEF bad
    <3> QED
      BY <2>2, <3>1, SmallestOne
  <2>4. PICK s \in SUBSET S : Cardinality(s) = m /\ it[s] \notin Int
    BY <2>3
  <2>5. CASE s = {}
    BY <2>4, <2>5, AddsUpNothing
  <2>6. CASE s # {}
    <3>0. PICK x \in s : Counts(it, f, s, x)
      BY <2>6, AddsUpStep
    <3> DEFINE t == s \ {x}
    <3>1. it[s] = f[x] + it[t] /\ f[x] \in Int
      BY <3>0 DEF Counts
    <3>2. Cardinality(t) = m - 1 /\ m \in Nat /\ Cardinality(t) \in Nat /\ t \in SUBSET S
      BY <2>4, <3>1, OneLess
    <3>3. m - 1 \notin bad
      BY <2>3, <3>2
    <3>4. it[t] \in Int
      BY <3>2, <3>3
    <3> QED
      BY <2>4, <3>1, <3>4
  <2> QED
    BY <2>5, <2>6
<1>2. \A T \in SUBSET S : \A x \in T : Counts(it, f, T, x)
  <2> DEFINE Wrong(s) == \E x \in s : ~Counts(it, f, s, x)
             bad == {n \in Nat : \E s \in SUBSET S : Cardinality(s) = n /\ Wrong(s)}
  <2>1. SUFFICES ASSUME NEW T \in SUBSET S, Wrong(T) PROVE FALSE
    OBVIOUS
  <2>2. bad # {}
    <3>1. Cardinality(T) \in Nat
      BY FS_CardinalityType, FS_Subset
    <3>2. Cardinality(T) \in bad
      BY <2>1, <3>1
    <3> QED
      BY <3>2
  <2>3. PICK m \in bad : \A j \in bad : m <= j
    <3>1. bad \subseteq Nat
      OBVIOUS
    <3> HIDE DEF bad
    <3> QED
      BY <2>2, <3>1, SmallestOne
  <2>4. PICK s \in SUBSET S : Cardinality(s) = m /\ Wrong(s)
    BY <2>3
  <2>5. PICK x \in s : ~Counts(it, f, s, x)
    BY <2>4
  <2>6. PICK y \in s : Counts(it, f, s, y)
    BY <2>5, AddsUpStep
  <2>7. x # y
    BY <2>5, <2>6
  <2>8. ASSUME NEW z \in s PROVE ~Wrong(s \ {z})
    <3>1. Cardinality(s \ {z}) = m - 1 /\ m \in Nat /\ Cardinality(s \ {z}) \in Nat /\ s \ {z} \in SUBSET S
      BY <2>4, OneLess
    <3>2. m - 1 \notin bad
      BY <2>3, <3>1
    <3> QED
      BY <3>1, <3>2
  <2>9. it[s \ {y}] = f[x] + it[(s \ {y}) \ {x}]
    BY <2>6, <2>7, <2>8 DEF Counts
  <2>10. it[s \ {x}] = f[y] + it[(s \ {x}) \ {y}]
    BY <2>6, <2>7, <2>8 DEF Counts
  <2>11. (s \ {y}) \ {x} = (s \ {x}) \ {y}
    OBVIOUS
  <2>12. PICK i : i = it[(s \ {x}) \ {y}]
    OBVIOUS
  <2>13. f[x] \in Int /\ f[y] \in Int /\ i \in Int
    BY <1>1, <2>12
  <2>14. it[s] = f[y] + (f[x] + i) /\ it[s \ {x}] = f[y] + i
    BY <2>6, <2>9, <2>10, <2>11, <2>12 DEF Counts
  <2>15. it[s] = f[x] + it[s \ {x}]
    BY <2>13, <2>14
  <2> QED
    BY <2>5, <2>15 DEF Counts
<1> QED
  BY <1>1, <1>2

-----------------------------------------------------------------------------
(* The sum over a set is a number; it is zero for no members. *)
LEMMA SumType ==
    ASSUME NEW S, IsFiniteSet(S), NEW f, \A x \in S : f[x] \in Int
    PROVE  SumFunctionOnSet(f, S) \in Int /\ SumFunctionOnSet(f, {}) = 0
<1>1. PICK it : AddsUp(it, f, S) /\ SumFunctionOnSet(f, S) = it[S]
  BY SumAddsUp
<1>2. it[S] \in Int
  BY <1>1, AddsUpInAnyOrder
<1>3. PICK no : AddsUp(no, f, {}) /\ SumFunctionOnSet(f, {}) = no[{}]
  BY SumAddsUp, FS_EmptySet
<1>4. no[{}] = 0
  BY <1>3, AddsUpNothing
<1> QED
  BY <1>1, <1>2, <1>3, <1>4

(* The sum depends on the values of the members only. *)
LEMMA SumSame ==
    ASSUME NEW S, IsFiniteSet(S), NEW f, NEW g, \A x \in S : f[x] \in Int /\ g[x] = f[x]
    PROVE  SumFunctionOnSet(g, S) = SumFunctionOnSet(f, S)
<1>1. PICK it : AddsUp(it, f, S) /\ SumFunctionOnSet(f, S) = it[S]
  BY SumAddsUp
<1>2. PICK it2 : AddsUp(it2, g, S) /\ SumFunctionOnSet(g, S) = it2[S]
  BY SumAddsUp
<1>3. it[S] = it2[S]
  BY <1>1, <1>2, AddsUpOnce
<1> QED
  BY <1>1, <1>2, <1>3

(* A member contributes its value. *)
LEMMA SumWithout ==
    ASSUME NEW S, IsFiniteSet(S), NEW f, \A x \in S : f[x] \in Int, NEW y \in S
    PROVE  SumFunctionOnSet(f, S) = f[y] + SumFunctionOnSet(f, S \ {y})
<1>1. PICK it : AddsUp(it, f, S) /\ SumFunctionOnSet(f, S) = it[S]
  BY SumAddsUp
<1>2. it[S] = f[y] + it[S \ {y}]
  <2>1. \A T \in SUBSET S : \A x \in T : Counts(it, f, T, x)
    BY <1>1, AddsUpInAnyOrder
  <2>2. S \in SUBSET S
    OBVIOUS
  <2> QED
    BY <2>1, <2>2 DEF Counts
<1>3. IsFiniteSet(S \ {y})
  BY FS_RemoveElement
<1>4. PICK it2 : AddsUp(it2, f, S \ {y}) /\ SumFunctionOnSet(f, S \ {y}) = it2[S \ {y}]
  BY <1>3, SumAddsUp
<1>5. it[S \ {y}] = it2[S \ {y}]
  BY <1>1, <1>3, <1>4, AddsUpOnce
<1> QED
  BY <1>1, <1>2, <1>4, <1>5

(* A new member adds its value. *)
LEMMA SumWith ==
    ASSUME NEW S, IsFiniteSet(S), NEW f, \A x \in S : f[x] \in Int, NEW y, y \notin S, f[y] \in Int
    PROVE  SumFunctionOnSet(f, S \cup {y}) = f[y] + SumFunctionOnSet(f, S)
<1>1. IsFiniteSet(S \cup {y}) /\ (S \cup {y}) \ {y} = S
  BY FS_AddElement
<1> QED
  BY <1>1, SumWithout

(* No member contributes more than the sum, if none is negative. *)
LEMMA SumCovers ==
    ASSUME NEW S, IsFiniteSet(S), NEW f, \A x \in S : f[x] \in Nat
    PROVE  SumFunctionOnSet(f, S) \in Nat /\ \A y \in S : f[y] <= SumFunctionOnSet(f, S)
<1>1. \A T \in SUBSET S : SumFunctionOnSet(f, T) \in Nat
  <2> DEFINE bad == {n \in Nat : \E s \in SUBSET S : Cardinality(s) = n /\ SumFunctionOnSet(f, s) \notin Nat}
  <2>1. SUFFICES ASSUME NEW T \in SUBSET S, SumFunctionOnSet(f, T) \notin Nat PROVE FALSE
    OBVIOUS
  <2>2. bad # {}
    <3>1. Cardinality(T) \in Nat
      BY FS_CardinalityType, FS_Subset
    <3>2. Cardinality(T) \in bad
      BY <2>1, <3>1
    <3> QED
      BY <3>2
  <2>3. PICK m \in bad : \A j \in bad : m <= j
    <3>1. bad \subseteq Nat
      OBVIOUS
    <3> HIDE DEF bad
    <3> QED
      BY <2>2, <3>1, SmallestOne
  <2>4. PICK s \in SUBSET S : Cardinality(s) = m /\ SumFunctionOnSet(f, s) \notin Nat
    BY <2>3
  <2>5. IsFiniteSet(s) /\ \A x \in s : f[x] \in Int
    BY FS_Subset
  <2>6. s # {}
    BY <2>4, <2>5, SumType
  <2>7. PICK x : x \in s
    BY <2>6
  <2>8. SumFunctionOnSet(f, s) = f[x] + SumFunctionOnSet(f, s \ {x})
    BY <2>5, <2>7, SumWithout
  <2>9. Cardinality(s \ {x}) = m - 1 /\ m \in Nat /\ Cardinality(s \ {x}) \in Nat /\ s \ {x} \in SUBSET S
    BY <2>4, <2>7, OneLess
  <2>10. m - 1 \notin bad
    BY <2>3, <2>9
  <2>11. SumFunctionOnSet(f, s \ {x}) \in Nat /\ f[x] \in Nat
    BY <2>7, <2>9, <2>10
  <2> QED
    BY <2>4, <2>8, <2>11
<1>2. ASSUME NEW y \in S PROVE f[y] <= SumFunctionOnSet(f, S)
  <2>1. SumFunctionOnSet(f, S) = f[y] + SumFunctionOnSet(f, S \ {y})
    BY SumWithout
  <2>2. SumFunctionOnSet(f, S \ {y}) \in Nat /\ f[y] \in Nat
    BY <1>1
  <2> QED
    BY <2>1, <2>2
<1> QED
  BY <1>1, <1>2

(* Induction over the subsets of a finite set: a family of subsets that    *)
(* has the empty one, and with each subset the ones with one member more,  *)
(* has them all.                                                           *)
LEMMA SubsetsByOne ==
    ASSUME NEW S, IsFiniteSet(S), NEW G, {} \in G,
           \A T \in SUBSET S : \A x \in S \ T : T \in G => T \cup {x} \in G
    PROVE  S \in G
<1> DEFINE bad == {n \in Nat : \E s \in SUBSET S : Cardinality(s) = n /\ s \notin G}
<1>1. SUFFICES ASSUME S \notin G PROVE FALSE
  OBVIOUS
<1>2. bad # {}
  <2>1. Cardinality(S) \in Nat
    BY FS_CardinalityType
  <2>2. Cardinality(S) \in bad
    BY <1>1, <2>1
  <2> QED
    BY <2>2
<1>3. PICK m \in bad : \A j \in bad : m <= j
  <2>1. bad \subseteq Nat
    OBVIOUS
  <2> HIDE DEF bad
  <2> QED
    BY <1>2, <2>1, SmallestOne
<1>4. PICK s \in SUBSET S : Cardinality(s) = m /\ s \notin G
  BY <1>3
<1>5. PICK x : x \in s
  BY <1>4
<1>6. /\ s \ {x} \in SUBSET S /\ Cardinality(s \ {x}) \in Nat
      /\ Cardinality(s \ {x}) = m - 1 /\ m \in Nat
  BY <1>4, <1>5, OneLess
<1>7. s \ {x} \in G
  <2>1. m - 1 \notin bad
    BY <1>3, <1>6
  <2> QED
    BY <1>6, <2>1
<1>8. (s \ {x}) \cup {x} = s /\ x \in S \ (s \ {x})
  BY <1>5
<1>9. s \in G
  BY <1>6, <1>7, <1>8
<1> QED
  BY <1>4, <1>9

(* Induction over numbers, in the same form. *)
LEMMA NumbersByOne ==
    ASSUME NEW N \in Nat, NEW G, 0 \in G, \A k \in 0..(N - 1) : k \in G => k + 1 \in G
    PROVE  \A k \in 0..N : k \in G
<1> DEFINE bad == {k \in 0..N : k \notin G}
<1>1. SUFFICES ASSUME bad # {} PROVE FALSE
  OBVIOUS
<1>2. PICK m \in bad : \A j \in bad : m <= j
  <2>1. bad \subseteq Nat
    OBVIOUS
  <2> HIDE DEF bad
  <2> QED
    BY <1>1, <2>1, SmallestOne
<1>3. m # 0 /\ m \in 1..N
  BY <1>2
<1>4. m - 1 \in 0..(N - 1) /\ m - 1 \notin bad
  BY <1>2, <1>3
<1>5. m - 1 \in G /\ (m - 1) + 1 = m
  BY <1>3, <1>4
<1> QED
  BY <1>2, <1>4, <1>5

(* Members without a value can be left out. *)
LEMMA SumDrops ==
    ASSUME NEW S, IsFiniteSet(S), NEW f, \A x \in S : f[x] \in Int,
           NEW T \in SUBSET S, \A x \in S \ T : f[x] = 0
    PROVE  SumFunctionOnSet(f, S) = SumFunctionOnSet(f, T)
<1> DEFINE G == {R \in SUBSET (S \ T) : SumFunctionOnSet(f, T \cup R) = SumFunctionOnSet(f, T)}
<1>1. {} \in G
  <2>1. T \cup {} = T
    OBVIOUS
  <2> QED
    BY <2>1
<1>2. ASSUME NEW R \in SUBSET (S \ T), NEW x \in (S \ T) \ R, R \in G PROVE R \cup {x} \in G
  <2>1. IsFiniteSet(T \cup R)
    <3>1. T \cup R \in SUBSET S
      OBVIOUS
    <3> QED
      BY <3>1, FS_Subset
  <2>2. SumFunctionOnSet(f, (T \cup R) \cup {x}) = f[x] + SumFunctionOnSet(f, T \cup R)
    BY <2>1, SumWith
  <2>3. f[x] = 0 /\ (T \cup R) \cup {x} = T \cup (R \cup {x})
    OBVIOUS
  <2>4. SumFunctionOnSet(f, T \cup R) \in Int
    BY <2>1, SumType
  <2>5. SumFunctionOnSet(f, T \cup (R \cup {x})) = f[x] + SumFunctionOnSet(f, T \cup R)
    BY <2>2, <2>3, Zenon
  <2>6. SumFunctionOnSet(f, T \cup (R \cup {x})) = SumFunctionOnSet(f, T)
    BY <1>2, <2>3, <2>4, <2>5
  <2> QED
    BY <2>6
<1>3. S \ T \in G
  <2>1. IsFiniteSet(S \ T)
    BY FS_Subset
  <2> HIDE DEF G
  <2> QED
    BY <1>1, <1>2, <2>1, SubsetsByOne
<1>4. T \cup (S \ T) = S
  OBVIOUS
<1> QED
  BY <1>3, <1>4

(* Sums are added member by member. *)
LEMMA SumPlus ==
    ASSUME NEW S, IsFiniteSet(S), NEW f, NEW g, NEW h,
           \A x \in S : f[x] \in Int /\ g[x] \in Int /\ h[x] = f[x] + g[x]
    PROVE  SumFunctionOnSet(h, S) = SumFunctionOnSet(f, S) + SumFunctionOnSet(g, S)
<1> DEFINE G == {T \in SUBSET S : SumFunctionOnSet(h, T) = SumFunctionOnSet(f, T) + SumFunctionOnSet(g, T)}
<1>0. \A x \in S : h[x] \in Int
  OBVIOUS
<1>1. {} \in G
  <2>1. SumFunctionOnSet(h, {}) = 0 /\ SumFunctionOnSet(f, {}) = 0 /\ SumFunctionOnSet(g, {}) = 0
    BY <1>0, SumType
  <2> QED
    BY <2>1
<1>2. ASSUME NEW T \in SUBSET S, NEW x \in S \ T, T \in G PROVE T \cup {x} \in G
  <2>1. IsFiniteSet(T)
    BY FS_Subset
  <2>2. /\ SumFunctionOnSet(f, T \cup {x}) = f[x] + SumFunctionOnSet(f, T)
        /\ SumFunctionOnSet(f, T) \in Int
    BY <2>1, SumWith, SumType
  <2>3. /\ SumFunctionOnSet(g, T \cup {x}) = g[x] + SumFunctionOnSet(g, T)
        /\ SumFunctionOnSet(g, T) \in Int
    BY <2>1, SumWith, SumType
  <2>4. SumFunctionOnSet(h, T \cup {x}) = h[x] + SumFunctionOnSet(h, T)
    BY <1>0, <2>1, SumWith
  <2>5. h[x] = f[x] + g[x] /\ f[x] \in Int /\ g[x] \in Int
    OBVIOUS
  <2>6. SumFunctionOnSet(h, T) = SumFunctionOnSet(f, T) + SumFunctionOnSet(g, T)
    BY <1>2
  <2>7. SumFunctionOnSet(h, T \cup {x}) = SumFunctionOnSet(f, T \cup {x}) + SumFunctionOnSet(g, T \cup {x})
    BY <2>2, <2>3, <2>4, <2>5, <2>6
  <2> QED
    BY <2>7
<1>3. S \in G
  <2> HIDE DEF G
  <2> QED
    BY <1>1, <1>2, SubsetsByOne
<1> QED
  BY <1>3

(* Larger values have a larger sum. *)
LEMMA SumAtMost ==
    ASSUME NEW S, IsFiniteSet(S), NEW f, NEW g,
           \A x \in S : f[x] \in Int /\ g[x] \in Int /\ f[x] <= g[x]
    PROVE  SumFunctionOnSet(f, S) <= SumFunctionOnSet(g, S)
<1> DEFINE d == [x \in S |-> g[x] - f[x]]
<1>1. \A x \in S : d[x] \in Nat /\ d[x] \in Int /\ g[x] = f[x] + d[x]
  OBVIOUS
<1> HIDE DEF d
<1>2. SumFunctionOnSet(g, S) = SumFunctionOnSet(f, S) + SumFunctionOnSet(d, S)
  BY <1>1, SumPlus
<1>3. SumFunctionOnSet(d, S) \in Nat
  BY <1>1, SumCovers
<1>4. SumFunctionOnSet(f, S) \in Int
  BY SumType
<1> QED
  BY <1>2, <1>3, <1>4

(* m matches the members of S with those of R, one to one, and g has the   *)
(* values there that f has on S.                                           *)
Matched(S, m, R) ==
    (\A x, y \in S : m[x] = m[y] => x = y) /\ \A y : y \in R <=> \E x \in S : y = m[x]
Carries(S, m, f, g) == \A x \in S : f[x] \in Int /\ g[m[x]] = f[x]

(* A sum over one set is the sum over another that stands for it, member   *)
(* by member.                                                              *)
LEMMA SumMatched ==
    ASSUME NEW S, IsFiniteSet(S), NEW m, NEW R, Matched(S, m, R), NEW f, NEW g, Carries(S, m, f, g)
    PROVE  IsFiniteSet(R) /\ SumFunctionOnSet(g, R) = SumFunctionOnSet(f, S)
<1> DEFINE Image(T) == {m[x] : x \in T}
           G == {T \in SUBSET S : IsFiniteSet(Image(T)) /\ SumFunctionOnSet(g, Image(T)) = SumFunctionOnSet(f, T)}
<1>0. /\ \A x, y \in S : m[x] = m[y] => x = y
      /\ \A x \in S : f[x] \in Int /\ g[m[x]] = f[x]
      /\ \A y : y \in R <=> \E x \in S : y = m[x]
  BY DEF Matched, Carries
<1>1. {} \in G
  <2>1. Image({}) = {}
    OBVIOUS
  <2>2. SumFunctionOnSet(f, {}) = 0 /\ SumFunctionOnSet(g, {}) = 0 /\ IsFiniteSet({})
    BY SumType, FS_EmptySet
  <2> QED
    BY <2>1, <2>2
<1>2. ASSUME NEW T \in SUBSET S, NEW x \in S \ T, T \in G PROVE T \cup {x} \in G
  <2>1. IsFiniteSet(T) /\ IsFiniteSet(Image(T))
    BY <1>2, FS_Subset
  <2>2. SumFunctionOnSet(f, T \cup {x}) = f[x] + SumFunctionOnSet(f, T)
    BY <1>0, <2>1, SumWith
  <2>3. m[x] \notin Image(T) /\ Image(T \cup {x}) = Image(T) \cup {m[x]}
    BY <1>0
  <2>4. g[m[x]] = f[x] /\ f[x] \in Int /\ \A y \in Image(T) : g[y] \in Int
    BY <1>0
  <2>5. SumFunctionOnSet(g, Image(T) \cup {m[x]}) = g[m[x]] + SumFunctionOnSet(g, Image(T))
    <3> HIDE DEF Image
    <3> QED
      BY <2>1, <2>3, <2>4, SumWith
  <2>6. IsFiniteSet(Image(T) \cup {m[x]})
    BY <2>1, FS_AddElement
  <2>7. SumFunctionOnSet(g, Image(T)) = SumFunctionOnSet(f, T)
    BY <1>2
  <2>8. SumFunctionOnSet(g, Image(T \cup {x})) = SumFunctionOnSet(f, T \cup {x})
    <3> HIDE DEF Image
    <3> QED
      BY <2>2, <2>3, <2>4, <2>5, <2>7
  <2>9. IsFiniteSet(Image(T \cup {x}))
    <3> HIDE DEF Image
    <3> QED
      BY <2>3, <2>6
  <2> HIDE DEF Image
  <2> QED
    BY <2>8, <2>9
<1>3. S \in G
  <2> HIDE DEF G
  <2> QED
    BY <1>1, <1>2, SubsetsByOne
<1>4. Image(S) = R
  BY <1>0
<1> HIDE DEF Image
<1> QED
  BY <1>3, <1>4

(* The sum over two sets that have no member in common. *)
LEMMA SumUnion ==
    ASSUME NEW S, IsFiniteSet(S), NEW T, IsFiniteSet(T), S \cap T = {},
           NEW f, \A x \in S \cup T : f[x] \in Int
    PROVE  SumFunctionOnSet(f, S \cup T) = SumFunctionOnSet(f, S) + SumFunctionOnSet(f, T)
<1> DEFINE G == {R \in SUBSET T : SumFunctionOnSet(f, S \cup R) = SumFunctionOnSet(f, S) + SumFunctionOnSet(f, R)}
<1>0. SumFunctionOnSet(f, S) \in Int /\ SumFunctionOnSet(f, {}) = 0
  BY SumType
<1>1. {} \in G
  <2>1. S \cup {} = S
    OBVIOUS
  <2> QED
    BY <1>0, <2>1
<1>2. ASSUME NEW R \in SUBSET T, NEW x \in T \ R, R \in G PROVE R \cup {x} \in G
  <2>0. IsFiniteSet(R)
    BY FS_Subset
  <2>1. IsFiniteSet(R) /\ IsFiniteSet(S \cup R) /\ x \notin S \cup R
    BY <2>0, FS_Union
  <2>2. SumFunctionOnSet(f, R \cup {x}) = f[x] + SumFunctionOnSet(f, R) /\ SumFunctionOnSet(f, R) \in Int
    BY <2>1, SumWith, SumType
  <2>3. SumFunctionOnSet(f, (S \cup R) \cup {x}) = f[x] + SumFunctionOnSet(f, S \cup R)
    BY <2>1, SumWith
  <2>4. (S \cup R) \cup {x} = S \cup (R \cup {x}) /\ f[x] \in Int
    OBVIOUS
  <2>5. SumFunctionOnSet(f, S \cup R) = SumFunctionOnSet(f, S) + SumFunctionOnSet(f, R)
    BY <1>2
  <2>6. SumFunctionOnSet(f, S \cup (R \cup {x})) = f[x] + SumFunctionOnSet(f, S \cup R)
    BY <2>3, <2>4, Zenon
  <2>7. SumFunctionOnSet(f, S \cup (R \cup {x})) = SumFunctionOnSet(f, S) + SumFunctionOnSet(f, R \cup {x})
    BY <1>0, <2>2, <2>4, <2>5, <2>6
  <2> QED
    BY <2>7
<1>3. T \in G
  <2> HIDE DEF G
  <2> QED
    BY <1>1, <1>2, SubsetsByOne
<1> QED
  BY <1>3


(* The values of a function on a finite set are finitely many. *)
LEMMA ImageIsFinite ==
    ASSUME NEW S, IsFiniteSet(S), NEW m
    PROVE  IsFiniteSet({m[x] : x \in S})
<1> DEFINE G == {T \in SUBSET S : IsFiniteSet({m[x] : x \in T})}
<1>1. {} \in G
  <2>1. {m[x] : x \in {}} = {}
    OBVIOUS
  <2> QED
    BY <2>1, FS_EmptySet
<1>2. ASSUME NEW T \in SUBSET S, NEW x \in S \ T, T \in G PROVE T \cup {x} \in G
  <2>1. {m[y] : y \in T \cup {x}} = {m[y] : y \in T} \cup {m[x]}
    OBVIOUS
  <2>2. IsFiniteSet({m[y] : y \in T} \cup {m[x]})
    BY <1>2, FS_AddElement
  <2> QED
    BY <2>1, <2>2
<1>3. S \in G
  <2> HIDE DEF G
  <2> QED
    BY <1>1, <1>2, SubsetsByOne
<1> QED
  BY <1>3


(* A sum of multiples *)
LEMMA SumTimes ==
    ASSUME NEW S, IsFiniteSet(S), NEW c \in Int, NEW f, NEW g,
           \A x \in S : f[x] \in Int /\ g[x] = f[x] * c
    PROVE  SumFunctionOnSet(g, S) = SumFunctionOnSet(f, S) * c
<1> DEFINE G == {T \in SUBSET S : SumFunctionOnSet(g, T) = SumFunctionOnSet(f, T) * c}
<1>0. \A x \in S : g[x] \in Int
  OBVIOUS
<1>1. {} \in G
  <2>1. SumFunctionOnSet(g, {}) = 0 /\ SumFunctionOnSet(f, {}) = 0
    BY <1>0, SumType
  <2>2. 0 = 0 * c
    OBVIOUS
  <2> QED
    BY <2>1, <2>2
<1>2. ASSUME NEW T \in SUBSET S, NEW x \in S \ T, T \in G PROVE T \cup {x} \in G
  <2>1. IsFiniteSet(T) /\ \A y \in T : f[y] \in Int /\ g[y] \in Int
    BY <1>0, FS_Subset
  <2>2. SumFunctionOnSet(f, T) \in Int /\ SumFunctionOnSet(g, T) = SumFunctionOnSet(f, T) * c
    BY <1>2, <2>1, SumType
  <2>3. f[x] \in Int /\ g[x] \in Int /\ g[x] = f[x] * c /\ x \notin T
    BY <1>0
  <2>4. /\ SumFunctionOnSet(f, T \cup {x}) = f[x] + SumFunctionOnSet(f, T)
        /\ SumFunctionOnSet(g, T \cup {x}) = g[x] + SumFunctionOnSet(g, T)
    BY <2>1, <2>3, SumWith
  <2>5. \A a, b \in Int : a * c + b * c = (a + b) * c
    OBVIOUS
  <2>6. SumFunctionOnSet(g, T \cup {x}) = SumFunctionOnSet(f, T \cup {x}) * c
    BY <2>2, <2>3, <2>4, <2>5
  <2> QED
    BY <2>6
<1> HIDE DEF G
<1>3. S \in G
  BY <1>1, <1>2, SubsetsByOne
<1> QED
  BY <1>3 DEF G

(* Only one summand has changed. *)
LEMMA SumChanged ==
    ASSUME NEW S, IsFiniteSet(S), NEW f, NEW g, NEW y \in S,
           \A x \in S : f[x] \in Int /\ g[x] \in Int, \A x \in S \ {y} : g[x] = f[x]
    PROVE  SumFunctionOnSet(g, S) - SumFunctionOnSet(f, S) = g[y] - f[y]
<1>1. /\ SumFunctionOnSet(f, S) = f[y] + SumFunctionOnSet(f, S \ {y})
      /\ SumFunctionOnSet(g, S) = g[y] + SumFunctionOnSet(g, S \ {y})
  BY SumWithout
<1>2. IsFiniteSet(S \ {y})
  BY FS_Subset
<1>3. /\ SumFunctionOnSet(f, S \ {y}) = SumFunctionOnSet(g, S \ {y})
      /\ SumFunctionOnSet(f, S \ {y}) \in Int
  BY <1>2, SumSame, SumType
<1> QED
  BY <1>1, <1>3
=============================================================================
