----------------------------- MODULE SumTheorems -----------------------------
(***************************************************************************)
(* Lemmas about SumFunctionOnSet and SumFunction of the community module   *)
(* Functions, which the models use for the sum of a balance over all       *)
(* accounts.  Functions defines the sum by a recursion over the subsets of *)
(* the domain that takes an arbitrary element away in each step.  What is  *)
(* proved here of sums over a finite set: that the recursion is well       *)
(* defined, that the order of the summands does not matter, and how a sum  *)
(* changes when the summands or the set do.                                *)
(*                                                                         *)
(* Every induction over a finite set is a smallest counterexample          *)
(* (SmallestSet): the library's induction theorem takes an operator as a   *)
(* parameter.                                                              *)
(***************************************************************************)
EXTENDS Functions, FiniteSets, FiniteSetTheorems, WellFoundedInduction, TLAPS

\* The element the recursion takes away first, and the recursion's equation
Picked(s) == CHOOSE x \in s : TRUE

IsSumOf(f, S, sum) ==
  sum = [s \in SUBSET S |->
           IF s = {} THEN 0 ELSE f[Picked(s)] + sum[s \ {Picked(s)}]]

------------------------------------------------------------------------------
(* The recursion *)

LEMMA PickedIn == ASSUME NEW s, s # {} PROVE Picked(s) \in s
BY DEF Picked

\* A nonempty collection of subsets of a finite set has a smallest member: one
\* without a proper subset in the collection.
LEMMA SmallestSet ==
  ASSUME NEW S, IsFiniteSet(S), NEW C \in SUBSET SUBSET S, C # {}
  PROVE  \E t \in C : \A s \in C : s \subseteq t => s = t
<1>1. C \subseteq FiniteSubsetsOf(S)
  BY FS_Subset DEF FiniteSubsetsOf
<1>2. PICK t \in C : \A s \in C : <<s, t>> \notin StrictSubsetOrdering(S)
  BY <1>1, FS_StrictSubsetOrderingWellFounded, WFMin
<1>3. ASSUME NEW s \in C, s \subseteq t, s # t PROVE FALSE
  BY <1>2, <1>3 DEF StrictSubsetOrdering
<1>. QED
  BY <1>3

\* A nonempty set of natural numbers has a least one.
LEMMA LeastNumber ==
  ASSUME NEW S \in SUBSET Nat, NEW n \in S
  PROVE  \E m \in S : \A k \in S : m <= k
<1>. DEFINE C == {0 .. k : k \in S \cap (0 .. n)}
            U == 0 .. n
<1>1. IsFiniteSet(U)
  BY FS_Interval
<1>2. C \in SUBSET SUBSET U
  OBVIOUS
<1>3. 0 .. n \in C /\ C # {}
  OBVIOUS
<1>4. PICK t \in C : \A s \in C : s \subseteq t => s = t
  <2>. HIDE DEF C, U
  <2>. QED  BY <1>1, <1>2, <1>3, SmallestSet
<1>5. PICK m \in S \cap (0 .. n) : t = 0 .. m
  BY <1>4
<1>6. ASSUME NEW k \in S, k < m PROVE FALSE
  <2>1. 0 .. k \in C /\ 0 .. k \subseteq 0 .. m
    BY <1>5, <1>6
  <2>2. 0 .. k = 0 .. m
    <3>. HIDE DEF C
    <3>. QED  BY <1>4, <1>5, <2>1
  <2>3. m \in 0 .. m /\ m \notin 0 .. k
    BY <1>5, <1>6
  <2>. QED  BY <2>2, <2>3
<1>. QED
  BY <1>5, <1>6

\* Two solutions of the equation agree wherever both are defined.
LEMMA SumsAgree ==
  ASSUME NEW f, NEW S, NEW T, IsFiniteSet(S), NEW a, NEW b, IsSumOf(f, S, a), IsSumOf(f, T, b),
         NEW u \in SUBSET (S \cap T)
  PROVE  a[u] = b[u]
<1>. DEFINE C == {s \in SUBSET (S \cap T) : a[s] # b[s]}
<1>1. SUFFICES ASSUME C # {} PROVE FALSE
  OBVIOUS
<1>2. IsFiniteSet(S \cap T)
  BY FS_Subset
<1>3. PICK t \in C : \A s \in C : s \subseteq t => s = t
  <2>1. C \in SUBSET SUBSET (S \cap T)
    OBVIOUS
  <2>. HIDE DEF C
  <2>. QED  BY <1>1, <1>2, <2>1, SmallestSet
<1>4. t \in SUBSET S /\ t \in SUBSET T /\ a[t] # b[t]
  OBVIOUS
<1>5. /\ a[t] = IF t = {} THEN 0 ELSE f[Picked(t)] + a[t \ {Picked(t)}]
      /\ b[t] = IF t = {} THEN 0 ELSE f[Picked(t)] + b[t \ {Picked(t)}]
  BY <1>4 DEF IsSumOf
<1>6. t # {}
  BY <1>4, <1>5
<1>7. a[t \ {Picked(t)}] = b[t \ {Picked(t)}]
  BY <1>3, <1>4, <1>6, PickedIn
<1>. QED
  BY <1>4, <1>5, <1>6, <1>7

\* The equation has a solution for every finite set.
LEMMA SumExists ==
  ASSUME NEW f, NEW S, IsFiniteSet(S)
  PROVE  \E sum : IsSumOf(f, S, sum)
<1>. DEFINE C == {s \in SUBSET S : ~ \E sum : IsSumOf(f, s, sum)}
<1>1. SUFFICES ASSUME C # {} PROVE FALSE
  OBVIOUS
<1>2. PICK t \in C : \A s \in C : s \subseteq t => s = t
  <2>1. C \in SUBSET SUBSET S
    OBVIOUS
  <2>. HIDE DEF C
  <2>. QED  BY <1>1, <2>1, SmallestSet
<1>3. /\ t \in SUBSET S /\ ~ \E sum : IsSumOf(f, t, sum)
      /\ \A s \in SUBSET t : s # t => \E sum : IsSumOf(f, s, sum)
  BY <1>2
\* The solutions for the proper subsets of t make up one for t.
<1>. DEFINE value(s) == (CHOOSE sum : IsSumOf(f, s, sum))[s]
            total(s) == IF s = {} THEN 0 ELSE f[Picked(s)] + value(s \ {Picked(s)})
            all == [s \in SUBSET t |-> total(s)]
<1>4. ASSUME NEW s \in SUBSET t, s # t PROVE value(s) = total(s)
  <2>. DEFINE own == CHOOSE sum : IsSumOf(f, s, sum)
  <2>1. IsSumOf(f, s, own)
    BY <1>3, <1>4
  <2>2. own[s] = IF s = {} THEN 0 ELSE f[Picked(s)] + own[s \ {Picked(s)}]
    BY <2>1 DEF IsSumOf
  <2>3. CASE s = {}
    BY <2>2, <2>3
  <2>4. CASE s # {}
    <3>. DEFINE r == s \ {Picked(s)}
                smaller == CHOOSE sum : IsSumOf(f, r, sum)
    <3>1. r \in SUBSET t /\ r # t /\ r \subseteq s
      BY <1>4
    <3>2. IsSumOf(f, r, smaller)
      BY <1>3, <3>1
    <3>3. IsFiniteSet(s)
      BY <1>3, FS_Subset
    <3>4. own[r] = smaller[r]
      <4>. HIDE DEF own, smaller, r
      <4>. QED  BY <2>1, <3>1, <3>2, <3>3, SumsAgree
    <3>. QED
      BY <2>2, <2>4, <3>4
  <2>. QED
    BY <2>3, <2>4
<1>5. ASSUME NEW s \in SUBSET t, s # {} PROVE all[s \ {Picked(s)}] = value(s \ {Picked(s)})
  <2>1. s \ {Picked(s)} \in SUBSET t /\ s \ {Picked(s)} # t
    BY <1>5, PickedIn
  <2>2. all[s \ {Picked(s)}] = total(s \ {Picked(s)})
    BY <2>1
  <2>. QED
    BY <1>4, <2>1, <2>2
<1>. HIDE DEF value
<1>6. all = [s \in SUBSET t |-> IF s = {} THEN 0 ELSE f[Picked(s)] + all[s \ {Picked(s)}]]
  BY <1>5
<1>. QED
  BY <1>3, <1>6 DEF IsSumOf

\* The sum over a set is the solution's value there.
LEMMA SumIsSolution ==
  ASSUME NEW f, NEW S, IsFiniteSet(S), NEW T \in SUBSET S, NEW sum, IsSumOf(f, S, sum)
  PROVE  SumFunctionOnSet(f, T) = sum[T]
<1>. DEFINE own == CHOOSE g : IsSumOf(f, T, g)
<1>1. SumFunctionOnSet(f, T) = own[T]
  BY DEF SumFunctionOnSet, FoldFunctionOnSet, MapThenFoldSet, IsSumOf, Picked
<1>2. IsFiniteSet(T)
  BY FS_Subset
<1>3. IsSumOf(f, T, own)
  BY <1>2, SumExists
<1>. HIDE DEF own
<1>. QED
  BY <1>1, <1>2, <1>3, SumsAgree

------------------------------------------------------------------------------
(* The two equations of a sum *)

LEMMA SumEmpty == ASSUME NEW f PROVE SumFunctionOnSet(f, {}) = 0
<1>1. IsFiniteSet({})
  BY FS_EmptySet
<1>2. PICK sum : IsSumOf(f, {}, sum)
  BY <1>1, SumExists
<1>3. sum[{}] = 0
  BY <1>2 DEF IsSumOf
<1>. QED
  BY <1>1, <1>2, <1>3, SumIsSolution

LEMMA SumStep ==
  ASSUME NEW f, NEW S, IsFiniteSet(S), S # {}
  PROVE  SumFunctionOnSet(f, S) = f[Picked(S)] + SumFunctionOnSet(f, S \ {Picked(S)})
<1>1. PICK sum : IsSumOf(f, S, sum)
  BY SumExists
<1>2. sum[S] = f[Picked(S)] + sum[S \ {Picked(S)}]
  BY <1>1 DEF IsSumOf
<1>3. /\ SumFunctionOnSet(f, S) = sum[S]
      /\ SumFunctionOnSet(f, S \ {Picked(S)}) = sum[S \ {Picked(S)}]
  BY <1>1, SumIsSolution
<1>. QED
  BY <1>2, <1>3

------------------------------------------------------------------------------
(* Sums of numbers.  Each proof looks at a smallest set that does not obey. *)

LEMMA SumInt ==
  ASSUME NEW S, IsFiniteSet(S), NEW f, \A x \in S : f[x] \in Int
  PROVE  SumFunctionOnSet(f, S) \in Int
<1>. DEFINE C == {s \in SUBSET S : SumFunctionOnSet(f, s) \notin Int}
<1>1. SUFFICES ASSUME C # {} PROVE FALSE
  OBVIOUS
<1>2. PICK t \in C : \A s \in C : s \subseteq t => s = t
  <2>1. C \in SUBSET SUBSET S
    OBVIOUS
  <2>. HIDE DEF C
  <2>. QED  BY <1>1, <2>1, SmallestSet
<1>3. t # {} /\ IsFiniteSet(t)
  <2>1. SumFunctionOnSet(f, {}) = 0
    BY SumEmpty
  <2>2. t \in SUBSET S
    OBVIOUS
  <2>3. t # {}
    BY <2>1
  <2>. QED  BY <2>2, <2>3, FS_Subset
<1>4. Picked(t) \in t /\ SumFunctionOnSet(f, t \ {Picked(t)}) \in Int
  BY <1>2, <1>3, PickedIn
<1>. QED
  BY <1>3, <1>4, SumStep

\* Any element can be taken out first: the order of the summands is immaterial.
LEMMA SumRemove ==
  ASSUME NEW S, IsFiniteSet(S), NEW f, \A y \in S : f[y] \in Int, NEW x \in S
  PROVE  SumFunctionOnSet(f, S) = f[x] + SumFunctionOnSet(f, S \ {x})
<1>. DEFINE obeys(s) == \A y \in s : SumFunctionOnSet(f, s) = f[y] + SumFunctionOnSet(f, s \ {y})
            C == {s \in SUBSET S : ~obeys(s)}
<1>1. SUFFICES ASSUME C # {} PROVE FALSE
  OBVIOUS
<1>2. PICK t \in C : \A s \in C : s \subseteq t => s = t
  <2>1. C \in SUBSET SUBSET S
    OBVIOUS
  <2>. HIDE DEF C
  <2>. QED  BY <1>1, <2>1, SmallestSet
<1>3. PICK y \in t : SumFunctionOnSet(f, t) # f[y] + SumFunctionOnSet(f, t \ {y})
  BY <1>2
<1>4. t # {} /\ t \in SUBSET S
  BY <1>2, <1>3
<1>. DEFINE p == Picked(t)
<1>5. p \in t /\ IsFiniteSet(t) /\ IsFiniteSet(t \ {y}) /\ IsFiniteSet(t \ {p})
  BY <1>4, PickedIn, FS_Subset
<1>6. \A s \in SUBSET t : s # t => obeys(s)
  BY <1>2, <1>4
<1>. HIDE DEF p, C
<1>7. SumFunctionOnSet(f, t) = f[p] + SumFunctionOnSet(f, t \ {p})
  BY <1>4, <1>5, SumStep DEF p
<1>8. p # y
  BY <1>3, <1>7
<1>9. SumFunctionOnSet(f, t \ {p}) = f[y] + SumFunctionOnSet(f, (t \ {p}) \ {y})
  BY <1>3, <1>5, <1>6, <1>8
<1>10. SumFunctionOnSet(f, t \ {y}) = f[p] + SumFunctionOnSet(f, (t \ {y}) \ {p})
  BY <1>3, <1>5, <1>6, <1>8
<1>11. (t \ {p}) \ {y} = (t \ {y}) \ {p}
  OBVIOUS
<1>. DEFINE rest == SumFunctionOnSet(f, (t \ {y}) \ {p})
<1>12. f[p] \in Int /\ f[y] \in Int /\ rest \in Int
  <2>1. IsFiniteSet((t \ {y}) \ {p}) /\ \A z \in (t \ {y}) \ {p} : f[z] \in Int
    BY <1>4, <1>5, FS_Subset
  <2>. QED  BY <1>3, <1>4, <1>5, <2>1, SumInt
<1>13. /\ SumFunctionOnSet(f, t \ {p}) = f[y] + rest
       /\ SumFunctionOnSet(f, t \ {y}) = f[p] + rest
  BY <1>9, <1>10, <1>11
<1>. HIDE DEF rest
<1>14. SumFunctionOnSet(f, t) = f[p] + (f[y] + rest)
  BY <1>7, <1>13
<1>15. f[p] + (f[y] + rest) = f[y] + (f[p] + rest)
  BY <1>12
<1>. QED
  BY <1>3, <1>13, <1>14, <1>15

\* Sums are added summand by summand.
LEMMA SumAdd ==
  ASSUME NEW S, IsFiniteSet(S), NEW f, NEW g, NEW h,
         \A x \in S : f[x] \in Int /\ g[x] \in Int /\ h[x] = f[x] + g[x]
  PROVE  SumFunctionOnSet(h, S) = SumFunctionOnSet(f, S) + SumFunctionOnSet(g, S)
<1>. DEFINE C == {s \in SUBSET S :
                    SumFunctionOnSet(h, s) # SumFunctionOnSet(f, s) + SumFunctionOnSet(g, s)}
<1>1. SUFFICES ASSUME C # {} PROVE FALSE
  OBVIOUS
<1>2. PICK t \in C : \A s \in C : s \subseteq t => s = t
  <2>1. C \in SUBSET SUBSET S
    OBVIOUS
  <2>. HIDE DEF C
  <2>. QED  BY <1>1, <2>1, SmallestSet
<1>3. t # {} /\ IsFiniteSet(t)
  <2>1. SumFunctionOnSet(f, {}) = 0 /\ SumFunctionOnSet(g, {}) = 0 /\ SumFunctionOnSet(h, {}) = 0
    BY SumEmpty
  <2>2. t \in SUBSET S
    OBVIOUS
  <2>3. t # {}
    <3>1. SumFunctionOnSet(h, t) # SumFunctionOnSet(f, t) + SumFunctionOnSet(g, t)
      OBVIOUS
    <3>2. SumFunctionOnSet(f, {}) + SumFunctionOnSet(g, {}) = 0
      BY <2>1
    <3>. HIDE DEF C
    <3>. QED  BY <2>1, <3>1, <3>2
  <2>. QED  BY <2>2, <2>3, FS_Subset
<1>. DEFINE p == Picked(t)
            r == t \ {p}
<1>4. p \in t /\ r \subseteq t /\ r # t /\ IsFiniteSet(r)
  BY <1>3, PickedIn, FS_Subset
<1>5. SumFunctionOnSet(h, r) = SumFunctionOnSet(f, r) + SumFunctionOnSet(g, r)
  BY <1>2, <1>4
<1>6. /\ SumFunctionOnSet(f, t) = f[p] + SumFunctionOnSet(f, r)
      /\ SumFunctionOnSet(g, t) = g[p] + SumFunctionOnSet(g, r)
      /\ SumFunctionOnSet(h, t) = h[p] + SumFunctionOnSet(h, r)
  BY <1>3, SumStep
<1>7. t \subseteq S /\ SumFunctionOnSet(h, t) # SumFunctionOnSet(f, t) + SumFunctionOnSet(g, t)
  BY <1>2
<1>. HIDE DEF p, r, C
<1>8. SumFunctionOnSet(f, r) \in Int /\ SumFunctionOnSet(g, r) \in Int
  BY <1>4, <1>7, SumInt
<1>. QED
  BY <1>4, <1>5, <1>6, <1>7, <1>8

\* A common factor can be taken out.
LEMMA SumScale ==
  ASSUME NEW S, IsFiniteSet(S), NEW k \in Int, NEW f, NEW h,
         \A x \in S : f[x] \in Int /\ h[x] = f[x] * k
  PROVE  SumFunctionOnSet(h, S) = SumFunctionOnSet(f, S) * k
<1>. DEFINE C == {s \in SUBSET S : SumFunctionOnSet(h, s) # SumFunctionOnSet(f, s) * k}
<1>1. SUFFICES ASSUME C # {} PROVE FALSE
  OBVIOUS
<1>2. PICK t \in C : \A s \in C : s \subseteq t => s = t
  <2>1. C \in SUBSET SUBSET S
    OBVIOUS
  <2>. HIDE DEF C
  <2>. QED  BY <1>1, <2>1, SmallestSet
<1>3. t # {} /\ IsFiniteSet(t)
  <2>1. SumFunctionOnSet(f, {}) = 0 /\ SumFunctionOnSet(h, {}) = 0
    BY SumEmpty
  <2>2. t \in SUBSET S
    OBVIOUS
  <2>3. t # {}
    BY <2>1
  <2>. QED  BY <2>2, <2>3, FS_Subset
<1>. DEFINE p == Picked(t)
            r == t \ {p}
<1>4. p \in t /\ r \subseteq t /\ r # t /\ IsFiniteSet(r)
  BY <1>3, PickedIn, FS_Subset
<1>5. SumFunctionOnSet(h, r) = SumFunctionOnSet(f, r) * k
  BY <1>2, <1>4
<1>6. /\ SumFunctionOnSet(f, t) = f[p] + SumFunctionOnSet(f, r)
      /\ SumFunctionOnSet(h, t) = h[p] + SumFunctionOnSet(h, r)
  BY <1>3, SumStep
<1>7. t \subseteq S /\ SumFunctionOnSet(h, t) # SumFunctionOnSet(f, t) * k
  BY <1>2
<1>. HIDE DEF p, r, C
<1>8. SumFunctionOnSet(f, r) \in Int
  BY <1>4, <1>7, SumInt
<1>9. f[p] \in Int /\ h[p] = f[p] * k
  BY <1>4, <1>7
<1>10. f[p] * k + SumFunctionOnSet(f, r) * k = (f[p] + SumFunctionOnSet(f, r)) * k
  BY <1>8, <1>9
<1>. QED
  BY <1>5, <1>6, <1>7, <1>9, <1>10

\* Larger summands, larger sum
LEMMA SumMonotone ==
  ASSUME NEW S, IsFiniteSet(S), NEW f, NEW g,
         \A x \in S : f[x] \in Int /\ g[x] \in Int /\ f[x] <= g[x]
  PROVE  SumFunctionOnSet(f, S) <= SumFunctionOnSet(g, S)
<1>. DEFINE C == {s \in SUBSET S : ~(SumFunctionOnSet(f, s) <= SumFunctionOnSet(g, s))}
<1>1. SUFFICES ASSUME C # {} PROVE FALSE
  OBVIOUS
<1>2. PICK t \in C : \A s \in C : s \subseteq t => s = t
  <2>1. C \in SUBSET SUBSET S
    OBVIOUS
  <2>. HIDE DEF C
  <2>. QED  BY <1>1, <2>1, SmallestSet
<1>3. t # {} /\ IsFiniteSet(t)
  <2>1. SumFunctionOnSet(f, {}) = 0 /\ SumFunctionOnSet(g, {}) = 0
    BY SumEmpty
  <2>2. t \in SUBSET S
    OBVIOUS
  <2>3. t # {}
    BY <2>1
  <2>. QED  BY <2>2, <2>3, FS_Subset
<1>. DEFINE p == Picked(t)
            r == t \ {p}
<1>4. p \in t /\ r \subseteq t /\ r # t /\ IsFiniteSet(r)
  BY <1>3, PickedIn, FS_Subset
<1>5. SumFunctionOnSet(f, r) <= SumFunctionOnSet(g, r)
  BY <1>2, <1>4
<1>6. /\ SumFunctionOnSet(f, t) = f[p] + SumFunctionOnSet(f, r)
      /\ SumFunctionOnSet(g, t) = g[p] + SumFunctionOnSet(g, r)
  BY <1>3, SumStep
<1>7. t \subseteq S /\ ~(SumFunctionOnSet(f, t) <= SumFunctionOnSet(g, t))
  BY <1>2
<1>. HIDE DEF p, r, C
<1>8. SumFunctionOnSet(f, r) \in Int /\ SumFunctionOnSet(g, r) \in Int
  BY <1>4, <1>7, SumInt
<1>. QED
  BY <1>4, <1>5, <1>6, <1>7, <1>8

\* A sum depends on the summands only.
LEMMA SumSame ==
  ASSUME NEW S, IsFiniteSet(S), NEW f, NEW g, \A x \in S : f[x] \in Int /\ f[x] = g[x]
  PROVE  SumFunctionOnSet(f, S) = SumFunctionOnSet(g, S)
<1>1. /\ SumFunctionOnSet(f, S) <= SumFunctionOnSet(g, S)
      /\ SumFunctionOnSet(g, S) <= SumFunctionOnSet(f, S)
  BY SumMonotone
<1>2. SumFunctionOnSet(f, S) \in Int /\ SumFunctionOnSet(g, S) \in Int
  BY SumInt
<1>. QED
  BY <1>1, <1>2

------------------------------------------------------------------------------
(* Consequences for natural summands and for changed ones *)

LEMMA SumNat ==
  ASSUME NEW S, IsFiniteSet(S), NEW f, \A x \in S : f[x] \in Nat
  PROVE  SumFunctionOnSet(f, S) \in Nat
<1>. DEFINE none == [x \in S |-> 0]
<1>1. \A x \in S : none[x] \in Int /\ f[x] \in Int /\ none[x] <= f[x] /\ none[x] = f[x] * 0
  OBVIOUS
<1>2. SumFunctionOnSet(f, S) \in Int
  BY <1>1, SumInt
<1>. HIDE DEF none
<1>3. SumFunctionOnSet(none, S) = SumFunctionOnSet(f, S) * 0
  BY <1>1, SumScale
<1>4. SumFunctionOnSet(none, S) <= SumFunctionOnSet(f, S)
  BY <1>1, SumMonotone
<1>. QED
  BY <1>2, <1>3, <1>4

\* Nobody has more than all together.
LEMMA SumBounds ==
  ASSUME NEW S, IsFiniteSet(S), NEW f, \A y \in S : f[y] \in Nat, NEW x \in S
  PROVE  f[x] <= SumFunctionOnSet(f, S)
<1>1. SumFunctionOnSet(f, S) = f[x] + SumFunctionOnSet(f, S \ {x})
  BY SumRemove
<1>2. SumFunctionOnSet(f, S \ {x}) \in Nat
  <2>1. IsFiniteSet(S \ {x})
    BY FS_Subset
  <2>. QED  BY <2>1, SumNat
<1>. QED
  BY <1>1, <1>2

\* A sum of zeros
LEMMA SumZero ==
  ASSUME NEW S, IsFiniteSet(S), NEW f, \A x \in S : f[x] = 0
  PROVE  SumFunctionOnSet(f, S) = 0
<1>1. SumFunctionOnSet(f, S) = SumFunctionOnSet(f, S) * 0
  BY SumScale
<1>2. SumFunctionOnSet(f, S) \in Int
  BY SumInt
<1>. QED
  BY <1>1, <1>2

\* One summand changes, the sum changes by as much.
LEMMA SumChange ==
  ASSUME NEW S, IsFiniteSet(S), NEW f, NEW g, NEW x \in S,
         \A y \in S : f[y] \in Int /\ g[y] \in Int,
         \A y \in S \ {x} : g[y] = f[y]
  PROVE  SumFunctionOnSet(g, S) = SumFunctionOnSet(f, S) + (g[x] - f[x])
<1>1. IsFiniteSet(S \ {x})
  BY FS_Subset
<1>2. SumFunctionOnSet(f, S \ {x}) = SumFunctionOnSet(g, S \ {x})
  BY <1>1, SumSame
<1>3. /\ SumFunctionOnSet(f, S) = f[x] + SumFunctionOnSet(f, S \ {x})
      /\ SumFunctionOnSet(g, S) = g[x] + SumFunctionOnSet(g, S \ {x})
  BY SumRemove
<1>4. SumFunctionOnSet(f, S \ {x}) \in Int
  BY <1>1, SumInt
<1>. QED
  BY <1>2, <1>3, <1>4

\* What leaves one summand for another leaves the sum alone.
LEMMA SumTransfer ==
  ASSUME NEW S, IsFiniteSet(S), NEW f, NEW g, NEW x \in S, NEW y \in S,
         \A z \in S : f[z] \in Int /\ g[z] \in Int,
         \A z \in S \ {x, y} : g[z] = f[z],
         IF x = y THEN g[x] = f[x] ELSE g[x] + g[y] = f[x] + f[y]
  PROVE  SumFunctionOnSet(g, S) = SumFunctionOnSet(f, S)
<1>1. CASE x = y
  BY <1>1, SumSame
<1>2. CASE x # y
  <2>. DEFINE r == S \ {x}
  <2>1. IsFiniteSet(r) /\ y \in r
    BY <1>2, FS_Subset
  <2>2. /\ SumFunctionOnSet(f, S) = f[x] + SumFunctionOnSet(f, r)
        /\ SumFunctionOnSet(g, S) = g[x] + SumFunctionOnSet(g, r)
    BY SumRemove
  <2>3. \A z \in r : f[z] \in Int /\ g[z] \in Int
    OBVIOUS
  <2>4. /\ SumFunctionOnSet(f, r) = f[y] + SumFunctionOnSet(f, r \ {y})
        /\ SumFunctionOnSet(g, r) = g[y] + SumFunctionOnSet(g, r \ {y})
    <3>. HIDE DEF r
    <3>. QED  BY <2>1, <2>3, SumRemove
  <2>5. SumFunctionOnSet(g, r \ {y}) = SumFunctionOnSet(f, r \ {y})
    <3>1. IsFiniteSet(r \ {y}) /\ \A z \in r \ {y} : g[z] \in Int /\ g[z] = f[z]
      BY <2>1, FS_Subset
    <3>. HIDE DEF r
    <3>. QED  BY <3>1, SumSame
  <2>. DEFINE rest == SumFunctionOnSet(f, r \ {y})
  <2>6. rest \in Int
    <3>1. IsFiniteSet(r \ {y}) /\ \A z \in r \ {y} : f[z] \in Int
      BY <2>1, FS_Subset
    <3>. HIDE DEF r
    <3>. QED  BY <3>1, SumInt
  <2>7. /\ SumFunctionOnSet(f, S) = f[x] + (f[y] + rest)
        /\ SumFunctionOnSet(g, S) = g[x] + (g[y] + rest)
    BY <2>2, <2>4, <2>5
  <2>. HIDE DEF rest
  <2>. QED
    BY <1>2, <2>6, <2>7
<1>. QED
  BY <1>1, <1>2

\* The sums of f over the groups d makes of S
GroupSums(f, d, S, T) == [y \in T |-> SumFunctionOnSet(f, {x \in S : d[x] = y})]

\* Every summand is in the group it is sent to and in no other: the sums of
\* the groups add up to the sum of all.
LEMMA SumOfGroups ==
  ASSUME NEW S, IsFiniteSet(S), NEW T, IsFiniteSet(T), NEW f, \A x \in S : f[x] \in Int,
         NEW d, \A x \in S : d[x] \in T
  PROVE  SumFunctionOnSet(GroupSums(f, d, S, T), T) = SumFunctionOnSet(f, S)
<1>. DEFINE C == {s \in SUBSET S :
                    SumFunctionOnSet(GroupSums(f, d, s, T), T) # SumFunctionOnSet(f, s)}
<1>1. SUFFICES ASSUME C # {} PROVE FALSE
  OBVIOUS
<1>2. PICK t \in C : \A s \in C : s \subseteq t => s = t
  <2>1. C \in SUBSET SUBSET S
    OBVIOUS
  <2>. HIDE DEF C
  <2>. QED  BY <1>1, <2>1, SmallestSet
<1>3. t # {} /\ IsFiniteSet(t)
  <2>1. ASSUME t = {} PROVE FALSE
    <3>. DEFINE none == GroupSums(f, d, {}, T)
    <3>1. \A y \in T : none[y] = 0
      <4>1. \A y \in T : none[y] = SumFunctionOnSet(f, {x \in {} : d[x] = y})
        BY DEF GroupSums
      <4>2. \A y \in T : {x \in {} : d[x] = y} = {}
        OBVIOUS
      <4>. HIDE DEF none
      <4>. QED  BY <4>1, <4>2, SumEmpty
    <3>2. SumFunctionOnSet(none, T) = 0
      <4>. HIDE DEF none
      <4>. QED  BY <3>1, SumZero
    <3>3. SumFunctionOnSet(GroupSums(f, d, t, T), T) # SumFunctionOnSet(f, t)
      OBVIOUS
    <3>. HIDE DEF C
    <3>. QED  BY <2>1, <3>2, <3>3, SumEmpty
  <2>2. t \in SUBSET S
    OBVIOUS
  <2>. QED  BY <2>1, <2>2, FS_Subset
<1>. DEFINE p == Picked(t)
            r == t \ {p}
            whole == GroupSums(f, d, t, T)
            part == GroupSums(f, d, r, T)
<1>4. p \in t /\ r \subseteq t /\ r # t /\ IsFiniteSet(r)
  BY <1>3, PickedIn, FS_Subset
<1>5. SumFunctionOnSet(part, T) = SumFunctionOnSet(f, r)
  BY <1>2, <1>4
<1>6. SumFunctionOnSet(f, t) = f[p] + SumFunctionOnSet(f, r)
  BY <1>3, SumStep
<1>7. t \subseteq S /\ SumFunctionOnSet(whole, T) # SumFunctionOnSet(f, t)
  BY <1>2
<1>8. p \in S /\ d[p] \in T /\ f[p] \in Int
  BY <1>4, <1>7
<1>9. \A y \in T : /\ whole[y] = SumFunctionOnSet(f, {x \in t : d[x] = y})
                   /\ part[y] = SumFunctionOnSet(f, {x \in r : d[x] = y})
  BY DEF GroupSums
<1>10. \A y \in T : whole[y] \in Int /\ part[y] \in Int
  <2>1. ASSUME NEW y \in T, NEW s \in SUBSET S
        PROVE SumFunctionOnSet(f, {x \in s : d[x] = y}) \in Int
    <3>. DEFINE g == {x \in s : d[x] = y}
    <3>1. IsFiniteSet(g) /\ \A x \in g : f[x] \in Int
      BY FS_Subset
    <3>. HIDE DEF g
    <3>2. SumFunctionOnSet(f, g) \in Int
      BY <3>1, SumInt
    <3>. QED  BY <3>2 DEF g
  <2>2. r \in SUBSET S /\ t \in SUBSET S
    BY <1>4, <1>7
  <2>. HIDE DEF whole, part, r, p, C
  <2>. QED  BY <1>9, <2>1, <2>2
<1>11. \A y \in T \ {d[p]} : whole[y] = part[y]
  <2>1. \A y \in T \ {d[p]} : {x \in t : d[x] = y} = {x \in r : d[x] = y}
    OBVIOUS
  <2>. HIDE DEF whole, part, r, p, C
  <2>. QED  BY <1>9, <2>1
<1>12. whole[d[p]] = f[p] + part[d[p]]
  <2>. DEFINE g == {x \in t : d[x] = d[p]}
  <2>1. g \ {p} = {x \in r : d[x] = d[p]} /\ p \in g
    BY <1>4
  <2>2. IsFiniteSet(g) /\ \A x \in g : f[x] \in Int
    BY <1>3, <1>7, FS_Subset
  <2>3. SumFunctionOnSet(f, g) = f[p] + SumFunctionOnSet(f, g \ {p})
    <3>. HIDE DEF g, p, r, C
    <3>. QED  BY <2>1, <2>2, SumRemove
  <2>. HIDE DEF whole, part, C
  <2>. QED  BY <1>8, <1>9, <2>1, <2>3
<1>. HIDE DEF whole, part, p, r, C
<1>13. SumFunctionOnSet(whole, T) = SumFunctionOnSet(part, T) + (whole[d[p]] - part[d[p]])
  BY <1>8, <1>10, <1>11, SumChange
<1>14. SumFunctionOnSet(part, T) \in Int /\ part[d[p]] \in Int
  BY <1>8, <1>10, SumInt
<1>. QED
  BY <1>5, <1>6, <1>7, <1>8, <1>12, <1>13, <1>14

==============================================================================
