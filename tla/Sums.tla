-------------------------------- MODULE Sums --------------------------------
(***************************************************************************)
(* What SumFunctionOnSet of the community modules computes, for any finite *)
(* set of indices: a number that does not depend on the order in which the *)
(* indices are chosen.  The induction is over the subsets of the index     *)
(* set: a set of counterexamples would have a minimal one.  And what the   *)
(* filter of Picking leaves of a list: its elements, in their order.       *)
(***************************************************************************)
EXTENDS Integers, Sequences, Functions, Picking, FiniteSetTheorems, TLAPS

\* A set of finite sets that is not empty has a minimal element.
LEMMA MinimalSubset ==
    ASSUME NEW S, IsFiniteSet(S), NEW Bad \in SUBSET (SUBSET S), Bad # {}
    PROVE  \E s \in Bad : \A t \in SUBSET s : t # s => t \notin Bad
<1>1. IsWellFoundedOn(StrictSubsetOrdering(S), SUBSET S)
  BY FS_StrictSubsetOrderingWellFounded, FS_FiniteSubsetsOfFinite
<1>2. PICK s \in Bad : \A t \in Bad : ~(<<t, s>> \in StrictSubsetOrdering(S))
  BY <1>1, WFMin
<1>3. ASSUME NEW t \in SUBSET s, t # s, t \in Bad
      PROVE  <<t, s>> \in StrictSubsetOrdering(S)
  BY <1>3 DEF StrictSubsetOrdering
<1>4. \A t \in SUBSET s : t # s => t \notin Bad
  BY <1>2, <1>3
<1>. QED BY <1>4

-----------------------------------------------------------------------------
(* The recursive function of MapThenFoldSet, as a relation.                *)

Chosen(s) == CHOOSE x \in s : TRUE

Term(f, g, s) == IF s = {} THEN 0 ELSE f[Chosen(s)] + g[s \ {Chosen(s)}]

\* g is the function iter of MapThenFoldSet that sums f over the subsets of S.
Adds(g, f, S) == g = [s \in SUBSET S |-> Term(f, g, s)]

LEMMA ChosenIn == ASSUME NEW s, s # {} PROVE Chosen(s) \in s
BY DEF Chosen

LEMMA AddsAt ==
    ASSUME NEW f, NEW g, NEW S, Adds(g, f, S), NEW s \in SUBSET S
    PROVE  g[s] = IF s = {} THEN 0 ELSE f[Chosen(s)] + g[s \ {Chosen(s)}]
<1>. DEFINE rhs == [u \in SUBSET S |-> Term(f, g, u)]
<1>1. g = rhs
  BY DEF Adds
<1>2. rhs[s] = Term(f, g, s)
  OBVIOUS
<1>. QED BY <1>1, <1>2 DEF Term

\* Two such functions agree where both are defined.
LEMMA AddsAgree ==
    ASSUME NEW f, NEW S, IsFiniteSet(S), NEW U \in SUBSET S, NEW V \in SUBSET S,
           NEW g, NEW h, Adds(g, f, U), Adds(h, f, V),
           NEW u \in SUBSET U, u \in SUBSET V
    PROVE  g[u] = h[u]
<1>. DEFINE Bad == {s \in SUBSET S : s \subseteq U /\ s \subseteq V /\ g[s] # h[s]}
<1>. SUFFICES ASSUME Bad # {} PROVE FALSE
  OBVIOUS
<1>0. Bad \in SUBSET (SUBSET S)
  OBVIOUS
<1>. HIDE DEF Bad
<1>1. PICK s \in Bad : \A t \in SUBSET s : t # s => t \notin Bad
  BY <1>0, MinimalSubset
<1>. USE DEF Bad
<1>2. s \in SUBSET U /\ s \in SUBSET V /\ g[s] # h[s]
  OBVIOUS
<1>3. s # {}
  BY <1>2, AddsAt
<1>. DEFINE x == Chosen(s)
<1>4. x \in s
  BY <1>3, ChosenIn
<1>5. g[s \ {x}] = h[s \ {x}]
  BY <1>1, <1>2, <1>4
<1>. HIDE DEF x
<1>6. g[s] = f[x] + g[s \ {x}] /\ h[s] = f[x] + h[s \ {x}]
  BY <1>2, <1>3, AddsAt DEF x
<1>. QED BY <1>2, <1>5, <1>6

\* There is one for every finite set.
LEMMA AddsExists ==
    ASSUME NEW f, NEW S, IsFiniteSet(S)
    PROVE  \E g : Adds(g, f, S)
<1>. DEFINE Bad == {s \in SUBSET S : ~ \E g : Adds(g, f, s)}
<1>. SUFFICES ASSUME Bad # {} PROVE FALSE
  OBVIOUS
<1>0. Bad \in SUBSET (SUBSET S)
  OBVIOUS
<1>. HIDE DEF Bad
<1>1. PICK s \in Bad : \A t \in SUBSET s : t # s => t \notin Bad
  BY <1>0, MinimalSubset
<1>. USE DEF Bad
<1>. DEFINE G(v) == CHOOSE g : Adds(g, f, v)
            h == [v \in SUBSET s |->
                    IF v = {} THEN 0 ELSE f[Chosen(v)] + G(v \ {Chosen(v)})[v \ {Chosen(v)}]]
<1>2. ASSUME NEW v \in SUBSET s, v # s
      PROVE  Adds(G(v), f, v)
  <2>1. \E g : Adds(g, f, v)
    BY <1>1, <1>2
  <2>. QED BY <2>1
<1>3. ASSUME NEW v \in SUBSET s, v # s
      PROVE  h[v] = G(v)[v]
  <2>. DEFINE x == Chosen(v)
              w == v \ {x}
  <2>1. Adds(G(v), f, v)
    BY <1>2, <1>3
  <2>. HIDE DEF G
  <2>2. CASE v = {}
    <3>1. G(v)[v] = 0
      BY <2>1, <2>2, AddsAt
    <3>. QED BY <2>2, <3>1
  <2>3. CASE v # {}
    <3>1. x \in v
      BY <2>3, ChosenIn
    <3>2. w \in SUBSET s /\ w # s /\ w \in SUBSET v
      BY <3>1
    <3>3. Adds(G(w), f, w)
      BY <3>2, <1>2 DEF G
    <3>4. v \in SUBSET S /\ w \in SUBSET S
      BY <3>2
    <3>5. G(w)[w] = G(v)[w]
      <4>. HIDE DEF w
      <4>1. w \in SUBSET w
        OBVIOUS
      <4>. QED BY <2>1, <3>2, <3>3, <3>4, <4>1, AddsAgree
    <3>6. G(v)[v] = f[x] + G(v)[w]
      BY <2>1, <2>3, AddsAt
    <3>7. h[v] = f[x] + G(w)[w]
      BY <2>3
    <3>. QED BY <3>5, <3>6, <3>7
  <2>. QED BY <2>2, <2>3
<1>4. ASSUME NEW v \in SUBSET s
      PROVE  h[v] = Term(f, h, v)
  <2>1. CASE v = {}
    BY <2>1 DEF Term
  <2>2. CASE v # {}
    <3>. DEFINE x == Chosen(v)
                w == v \ {x}
    <3>1. x \in v
      BY <2>2, ChosenIn
    <3>2. w \in SUBSET s /\ w # s
      BY <3>1
    <3>3. h[v] = f[x] + G(w)[w]
      BY <2>2
    <3>4. h[w] = G(w)[w]
      BY <3>2, <1>3
    <3>. HIDE DEF h, G
    <3>. QED BY <2>2, <3>3, <3>4 DEF Term
  <2>. QED BY <2>1, <2>2
<1>5. Adds(h, f, s)
  <2>1. h = [v \in SUBSET s |-> h[v]]
    OBVIOUS
  <2>. HIDE DEF h
  <2>. QED BY <2>1, <1>4 DEF Adds
<1>. QED BY <1>5

-----------------------------------------------------------------------------
(* The sum.                                                                *)

LEMMA SumAdds ==
    ASSUME NEW f, NEW S, IsFiniteSet(S)
    PROVE  \E g : Adds(g, f, S) /\ SumFunctionOnSet(f, S) = g[S]
<1>. DEFINE iter == CHOOSE g : Adds(g, f, S)
<1>1. Adds(iter, f, S)
  BY AddsExists
<1>2. SumFunctionOnSet(f, S) = iter[S]
  BY DEF SumFunctionOnSet, FoldFunctionOnSet, MapThenFoldSet, Adds, Term, Chosen
<1>. QED BY <1>1, <1>2

LEMMA SumEmpty == ASSUME NEW f PROVE SumFunctionOnSet(f, {}) = 0
<1>1. IsFiniteSet({})
  BY FS_EmptySet
<1>2. PICK g : Adds(g, f, {}) /\ SumFunctionOnSet(f, {}) = g[{}]
  BY <1>1, SumAdds
<1>. QED BY <1>2, AddsAt

LEMMA SumUnfold ==
    ASSUME NEW f, NEW S, IsFiniteSet(S), S # {}
    PROVE  LET c == Chosen(S)
           IN SumFunctionOnSet(f, S) = f[c] + SumFunctionOnSet(f, S \ {c})
<1>. DEFINE c == Chosen(S)
            T == S \ {c}
<1>1. IsFiniteSet(T) /\ T \in SUBSET S
  BY FS_Subset
<1>2. PICK g : Adds(g, f, S) /\ SumFunctionOnSet(f, S) = g[S]
  BY SumAdds
<1>3. PICK h : Adds(h, f, T) /\ SumFunctionOnSet(f, T) = h[T]
  BY <1>1, SumAdds
<1>4. g[T] = h[T]
  <2>. HIDE DEF T
  <2>1. T \in SUBSET T /\ S \in SUBSET S
    OBVIOUS
  <2>. QED BY <1>1, <1>2, <1>3, <2>1, AddsAgree
<1>5. g[S] = f[c] + g[T]
  BY <1>2, AddsAt
<1>. QED BY <1>2, <1>3, <1>4, <1>5

\* It is a number when all its terms are.
LEMMA SumType ==
    ASSUME NEW f, NEW S, IsFiniteSet(S), \A i \in S : f[i] \in Nat
    PROVE  SumFunctionOnSet(f, S) \in Nat
<1>. DEFINE Bad == {s \in SUBSET S : SumFunctionOnSet(f, s) \notin Nat}
<1>. SUFFICES ASSUME Bad # {} PROVE FALSE
  OBVIOUS
<1>0. Bad \in SUBSET (SUBSET S)
  OBVIOUS
<1>. HIDE DEF Bad
<1>1. PICK s \in Bad : \A t \in SUBSET s : t # s => t \notin Bad
  BY <1>0, MinimalSubset
<1>. USE DEF Bad
<1>2. s # {}
  BY SumEmpty
<1>. DEFINE c == Chosen(s)
<1>3. c \in s /\ s \in SUBSET S /\ IsFiniteSet(s)
  BY <1>2, ChosenIn, FS_Subset
<1>4. SumFunctionOnSet(f, s \ {c}) \in Nat
  BY <1>1, <1>3
<1>5. SumFunctionOnSet(f, s) = f[c] + SumFunctionOnSet(f, s \ {c})
  BY <1>2, <1>3, SumUnfold
<1>6. f[c] \in Nat
  BY <1>3
<1>. HIDE DEF c
<1>. QED BY <1>4, <1>5, <1>6

\* Any term may be taken out of it.
LEMMA SumWithout ==
    ASSUME NEW f, NEW S, IsFiniteSet(S), \A i \in S : f[i] \in Nat, NEW x \in S
    PROVE  SumFunctionOnSet(f, S) = f[x] + SumFunctionOnSet(f, S \ {x})
<1>. DEFINE Sum(s) == SumFunctionOnSet(f, s)
            Bad == {s \in SUBSET S : \E y \in s : Sum(s) # f[y] + Sum(s \ {y})}
<1>. SUFFICES ASSUME Bad # {} PROVE FALSE
  OBVIOUS
<1>0. Bad \in SUBSET (SUBSET S)
  OBVIOUS
<1>. HIDE DEF Bad
<1>1. PICK s \in Bad : \A t \in SUBSET s : t # s => t \notin Bad
  BY <1>0, MinimalSubset
<1>. USE DEF Bad
<1>2. PICK y \in s : Sum(s) # f[y] + Sum(s \ {y})
  OBVIOUS
<1>. DEFINE c == Chosen(s)
            rest == s \ {c, y}
<1>3. c \in s /\ s \in SUBSET S /\ IsFiniteSet(s)
  BY <1>2, ChosenIn, FS_Subset
<1>4. Sum(s) = f[c] + Sum(s \ {c})
  BY <1>2, <1>3, SumUnfold
<1>5. y # c
  BY <1>2, <1>4
<1>6. Sum(s \ {c}) = f[y] + Sum(rest)
  <2>1. s \ {c} \notin Bad /\ y \in s \ {c} /\ s \ {c} \in SUBSET S
    BY <1>1, <1>3, <1>5
  <2>2. (s \ {c}) \ {y} = rest
    OBVIOUS
  <2>. HIDE DEF Sum, c, rest
  <2>. QED BY <2>1, <2>2
<1>7. Sum(s \ {y}) = f[c] + Sum(rest)
  <2>1. s \ {y} \notin Bad /\ c \in s \ {y} /\ s \ {y} \in SUBSET S
    BY <1>1, <1>3, <1>5
  <2>2. (s \ {y}) \ {c} = rest
    OBVIOUS
  <2>. HIDE DEF Sum, c, rest
  <2>. QED BY <2>1, <2>2
<1>8. Sum(rest) \in Nat
  <2>1. IsFiniteSet(rest) /\ \A i \in rest : f[i] \in Nat
    BY <1>3, FS_Subset
  <2>. HIDE DEF rest
  <2>. QED BY <2>1, SumType
<1>9. f[c] \in Nat /\ f[y] \in Nat
  BY <1>3
<1>. HIDE DEF Sum, c, rest, Bad
<1>. QED BY <1>2, <1>4, <1>6, <1>7, <1>8, <1>9

\* Sums over sets apart add up.
LEMMA SumUnion ==
    ASSUME NEW f, NEW S, NEW T, IsFiniteSet(S), IsFiniteSet(T), S \cap T = {}, \A i \in S \cup T : f[i] \in Nat
    PROVE  SumFunctionOnSet(f, S \cup T) = SumFunctionOnSet(f, S) + SumFunctionOnSet(f, T)
<1>. DEFINE Sum(s) == SumFunctionOnSet(f, s)
            Bad == {t \in SUBSET T : Sum(S \cup t) # Sum(S) + Sum(t)}
<1>. SUFFICES ASSUME Bad # {} PROVE FALSE
  OBVIOUS
<1>0. Bad \in SUBSET (SUBSET T)
  OBVIOUS
<1>. HIDE DEF Bad
<1>1. PICK t \in Bad : \A u \in SUBSET t : u # t => u \notin Bad
  BY <1>0, MinimalSubset
<1>. USE DEF Bad
<1>2. t \in SUBSET T /\ Sum(S \cup t) # Sum(S) + Sum(t)
  OBVIOUS
<1>3. \A u \in SUBSET T : IsFiniteSet(u) /\ IsFiniteSet(S \cup u)
  BY FS_Subset, FS_Union
<1>4. \A u \in SUBSET T : Sum(u) \in Nat /\ Sum(S \cup u) \in Nat
  BY <1>3, SumType
<1>5. Sum(S) \in Nat
  BY SumType
<1>6. t # {}
  <2>1. S \cup {} = S /\ Sum({}) = 0
    BY SumEmpty
  <2>. QED BY <1>2, <1>5, <2>1
<1>. DEFINE c == Chosen(t)
            rest == t \ {c}
<1>7. c \in t /\ rest \in SUBSET t /\ rest # t /\ rest \in SUBSET T
  BY <1>2, <1>6, ChosenIn
<1>8. Sum(S \cup rest) = Sum(S) + Sum(rest)
  BY <1>1, <1>7
<1>9. Sum(t) = f[c] + Sum(rest)
  BY <1>2, <1>3, <1>6, SumUnfold
<1>. HIDE DEF c
<1>10. (S \cup t) \ {c} = S \cup rest /\ c \in S \cup t /\ f[c] \in Nat
  BY <1>2, <1>7
<1>11. Sum(S \cup t) = f[c] + Sum(S \cup rest)
  <2>1. IsFiniteSet(S \cup t) /\ \A i \in S \cup t : f[i] \in Nat
    BY <1>2, <1>3
  <2>2. Sum(S \cup t) = f[c] + Sum((S \cup t) \ {c})
    BY <1>10, <2>1, SumWithout
  <2>. QED BY <1>10, <2>2
<1>12. Sum(rest) \in Nat
  BY <1>4, <1>7
<1>. HIDE DEF Sum, rest, Bad
<1>. QED BY <1>2, <1>5, <1>8, <1>9, <1>10, <1>11, <1>12

\* Only the terms count.
LEMMA SumSame ==
    ASSUME NEW f, NEW g, NEW S, IsFiniteSet(S), \A i \in S : f[i] = g[i]
    PROVE  SumFunctionOnSet(f, S) = SumFunctionOnSet(g, S)
<1>. DEFINE Bad == {s \in SUBSET S : SumFunctionOnSet(f, s) # SumFunctionOnSet(g, s)}
<1>. SUFFICES ASSUME Bad # {} PROVE FALSE
  OBVIOUS
<1>0. Bad \in SUBSET (SUBSET S)
  OBVIOUS
<1>. HIDE DEF Bad
<1>1. PICK s \in Bad : \A t \in SUBSET s : t # s => t \notin Bad
  BY <1>0, MinimalSubset
<1>. USE DEF Bad
<1>2. s # {}
  BY SumEmpty
<1>. DEFINE c == Chosen(s)
<1>3. c \in s /\ s \in SUBSET S /\ IsFiniteSet(s)
  BY <1>2, ChosenIn, FS_Subset
<1>4. SumFunctionOnSet(f, s \ {c}) = SumFunctionOnSet(g, s \ {c})
  BY <1>1, <1>3
<1>5. /\ SumFunctionOnSet(f, s) = f[c] + SumFunctionOnSet(f, s \ {c})
      /\ SumFunctionOnSet(g, s) = g[c] + SumFunctionOnSet(g, s \ {c})
  BY <1>2, <1>3, SumUnfold
<1>6. f[c] = g[c]
  BY <1>3
<1>. QED BY <1>1, <1>4, <1>5, <1>6

-----------------------------------------------------------------------------
(* The same over the domain of a function, as the models write it.         *)

LEMMA SumOfDomain == ASSUME NEW f PROVE SumFunction(f) = SumFunctionOnSet(f, DOMAIN f)
BY DEF SumFunction, FoldFunction, SumFunctionOnSet

-----------------------------------------------------------------------------
(* Lists with some of their places taken out.                              *)

\* A finite set of numbers has a greatest one.
LEMMA HasGreatest ==
    ASSUME NEW S \in SUBSET Int, IsFiniteSet(S), S # {}
    PROVE  \E x \in S : \A y \in S : y <= x
<1> DEFINE Bad == {T \in SUBSET S : T # {} /\ ~\E x \in T : \A y \in T : y <= x}
<1>1. Bad = {}
  <2> SUFFICES ASSUME Bad # {} PROVE FALSE
    OBVIOUS
  <2>1. Bad \in SUBSET (SUBSET S)
    OBVIOUS
  <2> HIDE DEF Bad
  <2>2. PICK T \in Bad : \A R \in SUBSET T : R # T => R \notin Bad
    BY <2>1, MinimalSubset
  <2>3. T \in SUBSET S /\ T # {} /\ ~\E x \in T : \A y \in T : y <= x
    BY DEF Bad
  <2>4. PICK z \in T : TRUE
    BY <2>3
  <2>5. T \ {z} \notin Bad /\ T \ {z} \in SUBSET S
    BY <2>2, <2>3, <2>4
  <2>6. T \ {z} # {}
    <3>1. ASSUME T \ {z} = {} PROVE FALSE
      <4>1. \A y \in T : y = z
        BY <3>1
      <4>2. z \in Int
        BY <2>3
      <4>3. \A y \in T : y <= z
        BY <4>1, <4>2
      <4>4. QED
        BY <2>3, <4>3
    <3>2. QED
      BY <3>1
  <2>7. PICK x \in T \ {z} : \A y \in T \ {z} : y <= x
    BY <2>5, <2>6 DEF Bad
  <2>8. x \in Int /\ z \in Int /\ (\A y \in T : y \in Int)
    BY <2>3
  <2>9. CASE z <= x
    BY <2>3, <2>7, <2>9
  <2>10. CASE ~(z <= x)
    <3>1. \A y \in T : y <= z
      BY <2>7, <2>8, <2>10
    <3>2. QED
      BY <2>3, <3>1
  <2>11. QED
    BY <2>9, <2>10
<1>2. \E x \in S : \A y \in S : y <= x
  BY <1>1
<1>3. QED
  BY <1>2

\* The values a function takes on a finite set are finitely many.
LEMMA ImageFinite ==
    ASSUME NEW S, IsFiniteSet(S), NEW f
    PROVE  IsFiniteSet({f[x] : x \in S})
<1> DEFINE T == {f[x] : x \in S}
           g == [x \in S |-> f[x]]
<1>1. g \in [S -> T] /\ \A t \in T : \E x \in S : g[x] = t
  OBVIOUS
<1>2. g \in Surjection(S, T)
  BY <1>1, Zenon DEF Surjection
<1>3. QED
  BY <1>2, FS_Surjection

\* Division rounds down.
LEMMA DivisionBelow ==
    ASSUME NEW a \in Nat, NEW b \in Nat \ {0}
    PROVE  a \div b \in Nat /\ (a \div b) * b <= a
OBVIOUS

\* Every place up to their number is taken, by the one with as many up to it.
LEMMA PlaceInOrder ==
    ASSUME NEW places \in SUBSET Int, IsFiniteSet(places), NEW k \in 1 .. Cardinality(places)
    PROVE  InOrder(places, k) \in places /\ Cardinality({q \in places : q <= InOrder(places, k)}) = k
<1> DEFINE Below(T, p) == {q \in T : q <= p}
           Found(T, n) == \E p \in T : Cardinality(Below(T, p)) = n
           Bad == {T \in SUBSET places : \E n \in 1 .. Cardinality(T) : ~Found(T, n)}
<1>1. Bad = {}
  <2> SUFFICES ASSUME Bad # {} PROVE FALSE
    OBVIOUS
  <2>1. Bad \in SUBSET (SUBSET places)
    OBVIOUS
  <2> HIDE DEF Bad
  <2>2. PICK T \in Bad : \A R \in SUBSET T : R # T => R \notin Bad
    BY <2>1, MinimalSubset
  <2>3. T \in SUBSET places /\ \E n \in 1 .. Cardinality(T) : ~Found(T, n)
    BY <2>2 DEF Bad
  <2>4. PICK n \in 1 .. Cardinality(T) : ~Found(T, n)
    BY <2>3
  <2>5. IsFiniteSet(T) /\ T \in SUBSET Int
    BY <2>3, FS_Subset
  <2>6. Cardinality(T) \in Nat
    BY <2>5, FS_CardinalityType
  <2>7. T # {}
    BY <2>4, FS_EmptySet
  <2>8. PICK m \in T : \A q \in T : q <= m
    BY <2>5, <2>7, HasGreatest
  <2> DEFINE rest == T \ {m}
  <2>9. Below(T, m) = T
    BY <2>8
  <2>10. n # Cardinality(T)
    BY <2>4, <2>8, <2>9
  <2>11. Cardinality(rest) = Cardinality(T) - 1
    BY <2>5, <2>8, FS_RemoveElement
  <2>12. rest \in SUBSET T /\ rest # T /\ rest \notin Bad
    BY <2>2, <2>8
  <2>13. n \in 1 .. Cardinality(rest)
    BY <2>4, <2>6, <2>10, <2>11
  <2> HIDE DEF Found
  <2>14. Found(rest, n)
    BY <2>3, <2>12, <2>13 DEF Bad
  <2>15. PICK p \in rest : Cardinality(Below(rest, p)) = n
    BY <2>14 DEF Found
  <2>16. Below(T, p) = Below(rest, p)
    <3>1. p \in Int /\ m \in Int /\ p <= m /\ p # m
      BY <2>5, <2>8, <2>15
    <3>2. ~(m <= p)
      BY <3>1
    <3> QED
      BY <3>2
  <2>17. Found(T, n)
    BY <2>15, <2>16 DEF Found
  <2> QED
    BY <2>4, <2>17
<1>2. Found(places, k)
  BY <1>1
<1> QED
  BY <1>2 DEF InOrder

LEMMA PlacesInOrder ==
    ASSUME NEW places \in SUBSET Int, IsFiniteSet(places)
    PROVE  /\ \A k, l \in 1 .. Cardinality(places) : k < l => InOrder(places, k) < InOrder(places, l)
           /\ \A p \in places : \E k \in 1 .. Cardinality(places) : InOrder(places, k) = p
<1> DEFINE n == Cardinality(places)
           Below(p) == {q \in places : q <= p}
<1>1. \A k \in 1 .. n : InOrder(places, k) \in places /\ Cardinality(Below(InOrder(places, k))) = k
  BY PlaceInOrder
<1>2. \A p \in places : IsFiniteSet(Below(p)) /\ p \in Below(p) /\ p \in Int
  BY FS_Subset
<1>3. \A p \in places : Cardinality(Below(p)) \in 1 .. n
  <2> SUFFICES ASSUME NEW p \in places PROVE Cardinality(Below(p)) \in 1 .. n
    OBVIOUS
  <2>1. Below(p) \in SUBSET places /\ IsFiniteSet(Below(p)) /\ Below(p) # {}
    BY <1>2
  <2> HIDE DEF Below
  <2>2. Cardinality(Below(p)) \in Nat /\ n \in Nat /\ Cardinality(Below(p)) <= n /\ Cardinality(Below(p)) # 0
    BY <2>1, FS_CardinalityType, FS_Subset, FS_EmptySet
  <2> QED
    BY <2>2
<1>4. ASSUME NEW p \in places, NEW q \in places, q < p
      PROVE  Cardinality(Below(q)) < Cardinality(Below(p))
  <2>1. p \in Int /\ q \in Int
    OBVIOUS
  <2>2. Below(q) \in SUBSET (Below(p) \ {p})
    <3>1. \A x \in places : x <= q => x <= p /\ x # p
      BY <1>4, <2>1
    <3> QED
      BY <3>1
  <2>3. IsFiniteSet(Below(p)) /\ p \in Below(p)
    BY <1>2
  <2> HIDE DEF Below
  <2>4. /\ Cardinality(Below(p) \ {p}) = Cardinality(Below(p)) - 1
        /\ IsFiniteSet(Below(p) \ {p})
    BY <2>3, FS_RemoveElement
  <2>5. Cardinality(Below(q)) <= Cardinality(Below(p) \ {p})
    BY <2>2, <2>4, FS_Subset
  <2>6. Cardinality(Below(p)) \in Nat /\ Cardinality(Below(q)) \in Nat
    BY <1>3
  <2> QED
    BY <2>4, <2>5, <2>6
<1>5. ASSUME NEW k \in 1 .. n, NEW l \in 1 .. n, k < l
      PROVE  InOrder(places, k) < InOrder(places, l)
  <2> DEFINE p == InOrder(places, k)
             q == InOrder(places, l)
  <2>1. p \in places /\ q \in places /\ Cardinality(Below(p)) = k /\ Cardinality(Below(q)) = l
    BY <1>1
  <2> HIDE DEF p, q, Below
  <2>2. p \in Int /\ q \in Int /\ k \in Int /\ l \in Int
    BY <2>1
  <2>3. ~(q < p) /\ p # q
    <3>1. q < p => l < k
      BY <1>4, <2>1
    <3> QED
      BY <1>5, <2>1, <2>2, <3>1
  <2>4. p < q
    BY <2>2, <2>3
  <2> QED
    BY <2>4 DEF p, q
<1>6. ASSUME NEW p \in places
      PROVE  \E k \in 1 .. n : InOrder(places, k) = p
  <2> DEFINE k == Cardinality(Below(p))
             q == InOrder(places, k)
  <2>1. k \in 1 .. n
    BY <1>3
  <2>2. q \in places /\ Cardinality(Below(q)) = k
    BY <1>1, <2>1
  <2> HIDE DEF q, Below
  <2>3. ~(q < p) /\ ~(p < q)
    <3>1. (q < p => Cardinality(Below(q)) < k) /\ (p < q => k < Cardinality(Below(q)))
      BY <1>4, <2>2
    <3>2. k \in Int
      BY <2>1
    <3> QED
      BY <2>2, <3>1, <3>2
  <2>4. q = p
    <3>1. p \in Int /\ q \in Int
      BY <2>2
    <3> QED
      BY <2>3, <3>1
  <2> QED
    BY <2>1, <2>4 DEF q
<1> QED
  BY <1>5, <1>6

\* What is picked from a list is a list of elements of it.
LEMMA PickedType ==
    ASSUME NEW s, NEW A, NEW places \in SUBSET Int, IsFiniteSet(places), \A p \in places : s[p] \in A
    PROVE  /\ Picked(s, places) \in Seq(A) /\ Len(Picked(s, places)) = Cardinality(places)
           /\ DOMAIN Picked(s, places) = 1 .. Cardinality(places)
           /\ \A k \in 1 .. Cardinality(places) :
                InOrder(places, k) \in places /\ Picked(s, places)[k] = s[InOrder(places, k)]
<1> DEFINE n == Cardinality(places)
<1>1. n \in Nat
  BY FS_CardinalityType
<1>2. Picked(s, places) = [k \in 1 .. n |-> s[InOrder(places, k)]]
  BY DEF Picked
<1>3. \A k \in 1 .. n : InOrder(places, k) \in places
  BY PlaceInOrder
<1> HIDE DEF n
<1>4. Picked(s, places) \in [1 .. n -> A]
  BY <1>2, <1>3
<1>5. Picked(s, places) \in Seq(A) /\ Len(Picked(s, places)) = n /\ DOMAIN Picked(s, places) = 1 .. n
  BY <1>1, <1>4
<1> QED
  BY <1>2, <1>3, <1>5 DEF n

\* A part of a sum is no more than the whole.
LEMMA SumOfPart ==
    ASSUME NEW f, NEW S, IsFiniteSet(S), \A i \in S : f[i] \in Nat, NEW T \in SUBSET S
    PROVE  /\ SumFunctionOnSet(f, T) \in Nat /\ SumFunctionOnSet(f, S) \in Nat
           /\ SumFunctionOnSet(f, T) <= SumFunctionOnSet(f, S)
<1> DEFINE R == S \ T
<1>1. IsFiniteSet(T) /\ IsFiniteSet(R) /\ T \cap R = {} /\ T \cup R = S
  BY FS_Subset
<1>2. \A i \in T \cup R : f[i] \in Nat
  BY <1>1
<1> HIDE DEF R
<1>3. SumFunctionOnSet(f, T \cup R) = SumFunctionOnSet(f, T) + SumFunctionOnSet(f, R)
  BY <1>1, <1>2, SumUnion
<1>4. SumFunctionOnSet(f, T) \in Nat /\ SumFunctionOnSet(f, R) \in Nat
  BY <1>1, <1>2, SumType
<1>5. SumFunctionOnSet(f, S) = SumFunctionOnSet(f, T) + SumFunctionOnSet(f, R)
  BY <1>1, <1>3
<1> DEFINE s == SumFunctionOnSet(f, S)
           t == SumFunctionOnSet(f, T)
           r == SumFunctionOnSet(f, R)
<1>6. s = t + r /\ t \in Nat /\ r \in Nat
  BY <1>4, <1>5
<1> HIDE DEF s, t, r
<1>7. t \in Nat /\ s \in Nat /\ t <= s
  BY <1>6
<1> QED
  BY <1>7 DEF s, t

\* The members of a group, and of several.
Group(K, f, v) == {k \in K : f[k] = v}
GroupsOf(K, f, V) == {k \in K : f[k] \in V}

\* Counted group by group, the members are those whose group is counted.
LEMMA SumOfGroups ==
    ASSUME NEW K, IsFiniteSet(K), NEW f, NEW V, IsFiniteSet(V),
           NEW c, \A v \in V : c[v] = Cardinality(Group(K, f, v))
    PROVE  SumFunctionOnSet(c, V) = Cardinality(GroupsOf(K, f, V))
<1> DEFINE In(W) == GroupsOf(K, f, W)
           Bad == {W \in SUBSET V : SumFunctionOnSet(c, W) # Cardinality(In(W))}
<1> SUFFICES ASSUME Bad # {} PROVE FALSE
  OBVIOUS
<1>0. Bad \in SUBSET (SUBSET V)
  OBVIOUS
<1> HIDE DEF Bad
<1>1. PICK W \in Bad : \A U \in SUBSET W : U # W => U \notin Bad
  BY <1>0, MinimalSubset
<1> USE DEF Bad
<1>2. W \in SUBSET V /\ SumFunctionOnSet(c, W) # Cardinality(In(W)) /\ IsFiniteSet(W)
  BY FS_Subset
<1>3. W # {}
  <2>1. ASSUME W = {} PROVE FALSE
    <3>1. In(W) = {}
      BY <2>1 DEF GroupsOf
    <3>2. SumFunctionOnSet(c, W) = 0 /\ Cardinality(In(W)) = 0
      BY <2>1, <3>1, SumEmpty, FS_EmptySet
    <3> QED
      BY <1>2, <3>2
  <2> QED
    BY <2>1
<1>4. PICK x \in W : TRUE
  BY <1>3
<1> DEFINE U == W \ {x}
           Of == Group(K, f, x)
<1>5. U \in SUBSET W /\ U # W /\ U \notin Bad /\ U \in SUBSET V
  BY <1>1, <1>2, <1>4
<1>6. SumFunctionOnSet(c, U) = Cardinality(In(U))
  BY <1>5
<1>7. In(W) = In(U) \cup Of /\ In(U) \cap Of = {}
  BY <1>4 DEF GroupsOf, Group
<1>8. IsFiniteSet(In(U)) /\ IsFiniteSet(Of)
  <2>1. In(U) \in SUBSET K /\ Of \in SUBSET K
    BY DEF GroupsOf, Group
  <2> QED
    BY <2>1, FS_Subset
<1>9. Cardinality(Of) \in Nat /\ Cardinality(In(U)) \in Nat
  BY <1>8, FS_CardinalityType
<1>10. c[x] = Cardinality(Of)
  BY <1>2, <1>4
<1>11. \A v \in W : c[v] \in Nat
  <2> SUFFICES ASSUME NEW v \in W PROVE c[v] \in Nat
    OBVIOUS
  <2> DEFINE J == Group(K, f, v)
  <2>1. c[v] = Cardinality(J)
    BY <1>2
  <2>2. IsFiniteSet(J)
    <3>1. J \in SUBSET K
      BY DEF Group
    <3> QED
      BY <3>1, FS_Subset
  <2> HIDE DEF J
  <2> QED
    BY <2>1, <2>2, FS_CardinalityType
<1> HIDE DEF U, Of, In
<1>12. SumFunctionOnSet(c, W) = c[x] + SumFunctionOnSet(c, U)
  BY <1>2, <1>4, <1>11, SumWithout DEF U
<1>13. Cardinality(In(W)) = Cardinality(In(U)) + Cardinality(Of)
  <2>1. Cardinality(In(U) \cup Of) = Cardinality(In(U)) + Cardinality(Of) - Cardinality(In(U) \cap Of)
    BY <1>8, FS_Union
  <2>2. Cardinality(In(U) \cap Of) = 0
    BY <1>7, FS_EmptySet
  <2> QED
    BY <1>7, <1>9, <2>1, <2>2
<1> QED
  BY <1>2, <1>6, <1>9, <1>10, <1>12, <1>13
=============================================================================
