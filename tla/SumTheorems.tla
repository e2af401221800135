----------------------------- MODULE SumTheorems -----------------------------
(***************************************************************************)
(* What the sums the models take over finite sets (llm_spend rows of a     *)
(* month, budgets of a plan) amount to, and what a greedy fill hands out.  *)
(* The community modules define a sum as a fold over CHOOSE; the facts are *)
(* derived with the library's well-founded strict subset ordering.         *)
(***************************************************************************)
EXTENDS Integers, Functions, FiniteSetsExt, FiniteSetTheorems, WellFoundedInduction, TLAPS

-----------------------------------------------------------------------------
(* Sums over finite sets *)

\* The element a fold takes first, and the function a sum is read from.
Pick(s) == CHOOSE x \in s : TRUE
Sums(g, f, S) == g = [s \in SUBSET S |-> IF s = {} THEN 0
                                         ELSE f[Pick(s)] + g[s \ {Pick(s)}]]
Total(f, S) == (CHOOSE g : Sums(g, f, S))[S]

LEMMA SumIsFold ==
  ASSUME NEW f, NEW S
  PROVE  FoldFunctionOnSet(+, 0, f, S) = Total(f, S)
BY DEF FoldFunctionOnSet, MapThenFoldSet, Total, Sums, Pick

LEMMA SumIsMapped ==
  ASSUME NEW f, NEW S
  PROVE  MapThenSumSet(LAMBDA x : f[x], S) = Total(f, S)
BY DEF MapThenSumSet, MapThenFoldSet, Total, Sums, Pick

\* Among subsets of a finite set one is minimal: induction on sets.
LEMMA SomeMinimal ==
  ASSUME NEW S, IsFiniteSet(S), NEW T, T \subseteq SUBSET S, T # {}
  PROVE  \E s \in T : \A t \in T : t \subseteq s => t = s
<1>1. FiniteSubsetsOf(S) = SUBSET S  BY FS_FiniteSubsetsOfFinite
<1>2. IsWellFoundedOn(StrictSubsetOrdering(S), SUBSET S)
  BY <1>1, FS_StrictSubsetOrderingWellFounded
<1>3. \E s \in T : \A t \in T : ~(<<t, s>> \in StrictSubsetOrdering(S))
  BY <1>2, WFMin
<1> QED BY <1>3 DEF StrictSubsetOrdering

LEMMA SumsAgree ==
  ASSUME NEW A, IsFiniteSet(A), NEW f, NEW S \in SUBSET A, NEW T \in SUBSET S,
         NEW g, NEW h, Sums(g, f, S), Sums(h, f, T)
  PROVE  \A s \in SUBSET T : g[s] = h[s]
<1> DEFINE Bad == {s \in SUBSET T : g[s] # h[s]}
<1> SUFFICES ASSUME Bad # {} PROVE FALSE  OBVIOUS
<1>1. IsFiniteSet(T)  BY FS_Subset
<1>2. PICK s \in Bad : \A t \in Bad : t \subseteq s => t = s
  <2> HIDE DEF Bad
  <2>1. Bad \subseteq SUBSET T  BY DEF Bad
  <2> QED BY <1>1, <2>1, SomeMinimal
<1>3. s # {}  BY DEF Sums
<1>4. Pick(s) \in s  BY <1>3 DEF Pick
<1>5. g[s \ {Pick(s)}] = h[s \ {Pick(s)}]  BY <1>2, <1>4
<1>6. g[s] = f[Pick(s)] + g[s \ {Pick(s)}]  BY <1>3 DEF Sums
<1>7. h[s] = f[Pick(s)] + h[s \ {Pick(s)}]  BY <1>3 DEF Sums
<1> QED BY <1>2, <1>5, <1>6, <1>7

LEMMA SumExists ==
  ASSUME NEW A, IsFiniteSet(A), NEW f \in [A -> Nat], NEW S \in SUBSET A
  PROVE  \E g \in [SUBSET S -> Nat] : Sums(g, f, S)
<1> DEFINE Some(s) == \E g \in [SUBSET s -> Nat] : Sums(g, f, s)
           Bad == {s \in SUBSET A : ~Some(s)}
           The(s) == CHOOSE g : g \in [SUBSET s -> Nat] /\ Sums(g, f, s)
<1> SUFFICES ASSUME Bad # {} PROVE FALSE  OBVIOUS
<1>1. PICK s \in Bad : \A t \in Bad : t \subseteq s => t = s
  <2> HIDE DEF Bad
  <2>1. Bad \subseteq SUBSET A  BY DEF Bad
  <2> QED BY <2>1, SomeMinimal
<1>2. \A t \in SUBSET s : t # s => The(t) \in [SUBSET t -> Nat] /\ Sums(The(t), f, t)
  <2> SUFFICES ASSUME NEW t \in SUBSET s, t # s
               PROVE  \E g : g \in [SUBSET t -> Nat] /\ Sums(g, f, t)
    BY Zenon
  <2> QED BY <1>1
<1>3. s # {}
  <2> SUFFICES ASSUME s = {} PROVE FALSE  OBVIOUS
  <2> DEFINE g == [t \in SUBSET s |-> 0]
  <2>1. g \in [SUBSET s -> Nat] /\ Sums(g, f, s)  BY DEF Sums
  <2> QED BY <2>1, <1>1
<1>4. \A t \in SUBSET s : t # {} => Pick(t) \in t /\ f[Pick(t)] \in Nat
  <2> TAKE t \in SUBSET s
  <2> HAVE t # {}
  <2>1. Pick(t) \in t  BY DEF Pick
  <2> QED BY <2>1, <1>1
<1> DEFINE Below(t) == The(t)[t]
           Next(t) == IF t = {} THEN 0 ELSE f[Pick(t)] + Below(t \ {Pick(t)})
           g == [t \in SUBSET s |-> Next(t)]
<1>5. \A t \in SUBSET s : t # s => Below(t) \in Nat  BY <1>2
<1>6. \A t \in SUBSET s : t # s => Below(t) = Next(t)
  <2> SUFFICES ASSUME NEW t \in SUBSET s, t # s PROVE Below(t) = Next(t)  OBVIOUS
  <2>1. CASE t = {}
    <3>1. Sums(The(t), f, t)  BY <1>2
    <3> HIDE DEF The
    <3> QED BY <2>1, <3>1 DEF Sums
  <2>2. CASE t # {}
    <3> DEFINE u == t \ {Pick(t)}
    <3>1. u \in SUBSET t /\ u # s /\ u \in SUBSET s  BY <2>2, <1>4
    <3>2. The(t)[u] = The(u)[u]
      <4>1. Sums(The(t), f, t) /\ Sums(The(u), f, u)  BY <3>1, <1>2
      <4>2. IsFiniteSet(A) /\ t \in SUBSET A  BY <1>1
      <4> HIDE DEF The, u
      <4> QED BY <4>1, <4>2, <3>1, SumsAgree
    <3>3. The(t)[t] = f[Pick(t)] + The(t)[u]
      <4>1. Sums(The(t), f, t)  BY <1>2
      <4> HIDE DEF The
      <4> QED BY <4>1, <2>2 DEF Sums
    <3> QED BY <3>2, <3>3, <2>2
  <2> QED BY <2>1, <2>2
<1>7. g \in [SUBSET s -> Nat]
  <2> SUFFICES ASSUME NEW t \in SUBSET s PROVE Next(t) \in Nat  OBVIOUS
  <2>1. t # {} => t \ {Pick(t)} \in SUBSET s /\ t \ {Pick(t)} # s  BY <1>4
  <2> HIDE DEF Below
  <2> QED BY <2>1, <1>4, <1>5
<1>8. Sums(g, f, s)
  <2>1. \A t \in SUBSET s : t # {} => t \ {Pick(t)} \in SUBSET s /\ t \ {Pick(t)} # s
    BY <1>4
  <2> HIDE DEF Below
  <2>2. \A t \in SUBSET s : t # {} => g[t \ {Pick(t)}] = Below(t \ {Pick(t)})
    BY <2>1, <1>6
  <2> QED BY <2>2 DEF Sums
<1> QED BY <1>1, <1>7, <1>8

LEMMA SumUnfolds ==
  ASSUME NEW A, IsFiniteSet(A), NEW f \in [A -> Nat], NEW S \in SUBSET A
  PROVE  /\ Total(f, S) \in Nat
         /\ S = {} => Total(f, S) = 0
         /\ S # {} => Pick(S) \in S /\ Total(f, S) = f[Pick(S)] + Total(f, S \ {Pick(S)})
<1> DEFINE G(s) == CHOOSE g : Sums(g, f, s)
<1>1. \A s \in SUBSET A : Sums(G(s), f, s)
  <2> TAKE s \in SUBSET A
  <2>1. \E g : Sums(g, f, s)  BY SumExists, Zenon
  <2> QED BY <2>1, Zenon
<1>2. PICK g \in [SUBSET S -> Nat] : Sums(g, f, S)  BY SumExists
<1>3. Total(f, S) = g[S]
  <2>1. Total(f, S) = G(S)[S]  BY DEF Total
  <2>2. Sums(G(S), f, S)  BY <1>1
  <2> HIDE DEF G
  <2> QED BY <2>1, <2>2, <1>2, SumsAgree
<1>4. CASE S = {}  BY <1>2, <1>3, <1>4 DEF Sums
<1>5. CASE S # {}
  <2> DEFINE T == S \ {Pick(S)}
  <2>1. Pick(S) \in S  BY <1>5 DEF Pick
  <2>2. Total(f, T) = G(T)[T]  BY DEF Total
  <2>3. Sums(G(T), f, T)  BY <1>1
  <2>4. T \in SUBSET S  OBVIOUS
  <2>5. G(T)[T] = g[T]
    <3> HIDE DEF G, T
    <3> QED BY <2>3, <2>4, <1>2, SumsAgree
  <2>6. g[S] = f[Pick(S)] + g[T]  BY <1>2, <1>5 DEF Sums
  <2> HIDE DEF G
  <2> QED BY <2>1, <2>2, <2>5, <2>6, <1>2, <1>3, <1>5
<1> QED BY <1>4, <1>5

LEMMA SumPick ==
  ASSUME NEW A, IsFiniteSet(A), NEW f \in [A -> Nat], NEW S \in SUBSET A, NEW x \in S
  PROVE  Total(f, S) = f[x] + Total(f, S \ {x})
<1> DEFINE Bad == {s \in SUBSET A : \E y \in s : Total(f, s) # f[y] + Total(f, s \ {y})}
<1> SUFFICES ASSUME Bad # {} PROVE FALSE  OBVIOUS
<1>1. PICK s \in Bad : \A t \in Bad : t \subseteq s => t = s
  <2> HIDE DEF Bad
  <2>1. Bad \subseteq SUBSET A  BY DEF Bad
  <2> QED BY <2>1, SomeMinimal
<1>2. s \in SUBSET A  BY <1>1
<1>3. PICK y \in s : Total(f, s) # f[y] + Total(f, s \ {y})  BY <1>1
<1> DEFINE p == Pick(s)
<1>4. p \in s /\ Total(f, s) = f[p] + Total(f, s \ {p})  BY <1>2, <1>3, SumUnfolds
<1>5. p # y  BY <1>3, <1>4
<1> HIDE DEF p
<1>6. Total(f, s \ {p}) = f[y] + Total(f, (s \ {p}) \ {y})
  <2>1. s \ {p} \in SUBSET A /\ s \ {p} \notin Bad /\ y \in s \ {p}
    BY <1>1, <1>2, <1>3, <1>4, <1>5
  <2> QED BY <2>1
<1>7. Total(f, s \ {y}) = f[p] + Total(f, (s \ {y}) \ {p})
  <2>1. s \ {y} \in SUBSET A /\ s \ {y} \notin Bad /\ p \in s \ {y}
    BY <1>1, <1>2, <1>3, <1>4, <1>5
  <2> QED BY <2>1
<1>8. (s \ {p}) \ {y} = (s \ {y}) \ {p}  OBVIOUS
<1>9. Total(f, (s \ {y}) \ {p}) \in Nat /\ f[p] \in Nat /\ f[y] \in Nat
  <2>1. (s \ {y}) \ {p} \in SUBSET A  BY <1>2
  <2> QED BY <2>1, <1>2, <1>4, SumUnfolds
<1>10. Total(f, s) = f[p] + (f[y] + Total(f, (s \ {y}) \ {p}))  BY <1>4, <1>6, <1>8
<1> QED BY <1>3, <1>7, <1>9, <1>10

\* Functions that agree have the same sum, zeros add nothing, and a summand
\* that grows makes the sum grow by as much.
LEMMA SumSame ==
  ASSUME NEW A, IsFiniteSet(A), NEW f \in [A -> Nat],
         NEW B, IsFiniteSet(B), NEW h \in [B -> Nat],
         NEW S \in SUBSET A, S \subseteq B, \A x \in S : f[x] = h[x]
  PROVE  Total(f, S) = Total(h, S)
<1> DEFINE Bad == {s \in SUBSET S : Total(f, s) # Total(h, s)}
<1> SUFFICES ASSUME Bad # {} PROVE FALSE  OBVIOUS
<1>1. PICK s \in Bad : \A t \in Bad : t \subseteq s => t = s
  <2> HIDE DEF Bad
  <2>1. Bad \subseteq SUBSET A  BY DEF Bad
  <2> QED BY <2>1, SomeMinimal
<1>2. s \in SUBSET A /\ s \in SUBSET B /\ s \in SUBSET S  BY <1>1
<1>3. s # {}
  <2>1. s = {} => Total(f, s) = 0 /\ Total(h, s) = 0  BY <1>2, SumUnfolds
  <2> QED BY <1>1, <2>1
<1>4. PICK x \in s : TRUE  BY <1>3
<1>5. Total(f, s) = f[x] + Total(f, s \ {x}) /\ Total(h, s) = h[x] + Total(h, s \ {x})
  BY <1>2, SumPick
<1>6. Total(f, s \ {x}) = Total(h, s \ {x})  BY <1>1, <1>2, <1>4
<1> QED BY <1>1, <1>2, <1>5, <1>6

LEMMA SumSkipsZeros ==
  ASSUME NEW A, IsFiniteSet(A), NEW f \in [A -> Nat], NEW S \in SUBSET A,
         NEW T \in SUBSET S, \A x \in S \ T : f[x] = 0
  PROVE  Total(f, S) = Total(f, T)
<1> DEFINE Bad == {s \in SUBSET S : T \subseteq s /\ Total(f, s) # Total(f, T)}
<1> SUFFICES ASSUME Bad # {} PROVE FALSE  OBVIOUS
<1>1. PICK s \in Bad : \A t \in Bad : t \subseteq s => t = s
  <2> HIDE DEF Bad
  <2>1. Bad \subseteq SUBSET A  BY DEF Bad
  <2> QED BY <2>1, SomeMinimal
<1>2. s \in SUBSET A /\ s \in SUBSET S /\ T \subseteq s /\ Total(f, s) # Total(f, T)  BY <1>1
<1>3. PICK x \in s : x \notin T  BY <1>2
<1>4. Total(f, s) = f[x] + Total(f, s \ {x})  BY <1>2, SumPick
<1>5. f[x] = 0 /\ Total(f, s \ {x}) \in Nat
  <2>1. s \ {x} \in SUBSET A  BY <1>2
  <2> QED BY <1>2, <1>3, <2>1, SumUnfolds
<1>6. Total(f, s \ {x}) = Total(f, T)  BY <1>1, <1>2, <1>3
<1> QED BY <1>2, <1>4, <1>5, <1>6

LEMMA SumGrows ==
  ASSUME NEW A, IsFiniteSet(A), NEW f \in [A -> Nat], NEW x \in A, NEW k \in Nat
  PROVE  Total([f EXCEPT ![x] = f[x] + k], A) = Total(f, A) + k
<1> DEFINE h == [f EXCEPT ![x] = f[x] + k]
<1>1. h \in [A -> Nat] /\ h[x] = f[x] + k /\ \A y \in A \ {x} : h[y] = f[y]  OBVIOUS
<1> HIDE DEF h
<1>2. Total(h, A \ {x}) = Total(f, A \ {x})
  <2>1. A \ {x} \in SUBSET A  OBVIOUS
  <2> QED BY <1>1, <2>1, SumSame
<1>3. A \in SUBSET A  OBVIOUS
<1>4. Total(h, A) = h[x] + Total(h, A \ {x}) /\ Total(f, A) = f[x] + Total(f, A \ {x})
  BY <1>1, <1>3, SumPick
<1>5. Total(f, A \ {x}) \in Nat
  <2>1. A \ {x} \in SUBSET A  OBVIOUS
  <2> QED BY <2>1, SumUnfolds
<1>6. Total(h, A) = Total(f, A) + k  BY <1>1, <1>2, <1>4, <1>5
<1> QED BY <1>6 DEF h

\* A sum of naturals is no smaller than the sum over a part of the set.
LEMMA SumOfPart ==
  ASSUME NEW A, IsFiniteSet(A), NEW f \in [A -> Nat], NEW S \in SUBSET A,
         NEW T \in SUBSET S
  PROVE  Total(f, T) =< Total(f, S)
<1> DEFINE Bad == {s \in SUBSET S : T \subseteq s /\ ~(Total(f, T) =< Total(f, s))}
<1> SUFFICES ASSUME Bad # {} PROVE FALSE  OBVIOUS
<1>1. PICK s \in Bad : \A t \in Bad : t \subseteq s => t = s
  <2> HIDE DEF Bad
  <2>1. Bad \subseteq SUBSET A  BY DEF Bad
  <2> QED BY <2>1, SomeMinimal
<1>2. s \in SUBSET A /\ s \in SUBSET S /\ T \subseteq s /\ T \in SUBSET A  BY <1>1
<1>3. Total(f, s) \in Nat /\ Total(f, T) \in Nat  BY <1>2, SumUnfolds
<1>4. PICK x \in s : x \notin T
  <2>1. ~(Total(f, T) =< Total(f, s))  BY <1>1
  <2>2. s # T  BY <2>1, <1>3
  <2> QED BY <2>2, <1>2
<1>5. Total(f, s) = f[x] + Total(f, s \ {x})  BY <1>2, SumPick
<1>6. Total(f, T) =< Total(f, s \ {x})  BY <1>1, <1>2, <1>4
<1>7. Total(f, s \ {x}) \in Nat /\ f[x] \in Nat
  <2>1. s \ {x} \in SUBSET A  BY <1>2
  <2> QED BY <2>1, <1>2, SumUnfolds
<1> QED BY <1>1, <1>3, <1>5, <1>6, <1>7

\* The sum of a pointwise sum.
LEMMA SumAdds ==
  ASSUME NEW A, IsFiniteSet(A), NEW f \in [A -> Nat], NEW g \in [A -> Nat],
         NEW h \in [A -> Nat], \A x \in A : f[x] = g[x] + h[x]
  PROVE  Total(f, A) = Total(g, A) + Total(h, A)
<1> DEFINE Bad == {s \in SUBSET A : Total(f, s) # Total(g, s) + Total(h, s)}
<1> SUFFICES ASSUME Bad # {} PROVE FALSE  OBVIOUS
<1>1. PICK s \in Bad : \A t \in Bad : t \subseteq s => t = s
  <2> HIDE DEF Bad
  <2>1. Bad \subseteq SUBSET A  BY DEF Bad
  <2> QED BY <2>1, SomeMinimal
<1>2. s \in SUBSET A  BY <1>1
<1>3. s # {}
  <2>1. s = {} => Total(f, s) = 0 /\ Total(g, s) = 0 /\ Total(h, s) = 0  BY <1>2, SumUnfolds
  <2> QED BY <1>1, <2>1
<1>4. PICK x \in s : TRUE  BY <1>3
<1>5. /\ Total(f, s) = f[x] + Total(f, s \ {x})
      /\ Total(g, s) = g[x] + Total(g, s \ {x})
      /\ Total(h, s) = h[x] + Total(h, s \ {x})
  BY <1>2, SumPick
<1>6. s \ {x} \in SUBSET A /\ s \ {x} \notin Bad  BY <1>1, <1>2, <1>4
<1>7. Total(f, s \ {x}) = Total(g, s \ {x}) + Total(h, s \ {x})  BY <1>6
<1>8. Total(g, s \ {x}) \in Nat /\ Total(h, s \ {x}) \in Nat  BY <1>6, SumUnfolds
<1>9. g[x] \in Nat /\ h[x] \in Nat /\ f[x] = g[x] + h[x]  BY <1>2
<1>10. Total(f, s) = Total(g, s) + Total(h, s)  BY <1>5, <1>7, <1>8, <1>9
<1> QED BY <1>1, <1>10

\* A smaller function has a smaller sum, and the same sum only if it is the same.
LEMMA SumMonotonic ==
  ASSUME NEW A, IsFiniteSet(A), NEW f \in [A -> Nat], NEW g \in [A -> Nat],
         \A x \in A : f[x] =< g[x]
  PROVE  /\ Total(f, A) =< Total(g, A)
         /\ Total(g, A) =< Total(f, A) => \A x \in A : f[x] = g[x]
<1> DEFINE gap == [x \in A |-> g[x] - f[x]]
<1>1. gap \in [A -> Nat] /\ \A x \in A : g[x] = f[x] + gap[x]
  <2>1. \A x \in A : f[x] \in Nat /\ g[x] \in Nat /\ g[x] - f[x] \in Nat  OBVIOUS
  <2> QED BY <2>1
<1> HIDE DEF gap
<1>2. Total(g, A) = Total(f, A) + Total(gap, A)  BY <1>1, SumAdds
<1>3. A \in SUBSET A  OBVIOUS
<1>4. Total(f, A) \in Nat /\ Total(gap, A) \in Nat  BY <1>1, <1>3, SumUnfolds
<1>5. ASSUME NEW x \in A, Total(g, A) =< Total(f, A) PROVE f[x] = g[x]
  <2>1. Total(gap, A) = gap[x] + Total(gap, A \ {x})  BY <1>1, <1>3, SumPick
  <2>2. Total(gap, A \ {x}) \in Nat /\ gap[x] \in Nat
    <3>1. A \ {x} \in SUBSET A  OBVIOUS
    <3> QED BY <3>1, <1>1, SumUnfolds
  <2>3. Total(gap, A) = 0  BY <1>2, <1>4, <1>5
  <2>4. gap[x] = 0  BY <2>1, <2>2, <2>3
  <2> QED BY <2>4, <1>1
<1>6. Total(f, A) =< Total(g, A)  BY <1>2, <1>4
<1> QED BY <1>5, <1>6

\* A common factor can be taken out of a sum.
LEMMA SumScales ==
  ASSUME NEW A, IsFiniteSet(A), NEW f \in [A -> Nat], NEW k \in Nat
  PROVE  /\ [x \in A |-> k * f[x]] \in [A -> Nat]
         /\ Total([x \in A |-> k * f[x]], A) = k * Total(f, A)
<1> DEFINE h == [x \in A |-> k * f[x]]
           Bad == {s \in SUBSET A : Total(h, s) # k * Total(f, s)}
<1>0. \A x \in A : f[x] \in Nat /\ k * f[x] \in Nat
  <2> TAKE x \in A
  <2> DEFINE y == f[x]
  <2>1. y \in Nat  OBVIOUS
  <2> HIDE DEF y
  <2>2. k * y \in Nat  BY <2>1
  <2> QED BY <2>1, <2>2 DEF y
<1>1. h \in [A -> Nat] /\ \A x \in A : h[x] = k * f[x]  BY <1>0
<1> HIDE DEF h
<1>2. Bad = {}
  <2> SUFFICES ASSUME Bad # {} PROVE FALSE  OBVIOUS
  <2>1. PICK s \in Bad : \A t \in Bad : t \subseteq s => t = s
    <3> HIDE DEF Bad
    <3>1. Bad \subseteq SUBSET A  BY DEF Bad
    <3> QED BY <3>1, SomeMinimal
  <2>2. s \in SUBSET A  BY <2>1
  <2>3. s # {}
    <3>1. s = {} => Total(h, s) = 0 /\ Total(f, s) = 0  BY <1>1, <2>2, SumUnfolds
    <3> QED BY <2>1, <3>1
  <2>4. PICK x \in s : TRUE  BY <2>3
  <2>5. s \ {x} \in SUBSET A /\ s \ {x} \notin Bad  BY <2>1, <2>2, <2>4
  <2> DEFINE a == f[x]
             b == Total(f, s \ {x})
  <2>6. a \in Nat /\ b \in Nat  BY <2>2, <2>5, SumUnfolds
  <2>7. Total(f, s) = a + b  BY <2>2, SumPick
  <2>8. Total(h, s) = k * a + k * b
    <3>1. Total(h, s) = h[x] + Total(h, s \ {x})  BY <1>1, <2>2, SumPick
    <3> QED BY <1>1, <2>2, <2>5, <3>1
  <2> HIDE DEF a, b
  <2>9. k * (a + b) = k * a + k * b  BY <2>6
  <2> QED BY <2>1, <2>7, <2>8, <2>9
<1>3. Total(h, A) = k * Total(f, A)  BY <1>2
<1> QED BY <1>1, <1>3 DEF h

-----------------------------------------------------------------------------
(* A strict total order, given by what comes before each element *)

Ordered(C, before) ==
  /\ \A c \in C : before[c] \subseteq C /\ c \notin before[c]
  /\ \A c, d \in C : d \in before[c] => before[d] \subseteq before[c]
  /\ \A c, d \in C : c = d \/ c \in before[d] \/ d \in before[c]

\* A non-empty part of a finite order has a first element and a last one.
LEMMA FirstExists ==
  ASSUME NEW C, IsFiniteSet(C), NEW before, Ordered(C, before),
         NEW D \in SUBSET C, D # {}
  PROVE  \E m \in D : \A d \in D : d = m \/ m \in before[d]
<1> DEFINE Heads == {before[c] : c \in D}
<1>1. PICK s \in Heads : \A t \in Heads : t \subseteq s => t = s
  <2>1. Heads \subseteq SUBSET C /\ Heads # {}  BY DEF Ordered
  <2> HIDE DEF Heads
  <2> QED BY <2>1, SomeMinimal
<1>2. PICK m \in D : before[m] = s  BY <1>1
<1>3. ASSUME NEW d \in D, d # m, m \notin before[d] PROVE FALSE
  <2>1. d \in before[m] /\ before[d] \subseteq before[m] /\ d \notin before[d]
    BY <1>3 DEF Ordered
  <2> QED BY <1>1, <1>2, <2>1
<1> QED BY <1>3

LEMMA LastExists ==
  ASSUME NEW C, IsFiniteSet(C), NEW before, Ordered(C, before),
         NEW D \in SUBSET C, D # {}
  PROVE  \E m \in D : \A d \in D : d = m \/ d \in before[m]
<1> DEFINE After(c) == {d \in C : c \in before[d]}
           Tails == {After(c) : c \in D}
<1>1. PICK s \in Tails : \A t \in Tails : t \subseteq s => t = s
  <2>1. Tails \subseteq SUBSET C /\ Tails # {}  OBVIOUS
  <2> HIDE DEF Tails
  <2> QED BY <2>1, SomeMinimal
<1>2. PICK m \in D : After(m) = s  BY <1>1
<1>3. ASSUME NEW d \in D, d # m, d \notin before[m] PROVE FALSE
  <2>1. m \in before[d] /\ d \in C /\ m \in C  BY <1>3 DEF Ordered
  <2>2. After(d) \subseteq After(m)
    <3> SUFFICES ASSUME NEW x \in C, d \in before[x] PROVE m \in before[x]  OBVIOUS
    <3> QED BY <2>1 DEF Ordered
  <2>3. d \in After(m) /\ d \notin After(d)  BY <2>1 DEF Ordered
  <2>4. After(d) \in Tails  OBVIOUS
  <2> HIDE DEF After, Tails
  <2> QED BY <1>1, <1>2, <2>2, <2>3, <2>4
<1> QED BY <1>3

\* The greedy fill: each takes, in the order, what those before it left of the
\* amount and up to its own room.  All of it is handed out if there is room for it.
LEMMA GreedyFillsAll ==
  ASSUME NEW C, IsFiniteSet(C), NEW before, Ordered(C, before),
         NEW room \in [C -> Nat], NEW given \in [C -> Nat],
         NEW amount \in Nat, amount =< Total(room, C),
         \A c \in C :
           LET left == amount - Total(room, before[c])
           IN  given[c] = IF left =< 0 THEN 0 ELSE IF left < room[c] THEN left ELSE room[c]
  PROVE  Total(given, C) = amount
<1> DEFINE Closed(D) == \A c \in D : before[c] \subseteq D
           Least(a, b) == IF a < b THEN a ELSE b
           Bad == {D \in SUBSET C : Closed(D) /\ Total(given, D) # Least(amount, Total(room, D))}
<1>1. Bad = {}
  <2> SUFFICES ASSUME Bad # {} PROVE FALSE  OBVIOUS
  <2>1. PICK D \in Bad : \A t \in Bad : t \subseteq D => t = D
    <3> HIDE DEF Bad
    <3>1. Bad \subseteq SUBSET C  BY DEF Bad
    <3> QED BY <3>1, SomeMinimal
  <2>2. D \in SUBSET C /\ Closed(D)  BY <2>1
  <2>3. D # {}
    <3>1. D = {} => Total(given, D) = 0 /\ Total(room, D) = 0  BY <2>2, SumUnfolds
    <3> QED BY <2>1, <3>1
  <2>4. PICK m \in D : \A d \in D : d = m \/ d \in before[m]
    <3>1. D \in SUBSET C  BY <2>2
    <3> HIDE DEF Bad, Closed
    <3> QED BY <3>1, <2>3, LastExists
  <2>5. before[m] = D \ {m} /\ m \in C  BY <2>2, <2>4 DEF Ordered
  <2>6. Closed(D \ {m})
    <3> SUFFICES ASSUME NEW c \in D \ {m} PROVE before[c] \subseteq D \ {m}  OBVIOUS
    <3>1. c \in before[m] /\ c \in C  BY <2>2, <2>5
    <3> QED BY <3>1, <2>5 DEF Ordered
  <2>7. D \ {m} \in SUBSET C /\ D \ {m} \notin Bad  BY <2>1, <2>2, <2>4
  <2>8. Total(given, D \ {m}) = Least(amount, Total(room, D \ {m}))  BY <2>6, <2>7
  <2>9. Total(given, D) = given[m] + Total(given, D \ {m})  BY <2>2, <2>4, SumPick
  <2>10. Total(room, D) = room[m] + Total(room, D \ {m})  BY <2>2, <2>4, SumPick
  <2>11. Total(room, D \ {m}) \in Nat /\ room[m] \in Nat  BY <2>5, <2>7, SumUnfolds
  <2> DEFINE past == Total(room, D \ {m})
             left == amount - past
  <2>12. given[m] = IF left =< 0 THEN 0 ELSE IF left < room[m] THEN left ELSE room[m]
    BY <2>5
  <2>13. Total(given, D) = Least(amount, Total(room, D))
    <3>1. past \in Nat  BY <2>11
    <3>2. Total(given, D \ {m}) = Least(amount, past) /\ Total(room, D) = room[m] + past
      BY <2>8, <2>10
    <3> HIDE DEF past
    <3> QED BY <3>1, <3>2, <2>9, <2>11, <2>12
  <2> QED BY <2>1, <2>13
<1>2. C \in SUBSET C /\ Closed(C)  BY DEF Ordered
<1>3. Total(given, C) = Least(amount, Total(room, C))  BY <1>1, <1>2
<1>4. Total(room, C) \in Nat  BY <1>2, SumUnfolds
<1> QED BY <1>3, <1>4
=============================================================================
