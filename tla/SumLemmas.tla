------------------------------- MODULE SumLemmas -------------------------------
(***************************************************************************)
(* What SumFunctionOnSet computes on a finite set, for the ledger's sums   *)
(* of points and the calculators' sums of scores.                          *)
(*                                                                         *)
(* It takes the members of a set one by one, in an order CHOOSE settles.   *)
(* That the order does not matter, and what a part or one more member      *)
(* makes of a sum, is shown by a smallest set for which it would not hold. *)
(***************************************************************************)
EXTENDS Integers, Functions, FiniteSetTheorems, TLAPS

\* The member that is summed first.
First(s) == CHOOSE x \in s : TRUE

Rest(s) == s \ {First(s)}

\* f is the function the sum of w over A is computed with.
Sums(f, w, A) ==
  f = [s \in SUBSET A |-> IF s = {} THEN 0 ELSE w[First(s)] + f[Rest(s)]]

\* Of finite sets in a family, one has no proper subset in it.
LEMMA SmallestSet ==
  ASSUME NEW S, IsFiniteSet(S), NEW Bad \in SUBSET (SUBSET S), Bad # {}
  PROVE  \E T \in Bad : \A X \in SUBSET T : X # T => X \notin Bad
<1>1. FiniteSubsetsOf(S) = SUBSET S
  BY FS_FiniteSubsetsOfFinite
<1>2. IsWellFoundedOn(StrictSubsetOrdering(S), SUBSET S)
  BY <1>1, FS_StrictSubsetOrderingWellFounded
<1>3. PICK T \in Bad : \A X \in Bad : ~ (<<X, T>> \in StrictSubsetOrdering(S))
  BY <1>2, WFMin
<1>4. ASSUME NEW X \in SUBSET T, X # T PROVE X \notin Bad
  BY <1>3, <1>4 DEF StrictSubsetOrdering
<1> QED
  BY <1>4

LEMMA RestIsSmaller ==
  ASSUME NEW s, s # {}
  PROVE  First(s) \in s /\ Rest(s) \in SUBSET s /\ Rest(s) # s
BY DEF First, Rest

\* Two functions that sum the same agree where both are defined.
LEMMA SumsAgree ==
  ASSUME NEW A, NEW B, NEW v, NEW w, NEW f, NEW g, Sums(f, v, A), Sums(g, w, B),
         NEW S, IsFiniteSet(S), S \subseteq A, S \subseteq B, \A x \in S : v[x] = w[x]
  PROVE  f[S] = g[S]
<1> DEFINE Bad == {s \in SUBSET S : f[s] # g[s]}
<1> SUFFICES ASSUME Bad # {} PROVE FALSE
  OBVIOUS
<1>0. Bad \in SUBSET (SUBSET S)
  OBVIOUS
<1> HIDE DEF Bad
<1>1. PICK T \in Bad : \A X \in SUBSET T : X # T => X \notin Bad
  BY <1>0, SmallestSet
<1> USE DEF Bad
<1>2. /\ f[T] = IF T = {} THEN 0 ELSE v[First(T)] + f[Rest(T)]
      /\ g[T] = IF T = {} THEN 0 ELSE w[First(T)] + g[Rest(T)]
  BY DEF Sums
<1>3. T # {}
  BY <1>2
<1>4. f[Rest(T)] = g[Rest(T)]
  BY <1>1, <1>3, RestIsSmaller
<1>5. v[First(T)] = w[First(T)]
  BY <1>3, RestIsSmaller
<1> QED
  BY <1>2, <1>4, <1>5

\* A finite set has such a function: below a smallest set without one, every
\* set has its own, and these agree.
LEMMA SumsExist ==
  ASSUME NEW S, IsFiniteSet(S), NEW w
  PROVE  \E f : Sums(f, w, S)
<1> DEFINE Bad == {s \in SUBSET S : ~ \E f : Sums(f, w, s)}
<1> SUFFICES ASSUME Bad # {} PROVE FALSE
  OBVIOUS
<1>0. Bad \in SUBSET (SUBSET S)
  OBVIOUS
<1> HIDE DEF Bad
<1>1. PICK T \in Bad : \A X \in SUBSET T : X # T => X \notin Bad
  BY <1>0, SmallestSet
<1> USE DEF Bad
<1> DEFINE G(s) == CHOOSE f : Sums(f, w, s)
           h == [s \in SUBSET T |-> IF s = {} THEN 0 ELSE w[First(s)] + G(Rest(s))[Rest(s)]]
<1>2. ASSUME NEW X \in SUBSET T, X # T PROVE Sums(G(X), w, X)
  BY <1>1, <1>2
<1> HIDE DEF G
<1>3. ASSUME NEW s \in SUBSET T, s # {} PROVE h[Rest(s)] = G(Rest(s))[Rest(s)]
  <2> DEFINE u == Rest(s)
  <2>1. u \in SUBSET T /\ u # T /\ Sums(G(u), w, u)
    BY <1>2, <1>3, RestIsSmaller
  <2>2. CASE u = {}
    BY <2>1, <2>2 DEF Sums
  <2>3. CASE u # {}
    <3> DEFINE v == Rest(u)
    <3>0. v \in SUBSET u /\ v \in SUBSET T /\ v # T
      BY <2>1, <2>3, RestIsSmaller
    <3> HIDE DEF v
    <3>a. v \in SUBSET S
      BY <3>0
    <3>1. IsFiniteSet(v) /\ Sums(G(v), w, v)
      BY <1>2, <3>0, <3>a, FS_Subset
    <3>2. G(u)[v] = G(v)[v]
      BY <2>1, <3>0, <3>1, SumsAgree
    <3> USE DEF v
    <3>3. G(u)[u] = w[First(u)] + G(u)[v]
      BY <2>1, <2>3 DEF Sums
    <3>4. h[u] = w[First(u)] + G(v)[v]
      BY <2>1, <2>3
    <3> QED
      BY <3>2, <3>3, <3>4
  <2> QED
    BY <2>2, <2>3
<1>4. Sums(h, w, T)
  BY <1>3 DEF Sums
<1> QED
  BY <1>1, <1>4

-----------------------------------------------------------------------------
(* What SumFunctionOnSet computes. *)

LEMMA SumIsSums ==
  ASSUME NEW A, IsFiniteSet(A), NEW v, NEW w, NEW f, Sums(f, v, A),
         NEW S \in SUBSET A, \A x \in S : v[x] = w[x]
  PROVE  SumFunctionOnSet(w, S) = f[S]
<1> DEFINE g == CHOOSE g : Sums(g, w, S)
<1>1. SumFunctionOnSet(w, S) = g[S]
  BY DEF SumFunctionOnSet, FoldFunctionOnSet, MapThenFoldSet, Sums, First, Rest
<1>2. IsFiniteSet(S)
  BY FS_Subset
<1>3. Sums(g, w, S)
  BY <1>2, SumsExist
<1> HIDE DEF g
<1>4. f[S] = g[S]
  BY <1>2, <1>3, SumsAgree
<1> QED
  BY <1>1, <1>4

\* A sum depends on its members only.
LEMMA SumOfSame ==
  ASSUME NEW S, IsFiniteSet(S), NEW v, NEW w, \A x \in S : v[x] = w[x]
  PROVE  SumFunctionOnSet(v, S) = SumFunctionOnSet(w, S)
<1>1. PICK f : Sums(f, v, S)
  BY SumsExist
<1>2. PICK g : Sums(g, w, S)
  BY SumsExist
<1>3. SumFunctionOnSet(v, S) = f[S] /\ SumFunctionOnSet(w, S) = g[S]
  BY <1>1, <1>2, SumIsSums
<1>4. f[S] = g[S]
  BY <1>1, <1>2, SumsAgree
<1> QED
  BY <1>3, <1>4

LEMMA SumOfNone == ASSUME NEW w PROVE SumFunctionOnSet(w, {}) = 0
<1>1. PICK f : Sums(f, w, {})
  BY SumsExist, FS_EmptySet
<1>2. SumFunctionOnSet(w, {}) = f[{}]
  BY <1>1, SumIsSums, FS_EmptySet
<1>3. f[{}] = 0
  BY <1>1 DEF Sums
<1> QED
  BY <1>2, <1>3

LEMMA SumOfFirst ==
  ASSUME NEW w, NEW S, IsFiniteSet(S), S # {}
  PROVE  SumFunctionOnSet(w, S) = w[First(S)] + SumFunctionOnSet(w, Rest(S))
<1>1. PICK f : Sums(f, w, S)
  BY SumsExist
<1>2. Rest(S) \in SUBSET S
  BY RestIsSmaller
<1>3. SumFunctionOnSet(w, S) = f[S] /\ SumFunctionOnSet(w, Rest(S)) = f[Rest(S)]
  BY <1>1, <1>2, SumIsSums
<1> QED
  BY <1>1, <1>3 DEF Sums

LEMMA SumType ==
  ASSUME NEW w, NEW S, IsFiniteSet(S), \A x \in S : w[x] \in Nat
  PROVE  SumFunctionOnSet(w, S) \in Nat
<1> DEFINE Bad == {s \in SUBSET S : SumFunctionOnSet(w, s) \notin Nat}
<1> SUFFICES ASSUME Bad # {} PROVE FALSE
  OBVIOUS
<1>0. Bad \in SUBSET (SUBSET S)
  OBVIOUS
<1> HIDE DEF Bad
<1>1. PICK T \in Bad : \A X \in SUBSET T : X # T => X \notin Bad
  BY <1>0, SmallestSet
<1> USE DEF Bad
<1>2. T # {}
  BY SumOfNone
<1>3. /\ SumFunctionOnSet(w, T) = w[First(T)] + SumFunctionOnSet(w, Rest(T))
      /\ w[First(T)] \in Nat
  BY <1>2, SumOfFirst, RestIsSmaller, FS_Subset
<1>4. SumFunctionOnSet(w, Rest(T)) \in Nat
  BY <1>1, <1>2, RestIsSmaller
<1> QED
  BY <1>3, <1>4

\* Any member may be taken first.
LEMMA SumOfAny ==
  ASSUME NEW w, NEW S, IsFiniteSet(S), \A z \in S : w[z] \in Nat, NEW x \in S
  PROVE  SumFunctionOnSet(w, S) = w[x] + SumFunctionOnSet(w, S \ {x})
<1> DEFINE Holds(s, y) == SumFunctionOnSet(w, s) = w[y] + SumFunctionOnSet(w, s \ {y})
           Bad == {s \in SUBSET S : \E y \in s : ~ Holds(s, y)}
<1> SUFFICES ASSUME Bad # {} PROVE FALSE
  OBVIOUS
<1> HIDE DEF Holds
<1>0. Bad \in SUBSET (SUBSET S)
  OBVIOUS
<1> HIDE DEF Bad
<1>1. PICK T \in Bad : \A X \in SUBSET T : X # T => X \notin Bad
  BY <1>0, SmallestSet
<1> USE DEF Bad
<1>2. PICK y \in T : ~ Holds(T, y)
  BY <1>1
<1> DEFINE r == First(T)
<1>3. /\ r \in T /\ SumFunctionOnSet(w, T) = w[r] + SumFunctionOnSet(w, T \ {r})
      /\ w[r] \in Nat /\ w[y] \in Nat
  BY <1>2, SumOfFirst, RestIsSmaller, FS_Subset DEF Rest
<1> HIDE DEF r
<1>4. y # r
  BY <1>2, <1>3 DEF Holds
<1>5. Holds(T \ {r}, y) /\ Holds(T \ {y}, r)
  <2>1. T \ {r} \in SUBSET T /\ T \ {r} # T /\ T \ {y} \in SUBSET T /\ T \ {y} # T
    BY <1>2, <1>3
  <2>2. y \in T \ {r} /\ r \in T \ {y}
    BY <1>2, <1>3, <1>4
  <2> QED
    BY <1>1, <2>1, <2>2
<1>6. (T \ {r}) \ {y} = (T \ {y}) \ {r}
  OBVIOUS
<1>7. SumFunctionOnSet(w, (T \ {r}) \ {y}) \in Nat
  BY SumType, FS_Subset
<1>8. /\ SumFunctionOnSet(w, T \ {r}) = w[y] + SumFunctionOnSet(w, (T \ {r}) \ {y})
      /\ SumFunctionOnSet(w, T \ {y}) = w[r] + SumFunctionOnSet(w, (T \ {r}) \ {y})
  BY <1>5, <1>6 DEF Holds
<1> QED
  BY <1>2, <1>3, <1>7, <1>8 DEF Holds

\* One more member adds its value.
LEMMA SumOfMore ==
  ASSUME NEW w, NEW S, IsFiniteSet(S), NEW x, x \notin S, \A z \in S \cup {x} : w[z] \in Nat
  PROVE  SumFunctionOnSet(w, S \cup {x}) = SumFunctionOnSet(w, S) + w[x]
<1>1. IsFiniteSet(S \cup {x}) /\ (S \cup {x}) \ {x} = S
  BY FS_AddElement
<1>2. SumFunctionOnSet(w, S \cup {x}) = w[x] + SumFunctionOnSet(w, S)
  BY <1>1, SumOfAny
<1>3. SumFunctionOnSet(w, S) \in Nat /\ w[x] \in Nat
  BY SumType
<1> QED
  BY <1>2, <1>3

\* A part sums to no more than the whole.
LEMMA SumOfPart ==
  ASSUME NEW w, NEW S, IsFiniteSet(S), \A x \in S : w[x] \in Nat, NEW P \in SUBSET S
  PROVE  SumFunctionOnSet(w, P) <= SumFunctionOnSet(w, S)
<1> DEFINE Bad == {s \in SUBSET S : P \subseteq s /\ SumFunctionOnSet(w, s) < SumFunctionOnSet(w, P)}
<1>t. \A s \in SUBSET S : IsFiniteSet(s) /\ SumFunctionOnSet(w, s) \in Nat
  BY SumType, FS_Subset
<1> SUFFICES ASSUME Bad # {} PROVE FALSE
  BY <1>t
<1>0. Bad \in SUBSET (SUBSET S)
  OBVIOUS
<1> HIDE DEF Bad
<1>1. PICK T \in Bad : \A X \in SUBSET T : X # T => X \notin Bad
  BY <1>0, SmallestSet
<1> USE DEF Bad
<1>2. T # P
  BY <1>t
<1>3. PICK x \in T : x \notin P
  BY <1>2
<1>4. SumFunctionOnSet(w, T) = w[x] + SumFunctionOnSet(w, T \ {x}) /\ w[x] \in Nat
  BY <1>t, SumOfAny
<1>5. SumFunctionOnSet(w, T \ {x}) >= SumFunctionOnSet(w, P)
  BY <1>1, <1>3, <1>t
<1> QED
  BY <1>1, <1>4, <1>5, <1>t
=============================================================================
