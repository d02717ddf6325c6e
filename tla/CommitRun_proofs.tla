--------------------------- MODULE CommitRun_proofs ---------------------------
(***************************************************************************)
(* Least and greatest elements, and what follows from them: the committable*)
(* offset exists and is unique for every non-empty, bounded set of         *)
(* registered next-offsets.  The last part is about sums over finite sets, *)
(* as MapThenSumSet takes them: in which order does not matter.            *)
(***************************************************************************)
EXTENDS CommitRun, Integers, FiniteSetTheorems, WellFoundedInduction, TLAPS

\* Every non-empty set of naturals has a least element, which Min returns.
LEMMA LeastElement ==
    ASSUME NEW S \in SUBSET Nat, S # {}
    PROVE  /\ Min(S) \in S
           /\ Min(S) \in Nat
           /\ \A x \in S : Min(S) =< x
<1>1. PICK m \in S : \A y \in S : ~(<<y, m>> \in OpToRel(<, Nat))
  BY NatLessThanWellFounded, WFMin
<1>2. \A y \in S : m =< y
  <2>1. SUFFICES ASSUME NEW y \in S
                 PROVE  m =< y
    OBVIOUS
  <2>2. y \in Nat /\ m \in Nat
    OBVIOUS
  <2>3. ~(y < m)
    BY <1>1, <2>2 DEF OpToRel
  <2> QED
    BY <2>2, <2>3
<1> QED
  BY <1>2 DEF Min

\* Every non-empty set of naturals with a bound has a greatest element, which Max returns.
LEMMA GreatestElement ==
    ASSUME NEW n \in Nat, NEW S \in SUBSET (0 .. n), S # {}
    PROVE  /\ Max(S) \in S
           /\ \A x \in S : x =< Max(S)
<1> DEFINE Below == {k \in Nat : n - k \in S}
<1>1. Below \in SUBSET Nat /\ Below # {}
  <2>1. PICK x \in S : TRUE
    OBVIOUS
  <2>2. n - x \in Nat /\ n - (n - x) = x
    BY <2>1
  <2> QED
    BY <2>1, <2>2
<1>2. Min(Below) \in Below /\ \A k \in Below : Min(Below) =< k
  BY <1>1, LeastElement
<1>3. n - Min(Below) \in S /\ Min(Below) \in Nat
  BY <1>2
<1>4. ASSUME NEW x \in S PROVE x =< n - Min(Below)
  <2>1. n - x \in Below
    <3>1. n - x \in Nat /\ n - (n - x) = x
      OBVIOUS
    <3> QED
      BY <3>1
  <2>2. Min(Below) =< n - x
    BY <1>2, <2>1
  <2> HIDE DEF Below
  <2> QED
    BY <1>3, <2>2
<1> HIDE DEF Below
<1>5. \E m \in S : \A x \in S : m >= x
  <2>1. \A x \in S : n - Min(Below) >= x
    BY <1>3, <1>4
  <2> QED
    BY <1>3, <2>1
<1>6. Max(S) \in S /\ \A x \in S : Max(S) >= x
  BY <1>5 DEF Max
<1> QED
  BY <1>6

\* The run that starts at the least registered next-offset has an end: the code's
\* loop (kgoconsumer/offsets.go, committableEpochOffsets) has an offset to return
\* whenever anything was registered for the partition.
LEMMA RunEndExists ==
    ASSUME NEW N \in Nat, NEW S \in SUBSET (0 .. N), S # {}
    PROVE  \E e \in S : IsRunEnd(S, e)
<1> DEFINE Gaps == {n \in Nat : Min(S) =< n /\ n \notin S}
<1>1. S \in SUBSET Nat
  OBVIOUS
<1>2. Min(S) \in S /\ Min(S) \in Nat
  BY <1>1, LeastElement
<1>3. N + 1 \in Gaps
  BY <1>2
<1>4. /\ Min(Gaps) \in Gaps
      /\ \A x \in Gaps : Min(Gaps) =< x
  BY <1>3, LeastElement
<1> HIDE DEF Gaps
<1>5. Min(Gaps) \in Nat /\ Min(S) =< Min(Gaps) /\ Min(Gaps) \notin S
  BY <1>4 DEF Gaps
<1>6. Min(S) < Min(Gaps)
  BY <1>2, <1>5
<1>7. \A k \in Min(S) .. (Min(Gaps) - 1) : k \in S
  BY <1>2, <1>4, <1>5 DEF Gaps
<1>8. Min(Gaps) - 1 \in S
  BY <1>2, <1>5, <1>6, <1>7
<1>9. IsRunEnd(S, Min(Gaps) - 1)
  BY <1>5, <1>7, <1>8 DEF IsRunEnd
<1> QED
  BY <1>8, <1>9

\* What callers rely on: the committable offset was itself registered, so was every
\* next-offset between it and the least registered one, and nothing lower was.
LEMMA RunEndProperties ==
    ASSUME NEW N \in Nat, NEW S \in SUBSET (0 .. N), S # {}
    PROVE  /\ RunEnd(S) \in S
           /\ \A k \in Min(S) .. RunEnd(S) : k \in S
           /\ RunEnd(S) + 1 \notin S
<1>1. IsRunEnd(S, RunEnd(S))
  BY RunEndExists DEF RunEnd
<1> QED
  BY <1>1 DEF IsRunEnd

-----------------------------------------------------------------------------
(* Sums over finite sets.                                                  *)

\* The element of s that MapThenSumSet takes first.
Taken(s) == CHOOSE x \in s : TRUE

\* sum adds up val over each subset of U, one element after the other.
AddsUp(sum, val, U) ==
    sum = [s \in SUBSET U |-> IF s = {} THEN 0 ELSE val[Taken(s)] + sum[s \ {Taken(s)}]]

\* The sum of val[x] for x in S.
SumOf(val, S) == (CHOOSE sum : AddsUp(sum, val, S))[S]

\* What such a function is at a subset.
LEMMA AddsUpAt ==
    ASSUME NEW U, NEW val, NEW sum, AddsUp(sum, val, U), NEW s \in SUBSET U
    PROVE  /\ s = {} => sum[s] = 0
           /\ s # {} => Taken(s) \in s /\ sum[s] = val[Taken(s)] + sum[s \ {Taken(s)}]
<1>1. sum = [t \in SUBSET U |-> IF t = {} THEN 0 ELSE val[Taken(t)] + sum[t \ {Taken(t)}]]
  BY DEF AddsUp
<1>2. sum[s] = IF s = {} THEN 0 ELSE val[Taken(s)] + sum[s \ {Taken(s)}]
  BY <1>1
<1>3. s # {} => Taken(s) \in s
  BY DEF Taken
<1> QED
  BY <1>2, <1>3

\* Of a non-empty set of subsets of a finite set one has no other in it as a subset.
LEMMA SmallestSet ==
    ASSUME NEW U, IsFiniteSet(U), NEW T \in SUBSET (SUBSET U), T # {}
    PROVE  \E s \in T : IsFiniteSet(s) /\ \A t \in T : t \subseteq s => t = s
<1>1. T \subseteq FiniteSubsetsOf(U)
  <2>1. ASSUME NEW s \in T PROVE IsFiniteSet(s)
    BY FS_Subset
  <2> QED
    BY <2>1 DEF FiniteSubsetsOf
<1>2. PICK s \in T : \A t \in T : ~(<<t, s>> \in StrictSubsetOrdering(U))
  BY <1>1, FS_StrictSubsetOrderingWellFounded, WFMin
<1>3. ASSUME NEW t \in T, t \subseteq s PROVE t = s
  BY <1>2, <1>3 DEF StrictSubsetOrdering
<1>4. IsFiniteSet(s)
  BY <1>1 DEF FiniteSubsetsOf
<1> QED
  BY <1>3, <1>4

\* Functions that add up over different sets agree on the finite subsets of both.
LEMMA SumUnique ==
    ASSUME NEW U, NEW V, NEW val, NEW f, NEW g, AddsUp(f, val, U), AddsUp(g, val, V),
           NEW S, S \subseteq U, S \subseteq V, IsFiniteSet(S)
    PROVE  f[S] = g[S]
<1> DEFINE Bad == {s \in SUBSET S : f[s] # g[s]}
<1>1. SUFFICES ASSUME Bad # {} PROVE FALSE
  OBVIOUS
<1>2. PICK T : T = Bad
  OBVIOUS
<1>3. PICK s \in Bad : IsFiniteSet(s) /\ \A t \in Bad : t \subseteq s => t = s
  <2>1. T \in SUBSET (SUBSET S) /\ T # {}
    BY <1>1, <1>2
  <2>2. PICK s \in T : IsFiniteSet(s) /\ \A t \in T : t \subseteq s => t = s
    BY <2>1, SmallestSet
  <2> QED
    BY <1>2, <2>2
<1>4. CASE s = {}
  BY <1>4, AddsUpAt
<1>5. CASE s # {}
  <2>1. PICK x : x = Taken(s)
    OBVIOUS
  <2>2. x \in s
    BY <1>5, <2>1 DEF Taken
  <2>3. f[s \ {x}] = g[s \ {x}]
    BY <1>3, <2>2
  <2>4. f[s] = val[x] + f[s \ {x}] /\ g[s] = val[x] + g[s \ {x}]
    BY <1>5, <2>1, AddsUpAt
  <2> QED
    BY <2>3, <2>4
<1> QED
  BY <1>4, <1>5

\* Over a finite set there is one.
LEMMA SumExists ==
    ASSUME NEW U, IsFiniteSet(U), NEW val
    PROVE  \E sum : AddsUp(sum, val, U)
<1> DEFINE Sum(s) == CHOOSE sum : AddsUp(sum, val, s)
           Bad == {s \in SUBSET U : ~ \E sum : AddsUp(sum, val, s)}
<1>1. SUFFICES ASSUME Bad # {} PROVE FALSE
  OBVIOUS
<1>2. PICK T : T = Bad
  OBVIOUS
<1>3. PICK t \in Bad : IsFiniteSet(t) /\ \A u \in Bad : u \subseteq t => u = t
  <2>1. T \in SUBSET (SUBSET U) /\ T # {}
    BY <1>1, <1>2
  <2>2. PICK t \in T : IsFiniteSet(t) /\ \A u \in T : u \subseteq t => u = t
    BY <2>1, SmallestSet
  <2> QED
    BY <1>2, <2>2
<1>4. ASSUME NEW u \in SUBSET t, u # t PROVE AddsUp(Sum(u), val, u) /\ IsFiniteSet(u)
  <2>1. \E sum : AddsUp(sum, val, u)
    BY <1>3, <1>4
  <2> QED
    BY <1>3, <2>1, FS_Subset
<1> DEFINE G == [s \in SUBSET t |->
                    IF s = {} THEN 0
                    ELSE val[Taken(s)] + Sum(s \ {Taken(s)})[s \ {Taken(s)}]]
<1> HIDE DEF Sum
<1>5. ASSUME NEW s \in SUBSET t, s # {}
      PROVE  Sum(s \ {Taken(s)})[s \ {Taken(s)}] = G[s \ {Taken(s)}]
  <2>1. PICK u : u = s \ {Taken(s)}
    OBVIOUS
  <2>2. Taken(s) \in s
    BY <1>5 DEF Taken
  <2>3. u \in SUBSET t /\ u # t
    BY <2>1, <2>2
  <2>4. AddsUp(Sum(u), val, u)
    BY <1>4, <2>3
  <2>5. CASE u = {}
    <3>1. ASSUME NEW f, AddsUp(f, val, u) PROVE f[u] = 0
      BY <2>5, <3>1, AddsUpAt
    <3>2. Sum(u)[u] = 0
      BY <2>4, <3>1
    <3> QED
      BY <2>1, <2>3, <2>5, <3>2
  <2>6. CASE u # {}
    <3>1. PICK y : y = Taken(u)
      OBVIOUS
    <3>2. y \in u
      BY <2>6, <3>1 DEF Taken
    <3>3. Sum(u)[u] = val[y] + Sum(u)[u \ {y}]
      <4>1. ASSUME NEW f, AddsUp(f, val, u) PROVE f[u] = val[y] + f[u \ {y}]
        BY <2>6, <3>1, <4>1, AddsUpAt
      <4> QED
        BY <2>4, <4>1
    <3>4. u \ {y} \in SUBSET t /\ u \ {y} # t /\ u \ {y} \subseteq u
      BY <2>3, <3>2
    <3>5. AddsUp(Sum(u \ {y}), val, u \ {y}) /\ IsFiniteSet(u \ {y})
      BY <1>4, <3>4
    <3>6. Sum(u)[u \ {y}] = Sum(u \ {y})[u \ {y}]
      BY <2>4, <3>4, <3>5, SumUnique
    <3>7. G[u] = val[y] + Sum(u \ {y})[u \ {y}]
      BY <2>3, <2>6, <3>1
    <3> QED
      BY <2>1, <3>3, <3>6, <3>7
  <2> QED
    BY <2>5, <2>6
<1>6. G = [s \in SUBSET t |->
              IF s = {} THEN 0 ELSE val[Taken(s)] + G[s \ {Taken(s)}]]
  <2>1. PICK H : H = G
    OBVIOUS
  <2>2. \A s \in SUBSET t : (IF s = {} THEN 0 ELSE val[Taken(s)] + Sum(s \ {Taken(s)})[s \ {Taken(s)}])
                          = (IF s = {} THEN 0 ELSE val[Taken(s)] + H[s \ {Taken(s)}])
    <3> HIDE DEF G
    <3>1. ASSUME NEW s \in SUBSET t, s # {}
          PROVE  Sum(s \ {Taken(s)})[s \ {Taken(s)}] = H[s \ {Taken(s)}]
      BY <1>5, <2>1, <3>1
    <3> QED
      BY <3>1
  <2>3. H = [s \in SUBSET t |-> IF s = {} THEN 0 ELSE val[Taken(s)] + H[s \ {Taken(s)}]]
    BY <2>1, <2>2
  <2> QED
    BY <2>1, <2>3
<1>7. AddsUp(G, val, t)
  <2> HIDE DEF G
  <2> QED
    BY <1>6 DEF AddsUp
<1> QED
  BY <1>3, <1>7

\* The sums over the subsets of a finite set belong to one function that adds up.
LEMMA SumAddsUp ==
    ASSUME NEW S, IsFiniteSet(S), NEW val
    PROVE  \E sum : AddsUp(sum, val, S) /\ \A T \in SUBSET S : SumOf(val, T) = sum[T]
<1>1. PICK sum : AddsUp(sum, val, S)
  BY SumExists
<1>2. ASSUME NEW T \in SUBSET S PROVE SumOf(val, T) = sum[T]
  <2>1. IsFiniteSet(T)
    BY FS_Subset
  <2>2. PICK f : f = CHOOSE g : AddsUp(g, val, T)
    OBVIOUS
  <2>3. AddsUp(f, val, T)
    BY <2>1, <2>2, SumExists
  <2>4. f[T] = sum[T]
    BY <1>1, <2>1, <2>3, SumUnique
  <2> QED
    BY <2>2, <2>4 DEF SumOf
<1> QED
  BY <1>1, <1>2

\* A sum is the value of the first element and the sum of the rest.
LEMMA SumTaken ==
    ASSUME NEW S, IsFiniteSet(S), NEW val
    PROVE  /\ SumOf(val, {}) = 0
           /\ S # {} => /\ Taken(S) \in S
                        /\ SumOf(val, S) = val[Taken(S)] + SumOf(val, S \ {Taken(S)})
<1>1. PICK sum : AddsUp(sum, val, S) /\ \A T \in SUBSET S : SumOf(val, T) = sum[T]
  BY SumAddsUp
<1>2. sum[{}] = 0
  BY <1>1, AddsUpAt
<1>3. S # {} => Taken(S) \in S /\ sum[S] = val[Taken(S)] + sum[S \ {Taken(S)}]
  BY <1>1, AddsUpAt
<1> QED
  BY <1>1, <1>2, <1>3

\* A sum of integers is one.
LEMMA SumType ==
    ASSUME NEW S, IsFiniteSet(S), NEW val, \A x \in S : val[x] \in Int
    PROVE  SumOf(val, S) \in Int
<1> DEFINE Bad == {s \in SUBSET S : SumOf(val, s) \notin Int}
<1>1. SUFFICES ASSUME Bad # {} PROVE FALSE
  OBVIOUS
<1>2. PICK T : T = Bad
  OBVIOUS
<1>3. PICK s \in Bad : IsFiniteSet(s) /\ \A t \in Bad : t \subseteq s => t = s
  <2>1. T \in SUBSET (SUBSET S) /\ T # {}
    BY <1>1, <1>2
  <2>2. PICK s \in T : IsFiniteSet(s) /\ \A t \in T : t \subseteq s => t = s
    BY <2>1, SmallestSet
  <2> QED
    BY <1>2, <2>2
<1>4. IsFiniteSet(s) /\ s # {}
  <2>1. SumOf(val, {}) = 0
    BY FS_EmptySet, SumTaken
  <2>2. SumOf(val, s) \notin Int
    BY <1>3
  <2>3. ASSUME s = {} PROVE FALSE
    <3>1. SumOf(val, s) = 0
      BY <2>1, <2>3
    <3> QED
      BY <2>2, <3>1
  <2> QED
    BY <1>3, <2>3
<1>5. PICK x : x = Taken(s)
  OBVIOUS
<1>6. x \in s /\ SumOf(val, s) = val[x] + SumOf(val, s \ {x})
  BY <1>4, <1>5, SumTaken
<1>7. SumOf(val, s \ {x}) \in Int
  BY <1>3, <1>6
<1> QED
  BY <1>3, <1>6, <1>7

\* Any element may be the one that is taken first.
LEMMA SumRemove ==
    ASSUME NEW S, IsFiniteSet(S), NEW val, \A x \in S : val[x] \in Int, NEW e \in S
    PROVE  SumOf(val, S) = val[e] + SumOf(val, S \ {e})
<1> DEFINE Bad == {s \in SUBSET S :
                      ~ \A y \in s : SumOf(val, s) = val[y] + SumOf(val, s \ {y})}
<1>1. SUFFICES ASSUME Bad # {} PROVE FALSE
  OBVIOUS
<1>2. PICK T : T = Bad
  OBVIOUS
<1>3. PICK s \in Bad : IsFiniteSet(s) /\ \A t \in Bad : t \subseteq s => t = s
  <2>1. T \in SUBSET (SUBSET S) /\ T # {}
    BY <1>1, <1>2
  <2>2. PICK s \in T : IsFiniteSet(s) /\ \A t \in T : t \subseteq s => t = s
    BY <2>1, SmallestSet
  <2> QED
    BY <1>2, <2>2
<1>4. PICK y \in s : SumOf(val, s) # val[y] + SumOf(val, s \ {y})
  BY <1>3
<1>5. PICK x : x = Taken(s)
  OBVIOUS
<1>6. x \in s /\ SumOf(val, s) = val[x] + SumOf(val, s \ {x})
  BY <1>3, <1>4, <1>5, SumTaken
<1>7. x # y
  BY <1>4, <1>6
<1>8. ASSUME NEW t \in SUBSET s, t # s, NEW z \in t
      PROVE  SumOf(val, t) = val[z] + SumOf(val, t \ {z})
  BY <1>3, <1>8
<1>9. SumOf(val, s \ {x}) = val[y] + SumOf(val, (s \ {x}) \ {y})
  BY <1>6, <1>7, <1>8
<1>10. SumOf(val, s \ {y}) = val[x] + SumOf(val, (s \ {y}) \ {x})
  BY <1>6, <1>7, <1>8
<1>11. (s \ {x}) \ {y} = (s \ {y}) \ {x}
  OBVIOUS
<1>12. SumOf(val, (s \ {x}) \ {y}) \in Int
  <2>1. IsFiniteSet((s \ {x}) \ {y}) /\ \A z \in (s \ {x}) \ {y} : val[z] \in Int
    BY <1>2, FS_Subset
  <2> QED
    BY <2>1, SumType
<1>13. val[x] \in Int /\ val[y] \in Int
  BY <1>3, <1>6
<1>14. PICK r : r = SumOf(val, (s \ {x}) \ {y})
  OBVIOUS
<1>15. SumOf(val, s) = val[x] + (val[y] + r) /\ SumOf(val, s \ {y}) = val[x] + r
  BY <1>6, <1>9, <1>10, <1>11, <1>14
<1> HIDE DEF Bad
<1>16. r \in Int /\ val[x] + (val[y] + r) = val[y] + (val[x] + r)
  BY <1>12, <1>13, <1>14
<1> QED
  BY <1>4, <1>15, <1>16

\* One more element adds its value.
LEMMA SumAdd ==
    ASSUME NEW S, IsFiniteSet(S), NEW val, NEW e, e \notin S,
           \A x \in S \cup {e} : val[x] \in Int
    PROVE  SumOf(val, S \cup {e}) = val[e] + SumOf(val, S)
<1>1. IsFiniteSet(S \cup {e})
  BY FS_AddElement
<1>2. SumOf(val, S \cup {e}) = val[e] + SumOf(val, (S \cup {e}) \ {e})
  BY <1>1, SumRemove
<1>3. (S \cup {e}) \ {e} = S
  OBVIOUS
<1> QED
  BY <1>2, <1>3

\* Only the values of the elements matter.
LEMMA SumSame ==
    ASSUME NEW S, IsFiniteSet(S), NEW val, NEW other, \A x \in S : val[x] = other[x]
    PROVE  SumOf(val, S) = SumOf(other, S)
<1> DEFINE Bad == {s \in SUBSET S : SumOf(val, s) # SumOf(other, s)}
<1>1. SUFFICES ASSUME Bad # {} PROVE FALSE
  OBVIOUS
<1>2. PICK T : T = Bad
  OBVIOUS
<1>3. PICK s \in Bad : IsFiniteSet(s) /\ \A t \in Bad : t \subseteq s => t = s
  <2>1. T \in SUBSET (SUBSET S) /\ T # {}
    BY <1>1, <1>2
  <2>2. PICK s \in T : IsFiniteSet(s) /\ \A t \in T : t \subseteq s => t = s
    BY <2>1, SmallestSet
  <2> QED
    BY <1>2, <2>2
<1>4. IsFiniteSet(s) /\ s # {}
  <2>1. SumOf(val, {}) = 0 /\ SumOf(other, {}) = 0
    BY FS_EmptySet, SumTaken
  <2> QED
    BY <1>3, <2>1
<1>5. PICK x : x = Taken(s)
  OBVIOUS
<1>6. /\ x \in s
      /\ SumOf(val, s) = val[x] + SumOf(val, s \ {x})
      /\ SumOf(other, s) = other[x] + SumOf(other, s \ {x})
  BY <1>4, <1>5, SumTaken
<1>7. SumOf(val, s \ {x}) = SumOf(other, s \ {x})
  BY <1>3, <1>6
<1> QED
  BY <1>3, <1>6, <1>7

\* The sum over a set is that over a part and that over the rest.
LEMMA SumSplit ==
    ASSUME NEW S, IsFiniteSet(S), NEW val, \A x \in S : val[x] \in Int, NEW R \in SUBSET S
    PROVE  SumOf(val, S) = SumOf(val, R) + SumOf(val, S \ R)
<1> DEFINE Rest == S \ R
           Bad == {s \in SUBSET R : SumOf(val, Rest \cup s) # SumOf(val, s) + SumOf(val, Rest)}
<1>1. IsFiniteSet(R) /\ IsFiniteSet(Rest)
  BY FS_Subset
<1>2. ASSUME NEW s \in SUBSET R PROVE IsFiniteSet(s) /\ IsFiniteSet(Rest \cup s)
  BY <1>2, FS_Subset
<1>3. ASSUME NEW s \in SUBSET S PROVE SumOf(val, s) \in Int
  <2>1. IsFiniteSet(s) /\ \A x \in s : val[x] \in Int
    BY <1>3, FS_Subset
  <2> QED
    BY <2>1, SumType
<1>4. ASSUME Bad # {} PROVE FALSE
  <2>1. PICK T : T = Bad
    OBVIOUS
  <2>2. PICK s \in T : IsFiniteSet(s) /\ \A t \in T : t \subseteq s => t = s
    <3>1. T \in SUBSET (SUBSET R) /\ T # {}
      BY <1>4, <2>1
    <3> QED
      BY <1>1, <3>1, SmallestSet
  <2>3. s \in SUBSET R /\ SumOf(val, Rest \cup s) # SumOf(val, s) + SumOf(val, Rest)
    BY <2>1, <2>2
  <2>4. PICK x \in s : TRUE
    <3>1. SumOf(val, {}) = 0
      BY FS_EmptySet, SumTaken
    <3>2. SumOf(val, Rest) \in Int /\ Rest \cup {} = Rest
      BY <1>3
    <3>3. SumOf(val, Rest \cup {}) = SumOf(val, {}) + SumOf(val, Rest)
      <4> HIDE DEF Rest
      <4> QED
        BY <3>1, <3>2
    <3>4. s # {}
      BY <2>3, <3>3
    <3> QED
      BY <3>4
  <2>5. PICK less : less = s \ {x}
    OBVIOUS
  <2>6. less \in SUBSET R /\ less \subseteq s /\ less # s
    BY <2>3, <2>4, <2>5
  <2>7. SumOf(val, Rest \cup less) = SumOf(val, less) + SumOf(val, Rest)
    BY <2>1, <2>2, <2>6
  <2>8. SumOf(val, s) = val[x] + SumOf(val, less)
    <3>1. \A y \in s : val[y] \in Int
      BY <2>3
    <3> QED
      BY <2>2, <2>4, <2>5, <3>1, SumRemove
  <2>9. SumOf(val, Rest \cup s) = val[x] + SumOf(val, Rest \cup less)
    <3>1. (Rest \cup s) \ {x} = Rest \cup less
      BY <2>3, <2>4, <2>5
    <3>2. \A y \in Rest \cup s : val[y] \in Int
      BY <2>3
    <3>3. IsFiniteSet(Rest \cup s) /\ x \in Rest \cup s
      BY <1>2, <2>3, <2>4
    <3> HIDE DEF Rest
    <3> QED
      BY <3>1, <3>2, <3>3, SumRemove
  <2>10. val[x] \in Int /\ SumOf(val, less) \in Int /\ SumOf(val, Rest) \in Int
    BY <1>3, <2>3, <2>4, <2>6
  <2> HIDE DEF Rest
  <2> QED
    BY <2>3, <2>7, <2>8, <2>9, <2>10
<1>5. SumOf(val, Rest \cup R) = SumOf(val, R) + SumOf(val, Rest)
  <2> HIDE DEF Rest
  <2> QED
    BY <1>4
<1>6. Rest \cup R = S
  OBVIOUS
<1> QED
  BY <1>5, <1>6

\* The sum stays the same when each element is replaced by another of its value.
LEMMA SumPaired ==
    ASSUME NEW S, IsFiniteSet(S), NEW val, \A x \in S : val[x] \in Int, NEW m,
           \A x \in S : val[m[x]] = val[x], \A x, y \in S : m[x] = m[y] => x = y
    PROVE  SumOf(val, {m[x] : x \in S}) = SumOf(val, S)
<1> DEFINE To(s) == {m[x] : x \in s}
           Bad == {s \in SUBSET S : ~(IsFiniteSet(To(s)) /\ SumOf(val, To(s)) = SumOf(val, s))}
<1>1. ASSUME Bad # {} PROVE FALSE
  <2>1. PICK T : T = Bad
    OBVIOUS
  <2>2. PICK s \in T : IsFiniteSet(s) /\ \A t \in T : t \subseteq s => t = s
    <3>1. T \in SUBSET (SUBSET S) /\ T # {}
      BY <1>1, <2>1
    <3> QED
      BY <3>1, SmallestSet
  <2>3. s \in SUBSET S /\ ~(IsFiniteSet(To(s)) /\ SumOf(val, To(s)) = SumOf(val, s))
    BY <2>1, <2>2
  <2>4. PICK x \in s : TRUE
    <3>1. To({}) = {}
      OBVIOUS
    <3>2. s # {}
      BY <2>3, <3>1, FS_EmptySet
    <3> QED
      BY <3>2
  <2>5. PICK less : less = s \ {x}
    OBVIOUS
  <2>6. less \in SUBSET S /\ less \subseteq s /\ less # s
    BY <2>3, <2>4, <2>5
  <2>7. IsFiniteSet(To(less)) /\ SumOf(val, To(less)) = SumOf(val, less)
    BY <2>1, <2>2, <2>6
  <2>8. SumOf(val, s) = val[x] + SumOf(val, less)
    <3>1. \A y \in s : val[y] \in Int
      BY <2>3
    <3> QED
      BY <2>2, <2>4, <2>5, <3>1, SumRemove
  <2>9. To(s) = To(less) \cup {m[x]} /\ m[x] \notin To(less)
    BY <2>3, <2>4, <2>5
  <2>10. \A y \in To(less) \cup {m[x]} : val[y] \in Int
    BY <2>3, <2>4, <2>6
  <2>11. val[m[x]] = val[x]
    BY <2>3, <2>4
  <2> HIDE DEF To
  <2>12. SumOf(val, To(less) \cup {m[x]}) = val[m[x]] + SumOf(val, To(less))
    BY <2>7, <2>9, <2>10, SumAdd
  <2>13. IsFiniteSet(To(s))
    BY <2>7, <2>9, FS_AddElement
  <2> QED
    BY <2>3, <2>7, <2>8, <2>9, <2>11, <2>12, <2>13
<1>2. SumOf(val, To(S)) = SumOf(val, S)
  <2> HIDE DEF To
  <2> QED
    BY <1>1
<1> QED
  BY <1>2

=============================================================================
