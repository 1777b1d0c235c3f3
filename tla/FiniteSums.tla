----------------------------- MODULE FiniteSums -----------------------------
(***************************************************************************)
(* Facts about finite sets that the proofs about sums and bounds need: the *)
(* values of a function add up to one sum, whatever the order, and a set   *)
(* of integers has a least and a greatest element.  An induction over      *)
(* finite sets is taken as the existence of a least subset.                *)
(***************************************************************************)
EXTENDS Integers, FiniteSets, FiniteSetsExt, FiniteSetTheorems, TLAPS

\* The values of a function summed over a set, and the function this recurs with.
First(S) == CHOOSE p \in S : TRUE
Sums(F, f, S) ==
    f = [s \in SUBSET S |-> IF s = {} THEN 0 ELSE F[First(s)] + f[s \ {First(s)}]]
SumOver(F, S) == (CHOOSE f : Sums(F, f, S))[S]

\* Of a finite set, a collection of subsets has a least member.
LEMMA LeastSubset ==
    ASSUME NEW S, IsFiniteSet(S), NEW C \in SUBSET SUBSET S, C # {}
    PROVE  \E s \in C : \A t \in C : t \subseteq s => t = s
<1>1. C \subseteq FiniteSubsetsOf(S)
    BY FS_FiniteSubsetsOfFinite
<1>2. PICK s \in C : \A t \in C : <<t, s>> \notin StrictSubsetOrdering(S)
    BY <1>1, FS_StrictSubsetOrderingWellFounded, WFMin
<1> QED
    BY <1>2 DEF StrictSubsetOrdering

LEMMA SumsAgree ==
    ASSUME NEW S, IsFiniteSet(S), NEW T \in SUBSET S, NEW F, NEW G, \A x \in T : F[x] = G[x],
           NEW f, NEW g, Sums(F, f, S), Sums(G, g, T)
    PROVE  f[T] = g[T]
<1> DEFINE C == {s \in SUBSET T : f[s] # g[s]}
<1> SUFFICES ASSUME C # {} PROVE FALSE
    OBVIOUS
<1>0. IsFiniteSet(T) /\ C \in SUBSET SUBSET T /\ C # {}
    BY FS_Subset
<1> HIDE DEF C
<1>1. PICK s \in C : \A t \in C : t \subseteq s => t = s
    BY <1>0, LeastSubset
<1> USE DEF C
<1>2. CASE s = {}
    BY <1>1, <1>2 DEF Sums
<1>3. CASE s # {}
    <2>1. First(s) \in s
        BY <1>3 DEF First
    <2>2. s \ {First(s)} \notin C
        BY <1>1, <2>1
    <2>3. f[s] = F[First(s)] + f[s \ {First(s)}]
        BY <1>1, <1>3 DEF Sums
    <2>4. g[s] = G[First(s)] + g[s \ {First(s)}]
        BY <1>1, <1>3 DEF Sums
    <2>5. F[First(s)] = G[First(s)]
        BY <1>1, <2>1
    <2> QED
        BY <1>1, <2>2, <2>3, <2>4, <2>5
<1> QED
    BY <1>2, <1>3

LEMMA SumsExist == ASSUME NEW F, NEW S, IsFiniteSet(S) PROVE \E f : Sums(F, f, S)
<1> DEFINE C == {s \in SUBSET S : ~\E f : Sums(F, f, s)}
<1> SUFFICES ASSUME C # {} PROVE FALSE
    OBVIOUS
<1>0. C \in SUBSET SUBSET S /\ C # {}
    OBVIOUS
<1> HIDE DEF C
<1>1. PICK T \in C : \A t \in C : t \subseteq T => t = T
    BY <1>0, LeastSubset
<1> USE DEF C
<1> DEFINE Fcn(s) == CHOOSE f : Sums(F, f, s)
           v(s) == Fcn(s)[s]
           f == [s \in SUBSET T |-> IF s = {} THEN 0 ELSE F[First(s)] + v(s \ {First(s)})]
<1>2. ASSUME NEW s \in SUBSET T, s # T PROVE Sums(F, Fcn(s), s) /\ IsFiniteSet(s)
    <2>1. \E g : Sums(F, g, s)
        BY <1>1, <1>2
    <2> QED
        BY <2>1, FS_Subset
<1>3. ASSUME NEW s \in SUBSET T, s # T PROVE f[s] = v(s)
    <2> DEFINE g == Fcn(s)
    <2>1. Sums(F, g, s)
        BY <1>2, <1>3
    <2> HIDE DEF g
    <2>2. g[s] = IF s = {} THEN 0 ELSE F[First(s)] + g[s \ {First(s)}]
        BY <2>1 DEF Sums
    <2>3. CASE s # {}
        <3>1. First(s) \in s
            BY <2>3 DEF First
        <3>2. s \ {First(s)} \in SUBSET T /\ s \ {First(s)} # T
            BY <1>3, <3>1
        <3>3. Sums(F, Fcn(s \ {First(s)}), s \ {First(s)})
            BY <1>2, <3>2
        <3>4. g[s \ {First(s)}] = v(s \ {First(s)})
            BY <1>2, <1>3, <2>1, <3>2, <3>3, SumsAgree
        <3> QED
            BY <2>2, <2>3, <3>4 DEF g
    <2> QED
        BY <2>2, <2>3 DEF g
<1>4. Sums(F, f, T)
    <2>1. ASSUME NEW s \in SUBSET T, s # {} PROVE v(s \ {First(s)}) = f[s \ {First(s)}]
        <3>1. First(s) \in s
            BY <2>1 DEF First
        <3> QED
            BY <1>3, <3>1
    <2> HIDE DEF v
    <2>2. f = [s \in SUBSET T |-> IF s = {} THEN 0 ELSE F[First(s)] + f[s \ {First(s)}]]
        BY <2>1
    <2> QED
        BY <2>2 DEF Sums
<1> QED
    BY <1>1, <1>4

LEMMA SumOverSums ==
    ASSUME NEW F, NEW S, IsFiniteSet(S), NEW f, Sums(F, f, S) PROVE f[S] = SumOver(F, S)
<1> DEFINE g == CHOOSE h : Sums(F, h, S)
<1>1. Sums(F, g, S)
    OBVIOUS
<1> HIDE DEF g
<1>2. f[S] = g[S]
    BY <1>1, SumsAgree
<1> QED
    BY <1>2 DEF SumOver, g

LEMMA SumOverSame ==
    ASSUME NEW S, IsFiniteSet(S), NEW F, NEW G, \A x \in S : F[x] = G[x]
    PROVE  SumOver(F, S) = SumOver(G, S)
<1>1. PICK f : Sums(F, f, S)
    BY SumsExist
<1>2. PICK g : Sums(G, g, S)
    BY SumsExist
<1>3. f[S] = g[S]
    BY <1>1, <1>2, SumsAgree
<1> QED
    BY <1>1, <1>2, <1>3, SumOverSums

LEMMA SumOverEmpty == ASSUME NEW F PROVE SumOver(F, {}) = 0
<1>1. PICK f : Sums(F, f, {})
    BY SumsExist, FS_EmptySet
<1>2. f[{}] = SumOver(F, {})
    BY <1>1, SumOverSums, FS_EmptySet
<1> QED
    BY <1>1, <1>2 DEF Sums

LEMMA SumOverFirst ==
    ASSUME NEW F, NEW S, IsFiniteSet(S), S # {}
    PROVE  SumOver(F, S) = F[First(S)] + SumOver(F, S \ {First(S)})
<1> DEFINE T == S \ {First(S)}
<1>1. PICK f : Sums(F, f, S)
    BY SumsExist
<1>2. PICK g : Sums(F, g, T)
    BY SumsExist, FS_Subset
<1>3. f[T] = g[T]
    BY <1>1, <1>2, SumsAgree
<1>4. f[S] = F[First(S)] + f[T]
    BY <1>1 DEF Sums
<1>5. f[S] = SumOver(F, S)
    BY <1>1, SumOverSums
<1>6. g[T] = SumOver(F, T)
    BY <1>2, FS_Subset, SumOverSums
<1> QED
    BY <1>3, <1>4, <1>5, <1>6

\* Natural numbers add up to one, integers to one.
LEMMA SumOverTyped ==
    ASSUME NEW N \in {Nat, Int}, NEW F, NEW S, IsFiniteSet(S), \A x \in S : F[x] \in N
    PROVE  SumOver(F, S) \in N
<1> DEFINE C == {s \in SUBSET S : SumOver(F, s) \notin N}
<1> SUFFICES ASSUME C # {} PROVE FALSE
    OBVIOUS
<1>0. C \in SUBSET SUBSET S /\ C # {}
    OBVIOUS
<1> HIDE DEF C
<1>1. PICK T \in C : \A t \in C : t \subseteq T => t = T
    BY <1>0, LeastSubset
<1> USE DEF C
<1>2. T # {}
    <2>1. SumOver(F, T) \notin N
        BY <1>1
    <2>2. 0 \in N
        OBVIOUS
    <2> QED
        BY <2>1, <2>2, SumOverEmpty
<1>3. First(T) \in T
    BY <1>2 DEF First
<1>4. SumOver(F, T \ {First(T)}) \in N
    BY <1>1, <1>3
<1>5. SumOver(F, T) = F[First(T)] + SumOver(F, T \ {First(T)})
    BY <1>2, SumOverFirst, FS_Subset
<1>6. F[First(T)] \in N /\ \A i, j \in N : i + j \in N
    BY <1>1, <1>3
<1> QED
    BY <1>1, <1>4, <1>5, <1>6

LEMMA SumOverAny ==
    ASSUME NEW F, NEW S, IsFiniteSet(S), \A x \in S : F[x] \in Int, NEW p \in S
    PROVE  SumOver(F, S) = SumOver(F, S \ {p}) + F[p]
<1> DEFINE C == {s \in SUBSET S : \E q \in s : SumOver(F, s) # SumOver(F, s \ {q}) + F[q]}
<1> SUFFICES ASSUME C # {} PROVE FALSE
    OBVIOUS
<1>0. C \in SUBSET SUBSET S /\ C # {}
    OBVIOUS
<1> HIDE DEF C
<1>1. PICK T \in C : \A t \in C : t \subseteq T => t = T
    BY <1>0, LeastSubset
<1> USE DEF C
<1>2. PICK q \in T : SumOver(F, T) # SumOver(F, T \ {q}) + F[q]
    BY <1>1
<1> DEFINE x == First(T)
<1>3. x \in T
    BY <1>2 DEF First
<1>4. IsFiniteSet(T)
    BY FS_Subset
<1>5. SumOver(F, T) = F[x] + SumOver(F, T \ {x})
    BY <1>2, <1>4, SumOverFirst
<1>6. /\ F[x] \in Int /\ F[q] \in Int /\ SumOver(F, T \ {q}) \in Int
      /\ SumOver(F, (T \ {x}) \ {q}) \in Int
    <2>1. ASSUME NEW t \in SUBSET S PROVE SumOver(F, t) \in Int
        <3>1. IsFiniteSet(t)
            BY FS_Subset
        <3> QED
            BY <3>1, SumOverTyped
    <2> QED
        BY <1>3, <2>1
<1> HIDE DEF x
<1>7. x # q
    <2> SUFFICES ASSUME x = q PROVE FALSE
        OBVIOUS
    <2>1. SumOver(F, T) = F[q] + SumOver(F, T \ {q})
        BY <1>5, Zenon
    <2> QED
        BY <1>2, <1>6, <2>1
<1>8. T \ {x} \notin C /\ T \ {q} \notin C
    BY <1>1, <1>3
<1>9. SumOver(F, T \ {x}) = SumOver(F, (T \ {x}) \ {q}) + F[q]
    BY <1>7, <1>8
<1>10. SumOver(F, T \ {q}) = SumOver(F, (T \ {q}) \ {x}) + F[x]
    BY <1>3, <1>7, <1>8
<1>11. (T \ {q}) \ {x} = (T \ {x}) \ {q}
    OBVIOUS
<1> DEFINE rest == SumOver(F, (T \ {x}) \ {q})
<1>12. SumOver(F, T) = F[x] + (rest + F[q]) /\ SumOver(F, T \ {q}) = rest + F[x]
    BY <1>5, <1>9, <1>10, <1>11
<1>13. rest \in Int
    BY <1>6
<1> HIDE DEF rest
<1> QED
    BY <1>2, <1>6, <1>12, <1>13

-----------------------------------------------------------------------------
LEMMA MinExists ==
    ASSUME NEW S, \A n \in S : n \in Int, IsFiniteSet(S), S # {}
    PROVE  Min(S) \in S /\ \A n \in S : Min(S) <= n
<1> DEFINE Least(T, m) == m \in T /\ \A n \in T : m <= n
           C == {T \in SUBSET S : T # {} /\ ~\E m \in T : Least(T, m)}
<1>1. \E m \in S : Least(S, m)
    <2> SUFFICES ASSUME C # {} PROVE FALSE
        OBVIOUS
    <2>0. C \in SUBSET SUBSET S /\ C # {}
        OBVIOUS
    <2> HIDE DEF C
    <2>1. PICK T \in C : \A t \in C : t \subseteq T => t = T
        BY <2>0, LeastSubset
    <2> USE DEF C
    <2>2. PICK x \in T : TRUE
        BY <2>1
    <2>3. T \ {x} \notin C
        BY <2>1, <2>2
    <2>4. CASE T = {x}
        BY <2>1, <2>2, <2>4
    <2>5. CASE T \ {x} # {}
        <3>1. PICK m \in T \ {x} : Least(T \ {x}, m)
            BY <2>1, <2>3, <2>5
        <3>2. m \in Int /\ x \in Int
            BY <2>1, <2>2
        <3>3. Least(T, m) \/ Least(T, x)
            <4>1. \A n \in T : n \in Int
                BY <2>1
            <4> QED
                BY <2>2, <3>1, <3>2, <4>1
        <3> QED
            BY <2>1, <2>2, <3>1, <3>3
    <2> QED
        BY <2>2, <2>4, <2>5
<1> QED
    BY <1>1 DEF Min
=============================================================================
