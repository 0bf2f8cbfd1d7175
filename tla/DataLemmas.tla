----------------------------- MODULE DataLemmas ------------------------------
(***************************************************************************)
(* Least and greatest elements of sets of numbers, sums over finite sets,  *)
(* and counting.  An argument by induction over data is made here as one   *)
(* about a least counterexample.                                           *)
(***************************************************************************)
EXTENDS Naturals, Sequences, FiniteSetsExt, FiniteSetTheorems, WellFoundedInduction, TLAPS

\* A set of numbers that is not empty has a least element.
LEMMA Least ==
    ASSUME NEW S \in SUBSET Nat, S # {}
    PROVE  \E n \in S : \A m \in S : n <= m
<1>1. PICK n \in S : \A m \in S : <<m, n>> \notin OpToRel(<, Nat)
    BY WFMin, NatLessThanWellFounded, Zenon
<1>2. \A m \in S : ~(m < n)
    BY <1>1, Zenon DEF OpToRel
<1> QED BY <1>2

\* One that is bounded has a greatest element, and Max is it.
LEMMA Greatest ==
    ASSUME NEW S \in SUBSET Nat, S # {},
           NEW bound \in Nat, \A n \in S : n <= bound
    PROVE  Max(S) \in S /\ \A n \in S : n <= Max(S)
<1> DEFINE below == {m \in Nat : \E n \in S : m + n = bound}
<1>1. below # {}
    <2>1. PICK n \in S : TRUE
        OBVIOUS
    <2>2. bound - n \in Nat /\ (bound - n) + n = bound
        BY <2>1
    <2> QED BY <2>2
<1>2. PICK k \in below : \A m \in below : k <= m
    BY <1>1, Least
<1>3. PICK n \in S : k + n = bound
    OBVIOUS
<1>4. ASSUME NEW m \in S PROVE n >= m
    <2>1. bound - m \in below
        OBVIOUS
    <2> QED BY <1>2, <1>3, <2>1
<1>5. \E x \in S : \A y \in S : x >= y
    BY <1>4
<1> QED BY <1>5 DEF Max

-----------------------------------------------------------------------------
(* Recursive functions.                                                     *)

\* g begins with a base, and goes on from each number to the next by a step.
StepsOn(g, n, S, base, step) ==
    /\ g \in [0 .. n -> S]
    /\ g[0] = base
    /\ \A i \in 1 .. n : g[i] = step[<<g[i-1], i>>]

\* Such a function exists, and stays where the step stays.
LEMMA Iterates ==
    ASSUME NEW n \in Nat, NEW S, NEW base \in S, NEW step \in [S \X (1 .. n) -> S]
    PROVE  \E g : StepsOn(g, n, S, base, step)
<1> DEFINE Is(g, k) == g = [i \in 0 .. k |-> IF i = 0 THEN base ELSE step[<<g[i-1], i>>]]
           Bad == {k \in 0 .. n : ~ \E g \in [0 .. k -> S] : Is(g, k)}
<1>1. ASSUME NEW k \in Bad, \A j \in Bad : k <= j
      PROVE  FALSE
    <2>1. k # 0
        <3> DEFINE z == [i \in 0 .. 0 |-> base]
        <3>1. z \in [0 .. 0 -> S]
            OBVIOUS
        <3>2. \A i \in 0 .. 0 : i = 0
            OBVIOUS
        <3>3. Is(z, 0)
            BY <3>2
        <3> QED BY <3>1, <3>3
    <2>2. k - 1 \in 0 .. n /\ ~(k <= k - 1)
        BY <2>1
    <2>3. PICK g \in [0 .. k - 1 -> S] : Is(g, k - 1)
        BY <1>1, <2>2
    <2> DEFINE last == step[<<g[k - 1], k>>]
               h == [i \in 0 .. k |-> IF i = k THEN last ELSE g[i]]
    <2>4. last \in S
        <3>1. g[k - 1] \in S /\ k \in 1 .. n
            BY <2>1, <2>2
        <3> QED BY <3>1
    <2> HIDE DEF last
    <2>5. \A i \in 0 .. k : i # k => i \in 0 .. k - 1 /\ (i # 0 => i - 1 \in 0 .. k /\ i - 1 # k)
        BY <2>2
    <2>6. h \in [0 .. k -> S]
        BY <2>4, <2>5
    <2>7. \A i \in 0 .. k : h[i] = IF i = 0 THEN base ELSE step[<<h[i-1], i>>]
        <3> SUFFICES ASSUME NEW i \in 0 .. k
                     PROVE  h[i] = IF i = 0 THEN base ELSE step[<<h[i-1], i>>]
            OBVIOUS
        <3>1. CASE i = k
            <4>1. h[i - 1] = g[k - 1] /\ h[i] = last /\ i # 0
                BY <2>1, <3>1
            <4> QED BY <4>1, <3>1 DEF last
        <3>2. CASE i # k
            <4>1. h[i] = g[i] /\ (i # 0 => h[i - 1] = g[i - 1])
                BY <2>5, <3>2
            <4>2. g[i] = IF i = 0 THEN base ELSE step[<<g[i-1], i>>]
                BY <2>3, <2>5, <3>2, Zenon
            <4> QED BY <4>1, <4>2
        <3> QED BY <3>1, <3>2
    <2>8. Is(h, k)
        <3> HIDE DEF h
        <3>1. h = [i \in 0 .. k |-> h[i]]
            BY <2>6
        <3> QED BY <2>7, <3>1
    <2> QED BY <2>6, <2>8
<1>2. Bad \subseteq Nat
    OBVIOUS
<1> HIDE DEF Bad
<1>3. Bad = {}
    BY <1>1, <1>2, Least
<1>4. n \in 0 .. n
    OBVIOUS
<1>5. PICK g \in [0 .. n -> S] : Is(g, n)
    BY <1>3, <1>4, Zenon DEF Bad
<1>6. \A i \in 0 .. n : g[i] = IF i = 0 THEN base ELSE step[<<g[i-1], i>>]
    BY <1>5, Zenon
<1>7. 0 \in 0 .. n /\ \A i \in 1 .. n : i \in 0 .. n /\ i # 0
    OBVIOUS
<1> QED BY <1>5, <1>6, <1>7 DEF StepsOn

\* g joins the first sequences of seqs, up to each of the first n.
Flattens(g, seqs, n) ==
    g = [i \in 1 .. n |-> IF i = 1 THEN seqs[i] ELSE g[i-1] \o seqs[i]]

\* Such a function exists: one for n - 1 gives one for n.
LEMMA FlattensExists ==
    ASSUME NEW seqs, NEW n \in Nat
    PROVE  \E g : Flattens(g, seqs, n)
<1> DEFINE Bad == {k \in Nat : ~ \E g : Flattens(g, seqs, k)}
<1>1. ASSUME NEW k \in Bad, \A j \in Bad : k <= j
      PROVE  FALSE
    <2>1. k # 0
        <3>1. Flattens([i \in 1 .. 0 |-> seqs[i]], seqs, 0)
            BY DEF Flattens
        <3> QED BY <3>1
    <2>2. k - 1 \in Nat /\ ~(k <= k - 1)
        BY <2>1
    <2>3. k - 1 \notin Bad
        BY <1>1, <2>2, Zenon
    <2>4. PICK g : Flattens(g, seqs, k - 1)
        BY <2>2, <2>3
    <2> DEFINE h == [i \in 1 .. k |-> IF i = 1 THEN seqs[i] ELSE g[i-1] \o seqs[i]]
    <2>5. \A i \in 1 .. k - 1 : h[i] = g[i]
        <3>1. \A i \in 1 .. k - 1 : g[i] = IF i = 1 THEN seqs[i] ELSE g[i-1] \o seqs[i]
            BY <2>4, Zenon DEF Flattens
        <3>2. \A i \in 1 .. k - 1 : i \in 1 .. k
            BY <2>2
        <3> QED BY <3>1, <3>2
    <2>6. \A i \in 1 .. k : i # 1 => i - 1 \in 1 .. k - 1
        BY <2>2
    <2>7. h = [i \in 1 .. k |-> IF i = 1 THEN seqs[i] ELSE h[i-1] \o seqs[i]]
        <3>1. \A i \in 1 .. k : i # 1 => h[i - 1] = g[i - 1]
            BY <2>5, <2>6
        <3> HIDE DEF h
        <3>2. h = [i \in 1 .. k |-> IF i = 1 THEN seqs[i] ELSE g[i-1] \o seqs[i]]
            BY DEF h
        <3> QED BY <3>1, <3>2
    <2>8. Flattens(h, seqs, k)
        BY <2>7 DEF Flattens
    <2> QED BY <2>8
<1>2. Bad \subseteq Nat
    OBVIOUS
<1> HIDE DEF Bad
<1>3. Bad = {}
    BY <1>1, <1>2, Least
<1> QED BY <1>3 DEF Bad

-----------------------------------------------------------------------------
\* What the library's fold takes out of a set first.
First(s) == CHOOSE x \in s : TRUE

\* g sums the weights w over each subset of S, the way the library's fold does.
Sums(g, w, S) ==
    g = [s \in SUBSET S |-> IF s = {} THEN 0 ELSE w[First(s)] + g[s \ {First(s)}]]

\* Taking the first out leaves a smaller set.
LEMMA FirstTaken ==
    ASSUME NEW s, IsFiniteSet(s), s # {}
    PROVE  /\ First(s) \in s
           /\ IsFiniteSet(s \ {First(s)})
           /\ Cardinality(s) \in Nat \ {0}
           /\ Cardinality(s \ {First(s)}) = Cardinality(s) - 1
<1>1. First(s) \in s
    BY DEF First
<1>2. Cardinality(s) \in Nat /\ (Cardinality(s) = 0 <=> s = {})
    BY FS_CardinalityType, FS_EmptySet
<1>3. IsFiniteSet(s \ {First(s)}) /\ Cardinality(s \ {First(s)}) = Cardinality(s) - 1
    BY <1>1, FS_RemoveElement
<1> QED BY <1>1, <1>2, <1>3

\* Such a function exists: one for the subsets of at most n elements gives one
\* for those of n + 1.
LEMMA SumsExist ==
    ASSUME NEW S, IsFiniteSet(S), NEW w
    PROVE  \E g : Sums(g, w, S)
<1> DEFINE Small(n) == {s \in SUBSET S : Cardinality(s) <= n}
           Partial(g, n) ==
               g = [s \in Small(n) |-> IF s = {} THEN 0 ELSE w[First(s)] + g[s \ {First(s)}]]
           Bad == {n \in Nat : ~ \E g : Partial(g, n)}
<1>1. \A s \in SUBSET S : IsFiniteSet(s) /\ Cardinality(s) \in Nat /\ (Cardinality(s) = 0 <=> s = {})
    BY FS_Subset, FS_CardinalityType, FS_EmptySet
<1>2. ASSUME NEW n \in Nat, n \in Bad, \A m \in Bad : n <= m
      PROVE  FALSE
    <2>1. n # 0
        <3> DEFINE g == [s \in Small(0) |-> 0]
        <3>1. \A s \in Small(0) : s = {}
            BY <1>1
        <3>2. Partial(g, 0)
            BY <3>1
        <3> QED BY <1>2, <3>2
    <2>2. n - 1 \in Nat /\ n - 1 \notin Bad
        <3>1. n - 1 \in Nat /\ ~(n <= n - 1)
            BY <2>1
        <3> QED BY <1>2, <3>1, Zenon
    <2>3. PICK g : Partial(g, n - 1)
        BY <2>2
    <2> DEFINE h == [s \in Small(n) |->
                        IF s = {} THEN 0 ELSE w[First(s)] + g[s \ {First(s)}]]
    <2>4. ASSUME NEW s \in Small(n), s # {}
          PROVE  g[s \ {First(s)}] = h[s \ {First(s)}]
        <3> DEFINE r == s \ {First(s)}
        <3>1. r \in Small(n - 1) /\ r \in Small(n)
            BY <1>1, <2>4, <2>2, FirstTaken
        <3>2. g[r] = IF r = {} THEN 0 ELSE w[First(r)] + g[r \ {First(r)}]
            BY <2>3, <3>1
        <3>3. h[r] = IF r = {} THEN 0 ELSE w[First(r)] + g[r \ {First(r)}]
            BY <3>1
        <3> QED BY <3>2, <3>3
    <2>5. Partial(h, n)
        BY <2>4
    <2> QED BY <1>2, <2>5
<1>3. Bad = {}
    <2> HIDE DEF Bad
    <2> SUFFICES ASSUME Bad # {} PROVE FALSE
        OBVIOUS
    <2>1. Bad \subseteq Nat
        BY DEF Bad
    <2> QED BY <2>1, <1>2, Least
<1>4. Cardinality(S) \in Nat
    BY <1>1
<1>5. PICK g : Partial(g, Cardinality(S))
    BY <1>3, <1>4
<1>6. Small(Cardinality(S)) = SUBSET S
    BY FS_Subset, <1>1, <1>4
<1> QED BY <1>5, <1>6 DEF Sums

\* It is a number, and what it gives a set does not depend on what is taken out
\* first: any element can be.
LEMMA SumsAnyOrder ==
    ASSUME NEW S, IsFiniteSet(S), NEW w, \A x \in S : w[x] \in Nat,
           NEW g, Sums(g, w, S)
    PROVE  \A s \in SUBSET S : /\ g[s] \in Nat
                              /\ \A x \in s : g[s] = w[x] + g[s \ {x}]
<1> DEFINE Good(s) == g[s] \in Nat /\ \A x \in s : g[s] = w[x] + g[s \ {x}]
           Bad == {n \in Nat : \E s \in SUBSET S : Cardinality(s) = n /\ ~Good(s)}
<1>1. \A s \in SUBSET S : IsFiniteSet(s) /\ Cardinality(s) \in Nat
    BY FS_Subset, FS_CardinalityType
<1>2. g[{}] = 0 /\ \A s \in SUBSET S : s # {} => g[s] = w[First(s)] + g[s \ {First(s)}]
    BY DEF Sums
<1>3. ASSUME NEW s \in SUBSET S,
             \A t \in SUBSET S : Cardinality(t) < Cardinality(s) => Good(t)
      PROVE  Good(s)
    <2>1. CASE s = {}
        BY <1>2, <2>1
    <2>2. CASE s # {}
        <3> DEFINE f == First(s)
        <3>1. /\ f \in s /\ Cardinality(s) \in Nat
              /\ Cardinality(s \ {f}) = Cardinality(s) - 1
              /\ g[s] = w[f] + g[s \ {f}]
            BY <1>1, <1>2, <2>2, FirstTaken
        <3> HIDE DEF f
        <3>2. \A x \in s : Cardinality(s \ {x}) < Cardinality(s)
            <4> TAKE x \in s
            <4>1. Cardinality(s \ {x}) = Cardinality(s) - 1
                BY <1>1, FS_RemoveElement
            <4> QED BY <3>1, <4>1
        <3>3. \A x \in s : Good(s \ {x})
            BY <1>3, <3>2
        <3>4. w[f] \in Nat /\ g[s \ {f}] \in Nat
            BY <3>1, <3>3
        <3>5. ASSUME NEW x \in s, x # f
              PROVE  g[s] = w[x] + g[s \ {x}]
            <4>1. f \in s \ {x} /\ x \in s \ {f} /\ (s \ {x}) \ {f} = (s \ {f}) \ {x}
                BY <3>1, <3>5
            <4>2. g[s \ {f}] = w[x] + g[(s \ {f}) \ {x}]
                BY <3>1, <3>3, <4>1
            <4>3. g[s \ {x}] = w[f] + g[(s \ {f}) \ {x}]
                BY <3>3, <4>1
            <4>4. Cardinality((s \ {f}) \ {x}) < Cardinality(s)
                <5>1. Cardinality((s \ {f}) \ {x}) = Cardinality(s \ {f}) - 1
                    BY <1>1, <3>1, <4>1, FS_RemoveElement
                <5> QED BY <3>1, <5>1
            <4>5. g[(s \ {f}) \ {x}] \in Nat /\ w[x] \in Nat
                BY <1>3, <4>4
            <4> QED BY <3>1, <3>4, <4>2, <4>3, <4>5
        <3>6. g[s] \in Nat
            BY <3>1, <3>4
        <3>7. \A x \in s : g[s] = w[x] + g[s \ {x}]
            BY <3>1, <3>5, Zenon
        <3> QED BY <3>6, <3>7
    <2> QED BY <2>1, <2>2
<1>4. Bad = {}
    <2> SUFFICES ASSUME Bad # {} PROVE FALSE
        OBVIOUS
    <2>1. PICK n \in Bad : \A m \in Bad : n <= m
        BY Least
    <2>2. PICK s \in SUBSET S : Cardinality(s) = n /\ ~Good(s)
        BY <2>1
    <2>3. ASSUME NEW t \in SUBSET S, Cardinality(t) < Cardinality(s), ~Good(t)
          PROVE  FALSE
        <3>1. Cardinality(t) \in Bad
            BY <1>1, <2>3
        <3> QED BY <1>1, <2>1, <2>2, <2>3, <3>1
    <2> QED BY <1>3, <2>2, <2>3
<1> QED BY <1>1, <1>4

\* Two that sum the same weights agree where both are defined.
LEMMA SumsAgree ==
    ASSUME NEW S, IsFiniteSet(S), NEW T, IsFiniteSet(T),
           NEW w, \A x \in S \cup T : w[x] \in Nat,
           NEW g, Sums(g, w, S), NEW h, Sums(h, w, T)
    PROVE  \A s \in SUBSET (S \cap T) : g[s] = h[s]
<1> DEFINE Bad == {n \in Nat : \E s \in SUBSET (S \cap T) : Cardinality(s) = n /\ g[s] # h[s]}
<1>1. \A s \in SUBSET (S \cap T) : IsFiniteSet(s) /\ Cardinality(s) \in Nat
    BY FS_Subset, FS_CardinalityType
<1>2. Bad = {}
    <2> SUFFICES ASSUME Bad # {} PROVE FALSE
        OBVIOUS
    <2>1. PICK n \in Bad : \A m \in Bad : n <= m
        BY Least
    <2>2. PICK s \in SUBSET (S \cap T) : Cardinality(s) = n /\ g[s] # h[s]
        BY <2>1
    <2>3. s # {}
        BY <2>2 DEF Sums
    <2> DEFINE r == s \ {First(s)}
    <2>4. Cardinality(r) = n - 1 /\ n \in Nat \ {0}
        BY <1>1, <2>2, <2>3, FirstTaken
    <2>5. g[s] = w[First(s)] + g[r] /\ h[s] = w[First(s)] + h[r]
        BY <2>3 DEF Sums
    <2>6. r \in SUBSET (S \cap T) /\ Cardinality(r) \in Nat
        BY <1>1
    <2> HIDE DEF r
    <2>7. g[r] # h[r]
        BY <2>2, <2>5
    <2>8. n - 1 \in Bad
        BY <2>4, <2>6, <2>7
    <2> HIDE DEF Bad
    <2> QED BY <2>1, <2>4, <2>8
<1> QED BY <1>1, <1>2

\* The sum of the weights of a finite set.
Total(w, S) == (CHOOSE g : Sums(g, w, S))[S]

\* Nothing weighs nothing.
LEMMA TotalOfNone == ASSUME NEW w PROVE Total(w, {}) = 0
<1>1. PICK g : Sums(g, w, {})
    BY SumsExist, FS_EmptySet
<1>2. Sums(CHOOSE h : Sums(h, w, {}), w, {})
    BY <1>1
<1> QED BY <1>2 DEF Total, Sums

\* One element more weighs its weight more.
LEMMA TotalOfOneMore ==
    ASSUME NEW S, IsFiniteSet(S), NEW x, x \notin S,
           NEW w, \A y \in S \cup {x} : w[y] \in Nat
    PROVE  Total(w, S) \in Nat /\ Total(w, S \cup {x}) = w[x] + Total(w, S)
<1> DEFINE T == S \cup {x}
           g == CHOOSE h : Sums(h, w, S)
           f == CHOOSE h : Sums(h, w, T)
<1>1. IsFiniteSet(T) /\ S = T \ {x} /\ x \in T
    BY FS_AddElement
<1>2. Sums(g, w, S) /\ Sums(f, w, T)
    BY <1>1, SumsExist, Zenon
<1>3. Total(w, S) = g[S] /\ Total(w, T) = f[T]
    BY DEF Total
<1> HIDE DEF g, f, T
<1>4. \A y \in T : w[y] \in Nat
    BY DEF T
<1>5. g[S] \in Nat
    <2>1. \A y \in S : w[y] \in Nat
        OBVIOUS
    <2>2. S \in SUBSET S
        OBVIOUS
    <2> QED BY <1>2, <2>1, <2>2, SumsAnyOrder
<1>6. f[T] = w[x] + f[T \ {x}]
    <2>1. IsFiniteSet(T) /\ Sums(f, w, T) /\ x \in T /\ T \in SUBSET T
        BY <1>1, <1>2
    <2> QED BY <1>4, <2>1, SumsAnyOrder
<1>7. f[S] = g[S]
    <2>1. S \cup T = T /\ S \cap T = S
        BY <1>1
    <2> QED BY <1>1, <1>2, <1>4, <2>1, SumsAgree
<1> QED BY <1>1, <1>3, <1>5, <1>6, <1>7 DEF T

\* Weights that agree on a set add up to the same there.
LEMMA TotalSame ==
    ASSUME NEW S, IsFiniteSet(S), NEW w, NEW v, \A x \in S : w[x] \in Nat /\ w[x] = v[x]
    PROVE  Total(w, S) \in Nat /\ Total(w, S) = Total(v, S)
<1> DEFINE g == CHOOSE h : Sums(h, w, S)
           f == CHOOSE h : Sums(h, v, S)
<1>1. Sums(g, w, S) /\ Sums(f, v, S)
    BY SumsExist, Zenon
<1>2. Total(w, S) = g[S] /\ Total(v, S) = f[S]
    BY DEF Total
<1> HIDE DEF g, f
<1>3. \A s \in SUBSET S : s # {} => v[First(s)] = w[First(s)]
    BY DEF First
<1>4. Sums(f, w, S)
    BY <1>1, <1>3 DEF Sums
<1>5. S \in SUBSET S /\ S \in SUBSET (S \cap S) /\ \A x \in S \cup S : w[x] \in Nat
    OBVIOUS
<1>6. g[S] \in Nat
    BY <1>1, <1>5, SumsAnyOrder
<1>7. g[S] = f[S]
    BY <1>1, <1>4, <1>5, SumsAgree
<1> QED BY <1>2, <1>6, <1>7

\* Two sets with nothing in common weigh what they weigh together.
LEMMA TotalOfBoth ==
    ASSUME NEW S, IsFiniteSet(S), NEW T, IsFiniteSet(T), S \cap T = {},
           NEW w, \A x \in S \cup T : w[x] \in Nat
    PROVE  /\ Total(w, S) \in Nat /\ Total(w, T) \in Nat
           /\ Total(w, S \cup T) = Total(w, S) + Total(w, T)
<1> DEFINE Good(U) == Total(w, S \cup U) = Total(w, S) + Total(w, U)
           Bad == {n \in Nat : \E U \in SUBSET T : Cardinality(U) = n /\ ~Good(U)}
<1>1. \A U \in SUBSET T : /\ IsFiniteSet(U) /\ Cardinality(U) \in Nat
                         /\ Total(w, U) \in Nat
    BY FS_Subset, FS_CardinalityType, TotalSame
<1>2. Total(w, S) \in Nat
    BY TotalSame
<1>3. ASSUME NEW U \in SUBSET T,
             \A V \in SUBSET T : Cardinality(V) < Cardinality(U) => Good(V)
      PROVE  Good(U)
    <2>1. CASE U = {}
        <3>1. S \cup U = S
            BY <2>1
        <3> QED BY <1>2, <2>1, <3>1, TotalOfNone
    <2>2. CASE U # {}
        <3> DEFINE f == First(U)
                   V == U \ {f}
        <3>1. f \in U /\ Cardinality(V) < Cardinality(U)
            <4>1. f \in U /\ Cardinality(U) \in Nat \ {0} /\ Cardinality(V) = Cardinality(U) - 1
                BY <1>1, <2>2, FirstTaken
            <4> HIDE DEF V
            <4> QED BY <4>1
        <3> HIDE DEF f
        <3>2. /\ V \in SUBSET T /\ f \notin V /\ V \cup {f} = U /\ f \in T
              /\ f \notin S \cup V /\ (S \cup V) \cup {f} = S \cup U
            BY <3>1
        <3>3. IsFiniteSet(S \cup V) /\ IsFiniteSet(V)
            BY <1>1, <3>2, FS_Union
        <3> HIDE DEF V
        <3>4. Good(V)
            BY <1>3, <3>1, <3>2
        <3>5. /\ \A y \in (S \cup V) \cup {f} : w[y] \in Nat
              /\ \A y \in V \cup {f} : w[y] \in Nat
            BY <3>2
        <3>6. Total(w, (S \cup V) \cup {f}) = w[f] + Total(w, S \cup V)
            BY <3>2, <3>3, <3>5, TotalOfOneMore
        <3>7. Total(w, V \cup {f}) = w[f] + Total(w, V) /\ Total(w, V) \in Nat
            BY <3>2, <3>3, <3>5, TotalOfOneMore
        <3>8. w[f] \in Nat
            BY <3>2
        <3>9. Total(w, S \cup U) = w[f] + Total(w, S \cup V) /\ Total(w, U) = w[f] + Total(w, V)
            BY <3>2, <3>6, <3>7
        <3> QED BY <1>2, <3>4, <3>7, <3>8, <3>9
    <2> QED BY <2>1, <2>2
<1>4. Bad = {}
    <2> SUFFICES ASSUME Bad # {} PROVE FALSE
        OBVIOUS
    <2>1. PICK n \in Bad : \A m \in Bad : n <= m
        BY Least
    <2>2. PICK U \in SUBSET T : Cardinality(U) = n /\ ~Good(U)
        BY <2>1
    <2>3. ASSUME NEW V \in SUBSET T, Cardinality(V) < Cardinality(U), ~Good(V)
          PROVE  FALSE
        <3>1. Cardinality(V) \in Bad
            BY <1>1, <2>3
        <3>2. n \in Nat /\ Cardinality(V) \in Nat
            BY <1>1, <2>1
        <3>3. n <= Cardinality(V)
            BY <2>1, <3>1
        <3>4. Cardinality(V) < n
            BY <2>2, <2>3
        <3> HIDE DEF Bad
        <3> QED BY <3>2, <3>3, <3>4
    <2> QED BY <1>3, <2>2, <2>3
<1> QED BY <1>1, <1>2, <1>4

\* The size of a union is the sum of the sizes of its parts, if no two of them
\* share an element.
LEMMA SizesAddUp ==
    ASSUME NEW U, IsFiniteSet(U), NEW P, \A u \in U : IsFiniteSet(P[u]),
           \A u, v \in U : u # v => P[u] \cap P[v] = {},
           NEW w, \A u \in U : w[u] = Cardinality(P[u])
    PROVE  Total(w, U) = Cardinality(UNION {P[u] : u \in U})
<1> DEFINE All(S) == UNION {P[u] : u \in S}
           Good(S) == IsFiniteSet(All(S)) /\ Total(w, S) = Cardinality(All(S))
           Bad == {n \in Nat : \E S \in SUBSET U : Cardinality(S) = n /\ ~Good(S)}
<1>1. \A S \in SUBSET U : IsFiniteSet(S) /\ Cardinality(S) \in Nat
    BY FS_Subset, FS_CardinalityType
<1>2. Good({})
    <2>1. All({}) = {}
        OBVIOUS
    <2> QED BY <2>1, TotalOfNone, FS_EmptySet
<1>3. \A u \in U : w[u] \in Nat
    BY FS_CardinalityType
<1>4. ASSUME NEW S \in SUBSET U, S # {}, Good(S \ {First(S)})
      PROVE  Good(S)
    <2> DEFINE f == First(S)
               R == S \ {f}
    <2>1. f \in S /\ IsFiniteSet(R) /\ S = R \cup {f} /\ f \notin R
        <3>1. IsFiniteSet(S)
            BY <1>1
        <3>2. f \in S /\ IsFiniteSet(R)
            BY <1>4, <3>1, FirstTaken
        <3> QED BY <3>2
    <2>2. Total(w, S) = w[f] + Total(w, R)
        BY <1>3, <2>1, TotalOfOneMore
    <2>3. IsFiniteSet(All(R)) /\ Total(w, R) = Cardinality(All(R))
        BY <1>4
    <2>4. All(S) = All(R) \cup P[f]
        BY <2>1
    <2>5. All(R) \cap P[f] = {}
        BY <2>1
    <2> HIDE DEF All, f, R
    <2>6. IsFiniteSet(P[f]) /\ w[f] = Cardinality(P[f]) /\ Cardinality(P[f]) \in Nat
        BY <2>1, FS_CardinalityType
    <2>7. /\ IsFiniteSet(All(S))
          /\ Cardinality(All(S)) = Cardinality(All(R)) + Cardinality(P[f]) - 0
        BY <2>3, <2>4, <2>5, <2>6, FS_Union, FS_EmptySet
    <2>8. Cardinality(All(R)) \in Nat
        BY <2>3, FS_CardinalityType
    <2> QED BY <2>2, <2>3, <2>6, <2>7, <2>8
<1> HIDE DEF Good
<1>5. Bad = {}
    <2> SUFFICES ASSUME Bad # {} PROVE FALSE
        OBVIOUS
    <2>1. PICK n \in Bad : \A m \in Bad : n <= m
        BY Least
    <2>2. PICK S \in SUBSET U : Cardinality(S) = n /\ ~Good(S)
        BY <2>1
    <2>3. S # {}
        BY <1>2, <2>2
    <2>4. n - 1 \in Nat /\ Cardinality(S \ {First(S)}) = n - 1 /\ ~(n <= n - 1)
        <3>1. IsFiniteSet(S)
            BY <1>1
        <3>2. /\ Cardinality(S) \in Nat \ {0}
              /\ Cardinality(S \ {First(S)}) = Cardinality(S) - 1
            BY <2>3, <3>1, FirstTaken
        <3> QED BY <2>2, <3>2
    <2>5. n - 1 \in Bad
        BY <1>4, <2>2, <2>3, <2>4
    <2> HIDE DEF Bad
    <2> QED BY <2>1, <2>4, <2>5
<1>6. Good(U)
    BY <1>1, <1>5
<1> QED BY <1>6 DEF Good

-----------------------------------------------------------------------------
(* Counting.                                                                *)

\* A part of a finite set and the rest make it up.
LEMMA Splits ==
    ASSUME NEW S, IsFiniteSet(S), NEW T, T \subseteq S
    PROVE  /\ IsFiniteSet(T) /\ IsFiniteSet(S \ T)
           /\ Cardinality(S) \in Nat /\ Cardinality(T) \in Nat /\ Cardinality(S \ T) \in Nat
           /\ Cardinality(S) = Cardinality(T) + Cardinality(S \ T)
<1>1. IsFiniteSet(T) /\ IsFiniteSet(S \ T)
    BY FS_Subset
<1>2. T \cup (S \ T) = S /\ T \cap (S \ T) = {}
    OBVIOUS
<1>3. /\ Cardinality(S) = Cardinality(T) + Cardinality(S \ T) - Cardinality({})
      /\ Cardinality({}) = 0
    BY <1>1, <1>2, FS_Union, FS_EmptySet
<1>4. Cardinality(S) \in Nat /\ Cardinality(T) \in Nat /\ Cardinality(S \ T) \in Nat
    BY <1>1, FS_CardinalityType
<1> QED BY <1>1, <1>3, <1>4

\* What a function makes of a finite set is finite, and of the same size when it
\* tells the elements apart.
LEMMA ImageSize ==
    ASSUME NEW S, IsFiniteSet(S), NEW f, f = [x \in S |-> f[x]]
    PROVE  LET T == {f[x] : x \in S}
           IN  /\ IsFiniteSet(T) /\ Cardinality(T) \in Nat /\ Cardinality(S) \in Nat
               /\ Cardinality(T) <= Cardinality(S)
               /\ (\A x, y \in S : f[x] = f[y] => x = y) => Cardinality(T) = Cardinality(S)
<1> DEFINE T == {f[x] : x \in S}
<1>1. f \in Surjection(S, T)
    BY DEF Surjection
<1>2. (\A x, y \in S : f[x] = f[y] => x = y) => f \in Injection(S, T)
    BY <1>1 DEF Surjection, Injection, IsInjective
<1> HIDE DEF T
<1>3. IsFiniteSet(T) /\ Cardinality(T) <= Cardinality(S)
      /\ (Cardinality(T) = Cardinality(S) <=> f \in Injection(S, T))
    BY <1>1, FS_Surjection
<1> QED BY <1>2, <1>3, FS_CardinalityType DEF T

\* Of a finite set with numbers on it some element has the highest number.
LEMMA Highest ==
    ASSUME NEW S, IsFiniteSet(S), S # {}, NEW f, \A s \in S : f[s] \in Nat
    PROVE  \E s \in S : \A t \in S : f[t] <= f[s]
<1> DEFINE upto(s) == {t \in S : f[t] <= f[s]}
           counts == {Cardinality(upto(s)) : s \in S}
<1>1. /\ Cardinality(S) \in Nat
      /\ \A s \in S : /\ IsFiniteSet(upto(s)) /\ Cardinality(upto(s)) \in Nat
                      /\ Cardinality(upto(s)) <= Cardinality(S)
    BY FS_Subset, FS_CardinalityType
<1>2. PICK s \in S : \A t \in S : Cardinality(upto(t)) <= Cardinality(upto(s))
    <2>1. counts # {} /\ counts \in SUBSET Nat /\ \A c \in counts : c <= Cardinality(S)
        <3> HIDE DEF upto
        <3> QED BY <1>1
    <2> HIDE DEF counts
    <2>2. PICK c \in counts : \A d \in counts : d <= c
        BY <1>1, <2>1, Greatest
    <2> HIDE DEF upto
    <2> QED BY <2>2 DEF counts
<1>3. ASSUME NEW t \in S, ~(f[t] <= f[s])
      PROVE  FALSE
    <2>1. upto(s) \subseteq upto(t) /\ t \in upto(t) /\ t \notin upto(s)
        BY <1>3
    <2> HIDE DEF upto
    <2>2. Cardinality(upto(s)) <= Cardinality(upto(t))
          /\ (Cardinality(upto(s)) = Cardinality(upto(t)) => upto(s) = upto(t))
        BY <1>1, <2>1, FS_Subset
    <2> QED BY <1>1, <1>2, <2>1, <2>2
<1> QED BY <1>3
=============================================================================
