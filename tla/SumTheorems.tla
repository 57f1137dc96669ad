----------------------------- MODULE SumTheorems -----------------------------
(***************************************************************************)
(* Finite sums.  The models add up with the folds of the community         *)
(* modules, which are recursive functions; here is what every proof about  *)
(* a sum rests on.  Induction is by a set with the elements a claim holds  *)
(* for, whose complement would have a least element.                       *)
(***************************************************************************)
EXTENDS FiniteSetsExt, FiniteSetTheorems, WellFoundedInduction, TLAPS

-----------------------------------------------------------------------------
(* Induction; least and greatest elements. *)

\* A set of naturals that has an element has a least one.
LEMMA LeastNatural ==
    ASSUME NEW T, T \subseteq Nat, T # {}
    PROVE  \E n \in T : \A k \in T : ~(k < n)
<1>1. \E n \in T : \A k \in T : ~(<<k, n>> \in OpToRel(<, Nat))
    BY NatLessThanWellFounded, WFMin
<1>2. \A k, n \in T : (<<k, n>> \in OpToRel(<, Nat)) <=> k < n
    BY DEF OpToRel
<1>3. QED
    BY <1>1, <1>2

\* What 0 has and every natural passes on to the next, all naturals have.
LEMMA NaturalsIn ==
    ASSUME NEW T, 0 \in T, \A n \in Nat : n \in T => n + 1 \in T
    PROVE  \A n \in Nat : n \in T
<1> SUFFICES ASSUME NEW m \in Nat \ T PROVE FALSE
    OBVIOUS
<1>1. PICK n \in Nat \ T : \A k \in Nat \ T : ~(k < n)
    <2> DEFINE R == Nat \ T
    <2>1. R \subseteq Nat /\ R # {}
        OBVIOUS
    <2> HIDE DEF R
    <2>2. \E n \in R : \A k \in R : ~(k < n)
        BY <2>1, LeastNatural
    <2>3. QED
        BY <2>2 DEF R
<1>2. n - 1 \in Nat /\ n - 1 < n
    BY <1>1
<1>3. QED
    BY <1>1, <1>2

\* A set of n + 1 elements is left with n when one goes.
LEMMA OneLess ==
    ASSUME NEW U, IsFiniteSet(U), NEW n \in Nat, Cardinality(U) = n + 1
    PROVE  U # {} /\ \A x \in U : Cardinality(U \ {x}) = n
<1>1. U # {}
    <2>1. Cardinality({}) = 0
        BY FS_EmptySet
    <2>2. QED
        BY <2>1
<1>2. ASSUME NEW x \in U PROVE Cardinality(U \ {x}) = Cardinality(U) - 1
    BY FS_RemoveElement
<1>3. QED
    BY <1>1, <1>2

\* What the empty set has and every subset passes on when an element is
\* added, all subsets of a finite set have.
LEMMA SubsetsIn ==
    ASSUME NEW S, IsFiniteSet(S), NEW T, {} \in T,
           \A U \in SUBSET S : \A x \in S \ U : U \in T => U \cup {x} \in T
    PROVE  \A U \in SUBSET S : U \in T
<1> DEFINE Sized == { n \in Nat : \A U \in SUBSET S : Cardinality(U) = n => U \in T }
<1>1. \A U \in SUBSET S : IsFiniteSet(U) /\ Cardinality(U) \in Nat
    BY FS_Subset, FS_CardinalityType
<1>2. 0 \in Sized
    BY <1>1, FS_EmptySet
<1>3. ASSUME NEW n \in Nat, n \in Sized PROVE n + 1 \in Sized
    <2> SUFFICES ASSUME NEW U \in SUBSET S, Cardinality(U) = n + 1 PROVE U \in T
        OBVIOUS
    <2>1. U # {} /\ \A x \in U : Cardinality(U \ {x}) = n
        BY <1>1, OneLess
    <2>2. PICK x : x \in U
        BY <2>1
    <2>3. Cardinality(U \ {x}) = n
        BY <2>1, <2>2
    <2>4. U \ {x} \in T
        BY <1>3, <2>3
    <2>5. U = (U \ {x}) \cup {x} /\ x \in S \ (U \ {x})
        BY <2>2
    <2>6. QED
        BY <2>4, <2>5
<1> HIDE DEF Sized
<1>4. \A n \in Nat : n \in Sized
    BY <1>2, <1>3, NaturalsIn
<1>5. QED
    BY <1>1, <1>4 DEF Sized

\* A finite set of naturals that has an element has a greatest one.
LEMMA GreatestNatural ==
    ASSUME NEW S, S \subseteq Nat, S # {}, IsFiniteSet(S)
    PROVE  Max(S) \in S /\ \A x \in S : x <= Max(S)
<1> DEFINE HasGreatest(U) == \E g \in U : \A x \in U : g >= x
           T == { U \in SUBSET S : U = {} \/ HasGreatest(U) }
<1>1. {} \in T
    OBVIOUS
<1>2. ASSUME NEW U \in SUBSET S, NEW y \in S \ U, U \in T PROVE U \cup {y} \in T
    <2>1. CASE U = {}
        BY <2>1
    <2>2. CASE HasGreatest(U)
        <3>1. PICK g \in U : \A x \in U : g >= x
            BY <2>2
        <3>2. CASE g >= y
            BY <3>1, <3>2
        <3>3. CASE ~(g >= y)
            BY <3>1, <3>3
        <3>4. QED
            BY <3>2, <3>3
    <2>3. QED
        BY <1>2, <2>1, <2>2
<1> HIDE DEF T
<1>3. S \in T
    BY <1>1, <1>2, SubsetsIn
<1>4. \E g \in S : \A x \in S : g >= x
    BY <1>3 DEF T
<1>5. QED
    BY <1>4 DEF Max

\* The values of finitely many elements.
LEMMA ImageFinite ==
    ASSUME NEW S, IsFiniteSet(S), NEW f, NEW T, T = { f[x] : x \in S }
    PROVE  IsFiniteSet(T)
<1> DEFINE g == [x \in S |-> f[x]]
<1>1. g \in Surjection(S, T)
    BY DEF Surjection
<1> HIDE DEF g
<1>2. QED
    BY <1>1, FS_Surjection

\* The smaller of two numbers.
LEMMA SmallerOf ==
    ASSUME NEW a \in Int, NEW b \in Int
    PROVE  Min({a, b}) \in {a, b} /\ Min({a, b}) <= a /\ Min({a, b}) <= b
<1>1. \E x \in {a, b} : \A y \in {a, b} : x <= y
    <2>1. CASE a <= b
        BY <2>1
    <2>2. CASE b <= a
        BY <2>2
    <2>3. QED
        BY <2>1, <2>2
<1>2. Min({a, b}) \in {a, b} /\ \A y \in {a, b} : Min({a, b}) <= y
    BY <1>1, Zenon DEF Min
<1>3. QED
    BY <1>2

\* The greater of two numbers.
LEMMA GreaterOf ==
    ASSUME NEW a \in Int, NEW b \in Int
    PROVE  Max({a, b}) \in {a, b} /\ Max({a, b}) >= a /\ Max({a, b}) >= b
<1>1. \E x \in {a, b} : \A y \in {a, b} : x >= y
    <2>1. CASE a >= b
        BY <2>1
    <2>2. CASE b >= a
        BY <2>2
    <2>3. QED
        BY <2>1, <2>2
<1>2. Max({a, b}) \in {a, b} /\ \A y \in {a, b} : Max({a, b}) >= y
    BY <1>1, Zenon DEF Max
<1>3. QED
    BY <1>2

-----------------------------------------------------------------------------
(* The recursion of a sum. *)

Some(s) == CHOOSE x \in s : TRUE

\* g is what the fold computes for the subsets of S.
Sums(g, f, S) ==
    g = [s \in SUBSET S |-> IF s = {} THEN 0 ELSE f[Some(s)] + g[s \ {Some(s)}]]

\* Two functions that the recursion defines are the same.
LEMMA SumsUnique ==
    ASSUME NEW S, IsFiniteSet(S), NEW f, NEW g, NEW h, Sums(g, f, S), Sums(h, f, S)
    PROVE  g = h
<1> DEFINE Sized == { n \in Nat : \A U \in SUBSET S : Cardinality(U) = n => g[U] = h[U] }
<1>1. \A U \in SUBSET S : IsFiniteSet(U) /\ Cardinality(U) \in Nat
    BY FS_Subset, FS_CardinalityType
<1>2. 0 \in Sized
    BY <1>1, FS_EmptySet DEF Sums
<1>3. ASSUME NEW n \in Nat, n \in Sized PROVE n + 1 \in Sized
    <2> SUFFICES ASSUME NEW U \in SUBSET S, Cardinality(U) = n + 1 PROVE g[U] = h[U]
        OBVIOUS
    <2>1. U # {} /\ \A x \in U : Cardinality(U \ {x}) = n
        BY <1>1, OneLess
    <2>2. Some(U) \in U
        BY <2>1 DEF Some
    <2>3. Cardinality(U \ {Some(U)}) = n
        BY <2>1, <2>2
    <2>4. g[U \ {Some(U)}] = h[U \ {Some(U)}]
        BY <1>3, <2>3
    <2>5. QED
        BY <2>1, <2>4 DEF Sums
<1> HIDE DEF Sized
<1>4. \A n \in Nat : n \in Sized
    BY <1>2, <1>3, NaturalsIn
<1>5. \A U \in SUBSET S : g[U] = h[U]
    BY <1>1, <1>4 DEF Sized
<1>6. g = [s \in SUBSET S |-> g[s]] /\ h = [s \in SUBSET S |-> h[s]]
    BY DEF Sums
<1>7. QED
    BY <1>5, <1>6

\* The recursion defines a function: one that is right for the subsets of n
\* elements makes one that is right for those of n + 1.
LEMMA SumsExist ==
    ASSUME NEW S, IsFiniteSet(S), NEW f
    PROVE  \E g : Sums(g, f, S)
<1> DEFINE body(g, s) == IF s = {} THEN 0 ELSE f[Some(s)] + g[s \ {Some(s)}]
           UpTo(g, n) == \A s \in SUBSET S : Cardinality(s) <= n => g[s] = body(g, s)
           Reached == { n \in Nat : \E g : UpTo(g, n) }
<1>1. \A U \in SUBSET S : IsFiniteSet(U) /\ Cardinality(U) \in Nat /\ Cardinality(U) <= Cardinality(S)
    BY FS_Subset, FS_CardinalityType
<1>2. \A U \in SUBSET S : U # {} =>
         /\ Some(U) \in U /\ U \ {Some(U)} \in SUBSET S
         /\ Cardinality(U \ {Some(U)}) = Cardinality(U) - 1
    BY <1>1, FS_RemoveElement DEF Some
<1>3. 0 \in Reached
    <2>1. UpTo([s \in SUBSET S |-> 0], 0)
        BY <1>1, FS_EmptySet
    <2>2. QED
        BY <2>1
<1>4. ASSUME NEW n \in Nat, n \in Reached PROVE n + 1 \in Reached
    <2>1. PICK g : UpTo(g, n)
        BY <1>4
    <2> DEFINE h == [s \in SUBSET S |-> body(g, s)]
    <2>2. ASSUME NEW s \in SUBSET S, Cardinality(s) <= n + 1 PROVE body(g, s) = body(h, s)
        <3>1. CASE s = {}
            BY <3>1
        <3>2. CASE s # {}
            <4>1. Cardinality(s \ {Some(s)}) <= n /\ s \ {Some(s)} \in SUBSET S
                BY <1>1, <1>2, <2>2, <3>2
            <4>2. h[s \ {Some(s)}] = g[s \ {Some(s)}]
                BY <2>1, <4>1
            <4> HIDE DEF h
            <4>3. QED
                BY <4>2
        <3>3. QED
            BY <3>1, <3>2
    <2>3. \A s \in SUBSET S : h[s] = body(g, s)
        OBVIOUS
    <2> HIDE DEF h
    <2>4. UpTo(h, n + 1)
        BY <2>2, <2>3
    <2>5. QED
        BY <2>4
<1>5. \E g : UpTo(g, Cardinality(S))
    <2> HIDE DEF Reached
    <2>1. \A n \in Nat : n \in Reached
        BY <1>3, <1>4, NaturalsIn
    <2>2. QED
        BY <2>1, FS_CardinalityType DEF Reached
<1>6. PICK g : UpTo(g, Cardinality(S))
    BY <1>5
<1> DEFINE h == [s \in SUBSET S |-> g[s]]
<1>7. \A s \in SUBSET S : h[s] = body(h, s)
    BY <1>1, <1>2, <1>6
<1>8. h = [s \in SUBSET S |-> body(h, s)]
    BY <1>7
<1>9. QED
    BY <1>8 DEF Sums

-----------------------------------------------------------------------------
(* The sum of a function over a set. *)

\* What the recursion computes for a set is the sum over it, and so for its
\* subsets.
LEMMA SumIs ==
    ASSUME NEW S, IsFiniteSet(S), NEW f, NEW g, Sums(g, f, S), NEW U \in SUBSET S
    PROVE  SumFunctionOnSet(f, U) = g[U]
<1> DEFINE h == CHOOSE k : Sums(k, f, U)
<1>1. SumFunctionOnSet(f, U) = h[U]
    BY DEF SumFunctionOnSet, FoldFunctionOnSet, MapThenFoldSet, Sums, Some
<1>2. IsFiniteSet(U)
    BY FS_Subset
<1>3. Sums(h, f, U)
    BY <1>2, SumsExist
<1> HIDE DEF h
<1> DEFINE r == [s \in SUBSET U |-> g[s]]
<1>4. Sums(r, f, U)
    <2>1. ASSUME NEW s \in SUBSET U
          PROVE  g[s] = IF s = {} THEN 0 ELSE f[Some(s)] + r[s \ {Some(s)}]
        <3>1. s \in SUBSET S /\ s \ {Some(s)} \in SUBSET U
            OBVIOUS
        <3>2. r[s \ {Some(s)}] = g[s \ {Some(s)}]
            BY <3>1
        <3>3. QED
            BY <3>1, <3>2 DEF Sums
    <2>2. QED
        BY <2>1 DEF Sums
<1>5. r[U] = g[U]
    OBVIOUS
<1> HIDE DEF r
<1>6. r = h
    BY <1>2, <1>3, <1>4, SumsUnique
<1>7. QED
    BY <1>1, <1>5, <1>6

\* The empty sum, and the one the fold takes apart.
LEMMA SumUnfolds ==
    ASSUME NEW S, IsFiniteSet(S), NEW f
    PROVE  /\ SumFunctionOnSet(f, {}) = 0
           /\ S # {} => /\ Some(S) \in S
                        /\ SumFunctionOnSet(f, S) = f[Some(S)] + SumFunctionOnSet(f, S \ {Some(S)})
<1>1. PICK g : Sums(g, f, S)
    BY SumsExist
<1>2. \A U \in SUBSET S : SumFunctionOnSet(f, U) = g[U]
    BY <1>1, SumIs
<1>3. g[{}] = 0 /\ (S # {} => g[S] = f[Some(S)] + g[S \ {Some(S)}])
    BY <1>1 DEF Sums
<1>4. S # {} => Some(S) \in S
    BY DEF Some
<1>5. S \ {Some(S)} \in SUBSET S /\ {} \in SUBSET S /\ S \in SUBSET S
    OBVIOUS
<1>6. QED
    BY <1>2, <1>3, <1>4, <1>5

\* A sum of integers is one, a sum of naturals is one.
LEMMA SumType ==
    ASSUME NEW S, IsFiniteSet(S), NEW f, NEW N \in {Nat, Int}, \A x \in S : f[x] \in N
    PROVE  SumFunctionOnSet(f, S) \in N
<1> DEFINE Sized == { n \in Nat : \A U \in SUBSET S : Cardinality(U) = n => SumFunctionOnSet(f, U) \in N }
<1>1. \A U \in SUBSET S : IsFiniteSet(U) /\ Cardinality(U) \in Nat
    BY FS_Subset, FS_CardinalityType
<1>2. 0 \in Sized
    <2>1. \A U \in SUBSET S : Cardinality(U) = 0 => U = {}
        BY <1>1, FS_EmptySet
    <2>2. SumFunctionOnSet(f, {}) = 0
        BY SumUnfolds
    <2>3. 0 \in N
        OBVIOUS
    <2>4. QED
        BY <2>1, <2>2, <2>3
<1>3. ASSUME NEW n \in Nat, n \in Sized PROVE n + 1 \in Sized
    <2> SUFFICES ASSUME NEW U \in SUBSET S, Cardinality(U) = n + 1
                 PROVE  SumFunctionOnSet(f, U) \in N
        OBVIOUS
    <2> DEFINE x == Some(U)
               rest == SumFunctionOnSet(f, U \ {x})
    <2>1. U # {} /\ \A y \in U : Cardinality(U \ {y}) = n
        BY <1>1, OneLess
    <2>2. x \in U /\ SumFunctionOnSet(f, U) = f[x] + rest
        BY <1>1, <2>1, SumUnfolds
    <2>3. f[x] \in N /\ rest \in N
        BY <1>3, <2>1, <2>2
    <2> HIDE DEF x, rest
    <2>4. QED
        BY <2>2, <2>3
<1> HIDE DEF Sized
<1>4. \A n \in Nat : n \in Sized
    BY <1>2, <1>3, NaturalsIn
<1>5. QED
    BY <1>1, <1>4 DEF Sized

\* Any element can be taken out of a sum of integers.
LEMMA SumTakesOut ==
    ASSUME NEW S, IsFiniteSet(S), NEW f, \A x \in S : f[x] \in Int
    PROVE  \A x \in S : SumFunctionOnSet(f, S) = f[x] + SumFunctionOnSet(f, S \ {x})
<1> DEFINE Right(U) == \A x \in U : SumFunctionOnSet(f, U) = f[x] + SumFunctionOnSet(f, U \ {x})
           Sized == { n \in Nat : \A U \in SUBSET S : Cardinality(U) = n => Right(U) }
<1>1. \A U \in SUBSET S : IsFiniteSet(U) /\ Cardinality(U) \in Nat
    BY FS_Subset, FS_CardinalityType
<1>4. \A U \in SUBSET S : SumFunctionOnSet(f, U) \in Int
    BY <1>1, SumType
<1>2. 0 \in Sized
    <2>1. \A U \in SUBSET S : Cardinality(U) = 0 => U = {}
        BY <1>1, FS_EmptySet
    <2>2. Right({})
        OBVIOUS
    <2>3. QED
        BY <2>1, <2>2
<1>3. ASSUME NEW n \in Nat, n \in Sized PROVE n + 1 \in Sized
    <2> SUFFICES ASSUME NEW U \in SUBSET S, Cardinality(U) = n + 1 PROVE Right(U)
        OBVIOUS
    <2> DEFINE T(V) == SumFunctionOnSet(f, V)
               x == Some(U)
    <2>1. U # {} /\ \A y \in U : Cardinality(U \ {y}) = n
        BY <1>1, OneLess
    <2>2. \A y \in U : Right(U \ {y})
        BY <1>3, <2>1
    <2>3. x \in U /\ T(U) = f[x] + T(U \ {x}) /\ f[x] \in Int
        BY <1>1, <2>1, SumUnfolds
    <2> HIDE DEF x
    <2>5. ASSUME NEW y \in U, y # x PROVE T(U) = f[y] + T(U \ {y})
        <3>1. T(U \ {x}) = f[y] + T((U \ {x}) \ {y})
            BY <2>2, <2>3, <2>5
        <3>2. T(U \ {y}) = f[x] + T((U \ {y}) \ {x})
            BY <2>2, <2>3, <2>5
        <3>3. T((U \ {x}) \ {y}) = T((U \ {y}) \ {x})
            <4>1. (U \ {x}) \ {y} = (U \ {y}) \ {x}
                OBVIOUS
            <4>2. QED
                BY <4>1
        <3>4. f[y] \in Int
            OBVIOUS
        <3> DEFINE rest == T((U \ {y}) \ {x})
        <3>5. rest \in Int
            BY <1>4
        <3>6. T(U) = f[x] + (f[y] + rest) /\ T(U \ {y}) = f[x] + rest
            BY <2>3, <3>1, <3>2, <3>3
        <3> HIDE DEF rest
        <3>7. QED
            BY <2>3, <3>4, <3>5, <3>6
    <2>6. QED
        BY <2>3, <2>5
<1> HIDE DEF Sized
<1>9. \A n \in Nat : n \in Sized
    BY <1>2, <1>3, NaturalsIn
<1>5. Right(S)
    BY <1>1, <1>9 DEF Sized
<1>6. QED
    BY <1>5

-----------------------------------------------------------------------------
(* Comparing sums. *)

\* A sum depends on the values of the elements only.
LEMMA SumAgrees ==
    ASSUME NEW S, IsFiniteSet(S), NEW f, NEW h, \A x \in S : f[x] = h[x]
    PROVE  SumFunctionOnSet(f, S) = SumFunctionOnSet(h, S)
<1>1. PICK g : Sums(g, f, S)
    BY SumsExist
<1>2. \A s \in SUBSET S : s # {} => f[Some(s)] = h[Some(s)]
    BY DEF Some
<1>3. Sums(g, h, S)
    BY <1>1, <1>2 DEF Sums
<1>4. S \in SUBSET S
    OBVIOUS
<1>5. QED
    BY <1>1, <1>3, <1>4, SumIs

\* One more element adds its value.
LEMMA SumAdds ==
    ASSUME NEW S, IsFiniteSet(S), NEW x, x \notin S, NEW f, \A y \in S \cup {x} : f[y] \in Int
    PROVE  SumFunctionOnSet(f, S \cup {x}) = f[x] + SumFunctionOnSet(f, S)
<1>1. IsFiniteSet(S \cup {x})
    BY FS_AddElement
<1>2. SumFunctionOnSet(f, S \cup {x}) = f[x] + SumFunctionOnSet(f, (S \cup {x}) \ {x})
    BY <1>1, SumTakesOut
<1>3. (S \cup {x}) \ {x} = S
    OBVIOUS
<1>4. QED
    BY <1>2, <1>3

\* The sum over two parts.
LEMMA SumSplits ==
    ASSUME NEW S, IsFiniteSet(S), NEW V, IsFiniteSet(V), S \cap V = {},
           NEW f, \A x \in S \cup V : f[x] \in Int
    PROVE  SumFunctionOnSet(f, S \cup V) = SumFunctionOnSet(f, S) + SumFunctionOnSet(f, V)
<1> DEFINE T == { U \in SUBSET V :
                    SumFunctionOnSet(f, S \cup U) = SumFunctionOnSet(f, S) + SumFunctionOnSet(f, U) }
<1>1. SumFunctionOnSet(f, S) \in Int
    BY SumType
<1>2. {} \in T
    <2>1. SumFunctionOnSet(f, {}) = 0 /\ S \cup {} = S
        BY SumUnfolds
    <2>2. QED
        BY <1>1, <2>1
<1>3. ASSUME NEW U \in SUBSET V, NEW x \in V \ U, U \in T PROVE U \cup {x} \in T
    <2>1. IsFiniteSet(U) /\ IsFiniteSet(S \cup U)
        BY FS_Subset, FS_Union
    <2>2. SumFunctionOnSet(f, S \cup (U \cup {x})) = f[x] + SumFunctionOnSet(f, S \cup U)
        <3>1. SumFunctionOnSet(f, (S \cup U) \cup {x}) = f[x] + SumFunctionOnSet(f, S \cup U)
            BY <2>1, SumAdds
        <3>2. (S \cup U) \cup {x} = S \cup (U \cup {x})
            OBVIOUS
        <3>3. QED
            BY <3>1, <3>2
    <2>3. SumFunctionOnSet(f, U \cup {x}) = f[x] + SumFunctionOnSet(f, U)
        BY <2>1, SumAdds
    <2>4. SumFunctionOnSet(f, U) \in Int /\ f[x] \in Int
        BY <2>1, SumType
    <2>5. SumFunctionOnSet(f, S \cup U) = SumFunctionOnSet(f, S) + SumFunctionOnSet(f, U)
        BY <1>3
    <2>6. SumFunctionOnSet(f, S \cup (U \cup {x})) = SumFunctionOnSet(f, S) + SumFunctionOnSet(f, U \cup {x})
        BY <1>1, <2>2, <2>3, <2>4, <2>5
    <2>7. QED
        BY <2>6
<1> HIDE DEF T
<1>4. V \in T
    BY <1>2, <1>3, SubsetsIn
<1>5. QED
    BY <1>4 DEF T

\* No more of naturals in a part than in the whole.
LEMMA SumOfPart ==
    ASSUME NEW S, IsFiniteSet(S), NEW U \in SUBSET S, NEW f, \A x \in S : f[x] \in Nat
    PROVE  /\ SumFunctionOnSet(f, U) \in Nat /\ SumFunctionOnSet(f, S) \in Nat
           /\ SumFunctionOnSet(f, U) <= SumFunctionOnSet(f, S)
<1>1. IsFiniteSet(U) /\ IsFiniteSet(S \ U) /\ U \cup (S \ U) = S /\ U \cap (S \ U) = {}
    BY FS_Subset
<1>2. SumFunctionOnSet(f, S) = SumFunctionOnSet(f, U) + SumFunctionOnSet(f, S \ U)
    <2>1. SumFunctionOnSet(f, U \cup (S \ U)) = SumFunctionOnSet(f, U) + SumFunctionOnSet(f, S \ U)
        BY <1>1, SumSplits
    <2>2. QED
        BY <1>1, <2>1
<1>3. /\ SumFunctionOnSet(f, U) \in Nat
      /\ SumFunctionOnSet(f, S \ U) \in Nat /\ SumFunctionOnSet(f, S) \in Nat
    BY <1>1, SumType
<1>4. QED
    BY <1>2, <1>3

\* Element by element no more.
LEMMA SumAtMost ==
    ASSUME NEW S, IsFiniteSet(S), NEW f, NEW h,
           \A x \in S : f[x] \in Int /\ h[x] \in Int /\ f[x] <= h[x]
    PROVE  SumFunctionOnSet(f, S) <= SumFunctionOnSet(h, S)
<1> DEFINE T == { U \in SUBSET S : SumFunctionOnSet(f, U) <= SumFunctionOnSet(h, U) }
<1>1. {} \in T
    <2>1. SumFunctionOnSet(f, {}) = 0 /\ SumFunctionOnSet(h, {}) = 0
        BY SumUnfolds
    <2>2. QED
        BY <2>1
<1>2. ASSUME NEW U \in SUBSET S, NEW x \in S \ U, U \in T PROVE U \cup {x} \in T
    <2>1. IsFiniteSet(U)
        BY FS_Subset
    <2>2. SumFunctionOnSet(f, U \cup {x}) = f[x] + SumFunctionOnSet(f, U)
        BY <2>1, SumAdds
    <2>3. SumFunctionOnSet(h, U \cup {x}) = h[x] + SumFunctionOnSet(h, U)
        BY <2>1, SumAdds
    <2>4. SumFunctionOnSet(f, U) \in Int /\ SumFunctionOnSet(h, U) \in Int
        BY <2>1, SumType
    <2>5. SumFunctionOnSet(f, U \cup {x}) <= SumFunctionOnSet(h, U \cup {x})
        BY <1>2, <2>2, <2>3, <2>4
    <2>6. QED
        BY <2>5
<1> HIDE DEF T
<1>3. S \in T
    BY <1>1, <1>2, SubsetsIn
<1>4. QED
    BY <1>3 DEF T

\* The sum of differences is the difference of the sums.
LEMMA SumMinus ==
    ASSUME NEW S, IsFiniteSet(S), NEW f, NEW h, NEW d,
           \A x \in S : f[x] \in Int /\ h[x] \in Int /\ d[x] = f[x] - h[x]
    PROVE  SumFunctionOnSet(d, S) = SumFunctionOnSet(f, S) - SumFunctionOnSet(h, S)
<1> DEFINE T == { U \in SUBSET S :
                    SumFunctionOnSet(d, U) = SumFunctionOnSet(f, U) - SumFunctionOnSet(h, U) }
<1>1. {} \in T
    <2>1. SumFunctionOnSet(f, {}) = 0 /\ SumFunctionOnSet(h, {}) = 0 /\ SumFunctionOnSet(d, {}) = 0
        BY SumUnfolds
    <2>2. QED
        BY <2>1
<1>2. ASSUME NEW U \in SUBSET S, NEW x \in S \ U, U \in T PROVE U \cup {x} \in T
    <2>1. IsFiniteSet(U) /\ \A y \in S : d[y] \in Int
        BY FS_Subset
    <2>2. SumFunctionOnSet(f, U \cup {x}) = f[x] + SumFunctionOnSet(f, U)
        BY <2>1, SumAdds
    <2>3. SumFunctionOnSet(h, U \cup {x}) = h[x] + SumFunctionOnSet(h, U)
        BY <2>1, SumAdds
    <2>4. SumFunctionOnSet(d, U \cup {x}) = d[x] + SumFunctionOnSet(d, U)
        BY <2>1, SumAdds
    <2>5. SumFunctionOnSet(f, U) \in Int /\ SumFunctionOnSet(h, U) \in Int
        BY <2>1, SumType
    <2>6. SumFunctionOnSet(d, U \cup {x})
            = SumFunctionOnSet(f, U \cup {x}) - SumFunctionOnSet(h, U \cup {x})
        BY <1>2, <2>2, <2>3, <2>4, <2>5
    <2>7. QED
        BY <2>6
<1> HIDE DEF T
<1>3. S \in T
    BY <1>1, <1>2, SubsetsIn
<1>4. QED
    BY <1>3 DEF T

\* Adding up what each group of elements adds up to.
LEMMA SumByGroup ==
    ASSUME NEW S, IsFiniteSet(S), NEW f, \A x \in S : f[x] \in Int,
           NEW K, IsFiniteSet(K), NEW key, \A x \in S : key[x] \in K,
           NEW group, \A k \in K : group[k] = SumFunctionOnSet(f, { x \in S : key[x] = k })
    PROVE  SumFunctionOnSet(group, K) = SumFunctionOnSet(f, S)
<1> DEFINE Of(k) == { x \in S : key[x] = k }
           In(L) == { x \in S : key[x] \in L }
           T == { L \in SUBSET K : SumFunctionOnSet(group, L) = SumFunctionOnSet(f, In(L)) }
<1>1. {} \in T
    <2>1. In({}) = {}
        OBVIOUS
    <2>2. SumFunctionOnSet(group, {}) = 0 /\ SumFunctionOnSet(f, {}) = 0
        BY SumUnfolds
    <2>3. QED
        BY <2>1, <2>2
<1>2. ASSUME NEW L \in SUBSET K, NEW k \in K \ L, L \in T PROVE L \cup {k} \in T
    <2>1. IsFiniteSet(L) /\ IsFiniteSet(Of(k)) /\ IsFiniteSet(In(L))
        BY FS_Subset
    <2>2. In(L \cup {k}) = Of(k) \cup In(L) /\ Of(k) \cap In(L) = {}
        OBVIOUS
    <2>3. SumFunctionOnSet(f, Of(k) \cup In(L)) = SumFunctionOnSet(f, Of(k)) + SumFunctionOnSet(f, In(L))
        <3> DEFINE A == Of(k)
                   B == In(L)
        <3>1. IsFiniteSet(A) /\ IsFiniteSet(B) /\ A \cap B = {} /\ \A x \in A \cup B : f[x] \in Int
            BY <2>1, <2>2
        <3> HIDE DEF A, B
        <3>2. SumFunctionOnSet(f, A \cup B) = SumFunctionOnSet(f, A) + SumFunctionOnSet(f, B)
            BY <3>1, SumSplits
        <3>3. QED
            BY <3>2 DEF A, B
    <2>4. \A j \in L \cup {k} : group[j] \in Int
        <3>1. ASSUME NEW j \in K PROVE group[j] \in Int
            <4> DEFINE A == { x \in S : key[x] = j }
            <4>1. IsFiniteSet(A) /\ \A x \in A : f[x] \in Int
                BY FS_Subset
            <4> HIDE DEF A
            <4>2. SumFunctionOnSet(f, A) \in Int
                BY <4>1, SumType
            <4>3. QED
                BY <4>2 DEF A
        <3>2. QED
            BY <3>1
    <2>5. SumFunctionOnSet(group, L \cup {k}) = group[k] + SumFunctionOnSet(group, L)
        BY <2>1, <2>4, SumAdds
    <2>6. SumFunctionOnSet(group, L \cup {k}) = SumFunctionOnSet(f, In(L \cup {k}))
        BY <1>2, <2>2, <2>3, <2>5
    <2>7. QED
        BY <2>6
<1> HIDE DEF T
<1>3. K \in T
    BY <1>1, <1>2, SubsetsIn
<1>4. In(K) = S
    OBVIOUS
<1>5. QED
    BY <1>3, <1>4 DEF T

-----------------------------------------------------------------------------
(* Sums that come to the same. *)

\* A sum is that of the sums of its parts.
LEMMA SumByParts ==
    ASSUME NEW S, IsFiniteSet(S), NEW f, \A x \in S : f[x] \in Int,
           NEW K, IsFiniteSet(K), NEW key, \A x \in S : key[x] \in K,
           NEW of, \A k \in K : \A x : x \in of[k] <=> x \in S /\ key[x] = k,
           NEW group, \A k \in K : group[k] = SumFunctionOnSet(f, of[k])
    PROVE  SumFunctionOnSet(group, K) = SumFunctionOnSet(f, S)
<1>1. ASSUME NEW k \in K PROVE group[k] = SumFunctionOnSet(f, {x \in S : key[x] = k})
    <2>1. of[k] = {x \in S : key[x] = k}
        OBVIOUS
    <2>2. QED
        BY <2>1
<1>2. QED
    BY <1>1, SumByGroup

\* One element.
LEMMA SumOfOne ==
    ASSUME NEW f, NEW x, f[x] \in Int
    PROVE  SumFunctionOnSet(f, {x}) = f[x]
<1>1. IsFiniteSet({x})
    BY FS_Singleton
<1>2. SumFunctionOnSet(f, {}) = 0
    BY <1>1, SumUnfolds
<1>3. SumFunctionOnSet(f, {x}) = f[x] + SumFunctionOnSet(f, {x} \ {x})
    BY <1>1, SumTakesOut
<1>4. {x} \ {x} = {}
    OBVIOUS
<1>5. QED
    BY <1>2, <1>3, <1>4

\* Elements that are worth nothing do not count.
LEMMA SumThatCounts ==
    ASSUME NEW S, IsFiniteSet(S), NEW U \in SUBSET S, NEW f, \A x \in S : f[x] \in Int,
           \A x \in S \ U : f[x] = 0
    PROVE  SumFunctionOnSet(f, S) = SumFunctionOnSet(f, U)
<1> DEFINE V == S \ U
<1>1. IsFiniteSet(U) /\ IsFiniteSet(V) /\ U \cup V = S /\ U \cap V = {} /\ \A x \in V : f[x] = 0
    BY FS_Subset
<1>2. \A x \in U \cup V : f[x] \in Int
    OBVIOUS
<1> HIDE DEF V
<1>3. SumFunctionOnSet(f, U \cup V) = SumFunctionOnSet(f, U) + SumFunctionOnSet(f, V)
    BY <1>1, <1>2, SumSplits
<1>4. SumFunctionOnSet(f, V) = SumFunctionOnSet(f, V) - SumFunctionOnSet(f, V)
    <2>1. \A x \in V : f[x] \in Int /\ f[x] = f[x] - f[x]
        BY <1>1
    <2>2. QED
        BY <1>1, <2>1, SumMinus
<1>5. SumFunctionOnSet(f, U) \in Int /\ SumFunctionOnSet(f, V) \in Int
    BY <1>1, <1>2, SumType
<1>6. QED
    BY <1>1, <1>3, <1>4, <1>5

\* Elements under other names.
LEMMA SumOfImage ==
    ASSUME NEW S, IsFiniteSet(S), NEW f, \A x \in S : f[x] \in Int,
           NEW K, IsFiniteSet(K), NEW key, \A k \in K : \E x \in S : key[x] = k,
           \A x \in S : key[x] \in K, \A x, y \in S : key[x] = key[y] => x = y,
           NEW g, \A x \in S : g[key[x]] = f[x]
    PROVE  SumFunctionOnSet(g, K) = SumFunctionOnSet(f, S)
<1>1. ASSUME NEW k \in K PROVE g[k] = SumFunctionOnSet(f, { x \in S : key[x] = k })
    <2>1. PICK x \in S : key[x] = k
        OBVIOUS
    <2>2. { y \in S : key[y] = k } = {x}
        BY <2>1
    <2>3. SumFunctionOnSet(f, {x}) = f[x]
        BY SumOfOne
    <2>4. QED
        BY <2>1, <2>2, <2>3
<1>2. QED
    BY <1>1, SumByGroup

=============================================================================
