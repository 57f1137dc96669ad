-------------------------- MODULE DraftLinesProofs --------------------------
(***************************************************************************)
(* Proofs about the lines of a draft (DraftLines).  Three things carry     *)
(* them: the order in which the aggregation puts what it makes is one, so  *)
(* no line is lost or doubled by sorting; the hours drawn up to an entry   *)
(* are the smaller of what is asked for and what is left; and every part   *)
(* of an entry's hours is on one line (Spreads).  The invariant of the     *)
(* module, LineInv, says in addition that a line agrees with the overrides *)
(* of its entries and that nobody else gives a line its rate.              *)
(***************************************************************************)
EXTENDS DraftLines, SequenceTheorems, SumTheorems

-----------------------------------------------------------------------------
(* Orders and enumerations. *)

\* What comes before x is in S, never x itself; it is less for what is before
\* x; and of two that differ one comes before the other.
IsOrder(S, before) ==
    /\ IsFiniteSet(S)
    /\ \A x \in S : before[x] \subseteq S /\ x \notin before[x]
    /\ \A x, y \in S : x \in before[y] => before[x] \subseteq before[y]
    /\ \A x, y \in S : x = y \/ x \in before[y] \/ y \in before[x]

\* A sequence that has every element of S once.
Enumerates(s, S) ==
    /\ Cardinality(S) \in Nat
    /\ s \in [1..Cardinality(S) -> S]
    /\ \A m, n \in 1..Cardinality(S) : s[m] = s[n] => m = n
    /\ \A x \in S : \E n \in 1..Cardinality(S) : s[n] = x

\* Who comes before an element is fewer than whoever comes before a later one.
LEMMA OrderEnumerates ==
    ASSUME NEW S, NEW before, IsOrder(S, before)
    PROVE  Enumerates(InOrder(S, before), S)
<1> DEFINE N == Cardinality(S)
           rank == [x \in S |-> Cardinality(before[x]) + 1]
<1>1. N \in Nat
    BY FS_CardinalityType DEF IsOrder
<1>2. ASSUME NEW x \in S
      PROVE  /\ IsFiniteSet(before[x]) /\ Cardinality(before[x]) \in Nat
             /\ rank[x] \in 1..N
    <2>1. before[x] \subseteq S \ {x} /\ IsFiniteSet(S \ {x}) /\ Cardinality(S \ {x}) = N - 1
        BY FS_RemoveElement DEF IsOrder
    <2>2. IsFiniteSet(before[x]) /\ Cardinality(before[x]) <= N - 1
        BY <2>1, FS_Subset
    <2>3. Cardinality(before[x]) \in Nat
        BY <2>2, FS_CardinalityType
    <2>4. rank[x] = Cardinality(before[x]) + 1
        OBVIOUS
    <2> HIDE DEF rank
    <2>5. QED
        BY <1>1, <2>2, <2>3, <2>4
<1>3. ASSUME NEW x \in S, NEW y \in S, x \in before[y] PROVE rank[x] # rank[y]
    <2>1. before[x] \subseteq before[y] /\ before[x] # before[y]
        BY <1>3 DEF IsOrder
    <2>2. Cardinality(before[x]) # Cardinality(before[y])
        BY <1>2, <2>1, FS_Subset
    <2>3. QED
        BY <1>2, <2>2
<1>4. rank \in Injection(S, 1..N)
    <2>1. rank \in [S -> 1..N]
        BY <1>2
    <2>2. \A x, y \in S : rank[x] = rank[y] => x = y
        BY <1>3 DEF IsOrder
    <2> HIDE DEF rank
    <2>3. QED
        BY <2>1, <2>2 DEF Injection, IsInjective
<1>5. rank \in Surjection(S, 1..N)
    <2>1. IsFiniteSet(1..N) /\ Cardinality(1..N) = N
        BY <1>1, FS_Interval
    <2> HIDE DEF rank
    <2>2. QED
        BY <1>4, <2>1, FS_Injection
<1>6. ASSUME NEW n \in 1..N
      PROVE  InOrder(S, before)[n] \in S /\ rank[InOrder(S, before)[n]] = n
    <2>1. PICK x \in S : rank[x] = n
        BY <1>5 DEF Surjection
    <2>2. Cardinality(before[x]) = n - 1
        BY <1>2, <2>1
    <2>3. InOrder(S, before)[n] = CHOOSE z \in S : Cardinality(before[z]) = n - 1
        BY DEF InOrder
    <2>4. InOrder(S, before)[n] \in S /\ Cardinality(before[InOrder(S, before)[n]]) = n - 1
        BY <2>2, <2>3
    <2>5. QED
        BY <1>2, <2>4
<1>7. ASSUME NEW x \in S PROVE InOrder(S, before)[rank[x]] = x
    <2>1. rank[x] \in 1..N
        BY <1>2
    <2>2. InOrder(S, before)[rank[x]] \in S /\ rank[InOrder(S, before)[rank[x]]] = rank[x]
        BY <1>6, <2>1
    <2> HIDE DEF rank
    <2>3. QED
        BY <1>4, <2>2 DEF Injection, IsInjective
<1>8. DOMAIN InOrder(S, before) = 1..N /\ InOrder(S, before) = [n \in 1..N |-> InOrder(S, before)[n]]
    BY DEF InOrder
<1> HIDE DEF rank
<1>9. QED
    BY <1>1, <1>2, <1>6, <1>7, <1>8 DEF Enumerates

\* A finite set of naturals in its own order.
LEMMA NaturalsInOrder ==
    ASSUME NEW S, S \subseteq Nat, IsFiniteSet(S)
    PROVE  Enumerates(InOrder(S, [i \in S |-> {j \in S : j < i}]), S)
<1> DEFINE before == [i \in S |-> {j \in S : j < i}]
<1>1. IsOrder(S, before)
    <2>1. \A i \in S : before[i] = {j \in S : j < i}
        OBVIOUS
    <2> HIDE DEF before
    <2>2. ASSUME NEW i \in S PROVE before[i] \subseteq S /\ i \notin before[i]
        <3>1. before[i] = {j \in S : j < i} /\ ~(i < i)
            BY <2>1
        <3>2. QED
            BY <3>1
    <2>3. ASSUME NEW i \in S, NEW j \in S, i \in before[j], NEW k \in before[i]
          PROVE  k \in before[j]
        <3>1. k \in S /\ k < i /\ i < j
            BY <2>1, <2>3
        <3>2. k < j
            BY <3>1
        <3>3. QED
            BY <2>1, <3>1, <3>2
    <2>4. ASSUME NEW i \in S, NEW j \in S, i # j PROVE i \in before[j] \/ j \in before[i]
        <3>1. i < j \/ j < i
            BY <2>4
        <3>2. QED
            BY <2>1, <3>1
    <2>5. QED
        BY <2>2, <2>3, <2>4 DEF IsOrder
<1> HIDE DEF before
<1>2. Enumerates(InOrder(S, before), S)
    BY <1>1, OrderEnumerates
<1>3. QED
    BY <1>2 DEF before

\* A place is a tuple of six numbers; the lexicographic order of such is one.
Six == [1..6 -> Int]

\* Places are ordered by the first number in which they differ.
LEMMA LexicographicOrder ==
    /\ \A p \in Six : ~Before(p, p)
    /\ \A p, q \in Six : p = q \/ Before(p, q) \/ Before(q, p)
    /\ \A p, q, r \in Six : Before(p, q) /\ Before(q, r) => Before(p, r)
<1>1. \A p \in Six : DOMAIN p = 1..6 /\ \A i \in 1..6 : p[i] \in Int
    BY DEF Six
<1>2. ASSUME NEW p \in Six PROVE ~Before(p, p)
    BY <1>1 DEF Before
<1>3. ASSUME NEW p \in Six, NEW q \in Six, p # q PROVE Before(p, q) \/ Before(q, p)
    <2> DEFINE T == {i \in 1..6 : p[i] # q[i]}
    <2>1. T # {} /\ T \subseteq Nat
        BY <1>3 DEF Six
    <2> HIDE DEF T
    <2>2. PICK i \in T : \A k \in T : ~(k < i)
        BY <2>1, LeastNatural
    <2>3. i \in 1..6 /\ p[i] # q[i] /\ \A j \in 1..(i - 1) : p[j] = q[j]
        BY <2>2 DEF T
    <2>4. p[i] < q[i] \/ q[i] < p[i]
        BY <1>1, <2>3
    <2>5. QED
        BY <1>1, <2>3, <2>4 DEF Before
<1>4. ASSUME NEW p \in Six, NEW q \in Six, NEW r \in Six, Before(p, q), Before(q, r)
      PROVE  Before(p, r)
    <2>1. PICK i \in 1..6 : p[i] < q[i] /\ \A j \in 1..(i - 1) : p[j] = q[j]
        BY <1>1, <1>4 DEF Before
    <2>2. PICK k \in 1..6 : q[k] < r[k] /\ \A j \in 1..(k - 1) : q[j] = r[j]
        BY <1>1, <1>4 DEF Before
    <2>3. CASE i <= k
        <3>1. p[i] < r[i]
            BY <1>1, <2>1, <2>2, <2>3
        <3>2. \A j \in 1..(i - 1) : p[j] = r[j]
            BY <2>1, <2>2, <2>3
        <3>3. QED
            BY <1>1, <3>1, <3>2 DEF Before
    <2>4. CASE k < i
        <3>1. p[k] < r[k]
            BY <1>1, <2>1, <2>2, <2>4
        <3>2. \A j \in 1..(k - 1) : p[j] = r[j]
            BY <2>1, <2>2, <2>4
        <3>3. QED
            BY <1>1, <3>1, <3>2 DEF Before
    <2>5. QED
        BY <2>3, <2>4
<1>5. QED
    BY <1>2, <1>3, <1>4

\* What differs in its place can be put in order.
LEMMA PlacesOrder ==
    ASSUME NEW S, IsFiniteSet(S), NEW place \in [S -> Six],
           \A l, m \in S : place[l] = place[m] => l = m
    PROVE  Enumerates(InOrder(S, [l \in S |-> {m \in S : Before(place[m], place[l])}]), S)
<1> DEFINE before == [l \in S |-> {m \in S : Before(place[m], place[l])}]
<1>1. \A l \in S : place[l] \in Six
    OBVIOUS
<1>2. \A l, m \in S : m \in before[l] <=> Before(place[m], place[l])
    OBVIOUS
<1>3. \A l \in S : before[l] \subseteq S
    OBVIOUS
<1> HIDE DEF before
<1>4. IsOrder(S, before)
    <2>1. \A x \in S : x \notin before[x]
        BY <1>1, <1>2, LexicographicOrder
    <2>2. ASSUME NEW x \in S, NEW y \in S, x \in before[y], NEW z \in before[x] PROVE z \in before[y]
        <3>1. z \in S
            BY <1>3
        <3>2. Before(place[z], place[x]) /\ Before(place[x], place[y])
            BY <1>2, <2>2, <3>1
        <3>3. Before(place[z], place[y])
            BY <1>1, <3>1, <3>2, LexicographicOrder
        <3>4. QED
            BY <1>2, <3>1, <3>3
    <2>3. ASSUME NEW x \in S, NEW y \in S, x # y PROVE x \in before[y] \/ y \in before[x]
        BY <1>1, <1>2, <2>3, LexicographicOrder
    <2>4. QED
        BY <1>3, <2>1, <2>2, <2>3 DEF IsOrder
<1>5. Enumerates(InOrder(S, before), S)
    BY <1>4, OrderEnumerates
<1>6. QED
    BY <1>5 DEF before

-----------------------------------------------------------------------------
(* Entries, overrides and snapshots. *)

TimeEntry == [task : Nat, hours : Nat \ {0}, rate : Nat, billable : BOOLEAN,
              service : Nat, titled : BOOLEAN, year : Nat]

Overrides == [billable : [Entries -> BOOLEAN], rate : [Entries -> Nat],
              assigned : [Entries -> [manual : BOOLEAN, service : Nat, year : Nat]]]

\* Hours of some entries.
Snapshots == UNION {[S -> Nat \ {0}] : S \in SUBSET Entries}

UsedTyped == used \in [Keys -> Nat]

\* Entries are the numbers up to that of the last.
LEMMA EntriesAre ==
    /\ Len(Imported) \in Nat /\ Entries = 1..Len(Imported) /\ IsFiniteSet(Entries)
    /\ \A e \in Entries : e \in Nat \ {0} /\ Imported[e] \in TimeEntry
<1>1. Imported \in Seq(TimeEntry)
    BY ImportedAssumption DEF TimeEntry
<1>2. Len(Imported) \in Nat /\ Entries = 1..Len(Imported)
    BY <1>1 DEF Entries
<1>3. \A e \in 1..Len(Imported) : Imported[e] \in TimeEntry
    BY <1>1, ElementOfSeq
<1>4. QED
    BY <1>2, <1>3, FS_Interval

\* A snapshot has hours, at least one, of entries, which are finitely many.
LEMMA SnapshotIs ==
    ASSUME NEW h \in Snapshots
    PROVE  /\ DOMAIN h \subseteq Entries /\ IsFiniteSet(DOMAIN h)
           /\ \A e \in DOMAIN h : e \in Entries /\ e \in Nat \ {0} /\ h[e] \in Nat \ {0}
           /\ h = [e \in DOMAIN h |-> h[e]]
<1>1. PICK S \in SUBSET Entries : h \in [S -> Nat \ {0}]
    BY DEF Snapshots
<1>2. IsFiniteSet(S)
    BY EntriesAre, FS_Subset
<1>3. QED
    BY <1>1, <1>2, EntriesAre

\* What an entry draws on is an allowance, or nothing.
LEMMA KeysAre ==
    /\ NoKey \notin Keys
    /\ \A k \in Keys : Allowance[k] \in Nat /\ k[2] \in Nat \ {0} /\ k # NoKey
BY AllowanceAssumption DEF NoKey, NoYear

\* What an entry draws on is an allowance, if it is billable, or nothing.
LEMMA KeyOfType ==
    ASSUME NEW o \in Overrides, NEW e \in Entries
    PROVE  /\ KeyOf(o, e) \in Keys \cup {NoKey}
           /\ KeyOf(o, e) # NoKey => KeyOf(o, e) \in Keys /\ o.billable[e]
           /\ ServiceOf(o, e) \in Nat
<1>1. ServiceOf(o, e) \in Nat
    BY EntriesAre DEF ServiceOf, Overrides, TimeEntry
<1>2. QED
    BY <1>1 DEF KeyOf

\* The smaller of two naturals, as one of them.
LEMMA SmallerIs ==
    \A a, b \in Nat : Min({a, b}) \in Nat /\ Min({a, b}) = IF a <= b THEN a ELSE b
<1> TAKE a, b \in Nat
<1> DEFINE smaller == Min({a, b})
<1>1. smaller \in {a, b} /\ smaller <= a /\ smaller <= b
    BY SmallerOf
<1> HIDE DEF smaller
<1>2. smaller \in Nat /\ smaller = IF a <= b THEN a ELSE b
    BY <1>1
<1>3. QED
    BY <1>2 DEF smaller

\* What is left of an allowance is never below nothing.
LEMMA LeftType ==
    ASSUME UsedTyped, NEW k \in Keys, NEW d \in Nat
    PROVE  /\ Left(k, d) \in Nat
           /\ Allowance[k] - used[k] - d \in Int
           /\ Left(k, d) = IF Allowance[k] - used[k] - d >= 0 THEN Allowance[k] - used[k] - d ELSE 0
<1> DEFINE rest == Allowance[k] - used[k] - d
           zero == 0
           greater == Max({rest, zero})
<1>1. rest \in Int /\ zero \in Int
    BY KeysAre DEF UsedTyped
<1>2. Left(k, d) = greater
    BY DEF Left
<1> HIDE DEF rest, zero
<1>3. greater \in {rest, zero} /\ greater >= rest /\ greater >= zero
    BY <1>1, GreaterOf
<1> HIDE DEF greater
<1>4. greater \in Nat /\ greater = IF rest >= 0 THEN rest ELSE 0
    BY <1>1, <1>3 DEF zero
<1>5. QED
    BY <1>1, <1>2, <1>4 DEF rest

-----------------------------------------------------------------------------
(* The recursion of the allowances. *)

\* What entry n leaves drawn, if so much was drawn before.
NextDraw(o, hours, n, d) ==
    LET key == KeyOf(o, n) IN
    IF n \in DOMAIN hours /\ key # NoKey
    THEN [d EXCEPT ![key] = @ + Min({hours[n], Left(key, @)})]
    ELSE d

DrawStep(o, hours, n, g) ==
    IF n = 0 THEN [k \in Keys |-> 0] ELSE NextDraw(o, hours, n, g[n - 1])

Draws(g, o, hours) == g = [n \in {0} \cup Entries |-> DrawStep(o, hours, n, g)]

\* The recursion of Drawn has a solution: it can be begun and continued.
LEMMA DrawsExist ==
    ASSUME NEW o, NEW hours
    PROVE  \E g : Draws(g, o, hours)
<1> DEFINE At == {0} \cup Entries
           UpTo(g, n) == \A m \in At : m <= n => g[m] = DrawStep(o, hours, m, g)
           Reached == {n \in Nat : \E g : UpTo(g, n)}
           N == Len(Imported)
<1>1. N \in Nat /\ At = 0..N
    BY EntriesAre
<1> HIDE DEF At, N
<1>2. 0 \in Reached
    <2> DEFINE g == [m \in At |-> [k \in Keys |-> 0]]
    <2>1. \A m \in At : m <= 0 => m = 0
        BY <1>1
    <2>2. UpTo(g, 0)
        BY <2>1 DEF DrawStep
    <2>3. QED
        BY <2>2
<1>3. ASSUME NEW n \in Nat, n \in Reached PROVE n + 1 \in Reached
    <2>1. PICK g : UpTo(g, n)
        BY <1>3
    <2> DEFINE h == [m \in At |-> DrawStep(o, hours, m, g)]
    <2>2. ASSUME NEW m \in At, m <= n + 1 PROVE h[m] = DrawStep(o, hours, m, h)
        <3>1. h[m] = DrawStep(o, hours, m, g)
            OBVIOUS
        <3>2. CASE m = 0
            BY <3>1, <3>2 DEF DrawStep
        <3>3. CASE m # 0
            <4>1. m - 1 \in At /\ m - 1 <= n
                BY <1>1, <2>2, <3>3
            <4>2. h[m - 1] = DrawStep(o, hours, m - 1, g)
                BY <4>1
            <4>3. g[m - 1] = DrawStep(o, hours, m - 1, g)
                BY <2>1, <4>1
            <4> HIDE DEF h
            <4>4. QED
                BY <3>1, <3>3, <4>2, <4>3 DEF DrawStep
        <3>4. QED
            BY <3>2, <3>3
    <2> HIDE DEF h
    <2>3. UpTo(h, n + 1)
        BY <2>2
    <2>4. QED
        BY <2>3
<1>4. N \in Reached
    <2> HIDE DEF Reached
    <2>1. QED
        BY <1>1, <1>2, <1>3, NaturalsIn
<1>5. PICK g : UpTo(g, N)
    BY <1>4
<1> DEFINE h == [m \in At |-> g[m]]
<1>6. ASSUME NEW m \in At PROVE h[m] = DrawStep(o, hours, m, h)
    <2>1. g[m] = DrawStep(o, hours, m, g) /\ h[m] = g[m]
        BY <1>1, <1>5
    <2>2. CASE m = 0
        BY <2>1, <2>2 DEF DrawStep
    <2>3. CASE m # 0
        <3>1. m - 1 \in At
            BY <1>1, <2>3
        <3>2. h[m - 1] = g[m - 1]
            BY <3>1
        <3> HIDE DEF h
        <3>3. QED
            BY <2>1, <2>3, <3>2 DEF DrawStep
    <2>4. QED
        BY <2>2, <2>3
<1>7. h = [m \in At |-> h[m]]
    OBVIOUS
<1> HIDE DEF h
<1>8. h = [m \in At |-> DrawStep(o, hours, m, h)]
    BY <1>6, <1>7
<1>9. Draws(h, o, hours)
    BY <1>8 DEF Draws, At
<1>10. QED
    BY <1>9

\* The recursion of the model, one entry at a time.
LEMMA DrawnUnfolds ==
    ASSUME NEW o, NEW hours
    PROVE  /\ Drawn(o, hours)[0] = [k \in Keys |-> 0]
           /\ \A n \in Entries : Drawn(o, hours)[n] = NextDraw(o, hours, n, Drawn(o, hours)[n - 1])
<1>1. Drawn(o, hours) = CHOOSE g : Draws(g, o, hours)
    BY DEF Drawn, Draws, DrawStep, NextDraw
<1>2. Draws(Drawn(o, hours), o, hours)
    BY <1>1, DrawsExist
<1> DEFINE d == Drawn(o, hours)
<1> HIDE DEF d
<1>3. d = [n \in {0} \cup Entries |-> DrawStep(o, hours, n, d)]
    BY <1>2 DEF Draws, d
<1>4. \A n \in {0} \cup Entries : d[n] = DrawStep(o, hours, n, d)
    BY <1>3
<1>5. \A n \in Entries : n # 0
    BY EntriesAre
<1>6. QED
    BY <1>4, <1>5 DEF DrawStep, d

\* What is drawn are hours, and an entry adds what is covered of its own.
Covered(o, hours, e) ==
    LET key == KeyOf(o, e) IN
    IF key = NoKey THEN 0 ELSE Drawn(o, hours)[e][key] - Drawn(o, hours)[e - 1][key]

\* What entries draw are hours of every allowance.
LEMMA DrawnType ==
    ASSUME UsedTyped, NEW o \in Overrides, NEW hours \in Snapshots
    PROVE  \A n \in {0} \cup Entries : Drawn(o, hours)[n] \in [Keys -> Nat]
<1> DEFINE D == Drawn(o, hours)
           N == Len(Imported)
           T == {n \in Nat : n \in 0..N => D[n] \in [Keys -> Nat]}
<1>1. N \in Nat /\ Entries = 1..N
    BY EntriesAre
<1>2. D[0] = [k \in Keys |-> 0] /\ \A n \in Entries : D[n] = NextDraw(o, hours, n, D[n - 1])
    BY DrawnUnfolds
<1> HIDE DEF D, N
<1>3. 0 \in T
    BY <1>2
<1>4. ASSUME NEW n \in Nat, n \in T PROVE n + 1 \in T
    <2> SUFFICES ASSUME n + 1 \in 0..N PROVE D[n + 1] \in [Keys -> Nat]
        OBVIOUS
    <2>1. n \in 0..N /\ n + 1 \in Entries /\ (n + 1) - 1 = n
        BY <1>1
    <2>2. D[n] \in [Keys -> Nat]
        BY <1>4, <2>1
    <2> DEFINE m == n + 1
               key == KeyOf(o, m)
    <2>3. m \in Entries /\ D[m] = NextDraw(o, hours, m, D[n])
        BY <1>2, <2>1
    <2> HIDE DEF m
    <2>4. CASE m \in DOMAIN hours /\ key # NoKey
        <3>1. key \in Keys
            BY <2>3, <2>4, KeyOfType
        <3>2. D[n][key] \in Nat /\ hours[m] \in Nat
            BY <2>2, <2>4, <3>1, SnapshotIs
        <3>3. Left(key, D[n][key]) \in Nat
            BY <3>1, <3>2, LeftType
        <3>4. D[m] = [D[n] EXCEPT ![key] = D[n][key] + Min({hours[m], Left(key, D[n][key])})]
            BY <2>3, <2>4 DEF NextDraw
        <3> HIDE DEF key
        <3>5. QED
            BY <2>2, <3>1, <3>2, <3>3, <3>4, SmallerIs DEF m
    <2>5. CASE ~(m \in DOMAIN hours /\ key # NoKey)
        <3>1. D[m] = D[n]
            BY <2>3, <2>5 DEF NextDraw
        <3>2. QED
            BY <2>2, <3>1 DEF m
    <2>6. QED
        BY <2>4, <2>5
<1> HIDE DEF T
<1>5. \A n \in Nat : n \in T
    BY <1>3, <1>4, NaturalsIn
<1>6. QED
    BY <1>1, <1>5 DEF T, D

\* What one entry adds, to its own allowance and to no other.
LEMMA DrawnAdds ==
    ASSUME UsedTyped, NEW o \in Overrides, NEW hours \in Snapshots, NEW e \in Entries
    PROVE  /\ e - 1 \in {0} \cup Entries
           /\ \A k \in Keys : k # KeyOf(o, e) \/ e \notin DOMAIN hours
                => Drawn(o, hours)[e][k] = Drawn(o, hours)[e - 1][k]
           /\ KeyOf(o, e) # NoKey /\ e \in DOMAIN hours
                => Drawn(o, hours)[e][KeyOf(o, e)] =
                     Drawn(o, hours)[e - 1][KeyOf(o, e)]
                       + Min({hours[e], Left(KeyOf(o, e), Drawn(o, hours)[e - 1][KeyOf(o, e)])})
<1> DEFINE D == Drawn(o, hours)
           key == KeyOf(o, e)
           before == D[e - 1]
<1>1. e - 1 \in {0} \cup Entries
    BY EntriesAre
<1>2. before \in [Keys -> Nat]
    BY <1>1, DrawnType
<1> HIDE DEF key
<1>3. D[e] = NextDraw(o, hours, e, before)
    BY DrawnUnfolds
<1>4. key # NoKey => key \in Keys
    BY KeyOfType DEF key
<1>5. CASE e \in DOMAIN hours /\ key # NoKey
    <2>1. D[e] = [before EXCEPT ![key] = before[key] + Min({hours[e], Left(key, before[key])})]
        BY <1>3, <1>5 DEF NextDraw, key
    <2> HIDE DEF before, D
    <2>2. D[e][key] = before[key] + Min({hours[e], Left(key, before[key])})
        BY <1>2, <1>4, <1>5, <2>1
    <2>3. \A k \in Keys : k # key => D[e][k] = before[k]
        BY <1>2, <2>1
    <2>4. QED
        BY <1>1, <1>5, <2>2, <2>3 DEF before, key, D
<1>6. CASE ~(e \in DOMAIN hours /\ key # NoKey)
    <2>1. D[e] = before
        BY <1>3, <1>6 DEF NextDraw, key
    <2>2. QED
        BY <1>1, <1>6, <2>1, KeysAre DEF key
<1>7. QED
    BY <1>5, <1>6

\* An entry's covered hours are some of its hours.
LEMMA CoveredType ==
    ASSUME UsedTyped, NEW o \in Overrides, NEW hours \in Snapshots, NEW e \in DOMAIN hours
    PROVE  /\ Covered(o, hours, e) \in Nat /\ Covered(o, hours, e) <= hours[e]
           /\ hours[e] - Covered(o, hours, e) \in Nat
<1> DEFINE D == Drawn(o, hours)
           key == KeyOf(o, e)
           before == D[e - 1][key]
           more == Min({hours[e], Left(key, before)})
<1>1. e \in Entries /\ hours[e] \in Nat \ {0}
    BY SnapshotIs
<1>2. CASE key = NoKey
    BY <1>1, <1>2 DEF Covered
<1>3. CASE key # NoKey
    <2>1. key \in Keys
        BY <1>1, <1>3, KeyOfType
    <2>2. e - 1 \in {0} \cup Entries /\ D[e][key] = before + more
        BY <1>1, <1>3, DrawnAdds
    <2>3. before \in Nat
        BY <2>1, <2>2, DrawnType
    <2>4. Left(key, before) \in Nat
        BY <2>1, <2>3, LeftType
    <2> DEFINE all == hours[e]
               left == Left(key, before)
    <2>5. all \in Nat /\ left \in Nat /\ more = Min({all, left})
        BY <1>1, <2>4
    <2> HIDE DEF all, left
    <2>6. Min({all, left}) \in Nat /\ Min({all, left}) <= all
        BY <2>5, SmallerIs
    <2>7. Covered(o, hours, e) = D[e][key] - before
        BY <1>3 DEF Covered
    <2> HIDE DEF D, key, before, more
    <2>8. QED
        BY <1>1, <2>2, <2>3, <2>5, <2>6, <2>7 DEF all
<1>4. QED
    BY <1>2, <1>3

\* The hours, of entries up to the n-th, that draw on an allowance.
DrawingOn(o, hours, k, n) == {e \in DOMAIN hours : e <= n /\ KeyOf(o, e) = k}
DemandTo(o, hours, k, n) == SumFunctionOnSet(hours, DrawingOn(o, hours, k, n))

\* The hours that ask for an allowance grow by those of the next entry.
LEMMA DemandGrows ==
    ASSUME NEW o \in Overrides, NEW hours \in Snapshots, NEW k \in Keys, NEW n \in Nat
    PROVE  /\ DemandTo(o, hours, k, 0) = 0 /\ DemandTo(o, hours, k, n) \in Nat
           /\ DemandTo(o, hours, k, n + 1) =
                DemandTo(o, hours, k, n)
                  + (IF n + 1 \in DOMAIN hours /\ KeyOf(o, n + 1) = k THEN hours[n + 1] ELSE 0)
<1> DEFINE m == n + 1
           S == DrawingOn(o, hours, k, n)
           T == DrawingOn(o, hours, k, m)
<1>1. /\ IsFiniteSet(S) /\ IsFiniteSet(T)
      /\ \A e \in DOMAIN hours : e \in Nat \ {0} /\ hours[e] \in Nat
    BY SnapshotIs, FS_Subset DEF DrawingOn
<1>2. \A e \in S \cup T : hours[e] \in Nat
    BY <1>1 DEF DrawingOn
<1>3. DrawingOn(o, hours, k, 0) = {}
    BY <1>1 DEF DrawingOn
<1>4. DemandTo(o, hours, k, 0) = 0
    BY <1>3, FS_EmptySet, SumUnfolds DEF DemandTo
<1>5. SumFunctionOnSet(hours, S) \in Nat
    BY <1>1, <1>2, SumType
<1>6. m \notin S
    BY <1>1 DEF DrawingOn
<1>7. CASE m \in DOMAIN hours /\ KeyOf(o, m) = k
    <2>1. T = S \cup {m}
        BY <1>1, <1>7 DEF DrawingOn
    <2>2. \A e \in S \cup {m} : hours[e] \in Int
        BY <1>2, <2>1
    <2> HIDE DEF S, T, m
    <2>3. SumFunctionOnSet(hours, S \cup {m}) = hours[m] + SumFunctionOnSet(hours, S)
        BY <1>1, <1>6, <2>2, SumAdds
    <2>4. hours[m] \in Nat
        BY <1>1, <1>7
    <2>5. SumFunctionOnSet(hours, T) = SumFunctionOnSet(hours, S) + hours[m]
        BY <1>5, <2>1, <2>3, <2>4
    <2>6. QED
        BY <1>4, <1>5, <1>7, <2>5 DEF DemandTo, S, T, m
<1>8. CASE ~(m \in DOMAIN hours /\ KeyOf(o, m) = k)
    <2>1. T = S
        BY <1>1, <1>8 DEF DrawingOn
    <2>2. QED
        BY <1>4, <1>5, <1>8, <2>1 DEF DemandTo
<1>9. QED
    BY <1>7, <1>8

\* The entries draw all they can until nothing is left.
LEMMA DrawnIsMin ==
    ASSUME UsedTyped, NEW o \in Overrides, NEW hours \in Snapshots, NEW k \in Keys
    PROVE  \A n \in {0} \cup Entries :
               Drawn(o, hours)[n][k] = Min({DemandTo(o, hours, k, n), Left(k, 0)})
<1> DEFINE D == Drawn(o, hours)
           N == Len(Imported)
           L == Left(k, 0)
           R == Allowance[k] - used[k]
           T == {n \in Nat : n \in 0..N => D[n][k] = Min({DemandTo(o, hours, k, n), L})}
<1>1. N \in Nat /\ Entries = 1..N
    BY EntriesAre
<1>2. R \in Int /\ L \in Nat /\ L = IF R >= 0 THEN R ELSE 0
    <2>1. Allowance[k] \in Int /\ used[k] \in Int
        BY KeysAre DEF UsedTyped
    <2>2. QED
        BY <2>1, LeftType
<1>3. \A d \in Nat : Left(k, d) \in Nat /\ Left(k, d) = IF R - d >= 0 THEN R - d ELSE 0
    <2>1. Allowance[k] \in Int /\ used[k] \in Int
        BY KeysAre DEF UsedTyped
    <2>2. QED
        BY <2>1, LeftType
<1> HIDE DEF N, L, R
<1>4. 0 \in T
    <2>1. D[0][k] = 0
        BY DrawnUnfolds
    <2>2. DemandTo(o, hours, k, 0) = 0
        BY DemandGrows
    <2>3. Min({0, L}) = 0
        BY <1>2, SmallerIs
    <2>4. QED
        BY <2>1, <2>2, <2>3
<1>5. ASSUME NEW n \in Nat, n \in T PROVE n + 1 \in T
    <2> DEFINE m == n + 1
               a == DemandTo(o, hours, k, n)
               b == DemandTo(o, hours, k, m)
    <2> SUFFICES ASSUME m \in 0..N PROVE D[m][k] = Min({b, L})
        OBVIOUS
    <2>1. n \in 0..N /\ m \in Entries /\ m - 1 = n
        BY <1>1
    <2>2. D[n][k] = Min({a, L})
        BY <1>5, <2>1
    <2>3. /\ a \in Nat /\ b \in Nat
          /\ b = a + (IF m \in DOMAIN hours /\ KeyOf(o, m) = k THEN hours[m] ELSE 0)
        <3>1. m \in Nat
            OBVIOUS
        <3>2. QED
            BY <3>1, DemandGrows
    <2>4. Min({a, L}) \in Nat /\ Min({a, L}) = IF a <= L THEN a ELSE L
        BY <1>2, <2>3, SmallerIs
    <2>5. Min({b, L}) \in Nat /\ Min({b, L}) = IF b <= L THEN b ELSE L
        BY <1>2, <2>3, SmallerIs
    <2> HIDE DEF m, a, b, D
    <2>6. CASE m \in DOMAIN hours /\ KeyOf(o, m) = k
        <3> DEFINE h == hours[m]
                   d == D[n][k]
                   l == Left(k, d)
        <3>1. D[m][k] = d + Min({h, l})
            BY <2>1, <2>6, DrawnAdds, KeysAre DEF D
        <3>2. h \in Nat
            BY <2>6, SnapshotIs
        <3>3. d \in Nat /\ l \in Nat /\ l = IF R - d >= 0 THEN R - d ELSE 0
            BY <1>3, <2>2, <2>4
        <3>4. b = a + h
            BY <2>3, <2>6
        <3> HIDE DEF h, l
        <3>5. Min({h, l}) = IF h <= l THEN h ELSE l
            BY <3>2, <3>3, SmallerIs
        <3> HIDE DEF d
        <3>6. d = IF a <= L THEN a ELSE L
            BY <2>2, <2>4 DEF d
        <3>7. QED
            BY <1>2, <2>3, <2>5, <3>1, <3>2, <3>3, <3>4, <3>5, <3>6
    <2>7. CASE ~(m \in DOMAIN hours /\ KeyOf(o, m) = k)
        <3>1. D[m][k] = D[n][k]
            BY <2>1, <2>7, DrawnAdds DEF D
        <3>2. QED
            BY <2>2, <2>3, <2>7, <3>1
    <2>8. QED
        BY <2>6, <2>7
<1> HIDE DEF T
<1>6. \A n \in Nat : n \in T
    BY <1>4, <1>5, NaturalsIn
<1>7. QED
    BY <1>1, <1>6 DEF T, D, L

-----------------------------------------------------------------------------
(* The parts of the entries. *)

Part(e, key, h) == [entry |-> e, key |-> key, hours |-> h]
CoveredPart(o, hours, e) == Part(e, KeyOf(o, e), Covered(o, hours, e))
RestPart(o, hours, e) == Part(e, NoKey, hours[e] - Covered(o, hours, e))

\* The parts are the covered and the other hours of the entries, where there
\* are any.
LEMMA PartsAre ==
    ASSUME NEW o, NEW hours
    PROVE  \A p : p \in Parts(o, hours) <=>
                    \E e \in DOMAIN hours :
                       /\ p = CoveredPart(o, hours, e) \/ p = RestPart(o, hours, e)
                       /\ p.hours > 0
BY DEF Parts, Covered, Part, CoveredPart, RestPart

\* What a part is: some hours of an entry, and at most one with its key.
LEMMA PartFacts ==
    ASSUME UsedTyped, NEW o \in Overrides, NEW hours \in Snapshots, NEW p \in Parts(o, hours)
    PROVE  /\ p.entry \in DOMAIN hours /\ p.entry \in Entries /\ p.hours \in Nat \ {0}
           /\ p = Part(p.entry, p.key, p.hours)
           /\ p.key \in Keys \cup {NoKey} /\ p.key \in {NoKey, KeyOf(o, p.entry)}
           /\ p.key # NoKey => /\ o.billable[p.entry]
                               /\ p = CoveredPart(o, hours, p.entry)
           /\ p.key = NoKey => p = RestPart(o, hours, p.entry)
<1>1. PICK e \in DOMAIN hours : /\ p = CoveredPart(o, hours, e) \/ p = RestPart(o, hours, e)
                                /\ p.hours > 0
    BY PartsAre
<1>2. /\ e \in Entries /\ KeyOf(o, e) \in Keys \cup {NoKey}
      /\ KeyOf(o, e) # NoKey => o.billable[e]
    BY SnapshotIs, KeyOfType
<1>3. Covered(o, hours, e) \in Nat /\ hours[e] - Covered(o, hours, e) \in Nat
    BY CoveredType
<1>4. CASE p = CoveredPart(o, hours, e)
    <2>1. p.entry = e /\ p.key = KeyOf(o, e) /\ p.hours = Covered(o, hours, e)
        BY <1>4 DEF CoveredPart, Part
    <2>2. KeyOf(o, e) # NoKey
        BY <1>1, <2>1 DEF Covered
    <2>3. QED
        BY <1>1, <1>2, <1>3, <1>4, <2>1, <2>2 DEF CoveredPart
<1>5. CASE p = RestPart(o, hours, e)
    <2>1. p.entry = e /\ p.key = NoKey /\ p.hours = hours[e] - Covered(o, hours, e)
        BY <1>5 DEF RestPart, Part
    <2>2. QED
        BY <1>1, <1>2, <1>3, <1>5, <2>1 DEF RestPart
<1>6. QED
    BY <1>1, <1>4, <1>5

\* An entry has one part with each key.
LEMMA PartsDiffer ==
    ASSUME UsedTyped, NEW o \in Overrides, NEW hours \in Snapshots
    PROVE  \A p, q \in Parts(o, hours) : p.entry = q.entry /\ p.key = q.key => p = q
BY PartFacts

\* An entry has at most two parts, so there are finitely many.
LEMMA PartsFinite ==
    ASSUME UsedTyped, NEW o \in Overrides, NEW hours \in Snapshots
    PROVE  IsFiniteSet(Parts(o, hours))
<1> DEFINE f == [e \in DOMAIN hours |-> CoveredPart(o, hours, e)]
           g == [e \in DOMAIN hours |-> RestPart(o, hours, e)]
           A == {f[e] : e \in DOMAIN hours}
           B == {g[e] : e \in DOMAIN hours}
<1>1. Parts(o, hours) \subseteq A \cup B
    BY PartsAre
<1>2. IsFiniteSet(DOMAIN hours)
    BY SnapshotIs
<1> HIDE DEF f, g
<1>3. IsFiniteSet(A) /\ IsFiniteSet(B)
    BY <1>2, ImageFinite
<1> HIDE DEF A, B
<1>4. IsFiniteSet(A \cup B)
    BY <1>3, FS_Union
<1>5. QED
    BY <1>1, <1>4, FS_Subset

HoursOfPart(o, hours) == [p \in Parts(o, hours) |-> p.hours]

\* The parts of an entry have its hours.
LEMMA PartsKeepHours ==
    ASSUME UsedTyped, NEW o \in Overrides, NEW hours \in Snapshots, NEW e \in DOMAIN hours
    PROVE  SumFunctionOnSet(HoursOfPart(o, hours), {p \in Parts(o, hours) : p.entry = e}) = hours[e]
<1> DEFINE c == CoveredPart(o, hours, e)
           r == RestPart(o, hours, e)
           f == HoursOfPart(o, hours)
           P == Parts(o, hours)
           S == {p \in P : p.entry = e}
           C == Covered(o, hours, e)
<1>1. C \in Nat /\ hours[e] - C \in Nat /\ hours[e] \in Nat \ {0}
    BY CoveredType, SnapshotIs
<1>2. /\ c.entry = e /\ c.hours = C
      /\ r.entry = e /\ r.hours = hours[e] - C
    BY DEF CoveredPart, RestPart, Part
<1>3. /\ C > 0 => c \in P /\ f[c] = C
      /\ hours[e] - C > 0 => r \in P /\ f[r] = hours[e] - C
    BY <1>2, PartsAre DEF HoursOfPart
<1>4. \A p \in S : (p = c \/ p = r) /\ p.hours > 0
    BY PartFacts, PartsAre
<1>5. C > 0 => c.key # NoKey /\ r.key = NoKey
    BY DEF Covered, CoveredPart, RestPart, Part
<1> HIDE DEF c, r, f, P, C
<1>6. hours[e] \in Int /\ C \in Int /\ hours[e] - C \in Int
    BY <1>1
<1>7. CASE C = 0
    <2>1. S = {r}
        BY <1>1, <1>2, <1>3, <1>4, <1>7
    <2>2. f[r] = hours[e]
        BY <1>1, <1>3, <1>7
    <2>3. f[r] \in Int
        BY <1>6, <2>2
    <2>4. SumFunctionOnSet(f, {r}) = f[r]
        BY <2>3, SumOfOne
    <2>5. QED
        BY <2>1, <2>2, <2>4 DEF f, P
<1>8. CASE C > 0 /\ hours[e] - C = 0
    <2>1. S = {c}
        BY <1>1, <1>2, <1>3, <1>4, <1>8
    <2>2. f[c] = hours[e]
        BY <1>1, <1>3, <1>8
    <2>3. f[c] \in Int
        BY <1>6, <2>2
    <2>4. SumFunctionOnSet(f, {c}) = f[c]
        BY <2>3, SumOfOne
    <2>5. QED
        BY <2>1, <2>2, <2>4 DEF f, P
<1>9. CASE C > 0 /\ hours[e] - C > 0
    <2>1. S = {c} \cup {r} /\ r \notin {c}
        BY <1>1, <1>2, <1>3, <1>4, <1>5, <1>9
    <2>2. f[c] = C /\ f[r] = hours[e] - C
        BY <1>3, <1>9
    <2>3. f[c] \in Int /\ f[r] \in Int
        BY <1>6, <2>2
    <2>4. SumFunctionOnSet(f, {c}) = f[c]
        BY <2>3, SumOfOne
    <2>5. IsFiniteSet({c}) /\ \A y \in {c} \cup {r} : f[y] \in Int
        BY <2>3, FS_Singleton
    <2>6. SumFunctionOnSet(f, {c} \cup {r}) = f[r] + SumFunctionOnSet(f, {c})
        BY <2>1, <2>5, SumAdds
    <2>7. f[r] + f[c] = hours[e]
        BY <1>1, <2>2
    <2>8. QED
        BY <2>1, <2>4, <2>6, <2>7 DEF f, P
<1>10. QED
    BY <1>1, <1>7, <1>8, <1>9

\* The covered parts have what is drawn.
LEMMA PartsCover ==
    ASSUME UsedTyped, NEW o \in Overrides, NEW hours \in Snapshots, NEW k \in Keys
    PROVE  \A n \in {0} \cup Entries :
             SumFunctionOnSet(HoursOfPart(o, hours),
                              {p \in Parts(o, hours) : p.key = k /\ p.entry <= n})
               = Drawn(o, hours)[n][k]
<1> DEFINE D == Drawn(o, hours)
           N == Len(Imported)
           f == HoursOfPart(o, hours)
           P == Parts(o, hours)
           To(n) == {p \in P : p.key = k /\ p.entry <= n}
           T == {n \in Nat : n \in 0..N => SumFunctionOnSet(f, To(n)) = D[n][k]}
<1>1. N \in Nat /\ Entries = 1..N
    BY EntriesAre
<1>2. /\ IsFiniteSet(P)
      /\ \A p \in P : p.entry \in Entries /\ p.entry \in DOMAIN hours /\ f[p] = p.hours /\ f[p] \in Nat
      /\ \A p \in P : p.key # NoKey => p = CoveredPart(o, hours, p.entry)
    BY PartsFinite, PartFacts DEF HoursOfPart
<1>3. \A n \in {0} \cup Entries : D[n] \in [Keys -> Nat]
    BY DrawnType
<1>4. k # NoKey
    BY KeysAre
<1> HIDE DEF N, f, P
<1>5. 0 \in T
    <2>1. To(0) = {}
        BY <1>1, <1>2
    <2>2. D[0][k] = 0
        BY DrawnUnfolds
    <2>3. SumFunctionOnSet(f, {}) = 0
        BY FS_EmptySet, SumUnfolds
    <2>4. QED
        BY <2>1, <2>2, <2>3
<1>6. ASSUME NEW n \in Nat, n \in T PROVE n + 1 \in T
    <2> DEFINE m == n + 1
               c == CoveredPart(o, hours, m)
               C == Covered(o, hours, m)
    <2> SUFFICES ASSUME m \in 0..N PROVE SumFunctionOnSet(f, To(m)) = D[m][k]
        OBVIOUS
    <2>1. n \in 0..N /\ m \in Entries /\ m - 1 = n
        BY <1>1
    <2>2. SumFunctionOnSet(f, To(n)) = D[n][k]
        BY <1>6, <2>1
    <2>3. To(n) \subseteq To(m) /\ \A p \in To(m) : p \in To(n) \/ p.entry = m
        BY <1>1, <1>2
    <2>4. D[n][k] \in Nat /\ D[m][k] \in Nat
        BY <1>1, <1>3, <2>1
    <2>5. /\ c.entry = m /\ c.key = KeyOf(o, m) /\ c.hours = C
          /\ m \in DOMAIN hours => C \in Nat
        BY CoveredType DEF CoveredPart, Part
    <2>6. KeyOf(o, m) = k => C = D[m][k] - D[n][k]
        BY <1>4, <2>1 DEF Covered
    <2>7. m \in DOMAIN hours /\ C > 0 => c \in P
        BY <2>5, PartsAre DEF P
    <2> HIDE DEF m, c, C, D
    <2>8. CASE m \in DOMAIN hours /\ KeyOf(o, m) = k /\ C > 0
        <3>1. c \in P /\ c \in To(m) /\ f[c] = C
            <4>1. c \in P /\ c.key = k /\ c.entry = m /\ m <= m
                BY <2>1, <2>5, <2>7, <2>8, <1>1
            <4>2. QED
                BY <1>2, <2>5, <4>1
        <3>2. c \notin To(n)
            BY <2>5 DEF m
        <3>3. \A p \in To(m) : p.entry = m => p = c
            BY <1>2, <1>4 DEF c
        <3>4. To(m) = To(n) \cup {c}
            BY <2>3, <3>1, <3>3
        <3> DEFINE S == To(n)
        <3>5. IsFiniteSet(S) /\ \A y \in S \cup {c} : f[y] \in Int
            BY <1>2, <3>1, FS_Subset
        <3> HIDE DEF S
        <3>6. SumFunctionOnSet(f, S \cup {c}) = f[c] + SumFunctionOnSet(f, S)
            BY <3>2, <3>5, SumAdds DEF S
        <3>7. C = D[m][k] - D[n][k] /\ C \in Nat
            BY <2>5, <2>6, <2>8
        <3>8. C + D[n][k] = D[m][k]
            BY <2>4, <3>7
        <3>9. QED
            BY <2>2, <3>1, <3>4, <3>6, <3>8 DEF S
    <2>9. CASE ~(m \in DOMAIN hours /\ KeyOf(o, m) = k /\ C > 0)
        <3>1. To(m) = To(n)
            <4>1. ASSUME NEW p \in To(m), p.entry = m PROVE FALSE
                <5>1. p \in P /\ p.key = k
                    OBVIOUS
                <5>2. p = c /\ m \in DOMAIN hours /\ p.hours \in Nat \ {0}
                    <6>1. p \in Parts(o, hours)
                        BY <5>1 DEF P
                    <6>2. QED
                        BY <1>2, <1>4, <4>1, <5>1, <6>1, PartFacts DEF c
                <5>3. QED
                    BY <2>5, <2>9, <5>1, <5>2
            <4>2. QED
                BY <2>3, <4>1
        <3>2. D[m][k] = D[n][k]
            <4>1. CASE m \notin DOMAIN hours \/ KeyOf(o, m) # k
                BY <2>1, <4>1, DrawnAdds DEF D
            <4>2. CASE m \in DOMAIN hours /\ KeyOf(o, m) = k
                BY <2>4, <2>5, <2>6, <2>9, <4>2
            <4>3. QED
                BY <4>1, <4>2
        <3>3. QED
            BY <2>2, <3>1, <3>2
    <2>10. QED
        BY <2>8, <2>9
<1> HIDE DEF T
<1>7. \A n \in Nat : n \in T
    BY <1>5, <1>6, NaturalsIn
<1>8. QED
    BY <1>1, <1>7 DEF T, D, f, P

-----------------------------------------------------------------------------
(* The line of a group. *)

Line == [source : {"teamwork", "manual"}, task : Nat, hours : Snapshots, billable : BOOLEAN,
         key : Keys \cup {NoKey}, service : Nat, year : Nat, quantity : Nat, unit : Nat,
         rateSource : {"entries", "line"}]

\* The least of some naturals.
LEMMA LeastOf ==
    ASSUME NEW S, S \subseteq Nat, S # {}
    PROVE  Min(S) \in S /\ \A x \in S : Min(S) <= x
<1>1. PICK n \in S : \A k \in S : ~(k < n)
    BY LeastNatural
<1>2. \A k \in S : n <= k
    BY <1>1
<1>3. \E m \in S : \A k \in S : m <= k
    BY <1>2
<1>4. Min(S) = CHOOSE m \in S : \A k \in S : m <= k
    BY DEF Min
<1>5. QED
    BY <1>3, <1>4

\* Hours times rates add up.
LEMMA ProductsAreHours ==
    ASSUME NEW o \in Overrides, NEW h \in Snapshots, NEW S \in SUBSET DOMAIN h
    PROVE  SumFunction([e \in S |-> h[e] * o.rate[e]]) \in Nat
<1> DEFINE f == [e \in S |-> h[e] * o.rate[e]]
<1>1. \A a, b \in Nat : a * b \in Nat
    OBVIOUS
<1>2. \A e \in S : h[e] \in Nat /\ o.rate[e] \in Nat
    BY SnapshotIs DEF Overrides
<1>3. \A e \in S : f[e] \in Nat
    BY <1>1, <1>2
<1>4. IsFiniteSet(S) /\ DOMAIN f = S
    BY SnapshotIs, FS_Subset
<1> HIDE DEF f
<1>5. SumFunctionOnSet(f, S) \in Nat
    BY <1>3, <1>4, SumType
<1>6. QED
    BY <1>4, <1>5 DEF SumFunction, f

\* An average rate is a rate.
LEMMA AverageType ==
    ASSUME NEW o \in Overrides, NEW h \in Snapshots
    PROVE  AverageRate(o, h) \in Nat
<1> DEFINE rated == {e \in DOMAIN h : o.rate[e] > 0}
           weight == SumFunctionOnSet(h, rated)
           amount == SumFunction([e \in rated |-> h[e] * o.rate[e]])
<1>1. amount \in Nat
    BY ProductsAreHours
<1>2. weight \in Nat
    BY SnapshotIs, FS_Subset, SumType
<1>3. AverageRate(o, h) = IF weight = 0 THEN 0 ELSE (2 * amount + weight) \div (2 * weight)
    BY DEF AverageRate
<1> HIDE DEF amount, weight
<1>4. \A a \in Nat, b \in Nat \ {0} : a \div b \in Nat
    OBVIOUS
<1>5. weight # 0 => (2 * amount + weight) \in Nat /\ (2 * weight) \in Nat \ {0}
    BY <1>1, <1>2
<1>6. QED
    BY <1>3, <1>4, <1>5

\* Parts are grouped by task, state and allowance.
LEMMA SameGroup ==
    ASSUME NEW o, NEW p, NEW q
    PROVE  GroupOf(o, p) = GroupOf(o, q) <=>
             /\ Imported[p.entry].task = Imported[q.entry].task
             /\ o.billable[p.entry] = o.billable[q.entry]
             /\ p.key = q.key
BY DEF GroupOf

Group(o, hours, q) == {p \in Parts(o, hours) : GroupOf(o, p) = GroupOf(o, q)}
LineWith(o, hours, q) == LineOf(o, Group(o, hours, q))

\* A line has the parts of its group, entry by entry, and what they agree on.
LEMMA LineFacts ==
    ASSUME UsedTyped, NEW o \in Overrides, NEW hours \in Snapshots, NEW q \in Parts(o, hours)
    PROVE  LET l == LineWith(o, hours, q) IN
           /\ l \in Line /\ l.source = "teamwork" /\ l.rateSource = "entries"
           /\ Ids(l) = {p.entry : p \in Group(o, hours, q)} /\ q.entry \in Ids(l)
           /\ \A p \in Group(o, hours, q) : p.key = l.key /\ l.hours[p.entry] = p.hours
           /\ \A e \in Ids(l) : l.billable = o.billable[e]
           /\ l.key # NoKey => l.billable
           /\ l.unit = AverageRate(o, l.hours)
           /\ l.quantity = SumFunction(l.hours)
<1> DEFINE G == Group(o, hours, q)
           ids == {p.entry : p \in G}
           h == [e \in ids |-> (CHOOSE p \in G : p.entry = e).hours]
           first == Min(ids)
           l == LineOf(o, G)
<1>1. /\ q \in G
      /\ \A p \in G : /\ p \in Parts(o, hours) /\ p.key = q.key
                      /\ o.billable[p.entry] = o.billable[q.entry]
    BY SameGroup DEF Group
<1>2. \A p \in G : p.entry \in Entries /\ p.hours \in Nat \ {0}
    BY <1>1, PartFacts
<1>3. \A p, r \in G : p.entry = r.entry => p = r
    BY <1>1, PartsDiffer
<1>4. q.key \in Keys \cup {NoKey} /\ (q.key # NoKey => o.billable[q.entry])
    BY PartFacts
<1> HIDE DEF G
<1>5. ids # {} /\ ids \subseteq Entries /\ ids \subseteq Nat
    BY <1>1, <1>2, EntriesAre
<1>6. first \in ids
    BY <1>5, LeastOf
<1>7. \A p \in G : (CHOOSE r \in G : r.entry = p.entry) = p
    BY <1>3
<1>8. \A p \in G : h[p.entry] = p.hours
    BY <1>7
<1>9. h \in [ids -> Nat \ {0}]
    <2>1. ASSUME NEW e \in ids PROVE (CHOOSE r \in G : r.entry = e).hours \in Nat \ {0}
        <3>1. PICK p \in G : p.entry = e
            OBVIOUS
        <3>2. QED
            BY <1>2, <1>7, <3>1
    <2>2. QED
        BY <2>1
<1>10. h \in Snapshots
    BY <1>5, <1>9 DEF Snapshots
<1>11. (CHOOSE p \in G : p.entry = first).key = q.key /\ o.billable[first] = o.billable[q.entry]
    <2>1. PICK p \in G : p.entry = first
        BY <1>6
    <2>2. (CHOOSE r \in G : r.entry = first) = p
        BY <1>7, <2>1
    <2>3. p.key = q.key /\ o.billable[p.entry] = o.billable[q.entry]
        BY <1>1
    <2>4. QED
        BY <2>1, <2>2, <2>3
<1>12. l = [source |-> "teamwork", task |-> Imported[first].task, hours |-> h,
            billable |-> o.billable[first], key |-> q.key, service |-> ServiceOf(o, first),
            year |-> IF KeyOf(o, first) # NoKey THEN KeyOf(o, first)[2] ELSE o.assigned[first].year,
            quantity |-> SumFunction(h), unit |-> AverageRate(o, h), rateSource |-> "entries"]
    BY <1>11 DEF LineOf
<1>13. SumFunction(h) \in Nat /\ AverageRate(o, h) \in Nat
    <2>1. DOMAIN h = ids /\ IsFiniteSet(ids) /\ \A e \in ids : h[e] \in Nat
        BY <1>9, <1>5, EntriesAre, FS_Subset
    <2> HIDE DEF h, ids
    <2>2. SumFunctionOnSet(h, ids) \in Nat
        BY <2>1, SumType
    <2>3. QED
        BY <1>10, <2>1, <2>2, AverageType DEF SumFunction
<1>14. first \in Entries
    BY <1>5, <1>6
<1> HIDE DEF h, first, l
<1>15. /\ Imported[first].task \in Nat /\ ServiceOf(o, first) \in Nat
       /\ o.assigned[first].year \in Nat /\ o.billable[first] \in BOOLEAN
       /\ KeyOf(o, first) # NoKey => KeyOf(o, first)[2] \in Nat
    BY <1>14, EntriesAre, KeyOfType, KeysAre DEF TimeEntry, Overrides
<1>16. l \in Line
    BY <1>4, <1>10, <1>12, <1>13, <1>15 DEF Line
<1>17. /\ l.source = "teamwork" /\ l.rateSource = "entries" /\ l.hours = h /\ l.key = q.key
       /\ l.unit = AverageRate(o, h) /\ l.quantity = SumFunction(h)
    BY <1>12
<1>18. l.billable = o.billable[first]
    BY <1>12, Zenon
<1>19. Ids(l) = ids
    BY <1>9, <1>17 DEF Ids
<1>20. \A e \in ids : o.billable[e] = o.billable[q.entry]
    BY <1>1
<1> HIDE DEF ids
<1>21. \A e \in Ids(l) : l.billable = o.billable[e]
    BY <1>11, <1>18, <1>19, <1>20
<1>22. l.key # NoKey => l.billable
    BY <1>4, <1>11, <1>17, <1>18
<1>23. \A p \in G : p.key = l.key /\ l.hours[p.entry] = p.hours
    BY <1>1, <1>8, <1>17
<1>24. Ids(l) = {p.entry : p \in G} /\ q.entry \in Ids(l)
    BY <1>1, <1>19 DEF ids
<1>25. LineWith(o, hours, q) = l
    BY DEF LineWith, l, G
<1>26. QED
    BY <1>16, <1>17, <1>21, <1>22, <1>23, <1>24, <1>25 DEF G

\* Two lines of one entry are its covered and its other line.
LEMMA LinesShare ==
    ASSUME UsedTyped, NEW o \in Overrides, NEW hours \in Snapshots,
           NEW q \in Parts(o, hours), NEW r \in Parts(o, hours),
           NEW e, e \in Ids(LineWith(o, hours, q)), e \in Ids(LineWith(o, hours, r)),
           LineWith(o, hours, q).key = NoKey <=> LineWith(o, hours, r).key = NoKey
    PROVE  LineWith(o, hours, q) = LineWith(o, hours, r)
<1>1. PICK p \in Group(o, hours, q) : p.entry = e
    BY LineFacts
<1>2. PICK s \in Group(o, hours, r) : s.entry = e
    BY LineFacts
<1>3. p \in Parts(o, hours) /\ s \in Parts(o, hours)
    BY DEF Group
<1>4. p.key = LineWith(o, hours, q).key /\ s.key = LineWith(o, hours, r).key
    BY LineFacts
<1>5. p.key \in {NoKey, KeyOf(o, e)} /\ s.key \in {NoKey, KeyOf(o, e)}
    BY <1>1, <1>2, <1>3, PartFacts
<1>6. p = s
    BY <1>1, <1>2, <1>3, <1>4, <1>5, PartsDiffer
<1>7. GroupOf(o, q) = GroupOf(o, r)
    BY <1>6 DEF Group
<1>8. QED
    BY <1>7 DEF LineWith, Group

\* The lines are those of the groups.
LEMMA LinesAre ==
    ASSUME NEW o, NEW hours
    PROVE  LinesOf(o, Parts(o, hours)) = {LineWith(o, hours, q) : q \in Parts(o, hours)}
BY DEF LinesOf, LineWith, Group

\* The place of a line names its first entry and whether it is covered.
LEMMA PlaceIs ==
    ASSUME NEW o \in Overrides, NEW l \in Line, Ids(l) # {}
    PROVE  /\ Place(o, l) \in Six
           /\ Min(Ids(l)) \in Ids(l)
           /\ Place(o, l)[5] = Min(Ids(l))
           /\ Place(o, l)[6] = IF l.key = NoKey THEN 1 ELSE 0
<1> DEFINE amount == IF l.billable /\ l.key = NoKey
                     THEN SumFunction([e \in DOMAIN l.hours |-> l.hours[e] * o.rate[e]]) ELSE 0
           place == <<l.task, IF l.billable THEN 0 ELSE 1, 0 - amount, l.service, Min(Ids(l)),
                      IF l.key = NoKey THEN 1 ELSE 0>>
<1>1. l.hours \in Snapshots /\ l.task \in Nat /\ l.service \in Nat
    BY DEF Line
<1>2. Ids(l) \subseteq Entries /\ Ids(l) \subseteq Nat
    BY <1>1, SnapshotIs DEF Ids
<1>3. Min(Ids(l)) \in Ids(l) /\ Min(Ids(l)) \in Int
    BY <1>2, LeastOf
<1>4. 0 - amount \in Int
    <2>1. amount \in Nat
        BY <1>1, ProductsAreHours
    <2> HIDE DEF amount
    <2>2. QED
        BY <2>1
<1>5. Place(o, l) = place
    BY DEF Place, Ids
<1> DEFINE a == 0 - amount
           b == IF l.billable THEN 0 ELSE 1
           c == IF l.key = NoKey THEN 1 ELSE 0
           d == Min(Ids(l))
<1>6. a \in Int /\ b \in Int /\ c \in Int /\ d \in Int /\ l.task \in Int /\ l.service \in Int
    BY <1>1, <1>3, <1>4
<1>7. Place(o, l) = <<l.task, b, a, l.service, d, c>>
    BY <1>5
<1> HIDE DEF a, b, c, d
<1>8. <<l.task, b, a, l.service, d, c>> \in [1..6 -> Int]
    BY <1>6
<1>9. Place(o, l)[5] = d /\ Place(o, l)[6] = c
    BY <1>7
<1>10. QED
    BY <1>3, <1>7, <1>8, <1>9 DEF Six, d, c

\* The aggregation puts its lines one after the other.
LEMMA AggregatedEnumerates ==
    ASSUME UsedTyped, NEW o \in Overrides, NEW hours \in Snapshots
    PROVE  Enumerates(Aggregated(o, hours), {LineWith(o, hours, q) : q \in Parts(o, hours)})
<1> DEFINE P == Parts(o, hours)
           f == [q \in P |-> LineWith(o, hours, q)]
           made == {LineWith(o, hours, q) : q \in P}
           place == [l \in made |-> Place(o, l)]
<1>1. IsFiniteSet(made)
    <2>1. made = {f[q] : q \in P}
        OBVIOUS
    <2>2. IsFiniteSet(P)
        BY PartsFinite
    <2> HIDE DEF f, P, made
    <2>3. QED
        BY <2>1, <2>2, ImageFinite
<1>2. \A l \in made : l \in Line /\ Ids(l) # {}
    BY LineFacts
<1>3. place \in [made -> Six]
    BY <1>2, PlaceIs
<1>4. ASSUME NEW l \in made, NEW m \in made, place[l] = place[m] PROVE l = m
    <2>1. /\ Place(o, l) = Place(o, m)
          /\ Min(Ids(l)) \in Ids(l) /\ Min(Ids(m)) \in Ids(m)
          /\ Place(o, l)[5] = Min(Ids(l)) /\ Place(o, m)[5] = Min(Ids(m))
          /\ Place(o, l)[6] = (IF l.key = NoKey THEN 1 ELSE 0)
          /\ Place(o, m)[6] = (IF m.key = NoKey THEN 1 ELSE 0)
        BY <1>2, <1>4, PlaceIs
    <2>2. Min(Ids(l)) \in Ids(m) /\ (l.key = NoKey <=> m.key = NoKey)
        BY <2>1
    <2>3. PICK q \in P : l = LineWith(o, hours, q)
        OBVIOUS
    <2>4. PICK r \in P : m = LineWith(o, hours, r)
        OBVIOUS
    <2>5. QED
        BY <2>1, <2>2, <2>3, <2>4, LinesShare
<1>5. Aggregated(o, hours) = InOrder(made, [l \in made |-> {m \in made : Before(place[m], place[l])}])
    <2>1. Aggregated(o, hours) =
            InOrder(made, [l \in made |-> {m \in made : Before(Place(o, m), Place(o, l))}])
        BY LinesAre DEF Aggregated, Sorted
    <2>2. /\ \A l \in made : place[l] = Place(o, l)
          /\ DOMAIN place = made
        OBVIOUS
    <2> HIDE DEF made, place
    <2>3. ASSUME NEW l \in made
          PROVE  {m \in made : Before(Place(o, m), Place(o, l))}
                   = {m \in made : Before(place[m], place[l])}
        BY <2>2
    <2>4. [l \in made |-> {m \in made : Before(Place(o, m), Place(o, l))}]
            = [l \in made |-> {m \in made : Before(place[m], place[l])}]
        BY <2>3, Zenon
    <2>5. QED
        BY <2>1, <2>4, Zenon
<1> HIDE DEF made, place
<1>6. QED
    BY <1>1, <1>3, <1>4, <1>5, PlacesOrder DEF made

-----------------------------------------------------------------------------
(* Lines that have the parts of some hours between them. *)

\* The lines have the parts of the hours, every part on one line of its key.
Spreads(ls, o, hours) ==
    /\ Len(ls) \in Nat /\ DOMAIN ls = 1..Len(ls)
    /\ \A i \in DOMAIN ls :
          /\ ls[i].hours \in Snapshots
          /\ \A e \in Ids(ls[i]) : Part(e, ls[i].key, ls[i].hours[e]) \in Parts(o, hours)
    /\ \A p \in Parts(o, hours) :
          \E i \in DOMAIN ls : p.entry \in Ids(ls[i]) /\ p.key = ls[i].key
    /\ \A i, j \in DOMAIN ls :
          \A e \in Ids(ls[i]) \cap Ids(ls[j]) : ls[i].key = ls[j].key => i = j

\* Lines that have them have the hours of every entry.
LEMMA SpreadKeepsHours ==
    ASSUME UsedTyped, NEW o \in Overrides, NEW hours \in Snapshots, NEW ls,
           Spreads(ls, o, hours), NEW e
    PROVE  HoursOn(ls, e) = IF e \in DOMAIN hours THEN hours[e] ELSE 0
<1> DEFINE J == {j \in DOMAIN ls : e \in Ids(ls[j])}
           f == [i \in J |-> ls[i].hours[e]]
           P == Parts(o, hours)
           K == {p \in P : p.entry = e}
           key == [i \in J |-> Part(e, ls[i].key, ls[i].hours[e])]
           g == HoursOfPart(o, hours)
<1>1. HoursOn(ls, e) = SumFunctionOnSet(f, J)
    BY DEF HoursOn, SumFunction
<1>2. IsFiniteSet(J)
    <2>1. IsFiniteSet(DOMAIN ls)
        BY FS_Interval DEF Spreads
    <2>2. QED
        BY <2>1, FS_Subset
<1>3. IsFiniteSet(K)
    BY PartsFinite, FS_Subset
<1>4. ASSUME NEW i \in J
      PROVE  key[i] \in K /\ g[key[i]] = f[i] /\ f[i] \in Int
    <2>1. key[i] = Part(e, ls[i].key, ls[i].hours[e]) /\ key[i] \in P
        BY DEF Spreads
    <2>2. key[i].entry = e /\ key[i].hours = f[i]
        BY <2>1 DEF Part
    <2>3. f[i] \in Nat
        BY <2>1, <2>2, PartFacts
    <2>4. QED
        BY <2>1, <2>2, <2>3 DEF HoursOfPart
<1>5. ASSUME NEW i \in J, NEW j \in J, key[i] = key[j] PROVE i = j
    <2>1. ls[i].key = ls[j].key
        BY <1>5 DEF Part
    <2>2. QED
        BY <2>1 DEF Spreads
<1>6. ASSUME NEW p \in K PROVE \E i \in J : key[i] = p
    <2>1. PICK i \in DOMAIN ls : p.entry \in Ids(ls[i]) /\ p.key = ls[i].key
        BY DEF Spreads
    <2>2. i \in J /\ key[i] \in P /\ key[i].entry = e /\ key[i].key = p.key
        BY <2>1, <1>4 DEF Part
    <2>3. key[i] = p
        BY <2>2, PartsDiffer
    <2>4. QED
        BY <2>2, <2>3
<1>7. SumFunctionOnSet(g, K) = SumFunctionOnSet(f, J)
    <2> HIDE DEF J, f, K, key, g
    <2>1. QED
        BY <1>2, <1>3, <1>4, <1>5, <1>6, SumOfImage
<1>8. CASE e \in DOMAIN hours
    BY <1>1, <1>7, <1>8, PartsKeepHours
<1>9. CASE e \notin DOMAIN hours
    <2>1. K = {}
        BY <1>9, PartFacts
    <2>2. SumFunctionOnSet(g, {}) = 0
        BY FS_EmptySet, SumUnfolds
    <2>3. QED
        BY <1>1, <1>7, <1>9, <2>1, <2>2
<1>10. QED
    BY <1>8, <1>9

\* Lines that have them cover what the entries draw.
LEMMA SpreadCovers ==
    ASSUME UsedTyped, NEW o \in Overrides, NEW hours \in Snapshots, NEW ls,
           Spreads(ls, o, hours), NEW k \in Keys, NEW n \in Entries
    PROVE  CoveredHours(ls, k, n) = Drawn(o, hours)[n][k]
<1> DEFINE I == {j \in DOMAIN ls : ls[j].key = k}
           of(i) == Ids(ls[i]) \cap 1..n
           group == [i \in I |-> SumFunctionOnSet(ls[i].hours, of(i))]
           P == Parts(o, hours)
           K == {p \in P : p.key = k /\ p.entry <= n}
           g == HoursOfPart(o, hours)
           line == [p \in K |-> CHOOSE i \in I : p.entry \in Ids(ls[i])]
           On(i) == {p \in K : line[p] = i}
<1>1. CoveredHours(ls, k, n) = SumFunctionOnSet(group, I)
    BY DEF CoveredHours, SumFunction
<1>2. IsFiniteSet(I)
    <2>1. IsFiniteSet(DOMAIN ls)
        BY FS_Interval DEF Spreads
    <2>2. QED
        BY <2>1, FS_Subset
<1>3. IsFiniteSet(K)
    BY PartsFinite, FS_Subset
<1>4. \A p \in K : g[p] = p.hours /\ g[p] \in Int
    BY PartFacts DEF HoursOfPart
<1>5. ASSUME NEW p \in K PROVE line[p] \in I /\ p.entry \in Ids(ls[line[p]])
    <2>1. \E i \in I : p.entry \in Ids(ls[i])
        BY DEF Spreads
    <2>2. line[p] = CHOOSE i \in I : p.entry \in Ids(ls[i])
        OBVIOUS
    <2>3. QED
        BY <2>1, <2>2
<1>6. ASSUME NEW i \in I PROVE group[i] = SumFunctionOnSet(g, On(i))
    <2> DEFINE S == of(i)
               h == ls[i].hours
               T == On(i)
               part == [e \in S |-> Part(e, k, h[e])]
    <2>1. h \in Snapshots
        BY DEF Spreads
    <2>2. IsFiniteSet(S) /\ \A e \in S : h[e] \in Int
        <3>1. S \subseteq DOMAIN h
            BY DEF Ids
        <3> HIDE DEF S, h
        <3>2. QED
            BY <2>1, <3>1, SnapshotIs, FS_Subset
    <2>3. IsFiniteSet(T)
        BY <1>3, FS_Subset
    <2>4. ASSUME NEW e \in S PROVE part[e] \in T /\ g[part[e]] = h[e]
        <3>1. ls[i].key = k /\ e \in Ids(ls[i]) /\ e <= n
            OBVIOUS
        <3>2. part[e] \in P
            BY <3>1 DEF Spreads
        <3>3. part[e].entry = e /\ part[e].key = k /\ part[e].hours = h[e]
            BY DEF Part
        <3>4. part[e] \in K
            BY <3>1, <3>2, <3>3
        <3>5. line[part[e]] \in I /\ e \in Ids(ls[line[part[e]]])
            BY <1>5, <3>3, <3>4
        <3>6. line[part[e]] = i
            BY <3>1, <3>5 DEF Spreads
        <3>7. QED
            BY <1>4, <3>3, <3>4, <3>6
    <2>5. \A d, e \in S : part[d] = part[e] => d = e
        BY DEF Part
    <2>6. ASSUME NEW p \in T PROVE \E e \in S : part[e] = p
        <3>1. p \in K /\ line[p] = i /\ p.entry \in Ids(ls[i])
            BY <1>5
        <3>2. p.entry \in 1..n
            <4>1. p.entry \in Entries /\ p.entry <= n
                BY <3>1, PartFacts
            <4>2. n \in Nat /\ p.entry \in Nat \ {0}
                BY <4>1, EntriesAre
            <4>3. QED
                BY <4>1, <4>2
        <3>3. p.entry \in S /\ part[p.entry] \in T
            BY <3>1, <3>2, <2>4
        <3>4. part[p.entry].entry = p.entry /\ part[p.entry].key = p.key
            BY <3>1, <3>3 DEF Part
        <3>5. part[p.entry] = p
            BY <3>3, <3>4, PartsDiffer
        <3>6. QED
            BY <3>3, <3>5
    <2>7. group[i] = SumFunctionOnSet(h, S)
        OBVIOUS
    <2> HIDE DEF S, h, T, part, g, group
    <2>8. SumFunctionOnSet(g, T) = SumFunctionOnSet(h, S)
        BY <2>2, <2>3, <2>4, <2>5, <2>6, SumOfImage
    <2>9. QED
        BY <2>7, <2>8 DEF T
<1>7. SumFunctionOnSet(group, I) = SumFunctionOnSet(g, K)
    <2> DEFINE on == [i \in I |-> On(i)]
    <2>1. \A i \in I : group[i] = SumFunctionOnSet(g, on[i])
        BY <1>6
    <2>2. \A p \in K : g[p] \in Int
        BY <1>4
    <2>3. \A p \in K : line[p] \in I
        BY <1>5
    <2>4. \A i \in I : \A p : p \in on[i] <=> p \in K /\ line[p] = i
        OBVIOUS
    <2> HIDE DEF I, group, K, g, line, on
    <2>5. QED
        BY <1>2, <1>3, <2>1, <2>2, <2>3, <2>4, SumByParts
<1>8. n \in {0} \cup Entries
    OBVIOUS
<1>9. SumFunctionOnSet(g, K) = Drawn(o, hours)[n][k]
    BY <1>8, PartsCover
<1>10. QED
    BY <1>1, <1>7, <1>9

\* What their entries draw on an allowance is what the hours do.
LEMMA SpreadDemands ==
    ASSUME UsedTyped, NEW o \in Overrides, NEW hours \in Snapshots, NEW ls,
           Spreads(ls, o, hours), NEW k \in Keys, NEW n \in Entries
    PROVE  Demand(o, ls, k, n) = DemandTo(o, hours, k, n)
<1> DEFINE S == {d \in 1..n : KeyOf(o, d) = k}
           f == [e \in S |-> HoursOn(ls, e)]
           U == DrawingOn(o, hours, k, n)
<1>1. Demand(o, ls, k, n) = SumFunctionOnSet(f, S)
    BY DEF Demand, SumFunction
<1>2. n \in Nat /\ IsFiniteSet(S)
    <2>1. n \in Nat
        BY EntriesAre
    <2>2. IsFiniteSet(1..n)
        BY <2>1, FS_Interval
    <2>3. QED
        BY <2>1, <2>2, FS_Subset
<1>3. U \in SUBSET S
    BY <1>2, SnapshotIs DEF DrawingOn
<1>4. \A e \in S : f[e] = IF e \in DOMAIN hours THEN hours[e] ELSE 0
    BY SpreadKeepsHours
<1>5. \A e \in S : f[e] \in Int
    <2>1. \A e \in DOMAIN hours : hours[e] \in Int
        BY SnapshotIs
    <2> HIDE DEF f, S
    <2>2. QED
        BY <1>4, <2>1
<1>6. \A e \in S \ U : f[e] = 0
    BY <1>2, <1>4 DEF DrawingOn
<1>7. \A e \in U : f[e] = hours[e]
    BY <1>3, <1>4 DEF DrawingOn
<1>8. IsFiniteSet(U)
    BY <1>2, <1>3, FS_Subset
<1> HIDE DEF f, S, U
<1>9. SumFunctionOnSet(f, S) = SumFunctionOnSet(f, U)
    BY <1>2, <1>3, <1>5, <1>6, SumThatCounts
<1>10. SumFunctionOnSet(f, U) = SumFunctionOnSet(hours, U)
    BY <1>7, <1>8, SumAgrees
<1>11. QED
    BY <1>1, <1>9, <1>10 DEF DemandTo, U

\* Allowances are applied in the order of the entries, up to what is left.
LEMMA SpreadInOrder ==
    ASSUME UsedTyped, NEW o \in Overrides, NEW hours \in Snapshots, NEW ls,
           Spreads(ls, o, hours), NEW k \in Keys, NEW n \in Entries
    PROVE  CoveredHours(ls, k, n) = Min({Demand(o, ls, k, n), Left(k, 0)})
<1>1. n \in {0} \cup Entries
    OBVIOUS
<1>2. Drawn(o, hours)[n][k] = Min({DemandTo(o, hours, k, n), Left(k, 0)})
    BY <1>1, DrawnIsMin
<1>3. QED
    BY <1>2, SpreadCovers, SpreadDemands

-----------------------------------------------------------------------------
(* The lines of an aggregation, and lines taken from others. *)

IsSequence(s) ==
    Len(s) \in Nat /\ DOMAIN s = 1..Len(s) /\ s = [i \in 1..Len(s) |-> s[i]]

\* A line that agrees with the overrides of its entries.
Agrees(l, o) == \A e \in Ids(l) : l.billable = o.billable[e]

\* A line as the entries make it.
AsAggregated(l, o) ==
    /\ l \in Line /\ Ids(l) # {} /\ Agrees(l, o)
    /\ l.source = "teamwork" /\ l.rateSource = "entries"
    /\ l.key # NoKey => l.billable
    /\ l.unit = AverageRate(o, l.hours)

\* The aggregation gives lines as the entries make them, which have the parts
\* between them.
LEMMA AggregatedIs ==
    ASSUME UsedTyped, NEW o \in Overrides, NEW hours \in Snapshots
    PROVE  /\ IsSequence(Aggregated(o, hours))
           /\ \A i \in DOMAIN Aggregated(o, hours) : AsAggregated(Aggregated(o, hours)[i], o)
           /\ Spreads(Aggregated(o, hours), o, hours)
<1> DEFINE A == Aggregated(o, hours)
           P == Parts(o, hours)
           made == {LineWith(o, hours, q) : q \in P}
           N == Cardinality(made)
<1>1. Enumerates(A, made)
    BY AggregatedEnumerates
<1> HIDE DEF A
<1>2. N \in Nat /\ A \in [1..N -> made]
    BY <1>1 DEF Enumerates
<1>3. Len(A) = N /\ DOMAIN A = 1..N
    <2> HIDE DEF N, made
    <2>1. A \in Seq(made)
        BY <1>2
    <2>2. DOMAIN A = 1..N /\ DOMAIN A = 1..Len(A) /\ Len(A) \in Nat
        BY <1>2, <2>1
    <2>3. QED
        BY <1>2, <2>2
<1>4. ASSUME NEW i \in 1..N
      PROVE  /\ \E q \in P : A[i] = LineWith(o, hours, q)
             /\ AsAggregated(A[i], o)
             /\ \A e \in Ids(A[i]) : Part(e, A[i].key, A[i].hours[e]) \in P
    <2>1. PICK q \in P : A[i] = LineWith(o, hours, q)
        BY <1>2
    <2>2. AsAggregated(A[i], o)
        <3> DEFINE l == LineWith(o, hours, q)
        <3>1. /\ l \in Line /\ l.source = "teamwork" /\ l.rateSource = "entries"
              /\ q.entry \in Ids(l) /\ (l.key # NoKey => l.billable)
              /\ l.unit = AverageRate(o, l.hours)
              /\ \A e \in Ids(l) : l.billable = o.billable[e]
            BY LineFacts
        <3> HIDE DEF l
        <3>2. AsAggregated(l, o)
            BY <3>1 DEF AsAggregated, Agrees
        <3>3. QED
            BY <2>1, <3>2 DEF l
    <2>3. ASSUME NEW e \in Ids(A[i]) PROVE Part(e, A[i].key, A[i].hours[e]) \in P
        <3>1. PICK p \in Group(o, hours, q) : p.entry = e
            BY <2>1, LineFacts
        <3>2. p.key = A[i].key /\ A[i].hours[e] = p.hours
            BY <2>1, <3>1, LineFacts
        <3>3. p \in P /\ p = Part(p.entry, p.key, p.hours)
            BY PartFacts DEF Group
        <3>4. QED
            BY <3>1, <3>2, <3>3
    <2>4. QED
        BY <2>1, <2>2, <2>3
<1>5. ASSUME NEW p \in P PROVE \E i \in 1..N : p.entry \in Ids(A[i]) /\ p.key = A[i].key
    <2>1. PICK i \in 1..N : A[i] = LineWith(o, hours, p)
        BY <1>1 DEF Enumerates
    <2>2. p \in Group(o, hours, p)
        BY DEF Group
    <2>3. p.entry \in Ids(LineWith(o, hours, p)) /\ p.key = LineWith(o, hours, p).key
        BY <2>2, LineFacts
    <2>4. QED
        BY <2>1, <2>3
<1>6. ASSUME NEW i \in 1..N, NEW j \in 1..N, NEW e \in Ids(A[i]) \cap Ids(A[j]), A[i].key = A[j].key
      PROVE  i = j
    <2>1. PICK q \in P : A[i] = LineWith(o, hours, q)
        BY <1>4
    <2>2. PICK r \in P : A[j] = LineWith(o, hours, r)
        BY <1>4
    <2>3. A[i] = A[j]
        <3>1. e \in Ids(LineWith(o, hours, q)) /\ e \in Ids(LineWith(o, hours, r))
            BY <2>1, <2>2
        <3>2. LineWith(o, hours, q).key = NoKey <=> LineWith(o, hours, r).key = NoKey
            BY <1>6, <2>1, <2>2
        <3>3. LineWith(o, hours, q) = LineWith(o, hours, r)
            BY <3>1, <3>2, LinesShare
        <3>4. QED
            BY <2>1, <2>2, <3>3
    <2>4. QED
        BY <1>1, <2>3 DEF Enumerates
<1>7. \A i \in 1..N : A[i].hours \in Snapshots
    BY <1>4 DEF AsAggregated, Line
<1>8. Spreads(A, o, hours)
    BY <1>2, <1>3, <1>4, <1>5, <1>6, <1>7 DEF Spreads
<1>9. A = [i \in 1..N |-> A[i]]
    BY <1>2
<1>10. QED
    BY <1>2, <1>3, <1>4, <1>8, <1>9 DEF A, IsSequence

\* Two lines of an entry are both covered or neither only if they are one.
LEMMA SpreadsApart ==
    ASSUME UsedTyped, NEW o \in Overrides, NEW hours \in Snapshots, NEW ls,
           Spreads(ls, o, hours), NEW i \in DOMAIN ls, NEW j \in DOMAIN ls,
           NEW e, e \in Ids(ls[i]), e \in Ids(ls[j]), (ls[i].key = NoKey) <=> (ls[j].key = NoKey)
    PROVE  i = j
<1> DEFINE p == Part(e, ls[i].key, ls[i].hours[e])
           r == Part(e, ls[j].key, ls[j].hours[e])
<1>1. p \in Parts(o, hours) /\ r \in Parts(o, hours)
    BY DEF Spreads
<1>2. p.entry = e /\ r.entry = e /\ p.key = ls[i].key /\ r.key = ls[j].key
    BY DEF Part
<1> HIDE DEF p, r
<1>3. p.key \in {NoKey, KeyOf(o, e)} /\ r.key \in {NoKey, KeyOf(o, e)}
    BY <1>1, <1>2, PartFacts
<1>4. ls[i].key = ls[j].key
    BY <1>2, <1>3
<1>5. QED
    BY <1>4 DEF Spreads

-----------------------------------------------------------------------------
(* Lines from one source. *)

At(source, ls) == {i \in DOMAIN ls : ls[i].source = source}
Places(source, ls) ==
    InOrder(At(source, ls), [i \in At(source, ls) |-> {j \in At(source, ls) : j < i}])

\* The lines from a source are those lines, each once.
LEMMA FromIs ==
    ASSUME NEW ls, IsSequence(ls), NEW source
    PROVE  /\ IsSequence(From(source, ls))
           /\ DOMAIN From(source, ls) = DOMAIN Places(source, ls)
           /\ \A n \in DOMAIN From(source, ls) :
                 /\ Places(source, ls)[n] \in At(source, ls)
                 /\ From(source, ls)[n] = ls[Places(source, ls)[n]]
           /\ \A i \in At(source, ls) : \E n \in DOMAIN From(source, ls) : Places(source, ls)[n] = i
           /\ \A m, n \in DOMAIN From(source, ls) :
                 Places(source, ls)[m] = Places(source, ls)[n] => m = n
<1> DEFINE S == At(source, ls)
           P == Places(source, ls)
           F == From(source, ls)
           N == Cardinality(S)
<1>1. S \subseteq Nat /\ IsFiniteSet(S)
    <2>1. Len(ls) \in Nat /\ DOMAIN ls = 1..Len(ls)
        BY DEF IsSequence
    <2>2. S \subseteq DOMAIN ls
        BY Zenon DEF At
    <2> HIDE DEF S
    <2>3. IsFiniteSet(1..Len(ls)) /\ 1..Len(ls) \subseteq Nat
        BY <2>1, FS_Interval
    <2>4. QED
        BY <2>1, <2>2, <2>3, FS_Subset
<1>2. Enumerates(P, S)
    <2> HIDE DEF S
    <2>1. Enumerates(InOrder(S, [i \in S |-> {j \in S : j < i}]), S)
        BY <1>1, NaturalsInOrder
    <2>2. QED
        BY <2>1 DEF Places, S
<1>3. F = [n \in DOMAIN P |-> ls[P[n]]]
    BY DEF From, Places, At
<1> HIDE DEF P, S, F, N
<1>4. /\ N \in Nat /\ P \in [1..N -> S]
      /\ \A m, n \in 1..N : P[m] = P[n] => m = n
      /\ \A i \in S : \E n \in 1..N : P[n] = i
    BY <1>2 DEF Enumerates, N
<1>5. DOMAIN F = 1..N /\ \A n \in 1..N : F[n] = ls[P[n]]
    BY <1>3, <1>4
<1>6. Len(F) = N
    <2> DEFINE T == {ls[i] : i \in S}
    <2>1. F \in [1..N -> T]
        BY <1>3, <1>4
    <2> HIDE DEF T
    <2>2. QED
        BY <1>4, <2>1
<1>7. F = [n \in 1..N |-> F[n]]
    BY <1>3, <1>5
<1>8. QED
    BY <1>4, <1>5, <1>6, <1>7 DEF IsSequence, P, S, F

-----------------------------------------------------------------------------
(* The hours of entries on lines. *)

Hourly(ls) == IsSequence(ls) /\ \A i \in DOMAIN ls : ls[i].hours \in Snapshots

OnLines(ls, e) == {i \in DOMAIN ls : e \in Ids(ls[i])}
HoursOf(ls, e) == [i \in OnLines(ls, e) |-> ls[i].hours[e]]

\* The hours of an entry on lines add up, to none if it is on no line.
LEMMA HoursOfIs ==
    ASSUME NEW ls, Hourly(ls), NEW e
    PROVE  /\ IsFiniteSet(OnLines(ls, e))
           /\ \A i \in OnLines(ls, e) : HoursOf(ls, e)[i] \in Nat \ {0}
           /\ HoursOn(ls, e) = SumFunctionOnSet(HoursOf(ls, e), OnLines(ls, e))
           /\ HoursOn(ls, e) \in Nat
           /\ HoursOn(ls, e) = 0 <=> e \notin EntriesOf(ls)
<1> DEFINE J == OnLines(ls, e)
           f == HoursOf(ls, e)
<1>1. IsFiniteSet(J)
    <2>1. Len(ls) \in Nat /\ DOMAIN ls = 1..Len(ls) /\ J \subseteq DOMAIN ls
        BY DEF Hourly, IsSequence, OnLines
    <2>2. IsFiniteSet(1..Len(ls))
        BY <2>1, FS_Interval
    <2>3. QED
        BY <2>1, <2>2, FS_Subset
<1>2. ASSUME NEW i \in J PROVE f[i] \in Nat \ {0}
    <2>1. i \in DOMAIN ls /\ e \in DOMAIN ls[i].hours /\ f[i] = ls[i].hours[e]
        BY DEF OnLines, HoursOf, Ids
    <2>2. ls[i].hours \in Snapshots
        BY <2>1 DEF Hourly
    <2>3. QED
        BY <2>1, <2>2, SnapshotIs
<1>3. HoursOn(ls, e) = SumFunctionOnSet(f, J)
    BY DEF HoursOn, SumFunction, OnLines, HoursOf
<1>4. SumFunctionOnSet(f, J) \in Nat
    <2> HIDE DEF f, J
    <2>1. QED
        BY <1>1, <1>2, SumType
<1>5. J = {} <=> e \notin EntriesOf(ls)
    BY DEF OnLines, EntriesOf
<1> HIDE DEF f, J
<1>6. J = {} => SumFunctionOnSet(f, J) = 0
    BY <1>1, SumUnfolds
<1>7. J # {} => SumFunctionOnSet(f, J) # 0
    <2> SUFFICES ASSUME NEW i \in J PROVE SumFunctionOnSet(f, J) # 0
        OBVIOUS
    <2>1. {i} \in SUBSET J /\ f[i] \in Nat \ {0}
        BY <1>2
    <2>2. SumFunctionOnSet(f, {i}) = f[i]
        BY <2>1, SumOfOne
    <2>3. SumFunctionOnSet(f, {i}) <= SumFunctionOnSet(f, J)
        <3> DEFINE U == {i}
        <3>1. U \in SUBSET J
            BY <2>1
        <3> HIDE DEF U
        <3>2. SumFunctionOnSet(f, U) <= SumFunctionOnSet(f, J)
            BY <1>1, <1>2, <3>1, SumOfPart
        <3>3. QED
            BY <3>2 DEF U
    <2>4. QED
        BY <1>4, <2>1, <2>2, <2>3
<1>8. QED
    BY <1>1, <1>2, <1>3, <1>4, <1>5, <1>6, <1>7 DEF f, J

\* The lines of ls at D are, elsewhere, the lines of ms that have entries.
Moved(ls, D, to, ms) ==
    /\ Hourly(ls) /\ Hourly(ms) /\ D \subseteq DOMAIN ls
    /\ \A i \in D : to[i] \in DOMAIN ms /\ ms[to[i]].hours = ls[i].hours
    /\ \A i, j \in D : to[i] = to[j] => i = j
    /\ \A j \in DOMAIN ms : Ids(ms[j]) # {} => \E i \in D : to[i] = j

\* Lines that move to other places keep their hours.
LEMMA HoursMove ==
    ASSUME NEW ls, NEW D, NEW to, NEW ms, Moved(ls, D, to, ms), NEW e
    PROVE  HoursOn(ms, e) = SumFunctionOnSet(HoursOf(ls, e), OnLines(ls, e) \cap D)
<1> USE DEF Moved
<1> DEFINE S == OnLines(ls, e) \cap D
           f == HoursOf(ls, e)
           K == OnLines(ms, e)
           g == HoursOf(ms, e)
<1>1. IsFiniteSet(S) /\ IsFiniteSet(K)
    BY HoursOfIs, FS_Subset
<1>2. ASSUME NEW i \in S PROVE f[i] \in Int /\ to[i] \in K /\ g[to[i]] = f[i]
    <2>1. f[i] \in Nat
        BY HoursOfIs
    <2>2. QED
        BY <2>1 DEF OnLines, HoursOf, Ids
<1>3. ASSUME NEW j \in K PROVE \E i \in S : to[i] = j
    <2>1. j \in DOMAIN ms /\ e \in Ids(ms[j])
        BY DEF OnLines
    <2>2. PICK i \in D : to[i] = j
        BY <2>1
    <2>3. e \in Ids(ls[i])
        BY <2>1, <2>2 DEF Ids
    <2>4. QED
        BY <2>2, <2>3 DEF OnLines
<1>4. \A i, j \in S : to[i] = to[j] => i = j
    OBVIOUS
<1>5. HoursOn(ms, e) = SumFunctionOnSet(g, K)
    BY HoursOfIs
<1> HIDE DEF S, f, K, g
<1>6. SumFunctionOnSet(g, K) = SumFunctionOnSet(f, S)
    BY <1>1, <1>2, <1>3, <1>4, SumOfImage
<1>7. QED
    BY <1>5, <1>6 DEF f, S

\* The hours read off the lines for a rebuild.
LEMMA StoredIs ==
    ASSUME NEW ls, Hourly(ls)
    PROVE  /\ StoredHours(ls) \in Snapshots
           /\ \A e : HoursOn(ls, e) = IF e \in DOMAIN StoredHours(ls) THEN StoredHours(ls)[e] ELSE 0
<1>1. EntriesOf(ls) \in SUBSET Entries
    BY SnapshotIs DEF EntriesOf, Hourly, Ids
<1>2. \A e \in EntriesOf(ls) : HoursOn(ls, e) \in Nat \ {0}
    BY HoursOfIs
<1>3. StoredHours(ls) \in [EntriesOf(ls) -> Nat \ {0}]
    BY <1>2 DEF StoredHours
<1>4. QED
    BY <1>1, <1>3, HoursOfIs DEF Snapshots, StoredHours

-----------------------------------------------------------------------------
(* The rebuild. *)

\* The settings a rebuilt line takes: never hours, state or allowance, and a
\* rate of its own unless that stays the average of its entries.
LEMMA WithSettingsIs ==
    ASSUME NEW l \in Line, NEW stored, \A i \in DOMAIN stored : stored[i] \in Line,
           NEW rebuilt, NEW rerated
    PROVE  LET w == WithSettings(l, stored, rebuilt, rerated) IN
           /\ w \in Line /\ w.hours = l.hours /\ w.source = l.source
           /\ w.billable = l.billable /\ w.key = l.key
           /\ l.rateSource = "entries" /\ w.rateSource = "entries" => w.unit = l.unit
<1> DEFINE w == WithSettings(l, stored, rebuilt, rerated)
           i == CHOOSE i \in SavedFor(l, stored) : TRUE
           saved == stored[i]
           entries == RateFromEntries(l, saved, rerated)
           keeps == KeepsQuantity(l, stored, rebuilt)
<1>1. CASE SavedFor(l, stored) = {}
    BY <1>1 DEF WithSettings
<1>2. CASE SavedFor(l, stored) # {}
    <2>1. i \in SavedFor(l, stored)
        BY <1>2
    <2>2. SavedFor(l, stored) \subseteq DOMAIN stored
        BY DEF SavedFor, SameKeyIn
    <2>3. saved \in Line
        BY <2>1, <2>2
    <2>4. w = [l EXCEPT
                 !.quantity   = IF keeps THEN saved.quantity ELSE @,
                 !.unit       = IF entries THEN @ ELSE saved.unit,
                 !.rateSource = IF entries THEN "entries" ELSE saved.rateSource]
        BY <1>2 DEF WithSettings
    <2>5. ~entries => saved.rateSource # "entries"
        BY DEF RateFromEntries
    <2> HIDE DEF w, saved, entries, keeps
    <2>6. w \in Line
        BY <2>3, <2>4 DEF Line
    <2>7. w.hours = l.hours /\ w.source = l.source /\ w.key = l.key
        BY <2>4 DEF Line
    <2>8. w.billable = l.billable
        BY <2>4, Zenon DEF Line
    <2>9. w.rateSource = "entries" => entries
        BY <2>4, <2>5 DEF Line
    <2>10. entries => w.unit = l.unit
        BY <2>4 DEF Line
    <2>11. QED
        BY <2>6, <2>7, <2>8, <2>9, <2>10 DEF w
<1>3. QED
    BY <1>1, <1>2

\* A line a draft may have.
MayHave(l) ==
    /\ l \in Line /\ (l.key # NoKey => l.billable)
    /\ l.source = "manual" <=> Ids(l) = {}
    /\ l.source = "manual" => l.rateSource = "line"

\* The rate of a line that was not typed.
RateIsAverage(l, o) == l.rateSource = "entries" => l.unit = AverageRate(o, l.hours)

MayHaveAll(ls) == IsSequence(ls) /\ \A i \in DOMAIN ls : MayHave(ls[i])

\* The lines of a draft have snapshots.
LEMMA LinesAreHourly ==
    ASSUME NEW ls, MayHaveAll(ls)
    PROVE  Hourly(ls) /\ \A i \in DOMAIN ls : ls[i] \in Line /\ ls[i].hours \in Snapshots
BY DEF MayHaveAll, MayHave, Line, Hourly

Settled(ls, o, rerated) ==
    LET rebuilt == Aggregated(o, StoredHours(ls)) IN
    [i \in DOMAIN rebuilt |-> WithSettings(rebuilt[i], FromTeamwork(ls), rebuilt, rerated)]

\* After the lines of no entries come the aggregated ones, settled.
LEMMA RebuiltIs ==
    ASSUME UsedTyped, NEW o \in Overrides, NEW ls, MayHaveAll(ls), NEW rerated
    PROVE  LET r == Rebuilt(ls, o, rerated)
               rebuilt == Aggregated(o, StoredHours(ls))
               settled == Settled(ls, o, rerated)
               m == Len(Manual(ls))
           IN /\ m \in Nat /\ IsSequence(rebuilt) /\ IsSequence(r)
              /\ Len(r) = m + Len(rebuilt)
              /\ \A i \in 1..m : r[i] = Manual(ls)[i] /\ MayHave(r[i]) /\ r[i].source = "manual"
              /\ \A i \in DOMAIN rebuilt :
                    /\ r[m + i] = settled[i]
                    /\ settled[i] = WithSettings(rebuilt[i], FromTeamwork(ls), rebuilt, rerated)
                    /\ AsAggregated(rebuilt[i], o)
                    /\ MayHave(settled[i]) /\ settled[i].source = "teamwork"
                    /\ settled[i].hours = rebuilt[i].hours /\ settled[i].key = rebuilt[i].key
                    /\ settled[i].billable = rebuilt[i].billable
                    /\ RateIsAverage(settled[i], o)
<1> DEFINE A == Aggregated(o, StoredHours(ls))
           M == Manual(ls)
           T == FromTeamwork(ls)
           W == Settled(ls, o, rerated)
           r == Rebuilt(ls, o, rerated)
           m == Len(M)
           n == Len(A)
<1>1. StoredHours(ls) \in Snapshots
    BY LinesAreHourly, StoredIs
<1>2. n \in Nat /\ DOMAIN A = 1..n /\ \A i \in 1..n : AsAggregated(A[i], o)
    BY <1>1, AggregatedIs DEF IsSequence
<1>3. IsSequence(ls)
    BY DEF MayHaveAll
<1>4. m \in Nat /\ DOMAIN M = 1..m /\ \A i \in 1..m : MayHave(M[i]) /\ M[i].source = "manual"
    BY <1>3, FromIs DEF Manual, IsSequence, At, MayHaveAll
<1>5. \A i \in DOMAIN T : T[i] \in Line
    BY <1>3, FromIs DEF FromTeamwork, At, MayHaveAll, MayHave
<1>6. W = [i \in DOMAIN A |-> WithSettings(A[i], T, A, rerated)]
    BY DEF Settled
<1>7. r = M \o W /\ M = [i \in DOMAIN M |-> M[i]]
    BY DEF Rebuilt, Settled, Manual, From
<1> HIDE DEF A, M, T, W, r, m, n
<1>8. DOMAIN W = 1..n /\ \A i \in 1..n : W[i] = WithSettings(A[i], T, A, rerated)
    BY <1>2, <1>6
<1>9. ASSUME NEW i \in 1..n
      PROVE  /\ MayHave(W[i]) /\ W[i].source = "teamwork"
             /\ W[i].hours = A[i].hours /\ W[i].key = A[i].key /\ W[i].billable = A[i].billable
             /\ RateIsAverage(W[i], o)
    <2> DEFINE a == A[i]
               w == WithSettings(a, T, A, rerated)
    <2>1. /\ a \in Line /\ Ids(a) # {} /\ a.source = "teamwork" /\ a.rateSource = "entries"
          /\ a.key # NoKey => a.billable
          /\ a.unit = AverageRate(o, a.hours)
        BY <1>2 DEF AsAggregated
    <2> HIDE DEF a
    <2>2. /\ w \in Line /\ w.hours = a.hours /\ w.source = a.source
          /\ w.billable = a.billable /\ w.key = a.key
          /\ a.rateSource = "entries" /\ w.rateSource = "entries" => w.unit = a.unit
        BY <1>5, <2>1, WithSettingsIs
    <2> HIDE DEF w
    <2>3. RateIsAverage(w, o)
        BY <2>1, <2>2 DEF RateIsAverage
    <2>4. w.key # NoKey => w.billable
        BY <2>1, <2>2, Zenon
    <2>5. MayHave(w) /\ w.source = "teamwork"
        BY <2>1, <2>2, <2>4 DEF MayHave, Ids
    <2>6. W[i] = w
        BY <1>8 DEF w, a
    <2>7. QED
        BY <2>2, <2>3, <2>5, <2>6 DEF a
<1>10. /\ IsSequence(r) /\ Len(r) = m + n
       /\ (\A i \in 1..m : r[i] = M[i]) /\ \A i \in 1..n : r[m + i] = W[i]
    <2> DEFINE S == {M[i] : i \in 1..m} \cup {W[i] : i \in 1..n}
    <2>1. Len(M) = m /\ M \in [1..m -> S]
        <3>1. M = [i \in 1..m |-> M[i]]
            BY <1>4, <1>7
        <3>2. QED
            BY <3>1 DEF m
    <2>2. W \in [1..n -> S]
        BY <1>6, <1>8
    <2> HIDE DEF S
    <2>3. M \in Seq(S) /\ W \in Seq(S) /\ Len(W) = n
        BY <1>2, <1>4, <2>1, <2>2
    <2>4. /\ M \o W \in Seq(S) /\ Len(M \o W) = m + n
          /\ \A i \in 1..(m + n) : (M \o W)[i] = IF i <= m THEN M[i] ELSE W[i - m]
        BY <2>1, <2>3, ConcatProperties
    <2>5. IsSequence(r) /\ Len(r) = m + n
        <3>1. r \in Seq(S) /\ Len(r) = m + n
            BY <1>7, <2>4
        <3> HIDE DEF S
        <3>2. r \in [1..Len(r) -> S] /\ Len(r) \in Nat
            BY <3>1, LenProperties
        <3>3. QED
            BY <3>1, <3>2 DEF IsSequence
    <2>6. \A i \in 1..m : r[i] = M[i]
        BY <1>2, <1>4, <1>7, <2>4
    <2>7. \A i \in 1..n : m + i \in 1..(m + n) /\ ~(m + i <= m) /\ (m + i) - m = i
        BY <1>2, <1>4
    <2>8. \A i \in 1..n : r[m + i] = W[i]
        BY <1>7, <2>4, <2>7
    <2>9. QED
        BY <2>5, <2>6, <2>8
<1>11. IsSequence(A)
    BY <1>1, AggregatedIs DEF A
<1>12. QED
    BY <1>2, <1>4, <1>8, <1>9, <1>10, <1>11 DEF A, M, T, W, r, m, n

\* A rebuild keeps the hours and applies the allowances afresh.
LEMMA RebuiltSpreads ==
    ASSUME UsedTyped, NEW o \in Overrides, NEW ls, MayHaveAll(ls), NEW rerated
    PROVE  /\ MayHaveAll(Rebuilt(ls, o, rerated))
           /\ Spreads(Rebuilt(ls, o, rerated), o, StoredHours(ls))
           /\ \A e : HoursOn(Rebuilt(ls, o, rerated), e) = HoursOn(ls, e)
           /\ \A i \in DOMAIN Rebuilt(ls, o, rerated) :
                 /\ Agrees(Rebuilt(ls, o, rerated)[i], o)
                 /\ RateIsAverage(Rebuilt(ls, o, rerated)[i], o)
<1> DEFINE A == Aggregated(o, StoredHours(ls))
           W == Settled(ls, o, rerated)
           r == Rebuilt(ls, o, rerated)
           m == Len(Manual(ls))
           n == Len(A)
           P == Parts(o, StoredHours(ls))
<1>1. StoredHours(ls) \in Snapshots /\ Hourly(ls)
    BY LinesAreHourly, StoredIs
<1>2. /\ Spreads(A, o, StoredHours(ls))
      /\ \A i \in 1..n : AsAggregated(A[i], o)
    BY <1>1, AggregatedIs
<1>3. /\ IsSequence(r) /\ m \in Nat /\ n \in Nat /\ DOMAIN A = 1..n /\ Len(r) = m + n /\ DOMAIN r = 1..(m + n)
      /\ \A i \in 1..m : MayHave(r[i]) /\ r[i].source = "manual"
      /\ \A i \in 1..n :
            /\ r[m + i] = W[i] /\ MayHave(W[i]) /\ W[i].source = "teamwork"
            /\ W[i].hours = A[i].hours /\ W[i].key = A[i].key /\ W[i].billable = A[i].billable
            /\ RateIsAverage(W[i], o)
    BY RebuiltIs DEF IsSequence
<1> HIDE DEF A, W, r, m, n, P
<1>4. \A i \in 1..(m + n) : i \in 1..m \/ (i - m \in 1..n /\ i = m + (i - m))
    BY <1>3
<1>5. ASSUME NEW i \in 1..m
      PROVE  /\ MayHave(r[i]) /\ Ids(r[i]) = {} /\ Agrees(r[i], o) /\ RateIsAverage(r[i], o)
             /\ r[i].hours \in Snapshots
    <2>1. MayHave(r[i]) /\ r[i].source = "manual"
        BY <1>3
    <2>2. QED
        BY <2>1 DEF MayHave, Agrees, RateIsAverage, Line
<1>6. ASSUME NEW i \in 1..n
      PROVE  /\ r[m + i].hours = A[i].hours /\ r[m + i].key = A[i].key
             /\ Ids(r[m + i]) = Ids(A[i]) /\ r[m + i].hours \in Snapshots
             /\ MayHave(r[m + i]) /\ Agrees(r[m + i], o) /\ RateIsAverage(r[m + i], o)
    <2>1. /\ r[m + i] = W[i] /\ MayHave(W[i]) /\ W[i].hours = A[i].hours /\ W[i].key = A[i].key
          /\ W[i].billable = A[i].billable /\ RateIsAverage(W[i], o)
        BY <1>3
    <2>2. Ids(W[i]) = Ids(A[i])
        BY <2>1 DEF Ids
    <2>3. Agrees(W[i], o)
        BY <1>2, <2>1, <2>2, Zenon DEF AsAggregated, Agrees
    <2>4. W[i].hours \in Snapshots
        BY <2>1 DEF MayHave, Line
    <2>5. QED
        BY <2>1, <2>2, <2>3, <2>4
<1>7. ASSUME NEW i \in 1..(m + n)
      PROVE  /\ MayHave(r[i]) /\ Agrees(r[i], o) /\ RateIsAverage(r[i], o)
             /\ r[i].hours \in Snapshots
             /\ \A e \in Ids(r[i]) : i - m \in 1..n /\ i = m + (i - m)
    <2>1. CASE i \in 1..m
        BY <1>5, <2>1
    <2>2. CASE i - m \in 1..n /\ i = m + (i - m)
        <3> DEFINE j == i - m
        <3>1. j \in 1..n /\ i = m + j
            BY <2>2
        <3> HIDE DEF j
        <3>2. QED
            BY <1>6, <2>2, <3>1
    <2>3. QED
        BY <1>4, <2>1, <2>2
<1>8. ASSUME NEW i \in 1..(m + n), NEW e \in Ids(r[i])
      PROVE  Part(e, r[i].key, r[i].hours[e]) \in P
    <2> DEFINE j == i - m
    <2>1. j \in 1..n /\ i = m + j
        BY <1>7
    <2> HIDE DEF j
    <2>2. e \in Ids(A[j]) /\ r[i].key = A[j].key /\ r[i].hours = A[j].hours
        BY <1>6, <2>1
    <2>3. Part(e, A[j].key, A[j].hours[e]) \in P
        BY <1>2, <1>3, <2>1, <2>2 DEF Spreads, P
    <2>4. QED
        BY <2>2, <2>3
<1>9. ASSUME NEW p \in P PROVE \E i \in 1..(m + n) : p.entry \in Ids(r[i]) /\ p.key = r[i].key
    <2>1. PICK j \in 1..n : p.entry \in Ids(A[j]) /\ p.key = A[j].key
        BY <1>2, <1>3 DEF Spreads, P
    <2>2. p.entry \in Ids(r[m + j]) /\ p.key = r[m + j].key
        BY <1>6, <2>1
    <2>3. m + j \in 1..(m + n)
        BY <1>3
    <2>4. QED
        BY <2>2, <2>3
<1>10. ASSUME NEW i \in 1..(m + n), NEW j \in 1..(m + n), NEW e \in Ids(r[i]) \cap Ids(r[j]),
              r[i].key = r[j].key
       PROVE  i = j
    <2> DEFINE a == i - m
               b == j - m
    <2>1. a \in 1..n /\ i = m + a /\ b \in 1..n /\ j = m + b
        BY <1>7
    <2> HIDE DEF a, b
    <2>2. e \in Ids(A[a]) \cap Ids(A[b]) /\ A[a].key = A[b].key
        BY <1>6, <1>10, <2>1
    <2>3. a = b
        BY <1>2, <1>3, <2>1, <2>2 DEF Spreads
    <2>4. QED
        BY <2>1, <2>3
<1>11. Spreads(r, o, StoredHours(ls))
    <2>1. Len(r) \in Nat /\ DOMAIN r = 1..Len(r) /\ DOMAIN r = 1..(m + n)
        BY <1>3
    <2>2. QED
        BY <1>7, <1>8, <1>9, <1>10, <2>1 DEF Spreads, P
<1>12. MayHaveAll(r)
    BY <1>3, <1>7 DEF MayHaveAll
<1>13. \A e : HoursOn(r, e) = HoursOn(ls, e)
    BY <1>1, <1>11, StoredIs, SpreadKeepsHours
<1>14. QED
    BY <1>3, <1>7, <1>11, <1>12, <1>13 DEF r

-----------------------------------------------------------------------------
(* The inductive invariant. *)

\* Every line may be in a draft, agrees with the overrides of its entries, has
\* their average rate unless one was typed, and the lines keep the hours.
LineInv ==
    /\ UsedTyped /\ overrides \in Overrides
    /\ cut \subseteq Entries /\ retyped \subseteq Entries /\ edits \in 0..MaxEdits
    /\ MayHaveAll(lines)
    /\ \A i \in DOMAIN lines : Agrees(lines[i], overrides) /\ RateIsAverage(lines[i], overrides)
    /\ SnapshotKeepsHours

\* The invariant says what the runs check.
LEMMA LineInvImplies == LineInv => TypeOK /\ SnapshotKeepsHours /\ EntriesRateIsAverage
<1> SUFFICES ASSUME LineInv PROVE TypeOK /\ SnapshotKeepsHours /\ EntriesRateIsAverage
    OBVIOUS
<1> USE DEF LineInv
<1>1. EntriesRateIsAverage
    BY DEF EntriesRateIsAverage, RateIsAverage
<1>2. ASSUME NEW i \in DOMAIN lines
      PROVE  /\ IsLine(lines[i])
             /\ lines[i].source = "manual" <=> Ids(lines[i]) = {}
             /\ \A e \in Ids(lines[i]) : lines[i].billable = overrides.billable[e]
             /\ lines[i].key # NoKey => lines[i].billable
    <2> DEFINE l == lines[i]
    <2>1. MayHave(l) /\ Agrees(l, overrides)
        BY DEF MayHaveAll
    <2> HIDE DEF l
    <2>2. l \in Line /\ l.hours \in Snapshots
        BY <2>1 DEF MayHave, Line
    <2>3. Ids(l) \subseteq Entries /\ \A e \in Ids(l) : l.hours[e] \in Nat \ {0}
        BY <2>2, SnapshotIs DEF Ids
    <2>4. /\ l.source \in {"teamwork", "manual"} /\ l.rateSource \in {"entries", "line"}
          /\ l.billable \in BOOLEAN /\ l.key \in Keys \cup {NoKey}
          /\ {l.task, l.service, l.year, l.quantity, l.unit} \subseteq Nat
        BY <2>2 DEF Line
    <2>5. IsLine(l)
        BY <2>3, <2>4 DEF IsLine
    <2>6. QED
        BY <2>1, <2>5 DEF MayHave, Agrees, l
<1>3. QED
    BY <1>1, <1>2 DEF TypeOK, UsedTyped, Overrides

\* A new draft.
LEMMA LineInvInit == Init => LineInv
<1> SUFFICES ASSUME Init PROVE LineInv
    OBVIOUS
<1> DEFINE hours == [e \in Entries |-> Imported[e].hours]
           A == Aggregated(ImportedAsIs, hours)
<1>1. UsedTyped
    <2>1. used \in [Keys -> UNION {0..Allowance[k] : k \in Keys}]
        BY DEF Init
    <2>2. \A k \in Keys : 0..Allowance[k] \subseteq Nat
        BY KeysAre
    <2>3. QED
        BY <2>1, <2>2 DEF UsedTyped
<1>2. ImportedAsIs \in Overrides
    BY EntriesAre DEF ImportedAsIs, Overrides, NotAssigned, NoService, NoYear, TimeEntry
<1>3. hours \in Snapshots
    <2>1. hours \in [Entries -> Nat \ {0}]
        BY EntriesAre DEF TimeEntry
    <2>2. QED
        BY <2>1 DEF Snapshots
<1>4. lines = A /\ overrides = ImportedAsIs /\ cut = {} /\ retyped = {} /\ edits = 0
    BY DEF Init
<1>5. /\ DOMAIN hours = Entries /\ \A e \in Entries : hours[e] = Imported[e].hours
    OBVIOUS
<1> HIDE DEF hours, A
<1>6. /\ IsSequence(lines) /\ Spreads(lines, ImportedAsIs, hours)
      /\ \A i \in DOMAIN lines : AsAggregated(lines[i], ImportedAsIs)
    BY <1>1, <1>2, <1>3, <1>4, AggregatedIs DEF A, IsSequence
<1>7. ASSUME NEW i \in DOMAIN lines
      PROVE  MayHave(lines[i]) /\ Agrees(lines[i], overrides) /\ RateIsAverage(lines[i], overrides)
    BY <1>4, <1>6 DEF AsAggregated, MayHave, RateIsAverage
<1>8. SnapshotKeepsHours
    BY <1>1, <1>2, <1>3, <1>4, <1>5, <1>6, SpreadKeepsHours DEF SnapshotKeepsHours
<1>9. edits \in 0..MaxEdits
    BY <1>4, EditsAssumption
<1>10. QED
    BY <1>1, <1>2, <1>4, <1>6, <1>7, <1>8, <1>9 DEF LineInv, MayHaveAll

\* What a step may do to the hours.
HoursStay == \A e : HoursOn(lines', e) = HoursOn(lines, e)

\* A rebuild of lines with the draft's hours, from what the overrides become.
LEMMA RebuildStep ==
    ASSUME LineInv, NEW ls, MayHaveAll(ls), \A e : HoursOn(ls, e) = HoursOn(lines, e), NEW rerated,
           overrides' \in Overrides, lines' = Rebuilt(ls, overrides', rerated),
           used' = used, cut' = cut, retyped' \subseteq Entries, edits' \in 0..MaxEdits
    PROVE  LineInv' /\ HoursStay /\ Spreads(lines', overrides', StoredHours(ls))
<1> USE DEF LineInv
<1>1. /\ MayHaveAll(lines') /\ Spreads(lines', overrides', StoredHours(ls))
      /\ \A e : HoursOn(lines', e) = HoursOn(ls, e)
      /\ \A i \in DOMAIN lines' : /\ Agrees(lines'[i], overrides')
                                  /\ RateIsAverage(lines'[i], overrides')
    BY RebuiltSpreads
<1>2. HoursStay
    BY <1>1 DEF HoursStay
<1>3. SnapshotKeepsHours'
    BY <1>2 DEF HoursStay, SnapshotKeepsHours
<1>4. QED
    BY <1>1, <1>2, <1>3 DEF UsedTyped

\* Entries are switched.
LEMMA SetBillableStep ==
    ASSUME LineInv, NEW es \in SUBSET Entries, NEW value \in BOOLEAN, SetBillable(es, value),
           edits' \in 0..MaxEdits
    PROVE  LineInv' /\ HoursStay /\ Spreads(lines', overrides', StoredHours(lines))
<1>1. overrides' \in Overrides
    BY DEF LineInv, Overrides, SetBillable
<1>2. MayHaveAll(lines) /\ retyped' \subseteq Entries
    BY DEF LineInv, SetBillable
<1>3. QED
    BY <1>1, <1>2, RebuildStep DEF SetBillable

\* Entries get a rate.
LEMMA SetRateStep ==
    ASSUME LineInv, NEW es \in SUBSET Entries, NEW value \in Rates, SetRate(es, value),
           edits' \in 0..MaxEdits
    PROVE  LineInv' /\ HoursStay /\ Spreads(lines', overrides', StoredHours(lines))
<1>1. overrides' \in Overrides
    BY EditsAssumption DEF LineInv, Overrides, SetRate
<1>2. MayHaveAll(lines) /\ retyped' \subseteq Entries
    BY DEF LineInv, SetRate
<1>3. QED
    BY <1>1, <1>2, RebuildStep DEF SetRate

\* An edit leaves hours, state, source and allowance of a line.
LEMMA PatchedIs ==
    ASSUME NEW l, MayHave(l), NEW patch \in Patches
    PROVE  LET p == PatchedLine(l, patch) IN
           /\ MayHave(p) /\ p.hours = l.hours /\ p.source = l.source
           /\ p.billable = l.billable /\ p.key = l.key
           /\ p.rateSource = "entries" => l.rateSource = "entries" /\ p.unit = l.unit
           /\ ~Has(patch, "quantity") => p.quantity = l.quantity
           /\ ~Has(patch, "unit") => p.unit = l.unit /\ p.rateSource = l.rateSource
<1> DEFINE p == PatchedLine(l, patch)
           unit == IF Has(patch, "unit") THEN patch.unit ELSE l.unit
           rateSource == IF Has(patch, "unit") /\ l.source = "teamwork" THEN "line" ELSE l.rateSource
           quantity == IF Has(patch, "quantity") THEN patch.quantity ELSE l.quantity
           service == IF Has(patch, "service") THEN patch.service ELSE l.service
           year == IF Has(patch, "service") THEN patch.year ELSE l.year
<1>1. l \in Line
    BY DEF MayHave
<1>2. /\ Has(patch, "unit") => patch.unit \in Nat
      /\ Has(patch, "quantity") => patch.quantity \in Nat
      /\ Has(patch, "service") => patch.service \in Nat /\ patch.year \in Nat
    <2>1. /\ \A field \in DOMAIN patch : patch[field] \in Nat
          /\ "service" \in DOMAIN patch => "year" \in DOMAIN patch
        BY EditsAssumption
    <2>2. "unit" \in DOMAIN patch => patch["unit"] \in Nat
        BY <2>1
    <2>3. "quantity" \in DOMAIN patch => patch["quantity"] \in Nat
        BY <2>1
    <2>4. "service" \in DOMAIN patch => patch["service"] \in Nat /\ patch["year"] \in Nat
        BY <2>1
    <2>5. QED
        BY <2>2, <2>3, <2>4 DEF Has
<1>3. /\ unit \in Nat /\ quantity \in Nat /\ service \in Nat /\ year \in Nat
      /\ rateSource \in {"entries", "line"}
    BY <1>1, <1>2 DEF Line
<1>4. p = [l EXCEPT !.quantity = quantity, !.unit = unit, !.rateSource = rateSource,
                    !.service = service, !.year = year]
    BY DEF PatchedLine
<1>5. /\ ~Has(patch, "quantity") => quantity = l.quantity
      /\ ~Has(patch, "unit") => unit = l.unit /\ rateSource = l.rateSource
    OBVIOUS
<1>6. /\ rateSource = "entries" => l.rateSource = "entries"
      /\ rateSource = "entries" /\ l.source = "teamwork" => unit = l.unit
      /\ l.rateSource = "line" => rateSource = "line"
    OBVIOUS
<1> HIDE DEF p, unit, rateSource, quantity, service, year
<1>7. /\ p \in Line /\ p.hours = l.hours /\ p.source = l.source /\ p.key = l.key
      /\ p.quantity = quantity /\ p.unit = unit /\ p.rateSource = rateSource
    BY <1>1, <1>3, <1>4 DEF Line
<1>8. p.billable = l.billable
    BY <1>1, <1>4, Zenon DEF Line
<1>9. /\ l.key # NoKey => l.billable
      /\ l.source = "manual" <=> Ids(l) = {}
      /\ l.source = "manual" => l.rateSource = "line"
      /\ l.source \in {"teamwork", "manual"}
    BY DEF MayHave, Line
<1>10. Ids(p) = Ids(l)
    BY <1>7 DEF Ids
<1>11. p.key # NoKey => p.billable
    BY <1>7, <1>8, <1>9, Zenon
<1>12. MayHave(p)
    BY <1>6, <1>7, <1>9, <1>10, <1>11 DEF MayHave
<1>13. p.rateSource = "entries" => l.rateSource = "entries" /\ p.unit = l.unit
    BY <1>6, <1>7, <1>9
<1>14. QED
    BY <1>5, <1>7, <1>8, <1>12, <1>13 DEF p

Patched(i, patch) == [lines EXCEPT ![i] = PatchedLine(lines[i], patch)]

\* An edit of a line leaves the draft's hours, and no rate it did not type.
LEMMA PatchedAll ==
    ASSUME LineInv, NEW i \in DOMAIN lines, NEW patch \in Patches
    PROVE  /\ MayHaveAll(Patched(i, patch)) /\ DOMAIN Patched(i, patch) = DOMAIN lines
           /\ \A j \in DOMAIN lines :
                 /\ Patched(i, patch)[j].hours = lines[j].hours
                 /\ Agrees(Patched(i, patch)[j], overrides)
                 /\ RateIsAverage(Patched(i, patch)[j], overrides)
           /\ \A e : HoursOn(Patched(i, patch), e) = HoursOn(lines, e)
<1> DEFINE ps == Patched(i, patch)
           l == lines[i]
           p == PatchedLine(l, patch)
<1>1. IsSequence(lines) /\ \A j \in DOMAIN lines : MayHave(lines[j])
    BY DEF LineInv, MayHaveAll
<1>2. DOMAIN ps = DOMAIN lines /\ ps[i] = p /\ \A j \in DOMAIN lines : j # i => ps[j] = lines[j]
    BY DEF Patched
<1>3. Len(ps) = Len(lines) /\ ps = [j \in 1..Len(ps) |-> ps[j]]
    <2> DEFINE S == {ps[j] : j \in DOMAIN lines}
               n == Len(lines)
    <2>1. n \in Nat /\ DOMAIN lines = 1..n
        BY <1>1 DEF IsSequence
    <2>2. ps = [j \in DOMAIN lines |-> ps[j]]
        BY DEF Patched
    <2> HIDE DEF ps, n
    <2>3. ps \in [1..n -> S]
        BY <2>1, <2>2
    <2> HIDE DEF S
    <2>4. Len(ps) = n /\ ps = [j \in 1..n |-> ps[j]]
        BY <2>1, <2>3
    <2>5. QED
        BY <2>1, <2>4 DEF n
<1>4. /\ MayHave(p) /\ p.hours = l.hours /\ p.billable = l.billable
      /\ p.rateSource = "entries" => l.rateSource = "entries" /\ p.unit = l.unit
    BY <1>1, PatchedIs
<1>5. Agrees(l, overrides) /\ RateIsAverage(l, overrides)
    BY DEF LineInv
<1>6. Agrees(p, overrides)
    BY <1>4, <1>5 DEF Agrees, Ids
<1>7. RateIsAverage(p, overrides)
    BY <1>4, <1>5 DEF RateIsAverage
<1> HIDE DEF ps, p
<1>8. \A j \in DOMAIN lines :
        /\ MayHave(ps[j]) /\ ps[j].hours = lines[j].hours
        /\ Agrees(ps[j], overrides) /\ RateIsAverage(ps[j], overrides)
    BY <1>1, <1>2, <1>4, <1>6, <1>7 DEF LineInv
<1>9. MayHaveAll(ps)
    BY <1>1, <1>2, <1>3, <1>8 DEF MayHaveAll, IsSequence
<1>10. ASSUME NEW e PROVE HoursOn(ps, e) = HoursOn(lines, e)
    <2>1. Hourly(lines) /\ Hourly(ps)
        BY <1>9, LinesAreHourly DEF LineInv
    <2>2. OnLines(ps, e) = OnLines(lines, e)
        BY <1>2, <1>8 DEF OnLines, Ids
    <2>3. \A j \in OnLines(lines, e) : HoursOf(ps, e)[j] = HoursOf(lines, e)[j]
        BY <1>8, <2>2 DEF HoursOf, OnLines
    <2> DEFINE J == OnLines(lines, e)
               f == HoursOf(lines, e)
               g == HoursOf(ps, e)
    <2>4. IsFiniteSet(J) /\ HoursOn(lines, e) = SumFunctionOnSet(f, J)
        BY <2>1, HoursOfIs
    <2>5. HoursOn(ps, e) = SumFunctionOnSet(g, J)
        BY <2>1, <2>2, HoursOfIs
    <2> HIDE DEF J, f, g
    <2>6. SumFunctionOnSet(g, J) = SumFunctionOnSet(f, J)
        <3>1. \A j \in J : g[j] = f[j]
            BY <2>3 DEF J, f, g
        <3>2. QED
            BY <2>4, <3>1, SumAgrees
    <2>7. QED
        BY <2>4, <2>5, <2>6
<1>11. QED
    BY <1>2, <1>8, <1>9, <1>10 DEF ps

\* An edit of a line, which rebuilds the draft if it assigns a service.
LEMMA UpdateLineStep ==
    ASSUME LineInv, NEW i \in DOMAIN lines, NEW patch \in Patches, UpdateLine(i, patch),
           edits' \in 0..MaxEdits
    PROVE  /\ LineInv' /\ HoursStay
           /\ overrides' # overrides =>
                /\ lines' = Rebuilt(Patched(i, patch), overrides', {})
                /\ Spreads(lines', overrides', StoredHours(Patched(i, patch)))
<1> DEFINE ps == Patched(i, patch)
           rebuilds == Has(patch, "service") /\ Ids(lines[i]) # {}
<1>1. /\ MayHaveAll(ps) /\ DOMAIN ps = DOMAIN lines
      /\ \A j \in DOMAIN lines : Agrees(ps[j], overrides) /\ RateIsAverage(ps[j], overrides)
      /\ \A e : HoursOn(ps, e) = HoursOn(lines, e)
    BY PatchedAll
<1>2. Ids(lines[i]) \subseteq Entries
    <2>1. MayHave(lines[i])
        BY DEF LineInv, MayHaveAll
    <2>2. lines[i].hours \in Snapshots
        BY <2>1 DEF MayHave, Line
    <2>3. QED
        BY <2>2, SnapshotIs DEF Ids
<1>3. retyped' \subseteq Entries /\ used' = used /\ cut' = cut
    BY <1>2 DEF UpdateLine, LineInv
<1>4. CASE rebuilds
    <2>1. patch.service \in Nat /\ patch.year \in Nat
        <3>1. /\ \A field \in DOMAIN patch : patch[field] \in Nat
              /\ "service" \in DOMAIN patch => "year" \in DOMAIN patch
            BY EditsAssumption
        <3>2. patch["service"] \in Nat /\ patch["year"] \in Nat
            BY <1>4, <3>1 DEF Has
        <3>3. QED
            BY <3>2
    <2> DEFINE new == [manual |-> TRUE, service |-> patch.service, year |-> patch.year]
               assigned == [e \in Entries |-> IF e \in Ids(lines[i]) THEN new ELSE overrides.assigned[e]]
    <2>2. overrides' = [overrides EXCEPT !.assigned = assigned]
        BY <1>4 DEF UpdateLine
    <2>3. new \in [manual : BOOLEAN, service : Nat, year : Nat]
        BY <2>1
    <2>4. overrides \in Overrides
        BY DEF LineInv
    <2> HIDE DEF new
    <2>5. assigned \in [Entries -> [manual : BOOLEAN, service : Nat, year : Nat]]
        BY <2>3, <2>4 DEF Overrides
    <2> HIDE DEF assigned
    <2>6. overrides' \in Overrides
        BY <2>2, <2>4, <2>5 DEF Overrides
    <2>7. lines' = Rebuilt(ps, overrides', {})
        BY <1>4 DEF UpdateLine, Patched
    <2> HIDE DEF ps
    <2>8. LineInv' /\ HoursStay /\ Spreads(lines', overrides', StoredHours(ps))
        BY <1>1, <1>3, <2>6, <2>7, RebuildStep
    <2>9. QED
        BY <2>7, <2>8 DEF ps
<1>5. CASE ~rebuilds
    <2>1. lines' = ps /\ overrides' = overrides
        BY <1>5 DEF UpdateLine, Patched
    <2> HIDE DEF ps
    <2>2. HoursStay
        BY <1>1, <2>1 DEF HoursStay
    <2>3. SnapshotKeepsHours'
        BY <1>3, <2>2 DEF LineInv, SnapshotKeepsHours, HoursStay
    <2>4. QED
        BY <1>1, <1>3, <2>1, <2>2, <2>3 DEF LineInv, UsedTyped
<1>6. QED
    BY <1>4, <1>5

\* A line is removed: the others keep their places and their hours.
LEMMA RemoveLineStep ==
    ASSUME LineInv, NEW i \in DOMAIN lines, RemoveLine(i), edits' \in 0..MaxEdits
    PROVE  LineInv' /\ \A e : HoursOn(lines', e) <= HoursOn(lines, e)
<1> DEFINE n == Len(lines)
           D == (1..n) \ {i}
           to == [k \in D |-> IF k < i THEN k ELSE k - 1]
           back(j) == IF j < i THEN j ELSE j + 1
<1>1. n \in Nat /\ DOMAIN lines = 1..n /\ i \in 1..n /\ \A j \in 1..n : MayHave(lines[j])
    BY DEF LineInv, MayHaveAll, IsSequence
<1>2. /\ Len(lines') = n - 1 /\ DOMAIN lines' = 1..(n - 1)
      /\ lines' = [j \in 1..(n - 1) |-> lines'[j]]
      /\ \A j \in 1..(n - 1) : lines'[j] = lines[back(j)]
    <2> DEFINE S == Line
               a == SubSeq(lines, 1, i - 1)
               m == i + 1
               b == SubSeq(lines, m, n)
    <2>1. lines' = a \o b
        BY DEF RemoveLine, RemoveAt
    <2>2. lines \in Seq(S)
        <3>1. lines = [j \in 1..n |-> lines[j]]
            BY DEF LineInv, MayHaveAll, IsSequence
        <3>2. QED
            BY <1>1, <3>1 DEF MayHave
    <2> HIDE DEF n
    <2>3. i \in Nat /\ i - 1 \in Nat /\ i - 1 <= n /\ m \in Nat /\ m = i + 1 /\ m >= 1
        BY <1>1
    <2>4. a \in Seq(S) /\ Len(a) = i - 1 /\ \A j \in 1..(i - 1) : a[j] = lines[j]
        BY <1>1, <2>2, <2>3 DEF n
    <2> HIDE DEF m
    <2>5. b \in Seq(S) /\ Len(b) = n - i /\ \A j \in 1..(n - i) : b[j] = lines[j + i]
        <3>1. \A j \in m..n : lines[j] \in S
            BY <1>1, <2>3 DEF MayHave
        <3>2. /\ b \in Seq(S) /\ Len(b) = (IF m <= n THEN n - m + 1 ELSE 0)
              /\ \A j \in 1..(n - m + 1) : b[j] = lines[m + j - 1]
            BY <1>1, <2>3, <3>1, SubSeqProperties
        <3> HIDE DEF b
        <3>3. n - m + 1 = n - i /\ (~(m <= n) => n - i = 0)
            BY <1>1, <2>3
        <3>4. \A j \in 1..(n - i) : m + j - 1 = j + i
            BY <1>1, <2>3
        <3>5. Len(b) = n - i
            BY <1>1, <2>3, <3>2, <3>3
        <3>6. \A j \in 1..(n - i) : b[j] = lines[j + i]
            BY <3>2, <3>3, <3>4
        <3>7. QED
            BY <3>2, <3>5, <3>6
    <2> HIDE DEF a, b, S
    <2>6. /\ a \o b \in Seq(S) /\ Len(a \o b) = (i - 1) + (n - i)
          /\ \A j \in 1..((i - 1) + (n - i)) :
                (a \o b)[j] = IF j <= i - 1 THEN a[j] ELSE b[j - (i - 1)]
        <3>1. /\ a \o b \in Seq(S) /\ Len(a \o b) = Len(a) + Len(b)
              /\ \A j \in 1..(Len(a) + Len(b)) :
                    (a \o b)[j] = IF j <= Len(a) THEN a[j] ELSE b[j - Len(a)]
            BY <2>4, <2>5, ConcatProperties
        <3>2. Len(a) = i - 1 /\ Len(b) = n - i
            BY <2>4, <2>5
        <3>3. QED
            BY <3>1, <3>2
    <2>7. (i - 1) + (n - i) = n - 1
        BY <1>1
    <2>8. ASSUME NEW j \in 1..(n - 1) PROVE (a \o b)[j] = lines[back(j)]
        <3>1. CASE j < i
            BY <1>1, <2>4, <2>6, <2>7, <3>1
        <3>2. CASE ~(j < i)
            <4> DEFINE k == j - (i - 1)
            <4>1. k \in 1..(n - i) /\ k + i = j + 1 /\ ~(j <= i - 1)
                BY <1>1, <3>2
            <4>2. (a \o b)[j] = b[k]
                BY <2>6, <2>7, <4>1
            <4> HIDE DEF k
            <4>3. b[k] = lines[k + i]
                BY <2>5, <4>1
            <4>4. QED
                BY <3>2, <4>1, <4>2, <4>3
        <3>3. QED
            BY <3>1, <3>2
    <2>9. Len(a \o b) = n - 1 /\ DOMAIN (a \o b) = 1..(n - 1)
        BY <1>1, <2>6, <2>7
    <2>10. a \o b = [j \in 1..(n - 1) |-> (a \o b)[j]]
        <3>1. a \o b \in [1..Len(a \o b) -> S]
            BY <2>6, LenProperties
        <3>2. QED
            BY <2>9, <3>1
    <2>11. QED
        BY <2>1, <2>8, <2>9, <2>10 DEF n
<1> HIDE DEF n
<1>3. \A j \in 1..(n - 1) : back(j) \in D /\ to[back(j)] = j
    BY <1>1
<1>4. \A k \in D : to[k] \in 1..(n - 1) /\ back(to[k]) = k
    BY <1>1
<1>5. /\ MayHaveAll(lines')
      /\ \A j \in DOMAIN lines' : Agrees(lines'[j], overrides) /\ RateIsAverage(lines'[j], overrides)
    <2>1. n - 1 \in Nat
        BY <1>1
    <2>2. \A j \in 1..(n - 1) : back(j) \in DOMAIN lines
        BY <1>1, <1>3
    <2> HIDE DEF back
    <2>3. QED
        BY <1>1, <1>2, <2>1, <2>2 DEF MayHaveAll, IsSequence, LineInv
<1>6. Hourly(lines) /\ Hourly(lines')
    BY <1>5, LinesAreHourly DEF LineInv
<1>7. ASSUME NEW e
      PROVE  HoursOn(lines', e) = SumFunctionOnSet(HoursOf(lines, e), OnLines(lines, e) \cap D)
    <2> DEFINE ms == lines'
    <2>1. D \in SUBSET DOMAIN lines
        BY <1>1
    <2>2. \A k \in D : to[k] \in DOMAIN ms /\ ms[to[k]].hours = lines[k].hours
        <3>1. \A k \in D : to[k] \in 1..(n - 1) /\ ms[to[k]] = lines[back(to[k])] /\ back(to[k]) = k
            BY <1>2, <1>4
        <3> HIDE DEF D, to, back, ms
        <3>2. QED
            BY <1>2, <3>1 DEF ms
    <2>3. \A j, k \in D : to[j] = to[k] => j = k
        BY <1>4
    <2>4. \A j \in DOMAIN ms : \E k \in D : to[k] = j
        BY <1>2, <1>3
    <2>5. Hourly(ms)
        BY <1>6
    <2> HIDE DEF D, to, ms
    <2>6. Moved(lines, D, to, ms)
        BY <1>6, <2>1, <2>2, <2>3, <2>4, <2>5 DEF Moved
    <2>7. QED
        BY <2>6, HoursMove DEF ms
<1>8. ASSUME NEW e
      PROVE  /\ e \in Ids(lines[i]) => HoursOn(lines', e) < HoursOn(lines, e)
             /\ e \notin Ids(lines[i]) => HoursOn(lines', e) = HoursOn(lines, e)
    <2> DEFINE f == HoursOf(lines, e)
               J == OnLines(lines, e)
               K == J \cap D
    <2>1. /\ IsFiniteSet(J) /\ \A k \in J : f[k] \in Nat \ {0}
          /\ HoursOn(lines, e) = SumFunctionOnSet(f, J)
        BY <1>6, HoursOfIs
    <2>2. HoursOn(lines', e) = SumFunctionOnSet(f, K)
        BY <1>7
    <2>3. HoursOn(lines', e) \in Nat
        BY <1>6, HoursOfIs
    <2>4. CASE e \in Ids(lines[i])
        <3>1. i \in J /\ K = J \ {i}
            BY <1>1, <2>4 DEF OnLines
        <3> HIDE DEF f, J, K
        <3>2. SumFunctionOnSet(f, J) = f[i] + SumFunctionOnSet(f, J \ {i})
            BY <2>1, <3>1, SumTakesOut
        <3>3. f[i] \in Nat \ {0}
            BY <2>1, <3>1
        <3>4. HoursOn(lines, e) = f[i] + HoursOn(lines', e)
            BY <2>1, <2>2, <3>1, <3>2
        <3>5. QED
            BY <2>3, <2>4, <3>3, <3>4
    <2>5. CASE e \notin Ids(lines[i])
        <3>1. K = J
            BY <1>1, <2>5 DEF OnLines
        <3>2. QED
            BY <2>1, <2>2, <2>5, <3>1
    <2>6. QED
        BY <2>4, <2>5
<1>9. \A e : HoursOn(lines, e) \in Nat /\ HoursOn(lines', e) \in Nat
    BY <1>6, HoursOfIs
<1>10. \A e : HoursOn(lines', e) <= HoursOn(lines, e)
    BY <1>8, <1>9
<1>11. /\ cut' = cut \cup Ids(lines[i]) /\ UNCHANGED <<overrides, used, retyped>>
       /\ Ids(lines[i]) \subseteq Entries
    <2>1. lines[i].hours \in Snapshots
        BY <1>1, <1>6 DEF Hourly
    <2>2. QED
        BY <2>1, SnapshotIs DEF RemoveLine, Ids
<1>12. SnapshotKeepsHours'
    <2>1. ASSUME NEW e \in Entries
          PROVE  IF e \in cut' THEN HoursOn(lines', e) < Imported[e].hours
                 ELSE HoursOn(lines', e) = Imported[e].hours
        <3>1. IF e \in cut THEN HoursOn(lines, e) < Imported[e].hours
              ELSE HoursOn(lines, e) = Imported[e].hours
            BY DEF LineInv, SnapshotKeepsHours
        <3>2. Imported[e].hours \in Nat
            BY EntriesAre DEF TimeEntry
        <3>3. QED
            BY <1>8, <1>9, <1>11, <3>1, <3>2
    <2>2. QED
        BY <2>1 DEF SnapshotKeepsHours
<1>13. QED
    BY <1>5, <1>10, <1>11, <1>12 DEF LineInv, UsedTyped

\* The lines an editor adds have no entries.
Added == {l \in Line : MayHave(l) /\ l.source = "manual"}

\* A line an editor adds is a line without entries.
LEMMA ManualPartIs ==
    ASSUME NEW m \in ManualLines, NEW key \in Keys \cup {NoKey}, NEW quantity \in Nat
    PROVE  ManualPart(m, key, quantity) \in Added
<1> DEFINE none == [e \in {} |-> 0]
           l == [source |-> "manual", task |-> 0, hours |-> none, billable |-> TRUE, key |-> key,
                 service |-> m.service, year |-> m.year, quantity |-> quantity, unit |-> m.unit,
                 rateSource |-> "line"]
<1>1. none \in Snapshots /\ DOMAIN none = {}
    <2>1. none \in [{} -> Nat \ {0}] /\ {} \in SUBSET Entries
        OBVIOUS
    <2>2. QED
        BY <2>1 DEF Snapshots
<1>2. m.service \in Nat /\ m.year \in Nat /\ m.unit \in Nat
    BY EditsAssumption
<1>3. ManualPart(m, key, quantity) = l
    BY DEF ManualPart
<1> HIDE DEF none
<1>4. l \in Line /\ l.hours = none /\ l.source = "manual" /\ l.rateSource = "line"
    BY <1>1, <1>2 DEF Line
<1>5. l.billable
    OBVIOUS
<1> HIDE DEF l
<1>6. MayHave(l)
    BY <1>1, <1>4, <1>5 DEF MayHave, Ids
<1>7. QED
    BY <1>3, <1>4, <1>6 DEF Added

\* One or two lines, or none, are put before the others.
LEMMA AddedLines ==
    ASSUME LineInv, NEW m \in ManualLines, AddManualLine(m)
    PROVE  \E p \in Seq(Added) : lines' = p \o lines
<1> DEFINE key == <<m.service, m.year>>
           q == m.quantity
           zero == 0
           covered == IF key \in Keys THEN Min({q, Left(key, zero)}) ELSE 0
           of(k, quantity) == IF quantity > 0 THEN <<ManualPart(m, k, quantity)>> ELSE <<>>
           p == IF key \in Keys THEN of(key, covered) \o of(NoKey, q - covered)
                ELSE <<ManualPart(m, NoKey, q)>>
<1>1. lines' = p \o lines
    BY DEF AddManualLine
<1>2. q \in Nat
    BY EditsAssumption
<1>3. key \in Keys => covered \in Nat /\ q - covered \in Nat
    <2> SUFFICES ASSUME key \in Keys PROVE covered \in Nat /\ q - covered \in Nat
        OBVIOUS
    <2> DEFINE left == Left(key, zero)
    <2>1. left \in Nat
        <3>1. zero \in Nat
            OBVIOUS
        <3> HIDE DEF zero, key
        <3>2. QED
            BY <3>1, LeftType DEF LineInv
    <2>2. covered = Min({q, left})
        OBVIOUS
    <2> HIDE DEF left, covered, q
    <2>3. Min({q, left}) \in Nat /\ Min({q, left}) = IF q <= left THEN q ELSE left
        BY <1>2, <2>1, SmallerIs
    <2>4. QED
        BY <1>2, <2>1, <2>2, <2>3
<1>4. ASSUME NEW k \in Keys \cup {NoKey}, NEW quantity \in Nat
      PROVE  <<ManualPart(m, k, quantity)>> \in Seq(Added) /\ of(k, quantity) \in Seq(Added)
    <2> DEFINE l == ManualPart(m, k, quantity)
    <2>1. l \in Added
        BY ManualPartIs
    <2> HIDE DEF l
    <2>2. <<l>> \in Seq(Added) /\ <<>> \in Seq(Added)
        BY <2>1
    <2>3. QED
        BY <2>2 DEF l
<1>5. p \in Seq(Added)
    <2>1. CASE key \in Keys
        <3> DEFINE a == of(key, covered)
                   rest == q - covered
                   b == of(NoKey, rest)
        <3>1. a \in Seq(Added)
            <4> HIDE DEF key, covered
            <4>1. QED
                BY <1>3, <1>4, <2>1
        <3>2. b \in Seq(Added)
            <4>1. rest \in Nat
                BY <1>3, <2>1
            <4> HIDE DEF rest
            <4>2. QED
                BY <1>4, <4>1
        <3>3. p = a \o b
            BY <2>1
        <3> HIDE DEF a, b, p
        <3>4. QED
            BY <3>1, <3>2, <3>3, ConcatProperties
    <2>2. CASE key \notin Keys
        BY <1>2, <1>4, <2>2
    <2>3. QED
        BY <2>1, <2>2
<1>6. QED
    BY <1>1, <1>5

\* A line is added: the others keep their order and their hours.
LEMMA AddManualLineStep ==
    ASSUME LineInv, NEW m \in ManualLines, AddManualLine(m), edits' \in 0..MaxEdits
    PROVE  LineInv' /\ HoursStay
<1>1. PICK p \in Seq(Added) : lines' = p \o lines
    BY AddedLines
<1> DEFINE k == Len(p)
           n == Len(lines)
           ms == lines'
           D == DOMAIN lines
           to == [j \in D |-> k + j]
<1>2. n \in Nat /\ DOMAIN lines = 1..n /\ \A j \in 1..n : MayHave(lines[j])
    BY DEF LineInv, MayHaveAll, IsSequence
<1>3. k \in Nat /\ \A j \in 1..k : p[j] \in Added
    BY LenProperties, ElementOfSeq
<1>4. /\ IsSequence(ms) /\ Len(ms) = k + n
      /\ \A j \in 1..(k + n) : ms[j] = IF j <= k THEN p[j] ELSE lines[j - k]
    <2> DEFINE S == Line
    <2>1. lines \in Seq(S)
        <3>1. lines = [j \in 1..n |-> lines[j]]
            BY DEF LineInv, MayHaveAll, IsSequence
        <3>2. QED
            BY <1>2, <3>1 DEF MayHave
    <2>2. p \in Seq(S)
        BY <1>3 DEF Added
    <2> HIDE DEF S
    <2>3. /\ p \o lines \in Seq(S) /\ Len(p \o lines) = k + n
          /\ \A j \in 1..(k + n) : (p \o lines)[j] = IF j <= k THEN p[j] ELSE lines[j - k]
        BY <2>1, <2>2, ConcatProperties
    <2>4. p \o lines \in [1..Len(p \o lines) -> S] /\ Len(p \o lines) \in Nat
        BY <2>3, LenProperties
    <2>5. QED
        BY <1>1, <2>3, <2>4 DEF IsSequence
<1> HIDE DEF k, n, ms
<1>5. ASSUME NEW j \in 1..(k + n)
      PROVE  /\ MayHave(ms[j]) /\ Agrees(ms[j], overrides) /\ RateIsAverage(ms[j], overrides)
             /\ Ids(ms[j]) # {} => j - k \in 1..n /\ j = k + (j - k)
    <2>1. CASE j <= k
        <3>1. ms[j] = p[j] /\ p[j] \in Added
            BY <1>2, <1>3, <1>4, <2>1
        <3>2. MayHave(ms[j]) /\ Ids(ms[j]) = {} /\ ms[j].rateSource = "line"
            BY <3>1 DEF Added, MayHave
        <3>3. QED
            BY <3>2 DEF Agrees, RateIsAverage
    <2>2. CASE ~(j <= k)
        <3> DEFINE i == j - k
        <3>1. i \in 1..n /\ ms[j] = lines[i] /\ j = k + i
            BY <1>2, <1>3, <1>4, <2>2
        <3> HIDE DEF i
        <3>2. Agrees(lines[i], overrides) /\ RateIsAverage(lines[i], overrides) /\ MayHave(lines[i])
            BY <1>2, <3>1 DEF LineInv
        <3>3. QED
            BY <3>1, <3>2 DEF i
    <2>3. QED
        BY <2>1, <2>2
<1>6. DOMAIN ms = 1..(k + n)
    BY <1>4 DEF IsSequence
<1>7. MayHaveAll(ms)
    BY <1>4, <1>5, <1>6 DEF MayHaveAll
<1>8. Moved(lines, D, to, ms)
    <2>1. Hourly(lines) /\ Hourly(ms)
        BY <1>7, LinesAreHourly DEF LineInv
    <2>2. \A j \in 1..n : k + j \in 1..(k + n) /\ ~(k + j <= k) /\ (k + j) - k = j
        BY <1>2, <1>3
    <2>3. \A j \in 1..n : ms[k + j] = lines[j]
        BY <1>4, <2>2
    <2>4. \A j \in D : to[j] = k + j /\ to[j] \in DOMAIN ms /\ ms[to[j]].hours = lines[j].hours
        BY <1>2, <1>6, <2>2, <2>3
    <2>5. \A i, j \in D : to[i] = to[j] => i = j
        BY <1>2, <1>3
    <2>6. ASSUME NEW j \in DOMAIN ms, Ids(ms[j]) # {} PROVE \E i \in D : to[i] = j
        <3> DEFINE i == j - k
        <3>1. i \in D /\ j = k + i
            BY <1>2, <1>5, <1>6, <2>6
        <3> HIDE DEF i
        <3>2. to[i] = j
            BY <3>1
        <3>3. QED
            BY <3>1, <3>2
    <2> HIDE DEF to
    <2>7. QED
        BY <2>1, <2>4, <2>5, <2>6 DEF Moved
<1>9. ASSUME NEW e PROVE HoursOn(ms, e) = HoursOn(lines, e)
    <2> HIDE DEF to, D
    <2>1. HoursOn(ms, e) = SumFunctionOnSet(HoursOf(lines, e), OnLines(lines, e) \cap D)
        BY <1>8, HoursMove
    <2>2. OnLines(lines, e) \cap D = OnLines(lines, e)
        BY DEF OnLines, D
    <2>3. Hourly(lines)
        BY <1>8 DEF Moved
    <2>4. QED
        BY <2>1, <2>2, <2>3, HoursOfIs
<1>10. HoursStay
    BY <1>9 DEF HoursStay, ms
<1>11. UNCHANGED <<overrides, used, cut, retyped>>
    BY DEF AddManualLine
<1>12. SnapshotKeepsHours'
    BY <1>10, <1>11 DEF LineInv, SnapshotKeepsHours, HoursStay
<1>13. QED
    BY <1>5, <1>6, <1>7, <1>10, <1>11, <1>12 DEF LineInv, UsedTyped, ms

\* The books change: the lines do not.
LEMMA UsageChangesStep ==
    ASSUME LineInv, NEW key \in Keys, NEW hours \in 0..Allowance[key], UsageChanges(key, hours)
    PROVE  LineInv' /\ HoursStay
<1>1. hours \in Nat
    BY KeysAre
<1>2. used' \in [Keys -> Nat] /\ UNCHANGED <<lines, overrides, cut, retyped, edits>>
    BY <1>1 DEF UsageChanges, LineInv, UsedTyped
<1>3. SnapshotKeepsHours' /\ HoursStay
    BY <1>2 DEF LineInv, SnapshotKeepsHours, HoursStay
<1>4. QED
    BY <1>2, <1>3 DEF LineInv, UsedTyped, MayHaveAll

\* Every line's share of an allowance is what the entries draw in their order.
InOrderNow ==
    \A key \in Keys, n \in Entries :
        CoveredHours(lines', key, n) = Min({Demand(overrides', lines', key, n), Left(key, 0)})

\* Rebuilt lines apply the allowances in order.
LEMMA SpreadGoesInOrder ==
    ASSUME LineInv, NEW ls, MayHaveAll(ls), overrides' \in Overrides,
           Spreads(lines', overrides', StoredHours(ls))
    PROVE  InOrderNow
<1>1. UsedTyped /\ StoredHours(ls) \in Snapshots
    BY LinesAreHourly, StoredIs DEF LineInv
<1>2. QED
    BY <1>1, SpreadInOrder DEF InOrderNow

\* What every step does.
LEMMA LinesStep ==
    LineInv /\ [Next]_vars =>
        /\ LineInv'
        /\ \A e : HoursOn(lines', e) <= HoursOn(lines, e)
        /\ overrides' # overrides => InOrderNow
<1> SUFFICES ASSUME LineInv, [Next]_vars
             PROVE  /\ LineInv'
                    /\ \A e : HoursOn(lines', e) <= HoursOn(lines, e)
                    /\ overrides' # overrides => InOrderNow
    OBVIOUS
<1>1. HoursStay => \A e : HoursOn(lines', e) <= HoursOn(lines, e)
    <2>1. \A e : HoursOn(lines, e) \in Nat
        BY LinesAreHourly, HoursOfIs DEF LineInv
    <2>2. QED
        BY <2>1 DEF HoursStay
<1>2. LineInv' => overrides' \in Overrides
    BY DEF LineInv
<1>3. MayHaveAll(lines)
    BY DEF LineInv
<1>4. CASE Edit
    <2>1. edits' \in 0..MaxEdits
        BY <1>4, EditsAssumption DEF Edit, LineInv
    <2>2. CASE \E es \in SUBSET Entries, value \in BOOLEAN : SetBillable(es, value)
        BY <1>1, <1>2, <1>3, <2>1, <2>2, SetBillableStep, SpreadGoesInOrder
    <2>3. CASE \E es \in SUBSET Entries, value \in Rates : SetRate(es, value)
        BY <1>1, <1>2, <1>3, <2>1, <2>3, SetRateStep, SpreadGoesInOrder
    <2>4. CASE \E i \in DOMAIN lines, patch \in Patches : UpdateLine(i, patch)
        <3>1. PICK i \in DOMAIN lines, patch \in Patches : UpdateLine(i, patch)
            BY <2>4
        <3>2. /\ LineInv' /\ HoursStay
              /\ overrides' # overrides =>
                   Spreads(lines', overrides', StoredHours(Patched(i, patch)))
            BY <2>1, <3>1, UpdateLineStep
        <3>3. MayHaveAll(Patched(i, patch))
            BY PatchedAll
        <3>4. QED
            BY <1>1, <1>2, <3>2, <3>3, SpreadGoesInOrder
    <2>5. CASE \E i \in DOMAIN lines : RemoveLine(i)
        BY <2>1, <2>5, RemoveLineStep DEF RemoveLine
    <2>6. CASE \E m \in ManualLines : AddManualLine(m)
        BY <1>1, <2>1, <2>6, AddManualLineStep DEF AddManualLine
    <2>7. QED
        BY <1>4, <2>2, <2>3, <2>4, <2>5, <2>6 DEF Edit
<1>5. CASE \E key \in Keys : \E hours \in 0..Allowance[key] : UsageChanges(key, hours)
    BY <1>1, <1>5, UsageChangesStep DEF UsageChanges
<1>6. CASE UNCHANGED vars
    <2>1. UNCHANGED <<lines, overrides, used, cut, retyped, edits>>
        BY <1>6 DEF vars
    <2>2. SnapshotKeepsHours' /\ HoursStay
        BY <2>1 DEF LineInv, SnapshotKeepsHours, HoursStay
    <2>3. QED
        BY <1>1, <2>1, <2>2 DEF LineInv, UsedTyped
<1>7. QED
    BY <1>4, <1>5, <1>6 DEF Next

-----------------------------------------------------------------------------
(* What was typed on a line. *)

\* Of the stored lines only the i-th has entries of the rebuilt line.
OnlyShares(stored, line, i) ==
    \A h \in DOMAIN stored : Ids(stored[h]) \cap Ids(line) # {} <=> h = i

\* It is the one whose settings the rebuilt line takes.
LEMMA SavedForIs ==
    ASSUME NEW stored, IsSequence(stored), NEW line,
           Ids(line) # {}, IsFiniteSet(Ids(line)),
           NEW i \in DOMAIN stored, OnlyShares(stored, line, i)
    PROVE  /\ SavedFor(line, stored) = {i}
           /\ SameSettingsKey(line, stored[i]) => Cardinality(SameKeyIn(stored, line)) = 1
<1> DEFINE exact == SameKeyIn(stored, line)
           common(h) == Ids(stored[h]) \cap Ids(line)
           shared(h) == Cardinality(common(h))
<1>1. exact \subseteq {i}
    BY DEF SameKeyIn, SameSettingsKey, SameIds, OnlyShares
<1>2. Cardinality({}) = 0 /\ Cardinality({i}) = 1
    BY FS_EmptySet, FS_Singleton
<1>3. Cardinality(exact) = 1 => exact = {i}
    <2>1. exact = {} \/ exact = {i}
        BY <1>1
    <2>2. QED
        BY <1>2, <2>1
<1>4. ASSUME NEW h \in DOMAIN stored
      PROVE  /\ shared(h) \in Nat
             /\ h # i => shared(h) = 0
             /\ h = i => shared(h) > 0
    <2> DEFINE C == common(h)
    <2>1. IsFiniteSet(C) /\ (C # {} <=> h = i)
        BY FS_Subset DEF OnlyShares
    <2> HIDE DEF C
    <2>2. Cardinality(C) \in Nat /\ (C = {} <=> Cardinality(C) = 0)
        BY <2>1, FS_CardinalityType, FS_EmptySet
    <2>3. shared(h) = Cardinality(C)
        BY DEF C
    <2>4. QED
        BY <2>1, <2>2, <2>3
<1> DEFINE most == {h \in DOMAIN stored :
                        /\ shared(h) > 0
                        /\ \A j \in DOMAIN stored :
                             shared(j) < shared(h) \/ (shared(j) = shared(h) /\ h <= j)}
<1>6. SavedFor(line, stored) = IF Cardinality(exact) = 1 THEN exact ELSE most
    BY DEF SavedFor
<1> HIDE DEF shared, exact
<1>7. most = {i}
    <2>1. i \in most
        <3>1. i <= i /\ shared(i) > 0 /\ shared(i) \in Nat
            BY <1>4 DEF IsSequence
        <3>2. \A j \in DOMAIN stored : j = i \/ shared(j) = 0
            BY <1>4
        <3>3. QED
            BY <3>1, <3>2
    <2>2. \A h \in most : h = i
        BY <1>4
    <2>3. QED
        BY <2>1, <2>2
<1>8. SameSettingsKey(line, stored[i]) => exact = {i}
    BY <1>1 DEF exact, SameKeyIn
<1>9. QED
    BY <1>2, <1>3, <1>6, <1>7, <1>8 DEF exact

\* A rebuilt line takes over what was typed on the line its entries were on.
LEMMA SettingsTaken ==
    ASSUME UsedTyped, NEW o \in Overrides, NEW hours \in Snapshots, NEW stored, IsSequence(stored),
           NEW rebuilt, rebuilt = Aggregated(o, hours), NEW m \in DOMAIN rebuilt,
           NEW i \in DOMAIN stored, stored[i] \in Line, OnlyShares(stored, rebuilt[m], i)
    PROVE  LET w == WithSettings(rebuilt[m], stored, rebuilt, {}) IN
           /\ w.rateSource = stored[i].rateSource
           /\ stored[i].rateSource = "line" => w.unit = stored[i].unit
           /\ SameSettingsKey(stored[i], w) => w.quantity = stored[i].quantity
<1> DEFINE line == rebuilt[m]
           saved == stored[i]
           w == WithSettings(line, stored, rebuilt, {})
           keeps == KeepsQuantity(line, stored, rebuilt)
           entries == RateFromEntries(line, saved, {})
<1>1. Spreads(rebuilt, o, hours) /\ AsAggregated(line, o)
    BY AggregatedIs
<1>2. line \in Line /\ Ids(line) # {} /\ line.rateSource = "entries" /\ IsFiniteSet(Ids(line))
    <2>1. line \in Line /\ Ids(line) # {} /\ line.rateSource = "entries"
        BY <1>1 DEF AsAggregated
    <2> HIDE DEF line
    <2>2. line.hours \in Snapshots
        BY <2>1 DEF Line
    <2>3. QED
        BY <2>1, <2>2, SnapshotIs DEF Ids
<1> HIDE DEF line
<1>3. /\ SavedFor(line, stored) = {i}
      /\ SameSettingsKey(line, saved) => Cardinality(SameKeyIn(stored, line)) = 1
    BY <1>2, SavedForIs DEF line
<1>4. (CHOOSE h \in SavedFor(line, stored) : TRUE) = i
    BY <1>3
<1>5. w = [line EXCEPT
             !.quantity   = IF keeps THEN saved.quantity ELSE @,
             !.unit       = IF entries THEN @ ELSE saved.unit,
             !.rateSource = IF entries THEN "entries" ELSE saved.rateSource]
    BY <1>3, <1>4 DEF WithSettings
<1>6. entries <=> saved.rateSource = "entries"
    BY DEF RateFromEntries
<1>7. saved.rateSource \in {"entries", "line"}
    BY DEF Line
<1> HIDE DEF w, saved, keeps, entries
<1>8. /\ w.quantity = IF keeps THEN saved.quantity ELSE line.quantity
      /\ w.unit = IF entries THEN line.unit ELSE saved.unit
      /\ w.rateSource = IF entries THEN "entries" ELSE saved.rateSource
      /\ w.hours = line.hours /\ w.key = line.key
    BY <1>2, <1>5 DEF Line
<1>9. w.billable = line.billable
    BY <1>2, <1>5, Zenon DEF Line
<1>10. ASSUME SameSettingsKey(saved, w) PROVE keeps
    <2>1. SameSettingsKey(line, saved)
        BY <1>8, <1>9, <1>10, Zenon DEF SameSettingsKey, SameIds, Ids
    <2>2. Cardinality(SameKeyIn(stored, line)) = 1
        BY <1>3, <2>1
    <2>3. SameKeyIn(rebuilt, line) = {m}
        <3>1. m \in SameKeyIn(rebuilt, line)
            BY DEF SameKeyIn, SameSettingsKey, SameIds, line
        <3>2. ASSUME NEW h \in SameKeyIn(rebuilt, line) PROVE h = m
            <4>1. h \in DOMAIN rebuilt /\ SameSettingsKey(line, rebuilt[h])
                BY DEF SameKeyIn
            <4>2. PICK e : e \in Ids(line)
                BY <1>2
            <4>3. e \in Ids(rebuilt[h]) /\ e \in Ids(rebuilt[m])
                BY <4>1, <4>2 DEF SameSettingsKey, SameIds, line
            <4>4. (rebuilt[m].key = NoKey) <=> (rebuilt[h].key = NoKey)
                BY <4>1 DEF SameSettingsKey, line
            <4>5. QED
                BY <1>1, <4>1, <4>3, <4>4, SpreadsApart
        <3>3. QED
            BY <3>1, <3>2
    <2>4. Cardinality({m}) = 1
        BY FS_Singleton
    <2>5. QED
        BY <2>2, <2>3, <2>4 DEF KeepsQuantity, keeps
<1>11. QED
    BY <1>6, <1>7, <1>8, <1>10 DEF w, line, saved

\* A line of entries in a rebuilt draft is a settled one.
LEMMA NewIs ==
    ASSUME UsedTyped, NEW o \in Overrides, NEW ls, MayHaveAll(ls), NEW rerated,
           NEW r, r = Rebuilt(ls, o, rerated), NEW j \in DOMAIN FromTeamwork(r)
    PROVE  LET rebuilt == Aggregated(o, StoredHours(ls)) IN
           \E m \in DOMAIN rebuilt :
              FromTeamwork(r)[j] = WithSettings(rebuilt[m], FromTeamwork(ls), rebuilt, rerated)
<1> DEFINE A == Aggregated(o, StoredHours(ls))
           W == Settled(ls, o, rerated)
           k == Len(Manual(ls))
           n == Len(A)
<1>1. /\ IsSequence(r) /\ k \in Nat /\ n \in Nat /\ DOMAIN A = 1..n /\ Len(r) = k + n
      /\ \A i \in 1..k : r[i].source = "manual"
      /\ \A i \in 1..n : r[k + i] = W[i] /\ W[i] = WithSettings(A[i], FromTeamwork(ls), A, rerated)
    BY RebuiltIs DEF IsSequence
<1>2. PICK p \in At("teamwork", r) : FromTeamwork(r)[j] = r[p]
    BY <1>1, FromIs DEF FromTeamwork
<1> HIDE DEF A, W, k, n
<1>3. p \in 1..(k + n) /\ r[p].source = "teamwork"
    BY <1>1 DEF At, IsSequence
<1>4. ~(p \in 1..k)
    BY <1>1, <1>3
<1> DEFINE m == p - k
<1>5. m \in 1..n /\ p = k + m
    BY <1>1, <1>3, <1>4
<1> HIDE DEF m
<1>6. FromTeamwork(r)[j] = WithSettings(A[m], FromTeamwork(ls), A, rerated) /\ m \in DOMAIN A
    BY <1>1, <1>2, <1>5
<1>7. QED
    BY <1>6 DEF A

\* What TypedSettingsSurvive says of the lines before and after a rebuild.
Survives(old, new) ==
    \A i \in DOMAIN old, j \in DOMAIN new :
       (\A h \in DOMAIN old : (Ids(old[h]) \cap Ids(new[j]) # {}) = (h = i)) =>
          /\ new[j].rateSource = old[i].rateSource
          /\ old[i].rateSource = "line" => new[j].unit = old[i].unit
          /\ SameSettingsKey(old[i], new[j]) /\ old[i].quantity # SumFunction(old[i].hours)
               => new[j].quantity = old[i].quantity

\* The settings of a line, but for its service.
SameLine(a, b) ==
    /\ a.hours = b.hours /\ a.billable = b.billable /\ a.key = b.key
    /\ a.rateSource = b.rateSource /\ a.unit = b.unit /\ a.quantity = b.quantity

\* A rebuild loses nothing that was typed.
LEMMA RebuildSurvives ==
    ASSUME UsedTyped, NEW o \in Overrides, NEW ls, MayHaveAll(ls),
           NEW r, r = Rebuilt(ls, o, {}), NEW old, DOMAIN old = DOMAIN FromTeamwork(ls),
           \A i \in DOMAIN old : SameLine(old[i], FromTeamwork(ls)[i])
    PROVE  Survives(old, FromTeamwork(r))
<1> DEFINE stored == FromTeamwork(ls)
           new == FromTeamwork(r)
           A == Aggregated(o, StoredHours(ls))
<1> SUFFICES ASSUME NEW i \in DOMAIN old, NEW j \in DOMAIN new,
                    \A h \in DOMAIN old : (Ids(old[h]) \cap Ids(new[j]) # {}) = (h = i)
             PROVE  /\ new[j].rateSource = old[i].rateSource
                    /\ old[i].rateSource = "line" => new[j].unit = old[i].unit
                    /\ SameSettingsKey(old[i], new[j]) => new[j].quantity = old[i].quantity
    BY DEF Survives
<1>1. StoredHours(ls) \in Snapshots
    BY LinesAreHourly, StoredIs
<1>2. IsSequence(ls)
    BY DEF MayHaveAll
<1>3. IsSequence(stored) /\ \A h \in DOMAIN stored : stored[h] \in Line
    BY <1>2, FromIs DEF FromTeamwork, At, MayHaveAll, MayHave
<1>4. PICK m \in DOMAIN A : new[j] = WithSettings(A[m], stored, A, {})
    BY NewIs
<1> DEFINE w == WithSettings(A[m], stored, A, {})
           s == stored[i]
<1>5. AsAggregated(A[m], o)
    BY <1>1, AggregatedIs
<1>6. Ids(w) = Ids(A[m])
    <2>1. A[m] \in Line
        BY <1>5 DEF AsAggregated
    <2>2. w.hours = A[m].hours
        BY <1>3, <2>1, WithSettingsIs
    <2>3. QED
        BY <2>2 DEF Ids
<1>7. OnlyShares(stored, A[m], i)
    <2>1. ASSUME NEW h \in DOMAIN stored
          PROVE  Ids(stored[h]) \cap Ids(A[m]) # {} <=> h = i
        <3>1. Ids(old[h]) = Ids(stored[h])
            BY <2>1 DEF SameLine, Ids
        <3>2. (Ids(old[h]) \cap Ids(new[j]) # {}) = (h = i)
            OBVIOUS
        <3>3. Ids(new[j]) = Ids(A[m])
            BY <1>4, <1>6
        <3> HIDE DEF new, stored, A, w
        <3>4. QED
            BY <3>1, <3>2, <3>3
    <2>2. QED
        BY <2>1 DEF OnlyShares
<1>8. i \in DOMAIN stored /\ s \in Line /\ SameLine(old[i], s)
    BY <1>3
<1>9. /\ w.rateSource = s.rateSource
      /\ s.rateSource = "line" => w.unit = s.unit
      /\ SameSettingsKey(s, w) => w.quantity = s.quantity
    <2> HIDE DEF stored, A
    <2>1. A = Aggregated(o, StoredHours(ls))
        BY DEF A
    <2>2. QED
        BY <1>1, <1>3, <1>7, <1>8, <2>1, SettingsTaken
<1>10. new[j] = w
    BY <1>4
<1> HIDE DEF w, s, new, stored, A
<1>11. SameSettingsKey(old[i], w) => SameSettingsKey(s, w)
    BY <1>8 DEF SameSettingsKey, SameIds, SameLine, Ids
<1>12. QED
    BY <1>8, <1>9, <1>10, <1>11 DEF SameLine

\* An edit that types nothing leaves the settings of every line.
LEMMA PatchedFrom ==
    ASSUME LineInv, NEW i \in DOMAIN lines, NEW patch \in Patches,
           ~Has(patch, "quantity"), ~Has(patch, "unit")
    PROVE  LET old == FromTeamwork(lines)
               stored == FromTeamwork(Patched(i, patch))
           IN DOMAIN old = DOMAIN stored /\ \A n \in DOMAIN old : SameLine(old[n], stored[n])
<1> DEFINE ps == Patched(i, patch)
           p == PatchedLine(lines[i], patch)
           at == At("teamwork", lines)
           places == Places("teamwork", lines)
<1>1. IsSequence(lines) /\ IsSequence(ps) /\ DOMAIN ps = DOMAIN lines /\ MayHave(lines[i])
    BY PatchedAll DEF LineInv, MayHaveAll
<1>2. /\ p.hours = lines[i].hours /\ p.source = lines[i].source
      /\ p.billable = lines[i].billable /\ p.key = lines[i].key
      /\ p.quantity = lines[i].quantity /\ p.unit = lines[i].unit
      /\ p.rateSource = lines[i].rateSource
    BY <1>1, PatchedIs
<1>3. ps[i] = p /\ \A j \in DOMAIN lines : j # i => ps[j] = lines[j]
    BY DEF Patched
<1> HIDE DEF p
<1>4. SameLine(lines[i], ps[i]) /\ ps[i].source = lines[i].source
    BY <1>2, <1>3 DEF SameLine
<1> HIDE DEF ps
<1>5. \A j \in DOMAIN lines : SameLine(lines[j], ps[j]) /\ ps[j].source = lines[j].source
    <2>1. \A j \in DOMAIN lines : SameLine(lines[j], lines[j])
        BY DEF SameLine
    <2>2. QED
        BY <1>3, <1>4, <2>1
<1>6. At("teamwork", ps) = at
    BY <1>1, <1>5 DEF At
<1>7. Places("teamwork", ps) = places
    BY <1>6 DEF Places
<1> HIDE DEF places
<1>8. /\ DOMAIN FromTeamwork(ps) = DOMAIN places /\ DOMAIN FromTeamwork(lines) = DOMAIN places
      /\ \A n \in DOMAIN places : /\ places[n] \in DOMAIN lines
                                  /\ FromTeamwork(ps)[n] = ps[places[n]]
                                  /\ FromTeamwork(lines)[n] = lines[places[n]]
    <2>1. /\ DOMAIN FromTeamwork(ps) = DOMAIN places
          /\ \A n \in DOMAIN places : FromTeamwork(ps)[n] = ps[places[n]]
        BY <1>1, <1>7, FromIs DEF FromTeamwork
    <2>2. /\ DOMAIN FromTeamwork(lines) = DOMAIN places
          /\ \A n \in DOMAIN places : /\ places[n] \in at
                                      /\ FromTeamwork(lines)[n] = lines[places[n]]
        BY <1>1, FromIs DEF FromTeamwork, places
    <2>3. QED
        BY <2>1, <2>2 DEF At
<1>9. QED
    BY <1>5, <1>8 DEF ps

\* The lines as they were.
LEMMA OldFrom ==
    ASSUME LineInv
    PROVE  \A n \in DOMAIN FromTeamwork(lines) :
              SameLine(FromTeamwork(lines)[n], FromTeamwork(lines)[n])
BY DEF SameLine

\* Only a switch of entries changes the states the overrides give them.
LEMMA BillableChanges ==
    ASSUME LineInv, [Next]_vars, overrides'.billable # overrides.billable
    PROVE  lines' = Rebuilt(lines, overrides', {})
<1>1. overrides \in Overrides
    BY DEF LineInv
<1>2. overrides' # overrides
    OBVIOUS
<1>3. Edit
    BY <1>2 DEF Next, vars, UsageChanges
<1>4. ASSUME NEW es \in SUBSET Entries, NEW value \in BOOLEAN, SetBillable(es, value)
      PROVE  lines' = Rebuilt(lines, overrides', {})
    BY <1>4 DEF SetBillable
<1>5. ASSUME NEW es \in SUBSET Entries, NEW value \in Rates, SetRate(es, value) PROVE FALSE
    BY <1>1, <1>5 DEF SetRate, Overrides
<1>6. ASSUME NEW i \in DOMAIN lines, NEW patch \in Patches, UpdateLine(i, patch) PROVE FALSE
    BY <1>1, <1>2, <1>6 DEF UpdateLine, Overrides
<1>7. ASSUME NEW i \in DOMAIN lines, RemoveLine(i) PROVE FALSE
    BY <1>2, <1>7 DEF RemoveLine
<1>8. ASSUME NEW m \in ManualLines, AddManualLine(m) PROVE FALSE
    BY <1>2, <1>8 DEF AddManualLine
<1>9. QED
    BY <1>3, <1>4, <1>5, <1>6, <1>7, <1>8 DEF Edit

\* Neither a switch of entries nor a new service loses what was typed.
LEMMA TypedStep ==
    LineInv /\ [Next]_vars /\ OnlyRebuilds =>
        Survives(FromTeamwork(lines), FromTeamwork(lines'))
<1> SUFFICES ASSUME LineInv, [Next]_vars, OnlyRebuilds
             PROVE  Survives(FromTeamwork(lines), FromTeamwork(lines'))
    OBVIOUS
<1>1. overrides' \in Overrides
    BY LinesStep DEF LineInv
<1>2. MayHaveAll(lines) /\ UsedTyped
    BY DEF LineInv
<1>3. CASE overrides'.billable # overrides.billable
    <2>1. lines' = Rebuilt(lines, overrides', {})
        BY <1>3, BillableChanges
    <2>2. QED
        BY <1>1, <1>2, <2>1, OldFrom, RebuildSurvives
<1>4. CASE /\ overrides'.assigned # overrides.assigned
           /\ \E i \in DOMAIN lines, patch \in Patches :
                ~Has(patch, "quantity") /\ ~Has(patch, "unit") /\ UpdateLine(i, patch)
    <2>1. PICK i \in DOMAIN lines, patch \in Patches :
                ~Has(patch, "quantity") /\ ~Has(patch, "unit") /\ UpdateLine(i, patch)
        BY <1>4
    <2> DEFINE ps == Patched(i, patch)
    <2>2. lines' = Rebuilt(ps, overrides', {})
        <3>1. overrides' # overrides
            BY <1>4
        <3>2. Has(patch, "service") /\ Ids(lines[i]) # {}
            BY <2>1, <3>1 DEF UpdateLine
        <3>3. QED
            BY <2>1, <3>2 DEF UpdateLine, Patched
    <2>3. MayHaveAll(ps)
        BY PatchedAll
    <2>4. /\ DOMAIN FromTeamwork(lines) = DOMAIN FromTeamwork(ps)
          /\ \A n \in DOMAIN FromTeamwork(lines) :
                SameLine(FromTeamwork(lines)[n], FromTeamwork(ps)[n])
        BY <2>1, PatchedFrom
    <2> HIDE DEF ps
    <2>5. QED
        BY <1>1, <1>2, <2>2, <2>3, <2>4, RebuildSurvives
<1>5. QED
    BY <1>3, <1>4 DEF OnlyRebuilds

-----------------------------------------------------------------------------
(* The theorems. *)

\* The invariant is inductive.
LEMMA LineInvAlways == Spec => []LineInv
<1>1. LineInv /\ [Next]_vars => LineInv'
    BY LinesStep
<1>2. QED
    BY <1>1, LineInvInit, PTL DEF Spec

\* Lines, overrides and usage keep their types (TypeOK): lines of entries have
\* entries, all in the state the overrides give them, and only billable lines
\* are covered.
THEOREM DraftLinesTyped == Spec => []TypeOK
BY LineInvAlways, LineInvImplies, PTL

\* Splitting, regrouping and rebuilding neither lose nor double an hour of an
\* entry (SnapshotKeepsHours).
THEOREM SnapshotsKeepHours == Spec => []SnapshotKeepsHours
BY LineInvAlways, LineInvImplies, PTL

\* The rate of a line that was not typed is the average its entries have now
\* (EntriesRateIsAverage).
THEOREM EntriesRatesAreAverages == Spec => []EntriesRateIsAverage
BY LineInvAlways, LineInvImplies, PTL

\* Hours of removed lines never come back (RemovedHoursStayRemoved).
THEOREM RemovedHoursAreGone == Spec => RemovedHoursStayRemoved
<1>1. LineInv /\ [Next]_vars => [\A e \in Entries : HoursOn(lines', e) <= HoursOn(lines, e)]_vars
    BY LinesStep
<1>2. QED
    BY <1>1, LineInvAlways, PTL DEF Spec, RemovedHoursStayRemoved

\* A rebuild applies every allowance in the order of the entries, to the last
\* hour of what the books leave and no further (AllowanceGoesInOrder).
THEOREM AllowancesGoInOrder == Spec => AllowanceGoesInOrder
<1>1. LineInv /\ [Next]_vars =>
        [overrides' # overrides =>
           \A key \in Keys, n \in Entries :
              CoveredHours(lines', key, n) =
                Min({Demand(overrides', lines', key, n), Left(key, 0)})]_vars
    BY LinesStep DEF InOrderNow
<1>2. QED
    BY <1>1, LineInvAlways, PTL DEF Spec, AllowanceGoesInOrder

\* What was typed on a line survives a rebuild (TypedSettingsSurvive).
THEOREM TypedSettingsStay == Spec => TypedSettingsSurvive
<1>1. LineInv /\ [Next]_vars =>
        [OnlyRebuilds =>
           LET old == FromTeamwork(lines)
               new == FromTeamwork(lines')
           IN \A i \in DOMAIN old, j \in DOMAIN new :
                (\A h \in DOMAIN old : (Ids(old[h]) \cap Ids(new[j]) # {}) = (h = i)) =>
                   /\ new[j].rateSource = old[i].rateSource
                   /\ old[i].rateSource = "line" => new[j].unit = old[i].unit
                   /\ SameSettingsKey(old[i], new[j]) /\ old[i].quantity # SumFunction(old[i].hours)
                        => new[j].quantity = old[i].quantity]_vars
    BY TypedStep DEF Survives
<1>2. QED
    BY <1>1, LineInvAlways, PTL DEF Spec, TypedSettingsSurvive

=============================================================================
