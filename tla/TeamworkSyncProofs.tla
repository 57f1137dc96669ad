------------------------- MODULE TeamworkSyncProofs -------------------------
(***************************************************************************)
(* What the synchronisation guarantees for any entries, months, requests,  *)
(* and any number of runs, changes and deaths.                             *)
(***************************************************************************)
EXTENDS TeamworkSync, SequenceTheorems, FiniteSetTheorems, WellFoundedInduction, TLAPS

RunRow == [status : {"running", "complete", "failed"}, end : 1..Today,
           throughout : SUBSET Entries, slipped : SUBSET Entries]

\* Some entries and what Teamwork or the rows say of them.
Answers == UNION {[some -> BOOLEAN] : some \in SUBSET Entries}

Store == [run : Nat, end : Int, entries : Answers] \cup {NoStore}

FetchRow == [pc : {"fetch"}, run : Nat, end : Int, from : Int, page : Nat \ {0},
             got : Answers, partial : BOOLEAN, quiet : BOOLEAN]

CallerRow ==
    [pc : {"idle"}]
    \cup FetchRow
    \cup [pc : {"stored"}, run : Nat, quiet : BOOLEAN]
    \cup [pc : {"read", "written"}, run : Nat, quiet : BOOLEAN, store : Store]
    \cup [pc : {"load", "restore", "restored"}, store : Store]

\* What TypeOK leaves open.
ShapeOK ==
    /\ caller \in [Callers -> CallerRow]
    /\ count \in [changes : Nat, crashes : Nat]
    /\ \A c \in Callers : Syncing(c) => caller[c].run \in DOMAIN runs

\* Entries of which a run promises that it misses none, ...
Watched(row) == row.throughout \ row.slipped

\* ... and those that are on the pages of the window that were read.
Seen(c) == {e \in Window(c) : Position(e, Window(c)) < Passed(c)}

\* A store has what its run was to cover, as far as the run rows say.
Good(s, rs) ==
    s # NoStore =>
        /\ s \in [run : Nat, end : Int, entries : Answers]
        /\ s.run \in DOMAIN rs /\ s.end = rs[s.run].end
        /\ \A e \in DOMAIN s.entries : Day[e] <= s.end
        /\ \A e \in Watched(rs[s.run]) : Day[e] <= s.end => e \in DOMAIN s.entries

StoresOK ==
    /\ Good(file, runs) /\ Good(tmp, runs) /\ Good(memory, runs)
    /\ \A c \in Callers : Holding(c) => Good(caller[c].store, runs)

\* A whole synchronisation has the entries of the windows and pages it has read.
FetchOK ==
    \A c \in Callers : caller[c].pc = "fetch" =>
        LET run == runs[caller[c].run]
        IN /\ run.end = caller[c].end
           /\ run.throughout \subseteq There(tw)
           /\ Whole(c) => \A e \in Watched(run) :
                Day[e] < caller[c].from \/ e \in Seen(c) => e \in DOMAIN caller[c].got

\* A completed run has left rows for the entries it covers.
RowsOK ==
    \A r \in DOMAIN runs : runs[r].status = "complete" =>
        \A e \in Watched(runs[r]) : Day[e] <= runs[r].end => rows[e] # Gone

SyncInv == TypeOK /\ ShapeOK /\ StoresOK /\ FetchOK /\ RowsOK

-----------------------------------------------------------------------------
(* The latest run and what is restored from the rows. *)

\* A finite set of runs has a last one.
LEMMA LastOne ==
    ASSUME NEW n \in Nat, NEW S \in SUBSET (0..n), S # {}
    PROVE  Max(S) \in S /\ \A r \in S : Max(S) >= r
<1> DEFINE T == {m \in 0..n : n - m \in S}
<1>1. T \subseteq Nat /\ T # {}
    <2>1. PICK r \in S : TRUE
        OBVIOUS
    <2>2. n - r \in 0..n /\ n - (n - r) = r
        OBVIOUS
    <2>3. n - r \in T
        BY <2>1, <2>2
    <2>4. T \subseteq Nat
        OBVIOUS
    <2>5. QED
        BY <2>3, <2>4
<1>2. PICK m \in T : \A k \in T : ~ (<<k, m>> \in OpToRel(<, Nat))
    BY <1>1, NatLessThanWellFounded, WFMin
<1>3. \A k \in T : ~ (k < m)
    BY <1>1, <1>2, Zenon DEF OpToRel
<1>4. n - m \in S
    OBVIOUS
<1>5. ASSUME NEW r \in S
      PROVE  n - m >= r
    <2>1. n - r \in 0..n /\ n - (n - r) = r
        OBVIOUS
    <2>2. n - r \in T
        BY <2>1
    <2>3. QED
        BY <1>1, <1>3, <2>2
<1>6. \E x \in S : \A y \in S : x >= y
    BY <1>4, <1>5
<1>7. QED
    BY <1>6 DEF Max

LEMMA RunsTyped ==
    ASSUME TypeOK
    PROVE  /\ runs \in Seq(RunRow)
           /\ \A r \in DOMAIN runs :
                /\ runs[r] \in RunRow /\ runs[r].end \in Int
                /\ runs[r].throughout \subseteq Entries
                /\ Watched(runs[r]) \subseteq Entries
<1>1. runs \in Seq(RunRow)
    BY DEF TypeOK, RunRow
<1>2. ASSUME NEW r \in DOMAIN runs
      PROVE  runs[r] \in RunRow
    BY <1>1, LenProperties
<1>3. QED
    BY <1>1, <1>2 DEF RunRow, Watched

LEMMA LatestRunIsComplete ==
    ASSUME runs \in Seq(RunRow)
    PROVE  LatestRun # 0 =>
             LatestRun \in DOMAIN runs /\ runs[LatestRun].status = "complete"
<1> DEFINE S == {0} \cup {r \in DOMAIN runs : runs[r].status = "complete"}
<1>1. Len(runs) \in Nat /\ DOMAIN runs = 1..Len(runs)
    BY LenProperties
<1>2. S \in SUBSET (0..Len(runs)) /\ S # {}
    BY <1>1
<1>3. Max(S) \in S
    BY <1>1, <1>2, LastOne
<1>4. QED
    BY <1>3 DEF LatestRun

LEMMA RestoredIsGood ==
    ASSUME SyncAssumption, TypeOK, RowsOK
    PROVE  StoredRows \in Store /\ Good(StoredRows, runs)
<1>1. runs \in Seq(RunRow)
    BY DEF TypeOK, RunRow
<1>2. CASE LatestRun = 0
    BY <1>2 DEF StoredRows, Store, Good
<1>3. CASE LatestRun # 0
    <2> DEFINE D == {e \in There(rows) : Day[e] <= runs[LatestRun].end}
    <2>1. LatestRun \in DOMAIN runs /\ runs[LatestRun].status = "complete"
        BY <1>1, <1>3, LatestRunIsComplete
    <2>2. runs[LatestRun] \in RunRow /\ LatestRun \in Nat
        BY <1>1, <2>1, LenProperties
    <2>3. runs[LatestRun].end \in Int /\ Watched(runs[LatestRun]) \subseteq Entries
        BY <2>2 DEF RunRow, Watched
    <2>4. D \subseteq Entries /\ \A e \in D : rows[e] \in BOOLEAN
        BY DEF TypeOK, There, States
    <2>5. [e \in D |-> rows[e]] \in Answers
        <3> DEFINE found == [e \in D |-> rows[e]]
        <3>1. found \in [D -> BOOLEAN]
            BY <2>4
        <3>2. D \in SUBSET Entries
            BY <2>4
        <3> HIDE DEF found, D
        <3>3. found \in Answers
            BY <3>1, <3>2 DEF Answers
        <3>4. QED
            BY <3>3 DEF found
    <2>6. StoredRows = [run |-> LatestRun, end |-> runs[LatestRun].end,
                        entries |-> [e \in D |-> rows[e]]]
        BY <1>3 DEF StoredRows
    <2>7. StoredRows \in [run : Nat, end : Int, entries : Answers]
        BY <2>2, <2>3, <2>5, <2>6
    <2>8. \A e \in Watched(runs[LatestRun]) : Day[e] <= runs[LatestRun].end => e \in D
        BY <2>1, <2>3 DEF RowsOK, There
    <2>9. QED
        BY <2>1, <2>6, <2>7, <2>8 DEF Good, Store
<1>4. QED
    BY <1>2, <1>3

\* Runs are appended, and of a run only the status and what is watched may
\* change, the latter to less.
Evolves(rs, next) ==
    /\ DOMAIN rs \subseteq DOMAIN next
    /\ \A r \in DOMAIN rs : /\ next[r].end = rs[r].end
                            /\ Watched(next[r]) \subseteq Watched(rs[r])

LEMMA GoodStays ==
    ASSUME NEW s, NEW rs, NEW next, Evolves(rs, next), Good(s, rs)
    PROVE  Good(s, next)
BY DEF Evolves, Good

-----------------------------------------------------------------------------
(* What the steps have in common. *)

LEMMA NothingFetched == <<>> \in Answers /\ DOMAIN <<>> = {}
<1>1. <<>> \in Seq(BOOLEAN) /\ Len(<<>>) = 0
    BY EmptySeq
<1>2. <<>> \in [1..0 -> BOOLEAN] /\ DOMAIN <<>> = 1..0
    BY <1>1, LenProperties
<1>3. 1..0 = {}
    OBVIOUS
<1>4. {} \in SUBSET Entries
    OBVIOUS
<1>5. QED
    BY <1>2, <1>3, <1>4 DEF Answers

\* At most one caller synchronises, and only that one has the lock.
LEMMA OneSyncs ==
    ASSUME SyncAssumption, TypeOK, NEW a \in Callers, NEW b \in Callers, Syncing(a), Syncing(b)
    PROVE  a = b
BY DEF TypeOK

\* Beginning and being refused append a run.
LEMMA RunAppended ==
    ASSUME TypeOK, NEW status \in {"running", "failed"},
           NEW end \in 1..Today, runs' = Append1(status, end)
    PROVE  /\ runs' \in Seq(RunRow) /\ Evolves(runs, runs')
           /\ Len(runs) + 1 \in DOMAIN runs' /\ Len(runs) + 1 \in Nat
           /\ runs'[Len(runs) + 1] = [status |-> status, end |-> end, throughout |-> There(tw), slipped |-> {}]
           /\ DOMAIN runs' = DOMAIN runs \cup {Len(runs) + 1}
           /\ \A r \in DOMAIN runs : runs'[r] = runs[r]
<1> DEFINE row == [status |-> status, end |-> end, throughout |-> There(tw), slipped |-> {}]
<1>1. runs \in Seq(RunRow) /\ row \in RunRow
    BY DEF TypeOK, RunRow, There
<1>2. Len(runs) \in Nat /\ DOMAIN runs = 1..Len(runs)
    BY <1>1, LenProperties
<1>3. runs' = Append(runs, row)
    BY DEF Append1
<1>4. /\ runs' \in Seq(RunRow) /\ Len(runs') = Len(runs) + 1
      /\ \A r \in 1..Len(runs) : runs'[r] = runs[r]
      /\ runs'[Len(runs) + 1] = row
    BY <1>1, <1>3, AppendProperties
<1>5. DOMAIN runs' = 1..(Len(runs) + 1)
    BY <1>4, LenProperties
<1>6. QED
    BY <1>2, <1>4, <1>5 DEF Evolves

\* A run's status changes.
LEMMA RunChanged ==
    ASSUME TypeOK, NEW r \in DOMAIN runs, NEW status \in {"complete", "failed"},
           runs' = [runs EXCEPT ![r].status = status]
    PROVE  /\ runs' \in Seq(RunRow) /\ Evolves(runs, runs')
           /\ DOMAIN runs' = DOMAIN runs
           /\ \A q \in DOMAIN runs : q # r => runs'[q] = runs[q]
           /\ runs'[r].status = status
           /\ runs'[r].end = runs[r].end /\ runs'[r].throughout = runs[r].throughout
           /\ Watched(runs'[r]) = Watched(runs[r])
<1>1. runs \in Seq(RunRow)
    BY DEF TypeOK, RunRow
<1>2. Len(runs) \in Nat /\ DOMAIN runs = 1..Len(runs) /\ runs \in [1..Len(runs) -> RunRow]
    BY <1>1, LenProperties
<1> DEFINE row == [runs[r] EXCEPT !.status = status]
<1>3. row \in RunRow /\ row.status = status /\ row.end = runs[r].end
      /\ row.throughout = runs[r].throughout /\ row.slipped = runs[r].slipped
    BY <1>2 DEF RunRow
<1>4. runs' = [runs EXCEPT ![r] = row]
    OBVIOUS
<1>5. runs' \in Seq(RunRow) /\ \A q \in 1..Len(runs) : runs'[q] = IF q = r THEN row ELSE runs[q]
    BY <1>1, <1>2, <1>3, <1>4, ExceptSeq
<1>6. DOMAIN runs' = DOMAIN runs
    BY <1>4
<1>7. QED
    BY <1>2, <1>3, <1>5, <1>6 DEF Evolves, Watched

LEMMA RunsRest ==
    ASSUME TypeOK, UNCHANGED runs
    PROVE  /\ runs' \in Seq(RunRow) /\ DOMAIN runs' = DOMAIN runs
           /\ Evolves(runs, runs')
BY RunsTyped DEF Evolves

\* What callers hold stays good when runs evolve.
LEMMA StoresStay ==
    ASSUME StoresOK, Evolves(runs, runs'),
           Good(file', runs') \/ file' = file, Good(tmp', runs') \/ tmp' = tmp,
           Good(memory', runs') \/ memory' = memory,
           \A c \in Callers : Holding(c)' =>
              \/ Good(caller'[c].store, runs')
              \/ Holding(c) /\ caller'[c].store = caller[c].store
    PROVE  StoresOK'
<1>1. \A s : Good(s, runs) => Good(s, runs')
    BY GoodStays
<1>2. Good(file, runs') /\ Good(tmp, runs') /\ Good(memory, runs')
    BY <1>1 DEF StoresOK
<1>3. Good(file', runs') /\ Good(tmp', runs') /\ Good(memory', runs')
    BY <1>2
<1>4. ASSUME NEW c \in Callers, Holding(c)'
      PROVE  Good(caller'[c].store, runs')
    BY <1>1, <1>4 DEF StoresOK
<1>5. QED
    BY <1>3, <1>4 DEF StoresOK

LEMMA GoodIsStore ==
    ASSUME NEW s, SyncAssumption, Good(s, runs)
    PROVE  IsStore(s)
BY DEF Good, IsStore, Answers

-----------------------------------------------------------------------------
(* Windows and positions in them. *)

LEMMA Positions ==
    ASSUME SyncAssumption, NEW W \in SUBSET Entries, NEW e \in Entries
    PROVE  /\ IsFiniteSet(W) /\ Cardinality(W) \in Nat
           /\ Position(e, W) \in Nat
           /\ e \in W => Position(e, W) < Cardinality(W)
<1> DEFINE before == {d \in W : Rank[d] < Rank[e]}
<1>1. IsFiniteSet(W) /\ Cardinality(W) \in Nat
    BY FS_Subset, FS_CardinalityType DEF SyncAssumption
<1>2. IsFiniteSet(before) /\ Cardinality(before) \in Nat
    BY <1>1, FS_Subset, FS_CardinalityType
<1>3. ASSUME e \in W PROVE Cardinality(before) < Cardinality(W)
    <2>1. before \in SUBSET (W \ {e})
        BY DEF SyncAssumption
    <2>2. IsFiniteSet(W \ {e}) /\ Cardinality(W \ {e}) = Cardinality(W) - 1
        BY <1>1, <1>3, FS_RemoveElement
    <2>3. Cardinality(before) <= Cardinality(W \ {e})
        BY <2>1, <2>2, FS_Subset
    <2>4. QED
        BY <1>1, <1>2, <2>2, <2>3
<1>4. QED
    BY <1>1, <1>2, <1>3 DEF Position

\* What is added puts nothing forward.
LEMMA PositionGrows ==
    ASSUME SyncAssumption, NEW W \in SUBSET Entries, NEW V \in SUBSET W, NEW e \in Entries
    PROVE  Position(e, V) <= Position(e, W)
<1> DEFINE of(S) == {d \in S : Rank[d] < Rank[e]}
<1>1. IsFiniteSet(of(W))
    BY FS_Subset DEF SyncAssumption
<1>2. of(V) \in SUBSET of(W)
    OBVIOUS
<1>3. Cardinality(of(V)) <= Cardinality(of(W))
    BY <1>1, <1>2, FS_Subset
<1>4. QED
    BY <1>3 DEF Position

\* What is taken away puts forward, by one, what comes after it.
LEMMA PositionDrops ==
    ASSUME SyncAssumption, NEW W \in SUBSET Entries, NEW x \in W, NEW e \in Entries
    PROVE  Position(e, W \ {x}) = Position(e, W) - (IF Rank[x] < Rank[e] THEN 1 ELSE 0)
<1> DEFINE of(S) == {d \in S : Rank[d] < Rank[e]}
<1>1. IsFiniteSet(of(W))
    BY FS_Subset DEF SyncAssumption
<1>2. of(W \ {x}) = of(W) \ {x} /\ (x \in of(W) <=> Rank[x] < Rank[e])
    OBVIOUS
<1>3. /\ Cardinality(of(W)) \in Nat
      /\ Cardinality(of(W) \ {x}) =
            IF x \in of(W) THEN Cardinality(of(W)) - 1 ELSE Cardinality(of(W))
    BY <1>1, FS_RemoveElement, FS_CardinalityType
<1>4. CASE Rank[x] < Rank[e]
    <2>1. x \in of(W)
        BY <1>4
    <2>2. Cardinality(of(W \ {x})) = Cardinality(of(W)) - 1
        BY <1>2, <1>3, <2>1, Zenon
    <2>3. QED
        BY <1>4, <2>2 DEF Position
<1>5. CASE ~ (Rank[x] < Rank[e])
    <2>1. x \notin of(W)
        BY <1>5
    <2>2. Cardinality(of(W \ {x})) = Cardinality(of(W))
        BY <1>2, <1>3, <2>1, Zenon
    <2>3. QED
        BY <1>3, <1>5, <2>2 DEF Position
<1>6. QED
    BY <1>4, <1>5

\* A caller that goes on from where it was sees what it saw.
LEMMA SeenStays ==
    ASSUME NEW c \in Callers, There(tw)' = There(tw), caller'[c].from = caller[c].from,
           caller'[c].end = caller[c].end, caller'[c].page = caller[c].page
    PROVE  Window(c)' = Window(c) /\ Seen(c)' = Seen(c)
<1>1. Window(c)' = Window(c) /\ Passed(c)' = Passed(c)
    BY DEF Window, WindowEnd, Passed
<1>2. QED
    BY <1>1 DEF Seen, Position

\* On the first page of a window nothing has been passed.
LEMMA NothingSeen ==
    ASSUME SyncAssumption, NEW c \in Callers, caller'[c].page = 1
    PROVE  Seen(c)' = {}
<1>1. Passed(c)' = 0
    BY DEF Passed, SyncAssumption
<1>2. Window(c)' \in SUBSET Entries
    BY DEF Window, There
<1>3. \A e \in Window(c)' : Position(e, Window(c)') \in Nat
    BY <1>2, Positions
<1>4. QED
    BY <1>1, <1>3 DEF Seen, Position

-----------------------------------------------------------------------------
(* The steps keep the invariant. *)

\* Fetching callers that do not move, over entries that do not either.
LEMMA FetchStays ==
    ASSUME FetchOK, UNCHANGED tw,
           \A b \in Callers : caller'[b].pc = "fetch" =>
              caller'[b] = caller[b] /\ runs'[caller[b].run] = runs[caller[b].run]
    PROVE  FetchOK'
<1>1. There(tw)' = There(tw)
    BY DEF There
<1>2. ASSUME NEW b \in Callers, caller'[b].pc = "fetch"
      PROVE  /\ Seen(b)' = Seen(b) /\ Whole(b)' = Whole(b)
             /\ runs'[caller'[b].run] = runs[caller[b].run] /\ caller'[b] = caller[b]
    BY <1>1, <1>2, SeenStays DEF Whole
<1>3. QED
    BY <1>1, <1>2 DEF FetchOK

LEMMA BeginStep ==
    ASSUME SyncAssumption, SyncInv, NEW c \in Callers, NEW end \in 1..Today,
           caller[c].pc \in {"idle", "load"}, Begin(c, end)
    PROVE  SyncInv'
<1> USE DEF SyncInv
<1>1. runs' = Append1("running", end) /\ lock' = c /\ lock = NoCaller
    BY DEF Begin, CanLock
<1>2. /\ runs' \in Seq(RunRow) /\ Evolves(runs, runs')
      /\ Len(runs) + 1 \in DOMAIN runs' /\ Len(runs) + 1 \in Nat
      /\ runs'[Len(runs) + 1] = [status |-> "running", end |-> end, throughout |-> There(tw), slipped |-> {}]
      /\ DOMAIN runs' = DOMAIN runs \cup {Len(runs) + 1}
      /\ \A r \in DOMAIN runs : runs'[r] = runs[r]
    BY <1>1, RunAppended
<1>3. /\ Fetching(Len(runs) + 1, end) \in CallerRow
      /\ Fetching(Len(runs) + 1, end).pc = "fetch"
      /\ Fetching(Len(runs) + 1, end).run = Len(runs) + 1
      /\ Fetching(Len(runs) + 1, end).end = end
      /\ Fetching(Len(runs) + 1, end).from = 1
      /\ Fetching(Len(runs) + 1, end).page = 1
    BY <1>2, NothingFetched DEF Fetching, CallerRow, FetchRow
<1>4. /\ caller' \in [Callers -> CallerRow]
      /\ caller'[c] = Fetching(Len(runs) + 1, end)
      /\ \A b \in Callers : b # c => caller'[b] = caller[b]
    BY <1>3 DEF Begin, ShapeOK
<1>5. \A b \in Callers : ~ Syncing(b)
    BY <1>1 DEF TypeOK, SyncAssumption, Callers
<1>6. /\ Syncing(c)' /\ ~ Holding(c)'
      /\ \A b \in Callers : b # c => ~ Syncing(b)' /\ Holding(b)' = Holding(b)
    BY <1>3, <1>4, <1>5 DEF Syncing, Holding
<1>7. UNCHANGED <<tw, rows, file, tmp, memory, pushes, count>>
    BY DEF Begin
<1>8. StoresOK'
    BY <1>2, <1>4, <1>6, <1>7, StoresStay
<1>9. ShapeOK'
    BY <1>2, <1>3, <1>4, <1>6, <1>7 DEF ShapeOK
<1>10. FetchOK'
    <2>1. \A e \in Entries : Day[e] \in 1..Today /\ ~ (Day[e] < 1)
        BY DEF SyncAssumption
    <2>2. There(tw) \subseteq Entries
        BY DEF There
    <2>3. Seen(c)' = {}
        BY <1>3, <1>4, NothingSeen
    <2>4. caller'[c].pc = "fetch" /\ caller'[c].from = 1 /\ caller'[c].end = end
          /\ runs'[caller'[c].run].end = end
          /\ runs'[caller'[c].run].throughout = There(tw)
        BY <1>2, <1>3, <1>4
    <2>5. Watched(runs'[caller'[c].run]) \subseteq Entries
        BY <2>2, <2>4 DEF Watched
    <2>6. There(tw)' = There(tw)
        BY <1>7 DEF There
    <2>7. \A b \in Callers : caller'[b].pc = "fetch" => b = c
        BY <1>6 DEF Syncing
    <2>8. QED
        BY <2>1, <2>3, <2>4, <2>5, <2>6, <2>7 DEF FetchOK
<1>11. RowsOK'
    BY <1>2, <1>7 DEF RowsOK
<1>12. TypeOK'
    <2>1. (IsStore(file) /\ IsStore(tmp) /\ IsStore(memory))'
        BY <1>8, GoodIsStore DEF StoresOK, Good, IsStore, Answers
    <2>2. QED
        BY <1>1, <1>2, <1>3, <1>4, <1>6, <1>7, <2>1 DEF TypeOK, RunRow, Syncing
<1>13. QED
    BY <1>8, <1>9, <1>10, <1>11, <1>12

LEMMA BlockedStep ==
    ASSUME SyncAssumption, SyncInv, NEW c \in Callers, NEW end \in 1..Today,
           caller[c].pc \in {"idle", "load"}, Blocked(c, end)
    PROVE  SyncInv'
<1> USE DEF SyncInv
<1>1. runs' = Append1("failed", end)
    BY DEF Blocked
<1>2. /\ runs' \in Seq(RunRow) /\ Evolves(runs, runs')
      /\ runs'[Len(runs) + 1] = [status |-> "failed", end |-> end, throughout |-> There(tw), slipped |-> {}]
      /\ DOMAIN runs' = DOMAIN runs \cup {Len(runs) + 1}
      /\ \A r \in DOMAIN runs : runs'[r] = runs[r]
    BY <1>1, RunAppended
<1>3. /\ caller' \in [Callers -> CallerRow]
      /\ caller'[c].pc = "idle"
      /\ \A b \in Callers : b # c => caller'[b] = caller[b]
    BY DEF Blocked, ShapeOK, Idle, CallerRow
<1>4. \A b \in Callers : Syncing(b)' = Syncing(b)
    BY <1>3 DEF Syncing
<1>5. \A b \in Callers : Holding(b)' => Holding(b) /\ caller'[b] = caller[b]
    BY <1>3 DEF Holding
<1>6. UNCHANGED <<tw, rows, lock, file, tmp, memory, pushes, count>>
    BY DEF Blocked
<1>7. StoresOK'
    BY <1>2, <1>5, <1>6, StoresStay
<1>8. ShapeOK'
    BY <1>2, <1>3, <1>4, <1>6 DEF ShapeOK, Syncing
<1>9. FetchOK'
    <2>1. \A b \in Callers : caller'[b].pc = "fetch" =>
             /\ caller'[b] = caller[b] /\ runs'[caller[b].run] = runs[caller[b].run]
        BY <1>2, <1>3 DEF ShapeOK, Syncing
    <2>2. QED
        BY <1>6, <2>1, FetchStays
<1>10. RowsOK'
    BY <1>2, <1>6 DEF RowsOK, Watched
<1>11. TypeOK'
    <2>1. (IsStore(file) /\ IsStore(tmp) /\ IsStore(memory))'
        BY <1>7 DEF StoresOK, Good, IsStore, Answers
    <2>2. ASSUME NEW b \in Callers
          PROVE  (/\ (lock = b) = Syncing(b)
                  /\ Syncing(b) => runs[caller[b].run].status =
                                      IF caller[b].pc = "fetch" THEN "running" ELSE "complete")'
        <3>1. Syncing(b) => caller'[b] = caller[b] /\ caller[b].run \in DOMAIN runs
            BY <1>3 DEF ShapeOK, Syncing
        <3>2. QED
            BY <1>2, <1>4, <1>6, <3>1 DEF TypeOK
    <2>3. QED
        BY <1>2, <1>6, <2>1, <2>2 DEF TypeOK, RunRow
<1>12. QED
    BY <1>7, <1>8, <1>9, <1>10, <1>11

LEMMA WindowEndsAtADay ==
    ASSUME SyncAssumption, NEW c, NEW from \in Int, NEW end \in Int
    PROVE  WindowEnd(c, from, end) \in Int
<1> DEFINE m == ((from + MonthLength - 1) \div MonthLength) * MonthLength
<1>1. m \in Int
    BY DEF SyncAssumption
<1>2. Min({m, end}) \in Int
    <2>1. \E x \in {m, end} : \A y \in {m, end} : x =< y
        BY <1>1
    <2>2. Min({m, end}) \in {m, end}
        BY <2>1 DEF Min
    <2>3. QED
        BY <1>1, <2>2
<1>3. QED
    BY <1>2 DEF WindowEnd

LEMMA PageLengths ==
    ASSUME NEW page \in Nat \ {0}, NEW size \in Nat \ {0}
    PROVE  /\ (page - 1) * size \in Nat
           /\ ((page + 1) - 1) * size = (page - 1) * size + size
OBVIOUS

\* What a caller has after a page: what it had and what is on the page.
LEMMA GotIt ==
    ASSUME SyncAssumption, TypeOK, NEW c \in Callers, caller[c].got \in Answers
    PROVE  /\ Got(c) \in Answers /\ DOMAIN Got(c) = DOMAIN caller[c].got \cup Page(c)
           /\ \A e \in DOMAIN Got(c) :
                 Got(c)[e] = IF e \in Page(c) THEN tw[e] ELSE caller[c].got[e]
<1>1. DOMAIN caller[c].got \subseteq Entries
      /\ \A e \in DOMAIN caller[c].got : caller[c].got[e] \in BOOLEAN
    BY DEF Answers
<1>2. Page(c) \subseteq Entries /\ \A e \in Page(c) : tw[e] \in BOOLEAN
    BY DEF Page, Window, There, TypeOK, States
<1> DEFINE D == DOMAIN caller[c].got \cup Page(c)
<1>3. Got(c) = [e \in D |-> IF e \in Page(c) THEN tw[e] ELSE caller[c].got[e]]
    BY DEF Got
<1>4. Got(c) \in [D -> BOOLEAN] /\ D \in SUBSET Entries
    BY <1>1, <1>2, <1>3
<1>5. QED
    BY <1>3, <1>4 DEF Answers

\* A page is fetched: the next page of the window is due or the next window is.
LEMMA PageStep ==
    ASSUME SyncAssumption, TypeOK, ShapeOK, NEW c \in Callers, FetchPage(c)
    PROVE  /\ caller[c] \in FetchRow /\ caller'[c] \in FetchRow
           /\ caller' \in [Callers -> CallerRow]
           /\ \A b \in Callers : b # c => caller'[b] = caller[b]
           /\ UNCHANGED <<tw, rows, runs, lock, file, tmp, memory, pushes, count>>
           /\ caller'[c].run = caller[c].run /\ caller'[c].end = caller[c].end
           /\ caller'[c].quiet = caller[c].quiet
           /\ caller'[c].got = Got(c)
           /\ \/ /\ caller'[c].from = caller[c].from /\ caller'[c].page = caller[c].page + 1
                 /\ Whole(c)' = Whole(c)
              \/ /\ caller'[c].from = WindowEnd(c, caller[c].from, caller[c].end) + 1
                 /\ caller'[c].page = 1
                 /\ Whole(c)' => Whole(c) /\ ~ HasMore(c)
<1>1. caller[c] \in FetchRow
    BY DEF FetchPage, ShapeOK, CallerRow, FetchRow
<1>2. Got(c) \in Answers
    BY <1>1, GotIt DEF FetchRow
<1>3. WindowEnd(c, caller[c].from, caller[c].end) + 1 \in Int
    BY <1>1, WindowEndsAtADay DEF FetchRow
<1>4. UNCHANGED <<tw, rows, runs, lock, file, tmp, memory, pushes, count>>
    BY DEF FetchPage
<1>5. ASSUME NEW row \in FetchRow, caller' = [caller EXCEPT ![c] = row]
      PROVE  /\ caller' \in [Callers -> CallerRow] /\ caller'[c] = row
             /\ \A b \in Callers : b # c => caller'[b] = caller[b]
    <2>1. row \in CallerRow
        BY DEF CallerRow
    <2>2. QED
        BY <1>5, <2>1 DEF ShapeOK
<1>6. CASE caller' = [caller EXCEPT ![c] = NextPage(c)]
    <2> DEFINE to == NextPage(c)
    <2>1. to = [caller[c] EXCEPT !.got = Got(c), !.page = caller[c].page + 1]
        BY DEF NextPage
    <2>2. to \in FetchRow
        <3>1. ASSUME NEW w \in FetchRow, NEW g \in Answers, NEW n \in Nat \ {0}
              PROVE  [w EXCEPT !.got = g, !.page = n] \in FetchRow
            BY Zenon DEF FetchRow
        <3>2. caller[c].page + 1 \in Nat \ {0}
            BY <1>1 DEF FetchRow
        <3>3. [caller[c] EXCEPT !.got = Got(c), !.page = caller[c].page + 1] \in FetchRow
            BY <1>1, <1>2, <3>1, <3>2, Zenon
        <3>4. QED
            BY <2>1, <3>3
    <2>3. /\ to.run = caller[c].run /\ to.end = caller[c].end /\ to.got = Got(c)
          /\ to.from = caller[c].from /\ to.page = caller[c].page + 1
        BY <1>1, <2>1, Zenon DEF FetchRow
    <2>4. to.quiet = caller[c].quiet /\ to.partial = caller[c].partial
        BY <1>1, <2>1, Zenon DEF FetchRow
    <2> HIDE DEF to
    <2>5. caller'[c] = to
        BY <1>5, <1>6, <2>2 DEF to
    <2>6. QED
        BY <1>1, <1>4, <1>5, <1>6, <2>2, <2>3, <2>4, <2>5, Zenon DEF Whole, to
<1>7. ASSUME NEW cut \in BOOLEAN, caller' = [caller EXCEPT ![c] = NextWindow(c, cut)]
      PROVE  /\ caller'[c] \in FetchRow
             /\ caller' \in [Callers -> CallerRow]
             /\ \A b \in Callers : b # c => caller'[b] = caller[b]
             /\ caller'[c].run = caller[c].run /\ caller'[c].end = caller[c].end
             /\ caller'[c].quiet = caller[c].quiet
             /\ caller'[c].got = Got(c)
             /\ caller'[c].from = WindowEnd(c, caller[c].from, caller[c].end) + 1
             /\ caller'[c].page = 1
             /\ Whole(c)' => Whole(c) /\ ~ HasMore(c)
    <2> DEFINE from == WindowEnd(c, caller[c].from, caller[c].end) + 1
               partial == caller[c].partial \/ HasMore(c) \/ cut
               to == NextWindow(c, cut)
    <2>1. to = [caller[c] EXCEPT !.got = Got(c), !.from = from, !.page = 1, !.partial = partial]
        BY DEF NextWindow
    <2>2. to \in FetchRow
        <3>1. ASSUME NEW w \in FetchRow, NEW g \in Answers, NEW f \in Int, NEW n \in Nat \ {0},
                     NEW h \in BOOLEAN
              PROVE  [w EXCEPT !.got = g, !.from = f, !.page = n, !.partial = h] \in FetchRow
            BY Zenon DEF FetchRow
        <3>2. 1 \in Nat \ {0}
            OBVIOUS
        <3>3. partial \in BOOLEAN
            OBVIOUS
        <3> HIDE DEF partial, from
        <3>4. [caller[c] EXCEPT !.got = Got(c), !.from = from, !.page = 1, !.partial = partial]
                \in FetchRow
            <4>1. from \in Int
                BY <1>3 DEF from
            <4>2. QED
                BY <1>1, <1>2, <3>1, <3>2, <3>3, <4>1, Zenon
        <3>5. QED
            BY <2>1, <3>4 DEF from, partial
    <2>3. /\ to.run = caller[c].run /\ to.end = caller[c].end /\ to.got = Got(c)
          /\ to.from = from /\ to.page = 1
        BY <1>1, <2>1, Zenon DEF FetchRow
    <2>4. to.quiet = caller[c].quiet /\ to.partial = partial
        BY <1>1, <2>1, Zenon DEF FetchRow
    <2> HIDE DEF to
    <2>5. caller'[c] = to
        BY <1>5, <1>7, <2>2 DEF to
    <2>6. Whole(c)' => Whole(c) /\ ~ HasMore(c)
        BY <2>4, <2>5, Zenon DEF Whole
    <2>7. QED
        BY <1>5, <1>7, <2>2, <2>3, <2>4, <2>5, <2>6, Zenon DEF to
<1>8. QED
    <2>1. \/ caller' = [caller EXCEPT ![c] = NextPage(c)]
          \/ \E cut \in BOOLEAN : caller' = [caller EXCEPT ![c] = NextWindow(c, cut)]
        BY DEF FetchPage
    <2>2. CASE caller' = [caller EXCEPT ![c] = NextPage(c)]
        BY <1>6, <2>2
    <2>3. CASE \E cut \in BOOLEAN : caller' = [caller EXCEPT ![c] = NextWindow(c, cut)]
        BY <1>1, <1>4, <1>7, <2>3
    <2>4. QED
        BY <2>1, <2>2, <2>3

\* Whatever the caller has now behind it, it had behind it or is on the page.
LEMMA PagesAdvance ==
    ASSUME SyncAssumption, TypeOK, ShapeOK, NEW c \in Callers, FetchPage(c), Whole(c)',
           NEW e \in There(tw), Day[e] < caller'[c].from \/ e \in Seen(c)'
    PROVE  Whole(c) /\ (Day[e] < caller[c].from \/ e \in Seen(c) \/ e \in Page(c))
<1>1. /\ caller[c] \in FetchRow /\ UNCHANGED tw
      /\ caller'[c].end = caller[c].end
      /\ \/ /\ caller'[c].from = caller[c].from /\ caller'[c].page = caller[c].page + 1
            /\ Whole(c)' = Whole(c)
         \/ /\ caller'[c].from = WindowEnd(c, caller[c].from, caller[c].end) + 1
            /\ caller'[c].page = 1
            /\ Whole(c)' => Whole(c) /\ ~ HasMore(c)
    BY PageStep
<1>2. e \in Entries /\ Day[e] \in Int /\ Window(c) \in SUBSET Entries
    BY DEF There, Window, SyncAssumption
<1>3. /\ caller[c].page \in Nat \ {0} /\ PageSize \in Nat \ {0}
      /\ caller[c].from \in Int /\ caller[c].end \in Int
    BY <1>1 DEF FetchRow, SyncAssumption
<1> DEFINE W == Window(c)
           pos == Position(e, W)
<1>4. pos \in Nat /\ Cardinality(W) \in Nat /\ (e \in W => pos < Cardinality(W))
    BY <1>2, Positions
<1>5. Passed(c) \in Nat
    BY <1>3, PageLengths DEF Passed
<1>6. ASSUME e \in W, pos < Passed(c) + PageSize PROVE e \in Seen(c) \/ e \in Page(c)
    <2>1. CASE pos < Passed(c)
        BY <1>6, <2>1 DEF Seen
    <2>2. CASE ~ (pos < Passed(c))
        <3>1. pos \in Passed(c)..(Passed(c) + PageSize - 1)
            BY <1>3, <1>4, <1>5, <1>6, <2>2
        <3>2. QED
            BY <1>6, <3>1 DEF Page
    <2>3. QED
        BY <2>1, <2>2
<1>7. CASE /\ caller'[c].from = caller[c].from /\ caller'[c].page = caller[c].page + 1
           /\ Whole(c)' = Whole(c)
    <2>1. CASE Day[e] < caller'[c].from
        BY <1>7, <2>1
    <2>2. CASE e \in Seen(c)'
        <3>1. Window(c)' = W
            BY <1>1, <1>7 DEF Window, WindowEnd, There
        <3>2. Passed(c)' = Passed(c) + PageSize
            BY <1>3, <1>7, PageLengths DEF Passed
        <3>3. e \in W /\ pos < Passed(c) + PageSize
            BY <2>2, <3>1, <3>2 DEF Seen, Position
        <3>4. QED
            BY <1>6, <1>7, <3>3
    <2>3. QED
        BY <2>1, <2>2
<1>8. CASE /\ caller'[c].from = WindowEnd(c, caller[c].from, caller[c].end) + 1
           /\ caller'[c].page = 1
           /\ Whole(c)' => Whole(c) /\ ~ HasMore(c)
    <2>1. Seen(c)' = {}
        BY <1>8, NothingSeen
    <2>2. Day[e] < caller'[c].from /\ Whole(c) /\ ~ HasMore(c)
        BY <1>8, <2>1
    <2>3. WindowEnd(c, caller[c].from, caller[c].end) \in Int
        BY <1>3, WindowEndsAtADay
    <2>4. CASE Day[e] < caller[c].from
        BY <2>2, <2>4
    <2>5. CASE ~ (Day[e] < caller[c].from)
        <3>1. Day[e] \in caller[c].from..WindowEnd(c, caller[c].from, caller[c].end)
            BY <1>2, <1>3, <1>8, <2>2, <2>3, <2>5
        <3>2. e \in W
            BY <3>1 DEF Window
        <3>3. Cardinality(W) <= Passed(c) + PageSize
            BY <1>3, <1>4, <1>5, <2>2 DEF HasMore
        <3>4. pos < Passed(c) + PageSize
            BY <1>3, <1>4, <1>5, <3>2, <3>3
        <3>5. QED
            BY <1>6, <2>2, <3>2, <3>4
    <2>6. QED
        BY <2>4, <2>5
<1>9. QED
    BY <1>1, <1>7, <1>8

LEMMA FetchStep ==
    ASSUME SyncAssumption, SyncInv, NEW c \in Callers, FetchPage(c)
    PROVE  SyncInv'
<1> USE DEF SyncInv
<1>1. /\ caller[c] \in FetchRow /\ caller'[c] \in FetchRow
      /\ caller' \in [Callers -> CallerRow]
      /\ \A b \in Callers : b # c => caller'[b] = caller[b]
      /\ UNCHANGED <<tw, rows, runs, lock, file, tmp, memory, pushes, count>>
      /\ caller'[c].run = caller[c].run /\ caller'[c].end = caller[c].end
      /\ caller'[c].got = Got(c)
    BY PageStep
<1>2. caller[c].pc = "fetch" /\ caller'[c].pc = "fetch"
    BY <1>1 DEF FetchRow
<1>3. \A b \in Callers : Syncing(b)' = Syncing(b) /\ Holding(b)' = Holding(b)
                         /\ caller'[b].pc = caller[b].pc
    BY <1>1, <1>2 DEF Syncing, Holding
<1>4. StoresOK'
    BY <1>1, <1>2, <1>3 DEF StoresOK, Holding
<1>5. ShapeOK'
    BY <1>1, <1>3 DEF ShapeOK
<1>6. FetchOK'
    <2> DEFINE run == runs[caller[c].run]
    <2>1. run.end = caller[c].end /\ run.throughout \subseteq There(tw)
        BY <1>2 DEF FetchOK
    <2>2. ASSUME Whole(c)', NEW e \in Watched(run), Day[e] < caller'[c].from \/ e \in Seen(c)'
          PROVE  e \in DOMAIN Got(c)
        <3>1. e \in There(tw)
            BY <2>1 DEF Watched
        <3>2. Whole(c) /\ (Day[e] < caller[c].from \/ e \in Seen(c) \/ e \in Page(c))
            BY <2>2, <3>1, PagesAdvance
        <3>3. DOMAIN Got(c) = DOMAIN caller[c].got \cup Page(c)
            BY DEF Got
        <3>4. QED
            BY <1>2, <3>2, <3>3 DEF FetchOK
    <2>3. There(tw)' = There(tw)
        BY <1>1 DEF There
    <2>4. ASSUME NEW b \in Callers, b # c
          PROVE  ~ (caller'[b].pc = "fetch")
        BY <1>1, <1>2, <2>4, OneSyncs DEF Syncing
    <2>5. Watched(runs'[caller'[c].run]) = Watched(run) /\ runs'[caller'[c].run] = run
        BY <1>1
    <2> HIDE DEF run
    <2>6. QED
        BY <1>1, <2>1, <2>2, <2>3, <2>4, <2>5 DEF FetchOK
<1>7. RowsOK'
    BY <1>1 DEF RowsOK, Watched
<1>8. TypeOK'
    <2>1. (IsStore(file) /\ IsStore(tmp) /\ IsStore(memory))'
        BY <1>1 DEF TypeOK, IsStore
    <2>2. \A b \in Callers : /\ caller'[b].pc = caller[b].pc /\ caller'[b].run = caller[b].run
                             /\ Syncing(b)' = Syncing(b)
        <3>1. ASSUME NEW b \in Callers PROVE caller'[b].run = caller[b].run
            BY <1>1
        <3>2. QED
            BY <1>3, <3>1
    <2>3. UNCHANGED <<tw, rows, runs, lock, pushes>>
        BY <1>1
    <2>4. ASSUME NEW b \in Callers
          PROVE  (/\ (lock = b) = Syncing(b)
                  /\ Syncing(b) => runs[caller[b].run].status =
                                      IF caller[b].pc = "fetch" THEN "running" ELSE "complete")'
        BY <2>2, <2>3 DEF TypeOK
    <2>5. QED
        BY <2>1, <2>3, <2>4 DEF TypeOK
<1>9. QED
    BY <1>4, <1>5, <1>6, <1>7, <1>8

\* The run of a caller that synchronises is no other caller's.
LEMMA OthersRest ==
    ASSUME SyncAssumption, TypeOK, NEW c \in Callers, Syncing(c)
    PROVE  lock = c /\ \A b \in Callers : b # c => ~ Syncing(b)
BY DEF TypeOK

LEMMA PersistStep ==
    ASSUME SyncAssumption, SyncInv, NEW c \in Callers, Persist(c)
    PROVE  SyncInv'
<1> USE DEF SyncInv
<1> DEFINE r == caller[c].run
           stored == [pc |-> "stored", run |-> r, quiet |-> caller[c].quiet]
<1>1. /\ caller[c].pc = "fetch" /\ Syncing(c)
      /\ caller[c] \in FetchRow
    <2>1. caller[c].pc = "fetch" /\ caller[c] \in CallerRow
        BY DEF Persist, ShapeOK
    <2>2. QED
        BY <2>1 DEF CallerRow, FetchRow, Syncing
<1>2. r \in DOMAIN runs /\ r \in Nat
    BY <1>1 DEF ShapeOK, FetchRow
<1>3. /\ runs' \in Seq(RunRow) /\ Evolves(runs, runs')
      /\ DOMAIN runs' = DOMAIN runs
      /\ \A q \in DOMAIN runs : q # r => runs'[q] = runs[q]
      /\ runs'[r].status = "complete"
      /\ runs'[r].end = runs[r].end /\ Watched(runs'[r]) = Watched(runs[r])
    <2>1. runs' = [runs EXCEPT ![r].status = "complete"]
        BY DEF Persist
    <2>2. QED
        BY <1>2, <2>1, RunChanged
<1>4. /\ caller' \in [Callers -> CallerRow] /\ caller'[c] = stored
      /\ \A b \in Callers : b # c => caller'[b] = caller[b]
    <2>1. stored \in CallerRow
        BY <1>1 DEF CallerRow, FetchRow
    <2>2. caller' = [caller EXCEPT ![c] = stored]
        BY DEF Persist
    <2>3. QED
        BY <2>1, <2>2 DEF ShapeOK
<1>5. \A b \in Callers : b # c => ~ Syncing(b)
    BY <1>1, OthersRest
<1>6. /\ \A b \in Callers : Syncing(b)' = Syncing(b)
      /\ \A b \in Callers : Holding(b)' => Holding(b) /\ caller'[b] = caller[b]
    BY <1>1, <1>4 DEF Syncing, Holding
<1>7. UNCHANGED <<tw, lock, file, tmp, memory, pushes, count>>
    BY DEF Persist
<1>8. /\ rows' \in [Entries -> States]
      /\ \A e \in Entries : rows[e] # Gone => rows'[e] # Gone
      /\ \A e \in DOMAIN caller[c].got : e \in Entries /\ rows'[e] # Gone
    <2>1. /\ DOMAIN caller[c].got \subseteq Entries
          /\ \A e \in DOMAIN caller[c].got :
                caller[c].got[e] \in BOOLEAN /\ caller[c].got[e] # Gone
        BY <1>1 DEF Answers, SyncAssumption, FetchRow
    <2>2. rows' = [e \in Entries |->
                     IF e \in DOMAIN caller[c].got THEN caller[c].got[e] ELSE rows[e]]
        BY DEF Persist, Merged
    <2>3. QED
        BY <2>1, <2>2 DEF TypeOK, States
<1>9. StoresOK'
    BY <1>3, <1>6, <1>7, StoresStay
<1>10. ShapeOK'
    BY <1>2, <1>3, <1>4, <1>5, <1>6, <1>7 DEF ShapeOK
<1>11. FetchOK'
    BY <1>4, <1>5 DEF FetchOK, Syncing
<1>12. RowsOK'
    <2>1. ASSUME NEW e \in Watched(runs[r]), Day[e] <= runs[r].end
          PROVE  rows'[e] # Gone
        <3>1. runs[r].end = caller[c].end /\ caller[c].from > caller[c].end /\ Whole(c)
              /\ e \in There(tw)
            BY <1>1, <2>1 DEF FetchOK, Persist, Watched
        <3>2. e \in Entries /\ Day[e] \in Int
            BY <3>1 DEF There, SyncAssumption
        <3>3. Day[e] < caller[c].from
            BY <1>1, <2>1, <3>1, <3>2 DEF FetchRow
        <3>4. e \in DOMAIN caller[c].got
            BY <1>1, <3>1, <3>3 DEF FetchOK
        <3>5. QED
            BY <1>8, <3>4
    <2>2. ASSUME NEW q \in DOMAIN runs, q # r, runs[q].status = "complete",
                 NEW e \in Watched(runs[q]), Day[e] <= runs[q].end
          PROVE  rows'[e] # Gone
        <3>1. e \in Entries
            BY <2>2, RunsTyped
        <3>2. QED
            BY <1>8, <2>2, <3>1 DEF RowsOK
    <2>3. ASSUME NEW q \in DOMAIN runs, q # r
          PROVE  runs'[q] = runs[q] /\ Watched(runs'[q]) = Watched(runs[q])
        BY <1>3, <2>3
    <2>4. QED
        BY <1>3, <2>1, <2>2, <2>3 DEF RowsOK
<1>13. TypeOK'
    <2>1. (IsStore(file) /\ IsStore(tmp) /\ IsStore(memory))'
        BY <1>9 DEF StoresOK, Good, IsStore, Answers
    <2>2. ASSUME NEW b \in Callers
          PROVE  (/\ (lock = b) = Syncing(b)
                  /\ Syncing(b) => runs[caller[b].run].status =
                                      IF caller[b].pc = "fetch" THEN "running" ELSE "complete")'
        <3>1. CASE b = c
            BY <1>1, <1>3, <1>4, <1>6, <1>7, <3>1 DEF TypeOK
        <3>2. CASE b # c
            BY <1>5, <1>6, <1>7, <3>2 DEF TypeOK
        <3>3. QED
            BY <3>1, <3>2
    <2>3. QED
        BY <1>3, <1>7, <1>8, <2>1, <2>2 DEF TypeOK, RunRow
<1>14. QED
    BY <1>9, <1>10, <1>11, <1>12, <1>13

LEMMA ReadBackStep ==
    ASSUME SyncAssumption, SyncInv, NEW c \in Callers, ReadBack(c)
    PROVE  SyncInv'
<1> USE DEF SyncInv
<1> DEFINE read == [pc |-> "read", run |-> caller[c].run, quiet |-> caller[c].quiet,
                    store |-> StoredRows]
<1>1. /\ caller[c] \in [pc : {"stored"}, run : Nat, quiet : BOOLEAN]
      /\ Syncing(c)
    BY DEF ReadBack, ShapeOK, CallerRow, FetchRow, Syncing
<1>2. StoredRows \in Store /\ Good(StoredRows, runs)
    BY RestoredIsGood
<1>3. /\ caller' \in [Callers -> CallerRow] /\ caller'[c] = read
      /\ \A b \in Callers : b # c => caller'[b] = caller[b]
    <2>1. read \in CallerRow
        BY <1>1, <1>2 DEF CallerRow
    <2>2. caller' = [caller EXCEPT ![c] = read]
        BY DEF ReadBack
    <2>3. QED
        BY <2>1, <2>2 DEF ShapeOK
<1>4. UNCHANGED <<tw, rows, runs, lock, file, tmp, memory, pushes, count>>
    BY DEF ReadBack
<1>5. /\ \A b \in Callers : Syncing(b)' = Syncing(b)
      /\ \A b \in Callers : b # c => Holding(b)' = Holding(b)
      /\ caller'[c].pc = "read" /\ caller'[c].run = caller[c].run
      /\ caller'[c].store = StoredRows
    BY <1>1, <1>3 DEF Syncing, Holding
<1>6. StoresOK'
    BY <1>2, <1>3, <1>4, <1>5 DEF StoresOK
<1>7. ShapeOK'
    BY <1>3, <1>4, <1>5 DEF ShapeOK
<1>8. FetchOK'
    <2>1. \A b \in Callers : caller'[b].pc = "fetch" => caller'[b] = caller[b]
        BY <1>3, <1>5
    <2>2. QED
        BY <1>4, <2>1, FetchStays
<1>9. RowsOK'
    BY <1>4 DEF RowsOK, Watched
<1>10. TypeOK'
    <2>1. (IsStore(file) /\ IsStore(tmp) /\ IsStore(memory))'
        BY <1>4 DEF TypeOK, IsStore
    <2>2. ASSUME NEW b \in Callers
          PROVE  (/\ (lock = b) = Syncing(b)
                  /\ Syncing(b) => runs[caller[b].run].status =
                                      IF caller[b].pc = "fetch" THEN "running" ELSE "complete")'
        <3>1. CASE b = c
            BY <1>1, <1>4, <1>5, <3>1 DEF TypeOK
        <3>2. CASE b # c
            BY <1>3, <1>4, <1>5, <3>2 DEF TypeOK
        <3>3. QED
            BY <3>1, <3>2
    <2>3. QED
        BY <1>4, <2>1, <2>2 DEF TypeOK
<1>11. QED
    BY <1>6, <1>7, <1>8, <1>9, <1>10

\* A caller that is done is idle, and nobody else has moved.
LEMMA DoneIsIdle ==
    ASSUME ShapeOK, NEW c \in Callers, caller' = [caller EXCEPT ![c] = Idle]
    PROVE  /\ caller' \in [Callers -> CallerRow]
           /\ caller'[c].pc = "idle" /\ ~ Syncing(c)' /\ ~ Holding(c)'
           /\ \A b \in Callers : b # c => caller'[b] = caller[b]
<1>1. Idle \in CallerRow /\ Idle.pc = "idle"
    BY DEF Idle, CallerRow
<1>2. QED
    BY <1>1 DEF ShapeOK, Syncing, Holding

LEMMA WriteStep ==
    ASSUME SyncAssumption, SyncInv, NEW c \in Callers, WriteStore(c)
    PROVE  SyncInv'
<1> USE DEF SyncInv
<1> DEFINE written == [pc |-> "written", run |-> caller[c].run, quiet |-> caller[c].quiet,
                       store |-> caller[c].store]
<1>1. /\ caller[c] \in [pc : {"read", "written"}, run : Nat, quiet : BOOLEAN, store : Store]
      /\ caller[c].pc = "read" /\ Syncing(c) /\ Holding(c)
    BY DEF WriteStore, ShapeOK, CallerRow, FetchRow, Syncing, Holding
<1>2. Good(caller[c].store, runs)
    BY <1>1 DEF StoresOK
<1>3. /\ caller' \in [Callers -> CallerRow] /\ caller'[c] = written
      /\ \A b \in Callers : b # c => caller'[b] = caller[b]
    <2>1. written \in CallerRow
        BY <1>1 DEF CallerRow
    <2>2. caller' = [caller EXCEPT ![c] = written]
        BY DEF WriteStore
    <2>3. QED
        BY <2>1, <2>2 DEF ShapeOK
<1>4. UNCHANGED <<tw, rows, runs, lock, file, memory, pushes, count>> /\ tmp' = caller[c].store
    BY DEF WriteStore
<1>5. /\ \A b \in Callers : Syncing(b)' = Syncing(b) /\ Holding(b)' = Holding(b)
      /\ caller'[c].pc = "written" /\ caller'[c].run = caller[c].run
      /\ caller'[c].store = caller[c].store
    BY <1>1, <1>3 DEF Syncing, Holding
<1>6. StoresOK'
    BY <1>2, <1>3, <1>4, <1>5 DEF StoresOK
<1>7. ShapeOK'
    BY <1>3, <1>4, <1>5 DEF ShapeOK
<1>8. FetchOK'
    <2>1. \A b \in Callers : caller'[b].pc = "fetch" => caller'[b] = caller[b]
        BY <1>3, <1>5
    <2>2. QED
        BY <1>4, <2>1, FetchStays
<1>9. RowsOK'
    BY <1>4 DEF RowsOK, Watched
<1>10. TypeOK'
    <2>1. (IsStore(file) /\ IsStore(tmp) /\ IsStore(memory))'
        BY <1>6 DEF StoresOK, Good, IsStore, Answers
    <2>2. ASSUME NEW b \in Callers
          PROVE  (/\ (lock = b) = Syncing(b)
                  /\ Syncing(b) => runs[caller[b].run].status =
                                      IF caller[b].pc = "fetch" THEN "running" ELSE "complete")'
        <3>1. CASE b = c
            BY <1>1, <1>4, <1>5, <3>1 DEF TypeOK
        <3>2. CASE b # c
            BY <1>3, <1>4, <1>5, <3>2 DEF TypeOK
        <3>3. QED
            BY <3>1, <3>2
    <2>3. QED
        BY <1>4, <2>1, <2>2 DEF TypeOK
<1>11. QED
    BY <1>6, <1>7, <1>8, <1>9, <1>10

LEMMA RenameStep ==
    ASSUME SyncAssumption, SyncInv, NEW c \in Callers, RenameStore(c)
    PROVE  SyncInv'
<1> USE DEF SyncInv
<1>1. /\ caller' \in [Callers -> CallerRow]
      /\ caller'[c].pc = "idle" /\ ~ Syncing(c)' /\ ~ Holding(c)'
      /\ \A b \in Callers : b # c => caller'[b] = caller[b]
    BY DoneIsIdle DEF RenameStore
<1>2. caller[c].pc = "written" /\ Syncing(c) /\ Holding(c)
    BY DEF RenameStore, Syncing, Holding
<1>3. \A b \in Callers : ~ Syncing(b)'
    BY <1>1, <1>2, OthersRest DEF Syncing
<1>4. /\ UNCHANGED <<tw, rows, runs, pushes, count>> /\ lock' = NoCaller
      /\ file' = tmp /\ tmp' = NoStore
      /\ memory' = caller[c].store \/ memory' = memory
    BY DEF RenameStore, Unlocked, Remembered
<1>5. Good(caller[c].store, runs) /\ Good(tmp, runs) /\ Good(NoStore, runs)
    BY <1>2 DEF StoresOK, Good
<1>6. Evolves(runs, runs')
    BY <1>4, RunsRest
<1>7. \A b \in Callers : Holding(b)' => Holding(b) /\ caller'[b] = caller[b]
    BY <1>1 DEF Holding
<1>8. StoresOK'
    BY <1>4, <1>5, <1>6, <1>7, StoresStay
<1>9. ShapeOK'
    BY <1>1, <1>3, <1>4 DEF ShapeOK
<1>10. FetchOK'
    BY <1>3 DEF FetchOK, Syncing
<1>11. RowsOK'
    BY <1>4 DEF RowsOK
<1>12. TypeOK'
    <2>1. (IsStore(file) /\ IsStore(tmp) /\ IsStore(memory))'
        BY <1>8 DEF StoresOK, Good, IsStore, Answers
    <2>2. \A b \in Callers : lock' # b
        BY <1>4 DEF SyncAssumption, Callers
    <2>3. ASSUME NEW b \in Callers
          PROVE  (/\ (lock = b) = Syncing(b)
                  /\ Syncing(b) => runs[caller[b].run].status =
                                      IF caller[b].pc = "fetch" THEN "running" ELSE "complete")'
        <3>1. (lock' = b) = FALSE /\ Syncing(b)' = FALSE
            BY <1>3, <2>2
        <3>2. QED
            BY <3>1
    <2>4. QED
        BY <1>3, <1>4, <2>1, <2>3 DEF TypeOK
<1>13. QED
    BY <1>8, <1>9, <1>10, <1>11, <1>12

LEMMA FailStep ==
    ASSUME SyncAssumption, SyncInv, NEW c \in Callers, Fails(c)
    PROVE  SyncInv'
<1> USE DEF SyncInv
<1>1. /\ caller' \in [Callers -> CallerRow]
      /\ caller'[c].pc = "idle" /\ ~ Syncing(c)' /\ ~ Holding(c)'
      /\ \A b \in Callers : b # c => caller'[b] = caller[b]
    BY DoneIsIdle DEF Fails
<1>2. Syncing(c) /\ caller[c].run \in DOMAIN runs
    BY DEF Fails, ShapeOK
<1>3. \A b \in Callers : ~ Syncing(b)'
    BY <1>1, <1>2, OthersRest DEF Syncing
<1>4. UNCHANGED <<tw, rows, file, tmp, memory, pushes, count>> /\ lock' = NoCaller
    BY DEF Fails, Unlocked
<1>5. /\ runs' \in Seq(RunRow) /\ Evolves(runs, runs') /\ DOMAIN runs' = DOMAIN runs
      /\ \A r \in DOMAIN runs :
            runs'[r].status = "complete" =>
              /\ runs[r].status = "complete"
              /\ runs'[r].end = runs[r].end /\ Watched(runs'[r]) = Watched(runs[r])
    <2>1. CASE runs' = runs
        BY <2>1, RunsRest
    <2>2. CASE runs' = [runs EXCEPT ![caller[c].run].status = "failed"]
        <3>1. /\ runs' \in Seq(RunRow) /\ Evolves(runs, runs') /\ DOMAIN runs' = DOMAIN runs
              /\ \A q \in DOMAIN runs : q # caller[c].run => runs'[q] = runs[q]
              /\ runs'[caller[c].run].status = "failed"
            BY <1>2, <2>2, RunChanged
        <3>2. QED
            BY <3>1
    <2>3. QED
        BY <2>1, <2>2 DEF Fails, FailedRun
<1>6. \A b \in Callers : Holding(b)' => Holding(b) /\ caller'[b] = caller[b]
    BY <1>1 DEF Holding
<1>7. StoresOK'
    BY <1>4, <1>5, <1>6, StoresStay
<1>8. ShapeOK'
    BY <1>1, <1>3, <1>4 DEF ShapeOK
<1>9. FetchOK'
    BY <1>3 DEF FetchOK, Syncing
<1>10. RowsOK'
    BY <1>4, <1>5 DEF RowsOK
<1>11. TypeOK'
    <2>1. (IsStore(file) /\ IsStore(tmp) /\ IsStore(memory))'
        BY <1>7 DEF StoresOK, Good, IsStore, Answers
    <2>2. \A b \in Callers : lock' # b
        BY <1>4 DEF SyncAssumption, Callers
    <2>3. ASSUME NEW b \in Callers
          PROVE  (/\ (lock = b) = Syncing(b)
                  /\ Syncing(b) => runs[caller[b].run].status =
                                      IF caller[b].pc = "fetch" THEN "running" ELSE "complete")'
        <3>1. (lock' = b) = FALSE /\ Syncing(b)' = FALSE
            BY <1>3, <2>2
        <3>2. QED
            BY <3>1
    <2>4. QED
        BY <1>3, <1>4, <1>5, <2>1, <2>3 DEF TypeOK, RunRow
<1>12. QED
    BY <1>7, <1>8, <1>9, <1>10, <1>11

\* A caller outside a synchronisation reads or keeps a store: nothing else changes.
LEMMA ReportMoves ==
    ASSUME SyncAssumption, SyncInv, NEW c \in Callers, ~ Syncing(c),
           NEW row \in CallerRow, caller' = [caller EXCEPT ![c] = row],
           row.pc \in {"idle", "load", "restore", "restored"},
           row.pc # "idle" => Good(row.store, runs),
           UNCHANGED <<tw, rows, runs, lock, pushes, count>>,
           Good(file', runs), Good(tmp', runs), Good(memory', runs)
    PROVE  SyncInv'
<1> USE DEF SyncInv
<1>1. /\ caller' \in [Callers -> CallerRow] /\ caller'[c] = row
      /\ \A b \in Callers : b # c => caller'[b] = caller[b]
    BY DEF ShapeOK
<1>2. ~ Syncing(c)' /\ \A b \in Callers : Syncing(b)' = Syncing(b)
    BY <1>1 DEF Syncing
<1>3. StoresOK'
    <2>1. ASSUME NEW b \in Callers, Holding(b)'
          PROVE  Good(caller'[b].store, runs)
        <3>1. CASE b = c
            BY <1>1, <2>1, <3>1 DEF Holding
        <3>2. CASE b # c
            BY <1>1, <2>1, <3>2 DEF Holding, StoresOK
        <3>3. QED
            BY <3>1, <3>2
    <2>2. QED
        BY <2>1 DEF StoresOK
<1>4. ShapeOK'
    BY <1>1, <1>2 DEF ShapeOK, Syncing
<1>5. FetchOK'
    <2>1. \A b \in Callers : caller'[b].pc = "fetch" => caller'[b] = caller[b]
        BY <1>1
    <2>2. QED
        BY <2>1, FetchStays
<1>6. RowsOK'
    BY DEF RowsOK, Watched
<1>7. TypeOK'
    <2>1. (IsStore(file) /\ IsStore(tmp) /\ IsStore(memory))'
        BY <1>3 DEF StoresOK, Good, IsStore, Answers
    <2>2. ASSUME NEW b \in Callers
          PROVE  (/\ (lock = b) = Syncing(b)
                  /\ Syncing(b) => runs[caller[b].run].status =
                                      IF caller[b].pc = "fetch" THEN "running" ELSE "complete")'
        <3>1. Syncing(b) => caller'[b] = caller[b]
            BY <1>1 DEF Syncing
        <3>2. QED
            BY <1>2, <3>1 DEF TypeOK
    <2>3. QED
        BY <2>1, <2>2 DEF TypeOK
<1>8. QED
    BY <1>3, <1>4, <1>5, <1>6, <1>7

LEMMA ReadingSteps ==
    ASSUME SyncAssumption, SyncInv, NEW c \in Callers,
           ReadFile(c) \/ FileIsRead(c) \/ ReadRows(c) \/ RestoreStore(c)
    PROVE  SyncInv'
<1> USE DEF SyncInv
<1>1. /\ Good(file, runs) /\ Good(tmp, runs) /\ Good(memory, runs) /\ Good(NoStore, runs)
      /\ file \in Store
    BY DEF StoresOK, Good, Store
<1>2. Idle \in CallerRow /\ Idle.pc = "idle"
    BY DEF Idle, CallerRow
<1>3. CASE ReadFile(c)
    <2> DEFINE row == [pc |-> "load", store |-> file]
    <2>1. row \in CallerRow /\ row.pc = "load" /\ row.store = file
        BY <1>1 DEF CallerRow
    <2>2. ~ Syncing(c)
        BY <1>3 DEF ReadFile, Syncing
    <2>3. caller' = [caller EXCEPT ![c] = row]
          /\ UNCHANGED <<tw, rows, runs, lock, file, tmp, memory, pushes, count>>
        BY <1>3 DEF ReadFile
    <2> HIDE DEF row
    <2>4. QED
        BY <1>1, <2>1, <2>2, <2>3, ReportMoves
<1>4. CASE FileIsRead(c)
    <2>1. ~ Syncing(c) /\ Holding(c)
        BY <1>4 DEF FileIsRead, Syncing, Holding
    <2>2. /\ caller' = [caller EXCEPT ![c] = Idle] /\ memory' = caller[c].store
          /\ UNCHANGED <<tw, rows, runs, lock, file, tmp, pushes, count>>
        BY <1>4 DEF FileIsRead
    <2>3. Good(memory', runs) /\ Good(file', runs) /\ Good(tmp', runs)
        BY <1>1, <2>1, <2>2 DEF StoresOK
    <2>4. QED
        BY <1>2, <2>1, <2>2, <2>3, ReportMoves
<1>5. CASE ReadRows(c)
    <2> DEFINE row == [pc |-> "restore", store |-> StoredRows]
    <2>1. StoredRows \in Store /\ Good(StoredRows, runs)
        BY RestoredIsGood
    <2>2. row \in CallerRow /\ row.pc = "restore" /\ row.store = StoredRows
        BY <2>1 DEF CallerRow
    <2>3. ~ Syncing(c)
        BY <1>5 DEF ReadRows, NoFile, Syncing
    <2>4. caller' = [caller EXCEPT ![c] = row]
          /\ UNCHANGED <<tw, rows, runs, lock, file, tmp, memory, pushes, count>>
        BY <1>5 DEF ReadRows
    <2> HIDE DEF row
    <2>5. QED
        BY <1>1, <2>1, <2>2, <2>3, <2>4, ReportMoves
<1>6. CASE WriteRestored(c)
    <2> DEFINE row == [pc |-> "restored", store |-> caller[c].store]
    <2>1. ~ Syncing(c) /\ Holding(c) /\ caller[c].store \in Store
        BY <1>6 DEF WriteRestored, Syncing, Holding, ShapeOK, CallerRow, FetchRow
    <2>2. Good(caller[c].store, runs)
        BY <2>1 DEF StoresOK
    <2>3. row \in CallerRow /\ row.pc = "restored" /\ row.store = caller[c].store
        BY <2>1 DEF CallerRow
    <2>4. /\ caller' = [caller EXCEPT ![c] = row] /\ tmp' = caller[c].store
          /\ UNCHANGED <<tw, rows, runs, lock, file, memory, pushes, count>>
        BY <1>6 DEF WriteRestored
    <2> HIDE DEF row
    <2>5. QED
        BY <1>1, <2>1, <2>2, <2>3, <2>4, ReportMoves
<1>7. CASE RenameRestored(c)
    <2>1. ~ Syncing(c) /\ Holding(c)
        BY <1>7 DEF RenameRestored, Syncing, Holding
    <2>2. /\ caller' = [caller EXCEPT ![c] = Idle]
          /\ file' = tmp /\ tmp' = NoStore /\ memory' = caller[c].store
          /\ UNCHANGED <<tw, rows, runs, lock, pushes, count>>
        BY <1>7 DEF RenameRestored
    <2>3. Good(memory', runs) /\ Good(file', runs) /\ Good(tmp', runs)
        BY <1>1, <2>1, <2>2 DEF StoresOK
    <2>4. QED
        BY <1>2, <2>1, <2>2, <2>3, ReportMoves
<1>8. CASE RestoreFails(c)
    <2>1. ~ Syncing(c)
        BY <1>8 DEF RestoreFails, Syncing
    <2>2. /\ caller' = [caller EXCEPT ![c] = Idle]
          /\ UNCHANGED <<tw, rows, runs, lock, file, tmp, memory, pushes, count>>
        BY <1>8 DEF RestoreFails
    <2>3. QED
        BY <1>1, <1>2, <2>1, <2>2, ReportMoves
<1>9. QED
    BY <1>3, <1>4, <1>5, <1>6, <1>7, <1>8 DEF RestoreStore

\* Callers take note of a change at Teamwork and do nothing else.
LEMMA NotingMoves ==
    ASSUME ShapeOK, caller' = NoLongerQuiet
    PROVE  /\ caller' \in [Callers -> CallerRow]
           /\ \A b \in Callers : /\ caller'[b].pc = caller[b].pc
                                 /\ Syncing(b)' = Syncing(b)
                                 /\ Syncing(b) => caller'[b].run = caller[b].run
                                 /\ Holding(b)' = Holding(b)
                                 /\ Holding(b) => caller'[b].store = caller[b].store
                                 /\ caller[b].pc = "fetch" =>
                                      /\ caller'[b].end = caller[b].end
                                      /\ caller'[b].from = caller[b].from
                                      /\ caller'[b].page = caller[b].page
                                      /\ caller'[b].got = caller[b].got
                                      /\ caller'[b].partial = caller[b].partial
<1>1. ASSUME NEW b \in Callers
      PROVE  /\ caller'[b] \in CallerRow
             /\ caller'[b].pc = caller[b].pc
             /\ Syncing(b) => caller'[b].run = caller[b].run
             /\ Holding(b) => caller'[b].store = caller[b].store
             /\ caller[b].pc = "fetch" =>
                  /\ caller'[b].end = caller[b].end
                  /\ caller'[b].from = caller[b].from
                  /\ caller'[b].page = caller[b].page
                  /\ caller'[b].got = caller[b].got
                  /\ caller'[b].partial = caller[b].partial
    <2>1. caller[b] \in CallerRow
        BY DEF ShapeOK
    <2>2. CASE ~ Syncing(b)
        <3>1. caller'[b] = caller[b]
            BY <2>2 DEF NoLongerQuiet
        <3>2. QED
            BY <2>1, <3>1
    <2>3. CASE Syncing(b)
        <3>1. caller'[b] = [caller[b] EXCEPT !.quiet = FALSE]
            BY <2>3 DEF NoLongerQuiet
        <3>2. CASE caller[b].pc = "fetch"
            <4>1. caller[b] \in FetchRow
                BY <2>1, <3>2 DEF CallerRow, FetchRow
            <4>2. caller'[b] \in FetchRow
                BY <3>1, <4>1, Zenon DEF FetchRow
            <4>3. caller'[b].partial = caller[b].partial
                BY <3>1, <4>1, Zenon DEF FetchRow
            <4>4. QED
                BY <3>1, <3>2, <4>1, <4>2, <4>3 DEF CallerRow, FetchRow, Holding
        <3>3. CASE caller[b].pc = "stored"
            <4>1. caller[b] \in [pc : {"stored"}, run : Nat, quiet : BOOLEAN]
                BY <2>1, <3>3 DEF CallerRow, FetchRow
            <4>2. QED
                BY <3>1, <3>3, <4>1 DEF CallerRow, Holding
        <3>4. CASE caller[b].pc \in {"read", "written"}
            <4>1. caller[b] \in [pc : {"read", "written"}, run : Nat, quiet : BOOLEAN, store : Store]
                BY <2>1, <3>4 DEF CallerRow, FetchRow
            <4>2. QED
                BY <3>1, <3>4, <4>1 DEF CallerRow
        <3>5. QED
            BY <2>3, <3>2, <3>3, <3>4 DEF Syncing
    <2>4. QED
        BY <2>2, <2>3
<1>2. caller' \in [Callers -> CallerRow]
    BY <1>1 DEF NoLongerQuiet
<1>3. QED
    BY <1>1, <1>2 DEF Syncing, Holding

\* Entries change at Teamwork or in the rows while callers take note.
LEMMA OutsideMoves ==
    ASSUME SyncAssumption, SyncInv, caller' = NoLongerQuiet,
           UNCHANGED <<lock, file, tmp, memory>>,
           tw' \in [Entries -> States], rows' \in [Entries -> States],
           \A e \in Entries : rows[e] # Gone => rows'[e] # Gone,
           runs' \in Seq(RunRow), DOMAIN runs' = DOMAIN runs, Evolves(runs, runs'),
           \A r \in DOMAIN runs :
              /\ runs'[r].status = runs[r].status
              /\ runs[r].status = "running" /\ runs[r].throughout \subseteq There(tw)
                   => runs'[r].throughout \subseteq There(tw'),
           \A b \in Callers : caller[b].pc = "fetch" =>
              \A e \in Watched(runs'[caller[b].run]) : e \in Seen(b)' => e \in Seen(b),
           pushes' \subseteq [id : 1..MaxChanges, entry : Entries, state : BOOLEAN,
                              reached : BOOLEAN],
           count' \in [changes : Nat, crashes : Nat]
    PROVE  SyncInv'
<1> USE DEF SyncInv
<1>1. /\ caller' \in [Callers -> CallerRow]
      /\ \A b \in Callers : /\ caller'[b].pc = caller[b].pc
                            /\ Syncing(b)' = Syncing(b)
                            /\ Syncing(b) => caller'[b].run = caller[b].run
                            /\ Holding(b)' = Holding(b)
                            /\ Holding(b) => caller'[b].store = caller[b].store
                            /\ caller[b].pc = "fetch" =>
                                 /\ caller'[b].end = caller[b].end
                                 /\ caller'[b].from = caller[b].from
                                 /\ caller'[b].page = caller[b].page
                                 /\ caller'[b].got = caller[b].got
                                 /\ caller'[b].partial = caller[b].partial
    BY NotingMoves
<1>2. StoresOK'
    BY <1>1, StoresStay
<1>3. ShapeOK'
    BY <1>1 DEF ShapeOK
<1>4. FetchOK'
    <2>1. ASSUME NEW b \in Callers, caller'[b].pc = "fetch"
          PROVE  /\ runs'[caller'[b].run].end = caller'[b].end
                 /\ runs'[caller'[b].run].throughout \subseteq There(tw')
                 /\ ~ caller'[b].partial => \A e \in Watched(runs'[caller'[b].run]) :
                        Day[e] < caller'[b].from \/ e \in Seen(b)' => e \in DOMAIN caller'[b].got
        <3>1. /\ caller[b].pc = "fetch" /\ Syncing(b) /\ caller[b].run \in DOMAIN runs
              /\ caller'[b].run = caller[b].run
            BY <1>1, <2>1 DEF ShapeOK, Syncing
        <3>2. runs[caller[b].run].status = "running"
            BY <3>1 DEF TypeOK
        <3> DEFINE was == runs[caller[b].run]
                   is == runs'[caller[b].run]
        <3>3. is.end = was.end /\ Watched(is) \subseteq Watched(was)
              /\ is.throughout \subseteq There(tw')
            BY <3>1, <3>2 DEF FetchOK, Evolves
        <3>4. was.end = caller[b].end
            BY <3>1 DEF FetchOK
        <3>5. /\ caller'[b].end = caller[b].end /\ caller'[b].from = caller[b].from
              /\ caller'[b].got = caller[b].got
            BY <1>1, <3>1
        <3>6. ASSUME ~ caller'[b].partial, NEW e \in Watched(is),
                     Day[e] < caller'[b].from \/ e \in Seen(b)'
              PROVE  e \in DOMAIN caller[b].got
            <4>1. Whole(b)
                BY <1>1, <3>1, <3>6, Zenon DEF Whole
            <4>2. Day[e] < caller[b].from \/ e \in Seen(b)
                BY <3>1, <3>5, <3>6
            <4>3. QED
                BY <3>1, <3>3, <3>6, <4>1, <4>2 DEF FetchOK
        <3> HIDE DEF was
        <3>7. QED
            BY <3>1, <3>3, <3>4, <3>5, <3>6
    <2>2. There(tw') = There(tw)'
        BY DEF There
    <2>3. QED
        BY <2>1, <2>2 DEF FetchOK, Whole
<1>5. RowsOK'
    <2>1. ASSUME NEW r \in DOMAIN runs, runs[r].status = "complete",
                 NEW e \in Watched(runs'[r]), Day[e] <= runs'[r].end
          PROVE  rows'[e] # Gone
        <3>1. e \in Watched(runs[r]) /\ e \in Entries /\ Day[e] <= runs[r].end
            BY <2>1, RunsTyped DEF Evolves
        <3>2. QED
            BY <2>1, <3>1 DEF RowsOK
    <2>2. QED
        BY <2>1 DEF RowsOK
<1>6. TypeOK'
    <2>1. (IsStore(file) /\ IsStore(tmp) /\ IsStore(memory))'
        BY <1>2 DEF StoresOK, Good, IsStore, Answers
    <2>2. ASSUME NEW b \in Callers
          PROVE  (/\ (lock = b) = Syncing(b)
                  /\ Syncing(b) => runs[caller[b].run].status =
                                      IF caller[b].pc = "fetch" THEN "running" ELSE "complete")'
        <3>1. lock' = lock /\ (lock = b) = Syncing(b) /\ Syncing(b)' = Syncing(b)
            BY <1>1 DEF TypeOK
        <3>2. (lock' = b) = Syncing(b)'
            BY <3>1, Zenon
        <3>3. ASSUME Syncing(b)'
              PROVE  runs'[caller'[b].run].status =
                        IF caller'[b].pc = "fetch" THEN "running" ELSE "complete"
            <4> Syncing(b)
                BY <3>1, <3>3
            <4>1. caller'[b].run = caller[b].run /\ caller[b].run \in DOMAIN runs
                BY <1>1 DEF ShapeOK
            <4>2. runs'[caller'[b].run].status = runs[caller[b].run].status
                BY <4>1
            <4>3. caller'[b].pc = caller[b].pc
                BY <1>1
            <4>4. runs[caller[b].run].status =
                     IF caller[b].pc = "fetch" THEN "running" ELSE "complete"
                BY DEF TypeOK
            <4>5. QED
                BY <4>2, <4>3, <4>4, Zenon
        <3>4. QED
            BY <3>2, <3>3, Zenon
    <2>3. QED
        BY <2>1, <2>2 DEF TypeOK, RunRow
<1>7. QED
    BY <1>2, <1>3, <1>4, <1>5, <1>6

\* Where nothing comes or goes, callers that take note see what they saw.
LEMMA NotersSee ==
    ASSUME ShapeOK, caller' = NoLongerQuiet, There(tw)' = There(tw),
           NEW b \in Callers, caller[b].pc = "fetch"
    PROVE  Seen(b)' = Seen(b)
BY NotingMoves, SeenStays

\* An entry comes to Teamwork: no entry that was there moves into what was read.
LEMMA ComingSees ==
    ASSUME SyncAssumption, ShapeOK, caller' = NoLongerQuiet, There(tw) \subseteq There(tw'),
           NEW b \in Callers, caller[b].pc = "fetch", caller[b] \in FetchRow,
           NEW d \in There(tw), d \in Seen(b)'
    PROVE  d \in Seen(b)
<1>1. /\ caller'[b].from = caller[b].from /\ caller'[b].end = caller[b].end
      /\ caller'[b].page = caller[b].page
    BY NotingMoves
<1>2. Passed(b)' = Passed(b) /\ Passed(b) \in Nat
    BY <1>1, PageLengths DEF Passed, FetchRow, SyncAssumption
<1>3. Window(b) \in SUBSET (Window(b)') /\ Window(b)' \in SUBSET Entries /\ d \in Entries
    BY <1>1 DEF Window, WindowEnd, There
<1>4. d \in Window(b)
    BY <1>1 DEF Seen, Window, WindowEnd
<1>5. /\ Position(d, Window(b)) <= Position(d, Window(b)')
      /\ Position(d, Window(b)) \in Nat /\ Position(d, Window(b)') \in Nat
    BY <1>3, Positions, PositionGrows
<1>6. Position(d, Window(b)') < Passed(b)
    BY <1>2 DEF Seen, Position
<1>7. QED
    BY <1>2, <1>4, <1>5, <1>6 DEF Seen

\* An entry goes: what moves into what was read has slipped.
LEMMA GoingSlips ==
    ASSUME SyncAssumption, ShapeOK, caller' = NoLongerQuiet,
           NEW e \in Entries, There(tw') = There(tw) \ {e},
           NEW b \in Callers, caller[b].pc = "fetch", caller[b] \in FetchRow,
           NEW d \in There(tw), d \in Seen(b)'
    PROVE  d \in Seen(b) \/ d \in Slips(e, caller[b].run)
<1> DEFINE W == Window(b)
<1>1. /\ caller'[b].from = caller[b].from /\ caller'[b].end = caller[b].end
      /\ caller'[b].page = caller[b].page
    BY NotingMoves
<1>2. Passed(b)' = Passed(b) /\ Passed(b) \in Nat
    BY <1>1, PageLengths DEF Passed, FetchRow, SyncAssumption
<1>3. Window(b)' = W \ {e} /\ W \in SUBSET Entries /\ d \in Entries
    BY <1>1 DEF Window, WindowEnd, There
<1>4. d \in W /\ Position(d, W \ {e}) < Passed(b)
    BY <1>2, <1>3 DEF Seen, Position
<1> HIDE DEF W
<1>5. Position(d, W) \in Nat /\ Position(d, W \ {e}) \in Nat
    BY <1>3, Positions
<1>6. CASE e \notin W
    <2>1. W \ {e} = W
        BY <1>6
    <2>2. QED
        BY <1>4, <2>1 DEF Seen, W
<1>7. CASE e \in W /\ ~ (Rank[e] < Rank[d])
    <2>1. Position(d, W \ {e}) = Position(d, W) - (IF Rank[e] < Rank[d] THEN 1 ELSE 0)
        BY <1>3, <1>7, PositionDrops
    <2>2. Position(d, W) < Passed(b)
        BY <1>4, <1>5, <1>7, <2>1
    <2>3. QED
        BY <1>4, <2>2 DEF Seen, W
<1>8. CASE e \in W /\ Rank[e] < Rank[d]
    <2>1. Position(d, W \ {e}) = Position(d, W) - (IF Rank[e] < Rank[d] THEN 1 ELSE 0)
        BY <1>3, <1>8, PositionDrops
    <2>2. Position(d, W) < Passed(b) \/ Position(d, W) = Passed(b)
        BY <1>2, <1>4, <1>5, <1>8, <2>1
    <2>3. CASE Position(d, W) < Passed(b)
        BY <1>4, <2>3 DEF Seen, W
    <2>4. CASE Position(d, W) = Passed(b)
        BY <1>4, <1>8, <2>4 DEF Slips, W
    <2>5. QED
        BY <2>2, <2>3, <2>4
<1>9. QED
    BY <1>6, <1>7, <1>8

LEMMA TeamworkStep ==
    ASSUME SyncAssumption, SyncInv, NEW e \in Entries, NEW state \in States,
           TeamworkChanges(e, state)
    PROVE  SyncInv'
<1> USE DEF SyncInv
<1> DEFINE row(r) == IF runs[r].status = "running" /\ state = Gone THEN Without(e, r) ELSE runs[r]
<1>1. /\ runs \in Seq(RunRow) /\ Len(runs) \in Nat /\ DOMAIN runs = 1..Len(runs)
      /\ \A r \in DOMAIN runs : runs[r] \in RunRow
    BY RunsTyped, LenProperties
<1>2. runs' = [r \in 1..Len(runs) |-> row(r)]
    BY <1>1, Zenon DEF TeamworkChanges
<1>3. ASSUME NEW r \in DOMAIN runs
      PROVE  /\ row(r) \in RunRow
             /\ row(r).status = runs[r].status /\ row(r).end = runs[r].end
             /\ Watched(row(r)) \subseteq Watched(runs[r])
             /\ row(r).throughout \subseteq runs[r].throughout
             /\ runs[r].status = "running" /\ state = Gone =>
                  /\ row(r).throughout = runs[r].throughout \ {e}
                  /\ row(r).slipped = runs[r].slipped \cup Slips(e, r)
    <2>1. runs[r] \in RunRow
        BY <1>1
    <2>2. Slips(e, r) \in SUBSET Entries
        <3>1. \A b : Window(b) \subseteq Entries
            BY DEF Window, There
        <3>2. \A d \in Slips(e, r) : \E b : d \in Window(b)
            BY DEF Slips
        <3>3. QED
            BY <3>1, <3>2
    <2> DEFINE next(slips) == [runs[r] EXCEPT !.throughout = runs[r].throughout \ {e},
                                              !.slipped = runs[r].slipped \cup slips]
    <2>3. ASSUME NEW slips \in SUBSET Entries
          PROVE  /\ next(slips) \in RunRow
                 /\ next(slips).status = runs[r].status /\ next(slips).end = runs[r].end
                 /\ next(slips).throughout = runs[r].throughout \ {e}
                 /\ next(slips).slipped = runs[r].slipped \cup slips
        BY <2>1 DEF RunRow
    <2>4. Without(e, r) = next(Slips(e, r))
        BY DEF Without
    <2> HIDE DEF next
    <2>5. QED
        BY <2>1, <2>2, <2>3, <2>4 DEF Watched
<1>4. runs' \in Seq(RunRow) /\ DOMAIN runs' = DOMAIN runs
    <2>1. runs' \in [1..Len(runs) -> RunRow]
        BY <1>1, <1>2, <1>3
    <2>2. QED
        BY <1>1, <2>1, SeqDef
<1>5. \A r \in DOMAIN runs : runs'[r] = row(r)
    BY <1>1, <1>2
<1>6. Evolves(runs, runs')
    BY <1>3, <1>4, <1>5 DEF Evolves
<1>7. tw \in [Entries -> States] /\ rows \in [Entries -> States]
    BY DEF TypeOK
<1>8. tw' = [tw EXCEPT ![e] = state] /\ tw' \in [Entries -> States]
    BY <1>7 DEF TeamworkChanges
<1>9. IF state = Gone THEN There(tw') = There(tw) \ {e} ELSE There(tw) \subseteq There(tw')
    BY <1>7, <1>8 DEF There
<1>10. ASSUME NEW r \in DOMAIN runs, runs[r].status = "running",
              runs[r].throughout \subseteq There(tw)
       PROVE  runs'[r].throughout \subseteq There(tw')
    <2>1. CASE state = Gone
        <3>1. runs'[r].throughout = runs[r].throughout \ {e}
            BY <1>3, <1>5, <1>10, <2>1
        <3>2. QED
            BY <1>9, <1>10, <2>1, <3>1
    <2>2. CASE state # Gone
        <3>1. runs'[r].throughout \subseteq runs[r].throughout
            BY <1>3, <1>5
        <3>2. QED
            BY <1>9, <1>10, <2>2, <3>1
    <2>3. QED
        BY <2>1, <2>2
<1>11. \A r \in DOMAIN runs : runs'[r].status = runs[r].status
    BY <1>3, <1>5
<1>12. /\ caller' = NoLongerQuiet
       /\ UNCHANGED <<rows, lock, file, tmp, memory, pushes>>
       /\ count' \in [changes : Nat, crashes : Nat]
    BY DEF TeamworkChanges, ShapeOK
<1>13. pushes' \subseteq [id : 1..MaxChanges, entry : Entries, state : BOOLEAN, reached : BOOLEAN]
    BY <1>12 DEF TypeOK
<1>14. ASSUME NEW b \in Callers, caller[b].pc = "fetch",
              NEW d \in Watched(runs'[caller[b].run]), d \in Seen(b)'
       PROVE  d \in Seen(b)
    <2> DEFINE r == caller[b].run
    <2>1. r \in DOMAIN runs /\ caller[b] \in FetchRow /\ runs[r].status = "running"
        <3>1. Syncing(b) /\ caller[b] \in CallerRow
            BY <1>14 DEF Syncing, ShapeOK
        <3>2. QED
            BY <1>14, <3>1 DEF ShapeOK, TypeOK, CallerRow, FetchRow
    <2>2. d \in Watched(runs[r]) /\ d \in There(tw)
        BY <1>3, <1>5, <1>14, <2>1 DEF Watched, FetchOK
    <2>3. CASE state = Gone
        <3>1. d \notin Slips(e, r)
            BY <1>3, <1>5, <1>14, <2>1, <2>3 DEF Watched
        <3>2. There(tw') = There(tw) \ {e}
            BY <1>9, <2>3
        <3>3. QED
            BY <1>12, <1>14, <2>1, <2>2, <3>1, <3>2, GoingSlips
    <2>4. CASE state # Gone
        <3>1. There(tw) \subseteq There(tw')
            BY <1>9, <2>4
        <3>2. QED
            BY <1>12, <1>14, <2>1, <2>2, <3>1, ComingSees
    <2>5. QED
        BY <2>3, <2>4
<1>15. QED
    BY <1>4, <1>6, <1>7, <1>8, <1>10, <1>11, <1>12, <1>13, <1>14, OutsideMoves

LEMMA ReachedStep ==
    ASSUME SyncAssumption, SyncInv, NEW p \in pushes, PushReaches(p)
    PROVE  SyncInv'
<1> USE DEF SyncInv
<1>1. /\ p \in [id : 1..MaxChanges, entry : Entries, state : BOOLEAN, reached : BOOLEAN]
      /\ tw \in [Entries -> States] /\ rows \in [Entries -> States]
    BY DEF TypeOK
<1>2. p.entry \in Entries /\ p.state \in States /\ p.state # Gone
    BY <1>1 DEF SyncAssumption, States
<1>3. tw' = [tw EXCEPT ![p.entry] = p.state] /\ tw' \in [Entries -> States]
    BY <1>1, <1>2 DEF PushReaches
<1>4. There(tw') = There(tw)
    BY <1>1, <1>2, <1>3 DEF There, PushReaches
<1>5. /\ caller' = NoLongerQuiet
      /\ UNCHANGED <<rows, runs, lock, file, tmp, memory, count>>
      /\ count' \in [changes : Nat, crashes : Nat]
    BY DEF PushReaches, ShapeOK
<1>6. [p EXCEPT !.reached = TRUE]
        \in [id : 1..MaxChanges, entry : Entries, state : BOOLEAN, reached : BOOLEAN]
    BY <1>1
<1>7. pushes' \subseteq [id : 1..MaxChanges, entry : Entries, state : BOOLEAN, reached : BOOLEAN]
    BY <1>6 DEF PushReaches, TypeOK
<1>8. \A b \in Callers : caller[b].pc = "fetch" => Seen(b)' = Seen(b)
    BY <1>4, <1>5, NotersSee DEF There
<1>9. QED
    BY <1>1, <1>3, <1>4, <1>5, <1>7, <1>8, RunsRest, OutsideMoves

LEMMA MirroredStep ==
    ASSUME SyncAssumption, SyncInv, NEW p \in pushes, PushIsMirrored(p)
    PROVE  SyncInv'
<1> USE DEF SyncInv
<1>1. /\ p \in [id : 1..MaxChanges, entry : Entries, state : BOOLEAN, reached : BOOLEAN]
      /\ tw \in [Entries -> States] /\ rows \in [Entries -> States]
    BY DEF TypeOK
<1>2. p.entry \in Entries /\ p.state \in States /\ p.state # Gone /\ Gone \in States
    BY <1>1 DEF SyncAssumption, States
<1>3. rows' = [rows EXCEPT ![p.entry] = IF rows[p.entry] = Gone THEN Gone ELSE p.state]
    BY DEF PushIsMirrored
<1>4. rows' \in [Entries -> States]
    BY <1>1, <1>2, <1>3
<1>5. \A e \in Entries : rows[e] # Gone => rows'[e] # Gone
    BY <1>1, <1>2, <1>3
<1>6. /\ caller' = NoLongerQuiet
      /\ UNCHANGED <<tw, runs, lock, file, tmp, memory, count>>
      /\ count' \in [changes : Nat, crashes : Nat]
    BY DEF PushIsMirrored, ShapeOK
<1>7. pushes' \subseteq [id : 1..MaxChanges, entry : Entries, state : BOOLEAN, reached : BOOLEAN]
    BY DEF PushIsMirrored, TypeOK
<1>8. \A b \in Callers : caller[b].pc = "fetch" => Seen(b)' = Seen(b)
    BY <1>6, NotersSee DEF There
<1>9. QED
    BY <1>1, <1>4, <1>5, <1>6, <1>7, <1>8, RunsRest, OutsideMoves

\* Everything but the pushes and the counters stays.
LEMMA PushesMove ==
    ASSUME SyncInv, UNCHANGED <<tw, rows, runs, lock, caller, file, tmp, memory>>,
           pushes' \subseteq [id : 1..MaxChanges, entry : Entries, state : BOOLEAN,
                              reached : BOOLEAN],
           count' \in [changes : Nat, crashes : Nat]
    PROVE  SyncInv'
<1> USE DEF SyncInv
<1>1. ShapeOK' /\ StoresOK'
    BY DEF ShapeOK, StoresOK, Syncing, Holding
<1>2. FetchOK' /\ RowsOK'
    BY FetchStays DEF RowsOK, Watched
<1>3. TypeOK'
    BY DEF TypeOK, Syncing, IsStore
<1>4. QED
    BY <1>1, <1>2, <1>3

LEMMA QueueSteps ==
    ASSUME SyncAssumption, SyncInv,
           \/ \E e \in Entries, state \in BOOLEAN : QueuePush(e, state)
           \/ \E p \in pushes : PushFails(p)
           \/ UNCHANGED vars
    PROVE  SyncInv'
<1> USE DEF SyncInv
<1>1. ASSUME NEW e \in Entries, NEW state \in BOOLEAN, QueuePush(e, state)
      PROVE  SyncInv'
    <2>1. count.changes \in Nat /\ count.changes < MaxChanges /\ MaxChanges \in Nat
        BY <1>1 DEF QueuePush, ShapeOK, SyncAssumption
    <2>2. [id |-> count.changes + 1, entry |-> e, state |-> state, reached |-> FALSE]
            \in [id : 1..MaxChanges, entry : Entries, state : BOOLEAN, reached : BOOLEAN]
        BY <2>1
    <2>3. count' \in [changes : Nat, crashes : Nat]
        BY <1>1 DEF QueuePush, ShapeOK
    <2>4. QED
        BY <1>1, <2>2, <2>3, PushesMove DEF QueuePush, TypeOK
<1>2. ASSUME NEW p \in pushes, PushFails(p)
      PROVE  SyncInv'
    BY <1>2, PushesMove DEF PushFails, TypeOK, ShapeOK
<1>3. CASE UNCHANGED vars
    BY <1>3, PushesMove DEF vars, TypeOK, ShapeOK
<1>4. QED
    BY <1>1, <1>2, <1>3

LEMMA DeathStep ==
    ASSUME SyncAssumption, SyncInv, NEW process \in Processes, Dies(process)
    PROVE  SyncInv'
<1> USE DEF SyncInv
<1>1. /\ process \subseteq Callers
      /\ UNCHANGED <<tw, rows, runs, file, tmp>>
      /\ memory' = NoStore \/ memory' = memory
      /\ pushes' \subseteq pushes
      /\ count' \in [changes : Nat, crashes : Nat]
    BY DEF Dies, Processes, Callers, ShapeOK
<1>2. caller \in [Callers -> CallerRow] /\ Idle \in CallerRow /\ Idle.pc = "idle"
    BY DEF ShapeOK, Idle, CallerRow
<1>3. caller' = [c \in Callers |-> IF c \in process THEN Idle ELSE caller[c]]
    BY DEF Dies
<1>4. /\ caller' \in [Callers -> CallerRow]
      /\ \A b \in process : caller'[b].pc = "idle" /\ ~ Syncing(b)' /\ ~ Holding(b)'
      /\ \A b \in Callers \ process : caller'[b] = caller[b]
    BY <1>1, <1>2, <1>3 DEF Syncing, Holding
<1>5. StoresOK'
    <2>1. Evolves(runs, runs')
        BY <1>1, RunsRest
    <2>2. file' = file /\ tmp' = tmp /\ (Good(memory', runs') \/ memory' = memory)
        BY <1>1 DEF Good
    <2>3. \A c \in Callers : Holding(c)' => Holding(c) /\ caller'[c].store = caller[c].store
        BY <1>4 DEF Holding
    <2>4. QED
        BY <2>1, <2>2, <2>3, StoresStay
<1>6. ShapeOK'
    BY <1>1, <1>4 DEF ShapeOK, Syncing
<1>7. FetchOK' /\ RowsOK'
    <2>1. \A b \in Callers : caller'[b].pc = "fetch" => caller'[b] = caller[b]
        BY <1>4
    <2>2. QED
        BY <1>1, <2>1, FetchStays DEF RowsOK, Watched
<1>8. TypeOK'
    <2>1. (IsStore(file) /\ IsStore(tmp) /\ IsStore(memory))'
        BY <1>1 DEF TypeOK, IsStore
    <2>2. lock \in Callers \cup {NoCaller} /\ NoCaller \notin Callers
        BY DEF TypeOK, SyncAssumption, Callers
    <2>3. lock' = IF lock \in process THEN NoCaller ELSE lock
        BY DEF Dies
    <2>4. ASSUME NEW b \in process
          PROVE  lock' # b /\ ~ Syncing(b)'
        BY <1>1, <1>4, <2>2, <2>3
    <2>5. ASSUME NEW b \in Callers \ process
          PROVE  /\ (lock' = b) = Syncing(b)'
                 /\ Syncing(b)' => runs'[caller'[b].run].status =
                                     IF caller'[b].pc = "fetch" THEN "running" ELSE "complete"
        <3>1. caller'[b] = caller[b] /\ runs' = runs
            BY <1>1, <1>4
        <3>2. Syncing(b)' = Syncing(b)
            BY <3>1 DEF Syncing
        <3>3. (lock' = b) = (lock = b)
            BY <2>2, <2>3
        <3>4. (lock = b) = Syncing(b)
            BY DEF TypeOK
        <3>5. (lock' = b) = Syncing(b)'
            BY <3>2, <3>3, <3>4, Zenon
        <3>6. Syncing(b) => runs[caller[b].run].status =
                              IF caller[b].pc = "fetch" THEN "running" ELSE "complete"
            BY DEF TypeOK
        <3>7. Syncing(b)' => runs'[caller'[b].run].status =
                               IF caller'[b].pc = "fetch" THEN "running" ELSE "complete"
            BY <3>1, <3>2, <3>6
        <3>8. QED
            BY <3>5, <3>7, Zenon
    <2>6. ASSUME NEW b \in Callers
          PROVE  (/\ (lock = b) = Syncing(b)
                  /\ Syncing(b) => runs[caller[b].run].status =
                                      IF caller[b].pc = "fetch" THEN "running" ELSE "complete")'
        <3>1. CASE b \in process
            <4>1. (lock' = b) = FALSE /\ Syncing(b)' = FALSE
                BY <2>4, <3>1 DEF Syncing
            <4>2. QED
                BY <4>1, Zenon
        <3>2. CASE b \notin process
            BY <2>5, <3>2, Zenon
        <3>3. QED
            BY <3>1, <3>2
    <2>7. lock' \in Callers \cup {NoCaller}
        BY <2>2, <2>3
    <2>8. QED
        BY <1>1, <2>1, <2>6, <2>7 DEF TypeOK
<1>9. QED
    BY <1>5, <1>6, <1>7, <1>8

-----------------------------------------------------------------------------
(* The theorems. *)

LEMMA InitInv ==
    ASSUME SyncAssumption, Init
    PROVE  SyncInv
<1> USE DEF Init
<1>1. /\ \A c \in Callers : caller[c].pc = "idle" /\ ~ Syncing(c) /\ ~ Holding(c)
      /\ caller \in [Callers -> CallerRow]
    BY DEF Idle, CallerRow, Syncing, Holding
<1>2. DOMAIN runs = {} /\ runs \in Seq(RunRow)
    BY EmptySeq
<1>3. TypeOK
    <2>1. tw \in [Entries -> States] /\ rows \in [Entries -> States]
        BY DEF SyncAssumption, States
    <2>2. \A c \in Callers : (lock = c) = Syncing(c)
        <3>1. \A c \in Callers : lock # c
            BY DEF SyncAssumption, Callers
        <3>2. ASSUME NEW c \in Callers
              PROVE  (lock = c) = Syncing(c)
            <4>1. (lock = c) = FALSE /\ Syncing(c) = FALSE
                BY <1>1, <3>1 DEF Syncing
            <4>2. QED
                BY <4>1, Zenon
        <3>3. QED
            BY <3>2
    <2>3. QED
        BY <1>1, <1>2, <2>1, <2>2 DEF TypeOK, RunRow, IsStore
<1>4. ShapeOK /\ StoresOK /\ FetchOK /\ RowsOK
    BY <1>1, <1>2 DEF ShapeOK, StoresOK, Good, FetchOK, RowsOK
<1>5. QED
    BY <1>3, <1>4 DEF SyncInv

LEMMA SyncsKeep ==
    ASSUME SyncAssumption, SyncInv, NEW c \in Callers, NEW end \in 1..Today,
           caller[c].pc \in {"idle", "load"}, Syncs(c, end)
    PROVE  SyncInv'
BY BeginStep, BlockedStep DEF Syncs

LEMMA NextInv ==
    ASSUME SyncAssumption, SyncInv, [Next]_vars
    PROVE  SyncInv'
<1>1. ASSUME NEW c \in Callers, SyncStep(c)
      PROVE  SyncInv'
    BY <1>1, FetchStep, PersistStep, ReadBackStep, WriteStep, RenameStep, FailStep DEF SyncStep
<1>2. Today \in 1..Today
    BY DEF SyncAssumption
<1>3. ASSUME NEW c \in Web, Refresh(c)
      PROVE  SyncInv'
    BY <1>3, SyncsKeep DEF Refresh, SyncAssumption, Callers
<1>4. ASSUME NEW c \in Web, Report(c)
      PROVE  SyncInv'
    <2>1. CASE ReportNeedsSync(c)
        BY <1>2, <2>1, SyncsKeep DEF ReportNeedsSync, NoFile, Callers
    <2>2. CASE ReadFile(c) \/ FileIsRead(c) \/ ReadRows(c) \/ RestoreStore(c)
        BY <2>2, ReadingSteps DEF Callers
    <2>3. QED
        BY <1>4, <2>1, <2>2 DEF Report
<1>5. CASE Nightly
    BY <1>2, <1>5, SyncsKeep DEF Nightly, Callers
<1>6. ASSUME NEW e \in Entries, NEW state \in States, TeamworkChanges(e, state)
      PROVE  SyncInv'
    BY <1>6, TeamworkStep
<1>7. ASSUME NEW e \in Entries, NEW state \in BOOLEAN, QueuePush(e, state)
      PROVE  SyncInv'
    BY <1>7, QueueSteps
<1>8. ASSUME NEW p \in pushes, PushReaches(p) \/ PushFails(p) \/ PushIsMirrored(p)
      PROVE  SyncInv'
    BY <1>8, ReachedStep, QueueSteps, MirroredStep
<1>9. ASSUME NEW process \in Processes, Dies(process)
      PROVE  SyncInv'
    BY <1>9, DeathStep
<1>10. CASE UNCHANGED vars
    BY <1>10, QueueSteps
<1>11. QED
    BY <1>1, <1>3, <1>4, <1>5, <1>6, <1>7, <1>8, <1>9, <1>10 DEF Next

LEMMA Covered ==
    ASSUME SyncInv
    PROVE  StoreCoversItsRun
<1>1. \A s \in Stores : Good(s, runs) /\ s # NoStore
    BY DEF SyncInv, StoresOK, Stores
<1>2. QED
    BY <1>1 DEF StoreCoversItsRun, Good, Watched

\* Whatever the callers, entries and bounds, every state has its type, and the
\* caller that synchronises (syncTeamworkStore) is the one that holds the
\* advisory lock and has the run that is open.
THEOREM SyncTypeCorrect == Spec => []TypeOK
<1>1. Init => SyncInv
    BY SyncAssumption, InitInv
<1>2. SyncInv /\ [Next]_vars => SyncInv'
    BY SyncAssumption, NextInv
<1>3. SyncInv => TypeOK
    BY DEF SyncInv
<1>4. QED
    BY <1>1, <1>2, <1>3, PTL DEF Spec

\* However a store got into the file, the memory of the web process or the
\* hands of a caller (writeTeamworkStore, readTeamworkStore,
\* readTeamworkStoreFromDatabase), it has every entry that was at Teamwork
\* throughout its run, falls into its days and did not slip, when another was
\* deleted, from the page to be read next onto one that was read (fetchAllPages).
THEOREM StoresCoverTheirRuns == Spec => []StoreCoversItsRun
<1>1. Init => SyncInv
    BY SyncAssumption, InitInv
<1>2. SyncInv /\ [Next]_vars => SyncInv'
    BY SyncAssumption, NextInv
<1>3. SyncInv => StoreCoversItsRun
    BY Covered
<1>4. QED
    BY <1>1, <1>2, <1>3, PTL DEF Spec

-----------------------------------------------------------------------------
(* A synchronisation nothing interferes with. *)

\* No later run is complete: whoever is refused the lock appends a failed one.
NewestRun(c) == \A r \in DOMAIN runs : runs[r].status = "complete" => r <= caller[c].run

Due(e, c) == e \in There(tw) /\ Day[e] <= runs[caller[c].run].end

\* What was fetched, what is in the rows and what was read back is at Teamwork.
UpToDate(c) ==
    /\ caller[c].pc = "fetch" =>
         /\ \A e \in DOMAIN caller[c].got : caller[c].got[e] = tw[e]
         /\ Whole(c) => \A e \in There(tw) :
              Day[e] < caller[c].from \/ e \in Seen(c) => e \in DOMAIN caller[c].got
    /\ caller[c].pc \in {"stored", "read", "written"} =>
         \A e \in Entries : Due(e, c) => rows[e] = tw[e]
    /\ caller[c].pc \in {"read", "written"} => \A e \in Entries : Due(e, c) => caller[c].store.entries[e] = tw[e]

Upright(c) == NewestRun(c) /\ (caller[c].quiet => UpToDate(c))

QuietOK == \A c \in Callers : Syncing(c) => Upright(c)

\* A synchronisation no step of which is taken, while others only append runs
\* or end theirs.
LEMMA QuietStays ==
    ASSUME SyncInv, QuietOK, NEW b \in Callers, Syncing(b), caller'[b] = caller[b],
           UNCHANGED <<tw, rows>>, Evolves(runs, runs'),
           \A r \in DOMAIN runs' : runs'[r].status = "complete" =>
              r \in DOMAIN runs /\ runs[r].status = "complete"
    PROVE  Upright(b)'
<1>1. caller[b].run \in DOMAIN runs /\ Upright(b)
    BY DEF SyncInv, ShapeOK, QuietOK, Upright
<1>2. runs'[caller[b].run].end = runs[caller[b].run].end
    BY <1>1 DEF Evolves
<1>3. NewestRun(b)'
    BY <1>1 DEF Upright, NewestRun
<1>4. There(tw)' = There(tw) /\ Seen(b)' = Seen(b)
    BY SeenStays DEF There
<1>5. \A e \in Entries : Due(e, b)' <=> Due(e, b)
    BY <1>2, <1>4 DEF Due
<1>6. UpToDate(b) => UpToDate(b)'
    BY <1>4, <1>5 DEF UpToDate, Whole
<1>7. QED
    BY <1>1, <1>3, <1>6 DEF Upright

LEMMA QuietBegins ==
    ASSUME SyncAssumption, SyncInv, QuietOK, NEW c \in Callers, NEW end \in 1..Today, Syncs(c, end),
           caller[c].pc \in {"idle", "load"}
    PROVE  QuietOK'
<1>1. caller \in [Callers -> CallerRow] /\ TypeOK
    BY DEF SyncInv, ShapeOK
<1>2. CASE Begin(c, end)
    <2>1. /\ runs' = Append1("running", end) /\ lock = NoCaller
          /\ caller' = [caller EXCEPT ![c] = Fetching(Len(runs) + 1, end)]
        BY <1>2 DEF Begin, CanLock
    <2>2. /\ DOMAIN runs' = DOMAIN runs \cup {Len(runs) + 1} /\ Len(runs) + 1 \in Nat
          /\ DOMAIN runs = 1..Len(runs)
        BY <1>1, <2>1, RunAppended, RunsTyped, LenProperties
    <2>3. \A b \in Callers : ~ Syncing(b)
        BY <2>1 DEF SyncInv, TypeOK, SyncAssumption, Callers
    <2>4. caller'[c] = Fetching(Len(runs) + 1, end) /\ \A b \in Callers : b # c => caller'[b] = caller[b]
        BY <1>1, <2>1
    <2>5. /\ caller'[c].pc = "fetch" /\ caller'[c].run = Len(runs) + 1
          /\ caller'[c].from = 1 /\ caller'[c].page = 1 /\ caller'[c].got = <<>>
        BY <2>4 DEF Fetching
    <2>6. NewestRun(c)'
        BY <2>2, <2>5 DEF NewestRun
    <2>7. UpToDate(c)'
        <3>1. \A e \in There(tw)' : ~ (Day[e] < 1)
            BY DEF There, SyncAssumption
        <3>2. Seen(c)' = {}
            BY <2>5, NothingSeen
        <3>3. QED
            BY <2>5, <3>1, <3>2, NothingFetched DEF UpToDate
    <2>8. QED
        BY <2>3, <2>4, <2>6, <2>7 DEF QuietOK, Upright, Syncing
<1>3. CASE Blocked(c, end)
    <2>1. /\ runs' = Append1("failed", end) /\ caller' = [caller EXCEPT ![c] = Idle]
          /\ UNCHANGED <<tw, rows>>
        BY <1>3 DEF Blocked
    <2>2. /\ Evolves(runs, runs')
          /\ \A r \in DOMAIN runs' : runs'[r].status = "complete" =>
                r \in DOMAIN runs /\ runs[r].status = "complete"
        <3>1. /\ Evolves(runs, runs') /\ DOMAIN runs' = DOMAIN runs \cup {Len(runs) + 1}
              /\ runs'[Len(runs) + 1] = [status |-> "failed", end |-> end, throughout |-> There(tw), slipped |-> {}]
              /\ \A r \in DOMAIN runs : runs'[r] = runs[r]
            BY <1>1, <2>1, RunAppended
        <3>2. QED
            BY <3>1
    <2>3. ~ Syncing(c)' /\ \A b \in Callers : b # c => caller'[b] = caller[b]
        BY <1>1, <2>1, DoneIsIdle DEF SyncInv
    <2>4. ASSUME NEW b \in Callers, Syncing(b)' PROVE Upright(b)'
        <3>1. b # c /\ caller'[b] = caller[b] /\ Syncing(b)
            BY <2>3, <2>4 DEF Syncing
        <3>2. QED
            BY <2>1, <2>2, <3>1, QuietStays
    <2>5. QED
        BY <2>4 DEF QuietOK, Upright
<1>4. QED
    BY <1>2, <1>3 DEF Syncs

LEMMA QuietFetches ==
    ASSUME SyncAssumption, SyncInv, QuietOK, NEW c \in Callers, FetchPage(c)
    PROVE  QuietOK'
<1>1. /\ caller[c] \in FetchRow /\ caller'[c] \in FetchRow
      /\ \A b \in Callers : b # c => caller'[b] = caller[b]
      /\ UNCHANGED <<tw, rows, runs>>
      /\ caller'[c].run = caller[c].run /\ caller'[c].got = Got(c)
      /\ caller'[c].quiet = caller[c].quiet
    BY PageStep DEF SyncInv
<1>2. caller[c].pc = "fetch" /\ caller'[c].pc = "fetch" /\ Syncing(c)
    BY <1>1 DEF FetchRow, Syncing
<1>3. NewestRun(c)'
    BY <1>1, <1>2 DEF QuietOK, Upright, NewestRun
<1>4. ASSUME caller[c].quiet PROVE UpToDate(c)'
    <2>1. UpToDate(c)
        BY <1>2, <1>4 DEF QuietOK, Upright
    <2>2. /\ DOMAIN Got(c) = DOMAIN caller[c].got \cup Page(c)
          /\ \A e \in DOMAIN Got(c) :
                Got(c)[e] = IF e \in Page(c) THEN tw[e] ELSE caller[c].got[e]
        BY <1>1, GotIt DEF SyncInv, FetchRow
    <2>3. \A e \in DOMAIN Got(c) : Got(c)[e] = tw[e]
        BY <1>2, <2>1, <2>2 DEF UpToDate
    <2>4. ASSUME Whole(c)', NEW e \in There(tw), Day[e] < caller'[c].from \/ e \in Seen(c)'
          PROVE  e \in DOMAIN Got(c)
        <3>1. Whole(c) /\ (Day[e] < caller[c].from \/ e \in Seen(c) \/ e \in Page(c))
            BY <2>4, PagesAdvance DEF SyncInv
        <3>2. QED
            BY <1>2, <2>1, <2>2, <3>1 DEF UpToDate
    <2>5. There(tw)' = There(tw)
        BY <1>1 DEF There
    <2>6. QED
        BY <1>1, <1>2, <2>3, <2>4, <2>5 DEF UpToDate
<1>5. \A b \in Callers : b # c => ~ Syncing(b)'
    BY <1>1, <1>2, OthersRest DEF SyncInv, Syncing
<1>6. QED
    BY <1>1, <1>3, <1>4, <1>5, Zenon DEF QuietOK, Upright

LEMMA QuietPersists ==
    ASSUME SyncAssumption, SyncInv, QuietOK, NEW c \in Callers, Persist(c)
    PROVE  QuietOK'
<1> DEFINE r == caller[c].run
           stored == [pc |-> "stored", run |-> r, quiet |-> caller[c].quiet]
<1>1. /\ caller \in [Callers -> CallerRow] /\ caller[c].pc = "fetch" /\ Syncing(c) /\ r \in DOMAIN runs
      /\ TypeOK
    BY DEF SyncInv, ShapeOK, Persist, Syncing
<1>2. /\ DOMAIN runs' = DOMAIN runs
      /\ \A q \in DOMAIN runs : q # r => runs'[q] = runs[q]
      /\ runs'[r].end = runs[r].end
    <2>1. runs' = [runs EXCEPT ![r].status = "complete"]
        BY DEF Persist
    <2>2. QED
        BY <1>1, <2>1, RunChanged
<1>3. caller'[c] = stored /\ \A b \in Callers : b # c => caller'[b] = caller[b]
    BY <1>1 DEF Persist
<1>4. r \in Nat
    BY <1>1, RunsTyped, LenProperties
<1>5. NewestRun(c)'
    BY <1>1, <1>2, <1>3, <1>4 DEF QuietOK, Upright, NewestRun
<1>6. ASSUME caller[c].quiet PROVE UpToDate(c)'
    <2>1. UpToDate(c) /\ Whole(c) /\ caller[c].from > caller[c].end /\ tw' = tw
        BY <1>1, <1>6 DEF QuietOK, Upright, Persist
    <2>2. runs[r].end = caller[c].end /\ caller[c].end \in Int /\ caller[c].from \in Int
        BY <1>1 DEF SyncInv, FetchOK, CallerRow, FetchRow
    <2>3. rows' = [e \in Entries |-> IF e \in DOMAIN caller[c].got THEN caller[c].got[e] ELSE rows[e]]
        BY DEF Persist, Merged
    <2>4. ASSUME NEW e \in Entries, Due(e, c)' PROVE rows'[e] = tw'[e]
        <3>1. e \in There(tw) /\ Day[e] <= caller[c].end /\ Day[e] \in Int
            BY <1>2, <1>3, <2>1, <2>2, <2>4 DEF Due, There, SyncAssumption
        <3>2. e \in DOMAIN caller[c].got
            BY <1>1, <2>1, <2>2, <3>1 DEF UpToDate
        <3>3. QED
            BY <1>1, <2>1, <2>3, <3>2 DEF UpToDate
    <2>5. QED
        BY <1>3, <2>4 DEF UpToDate
<1>7. \A b \in Callers : b # c => ~ Syncing(b)'
    BY <1>1, <1>3, OthersRest DEF SyncInv, Syncing
<1>8. QED
    BY <1>3, <1>5, <1>6, <1>7 DEF QuietOK, Upright

LEMMA QuietReadsBack ==
    ASSUME SyncAssumption, SyncInv, QuietOK, NEW c \in Callers, ReadBack(c)
    PROVE  QuietOK'
<1> DEFINE r == caller[c].run
           read == [pc |-> "read", run |-> r, quiet |-> caller[c].quiet, store |-> StoredRows]
<1>1. /\ caller \in [Callers -> CallerRow] /\ caller[c].pc = "stored" /\ Syncing(c) /\ r \in DOMAIN runs
      /\ runs[r].status = "complete" /\ UNCHANGED <<tw, rows, runs>> /\ runs \in Seq(RunRow)
    BY RunsTyped DEF SyncInv, ShapeOK, TypeOK, ReadBack, Syncing
<1>2. caller'[c] = read /\ \A b \in Callers : b # c => caller'[b] = caller[b]
    BY <1>1 DEF ReadBack
<1>3. LatestRun = r
    <2> DEFINE S == {0} \cup {q \in DOMAIN runs : runs[q].status = "complete"}
    <2>1. Len(runs) \in Nat /\ DOMAIN runs = 1..Len(runs)
        BY <1>1, LenProperties
    <2>2. S \in SUBSET (0..Len(runs)) /\ S # {} /\ r \in S
        BY <1>1, <2>1
    <2>3. Max(S) \in S /\ Max(S) >= r
        BY <2>1, <2>2, LastOne
    <2>4. \A q \in S : q <= r
        BY <1>1, <2>1 DEF QuietOK, Upright, NewestRun
    <2>5. Max(S) = r
        BY <2>1, <2>2, <2>3, <2>4
    <2>6. QED
        BY <2>5 DEF LatestRun
<1>4. StoredRows.entries = [e \in {e \in There(rows) : Day[e] <= runs[r].end} |-> rows[e]]
    BY <1>1, <1>3, LenProperties DEF StoredRows
<1>5. NewestRun(c)'
    BY <1>1, <1>2 DEF QuietOK, Upright, NewestRun
<1>6. ASSUME caller[c].quiet PROVE UpToDate(c)'
    <2>1. \A e \in Entries : Due(e, c) => rows[e] = tw[e]
        BY <1>1, <1>6 DEF QuietOK, Upright, UpToDate
    <2>2. \A e \in Entries : Due(e, c)' <=> Due(e, c)
        BY <1>1, <1>2 DEF Due, There
    <2>3. ASSUME NEW e \in Entries, Due(e, c) PROVE StoredRows.entries[e] = tw[e]
        <3>1. e \in {d \in There(rows) : Day[d] <= runs[r].end}
            BY <2>1, <2>3 DEF Due, There
        <3>2. QED
            BY <1>4, <2>1, <2>3, <3>1
    <2>4. QED
        BY <1>1, <1>2, <2>1, <2>2, <2>3 DEF UpToDate
<1>7. \A b \in Callers : b # c => ~ Syncing(b)'
    BY <1>1, <1>2, OthersRest DEF SyncInv, Syncing
<1>8. QED
    BY <1>2, <1>5, <1>6, <1>7 DEF QuietOK, Upright

LEMMA QuietWrites ==
    ASSUME SyncAssumption, SyncInv, QuietOK, NEW c \in Callers, WriteStore(c)
    PROVE  QuietOK'
<1> DEFINE written == [pc |-> "written", run |-> caller[c].run, quiet |-> caller[c].quiet,
                       store |-> caller[c].store]
<1>1. /\ caller \in [Callers -> CallerRow] /\ caller[c].pc = "read" /\ Syncing(c)
      /\ UNCHANGED <<tw, rows, runs>>
    BY DEF SyncInv, ShapeOK, WriteStore, Syncing
<1>2. caller'[c] = written /\ \A b \in Callers : b # c => caller'[b] = caller[b]
    BY <1>1 DEF WriteStore
<1>3. NewestRun(c)'
    BY <1>1, <1>2 DEF QuietOK, Upright, NewestRun
<1>4. ASSUME caller[c].quiet PROVE UpToDate(c)'
    <2>1. UpToDate(c)
        BY <1>1, <1>4 DEF QuietOK, Upright
    <2>2. \A e \in Entries : Due(e, c)' <=> Due(e, c)
        BY <1>1, <1>2 DEF Due, There
    <2>3. QED
        BY <1>1, <1>2, <2>1, <2>2 DEF UpToDate
<1>5. \A b \in Callers : b # c => ~ Syncing(b)'
    BY <1>1, <1>2, OthersRest DEF SyncInv, Syncing
<1>6. QED
    BY <1>2, <1>3, <1>4, <1>5 DEF QuietOK, Upright

LEMMA QuietEnds ==
    ASSUME SyncAssumption, SyncInv, QuietOK, NEW c \in Callers, RenameStore(c) \/ Fails(c)
    PROVE  QuietOK'
<1>1. Syncing(c) /\ caller' = [caller EXCEPT ![c] = Idle]
    BY DEF RenameStore, Fails, Syncing
<1>2. \A b \in Callers : ~ Syncing(b)'
    BY <1>1, DoneIsIdle, OthersRest DEF SyncInv, Syncing
<1>3. QED
    BY <1>2 DEF QuietOK, Upright

\* Reports, pushes that wait or fail, and processes that die.
LEMMA QuietRests ==
    ASSUME SyncInv, QuietOK, UNCHANGED <<tw, rows, runs>>,
           \A b \in Callers : Syncing(b)' => Syncing(b) /\ caller'[b] = caller[b]
    PROVE  QuietOK'
<1>1. Evolves(runs, runs')
    BY RunsRest DEF SyncInv
<1>2. QED
    BY <1>1, QuietStays DEF QuietOK, Upright

\* Whatever changes an entry is noted by who synchronises.
LEMMA QuietNotes ==
    ASSUME SyncInv, QuietOK, caller' = NoLongerQuiet, DOMAIN runs' = DOMAIN runs,
           \A r \in DOMAIN runs : runs'[r].status = runs[r].status
    PROVE  QuietOK'
<1>1. ASSUME NEW b \in Callers, Syncing(b)'
      PROVE  Syncing(b) /\ ~ caller'[b].quiet /\ caller'[b].run = caller[b].run
    <2>1. Syncing(b) /\ caller'[b].run = caller[b].run
        BY <1>1, NotingMoves DEF SyncInv
    <2>2. caller'[b] = [caller[b] EXCEPT !.quiet = FALSE] /\ caller[b] \in CallerRow
        BY <2>1 DEF NoLongerQuiet, SyncInv, ShapeOK
    <2>3. ~ caller'[b].quiet
        <3>1. CASE caller[b].pc = "fetch"
            <4>1. caller[b] \in FetchRow
                BY <2>2, <3>1 DEF CallerRow, FetchRow
            <4>2. QED
                BY <2>2, <4>1, Zenon DEF FetchRow
        <3>2. CASE caller[b].pc = "stored"
            <4>1. caller[b] \in [pc : {"stored"}, run : Nat, quiet : BOOLEAN]
                BY <2>2, <3>2 DEF CallerRow, FetchRow
            <4>2. QED
                BY <2>2, <4>1, Zenon
        <3>3. CASE caller[b].pc \in {"read", "written"}
            <4>1. caller[b] \in [pc : {"read", "written"}, run : Nat, quiet : BOOLEAN, store : Store]
                BY <2>2, <3>3 DEF CallerRow, FetchRow
            <4>2. QED
                BY <2>2, <4>1, Zenon
        <3>4. QED
            BY <2>1, <3>1, <3>2, <3>3 DEF Syncing
    <2>4. QED
        BY <2>1, <2>3
<1>2. QED
    BY <1>1 DEF QuietOK, Upright, NewestRun

LEMMA QuietInit == Init => QuietOK
BY DEF Init, QuietOK, Upright, Syncing, Idle

LEMMA QuietKeeps ==
    ASSUME SyncAssumption, SyncInv, QuietOK, [Next]_vars
    PROVE  QuietOK'
<1>1. Today \in 1..Today /\ Web \subseteq Callers
    BY DEF SyncAssumption, Callers
<1>2. caller \in [Callers -> CallerRow] /\ Idle.pc = "idle"
    BY DEF SyncInv, ShapeOK, Idle
<1>3. ASSUME NEW c \in Callers, SyncStep(c) PROVE QuietOK'
    BY <1>3, QuietFetches, QuietPersists, QuietReadsBack, QuietWrites, QuietEnds DEF SyncStep
<1>4. ASSUME NEW c \in Web, Refresh(c) PROVE QuietOK'
    BY <1>1, <1>4, QuietBegins DEF Refresh, SyncAssumption
<1>5. ASSUME NEW c \in Web, ReportNeedsSync(c) PROVE QuietOK'
    BY <1>1, <1>5, QuietBegins DEF ReportNeedsSync, NoFile
<1>6. CASE Nightly
    BY <1>1, <1>6, QuietBegins DEF Nightly, Callers
<1>7. ASSUME NEW c \in Web, ReadFile(c) \/ FileIsRead(c) \/ ReadRows(c) \/ RestoreStore(c)
      PROVE  QuietOK'
    <2>1. PICK row : /\ caller' = [caller EXCEPT ![c] = row]
                     /\ row.pc \in {"idle", "load", "restore", "restored"}
        BY <1>2, <1>7 DEF ReadFile, FileIsRead, ReadRows, RestoreStore, WriteRestored,
                          RenameRestored, RestoreFails
    <2>2. UNCHANGED <<tw, rows, runs>>
        BY <1>7 DEF ReadFile, FileIsRead, ReadRows, RestoreStore, WriteRestored,
                    RenameRestored, RestoreFails
    <2>3. \A b \in Callers : Syncing(b)' => Syncing(b) /\ caller'[b] = caller[b]
        BY <1>2, <2>1 DEF Syncing
    <2>4. QED
        BY <2>2, <2>3, QuietRests
<1>8. ASSUME NEW e \in Entries, NEW state \in States, TeamworkChanges(e, state) PROVE QuietOK'
    <2>1. /\ DOMAIN runs' = DOMAIN runs /\ caller' = NoLongerQuiet
          /\ \A r \in DOMAIN runs : runs[r] \in RunRow
          /\ \A r \in DOMAIN runs : \/ runs'[r] = runs[r]
                                    \/ \E some, more : runs'[r] = [runs[r] EXCEPT
                                                       !.throughout = some, !.slipped = more]
        BY <1>8, RunsTyped DEF TeamworkChanges, Without, SyncInv
    <2>2. \A r \in DOMAIN runs : runs'[r].status = runs[r].status
        BY <2>1 DEF RunRow
    <2>3. QED
        BY <2>1, <2>2, QuietNotes
<1>9. ASSUME NEW p \in pushes, PushReaches(p) \/ PushIsMirrored(p) PROVE QuietOK'
    BY <1>9, QuietNotes DEF PushReaches, PushIsMirrored
<1>10. ASSUME \/ \E e \in Entries, state \in BOOLEAN : QueuePush(e, state)
              \/ \E p \in pushes : PushFails(p)
              \/ UNCHANGED vars
       PROVE  QuietOK'
    <2>1. UNCHANGED <<tw, rows, runs, caller>>
        BY <1>10 DEF QueuePush, PushFails, vars
    <2>2. QED
        BY <2>1, QuietRests DEF Syncing
<1>11. ASSUME NEW process \in Processes, Dies(process) PROVE QuietOK'
    <2>1. /\ UNCHANGED <<tw, rows, runs>>
          /\ \A b \in Callers : caller'[b] = Idle \/ caller'[b] = caller[b]
        BY <1>11 DEF Dies
    <2>2. QED
        BY <1>2, <2>1, QuietRests DEF Syncing
<1>12. QED
    BY <1>3, <1>4, <1>5, <1>6, <1>7, <1>8, <1>9, <1>10, <1>11 DEF Next, Report

\* For any entries, callers, months and ends, and with reports, pushes and
\* deaths in between: a synchronisation that saw no entry change, and renames
\* what it wrote, leaves the rows, the file and a refresher's memory as Teamwork
\* has them (syncTeamworkStore, writeTeamworkStore).
THEOREM QuietSyncsShowTeamwork == Spec => QuietSyncShowsTeamwork
<1> DEFINE Shows == \A c \in Callers :
              RenameStore(c) /\ caller[c].quiet /\ tmp = caller[c].store =>
                \A e \in There(tw) : Day[e] <= runs[caller[c].run].end =>
                   /\ rows[e] = tw[e]
                   /\ file'.entries[e] = tw[e]
                   /\ c \in Web => memory'.entries[e] = tw[e]
<1>1. QuietOK /\ [Next]_vars => [Shows]_vars
    <2> SUFFICES ASSUME QuietOK, NEW c \in Callers, RenameStore(c), caller[c].quiet,
                        tmp = caller[c].store, NEW e \in There(tw), Day[e] <= runs[caller[c].run].end
                 PROVE  /\ rows[e] = tw[e]
                        /\ file'.entries[e] = tw[e]
                        /\ c \in Web => memory'.entries[e] = tw[e]
        OBVIOUS
    <2>1. UpToDate(c) /\ caller[c].pc = "written" /\ e \in Entries /\ Due(e, c)
        BY DEF QuietOK, Upright, RenameStore, Syncing, Due, There
    <2>2. QED
        BY <2>1 DEF UpToDate, RenameStore, Remembered
<1>2. Init => SyncInv
    BY SyncAssumption, InitInv
<1>3. SyncInv /\ [Next]_vars => SyncInv'
    BY SyncAssumption, NextInv
<1>4. SyncInv /\ QuietOK /\ [Next]_vars => QuietOK'
    BY SyncAssumption, QuietKeeps
<1>5. Spec => [][Shows]_vars
    BY <1>1, <1>2, <1>3, <1>4, QuietInit, PTL DEF Spec
<1>6. QED
    BY <1>5 DEF QuietSyncShowsTeamwork

=============================================================================
