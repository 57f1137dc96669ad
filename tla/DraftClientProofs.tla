-------------------------- MODULE DraftClientProofs --------------------------
(***************************************************************************)
(* The invariants and action properties of QuoteDraft, for any sets of     *)
(* drafts, sessions and document types and any bounds; and what the tabs   *)
(* know of a draft, for any number of tabs, versions and previews, and     *)
(* however late answers come.                                              *)
(***************************************************************************)
EXTENDS DraftClient, TLAPS

-----------------------------------------------------------------------------
(* The rows: QuoteDraft. *)

\* What a handler writes back is a row again.
LEMMA RowsStayRows ==
    ASSUME NEW row \in DraftRow
    PROVE  /\ Released(row) \in DraftRow
           /\ NextVersion(row) \in DraftRow
           /\ \A s \in Sessions : Granted(row, s) \in DraftRow /\ Revised(row, s) \in DraftRow
<1>1. LockTtl \in 0..LockTtl /\ 0 \in 0..LockTtl
    BY LockTtlAssumption
<1>2. Released(row) \in DraftRow
    BY <1>1, Zenon DEF DraftRow, Released
<1>3. ASSUME NEW r \in DraftRow
      PROVE  NextVersion(r) \in DraftRow /\ [r EXCEPT !.content = @ + 1] \in DraftRow
    BY DEF DraftRow, NextVersion
<1>4. ASSUME NEW s \in Sessions
      PROVE  Granted(row, s) \in DraftRow /\ Revised(row, s) \in DraftRow
    <2>1. Granted(row, s) \in DraftRow
        BY <1>1, Zenon DEF DraftRow, Granted
    <2>2. QED
        BY <2>1, <1>3 DEF Revised
<1>5. QED
    BY <1>2, <1>3, <1>4

\* So is what a handler writes into a single column.
LEMMA ColumnsStayTyped ==
    ASSUME NEW row \in DraftRow
    PROVE  /\ \A type \in DocTypes : [row EXCEPT !.docType = type] \in DraftRow
           /\ \A b \in BOOLEAN : [row EXCEPT !.archived = b] \in DraftRow
           /\ row.ttl > 0 => [row EXCEPT !.ttl = @ - 1] \in DraftRow
<1>1. \A type \in DocTypes : [row EXCEPT !.docType = type] \in DraftRow
    BY Zenon DEF DraftRow
<1>2. \A b \in BOOLEAN : [row EXCEPT !.archived = b] \in DraftRow
    BY Zenon DEF DraftRow
<1>3. row.ttl > 0 => row.ttl - 1 \in 0..LockTtl
    BY LockTtlAssumption DEF DraftRow
<1>4. row.ttl > 0 => [row EXCEPT !.ttl = @ - 1] \in DraftRow
    BY <1>3, Zenon DEF DraftRow
<1>5. QED
    BY <1>1, <1>2, <1>4

\* Putting a row in its place leaves the other drafts alone.
LEMMA PutKeepsRows ==
    ASSUME draft \in [Drafts -> DraftRow],
           NEW d \in Drafts, NEW row \in DraftRow, Put(d, row)
    PROVE  /\ draft' \in [Drafts -> DraftRow]
           /\ draft'[d] = row
           /\ \A e \in Drafts \ {d} : draft'[e] = draft[e]
BY DEF Put

\* Every step of the lifecycle keeps the rows and the logouts well formed.
LEMMA TypeStep == TypeOK /\ Next => TypeOK'
<1> SUFFICES ASSUME TypeOK, Next PROVE TypeOK'
    OBVIOUS
<1> USE DEF TypeOK
<1>1. ASSUME NEW d \in Drafts, NEW s \in Sessions, NEW v \in 1..MaxVersion,
             EditorStep(d, s, v)
      PROVE  TypeOK'
    <2>1. draft[d] \in DraftRow
        OBVIOUS
    <2>2. CASE UpdateTimeEntries(d, s, v)
        BY <2>1, <2>2, RowsStayRows, PutKeepsRows DEF UpdateTimeEntries
    <2>3. ASSUME NEW type \in DocTypes, UpdateMetadata(d, s, v, type) PROVE TypeOK'
        <3>1. [Revised(draft[d], s) EXCEPT !.docType = type] \in DraftRow
            BY <2>1, RowsStayRows, ColumnsStayTyped
        <3>2. QED
            BY <2>3, <3>1, PutKeepsRows DEF UpdateMetadata
    <2>4. CASE Archive(d, s, v)
        <3>1. NextVersion([Released(draft[d]) EXCEPT !.archived = TRUE]) \in DraftRow
            BY <2>1, RowsStayRows, ColumnsStayTyped
        <3>2. QED
            BY <2>4, <3>1, PutKeepsRows DEF Archive
    <2>5. CASE Restore(d, s, v)
        <3>1. NextVersion([Granted(draft[d], s) EXCEPT !.archived = FALSE]) \in DraftRow
            BY <2>1, RowsStayRows, ColumnsStayTyped
        <3>2. QED
            BY <2>5, <3>1, PutKeepsRows DEF Restore
    <2>6. QED
        BY <1>1, <2>2, <2>3, <2>4, <2>5 DEF EditorStep
<1>2. ASSUME NEW d \in Drafts, NEW s \in Sessions, AcquireLock(d, s) \/ RenewLock(d, s)
      PROVE  TypeOK'
    BY <1>2, RowsStayRows, PutKeepsRows DEF AcquireLock, RenewLock
<1>3. ASSUME NEW d \in Drafts, LockAges(d) PROVE TypeOK'
    <2>1. [draft[d] EXCEPT !.ttl = @ - 1] \in DraftRow
        BY <1>3, ColumnsStayTyped DEF LockAges
    <2>2. QED
        BY <1>3, <2>1, PutKeepsRows DEF LockAges
<1>4. ASSUME NEW s \in Sessions, LogoutSelects(s) \/ LogoutReleases(s)
      PROVE  TypeOK'
    <2>1. CASE LogoutSelects(s)
        BY <2>1 DEF LogoutSelects
    <2>2. CASE LogoutReleases(s)
        <3>1. \A d \in Drafts : Released(draft[d]) \in DraftRow
            BY RowsStayRows, <1>4
        <3>2. draft' \in [Drafts -> DraftRow]
            BY <2>2, <3>1 DEF LogoutReleases
        <3>3. QED
            BY <2>2, <3>2 DEF LogoutReleases, NotLeaving
    <2>3. QED
        BY <1>4, <2>1, <2>2
<1>5. QED
    BY <1>1, <1>2, <1>3, <1>4 DEF Next

\* Type correctness: every reachable row is one the schema admits.
THEOREM TypeCorrect == Spec => []TypeOK
<1>1. Init => TypeOK
    <2>1. ASSUME NEW s \in Sessions, NEW type \in DocTypes
          PROVE  NewDraft(s, type) \in DraftRow
        BY LockTtlAssumption DEF NewDraft, DraftRow, Statuses, SendStates
    <2>2. QED
        BY <2>1 DEF Init, TypeOK, NotLeaving
<1>2. TypeOK /\ UNCHANGED draftVars => TypeOK'
    BY DEF TypeOK, draftVars
<1>3. QED
    BY <1>1, <1>2, TypeStep, PTL DEF Spec

-----------------------------------------------------------------------------

\* What the helpers write: the lock, the version, nothing else.
LEMMA HelperColumns ==
    ASSUME NEW row \in DraftRow, NEW s
    PROVE  /\ Granted(row, s).holder = s
           /\ Granted(row, s).archived = row.archived
           /\ Granted(row, s).content = row.content
           /\ Granted(row, s).docType = row.docType
           /\ Released(row).holder = NoSession
           /\ Released(row).archived = row.archived
           /\ Released(row).content = row.content
           /\ Released(row).docType = row.docType
           /\ Revised(row, s).holder = s
           /\ Revised(row, s).archived = row.archived
           /\ Revised(row, s).version = row.version + 1
BY DEF DraftRow, Granted, Released, NextVersion, Revised

\* What one step may do to one row.  Everything the properties need of the
\* handlers is here; only AcquireLock, Restore and the logout ever change the
\* holder of a row whose content stays.
RowStep(old, new) ==
    \/ new = old
    \/ \E s \in Sessions :
         /\ ~old.archived /\ (Locked(old) => old.holder = s)
         /\ new = Granted(old, s)
    \/ new = Released(old)
    \/ old.ttl > 0 /\ new = [old EXCEPT !.ttl = @ - 1]
    \/ \E s \in Sessions, type \in DocTypes :
         /\ ~old.archived /\ HoldsLock(old, s)
         /\ new = Revised(old, s) \/ new = [Revised(old, s) EXCEPT !.docType = type]
    \/ new = NextVersion([Released(old) EXCEPT !.archived = TRUE])
    \/ \E s \in Sessions :
         /\ old.archived
         /\ new = NextVersion([Granted(old, s) EXCEPT !.archived = FALSE])

\* Every step of the lifecycle does that to every row.
LEMMA StepsAreRowSteps ==
    ASSUME TypeOK, Next
    PROVE  \A d \in Drafts : RowStep(draft[d], draft'[d])
<1> USE DEF TypeOK
<1>1. ASSUME NEW d \in Drafts, NEW s \in Sessions, NEW v \in 1..MaxVersion,
             EditorStep(d, s, v)
      PROVE  \A e \in Drafts : RowStep(draft[e], draft'[e])
    <2>1. CASE UpdateTimeEntries(d, s, v)
        <3>1. draft[d].docType \in DocTypes
            BY DEF DraftRow
        <3>2. QED
            BY <2>1, <3>1 DEF UpdateTimeEntries, MayMutate, Put, RowStep
    <2>2. ASSUME NEW type \in DocTypes, UpdateMetadata(d, s, v, type)
          PROVE  \A e \in Drafts : RowStep(draft[e], draft'[e])
        <3>1. RowStep(draft[d], [Revised(draft[d], s) EXCEPT !.docType = type])
            BY <2>2 DEF UpdateMetadata, MayMutate, RowStep
        <3>2. QED
            BY <2>2, <3>1 DEF UpdateMetadata, Put, RowStep
    <2>3. CASE Archive(d, s, v)
        BY <2>3 DEF Archive, Put, RowStep
    <2>4. CASE Restore(d, s, v)
        BY <2>4 DEF Restore, Put, RowStep
    <2>5. QED
        BY <1>1, <2>1, <2>2, <2>3, <2>4 DEF EditorStep
<1>2. ASSUME NEW d \in Drafts, NEW s \in Sessions, AcquireLock(d, s)
      PROVE  \A e \in Drafts : RowStep(draft[e], draft'[e])
    BY <1>2 DEF AcquireLock, Put, RowStep
<1>3. ASSUME NEW d \in Drafts, NEW s \in Sessions, RenewLock(d, s)
      PROVE  \A e \in Drafts : RowStep(draft[e], draft'[e])
    BY <1>3 DEF RenewLock, HoldsLock, Put, RowStep
<1>4. ASSUME NEW d \in Drafts, LockAges(d)
      PROVE  \A e \in Drafts : RowStep(draft[e], draft'[e])
    BY <1>4 DEF LockAges, Put, RowStep
<1>5. ASSUME NEW s \in Sessions, LogoutSelects(s) \/ LogoutReleases(s)
      PROVE  \A e \in Drafts : RowStep(draft[e], draft'[e])
    BY <1>5 DEF LogoutSelects, LogoutReleases, RowStep
<1>6. QED
    BY <1>1, <1>2, <1>3, <1>4, <1>5 DEF Next

\* An archived draft has no editor, whatever the bounds.
THEOREM ArchivedDraftsHaveNoEditor == Spec => []ArchivedHasNoEditor
<1>1. Init => ArchivedHasNoEditor
    BY DEF Init, ArchivedHasNoEditor, NewDraft
<1>2. ASSUME TypeOK, ArchivedHasNoEditor, Next
      PROVE  ArchivedHasNoEditor'
    <2> SUFFICES ASSUME NEW d \in Drafts, draft'[d].archived
                 PROVE  draft'[d].holder = NoSession
        BY DEF ArchivedHasNoEditor
    <2>1. /\ draft[d] \in DraftRow
          /\ draft[d].archived => draft[d].holder = NoSession
          /\ RowStep(draft[d], draft'[d])
        BY <1>2, StepsAreRowSteps DEF ArchivedHasNoEditor, TypeOK
    <2>2. QED
        BY <2>1 DEF RowStep, DraftRow, Granted, Released, NextVersion, Revised
<1>3. TypeOK /\ ArchivedHasNoEditor /\ [Next]_draftVars => ArchivedHasNoEditor'
    BY <1>2 DEF ArchivedHasNoEditor, draftVars
<1>4. QED
    BY <1>1, <1>3, TypeCorrect, PTL DEF Spec

\* No session ever loses an unexpired lock to another in one step: the case
\* that needs the invariant is Restore, which does not look at the lock.
THEOREM LocksAreNotStolen == Spec => LockIsNotStolen
<1>1. ASSUME TypeOK, ArchivedHasNoEditor, Next, NEW d \in Drafts,
             Locked(draft[d]), Locked(draft'[d])
      PROVE  draft[d].holder = draft'[d].holder
    <2>1. /\ draft[d] \in DraftRow
          /\ ~draft[d].archived
          /\ RowStep(draft[d], draft'[d])
        BY <1>1, StepsAreRowSteps DEF ArchivedHasNoEditor, TypeOK, Locked
    <2>2. QED
        BY <1>1, <2>1 DEF RowStep, DraftRow, Locked, HoldsLock, Granted, Released,
                         NextVersion, Revised
<1>2. TypeOK /\ ArchivedHasNoEditor /\ [Next]_draftVars
        => [\A d \in Drafts : Locked(draft[d]) /\ Locked(draft'[d])
              => draft[d].holder = draft'[d].holder]_draftVars
    BY <1>1
<1>3. QED
    BY <1>2, TypeCorrect, ArchivedDraftsHaveNoEditor, PTL DEF Spec, LockIsNotStolen

\* What a draft says changes only under a new version, by the one session that
\* holds its lock.
THEOREM RevisionsGetVersions == Spec => RevisionsAreVersioned
<1> DEFINE Change(d) ==
      \/ /\ draft'[d].content = draft[d].content
         /\ draft'[d].docType = draft[d].docType
      \/ /\ draft'[d].version > draft[d].version
         /\ Locked(draft[d])
         /\ draft'[d].holder = draft[d].holder
<1>1. ASSUME TypeOK, Next, NEW d \in Drafts
      PROVE  Change(d)
    <2>1. draft[d] \in DraftRow /\ RowStep(draft[d], draft'[d])
        BY <1>1, StepsAreRowSteps DEF TypeOK
    <2>2. ASSUME NEW s \in Sessions, NEW type \in DocTypes,
                 HoldsLock(draft[d], s),
                 \/ draft'[d] = Revised(draft[d], s)
                 \/ draft'[d] = [Revised(draft[d], s) EXCEPT !.docType = type]
          PROVE  Change(d)
        <3>1. draft'[d].holder = s /\ draft'[d].version = draft[d].version + 1
            <4>1. Revised(draft[d], s) \in DraftRow
                BY <2>1, RowsStayRows
            <4>2. /\ Revised(draft[d], s).holder = s
                  /\ Revised(draft[d], s).version = draft[d].version + 1
                BY <2>1, HelperColumns
            <4>3. QED
                BY <2>2, <4>1, <4>2 DEF DraftRow
        <3>2. QED
            BY <2>1, <2>2, <3>1 DEF HoldsLock, DraftRow
    <2>3. CASE \/ draft'[d] = draft[d]
               \/ draft'[d] = Released(draft[d])
               \/ draft'[d] = [draft[d] EXCEPT !.ttl = @ - 1]
               \/ draft'[d] = NextVersion([Released(draft[d]) EXCEPT !.archived = TRUE])
        BY <2>1, <2>3 DEF DraftRow, Released, NextVersion
    <2>4. ASSUME NEW s \in Sessions,
                 \/ draft'[d] = Granted(draft[d], s)
                 \/ draft'[d] = NextVersion([Granted(draft[d], s) EXCEPT !.archived = FALSE])
          PROVE  Change(d)
        BY <2>1, <2>4 DEF DraftRow, Granted, NextVersion
    <2>5. QED
        BY <2>1, <2>2, <2>3, <2>4 DEF RowStep
<1>2. TypeOK /\ [Next]_draftVars => [\A d \in Drafts : Change(d)]_draftVars
    BY <1>1
<1>3. QED
    BY <1>2, TypeCorrect, PTL DEF Spec, RevisionsAreVersioned

-----------------------------------------------------------------------------
(* The tabs: DraftClient. *)

Row == draft[Shared]

\* What stands under the version of the row says what the row says.
Exact(version, content, row) ==
    /\ version <= row.version
    /\ version = row.version => content = row.content

\* A tab sends no version above the one it shows.
TabFits(t, row) ==
    /\ t.version <= t.shown
    /\ Exact(t.shown, t.content, row)
    /\ t.pc = "answered" => Exact(t.answer.version, t.answer.content, row)

\* So does no preview it waits for, and a closed tab waits for nothing.
ClientFits ==
    \A s \in Sessions :
        /\ TabFits(tab[s], Row)
        /\ \A a \in inbox[s] : Exact(a.version, a.content, Row)
        /\ \A v \in previews[s] : v <= tab[s].shown
        /\ tab[s].pc = "closed" => inbox[s] = {} /\ previews[s] = {}

ClientInv == ClientTypeOK /\ ClientFits

-----------------------------------------------------------------------------
(* What a tab makes of an answer. *)

\* An answer says what the row says.
LEMMA RowAnswers ==
    ASSUME NEW row \in DraftRow
    PROVE  /\ RowAnswer(row) \in Answer
           /\ Exact(RowAnswer(row).version, RowAnswer(row).content, row)
BY DEF RowAnswer, Answer, DraftRow, Exact

\* A closed tab knows nothing.
LEMMA ClosedFits ==
    /\ ClosedTab \in Tab
    /\ \A row \in DraftRow : TabFits(ClosedTab, row)
<1>1. ClosedTab \in Tab
    BY DEF ClosedTab, Tab, NoAnswer
<1>2. \A row \in DraftRow : row.version > 0 /\ row.version \in Nat
    BY DEF DraftRow
<1>3. QED
    BY <1>1, <1>2 DEF ClosedTab, TabFits, Exact

\* Whatever the order of answers, what is shown only moves on.
LEMMA MergedFits ==
    ASSUME NEW t \in Tab, NEW a \in Answer \cup {NoAnswer}, NEW row \in DraftRow,
           TabFits(t, row), Exact(a.version, a.content, row)
    PROVE  /\ Merged(t, a) \in Tab
           /\ TabFits(Merged(t, a), row)
           /\ Merged(t, a).shown >= t.shown
           /\ Merged(t, a).pc = t.pc
<1>1. /\ t.version \in Nat /\ t.shown \in Nat /\ t.content \in Nat
      /\ a.version \in Nat /\ a.content \in Nat /\ row.version \in Nat
    BY DEF Tab, Answer, NoAnswer, DraftRow
<1>2. [t EXCEPT !.shown = a.version, !.content = a.content] \in Tab
    BY <1>1 DEF Tab
<1>3. Painted(t, a) \in Tab
    BY <1>2 DEF Painted
<1>4. [Painted(t, a) EXCEPT !.version = a.version] \in Tab
    BY <1>1, <1>3 DEF Tab
<1>5. Merged(t, a) \in Tab
    BY <1>4 DEF Merged
<1>6. CASE ~ResponseIsCurrent(t.version, a.version)
    BY <1>1, <1>5, <1>6 DEF Merged
<1>7. CASE ResponseIsCurrent(t.version, a.version)
    <2> DEFINE p == Painted(t, a)
    <2>1. /\ p.shown >= t.shown /\ a.version <= p.shown /\ p.shown \in Nat
          /\ Exact(p.shown, p.content, row)
          /\ p.pc = t.pc /\ p.answer = t.answer
        <3>1. CASE ResponseIsCurrent(t.shown, a.version)
            BY <1>1, <3>1 DEF Painted, ResponseIsCurrent, Tab
        <3>2. CASE ~ResponseIsCurrent(t.shown, a.version)
            BY <1>1, <3>2 DEF Painted, ResponseIsCurrent, TabFits
        <3>3. QED
            BY <3>1, <3>2
    <2> DEFINE m == [p EXCEPT !.version = a.version]
    <2>2. p \in Tab
        BY <1>3
    <2> HIDE DEF p
    <2>3. /\ m.version = a.version /\ m.shown = p.shown /\ m.content = p.content
          /\ m.pc = p.pc /\ m.answer = p.answer
        BY <2>2 DEF Tab
    <2>4. Merged(t, a) = m
        BY <1>7 DEF Merged, p
    <2> HIDE DEF m
    <2>5. QED
        BY <1>5, <2>1, <2>3, <2>4 DEF TabFits
<1>8. QED
    BY <1>6, <1>7

\* What the queue does to its tab: nothing but its operation changes.
SameView(t, u) == u.version = t.version /\ u.shown = t.shown /\ u.content = t.content

\* What settles, fails or waits shows what it showed.
LEMMA QueueSteps ==
    ASSUME NEW t \in Tab
    PROVE  /\ \A u \in {Idle(t), Settled(t), Failed(t)} :
                u \in Tab /\ SameView(t, u) /\ u.pc = "idle"
           /\ \A pc \in {"saving", "locked", "resent", "idle"} :
                /\ [t EXCEPT !.pc = pc] \in Tab /\ SameView(t, [t EXCEPT !.pc = pc])
                /\ [t EXCEPT !.pc = pc].pc = pc
           /\ \A b \in BOOLEAN : LET u == [t EXCEPT !.conflict = b]
                                 IN  u \in Tab /\ SameView(t, u) /\ u.pc = t.pc /\ u.answer = t.answer
           /\ LET u == [t EXCEPT !.kept = {}]
              IN  u \in Tab /\ SameView(t, u) /\ u.pc = t.pc /\ u.answer = t.answer
<1>1. Idle(t) \in Tab /\ SameView(t, Idle(t)) /\ Idle(t).pc = "idle"
    BY DEF Tab, Idle, SameView, NoAnswer
<1>2. \A u \in Tab : LET w == [u EXCEPT !.kept = {}]
                     IN  w \in Tab /\ SameView(u, w) /\ w.pc = u.pc /\ w.answer = u.answer
    BY DEF Tab, SameView
<1>3. Settled(t) \in Tab /\ SameView(t, Settled(t)) /\ Settled(t).pc = "idle"
    BY <1>1, <1>2 DEF Settled, SameView
<1>4. Failed(t) \in Tab /\ SameView(t, Failed(t)) /\ Failed(t).pc = "idle"
    <2>1. {t.base} \in SUBSET Nat
        BY DEF Tab
    <2>2. \A u \in Tab : LET w == [u EXCEPT !.kept = {t.base}]
                         IN  w \in Tab /\ SameView(u, w) /\ w.pc = u.pc
        BY <2>1 DEF Tab, SameView
    <2>3. QED
        BY <1>1, <2>2 DEF Failed, SameView
<1>5. \A pc \in {"saving", "locked", "resent", "idle"} :
         /\ [t EXCEPT !.pc = pc] \in Tab /\ SameView(t, [t EXCEPT !.pc = pc])
         /\ [t EXCEPT !.pc = pc].pc = pc
    BY DEF Tab, SameView
<1>6. \A b \in BOOLEAN : LET u == [t EXCEPT !.conflict = b]
                         IN  u \in Tab /\ SameView(t, u) /\ u.pc = t.pc /\ u.answer = t.answer
    BY DEF Tab, SameView
<1>7. QED
    BY <1>1, <1>2, <1>3, <1>4, <1>5, <1>6

\* A tab whose view stays and that waits for no answer still fits.
LEMMA SameViewFits ==
    ASSUME NEW t, NEW u, NEW row, TabFits(t, row), SameView(t, u), u.pc # "answered"
    PROVE  TabFits(u, row)
BY DEF TabFits, SameView

-----------------------------------------------------------------------------
(* What a step does to the row and to one tab. *)

\* The row's half of a step of the tabs.
DraftStep == Next \/ UNCHANGED draftVars

\* The version only grows, and a content belongs to its version.
Moves(old, new) ==
    /\ new.version >= old.version
    /\ new.version = old.version => new.content = old.content

\* What the lifecycle does to a row moves it so.
LEMMA RowStepsMove ==
    ASSUME NEW old \in DraftRow, NEW new \in DraftRow, RowStep(old, new)
    PROVE  Moves(old, new)
<1>1. CASE \/ new = old
           \/ new = Released(old)
           \/ new = [old EXCEPT !.ttl = @ - 1]
           \/ \E s \in Sessions : new = Granted(old, s)
    <2>1. new.version = old.version /\ new.content = old.content
        BY <1>1 DEF DraftRow, Released, Granted
    <2>2. QED
        BY <2>1 DEF Moves, DraftRow
<1>2. CASE \E s \in Sessions, type \in DocTypes :
              new = Revised(old, s) \/ new = [Revised(old, s) EXCEPT !.docType = type]
    <2> PICK s \in Sessions, type \in DocTypes :
              new = Revised(old, s) \/ new = [Revised(old, s) EXCEPT !.docType = type]
        BY <1>2
    <2>1. Revised(old, s) \in DraftRow /\ Revised(old, s).version = old.version + 1
        BY RowsStayRows, HelperColumns
    <2>2. new.version = old.version + 1
        BY <2>1 DEF DraftRow
    <2>3. QED
        BY <2>2 DEF Moves, DraftRow
<1>3. CASE \/ new = NextVersion([Released(old) EXCEPT !.archived = TRUE])
           \/ \E s \in Sessions : new = NextVersion([Granted(old, s) EXCEPT !.archived = FALSE])
    <2>1. new.version = old.version + 1
        BY <1>3 DEF DraftRow, Released, Granted, NextVersion
    <2>2. QED
        BY <2>1 DEF Moves, DraftRow
<1>4. QED
    BY <1>1, <1>2, <1>3 DEF RowStep

\* So does every step a tab causes or sees, and the rows stay rows.
LEMMA RowMoves ==
    ASSUME TypeOK, DraftStep
    PROVE  /\ TypeOK'
           /\ Row \in DraftRow /\ Row' \in DraftRow
           /\ Moves(Row, Row')
<1>1. Shared \in Drafts
    BY SharedAssumption
<1>2. TypeOK'
    BY TypeStep DEF DraftStep, draftVars, TypeOK
<1>3. Row \in DraftRow /\ Row' \in DraftRow
    BY <1>1, <1>2 DEF TypeOK, Row
<1>4. RowStep(Row, Row')
    BY <1>1, StepsAreRowSteps DEF DraftStep, draftVars, Row, RowStep
<1>5. QED
    BY <1>2, <1>3, <1>4, RowStepsMove

\* Nothing a tab holds is falsified by that.
LEMMA ExactStays ==
    ASSUME NEW old \in DraftRow, NEW new \in DraftRow, Moves(old, new),
           NEW v \in Nat, NEW c, Exact(v, c, old)
    PROVE  Exact(v, c, new)
BY DEF DraftRow, Moves, Exact

\* So a tab that fitted the row still fits it.
LEMMA TabStays ==
    ASSUME NEW old \in DraftRow, NEW new \in DraftRow, Moves(old, new),
           NEW t \in Tab, TabFits(t, old)
    PROVE  TabFits(t, new)
<1>1. t.shown \in Nat /\ t.answer.version \in Nat
    BY DEF Tab, Answer, NoAnswer
<1>2. QED
    BY <1>1, ExactStays DEF TabFits

\* No tab that stays open shows an older version than before.
NeverOlder ==
    \A s \in Sessions : Open(s) /\ tab'[s].pc # "closed" => tab'[s].shown >= tab[s].shown

\* A step of one tab is right when what it leaves in that tab fits.
LEMMA TabStep ==
    ASSUME ClientInv, DraftStep, NEW s \in Sessions,
           NEW t \in Tab, TabFits(t, Row'), SetTab(s, t),
           NEW X \in SUBSET Answer, inbox' = [inbox EXCEPT ![s] = X],
           \A a \in X : Exact(a.version, a.content, Row'),
           NEW P \in SUBSET (Nat \ {0}), previews' = [previews EXCEPT ![s] = P],
           \A v \in P : v <= t.shown,
           t.pc = "closed" => X = {} /\ P = {},
           Open(s) /\ t.pc # "closed" => t.shown >= tab[s].shown,
           author' \in Sessions \cup {NoSession}
    PROVE  ClientInv' /\ NeverOlder
<1>1. /\ tab \in [Sessions -> Tab] /\ inbox \in [Sessions -> SUBSET Answer]
      /\ previews \in [Sessions -> SUBSET (Nat \ {0})] /\ TypeOK
    BY DEF ClientInv, ClientTypeOK
<1>2. TypeOK' /\ Row \in DraftRow /\ Row' \in DraftRow /\ Moves(Row, Row')
    BY <1>1, RowMoves
<1>3. ClientTypeOK'
    BY <1>1, <1>2 DEF ClientTypeOK, SetTab
<1>4. /\ tab'[s] = t /\ inbox'[s] = X /\ previews'[s] = P
      /\ \A e \in Sessions \ {s} :
            tab'[e] = tab[e] /\ inbox'[e] = inbox[e] /\ previews'[e] = previews[e]
    BY <1>1 DEF SetTab
<1>5. ASSUME NEW e \in Sessions
      PROVE  /\ TabFits(tab'[e], Row')
             /\ \A a \in inbox'[e] : Exact(a.version, a.content, Row')
             /\ \A v \in previews'[e] : v <= tab'[e].shown
             /\ tab'[e].pc = "closed" => inbox'[e] = {} /\ previews'[e] = {}
    <2>1. CASE e = s
        BY <1>4, <2>1
    <2>2. CASE e # s
        <3>1. /\ TabFits(tab[e], Row) /\ tab[e] \in Tab
              /\ \A a \in inbox[e] : Exact(a.version, a.content, Row) /\ a.version \in Nat
            BY <1>1 DEF ClientInv, ClientFits, Answer
        <3>2. /\ TabFits(tab[e], Row')
              /\ \A a \in inbox[e] : Exact(a.version, a.content, Row')
            BY <1>2, <3>1, TabStays, ExactStays
        <3>3. QED
            BY <1>4, <2>2, <3>2 DEF ClientInv, ClientFits
    <2>3. QED
        BY <2>1, <2>2
<1>6. NeverOlder
    <2>1. \A e \in Sessions : tab[e].shown \in Nat
        BY <1>1 DEF Tab
    <2>2. QED
        BY <1>4, <2>1 DEF NeverOlder, Open
<1>7. QED
    BY <1>3, <1>5, <1>6 DEF ClientInv, ClientFits

\* Most steps leave what is on its way to the tabs alone.
LEMMA TabOnlyStep ==
    ASSUME ClientInv, DraftStep, NEW s \in Sessions,
           NEW t \in Tab, TabFits(t, Row'), SetTab(s, t),
           t.pc # "closed" \/ t = tab[s],
           Open(s) => t.shown >= tab[s].shown,
           UNCHANGED <<inbox, previews>>, author' \in Sessions \cup {NoSession}
    PROVE  ClientInv' /\ NeverOlder
<1>1. /\ inbox[s] \in SUBSET Answer /\ inbox' = [inbox EXCEPT ![s] = inbox[s]]
      /\ previews[s] \in SUBSET (Nat \ {0}) /\ previews' = [previews EXCEPT ![s] = previews[s]]
    BY DEF ClientInv, ClientTypeOK
<1>2. Row \in DraftRow /\ Row' \in DraftRow /\ Moves(Row, Row')
    BY RowMoves DEF ClientInv, ClientTypeOK
<1>3. \A a \in inbox[s] : Exact(a.version, a.content, Row')
    BY <1>1, <1>2, ExactStays DEF ClientInv, ClientFits, Answer
<1>4. /\ \A v \in previews[s] : v <= t.shown
      /\ t.pc = "closed" => inbox[s] = {} /\ previews[s] = {}
    <2>1. /\ tab[s].shown \in Nat /\ t.shown \in Nat
          /\ \A v \in previews[s] : v \in Nat /\ v <= tab[s].shown
          /\ tab[s].pc = "closed" => inbox[s] = {} /\ previews[s] = {}
        BY <1>1 DEF ClientInv, ClientTypeOK, ClientFits, Tab
    <2>2. QED
        BY <2>1 DEF Open
<1>5. QED
    BY <1>1, <1>3, <1>4, TabStep

-----------------------------------------------------------------------------
(* The actions, by what they do to the row. *)

\* What the invariant says of the tab that acts.
LEMMA ActingTab ==
    ASSUME ClientInv, DraftStep, NEW s \in Sessions
    PROVE  /\ tab[s] \in Tab /\ TabFits(tab[s], Row) /\ TabFits(tab[s], Row')
           /\ Row \in DraftRow /\ Row' \in DraftRow /\ Moves(Row, Row')
           /\ RowAnswer(Row) \in Answer
           /\ Exact(RowAnswer(Row).version, RowAnswer(Row).content, Row')
           /\ RowAnswer(Row') \in Answer
           /\ Exact(RowAnswer(Row').version, RowAnswer(Row').content, Row')
           /\ author \in Sessions \cup {NoSession}
           /\ tab[s].shown \in Nat
<1>1. Row \in DraftRow /\ Row' \in DraftRow /\ Moves(Row, Row')
    BY RowMoves DEF ClientInv, ClientTypeOK
<1>2. tab[s] \in Tab /\ TabFits(tab[s], Row) /\ author \in Sessions \cup {NoSession}
    BY DEF ClientInv, ClientTypeOK, ClientFits
<1>3. TabFits(tab[s], Row')
    BY <1>1, <1>2, TabStays
<1>4. RowAnswer(Row).version \in Nat
    BY <1>1, RowAnswers DEF Answer
<1>5. QED
    BY <1>1, <1>2, <1>3, <1>4, RowAnswers, ExactStays DEF Tab

\* The steps of the queue that send nothing or whose request changes nothing.
LEMMA QueueStep ==
    ASSUME ClientInv, NEW s \in Sessions,
           \/ Compose(s) \/ SaveFails(s) \/ SaveConflicts(s) \/ SaveFindsLockGone(s)
           \/ ReacquireFails(s) \/ Retry(s)
    PROVE  ClientInv' /\ NeverOlder
<1>1. DraftStep /\ UNCHANGED <<inbox, previews, author>>
    BY DEF DraftStep, draftVars, Compose, SaveFails, SaveConflicts, SaveFindsLockGone,
           ReacquireFails, Retry
<1>2. /\ tab[s] \in Tab /\ TabFits(tab[s], Row') /\ tab[s].shown \in Nat
      /\ author' \in Sessions \cup {NoSession}
    BY <1>1, ActingTab
<1>3. SUFFICES ASSUME NEW t \in Tab, SameView(tab[s], t), SetTab(s, t),
                      t.pc \notin {"answered", "closed"}
               PROVE  ClientInv' /\ NeverOlder
    <2>1. CASE Compose(s)
        <3> DEFINE t == [tab[s] EXCEPT !.pc = "saving", !.base = tab[s].content]
        <3>1. t \in Tab /\ SameView(tab[s], t) /\ t.pc = "saving"
            BY <1>2 DEF Tab, SameView
        <3>2. QED
            BY <1>3, <2>1, <3>1 DEF Compose
    <2>2. CASE Retry(s)
        <3>1. PICK b \in tab[s].kept :
                 SetTab(s, [tab[s] EXCEPT !.pc = "saving", !.base = b, !.retried = TRUE])
            BY <2>2 DEF Retry
        <3> DEFINE t == [tab[s] EXCEPT !.pc = "saving", !.base = b, !.retried = TRUE]
        <3>2. b \in Nat
            BY <1>2 DEF Tab
        <3>3. t \in Tab /\ SameView(tab[s], t) /\ t.pc = "saving"
            BY <1>2, <3>2 DEF Tab, SameView
        <3>4. QED
            BY <1>3, <3>1, <3>3
    <2>3. CASE SaveFails(s) \/ ReacquireFails(s)
        <3>1. SetTab(s, Failed(tab[s]))
            BY <2>3 DEF SaveFails, ReacquireFails
        <3>2. QED
            BY <1>2, <1>3, <3>1, QueueSteps
    <2>4. CASE SaveConflicts(s)
        <3> DEFINE t == [Failed(tab[s]) EXCEPT !.conflict = TRUE]
        <3>1. Failed(tab[s]) \in Tab /\ SameView(tab[s], Failed(tab[s])) /\ Failed(tab[s]).pc = "idle"
            BY <1>2, QueueSteps
        <3>2. t \in Tab /\ SameView(Failed(tab[s]), t) /\ t.pc = "idle"
            BY <3>1, QueueSteps
        <3>3. QED
            BY <1>3, <2>4, <3>1, <3>2 DEF SaveConflicts, SameView
    <2>5. CASE SaveFindsLockGone(s)
        <3>1. \/ SetTab(s, [tab[s] EXCEPT !.pc = "locked"])
              \/ SetTab(s, Failed(tab[s]))
            BY <2>5 DEF SaveFindsLockGone
        <3>2. QED
            BY <1>2, <1>3, <3>1, QueueSteps
    <2>6. QED
        BY <2>1, <2>2, <2>3, <2>4, <2>5
<1>4. TabFits(t, Row')
    BY <1>2, <1>3, SameViewFits
<1>5. t.shown >= tab[s].shown
    BY <1>2, <1>3 DEF SameView
<1>6. QED
    BY <1>1, <1>2, <1>3, <1>4, <1>5, TabOnlyStep

\* Opening a draft, and getting a lost lock back, merge the row's answer.
LEMMA AcquireStep ==
    ASSUME ClientInv, NEW s \in Sessions,
           OpenDraft(s) \/ ReacquireAndResend(s) \/ ReloadLatest(s)
    PROVE  ClientInv' /\ NeverOlder
<1>1. DraftStep /\ UNCHANGED <<inbox, previews, author>>
    BY SharedAssumption DEF DraftStep, Next, OpenDraft, ReacquireAndResend, ReloadLatest
<1>2. /\ tab[s] \in Tab /\ TabFits(tab[s], Row') /\ tab[s].shown \in Nat
      /\ Row' \in DraftRow /\ RowAnswer(Row) \in Answer
      /\ Exact(RowAnswer(Row).version, RowAnswer(Row).content, Row')
      /\ author' \in Sessions \cup {NoSession}
    BY <1>1, ActingTab
<1> DEFINE m == Merged(tab[s], RowAnswer(Row))
<1>3. m \in Tab /\ TabFits(m, Row') /\ m.shown >= tab[s].shown /\ m.pc = tab[s].pc
    BY <1>2, MergedFits
<1> HIDE DEF m
<1>4. CASE OpenDraft(s)
    <2> DEFINE c == Merged(ClosedTab, RowAnswer(Row))
    <2>1. c \in Tab /\ TabFits(c, Row')
        BY <1>2, ClosedFits, MergedFits
    <2> HIDE DEF c
    <2>2. Idle(c) \in Tab /\ SameView(c, Idle(c)) /\ Idle(c).pc = "idle"
        BY <2>1, QueueSteps
    <2>3. TabFits(Idle(c), Row')
        BY <2>1, <2>2, SameViewFits
    <2>4. ~Open(s) /\ SetTab(s, Idle(c))
        BY <1>4 DEF OpenDraft, c, Row
    <2>5. QED
        BY <1>1, <1>2, <2>2, <2>3, <2>4, TabOnlyStep
<1>5. CASE ReacquireAndResend(s)
    <2> DEFINE r == [m EXCEPT !.pc = "resent"]
               t == [r EXCEPT !.conflict = FALSE]
    <2>1. r \in Tab /\ SameView(m, r) /\ r.pc = "resent"
        BY <1>3, QueueSteps
    <2> HIDE DEF r
    <2>2. t \in Tab /\ SameView(r, t) /\ t.pc = "resent"
        BY <2>1, QueueSteps
    <2>3. SetTab(s, t)
        BY <1>5 DEF ReacquireAndResend, r, m, Row
    <2> HIDE DEF t
    <2>4. SameView(m, t)
        BY <2>1, <2>2 DEF SameView
    <2>5. TabFits(t, Row') /\ t.shown >= tab[s].shown
        BY <1>3, <2>2, <2>4, SameViewFits DEF SameView
    <2>6. QED
        BY <1>1, <1>2, <2>2, <2>3, <2>5, TabOnlyStep
<1>6. CASE ReloadLatest(s)
    <2> DEFINE r == [m EXCEPT !.kept = {}]
               t == [r EXCEPT !.conflict = FALSE]
    <2>1. r \in Tab /\ SameView(m, r) /\ r.pc = "idle"
        BY <1>3, <1>6, QueueSteps DEF ReloadLatest
    <2> HIDE DEF r
    <2>2. t \in Tab /\ SameView(r, t) /\ t.pc = "idle"
        BY <2>1, QueueSteps
    <2>3. SetTab(s, t)
        BY <1>6 DEF ReloadLatest, r, m, Row
    <2> HIDE DEF t
    <2>4. SameView(m, t)
        BY <2>1, <2>2 DEF SameView
    <2>5. TabFits(t, Row') /\ t.shown >= tab[s].shown
        BY <1>3, <2>2, <2>4, SameViewFits DEF SameView
    <2>6. QED
        BY <1>1, <1>2, <2>2, <2>3, <2>5, TabOnlyStep
<1>7. QED
    BY <1>4, <1>5, <1>6

\* A request that carries the row's own version carries one of the explored ones.
LEMMA SentVersion ==
    ASSUME ClientInv, NEW s \in Sessions, NEW v, v < MaxVersion, Row.version = v
    PROVE  v \in 1..MaxVersion
<1>1. Row \in DraftRow
    BY SharedAssumption DEF ClientInv, ClientTypeOK, TypeOK, Row
<1>2. QED
    BY <1>1, MaxVersionAssumption DEF DraftRow

\* A save that the server accepts, and the answer it gets.
LEMMA SaveStep ==
    ASSUME ClientInv, NEW s \in Sessions, SaveCommits(s) \/ SaveAnswered(s)
    PROVE  ClientInv' /\ NeverOlder
<1>1. CASE SaveCommits(s)
    <2> DEFINE v == tab[s].version
               t == [tab[s] EXCEPT !.pc = "answered", !.answer = RowAnswer(Row')]
    <2>1. v \in 1..MaxVersion
        <3>1. v < MaxVersion /\ Row.version = v
            BY <1>1 DEF SaveCommits, UpdateTimeEntries, UpdateMetadata, MayMutate, Row
        <3>2. QED
            BY <3>1, SentVersion
    <2>2. DraftStep /\ UNCHANGED <<inbox, previews>> /\ author' = s
        BY <1>1, <2>1, SharedAssumption DEF DraftStep, Next, EditorStep, SaveCommits
    <2>3. /\ tab[s] \in Tab /\ TabFits(tab[s], Row') /\ tab[s].shown \in Nat
          /\ RowAnswer(Row') \in Answer
          /\ Exact(RowAnswer(Row').version, RowAnswer(Row').content, Row')
        BY <2>2, ActingTab
    <2> DEFINE a == RowAnswer(Row')
    <2>4. SetTab(s, [tab[s] EXCEPT !.pc = "answered", !.answer = a])
        BY <1>1 DEF SaveCommits, Row
    <2> HIDE DEF a
    <2>5. /\ [tab[s] EXCEPT !.pc = "answered", !.answer = a] \in Tab
          /\ SameView(tab[s], [tab[s] EXCEPT !.pc = "answered", !.answer = a])
          /\ [tab[s] EXCEPT !.pc = "answered", !.answer = a].pc = "answered"
          /\ [tab[s] EXCEPT !.pc = "answered", !.answer = a].answer = a
        BY <2>3 DEF Tab, SameView, a
    <2> DEFINE u == [tab[s] EXCEPT !.pc = "answered", !.answer = a]
    <2> HIDE DEF u
    <2>6. u \in Tab /\ SameView(tab[s], u) /\ u.pc = "answered" /\ u.answer = a /\ SetTab(s, u)
        BY <2>4, <2>5 DEF u
    <2>7. TabFits(u, Row') /\ u.shown >= tab[s].shown
        BY <2>3, <2>6 DEF TabFits, SameView, a
    <2>8. QED
        BY <2>2, <2>6, <2>7, TabOnlyStep
<1>2. CASE SaveAnswered(s)
    <2>1. DraftStep /\ UNCHANGED <<inbox, previews, author>>
        BY <1>2 DEF DraftStep, draftVars, SaveAnswered
    <2>2. /\ tab[s] \in Tab /\ TabFits(tab[s], Row') /\ tab[s].shown \in Nat
          /\ Row' \in DraftRow
          /\ author' \in Sessions \cup {NoSession}
        BY <2>1, ActingTab
    <2>3. tab[s].answer \in Answer \cup {NoAnswer}
        BY <2>2 DEF Tab
    <2>4. Exact(tab[s].answer.version, tab[s].answer.content, Row')
        BY <1>2, <2>2 DEF SaveAnswered, TabFits
    <2> DEFINE u == Settled(tab[s])
    <2>5. u \in Tab /\ SameView(tab[s], u) /\ u.pc = "idle"
        BY <2>2, QueueSteps
    <2>6. TabFits(u, Row')
        BY <2>2, <2>5, SameViewFits
    <2> DEFINE t == Merged(u, tab[s].answer)
    <2>7. t \in Tab /\ TabFits(t, Row') /\ t.shown >= u.shown /\ t.pc = u.pc
        BY <2>2, <2>3, <2>4, <2>5, <2>6, MergedFits
    <2>8. SetTab(s, t)
        BY <1>2 DEF SaveAnswered
    <2> HIDE DEF t, u
    <2>9. t.pc # "closed" /\ t.shown >= tab[s].shown
        BY <2>5, <2>7 DEF SameView
    <2>10. QED
        BY <2>1, <2>2, <2>7, <2>8, <2>9, TabOnlyStep
<1>3. QED
    BY <1>1, <1>2

\* Renewing or reacquiring the lock behind the queue's back.
LEMMA TouchStep ==
    ASSUME ClientInv, NEW s \in Sessions,
           TouchRenews(s) \/ TouchReacquires(s) \/ TouchAnswered(s)
    PROVE  ClientInv' /\ NeverOlder
<1>1. DraftStep /\ UNCHANGED <<previews, author>>
    BY SharedAssumption
    DEF DraftStep, draftVars, Next, TouchRenews, TouchReacquires, TouchAnswered
<1>2. /\ tab[s] \in Tab /\ TabFits(tab[s], Row') /\ tab[s].shown \in Nat
      /\ Row' \in DraftRow /\ RowAnswer(Row) \in Answer
      /\ Exact(RowAnswer(Row).version, RowAnswer(Row).content, Row')
      /\ author' \in Sessions \cup {NoSession}
    BY <1>1, ActingTab
<1>3. /\ tab \in [Sessions -> Tab] /\ tab = [tab EXCEPT ![s] = tab[s]]
      /\ previews[s] \in SUBSET (Nat \ {0}) /\ previews' = [previews EXCEPT ![s] = previews[s]]
      /\ \A v \in previews[s] : v <= tab[s].shown
      /\ inbox[s] \in SUBSET Answer
      /\ \A a \in inbox[s] : Exact(a.version, a.content, Row)
      /\ tab[s].pc = "closed" => inbox[s] = {} /\ previews[s] = {}
    BY <1>1 DEF ClientInv, ClientTypeOK, ClientFits
<1>4. CASE TouchRenews(s)
    <2>1. SetTab(s, tab[s]) /\ UNCHANGED <<inbox, previews>>
        BY <1>3, <1>4 DEF TouchRenews, SetTab
    <2>2. QED
        BY <1>1, <1>2, <2>1, TabOnlyStep
<1>5. CASE TouchReacquires(s)
    <2>1. /\ SetTab(s, tab[s]) /\ Open(s)
          /\ inbox' = [inbox EXCEPT ![s] = {RowAnswer(Row)}]
        BY <1>3, <1>5 DEF TouchReacquires, SetTab, Row
    <2>2. tab[s].pc # "closed" /\ tab[s].shown >= tab[s].shown
        BY <1>2, <2>1 DEF Open
    <2> DEFINE X == {RowAnswer(Row)}
    <2>3. X \in SUBSET Answer /\ \A a \in X : Exact(a.version, a.content, Row')
        BY <1>2
    <2>4. inbox' = [inbox EXCEPT ![s] = X]
        BY <2>1
    <2> HIDE DEF X
    <2>5. QED
        BY <1>1, <1>2, <1>3, <2>1, <2>2, <2>3, <2>4, TabStep
<1>6. CASE TouchAnswered(s)
    <2>1. PICK a \in inbox[s] :
             /\ SetTab(s, [Merged(tab[s], a) EXCEPT
                             !.pc = IF @ = "locked" THEN "resent" ELSE @,
                             !.conflict = FALSE])
             /\ inbox' = [inbox EXCEPT ![s] = {}]
        BY <1>6 DEF TouchAnswered
    <2>2. a \in Answer /\ a.version \in Nat /\ tab[s].pc # "closed"
        BY <1>3 DEF Answer
    <2>3. Exact(a.version, a.content, Row')
        <3>1. Row \in DraftRow /\ Moves(Row, Row')
            BY <1>1, ActingTab
        <3>2. QED
            BY <1>2, <1>3, <2>2, <3>1, ExactStays
    <2> DEFINE m == Merged(tab[s], a)
               r == [m EXCEPT !.pc = IF @ = "locked" THEN "resent" ELSE @]
               t == [r EXCEPT !.conflict = FALSE]
    <2>4. m \in Tab /\ TabFits(m, Row') /\ m.shown >= tab[s].shown /\ m.pc = tab[s].pc
        BY <1>2, <2>2, <2>3, MergedFits
    <2>5. SetTab(s, t)
        BY <2>1
    <2> HIDE DEF m
    <2>6. r \in Tab /\ TabFits(r, Row') /\ r.shown = m.shown /\ r.pc # "closed"
        <3>1. CASE m.pc = "locked"
            <4>1. r = [m EXCEPT !.pc = "resent"]
                BY <3>1, <2>4 DEF Tab
            <4> HIDE DEF r
            <4>2. r \in Tab /\ SameView(m, r) /\ r.pc = "resent"
                BY <2>4, <4>1, QueueSteps
            <4>3. QED
                BY <2>4, <4>2, SameViewFits DEF SameView
        <3>2. CASE m.pc # "locked"
            <4>1. r = m
                BY <3>2, <2>4 DEF Tab
            <4>2. QED
                BY <4>1, <2>2, <2>4
        <3>3. QED
            BY <3>1, <3>2
    <2> HIDE DEF r
    <2>7. t \in Tab /\ SameView(r, t) /\ t.pc = r.pc /\ t.answer = r.answer
        BY <2>6, QueueSteps
    <2> HIDE DEF t
    <2>8. TabFits(t, Row') /\ t.shown >= tab[s].shown /\ t.pc # "closed"
        BY <2>4, <2>6, <2>7 DEF TabFits, SameView
    <2>9. \A v \in previews[s] : v <= t.shown
        <3>1. t.shown \in Nat /\ \A v \in previews[s] : v \in Nat
            BY <1>3, <2>7 DEF Tab
        <3>2. QED
            BY <1>2, <1>3, <2>8, <3>1
    <2> DEFINE X == {}
    <2>10. /\ X \in SUBSET Answer /\ inbox' = [inbox EXCEPT ![s] = X]
           /\ \A x \in X : Exact(x.version, x.content, Row')
        BY <2>1
    <2> HIDE DEF X
    <2>11. QED
        BY <1>1, <1>2, <1>3, <2>5, <2>7, <2>8, <2>9, <2>10, TabStep
<1>7. QED
    BY <1>4, <1>5, <1>6

\* Xero previews: the version one answers with was shown when it was asked for,
\* and what the tab shows has not gone back since.
LEMMA PreviewStep ==
    ASSUME ClientInv, NEW s \in Sessions, OpenPreview(s) \/ PreviewAnswered(s)
    PROVE  ClientInv' /\ NeverOlder
<1>1. DraftStep /\ UNCHANGED <<inbox, author>>
    BY DEF DraftStep, draftVars, OpenPreview, PreviewAnswered
<1>2. /\ tab[s] \in Tab /\ TabFits(tab[s], Row) /\ TabFits(tab[s], Row')
      /\ tab[s].shown \in Nat /\ tab[s].version \in Nat
      /\ Row \in DraftRow /\ Row' \in DraftRow /\ Moves(Row, Row')
      /\ author' \in Sessions \cup {NoSession}
    BY <1>1, ActingTab DEF Tab
<1>3. /\ tab \in [Sessions -> Tab] /\ tab = [tab EXCEPT ![s] = tab[s]]
      /\ previews[s] \in SUBSET (Nat \ {0})
      /\ \A v \in previews[s] : v <= tab[s].shown
      /\ inbox[s] \in SUBSET Answer /\ inbox' = [inbox EXCEPT ![s] = inbox[s]]
      /\ \A a \in inbox[s] : Exact(a.version, a.content, Row)
      /\ tab[s].pc = "closed" => inbox[s] = {} /\ previews[s] = {}
    BY <1>1 DEF ClientInv, ClientTypeOK, ClientFits
<1>4. \A a \in inbox[s] : Exact(a.version, a.content, Row')
    BY <1>2, <1>3, ExactStays DEF Answer
<1>5. CASE OpenPreview(s)
    <2> DEFINE P == previews[s] \cup {tab[s].version}
    <2>1. tab[s].version # 0 /\ tab[s].version <= tab[s].shown /\ tab[s].pc = "idle"
        BY <1>2, <1>5 DEF OpenPreview, MayMutate, DraftRow, Row, TabFits
    <2>2. P \in SUBSET (Nat \ {0}) /\ \A v \in P : v <= tab[s].shown
        BY <1>2, <1>3, <2>1
    <2>3. previews' = [previews EXCEPT ![s] = P] /\ SetTab(s, tab[s])
        BY <1>3, <1>5 DEF OpenPreview, SetTab
    <2> HIDE DEF P
    <2>4. tab[s].pc # "closed" /\ tab[s].shown >= tab[s].shown
        BY <1>2, <2>1
    <2>5. QED
        BY <1>1, <1>2, <1>3, <1>4, <2>2, <2>3, <2>4, TabStep
<1>6. CASE PreviewAnswered(s)
    <2>1. PICK v \in previews[s] :
             /\ SetTab(s, [tab[s] EXCEPT !.version = v])
             /\ previews' = [previews EXCEPT ![s] = @ \ {v}]
        BY <1>6 DEF PreviewAnswered
    <2> DEFINE t == [tab[s] EXCEPT !.version = v]
               P == previews[s] \ {v}
    <2>2. v \in Nat /\ v <= tab[s].shown /\ tab[s].pc # "closed"
        BY <1>3
    <2>3. /\ t \in Tab /\ t.version = v /\ t.shown = tab[s].shown /\ t.content = tab[s].content
          /\ t.pc = tab[s].pc /\ t.answer = tab[s].answer
        BY <1>2, <2>2 DEF Tab
    <2>4. /\ SetTab(s, t) /\ previews' = [previews EXCEPT ![s] = P]
          /\ P \in SUBSET (Nat \ {0}) /\ \A w \in P : w <= tab[s].shown
        BY <1>3, <2>1
    <2> HIDE DEF t, P
    <2>5. TabFits(t, Row')
        BY <1>2, <2>2, <2>3 DEF TabFits
    <2>6. t.pc # "closed" /\ t.shown >= tab[s].shown
        BY <1>2, <2>2, <2>3
    <2>7. \A w \in P : w <= t.shown
        BY <2>3, <2>4
    <2>8. QED
        BY <1>1, <1>2, <1>3, <1>4, <2>3, <2>4, <2>5, <2>6, <2>7, TabStep
<1>7. QED
    BY <1>5, <1>6

\* Leaving forgets everything the tab knew or waited for.
LEMMA LeaveStep ==
    ASSUME ClientInv, NEW s \in Sessions, Leave(s)
    PROVE  ClientInv' /\ NeverOlder
<1>1. DraftStep
    <2>1. CASE UNCHANGED <<draft, logout>>
        BY <2>1 DEF DraftStep, draftVars
    <2>2. CASE Archive(Shared, s, tab[s].version)
        <3>1. tab[s].version < MaxVersion /\ Row.version = tab[s].version
            <4>1. tab[s].version \in Nat
                BY DEF ClientInv, ClientTypeOK, Tab
            <4>2. QED
                BY <2>2, <4>1, MaxVersionAssumption DEF Archive, MayMutate, Row
        <3>2. tab[s].version \in 1..MaxVersion
            BY <3>1, SentVersion
        <3>3. QED
            BY <2>2, <3>2, SharedAssumption DEF DraftStep, Next, EditorStep
    <2>3. CASE LogoutSelects(s)
        BY <2>3 DEF DraftStep, Next
    <2>4. QED
        BY <2>1, <2>2, <2>3 DEF Leave
<1>2. author' \in Sessions \cup {NoSession} /\ Row' \in DraftRow
    BY <1>1, ActingTab DEF Leave
<1>3. ClosedTab \in Tab /\ TabFits(ClosedTab, Row') /\ ClosedTab.pc = "closed"
    BY <1>2, ClosedFits DEF ClosedTab
<1> DEFINE X == {}
<1>4. /\ X \in SUBSET Answer /\ inbox' = [inbox EXCEPT ![s] = X]
      /\ \A a \in X : Exact(a.version, a.content, Row')
      /\ X \in SUBSET (Nat \ {0}) /\ previews' = [previews EXCEPT ![s] = X]
      /\ \A v \in X : v <= ClosedTab.shown
      /\ X = {}
    BY DEF Leave
<1> HIDE DEF X
<1>5. SetTab(s, ClosedTab)
    BY DEF Leave
<1>6. QED
    BY <1>1, <1>2, <1>3, <1>4, <1>5, TabStep

\* Restoring an archived draft opens it.
LEMMA RestoreStep ==
    ASSUME ClientInv, NEW s \in Sessions, RestoreAndOpen(s)
    PROVE  ClientInv' /\ NeverOlder
<1>1. DraftStep
    <2>1. draft[Shared].version < MaxVersion /\ Row.version = draft[Shared].version
        BY DEF RestoreAndOpen, Restore, Row
    <2>2. draft[Shared].version \in 1..MaxVersion
        BY <2>1, SentVersion
    <2>3. QED
        BY <2>2, SharedAssumption DEF RestoreAndOpen, DraftStep, Next, EditorStep
<1>2. /\ Row' \in DraftRow /\ RowAnswer(Row') \in Answer
      /\ Exact(RowAnswer(Row').version, RowAnswer(Row').content, Row')
      /\ author' \in Sessions \cup {NoSession}
    BY <1>1, ActingTab DEF RestoreAndOpen
<1> DEFINE c == Merged(ClosedTab, RowAnswer(Row'))
<1>3. c \in Tab /\ TabFits(c, Row')
    BY <1>2, ClosedFits, MergedFits
<1>4. SetTab(s, Idle(c)) /\ ~Open(s) /\ UNCHANGED <<inbox, previews>>
    BY DEF RestoreAndOpen, Row
<1> HIDE DEF c
<1>5. Idle(c) \in Tab /\ SameView(c, Idle(c)) /\ Idle(c).pc = "idle"
    BY <1>3, QueueSteps
<1>6. TabFits(Idle(c), Row')
    BY <1>3, <1>5, SameViewFits
<1>7. QED
    BY <1>1, <1>2, <1>4, <1>5, <1>6, TabOnlyStep

\* The lock ages and logouts finish without any tab.
LEMMA ElsewhereStep ==
    ASSUME ClientInv, Elsewhere
    PROVE  ClientInv' /\ NeverOlder
<1>1. DraftStep /\ UNCHANGED <<tab, inbox, previews, author>>
    BY SharedAssumption DEF Elsewhere, DraftStep, Next
<1>2. CASE Sessions = {}
    <2>1. TypeOK'
        BY <1>1, RowMoves DEF ClientInv, ClientTypeOK
    <2>2. QED
        BY <1>1, <1>2, <2>1 DEF ClientInv, ClientTypeOK, ClientFits, NeverOlder
<1>3. CASE Sessions # {}
    <2>1. PICK s \in Sessions : TRUE
        BY <1>3
    <2>2. /\ tab[s] \in Tab /\ TabFits(tab[s], Row') /\ tab[s].shown \in Nat
          /\ author' \in Sessions \cup {NoSession}
        BY <1>1, ActingTab
    <2>3. SetTab(s, tab[s]) /\ tab[s].shown >= tab[s].shown
        BY <1>1, <2>2 DEF SetTab, ClientInv, ClientTypeOK
    <2>4. QED
        BY <1>1, <2>2, <2>3, TabOnlyStep
<1>4. QED
    BY <1>2, <1>3

\* Every step of the tabs keeps the invariant and repaints nothing older.
LEMMA ClientStep == ClientInv /\ [ClientNext]_clientVars => ClientInv' /\ [NeverOlder]_clientVars
<1>1. ClientInv /\ ClientNext => ClientInv' /\ NeverOlder
    BY QueueStep, AcquireStep, SaveStep, TouchStep, PreviewStep, LeaveStep, RestoreStep,
       ElsewhereStep DEF ClientNext
<1>2. ClientInv /\ UNCHANGED clientVars => ClientInv'
    <2> SUFFICES ASSUME ClientInv, UNCHANGED clientVars PROVE ClientInv'
        OBVIOUS
    <2>1. UNCHANGED <<draft, logout, tab, inbox, previews, author>>
        BY DEF clientVars
    <2>2. TypeOK' /\ Row' = Row
        BY <2>1 DEF ClientInv, ClientTypeOK, TypeOK, Row
    <2>3. QED
        BY <2>1, <2>2 DEF ClientInv, ClientTypeOK, ClientFits
<1>3. QED
    BY <1>1, <1>2

-----------------------------------------------------------------------------

\* The invariant holds at the start, and so always.
LEMMA ClientStarts == ClientInit => ClientInv
<1> SUFFICES ASSUME ClientInit PROVE ClientInv
    OBVIOUS
<1>1. TypeOK
    <2>1. ASSUME NEW s \in Sessions, NEW type \in DocTypes
          PROVE  NewDraft(s, type) \in DraftRow
        BY LockTtlAssumption DEF NewDraft, DraftRow, Statuses, SendStates
    <2>2. QED
        BY <2>1 DEF ClientInit, Init, TypeOK, NotLeaving
<1>2. Row \in DraftRow
    BY <1>1, SharedAssumption DEF TypeOK, Row
<1>3. ClosedTab \in Tab /\ TabFits(ClosedTab, Row)
    BY <1>2, ClosedFits
<1>4. ClientTypeOK
    BY <1>1, <1>3 DEF ClientInit, ClientTypeOK
<1>5. ClientFits
    BY <1>3 DEF ClientInit, ClientFits
<1>6. QED
    BY <1>4, <1>5 DEF ClientInv

\* Every tab fits the row at all times.
LEMMA ClientAlwaysFits == ClientSpec => []ClientInv
BY ClientStarts, ClientStep, PTL DEF ClientSpec

\* Tabs, answers and previews on their way stay well formed.
THEOREM ClientTypeCorrect == ClientSpec => []ClientTypeOK
<1>1. ClientInv => ClientTypeOK
    BY DEF ClientInv
<1>2. QED
    BY <1>1, ClientAlwaysFits, PTL

\* Whatever a tab or an answer holds under the row's version is the row's
\* content, so the server's version check lets only saves of tabs that show
\* the latest draft through.
THEOREM VersionsNameContents == ClientSpec => []SameVersionSameContent
<1>1. ASSUME ClientInv, NEW s \in Sessions
      PROVE  /\ Exact(tab[s].version, tab[s].content, Row)
             /\ Exact(tab[s].shown, tab[s].content, Row)
             /\ tab[s].pc = "answered" => Exact(tab[s].answer.version, tab[s].answer.content, Row)
             /\ \A a \in inbox[s] : Exact(a.version, a.content, Row)
    <2>1. TabFits(tab[s], Row) /\ \A a \in inbox[s] : Exact(a.version, a.content, Row)
        BY <1>1 DEF ClientInv, ClientFits
    <2>2. tab[s].version \in Nat /\ tab[s].shown \in Nat
        BY <1>1 DEF ClientInv, ClientTypeOK, Tab
    <2>3. Row.version \in Nat
        BY <1>1, SharedAssumption DEF ClientInv, ClientTypeOK, TypeOK, DraftRow, Row
    <2>4. QED
        BY <2>1, <2>2, <2>3 DEF TabFits, Exact
<1>2. ClientInv => SameVersionSameContent
    BY <1>1 DEF SameVersionSameContent, Exact, Row
<1>3. QED
    BY <1>2, ClientAlwaysFits, PTL

\* However late an answer comes, no open tab goes back to an older draft.
THEOREM TabsNeverGoBack == ClientSpec => NeverRepaintsOlder
<1>1. ClientInv /\ [ClientNext]_clientVars
        => [\A s \in Sessions :
              Open(s) /\ tab'[s].pc # "closed" => tab'[s].shown >= tab[s].shown]_clientVars
    BY ClientStep DEF NeverOlder
<1>2. QED
    BY <1>1, ClientAlwaysFits, PTL DEF ClientSpec, NeverRepaintsOlder

=============================================================================
