---------------------------- MODULE TeamworkSync ----------------------------
(***************************************************************************)
(* The copy of Teamwork's time entries: the synchronisation under its      *)
(* advisory lock (reportingService.js, teamworkRepository.js), the store   *)
(* the reports are made from, in a file and in the memory of the web       *)
(* process (teamworkStore.js), and the push of billable switches back to   *)
(* Teamwork (teamworkBillableSync.js).                                     *)
(*                                                                         *)
(* Web callers are requests of the one web process; the nightly job is a   *)
(* process of its own that shares file and database with it.  An entry is  *)
(* its billable state.  Days count from the first of the year, where the   *)
(* manual synchronisation and the job both start.  Users, projects and     *)
(* tasks come with the entries and are left out.                           *)
(***************************************************************************)
EXTENDS Integers, Sequences, FiniteSets, FiniteSetsExt

CONSTANTS
    Entries, Day,       \* time entries and the day each is logged on
    Gone,               \* the state of an entry that is not there
    Initial,            \* states an entry may have in the beginning
    Rank,               \* the order in which Teamwork lists the entries
    PageSize, MaxPages, \* entries of a page; pages asked for of a window
    MonthLength, Today, \* days of a month; the day the job runs on
    ManualEnds,         \* last days of the reports a refresh is asked from
    Web, Job, NoCaller, \* requests of the web process; the nightly job
    NoStore,
    MaxRuns, MaxChanges, MaxCrashes   \* bounds: changes are edits and pushes

ASSUME SyncAssumption ==
    /\ IsFiniteSet(Entries)
    /\ Day \in [Entries -> 1..Today]
    /\ Rank \in [Entries -> Int] /\ \A d, e \in Entries : Rank[d] = Rank[e] => d = e
    /\ PageSize \in Nat \ {0} /\ MaxPages \in Nat \ {0}
    /\ Gone \notin BOOLEAN /\ Initial \subseteq BOOLEAN \cup {Gone}
    /\ MonthLength \in Nat \ {0} /\ Today \in Nat \ {0}
    /\ ManualEnds \subseteq 1..Today
    /\ Job \notin Web /\ NoCaller \notin Web \cup {Job}
    /\ {MaxRuns, MaxChanges, MaxCrashes} \subseteq Nat

Callers == Web \cup {Job}
Processes == {Web, {Job}}

VARIABLES
    tw,       \* the entries at Teamwork
    rows,     \* teamwork_time_entries
    runs,     \* teamwork_sync_runs in order
    lock,     \* holder of the synchronisation's advisory lock
    caller,   \* what each caller is doing
    file,     \* data/teamwork-store.json
    tmp,      \* data/teamwork-store.json.tmp, where every process writes it first
    memory,   \* memoryStore of the web process
    pushes,   \* switches on their way to Teamwork
    count     \* changes and crashes so far

vars == <<tw, rows, runs, lock, caller, file, tmp, memory, pushes, count>>

States == BOOLEAN \cup {Gone}
There(entries) == {e \in Entries : entries[e] # Gone}

-----------------------------------------------------------------------------
(* Runs and stores                                                         *)

\* History: the entries at Teamwork throughout the run, and those that slipped
\* from the page to be read next into one that was read.
Append1(status, end) ==
    Append(runs, [status |-> status, end |-> end, throughout |-> There(tw), slipped |-> {}])

\* Mutation of LatestRun: the last run, unless it is known to have failed.
LatestNotFailed == Max({0} \cup {r \in DOMAIN runs : runs[r].status # "failed"})

\* The last run that is complete; one finishes at a time, in the order of starting.
LatestRun == Max({0} \cup {r \in DOMAIN runs : runs[r].status = "complete"})

\* readTeamworkStoreFromDatabase: all rows of the latest run's coverage.
StoredRows ==
    IF LatestRun = 0 THEN NoStore
    ELSE LET end == runs[LatestRun].end
         IN [run |-> LatestRun, end |-> end,
             entries |-> [e \in {e \in There(rows) : Day[e] <= end} |-> rows[e]]]

\* The job fetches month by month, a refresh everything at once.
WindowEnd(c, from, end) ==
    IF c = Job
    THEN Min({((from + MonthLength - 1) \div MonthLength) * MonthLength, end})
    ELSE end

Idle == [pc |-> "idle"]

\* `quiet' is history: neither Teamwork nor a push has changed an entry since.
Fetching(run, end) ==
    [pc |-> "fetch", run |-> run, end |-> end, from |-> 1, page |-> 1, got |-> <<>>,
     partial |-> FALSE, quiet |-> TRUE]

Syncing(c) == caller[c].pc \in {"fetch", "stored", "read", "written"}

\* What Teamwork has of the window that is being fetched, ...
Window(c) ==
    {e \in There(tw) :
        Day[e] \in caller[c].from..WindowEnd(c, caller[c].from, caller[c].end)}

\* ... in which an entry has so many before it, ...
Position(e, window) == Cardinality({d \in window : Rank[d] < Rank[e]})

\* ... and so many are on the pages that were asked for.
Passed(c) == (caller[c].page - 1) * PageSize

\* What ends a run unfinished: it is marked as failed, whatever it was.
FailedRun(r) == [runs EXCEPT ![r].status = "failed"]

\* Mutation of Unlocked: the lock is not released.
LockKept == lock

Unlocked == NoCaller

\* Mutation of Merged: an entry that is stored already stays as it is.
KeptIfThere(old, new) ==
    [e \in Entries |-> IF e \in DOMAIN new /\ old[e] = Gone THEN new[e] ELSE old[e]]

Merged(old, new) == [e \in Entries |-> IF e \in DOMAIN new THEN new[e] ELSE old[e]]

-----------------------------------------------------------------------------
(* A synchronisation: syncTeamworkStore                                    *)

\* Mutation of CanLock: nobody asks whether another synchronisation is running.
LockIgnored == TRUE

CanLock == lock = NoCaller

Begin(c, end) ==
    /\ Len(runs) < MaxRuns
    /\ CanLock
    /\ lock' = c
    /\ runs' = Append1("running", end)
    /\ caller' = [caller EXCEPT ![c] = Fetching(Len(runs) + 1, end)]
    /\ UNCHANGED <<tw, rows, file, tmp, memory, pushes, count>>

\* Another synchronisation holds the lock: the attempt is recorded as failed.
Blocked(c, end) ==
    /\ Len(runs) < MaxRuns
    /\ ~CanLock
    /\ runs' = Append1("failed", end)
    /\ caller' = [caller EXCEPT ![c] = Idle]
    /\ UNCHANGED <<tw, rows, lock, file, tmp, memory, pushes, count>>

Syncs(c, end) == Begin(c, end) \/ Blocked(c, end)

\* The page Teamwork answers with is cut from what it has at that moment.
Page(c) ==
    {e \in Window(c) : Position(e, Window(c)) \in Passed(c)..(Passed(c) + PageSize - 1)}

HasMore(c) == Passed(c) + PageSize < Cardinality(Window(c))

Got(c) ==
    [e \in DOMAIN caller[c].got \cup Page(c) |->
        IF e \in Page(c) THEN tw[e] ELSE caller[c].got[e]]

NextPage(c) == [caller[c] EXCEPT !.got = Got(c), !.page = @ + 1]

\* The window is done, or cut off after MaxPages; users, projects and tasks
\* may have been cut off as well.
NextWindow(c, cut) ==
    [caller[c] EXCEPT
        !.got = Got(c),
        !.from = WindowEnd(c, caller[c].from, caller[c].end) + 1,
        !.page = 1,
        !.partial = @ \/ HasMore(c) \/ cut]

\* fetchAllPages: one numbered page after another, as long as there are more.
FetchPage(c) ==
    /\ caller[c].pc = "fetch" /\ caller[c].from <= caller[c].end
    /\ IF HasMore(c) /\ caller[c].page < MaxPages
       THEN caller' = [caller EXCEPT ![c] = NextPage(c)]
       ELSE \E cut \in BOOLEAN : caller' = [caller EXCEPT ![c] = NextWindow(c, cut)]
    /\ UNCHANGED <<tw, rows, runs, lock, file, tmp, memory, pushes, count>>

Whole(c) == ~caller[c].partial

\* persistTeamworkStoreToDatabase: rows and run in one transaction.
Persist(c) ==
    /\ caller[c].pc = "fetch" /\ caller[c].from > caller[c].end
    /\ Whole(c)
    /\ rows' = Merged(rows, caller[c].got)
    /\ runs' = [runs EXCEPT ![caller[c].run].status = "complete"]
    /\ caller' = [caller EXCEPT ![c] =
                    [pc |-> "stored", run |-> @.run, quiet |-> @.quiet]]
    /\ UNCHANGED <<tw, lock, file, tmp, memory, pushes, count>>

ReadBack(c) ==
    /\ caller[c].pc = "stored"
    /\ caller' = [caller EXCEPT ![c] =
                    [pc |-> "read", run |-> @.run, quiet |-> @.quiet, store |-> StoredRows]]
    /\ UNCHANGED <<tw, rows, runs, lock, file, tmp, memory, pushes, count>>

\* writeTeamworkStore, which sets the memory of the caller's own process.
Remembered(c, store) == IF c \in Web THEN store ELSE memory

WriteStore(c) ==
    /\ caller[c].pc = "read"
    /\ tmp' = caller[c].store
    /\ caller' = [caller EXCEPT ![c] =
                    [pc |-> "written", run |-> @.run, quiet |-> @.quiet, store |-> @.store]]
    /\ UNCHANGED <<tw, rows, runs, lock, file, memory, pushes, count>>

\* It renames whatever is written by then; another may have renamed it before.
RenameStore(c) ==
    /\ caller[c].pc = "written" /\ tmp # NoStore
    /\ file' = tmp /\ tmp' = NoStore
    /\ memory' = Remembered(c, caller[c].store)
    /\ lock' = Unlocked
    /\ caller' = [caller EXCEPT ![c] = Idle]
    /\ UNCHANGED <<tw, rows, runs, pushes, count>>

\* A request, the transaction or the file fails, or the answers were partial;
\* marking the run may fail too.
Fails(c) ==
    /\ Syncing(c)
    /\ runs' \in {FailedRun(caller[c].run), runs}
    /\ lock' = Unlocked
    /\ caller' = [caller EXCEPT ![c] = Idle]
    /\ UNCHANGED <<tw, rows, file, tmp, memory, pushes, count>>

SyncStep(c) ==
    FetchPage(c) \/ Persist(c) \/ ReadBack(c) \/ WriteStore(c) \/ RenameStore(c) \/ Fails(c)

-----------------------------------------------------------------------------
(* A report: ensureStoredData                                              *)

\* readTeamworkStore with nothing in memory waits for the file, ...
ReadFile(c) ==
    /\ caller[c].pc = "idle" /\ memory = NoStore
    /\ caller' = [caller EXCEPT ![c] = [pc |-> "load", store |-> file]]
    /\ UNCHANGED <<tw, rows, runs, lock, file, tmp, memory, pushes, count>>

\* ... and remembers what it read, whatever was remembered meanwhile.
FileIsRead(c) ==
    /\ caller[c].pc = "load" /\ caller[c].store # NoStore
    /\ memory' = caller[c].store
    /\ caller' = [caller EXCEPT ![c] = Idle]
    /\ UNCHANGED <<tw, rows, runs, lock, file, tmp, pushes, count>>

NoFile(c) == caller[c].pc = "load" /\ caller[c].store = NoStore

ReadRows(c) ==
    /\ NoFile(c) /\ StoredRows # NoStore
    /\ caller' = [caller EXCEPT ![c] = [pc |-> "restore", store |-> StoredRows]]
    /\ UNCHANGED <<tw, rows, runs, lock, file, tmp, memory, pushes, count>>

\* The restored store is written without the lock, ...
WriteRestored(c) ==
    /\ caller[c].pc = "restore"
    /\ tmp' = caller[c].store
    /\ caller' = [caller EXCEPT ![c] = [pc |-> "restored", store |-> @.store]]
    /\ UNCHANGED <<tw, rows, runs, lock, file, memory, pushes, count>>

RenameRestored(c) ==
    /\ caller[c].pc = "restored" /\ tmp # NoStore
    /\ file' = tmp /\ tmp' = NoStore /\ memory' = caller[c].store
    /\ caller' = [caller EXCEPT ![c] = Idle]
    /\ UNCHANGED <<tw, rows, runs, lock, pushes, count>>

\* ... or that fails and it is only shown.
RestoreFails(c) ==
    /\ caller[c].pc \in {"restore", "restored"}
    /\ caller' = [caller EXCEPT ![c] = Idle]
    /\ UNCHANGED <<tw, rows, runs, lock, file, tmp, memory, pushes, count>>

RestoreStore(c) == WriteRestored(c) \/ RenameRestored(c) \/ RestoreFails(c)

\* Nothing is stored, or the rows cannot be read: the report synchronises.
ReportNeedsSync(c) == NoFile(c) /\ Syncs(c, Today)

Report(c) ==
    ReadFile(c) \/ FileIsRead(c) \/ ReadRows(c) \/ RestoreStore(c) \/ ReportNeedsSync(c)

Refresh(c) == caller[c].pc = "idle" /\ \E end \in ManualEnds : Syncs(c, end)

Nightly == caller[Job].pc = "idle" /\ Syncs(Job, Today)

-----------------------------------------------------------------------------
(* Teamwork, the pushes, and processes that die                            *)

NoLongerQuiet ==
    [c \in Callers |-> IF Syncing(c) THEN [caller[c] EXCEPT !.quiet = FALSE] ELSE caller[c]]

\* What follows the entry that goes and would have been read next moves up
\* onto a page that was read.
Slips(e, r) ==
    UNION { {d \in Window(c) : e \in Window(c) /\ Rank[e] < Rank[d]
                                  /\ Position(d, Window(c)) = Passed(c)} :
            c \in {c \in Callers : caller[c].pc = "fetch" /\ caller[c].run = r} }

Without(e, r) ==
    [runs[r] EXCEPT !.throughout = @ \ {e}, !.slipped = @ \cup Slips(e, r)]

\* Somebody writes, switches or deletes an entry at Teamwork.
TeamworkChanges(e, state) ==
    /\ count.changes < MaxChanges /\ state # tw[e]
    /\ tw' = [tw EXCEPT ![e] = state]
    /\ runs' = [r \in DOMAIN runs |->
                  IF runs[r].status = "running" /\ state = Gone THEN Without(e, r) ELSE runs[r]]
    /\ caller' = NoLongerQuiet
    /\ count' = [count EXCEPT !.changes = @ + 1]
    /\ UNCHANGED <<rows, lock, file, tmp, memory, pushes>>

\* A switch in a draft is saved and its push queued behind the answer.
QueuePush(e, state) ==
    /\ count.changes < MaxChanges /\ rows[e] # Gone
    /\ pushes' = pushes \cup
         {[id |-> count.changes + 1, entry |-> e, state |-> state, reached |-> FALSE]}
    /\ count' = [count EXCEPT !.changes = @ + 1]
    /\ UNCHANGED <<tw, rows, runs, lock, caller, file, tmp, memory>>

\* updateRemote: Teamwork takes the state, or the push ends with an audit event.
PushReaches(p) ==
    /\ ~p.reached /\ tw[p.entry] # Gone
    /\ tw' = [tw EXCEPT ![p.entry] = p.state]
    /\ pushes' = (pushes \ {p}) \cup {[p EXCEPT !.reached = TRUE]}
    /\ caller' = NoLongerQuiet
    /\ UNCHANGED <<rows, runs, lock, file, tmp, memory, count>>

PushFails(p) ==
    /\ ~p.reached
    /\ pushes' = pushes \ {p}
    /\ UNCHANGED <<tw, rows, runs, lock, caller, file, tmp, memory, count>>

\* updateStored: the row follows, if it is there.
PushIsMirrored(p) ==
    /\ p.reached
    /\ rows' = [rows EXCEPT ![p.entry] = IF @ = Gone THEN Gone ELSE p.state]
    /\ pushes' = pushes \ {p}
    /\ caller' = NoLongerQuiet
    /\ UNCHANGED <<tw, runs, lock, file, tmp, memory, count>>

\* A process dies.  The database frees its lock; its run stays `running'.
Dies(process) ==
    /\ count.crashes < MaxCrashes
    /\ caller' = [c \in Callers |-> IF c \in process THEN Idle ELSE caller[c]]
    /\ lock' = IF lock \in process THEN NoCaller ELSE lock
    /\ memory' = IF process = Web THEN NoStore ELSE memory
    /\ pushes' = IF process = Web THEN {} ELSE pushes
    /\ count' = [count EXCEPT !.crashes = @ + 1]
    /\ UNCHANGED <<tw, rows, runs, file, tmp>>

-----------------------------------------------------------------------------
\* A new installation, whatever Teamwork has.
Init ==
    /\ tw \in [Entries -> Initial]
    /\ rows = [e \in Entries |-> Gone]
    /\ runs = <<>>
    /\ lock = NoCaller
    /\ caller = [c \in Callers |-> Idle]
    /\ file = NoStore /\ tmp = NoStore /\ memory = NoStore
    /\ pushes = {}
    /\ count = [changes |-> 0, crashes |-> 0]

Next ==
    \/ \E c \in Callers : SyncStep(c)
    \/ \E c \in Web : Refresh(c) \/ Report(c)
    \/ Nightly
    \/ \E e \in Entries, state \in States : TeamworkChanges(e, state)
    \/ \E e \in Entries, state \in BOOLEAN : QueuePush(e, state)
    \/ \E p \in pushes : PushReaches(p) \/ PushFails(p) \/ PushIsMirrored(p)
    \/ \E process \in Processes : Dies(process)

\* A running process goes on: every request is answered or times out.
Spec == Init /\ [][Next]_vars /\ \A c \in Callers : WF_vars(SyncStep(c))

-----------------------------------------------------------------------------
(* Properties                                                              *)

Holding(c) == caller[c].pc \in {"read", "written", "load", "restore", "restored"}

IsStore(s) ==
    \/ s = NoStore
    \/ /\ s.run \in DOMAIN runs /\ s.end = runs[s.run].end
       /\ DOMAIN s.entries \subseteq Entries
       /\ \A e \in DOMAIN s.entries : s.entries[e] \in BOOLEAN /\ Day[e] <= s.end

\* Everything has its type; the caller that is synchronising is the one that
\* holds the lock, and its run is open until it has persisted.
TypeOK ==
    /\ {tw, rows} \subseteq [Entries -> States]
    /\ runs \in Seq([status : {"running", "complete", "failed"}, end : 1..Today,
                     throughout : SUBSET Entries, slipped : SUBSET Entries])
    /\ lock \in Callers \cup {NoCaller}
    /\ \A c \in Callers :
         /\ (lock = c) = Syncing(c)
         /\ Syncing(c) =>
              runs[caller[c].run].status = IF caller[c].pc = "fetch" THEN "running" ELSE "complete"
    /\ IsStore(file) /\ IsStore(tmp) /\ IsStore(memory)
    /\ pushes \subseteq [id : 1..MaxChanges, entry : Entries, state : BOOLEAN, reached : BOOLEAN]

Stores ==
    ({file, tmp, memory} \cup {caller[c].store : c \in {c \in Callers : Holding(c)}}) \ {NoStore}

\* A store has what it claims to cover: every entry that was at Teamwork
\* throughout the store's run, falls into its days and did not slip from one
\* page onto another is in it, however the store got there, and whatever
\* failed, died or was cut off.
StoreCoversItsRun ==
    \A s \in Stores : \A e \in runs[s.run].throughout \ runs[s.run].slipped :
        Day[e] <= s.end => e \in DOMAIN s.entries

\* Stronger, and not so: "Import all Teamwork data from the beginning of 2026"
\* (INVOICE_INTEGRATION_PLAN.md:606), with no exception for what is deleted at
\* Teamwork between two pages (teamworkClient.js:113).
StoreHasAllOfItsRun ==
    \A s \in Stores : \A e \in runs[s.run].throughout : Day[e] <= s.end => e \in DOMAIN s.entries

\* A synchronisation nothing interfered with, that renames what it wrote,
\* leaves rows, file and, if it is a refresh, the memory of the web process as
\* Teamwork has them.
QuietSyncShowsTeamwork ==
    [][\A c \in Callers :
         RenameStore(c) /\ caller[c].quiet /\ tmp = caller[c].store =>
           \A e \in There(tw) : Day[e] <= runs[caller[c].run].end =>
              /\ rows[e] = tw[e]
              /\ file'.entries[e] = tw[e]
              /\ c \in Web => memory'.entries[e] = tw[e]]_vars

\* The lock always comes free again.
SyncsEnd == [](lock # NoCaller => <>(lock = NoCaller))

\* While nothing is under way, reports show no older run than the store that
\* was written last ("The dashboard still reads from data/teamwork-store.json",
\* INVOICE_INTEGRATION_PLAN.md:548); the page names that run's finish beside
\* them: "Last synced ... daily at" (src/client/App.jsx:1516).
ShownIsLastSynced ==
    lock = NoCaller /\ NoStore \notin {memory, file} => memory.run >= file.run

=============================================================================
