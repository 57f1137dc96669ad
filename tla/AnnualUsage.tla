----------------------------- MODULE AnnualUsage ----------------------------
(***************************************************************************)
(* The table annual_invoice_usage and everybody who writes it: the Annual  *)
(* Invoices page, which saves cells by itself, drafts that add the dated   *)
(* rows they need, sends that book hours, and two maintenance scripts.     *)
(* server/annualInvoiceRepository.js, AnnualInvoicesView of App.jsx,       *)
(* server/quotePreviewRepository.js, scripts/*.mjs.                        *)
(*                                                                         *)
(* Requests of the page and their answers travel in `net' and are taken in *)
(* any order.  Each is numbered.  Rows that were deactivated are gone: no  *)
(* query of the code reads them.                                           *)
(***************************************************************************)
EXTENDS AnnualCells

CONSTANTS
    Detected,    \* periods named by tasks of Teamwork, by client
    Needs,       \* allowances and hours a draft may need: [key, hours]
    NoNeed,
    TypedMax, TypedUsed,   \* what is typed into a cell
    Workbooks,   \* what the import finds: [invoiced, used] sheets or [lines]
    Sheets,      \* prepaid matrices of the reconciliation
    Entries,     \* time entries at Teamwork
    MaxTyped,    \* bound: changes typed
    MaxRequests, \* bound: requests of the page
    NoScript,    \* no script is running
    MaxRuns      \* bound: drafts, sends and scripts together

ASSUME DetectedAssumption == Detected \subseteq Clients \X Period
ASSUME NeedsAssumption == \A need \in Needs : IsKey(need.key) /\ need.hours \in Nat
ASSUME TypedAssumption == TypedMax \subseteq Nat \cup {NoMax} /\ TypedUsed \subseteq Nat
ASSUME WorkbooksAssumption ==
    \A book \in Workbooks : IF book.format = "matrix"
                            THEN IsMatrix(book.invoiced) /\ IsMatrix(book.used)
                            ELSE IsExport(book.lines)
ASSUME SheetsAssumption == \A sheet \in Sheets : IsMatrix(sheet)
ASSUME EntriesAssumption ==
    /\ IsFiniteSet(Entries)
    /\ \A e \in Entries : e.hours \in Nat /\ TitlePeriod(e.title) \in Period \cup {NoPeriod}

VARIABLES
    rows,        \* active rows of the table
    now,         \* updated_at of the latest write
    tab,         \* the year of the page
    loading,     \* inputs are disabled
    usage,       \* calendar cells as last loaded or saved
    shown,       \* calendar cells as they stand in the inputs
    version,     \* autosaveVersions
    timer,       \* autosaves that are due
    dated,       \* dated cells the page lists: as they stand in the inputs
    net,         \* requests and answers of the page under way
    plan,        \* what the draft at hand takes from an allowance
    script,      \* the transaction of the script that is running
    typings, requests, runs   \* counters for the bounds

pageVars == <<tab, loading, usage, shown, version, timer, dated>>
countVars == <<typings, requests, runs>>
vars == <<rows, now, pageVars, net, plan, script, countVars>>

-----------------------------------------------------------------------------
(* Rows. *)

Row == [ client : Clients, service : Services, cover : Period \cup {NoPeriod},
         year : Nat, max : Nat \cup {NoMax}, used : Nat, at : Nat ]

RowOf(k, h, at) ==
    [ client |-> k.client, service |-> k.service, cover |-> k.cover,
      year |-> k.year, max |-> h.max, used |-> h.used, at |-> at ]

\* Rows a key finds: dated ones whatever their year.
Finds(k, r) ==
    /\ r.client = k.client
    /\ r.service = k.service
    /\ r.cover = k.cover
    /\ k.cover = NoPeriod => r.year = k.year

\* A save of a calendar cell and the import also find dated rows of the year.
FindsInYear(k, r) ==
    r.client = k.client /\ r.service = k.service /\ r.year = k.year

\* Mutation of FoundByPage: a dated row is looked for among those of its year.
FoundInOwnYear(k, r) == FindsInYear(k, r) /\ (k.cover # NoPeriod => r.cover = k.cover)

FoundByPage(k, r) == IF k.cover # NoPeriod THEN Finds(k, r) ELSE FindsInYear(k, r)

\* order by updated_at desc limit 1
Newest(R) == { r \in R : \A q \in R : q.at <= r.at }

Replace(R, r) == (rows \ R) \cup {r}

\* A running script has locked the rows its cells found so far, and the places
\* of the dated rows it adds: whoever writes one of them waits for its end.
Locked(r) == script # NoScript /\ \E k \in DOMAIN script.found : r \in script.found[k]

Held(k) ==
    script # NoScript /\ \E c \in DOMAIN script.found : c.cover # NoPeriod /\ Finds(c, k)

HoursOf(r) == Hours(r.max, r.used)

-----------------------------------------------------------------------------
(* The page. *)

PageCells == Linked \X Services

NoUsage == Hours(NoMax, 0)

NoTimer == [due |-> FALSE]

\* The inputs of a cell that has no dated rows, or cannot have any.
CalendarInputs(cell) ==
    cell[2] = Corp => \A d \in DOMAIN dated : d[1] # cell[1]

LoadRequest(y) == [kind |-> "load", id |-> requests, year |-> y]

SaveRequest(k, h, v) ==
    [kind |-> "save", id |-> requests, key |-> k, hours |-> h, version |-> v]

Requests(m) ==
    /\ requests < MaxRequests
    /\ requests' = requests + 1
    /\ net' = net \cup {m}

Answers(m, answer) == net' = (net \ {m}) \cup {answer}

Init ==
    /\ rows = {}
    /\ now = 0
    /\ tab = Max(Years)
    /\ loading = TRUE
    /\ usage = [cell \in PageCells |-> NoUsage]
    /\ shown = usage
    /\ version = [cell \in PageCells |-> 0]
    /\ timer = [cell \in PageCells |-> NoTimer]
    /\ dated = <<>>
    /\ net = {[kind |-> "load", id |-> 0, year |-> Max(Years)]}
    /\ plan = NoNeed
    /\ script = NoScript
    /\ typings = 0 /\ requests = 1 /\ runs = 0

\* Leaving an input for a tab flushes it first.
OpenTab(y) ==
    /\ y # tab
    /\ loading \/ \A cell \in PageCells : timer[cell] = NoTimer
    /\ tab' = y
    /\ loading' = TRUE
    /\ Requests(LoadRequest(y))
    /\ UNCHANGED <<rows, now, usage, shown, version, timer, dated, plan, script, typings, runs>>

\* listAnnualInvoices: of several calendar rows of a cell the page keeps one,
\* and periods named by tasks only are listed as if nothing was used.
Listings(y) ==
    LET Calendar(cell) == { r \in rows : Finds(CalendarKey(cell[1], cell[2], y), r) }
        InTable == { r \in rows : r.client \in Linked /\ r.cover # NoPeriod /\ Overlaps(r.cover, y) }
        Named == { d \in Detected : d[1] \in Linked /\ Overlaps(d[2], y) }
        Dated(d) == { r \in InTable : r.client = d[1] /\ r.cover = d[2] }
        cells == { <<r.client, r.cover>> : r \in InTable } \cup Named
    IN  [ calendar : { f \in [PageCells -> { HoursOf(r) : r \in rows } \cup {NoUsage}] :
                         \A cell \in PageCells :
                           IF Calendar(cell) = {} THEN f[cell] = NoUsage
                           ELSE f[cell] \in { HoursOf(r) : r \in Calendar(cell) } },
          dated : {[ d \in cells |-> IF Dated(d) = {} THEN Hours(DefaultMax, 0)
                                     ELSE HoursOf(CHOOSE r \in Dated(d) : TRUE) ]} ]

ServerLists(m) ==
    /\ m.kind = "load"
    /\ \E list \in Listings(m.year) :
         Answers(m, [kind |-> "listed", id |-> m.id, year |-> m.year, list |-> list])
    /\ UNCHANGED <<rows, now, pageVars, plan, script, countVars>>

\* The page goes to the year of the answer; when that is not the tab opened
\* meanwhile it loads once more.
PageShows(m) ==
    /\ m.kind = "listed"
    /\ usage' = m.list.calendar
    /\ shown' = m.list.calendar
    /\ dated' = m.list.dated
    /\ tab' = m.year
    /\ loading' = (m.year # tab)
    /\ IF m.year = tab
       THEN net' = net \ {m} /\ UNCHANGED requests
       ELSE /\ requests < MaxRequests
            /\ requests' = requests + 1
            /\ net' = (net \ {m}) \cup {LoadRequest(m.year)}
    /\ UNCHANGED <<rows, now, version, timer, plan, script, typings, runs>>

Changed(h, field, value) == [h EXCEPT ![field] = value]

Typed == { <<"max", v>> : v \in TypedMax } \cup { <<"used", v>> : v \in TypedUsed }

Type(cell, field, value) ==
    /\ typings < MaxTyped
    /\ ~loading
    /\ CalendarInputs(cell)
    /\ shown[cell][field] # value
    /\ shown' = [shown EXCEPT ![cell] = Changed(@, field, value)]
    /\ version' = [version EXCEPT ![cell] = @ + 1]
    /\ timer' = [timer EXCEPT ![cell] =
                   [due |-> TRUE, hours |-> shown'[cell], version |-> version'[cell], year |-> tab]]
    /\ typings' = typings + 1
    /\ UNCHANGED <<rows, now, tab, loading, usage, dated, net, plan, script, requests, runs>>

\* saveCell: nothing is sent when the page knows the cell to hold it.
SaveCell(cell, h, v, y) ==
    IF h = usage[cell]
    THEN UNCHANGED <<net, requests>>
    ELSE Requests(SaveRequest(CalendarKey(cell[1], cell[2], y), h, v))

TimerFires(cell) ==
    /\ timer[cell].due
    /\ SaveCell(cell, timer[cell].hours, timer[cell].version, timer[cell].year)
    /\ timer' = [timer EXCEPT ![cell] = NoTimer]
    /\ UNCHANGED <<rows, now, tab, loading, usage, shown, version, dated, plan, script, typings, runs>>

\* Enter, or leaving the input.
Blur(cell) ==
    /\ ~loading
    /\ CalendarInputs(cell)
    /\ SaveCell(cell, shown[cell], version[cell], tab)
    /\ timer' = [timer EXCEPT ![cell] = NoTimer]
    /\ UNCHANGED <<rows, now, tab, loading, usage, shown, version, dated, plan, script, typings, runs>>

TypeDated(d, field, value) ==
    /\ typings < MaxTyped
    /\ ~loading
    /\ dated[d][field] # value
    /\ dated' = [dated EXCEPT ![d] = Changed(@, field, value)]
    /\ typings' = typings + 1
    /\ UNCHANGED <<rows, now, tab, loading, usage, shown, version, timer, net, plan, script, requests, runs>>

\* savePeriodUsage: sent whether or not anything was typed, for the year of
\* the tab.
BlurDated(d) ==
    /\ ~loading
    /\ Requests(SaveRequest(Key(d[1], Corp, d[2], tab), dated[d], 0))
    /\ UNCHANGED <<rows, now, pageVars, plan, script, typings, runs>>

\* updateAnnualInvoiceUsage, under the lock of the client's row, which the
\* scripts do not take.
ServerSaves(m) ==
    /\ m.kind = "save"
    /\ LET found == { r \in rows : FoundByPage(m.key, r) }
       IN  IF found = {}
           THEN ~Held(m.key) /\ rows' = Replace({}, RowOf(m.key, m.hours, now + 1))
           ELSE \E r \in Newest(found) :
                  ~Locked(r) /\ rows' = Replace({r}, RowOf(m.key, m.hours, now + 1))
    /\ now' = now + 1
    /\ Answers(m, [m EXCEPT !.kind = "saved"])
    /\ UNCHANGED <<pageVars, plan, script, countVars>>

\* Mutation of IsLatest: the version of the answer is not compared.
AlwaysLatest(m, cell) == TRUE

IsLatest(m, cell) == m.version = version[cell]

\* The answer to a calendar cell counts for the tab it was typed under, and
\* for the inputs only when nothing was typed since.
PageSaved(m) ==
    LET cell == <<m.key.client, m.key.service>> IN
    /\ m.kind = "saved" /\ m.key.cover = NoPeriod
    /\ IF m.key.year = tab
       THEN /\ usage' = [usage EXCEPT ![cell] = m.hours]
            /\ shown' = IF IsLatest(m, cell) THEN [shown EXCEPT ![cell] = m.hours] ELSE shown
       ELSE UNCHANGED <<usage, shown>>
    /\ net' = net \ {m}
    /\ UNCHANGED <<rows, now, tab, loading, version, timer, dated, plan, script, countVars>>

\* The answer to a dated cell replaces whatever the inputs hold.
PageSavedDated(m) ==
    LET d == <<m.key.client, m.key.cover>> IN
    /\ m.kind = "saved" /\ m.key.cover # NoPeriod
    /\ dated' = IF d \in DOMAIN dated THEN [dated EXCEPT ![d] = m.hours] ELSE dated
    /\ net' = net \ {m}
    /\ UNCHANGED <<rows, now, tab, loading, usage, shown, version, timer, plan, script, countVars>>

\* A request that does not reach the server, or an answer that is lost.  The
\* inputs are usable again after a load that failed.
Lost(m) ==
    /\ net' = net \ {m}
    /\ loading' = (loading /\ m.kind \notin {"load", "listed"})
    /\ UNCHANGED <<rows, now, tab, usage, shown, version, timer, dated, plan, script, countVars>>

PageStep ==
    \/ \E y \in Years : OpenTab(y)
    \/ \E cell \in PageCells : TimerFires(cell) \/ Blur(cell)
    \/ \E cell \in PageCells, in \in Typed : Type(cell, in[1], in[2])
    \/ \E d \in DOMAIN dated : BlurDated(d)
    \/ \E d \in DOMAIN dated, in \in Typed : TypeDated(d, in[1], in[2])
    \/ \E m \in net : \/ ServerLists(m) \/ ServerSaves(m) \/ Lost(m)
                      \/ PageShows(m) \/ PageSaved(m) \/ PageSavedDated(m)

-----------------------------------------------------------------------------
(* Drafts and sends. *)

Runs == runs < MaxRuns /\ runs' = runs + 1

\* Mutation of Prepared: a row that is there is set up again.
PreparedAgain(k) ==
    IF k.cover = NoPeriod THEN rows
    ELSE { r \in rows : ~Finds(k, r) } \cup {RowOf(k, Hours(DefaultMax, 0), now + 1)}

\* loadAnnualUsage adds the row of a dated allowance a draft may draw on ...
Prepared(k) ==
    IF k.cover = NoPeriod \/ \E r \in rows : Finds(k, r) THEN rows
    ELSE rows \cup {RowOf(k, Hours(DefaultMax, 0), now + 1)}

\* ... and the draft covers what is left of it.  Of several calendar rows it
\* keeps one.
Left(r) == IF r.max = NoMax \/ r.max <= r.used THEN 0 ELSE r.max - r.used

Planned(need, r) ==
    LET covered == Min({need.hours, Left(r)})
    IN  IF covered = 0 THEN NoNeed
        ELSE [key |-> need.key, hours |-> covered, seen |-> HoursOf(r)]

Prepare(need) ==
    /\ Runs
    /\ need.key.cover # NoPeriod => ~Held(need.key)
    /\ rows' = Prepared(need.key)
    /\ now' = IF rows' = rows THEN now ELSE now + 1
    /\ LET found == { r \in rows' : Finds(need.key, r) }
       IN  IF found = {} THEN plan' = NoNeed
           ELSE \E r \in found : plan' = Planned(need, r)
    /\ UNCHANGED <<pageVars, net, script, typings, requests>>

\* Mutation of FoundBySend: a dated row is looked for by its year, too.
FoundByYear(k, r) == FindsInYear(k, r) /\ r.cover = k.cover

FoundBySend(k, r) == Finds(k, r)

\* applyAnnualUsageDeltas of a send; it refuses what no longer fits.
BookedIn(p) == Newest({ r \in rows : FoundBySend(p.key, r) })

Fits(p, r) == r.max # NoMax => r.used + p.hours <= r.max

Booking ==
    /\ plan # NoNeed
    /\ Runs
    /\ \E r \in BookedIn(plan) :
         /\ ~Locked(r)
         /\ Fits(plan, r)
         /\ rows' = Replace({r}, [r EXCEPT !.used = @ + plan.hours, !.at = now + 1])
    /\ now' = now + 1
    /\ plan' = NoNeed
    /\ UNCHANGED <<pageVars, net, script, typings, requests>>

-----------------------------------------------------------------------------
(* The scripts: one transaction each, which finds, locks and writes the rows *)
(* of one cell after the other and is seen by others when it commits.        *)

ImportCells ==
    [book \in Workbooks |-> IF book.format = "matrix"
                           THEN MatrixImport(book.invoiced, book.used)
                           ELSE RowImport(book.lines)]

SheetCells == [sheet \in Sheets |-> ReconciledCells(sheet, Entries)]

\* The import finds the rows of the year, dated ones too, the reconciliation
\* those of the key.
CellRows(kind, k, R) ==
    { r \in R : IF kind = "import" THEN FindsInYear(k, r) ELSE Finds(k, r) }

\* The newest row of a cell is overwritten and keeps its coverage.
CellRow(cells, k, found, at) ==
    [RowOf(k, cells[k], at) EXCEPT
        !.cover = IF found = {} THEN @ ELSE (CHOOSE r \in Newest(found) : TRUE).cover]

\* Mutation of Written: the duplicates of a cell stay.
AddedTo(cells, found, R, at) ==
    R \cup { CellRow(cells, k, found[k], at) : k \in DOMAIN cells }

\* upsertCells and applyCells: the other rows of the cell go.
Written(cells, found, R, at) ==
    (R \ UNION { found[k] : k \in DOMAIN cells })
    \cup { CellRow(cells, k, found[k], at) : k \in DOMAIN cells }

\* updated_at is the time a transaction begins.
ScriptBegins(kind, cells) ==
    /\ Runs
    /\ script = NoScript
    /\ script' = [kind |-> kind, cells |-> cells, found |-> <<>>, at |-> now + 1]
    /\ now' = now + 1
    /\ UNCHANGED <<rows, pageVars, net, plan, typings, requests>>

Import(book) == ScriptBegins("import", ImportCells[book])

Reconcile(sheet) == ~Unmatched(sheet) /\ ScriptBegins("reconcile", SheetCells[sheet])

ScriptTakes(k) ==
    /\ script # NoScript
    /\ k \in DOMAIN script.cells \ DOMAIN script.found
    /\ script' = [script EXCEPT
                     !.found = [c \in DOMAIN @ \cup {k} |->
                                  IF c = k THEN CellRows(script.kind, k, rows) ELSE @[c]]]
    /\ UNCHANGED <<rows, now, pageVars, net, plan, countVars>>

ScriptCommits ==
    /\ script # NoScript
    /\ DOMAIN script.found = DOMAIN script.cells
    /\ rows' = Written(script.cells, script.found, rows, script.at)
    /\ script' = NoScript
    /\ UNCHANGED <<now, pageVars, net, plan, countVars>>

\* An error of a statement, or the end of the process: nothing is written.
ScriptFails ==
    /\ script # NoScript
    /\ script' = NoScript
    /\ UNCHANGED <<rows, now, pageVars, net, plan, countVars>>

ScriptStep ==
    \/ script # NoScript /\ \E k \in DOMAIN script.cells : ScriptTakes(k)
    \/ ScriptCommits \/ ScriptFails

Next ==
    \/ PageStep
    \/ \E need \in Needs : Prepare(need)
    \/ Booking
    \/ \E book \in Workbooks : Import(book)
    \/ \E sheet \in Sheets : Reconcile(sheet)
    \/ ScriptStep

Spec == Init /\ [][Next]_vars

-----------------------------------------------------------------------------
(* Properties. *)

\* The table admits its rows and holds one active row of a dated allowance, a
\* unique index the handlers that insert have to respect (migration 018:23).
UsageTypeOK ==
    /\ rows \subseteq Row
    /\ \A r, q \in rows : r.cover # NoPeriod /\ Finds(r, q) => r = q
    /\ tab \in Years
    /\ usage \in [PageCells -> CellHours]
    /\ shown \in [PageCells -> CellHours]
    /\ script # NoScript => \A k \in DOMAIN script.found : script.found[k] \subseteq rows

\* What somebody is typing into a calendar cell is not replaced by the answer
\* to an earlier save, of this tab or another: as long as its autosave is due
\* the input changes only with more typing or with the list of another load
\* (App.jsx:5305).
TypedIsKept ==
    [][\A cell \in PageCells :
         timer[cell].due /\ timer'[cell] = timer[cell] /\ shown'[cell] # shown[cell]
             => \E m \in net : m.kind = "listed" /\ m \notin net']_vars

\* A draft covered by an allowance can be sent as long as the allowance has
\* one row with the hours the draft saw, whatever else a page has saved into
\* the row: the lookup of the draft and that of the booking agree
\* (quotePreviewRepository.js:2108).
PreparedIsBookable ==
    plan # NoNeed =>
        \A r \in rows :
            (/\ { q \in rows : Finds(plan.key, q) } = {r}
             /\ HoursOf(r) = plan.seen)
            => \E q \in BookedIn(plan) : q = r /\ Fits(plan, q)

SameKey(r, q) == Finds(r, q)

Saves(m) == m \in net /\ m \notin net' /\ m.kind = "save"

SavedItself(r) == \E m \in net : Saves(m) /\ Finds(m.key, r)

\* A calendar cell is looked for among all rows of its year, so its save may
\* overwrite a dated one (annualInvoiceRepository.js:267).
OverwrittenByYear(r) ==
    \E m \in net : Saves(m) /\ m.key.cover = NoPeriod /\ r.cover # NoPeriod /\ FindsInYear(m.key, r)

TakenByScript(r) == Locked(r) /\ ScriptCommits

KeepsItsHours(r) == \E q \in rows' : SameKey(r, q) /\ q.used >= r.used

\* Used hours leave an allowance only by a save of its own cell, by one of the
\* calendar cell of the year a dated row is kept under, or by a script one of
\* whose cells found it: drafts and bookings, also of other allowances, take
\* nothing back (quotePreviewRepository.js:1007).
HoursLeaveByHand ==
    [][\A r \in rows \ rows' :
         KeepsItsHours(r) \/ SavedItself(r) \/ OverwrittenByYear(r) \/ TakenByScript(r)]_vars

\* `A shared 12-hour allowance per client and period' (CHANGELOG.md:88): what a
\* period used is kept until its own cell is saved or a script restates it.
PeriodsKeepTheirHours ==
    [][\A r \in rows \ rows' :
         r.cover # NoPeriod /\ r.used > 0 => KeepsItsHours(r) \/ SavedItself(r) \/ TakenByScript(r)]_vars

Restates(kind, cells, R) ==
    \A k \in DOMAIN cells :
        LET here == CellRows(kind, k, R)
        IN  Cardinality(here) = 1 /\ \A r \in here : HoursOf(r) = cells[k]

\* What is in the table but for the times.
Contents(R) == { [r EXCEPT !.at = 0] : r \in R }

WrittenAgain(kind, cells, R, at) ==
    Written(cells, [k \in DOMAIN cells |-> CellRows(kind, k, R)], R, at)

Undisturbed ==
    \A k \in DOMAIN script.cells : CellRows(script.kind, k, rows) = script.found[k]

\* Whatever is in the table, duplicates and converted rows included, a script
\* whose rows nobody added to since it found them leaves one row per cell it
\* knows with the hours of its sources, and run again it changes nothing
\* (import-annual-invoices.mjs:497, reconcile-annual-usage.mjs:63).
ScriptsRestate ==
    [][ScriptCommits /\ Undisturbed =>
         /\ Restates(script.kind, script.cells, rows')
         /\ Contents(WrittenAgain(script.kind, script.cells, rows', now + 1)) = Contents(rows')]_vars

=============================================================================
