----------------------------- MODULE AnnualCells ----------------------------
(***************************************************************************)
(* The prepaid hours of the annual invoices: which allowance a piece of    *)
(* work belongs to, and what two maintenance scripts make of a workbook.   *)
(* shared/annualServicePeriods.js, shared/annualReconciliation.js,         *)
(* scripts/import-annual-invoices.mjs.                                     *)
(*                                                                         *)
(* Dates are months, counted through the years.  A name stands for the     *)
(* normalised form both scripts compare; the text patterns that recognise  *)
(* a service or a period in a label are fields of the title.               *)
(***************************************************************************)
EXTENDS Integers, Sequences, FiniteSets, FiniteSetsExt

CONSTANTS
    Clients,      \* active billing clients
    ClientOrder,  \* their ids ordered by display name
    Linked,       \* those with a Xero contact
    NoClient,
    Names,        \* normalised names
    DisplayKey, XeroKey, ProjectKey,  \* [Clients -> Names], the names of a client
    Within,       \* pairs of names, one contained in the other
    Services,     \* active services eligible for annual invoices
    Corp,         \* maintain_corporate_records, the one with dated allowances
    NoService,
    Years,        \* the calendar years both scripts support
    NoYear,
    Window,       \* the months of Teamwork the reconciliation counts
    NoPeriod,
    DefaultMax,   \* hours of a dated allowance
    NoMax         \* max_hours is null

ASSUME CorpAssumption == Corp \in Services /\ NoService \notin Services
ASSUME YearsAssumption ==
    Years \subseteq Nat /\ Years # {} /\ IsFiniteSet(Years) /\ NoYear \notin Years
ASSUME ClientsAssumption ==
    /\ IsFiniteSet(Clients) /\ Linked \subseteq Clients /\ NoClient \notin Clients
    /\ ClientOrder \in Seq(Clients)
ASSUME MaxAssumption == DefaultMax \in Nat \ {0} /\ NoMax \notin Nat

-----------------------------------------------------------------------------
(* Periods of coverage and keys of allowances. *)

Period == [first : Nat, last : Nat]

ASSUME PeriodAssumption == NoPeriod \notin Period

YearOf(month) == month \div 12

EndYear(p) == YearOf(p.last)

Overlaps(p, y) == YearOf(p.first) <= y /\ y <= EndYear(p)

InPeriod(month, p) == p.first <= month /\ month <= p.last

\* parseMaintainCorporateRecordsPeriod: a range of dates or months as written,
\* the twelve months until the one named, or the year; otherwise none.
TitlePeriod(t) ==
    LET p == CASE t.pattern \in {"exact_dates", "month_range"} ->
                     [first |-> t.first, last |-> t.last]
               [] t.pattern = "rolling_until_month" ->
                     [first |-> t.last - 11, last |-> t.last]
               [] t.pattern = "calendar_year" ->
                     [first |-> 12 * t.year, last |-> 12 * t.year + 11]
               [] OTHER -> NoPeriod
    IN  IF p = NoPeriod \/ p.first > p.last THEN NoPeriod ELSE p

\* The allowance of one client and service: a calendar year or a period.
Key(c, s, p, y) == [client |-> c, service |-> s, cover |-> p, year |-> y]

CalendarKey(c, s, y) == Key(c, s, NoPeriod, y)

DatedKey(c, p) == Key(c, Corp, p, EndYear(p))

CalendarKeys == { CalendarKey(c, s, y) : c \in Clients, s \in Services, y \in Years }

IsKey(k) ==
    /\ k \in [client : Clients, service : Services, cover : Period \cup {NoPeriod}, year : Nat]
    /\ k.cover # NoPeriod => k.service = Corp

Hours(max, used) == [max |-> max, used |-> used]

CellHours == [max : Nat \cup {NoMax}, used : Nat]

-----------------------------------------------------------------------------
(* Whose row of a sheet it is. *)

Alike(a, b) == a = b \/ <<a, b>> \in Within \/ <<b, a>> \in Within

Only(S) == IF Cardinality(S) = 1 THEN CHOOSE c \in S : TRUE ELSE NoClient

\* findClient of the import: the first client so called, else the only one
\* with a name like it.
ImportClient ==
    LET KeysOf(c) == {DisplayKey[c], XeroKey[c]}
        Called(n) == { i \in DOMAIN ClientOrder : n \in KeysOf(ClientOrder[i]) }
    IN  [n \in Names |->
            IF Called(n) # {} THEN ClientOrder[Min(Called(n))]
            ELSE Only({ c \in Clients : \E k \in KeysOf(c) : Alike(k, n) })]

\* findClient of the reconciliation: it also knows the project's name and
\* takes nothing that is not unique.
ReconcileClient ==
    LET KeysOf(c) == {DisplayKey[c], XeroKey[c], ProjectKey[c]}
        Displayed(n) == { c \in Clients : DisplayKey[c] = n }
        Called(n) == { c \in Clients : n \in KeysOf(c) }
    IN  [n \in Names |->
            IF Displayed(n) # {} THEN Only(Displayed(n))
            ELSE IF Called(n) # {} THEN Only(Called(n))
            ELSE Only({ c \in Clients : \E k \in KeysOf(c) : Alike(k, n) })]

-----------------------------------------------------------------------------
(* Matrix sheets: a year and a service above every column, a name before   *)
(* every row.                                                              *)

\* What a workbook can hold: no column of a matrix is taken for corporate
\* records.
IsMatrix(sheet) ==
    /\ sheet.services \in Seq((Services \cup {NoService}) \ {Corp})
    /\ sheet.rows \in Seq([name : Names, hours : Seq(Nat)])
    /\ \A r \in DOMAIN sheet.rows : DOMAIN sheet.rows[r].hours = DOMAIN sheet.services

IsExport(lines) ==
    /\ IsFiniteSet(DOMAIN lines)
    /\ \A i \in DOMAIN lines :
         lines[i].name \in Names /\ lines[i].max \in Nat \cup {NoMax} /\ lines[i].used \in Nat

\* A year stands above the first of its columns only.
ColumnYear(sheet, i) ==
    LET above == { j \in 1..i : sheet.years[j] \in Years }
    IN  IF above = {} THEN NoYear ELSE sheet.years[Max(above)]

IsColumn(sheet, i) == ColumnYear(sheet, i) # NoYear /\ sheet.services[i] \in Services

\* The places of a sheet that speak of a key.
Places(sheet, client, k) ==
    { at \in (DOMAIN sheet.rows) \X (DOMAIN sheet.services) :
        /\ client[sheet.rows[at[1]].name] = k.client
        /\ IsColumn(sheet, at[2])
        /\ sheet.services[at[2]] = k.service
        /\ ColumnYear(sheet, at[2]) = k.year }

HoursAt(sheet, at) == sheet.rows[at[1]].hours[at[2]]

\* Of several places the last one counts.
LastPlace(places) ==
    CHOOSE at \in places : \A b \in places :
        b[1] < at[1] \/ (b[1] = at[1] /\ b[2] <= at[2])

\* Import: nothing invoiced is no allowance, not one of zero hours.
MatrixImport(invoiced, used) ==
    LET In(sheet, k) == Places(sheet, ImportClient, k)
        At(sheet, k) == IF In(sheet, k) = {} THEN 0 ELSE HoursAt(sheet, LastPlace(In(sheet, k)))
        keys == { k \in CalendarKeys : In(invoiced, k) \cup In(used, k) # {} }
    IN  [k \in keys |-> Hours(IF At(invoiced, k) > 0 THEN At(invoiced, k) ELSE NoMax,
                              At(used, k))]

\* The older export has a line per invoice (code, date, reference, quantity
\* and price): one written twice counts once, the largest allowance counts
\* and the used hours add up.
RowImport(lines) ==
    LET Counts(i) == ImportClient[lines[i].name] # NoClient /\ lines[i].service \in Services
                     /\ lines[i].year \in Years
        Twice(i) == \E j \in 1..(i - 1) :
                        /\ lines[j].name = lines[i].name
                        /\ lines[j].year = lines[i].year
                        /\ lines[j].invoice = lines[i].invoice
        KeyOf(i) == CalendarKey(ImportClient[lines[i].name], lines[i].service, lines[i].year)
        Of(k) == { i \in DOMAIN lines : Counts(i) /\ ~Twice(i) /\ KeyOf(i) = k }
        Maxima(k) == { lines[i].max : i \in Of(k) } \ {NoMax}
    IN  [k \in { KeyOf(i) : i \in { j \in DOMAIN lines : Counts(j) } } |->
            Hours(IF Maxima(k) = {} THEN NoMax ELSE Max(Maxima(k)),
                  SumFunctionOnSet([i \in DOMAIN lines |-> lines[i].used], Of(k)))]

-----------------------------------------------------------------------------
(* The reconciliation: allowances of the sheet, used hours of Teamwork. *)

\* An entry counts for the allowance its task and date name.
EntryKey(e) ==
    IF e.title.service = Corp
    THEN LET p == TitlePeriod(e.title)
         IN  IF p # NoPeriod /\ InPeriod(e.month, p) THEN {DatedKey(e.client, p)} ELSE {}
    ELSE LET y == IF e.title.year # NoYear THEN e.title.year ELSE YearOf(e.month)
         IN  IF y \in Years THEN {CalendarKey(e.client, e.title.service, y)} ELSE {}

EntryCounts(e) ==
    /\ e.billable
    /\ e.hours > 0
    /\ e.month \in Window
    /\ e.client \in Linked
    /\ e.title.service \in Services

\* Rows nobody is called, unless they are empty: the script then refuses.
Unmatched(sheet) ==
    \E r \in DOMAIN sheet.rows :
        /\ ReconcileClient[sheet.rows[r].name] = NoClient
        /\ \E i \in DOMAIN sheet.services : IsColumn(sheet, i) /\ HoursAt(sheet, <<r, i>>) # 0

ReconciledCells(sheet, entries) ==
    LET In(k) == Places(sheet, ReconcileClient, k)
        Of(k) == { e \in entries : EntryCounts(e) /\ k \in EntryKey(e) }
        keys == { k \in CalendarKeys : k.client \in Linked /\ In(k) # {} }
                \cup UNION { EntryKey(e) : e \in { f \in entries : EntryCounts(f) } }
        MaxOf(k) == IF k.cover # NoPeriod THEN DefaultMax
                    ELSE IF In(k) = {} THEN 0 ELSE HoursAt(sheet, LastPlace(In(k)))
    IN  [k \in keys |-> Hours(MaxOf(k), SumFunctionOnSet([e \in entries |-> e.hours], Of(k)))]

=============================================================================
