----------------------------- MODULE DraftLines -----------------------------
(***************************************************************************)
(* The lines of one draft: how time entries become lines, how the prepaid  *)
(* hours of annual services are applied to them, and how the lines are     *)
(* rebuilt from their own snapshots after an edit                          *)
(* (server/quotePreviewRepository.js, src/shared/quoteDrafts.js).          *)
(*                                                                         *)
(* An entry is its place in the order of date and id.  A key names the     *)
(* allowance of a service for a year.  Hours and rates are whole numbers,  *)
(* in units as small as one likes; amounts are left out but for the order  *)
(* they give the lines.  Texts, discounts and the dated periods of         *)
(* corporate records are left out too.  Who may edit, and the row's        *)
(* version, are QuoteDraft's.                                              *)
(***************************************************************************)
EXTENDS Integers, Sequences, SequencesExt

CONSTANTS
    Imported,    \* the stored time entries: task, hours, rate, billable, and
                 \* the service and year their task name stands for; `titled'
                 \* tells whether that name suits the service's allowance
    Eligible,    \* the services an annual invoice prepays
    Allowance,   \* prepaid hours of every key; 0 where there are none
    Rates,       \* rates an editor gives to entries
    Patches,     \* changes an editor makes to a line
    ManualLines, \* lines an editor adds
    MaxManual,   \* bound on manual lines
    MaxEdits     \* bound on edits of the draft

NoService == 0
NoYear == 0
NoKey == <<NoService, NoYear>>
Entries == DOMAIN Imported
Keys == DOMAIN Allowance

ASSUME ImportedAssumption ==
    Imported \in Seq([task : Nat, hours : Nat \ {0}, rate : Nat, billable : BOOLEAN,
                      service : Nat, titled : BOOLEAN, year : Nat])
ASSUME AllowanceAssumption ==
    /\ Allowance \in [Keys -> Nat] /\ Eligible \subseteq Nat
    /\ Keys \subseteq Eligible \X (Nat \ {NoYear})
ASSUME EditsAssumption ==
    /\ Rates \subseteq Nat
    /\ \A patch \in Patches : /\ \A field \in DOMAIN patch : patch[field] \in Nat
                              /\ "service" \in DOMAIN patch => "year" \in DOMAIN patch
    /\ ManualLines \subseteq [service : Nat, year : Nat, quantity : Nat, unit : Nat]
    /\ MaxManual \in Nat /\ MaxEdits \in Nat

VARIABLES
    lines,      \* quote_lines in line order
    overrides,  \* what the quote_events of the draft say of each entry, the
                \* last event of a kind winning
    used,       \* used_hours of the usage rows
    cut,        \* history: entries of which a line was removed
    retyped,    \* history: entries of a line whose quantity was typed
    edits       \* edits so far, one revision of the row each

vars == <<lines, overrides, used, cut, retyped, edits>>

-----------------------------------------------------------------------------
(* The aggregation: buildAggregatedQuotePreview                            *)

ServiceOf(o, e) ==
    IF o.assigned[e].manual THEN o.assigned[e].service ELSE Imported[e].service

\* The allowance an entry draws on.  A service chosen by hand draws on the
\* year chosen with it, whether or not there are hours for it.
KeyOf(o, e) ==
    LET chosen == o.assigned[e]
        key    == <<ServiceOf(o, e), IF chosen.manual THEN chosen.year ELSE Imported[e].year>>
    IN IF /\ o.billable[e]
          /\ key \in Keys
          /\ chosen.manual \/ (Imported[e].titled /\ Allowance[key] > 0)
       THEN key ELSE NoKey

\* Mutation of Left: every entry finds the allowance as the books have it.
LeftInBooks(key, drawn) == Max({Allowance[key] - used[key], 0})

\* What is left of an allowance when a preview already draws on it.
Left(key, drawn) == Max({Allowance[key] - used[key] - drawn, 0})

\* The hours the entries up to the n-th draw on each allowance.
Drawn(o, hours) ==
    LET drawn[n \in {0} \cup Entries] ==
          IF n = 0 THEN [k \in Keys |-> 0]
          ELSE LET key == KeyOf(o, n) IN
               IF n \in DOMAIN hours /\ key # NoKey
               THEN [drawn[n - 1] EXCEPT ![key] = @ + Min({hours[n], Left(key, @)})]
               ELSE drawn[n - 1]
    IN drawn

\* An entry's covered part and its rest; an empty part is dropped.
Parts(o, hours) ==
    LET drawn      == Drawn(o, hours)
        Covered(e) == LET key == KeyOf(o, e) IN
                      IF key = NoKey THEN 0 ELSE drawn[e][key] - drawn[e - 1][key]
        PartOf(e, key, h) == [entry |-> e, key |-> key, hours |-> h]
    IN {p \in UNION {{PartOf(e, KeyOf(o, e), Covered(e)), PartOf(e, NoKey, hours[e] - Covered(e))} :
                        e \in DOMAIN hours} : p.hours > 0}

\* Mutation of GroupOf: entries of a task share a line in whatever state.
GroupByTask(o, part) == <<Imported[part.entry].task, TRUE, part.key>>

GroupOf(o, part) == <<Imported[part.entry].task, o.billable[part.entry], part.key>>

\* The average rate of the hours that have one, rounded to the nearest unit.
AverageRate(o, hours) ==
    LET rated  == {e \in DOMAIN hours : o.rate[e] > 0}
        weight == SumFunctionOnSet(hours, rated)
        amount == SumFunction([e \in rated |-> hours[e] * o.rate[e]])
    IN IF weight = 0 THEN 0 ELSE (2 * amount + weight) \div (2 * weight)

\* The line of a group of parts.  The first entry names service and year.
LineOf(o, parts) ==
    LET ids   == {p.entry : p \in parts}
        hours == [e \in ids |-> (CHOOSE p \in parts : p.entry = e).hours]
        first == Min(ids)
        key   == (CHOOSE p \in parts : p.entry = first).key
    IN [source   |-> "teamwork",
        task     |-> Imported[first].task,
        hours    |-> hours,
        billable |-> o.billable[first],
        key      |-> key,
        service  |-> ServiceOf(o, first),
        year     |-> IF KeyOf(o, first) # NoKey THEN KeyOf(o, first)[2]
                     ELSE o.assigned[first].year,
        quantity |-> SumFunction(hours),
        unit     |-> AverageRate(o, hours),
        rateSource |-> "entries"]

\* Lines are sorted by task, billable ones first, then by falling amount and by
\* service; the sort is stable.
Place(o, line) ==
    LET ids    == DOMAIN line.hours
        amount == IF line.billable /\ line.key = NoKey
                  THEN SumFunction([e \in ids |-> line.hours[e] * o.rate[e]]) ELSE 0
    IN <<line.task, IF line.billable THEN 0 ELSE 1, 0 - amount, line.service,
         Min(ids), IF line.key = NoKey THEN 1 ELSE 0>>

Before(p, q) ==
    \E i \in DOMAIN p : p[i] < q[i] /\ \A j \in 1..(i - 1) : p[j] = q[j]

\* What S has, one after the other; before[x] is all that comes before x.
InOrder(S, before) ==
    [n \in 1..Cardinality(S) |-> CHOOSE x \in S : Cardinality(before[x]) = n - 1]

LinesOf(o, parts) ==
    {LineOf(o, {p \in parts : GroupOf(o, p) = g}) : g \in {GroupOf(o, p) : p \in parts}}

Sorted(o, made) ==
    InOrder(made, [l \in made |-> {m \in made : Before(Place(o, m), Place(o, l))}])

Aggregated(o, hours) == Sorted(o, LinesOf(o, Parts(o, hours)))

-----------------------------------------------------------------------------
(* The rebuild of a stored draft: rebuildStoredDraftPreview                *)

Ids(line) == DOMAIN line.hours

\* The lines that come from somewhere, in their order.
From(source, ls) ==
    LET at    == {i \in DOMAIN ls : ls[i].source = source}
        place == InOrder(at, [i \in at |-> {j \in at : j < i}])
    IN [n \in DOMAIN place |-> ls[place[n]]]

FromTeamwork(ls) == From("teamwork", ls)
Manual(ls) == From("manual", ls)

EntriesOf(ls) == UNION {Ids(ls[i]) : i \in DOMAIN ls}

\* The hours of an entry on the lines' own snapshots.
HoursOn(ls, e) ==
    SumFunction([i \in {j \in DOMAIN ls : e \in Ids(ls[j])} |-> ls[i].hours[e]])

\* Mutations of StoredHours: an entry's second line is ignored; the entries are
\* read from the database again.
FirstLineHours(ls) ==
    [e \in EntriesOf(ls) |-> ls[Min({i \in DOMAIN ls : e \in Ids(ls[i])})].hours[e]]

HoursReadAgain(ls) == [e \in Entries |-> Imported[e].hours]

StoredHours(ls) == [e \in EntriesOf(ls) |-> HoursOn(ls, e)]

SameIds(a, b) == Ids(a) = Ids(b)
SameSettingsKey(a, b) ==
    SameIds(a, b) /\ a.billable = b.billable /\ (a.key = NoKey) = (b.key = NoKey)

SameKeyIn(ls, line) == {i \in DOMAIN ls : SameSettingsKey(line, ls[i])}
SameIdsIn(ls, line) == {i \in DOMAIN ls : SameIds(line, ls[i])}

\* Mutation of SavedFor: only a line of the same key.
SavedForExactly(line, stored) == SameKeyIn(stored, line)

\* The stored line whose settings a rebuilt one takes: the one of the same key,
\* else the first of those that share most entries with it.
SavedFor(line, stored) ==
    LET exact     == SameKeyIn(stored, line)
        shared(i) == Cardinality(Ids(stored[i]) \cap Ids(line))
    IN IF Cardinality(exact) = 1 THEN exact
       ELSE {i \in DOMAIN stored :
               /\ shared(i) > 0
               /\ \A j \in DOMAIN stored :
                    shared(j) < shared(i) \/ (shared(j) = shared(i) /\ i <= j)}

KeepsQuantity(line, stored, rebuilt) ==
    \/ /\ Cardinality(SameKeyIn(stored, line)) = 1
       /\ Cardinality(SameKeyIn(rebuilt, line)) = 1
    \/ /\ Cardinality(SameIdsIn(stored, line)) = 1
       /\ Cardinality(SameIdsIn(rebuilt, line)) = 1

\* Mutation of RateFromEntries: only entries whose rate is being changed.
RateIfChanged(line, saved, rerated) == Ids(line) \cap rerated # {}

RateFromEntries(line, saved, rerated) ==
    Ids(line) \cap rerated # {} \/ saved.rateSource = "entries"

WithSettings(line, stored, rebuilt, rerated) ==
    IF SavedFor(line, stored) = {} THEN line
    ELSE LET saved == stored[CHOOSE i \in SavedFor(line, stored) : TRUE]
             fromEntries == RateFromEntries(line, saved, rerated)
         IN [line EXCEPT
               !.quantity   = IF KeepsQuantity(line, stored, rebuilt) THEN saved.quantity ELSE @,
               !.unit       = IF fromEntries THEN @ ELSE saved.unit,
               !.rateSource = IF fromEntries THEN "entries" ELSE saved.rateSource]

Rebuilt(ls, o, rerated) ==
    LET stored  == FromTeamwork(ls)
        rebuilt == Aggregated(o, StoredHours(ls))
    IN Manual(ls) \o [i \in DOMAIN rebuilt |-> WithSettings(rebuilt[i], stored, rebuilt, rerated)]

-----------------------------------------------------------------------------
(* The operations                                                          *)

NotAssigned == [manual |-> FALSE, service |-> NoService, year |-> NoYear]

ImportedAsIs ==
    [billable |-> [e \in Entries |-> Imported[e].billable],
     rate     |-> [e \in Entries |-> Imported[e].rate],
     assigned |-> [e \in Entries |-> NotAssigned]]

\* A new draft of all the entries; its usage rows stand anywhere.
Init ==
    /\ used \in {u \in [Keys -> UNION {0..Allowance[k] : k \in Keys}] :
                    \A k \in Keys : u[k] <= Allowance[k]}
    /\ overrides = ImportedAsIs
    /\ lines = Aggregated(ImportedAsIs, [e \in Entries |-> Imported[e].hours])
    /\ cut = {} /\ retyped = {} /\ edits = 0

\* Only entries of the draft can be overridden.
MayOverride(es) == es # {} /\ es \subseteq EntriesOf(lines)

SetBillable(es, value) ==
    /\ MayOverride(es)
    /\ overrides' = [overrides EXCEPT
          !.billable = [e \in Entries |-> IF e \in es THEN value ELSE @[e]]]
    /\ lines' = Rebuilt(lines, overrides', {})
    /\ UNCHANGED <<used, cut, retyped>>

SetRate(es, value) ==
    /\ MayOverride(es)
    /\ overrides' = [overrides EXCEPT
          !.rate = [e \in Entries |-> IF e \in es THEN value ELSE @[e]]]
    /\ lines' = Rebuilt(lines, overrides', es)
    /\ UNCHANGED <<used, cut, retyped>>

Has(patch, field) == field \in DOMAIN patch

\* assertAnnualServiceYear: a prepaid service needs a year, others have none.
YearSuits(service, year) == (year # NoYear) = (service \in Eligible)

PatchedLine(line, patch) ==
    [line EXCEPT
       !.quantity   = IF Has(patch, "quantity") THEN patch.quantity ELSE @,
       !.unit       = IF Has(patch, "unit") THEN patch.unit ELSE @,
       !.rateSource = IF Has(patch, "unit") /\ line.source = "teamwork" THEN "line" ELSE @,
       !.service    = IF Has(patch, "service") THEN patch.service ELSE @,
       !.year       = IF Has(patch, "service") THEN patch.year ELSE @]

\* A line is edited.  A service given to a line of entries is an override of
\* each of them, and rebuilds the draft.
UpdateLine(i, patch) ==
    LET line     == lines[i]
        patched  == [lines EXCEPT ![i] = PatchedLine(line, patch)]
        rebuilds == Has(patch, "service") /\ Ids(line) # {}
    IN /\ Has(patch, "service") => YearSuits(patch.service, patch.year)
       /\ overrides' = IF ~rebuilds THEN overrides
                       ELSE [overrides EXCEPT !.assigned =
                               [e \in Entries |->
                                  IF e \in Ids(line)
                                  THEN [manual |-> TRUE, service |-> patch.service,
                                        year |-> patch.year]
                                  ELSE @[e]]]
       /\ lines' = IF rebuilds THEN Rebuilt(patched, overrides', {}) ELSE patched
       /\ retyped' = IF Has(patch, "quantity") THEN retyped \cup Ids(line) ELSE retyped
       /\ UNCHANGED <<used, cut>>

RemoveLine(i) ==
    /\ lines' = RemoveAt(lines, i)
    /\ cut' = cut \cup Ids(lines[i])
    /\ UNCHANGED <<overrides, used, retyped>>

ManualPart(m, key, quantity) ==
    [source |-> "manual", task |-> 0, hours |-> [e \in {} |-> 0], billable |-> TRUE, key |-> key,
     service |-> m.service, year |-> m.year, quantity |-> quantity, unit |-> m.unit,
     rateSource |-> "line"]

\* A manual line goes before the others, split as an entry is, although what
\* the draft's other lines draw on the allowance is not counted.
AddManualLine(m) ==
    LET key     == <<m.service, m.year>>
        covered == IF key \in Keys THEN Min({m.quantity, Left(key, 0)}) ELSE 0
        Part(k, quantity) == IF quantity > 0 THEN <<ManualPart(m, k, quantity)>> ELSE <<>>
    IN /\ Len(Manual(lines)) < MaxManual
       /\ YearSuits(m.service, m.year)
       /\ lines' = (IF key \in Keys THEN Part(key, covered) \o Part(NoKey, m.quantity - covered)
                    ELSE <<ManualPart(m, NoKey, m.quantity)>>) \o lines
       /\ UNCHANGED <<overrides, used, cut, retyped>>

\* Other drafts are sent, or somebody edits the usage row.
UsageChanges(key, hours) ==
    /\ used' = [used EXCEPT ![key] = hours]
    /\ UNCHANGED <<lines, overrides, cut, retyped, edits>>

Edit ==
    /\ edits < MaxEdits
    /\ edits' = edits + 1
    /\ \/ \E es \in SUBSET Entries, value \in BOOLEAN : SetBillable(es, value)
       \/ \E es \in SUBSET Entries, value \in Rates : SetRate(es, value)
       \/ \E i \in DOMAIN lines, patch \in Patches : UpdateLine(i, patch)
       \/ \E i \in DOMAIN lines : RemoveLine(i)
       \/ \E m \in ManualLines : AddManualLine(m)

Next ==
    \/ Edit
    \/ \E key \in Keys : \E hours \in 0..Allowance[key] : UsageChanges(key, hours)

Spec == Init /\ [][Next]_vars

-----------------------------------------------------------------------------
(* Properties                                                              *)

IsLine(l) ==
    /\ l.source \in {"teamwork", "manual"} /\ l.rateSource \in {"entries", "line"}
    /\ Ids(l) \subseteq Entries /\ \A e \in Ids(l) : l.hours[e] \in Nat \ {0}
    /\ l.billable \in BOOLEAN /\ l.key \in Keys \cup {NoKey}
    /\ {l.task, l.service, l.year, l.quantity, l.unit} \subseteq Nat

\* Lines, overrides and usage have their types; lines of entries have entries,
\* all in the state the overrides give them, and only billable lines are covered.
TypeOK ==
    /\ used \in [Keys -> Nat]
    /\ overrides \in [billable : [Entries -> BOOLEAN], rate : [Entries -> Nat],
                      assigned : [Entries -> [manual : BOOLEAN, service : Nat, year : Nat]]]
    /\ cut \subseteq Entries /\ retyped \subseteq Entries /\ edits \in 0..MaxEdits
    /\ \A i \in DOMAIN lines :
         /\ IsLine(lines[i])
         /\ lines[i].source = "manual" <=> Ids(lines[i]) = {}
         /\ \A e \in Ids(lines[i]) : lines[i].billable = overrides.billable[e]
         /\ lines[i].key # NoKey => lines[i].billable

\* Splitting, regrouping and rebuilding neither lose nor double an hour of an
\* entry: until one of its lines is removed the snapshots of its lines add up
\* to the hours it was imported with, and afterwards to less
\* (storedDraftSourceEntries, splitEntryForAnnualCoverage).
SnapshotKeepsHours ==
    \A e \in Entries :
        IF e \in cut THEN HoursOn(lines, e) < Imported[e].hours
        ELSE HoursOn(lines, e) = Imported[e].hours

\* The rate of a line that was not typed on the line is the average of the
\* rates its entries have now, whatever line its settings came from
\* (applyExistingLineSettings, rateFromEntries).
EntriesRateIsAverage ==
    \A i \in DOMAIN lines :
        lines[i].rateSource = "entries" =>
            lines[i].unit = AverageRate(overrides, lines[i].hours)

\* Hours of removed lines never come back, not even from the entries they were
\* imported from ("removed task rows no longer return during a draft rebuild",
\* CHANGELOG.md:19).
RemovedHoursStayRemoved ==
    [][\A e \in Entries : HoursOn(lines', e) <= HoursOn(lines, e)]_vars

\* The hours of covered lines for an allowance, of entries up to the n-th.
CoveredHours(ls, key, n) ==
    SumFunction([i \in {j \in DOMAIN ls : ls[j].key = key} |->
                   SumFunctionOnSet(ls[i].hours, Ids(ls[i]) \cap 1..n)])

\* The hours on lines that draw on an allowance, of entries up to the n-th.
Demand(o, ls, key, n) ==
    SumFunction([e \in {d \in 1..n : KeyOf(o, d) = key} |-> HoursOn(ls, e)])

\* An allowance is applied as the books say it is: a rebuild covers the hours
\* that draw on it in the order of the entries, all of them until what is left
\* is used up and none after that, however lines were cut, regrouped or
\* reassigned before (annualCoverageForEntry).
AllowanceGoesInOrder ==
    [][overrides' # overrides =>
         \A key \in Keys, n \in Entries :
            CoveredHours(lines', key, n) =
              Min({Demand(overrides', lines', key, n), Left(key, 0)})]_vars

\* A rebuild that no typed setting is part of: entries are switched, or a line
\* gets another service.
OnlyRebuilds ==
    \/ overrides'.billable # overrides.billable
    \/ /\ overrides'.assigned # overrides.assigned
       /\ \E i \in DOMAIN lines, patch \in Patches :
            ~Has(patch, "quantity") /\ ~Has(patch, "unit") /\ UpdateLine(i, patch)

\* What an editor typed on a line survives a rebuild ("hours, rates ... now
\* survive later billability and standardized-service changes",
\* CHANGELOG.md:18): every line made of one line's entries takes that line's
\* rate, and its hours too if it is the same line.
TypedSettingsSurvive ==
    [][OnlyRebuilds =>
         LET old == FromTeamwork(lines)
             new == FromTeamwork(lines')
         IN \A i \in DOMAIN old, j \in DOMAIN new :
              (\A h \in DOMAIN old : (Ids(old[h]) \cap Ids(new[j]) # {}) = (h = i)) =>
                 /\ new[j].rateSource = old[i].rateSource
                 /\ old[i].rateSource = "line" => new[j].unit = old[i].unit
                 /\ SameSettingsKey(old[i], new[j]) /\ old[i].quantity # SumFunction(old[i].hours)
                      => new[j].quantity = old[i].quantity]_vars

\* What the document bills and books is what was worked: while nothing was
\* removed or typed, the quantities of the lines add up to the hours of their
\* entries ("partial task splits recalculate hours without losing the other
\* saved settings", server/quotePreviewRepository.test.js:222).
HoursConserved ==
    cut \cup retyped = {} =>
        MapThenSumSet(LAMBDA i : lines[i].quantity,
                      {i \in DOMAIN lines : lines[i].source = "teamwork"})
          = MapThenSumSet(LAMBDA e : Imported[e].hours, Entries)

=============================================================================
