----------------------------- MODULE Reporting ------------------------------
(***************************************************************************)
(* Where the hours of a report come from: time entries that are estimated, *)
(* billed by an invoice or written off by one, and how a draft, its edits, *)
(* its send and what becomes of the document at Xero move them about.      *)
(* src/shared/reportingClassification.js and                               *)
(* server/reportingClassificationRepository.js.                            *)
(*                                                                         *)
(* An entry is its place in the order of date and id.  All entries are of  *)
(* one project with one prepaid service.  Hours are in units small enough  *)
(* for every share of a line to be whole; amounts go by the same shares    *)
(* and are left out.  How lines are rebuilt is DraftLines', how a send     *)
(* goes XeroSend's: here it is its last transaction.                       *)
(***************************************************************************)
EXTENDS DocumentStatus, Functions

CONSTANTS
    Imported,                \* [entries -> hours and billable] at first
    DayOf, TaskOf,           \* functions of the entries
    InvoicedInTeamwork,      \* entries with an invoice of Teamwork's
    Resynced,                \* what a synchronisation may make of an entry
    Allowance,               \* prepaid hours
    Drafts,
    Periods                  \* of drafts and reports, sets of days

Entries == DOMAIN Imported

TimeEntry == [hours : Nat, billable : BOOLEAN]

ASSUME EntriesAssumption ==
    /\ Entries \subseteq Nat /\ IsFiniteSet(Entries)
    /\ Imported \in [Entries -> TimeEntry] /\ Resynced \subseteq TimeEntry
    /\ DayOf \in [Entries -> Nat]
    /\ DOMAIN TaskOf = Entries

ASSUME DraftsAssumption ==
    /\ Drafts # {} /\ IsFiniteSet(Drafts) /\ Allowance \in Nat

VARIABLES
    table,      \* teamwork_time_entries
    drafts,     \* quote_previews with their lines, from their generation on
    writeOffs   \* reporting_time_allocations of each draft: [Entries -> hours]

reportVars == <<table, drafts, writeOffs>>
vars == <<statusVars, reportVars>>

Sum(f) == SumFunction(f)

In(period) == { e \in Entries : DayOf[e] \in period }
Billable == { e \in Entries : table[e].billable }
Hours == [e \in Entries |-> table[e].hours]

\* Prepaid hours go to entries in their order.
Drawn(S, prepaid) ==
    LET before(e) == Sum(Restrict(Hours, { f \in S : f < e }))
    IN  [e \in S |-> Max({0, Min({Hours[e], prepaid - before(e)})})]

-----------------------------------------------------------------------------
(* Drafts. *)

NoDraft == [status |-> "none"]

\* A line keeps the hours its entries had when it was made.
Line(hours, covered) ==
    [hours |-> hours, covered |-> covered, priced |-> TRUE, quantity |-> Sum(hours)]

\* include_in_xero
Included(line) == ~line.covered /\ line.priced /\ line.quantity > 0

\* buildAggregatedQuotePreview: the lines that are billable.
LinesOf(S, prepaid) ==
    LET drawn == Drawn(S, prepaid)
        rest == [e \in S |-> Hours[e] - drawn[e]]
        part(hours, task) == Restrict(hours, { e \in S : hours[e] > 0 /\ TaskOf[e] = task })
        made == { Line(part(drawn, TaskOf[e]), TRUE) : e \in S }
                \cup { Line(part(rest, TaskOf[e]), FALSE) : e \in S }
    IN  { l \in made : DOMAIN l.hours # {} }

QuantityOf(lines) == Sum([l \in lines |-> l.quantity])

CoveredBy(d) == { l \in drafts[d].lines : l.covered }

\* used_hours, booked by every send.
Used == Sum([d \in { x \in Drafts : drafts[x].status = "sent" } |-> QuantityOf(CoveredBy(d))])

\* createQuotePreview.  Entries that other drafts bill are not left out.
Generate(d, period) ==
    LET S == (Billable \cap In(period)) \ InvoicedInTeamwork IN
    /\ drafts[d].status = "none"
    /\ drafts' = [drafts EXCEPT ![d] =
                    [status |-> "preview", period |-> period,
                     lines |-> LinesOf(S, Max({0, Allowance - Used}))]]
    /\ UNCHANGED <<statusVars, table, writeOffs>>

EditedLines(line) ==
    { [line EXCEPT !.quantity = q] : q \in {0, Sum(line.hours) \div 2, 2 * Sum(line.hours)} }
    \cup { [line EXCEPT !.priced = FALSE] }

\* updateQuotePreviewMetadata: a line is changed or removed.
EditDraft(d) ==
    /\ drafts[d].status = "preview"
    /\ Spend("edits")
    /\ \E l \in drafts[d].lines :
         \E new \in { {} } \cup { {x} : x \in EditedLines(l) } :
            drafts' = [drafts EXCEPT ![d].lines = (@ \ {l}) \cup new]
    /\ UNCHANGED <<interval, shown, atXero, link, polls, cycles, incident, excused,
                   table, writeOffs>>

-----------------------------------------------------------------------------
(* The send: what it bills and writes off. *)

\* The hours of an entry that a line stands for.
PartOf(line, e, whole) ==
    IF e \in DOMAIN line.hours THEN (line.hours[e] * line.quantity) \div whole ELSE 0

\* Mutation of Represented: a line stands for what it was made of.
RepresentedAsMade(d, e) ==
    Sum([l \in { x \in drafts[d].lines : Included(x) \/ x.covered } |->
           IF e \in DOMAIN l.hours THEN l.hours[e] ELSE 0])

\* A line stands for no more than the hours it was made of.
Represented(d, e) ==
    Sum([l \in { x \in drafts[d].lines : Included(x) \/ x.covered } |->
           IF e \in DOMAIN l.hours THEN Min({l.hours[e], PartOf(l, e, Sum(l.hours))}) ELSE 0])

\* What the send of a draft should have billed: the entries of its period,
\* whether or not they were there, or free, when it was made.
SourceOf(d) == Billable \cap In(drafts[d].period)

\* recordInvoiceWriteOffAllocations
WrittenOff(d) == [e \in SourceOf(d) |-> Max({0, Hours[e] - Represented(d, e)})]

\* applyAnnualUsageDeltas refuses what no longer fits.
Fits(d) == QuantityOf(CoveredBy(d)) = 0 \/ Used + QuantityOf(CoveredBy(d)) <= Allowance

\* The last transaction of sendQuotePreviewToXero.  The document was created
\* or, without a connection, only prepared.
Send(d, type, live) ==
    /\ drafts[d].status = "preview"
    /\ \E l \in drafts[d].lines : Included(l)
    /\ Fits(d)
    /\ drafts' = [drafts EXCEPT ![d] = [status |-> "sent", period |-> @.period, lines |-> @.lines,
                                        type |-> type]]
    /\ writeOffs' = [writeOffs EXCEPT ![d] =
                       IF live /\ type = "invoice" THEN RestrictDomain(WrittenOff(d), LAMBDA e : WrittenOff(d)[e] > 0)
                       ELSE <<>>]
    /\ IF live THEN Stored(d) ELSE UNCHANGED statusVars
    /\ UNCHANGED table

\* A synchronisation brings an entry as it is in Teamwork by now.
Resync(e) ==
    /\ Spend("edits")
    /\ \E new \in Resynced \ {table[e]} : table' = [table EXCEPT ![e] = new]
    /\ UNCHANGED <<interval, shown, atXero, link, polls, cycles, incident, excused,
                   drafts, writeOffs>>

-----------------------------------------------------------------------------
(* A report over a period. *)

\* The documents a report counts on.
Confirmed == { d \in DOMAIN shown : drafts[d].type = "invoice" /\ shown[d] # "VOIDED" }

\* The lines these bill, with those of their entries that are in the period.
BilledIn(period) ==
    { x \in UNION { { [line |-> l, in |-> DOMAIN l.hours \cap In(period), draft |-> d] :
                        l \in drafts[d].lines } : d \in Confirmed } :
        x.in # {} /\ (Included(x.line) \/ x.line.covered) }

\* An entry gets its share among the entries of the line in the period: when
\* others are outside, it gets theirs, too.
Allocations(period) ==
    UNION { { [draft |-> x.draft, entry |-> e, prepaid |-> x.line.covered,
               hours |-> PartOf(x.line, e, Sum(Restrict(x.line.hours, x.in)))] :
                e \in x.in } : x \in BilledIn(period) }

\* Write-offs stay whatever becomes of their document.
WriteOffs(period) ==
    UNION { { [draft |-> d, entry |-> e, hours |-> writeOffs[d][e]] :
                e \in In(period) \cap DOMAIN writeOffs[d] } : d \in Drafts }

HoursOf(allocations) == Sum([a \in allocations |-> a.hours])
For(e, allocations) == { a \in allocations : a.entry = e }

Accounted(billed, written) == { a.entry : a \in billed \cup written }

Days == { DayOf[e] : e \in Entries }
UpTo(period) == { day \in Days : \E last \in period : day <= last }

\* buildReportingClassifications: the prepaid hours of the project.  Entries
\* no invoice accounts for draw on the whole allowance, in the order of all
\* entries that far, what invoices have drawn notwithstanding.
Prepaid(period) ==
    LET billed == Allocations(period)
        estimated == (Billable \cap In(period)) \ Accounted(billed, WriteOffs(period))
        drawn == Drawn(Billable \cap In(UpTo(period)), Allowance)
    IN  Sum(Restrict(drawn, estimated)) + HoursOf({ a \in billed : a.prepaid })

Init ==
    /\ StatusInit(<<>>)
    /\ table = Imported
    /\ drafts = [d \in Drafts |-> NoDraft]
    /\ writeOffs = [d \in Drafts |-> <<>>]

Next ==
    \/ \E d \in Drafts : \E period \in Periods : Generate(d, period)
    \/ \E d \in Drafts : EditDraft(d)
    \/ \E d \in Drafts : \E type \in {"invoice", "quote"} : \E live \in BOOLEAN : Send(d, type, live)
    \/ \E e \in Entries : Resync(e)
    \/ StatusStep /\ UNCHANGED reportVars

\* With or without a timer, however much still happens.
Spec == Init /\ [][Next]_vars

-----------------------------------------------------------------------------
(* Properties. *)

\* The send of an invoice accounts for every hour of its period: what a report
\* takes as billed by it and what it writes off come, entry by entry, to the
\* entry's hours, and to more only where an editor raised a quantity or the
\* entry lost hours since.  The two are computed by queries of their own
\* (reportingClassificationRepository.js:60, 194).
HoursAreAccountedFor ==
    [][\A d \in Drafts :
         d \in DOMAIN shown' \ DOMAIN shown /\ drafts'[d].type = "invoice" =>
           \A e \in SourceOf(d) :
             LET billed == HoursOf({ a \in For(e, Allocations(Days)') : a.draft = d })
                 written == HoursOf({ a \in For(e, WriteOffs(Days)') : a.draft = d })
                 lines == { l \in drafts[d].lines : e \in DOMAIN l.hours }
             IN  /\ billed + written >= Hours[e]
                 /\ billed + written > Hours[e] =>
                      \/ \E l \in lines : l.quantity > Sum(l.hours)
                      \/ Sum([l \in lines |-> l.hours[e]]) > Hours[e]]_vars

\* The prepaid hours of a report are covered by the allowance: what Xero has
\* confirmed overrides what was estimated (App.jsx:430).  It does not: a report
\* starts from nothing used (reportingClassificationRepository.js:171), so that
\* open entries draw again on what a sent invoice covers of later ones.
PrepaidIsCovered == \A period \in Periods : Prepaid(period) <= Allowance

=============================================================================
