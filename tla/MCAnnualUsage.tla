--------------------------- MODULE MCAnnualUsage ----------------------------
(* A client with Xero contact and one without, a calendar service and the   *)
(* corporate records; a period that covers half of both years.              *)
EXTENDS AnnualUsage, TLC

CONSTANTS c1, c2, corp, cit, other, n1, n2, n3, nobody

Order == <<c1, c2>>
Display == c1 :> n1 @@ c2 :> n2
Xero == c1 :> n3 @@ c2 :> n2
Project == c1 :> n1 @@ c2 :> n3
Parts == {<<n1, n2>>}

Title(s, pattern, first, last, y) ==
    [service |-> s, pattern |-> pattern, first |-> first, last |-> last, year |-> y]

Until == Title(Corp, "rolling_until_month", 0, 29, 2)
HalfYears == TitlePeriod(Until)

\* A task names year 1; the period a draft needs is named by none.
DetectedPeriods == {<<c1, TitlePeriod(Title(Corp, "calendar_year", 0, 0, 1))>>}

Wanted == { [key |-> DatedKey(c1, HalfYears), hours |-> 1],
            [key |-> CalendarKey(c1, cit, 2), hours |-> 1] }

Entry(id, c, title, month, hours, billable) ==
    [id |-> id, client |-> c, title |-> title, month |-> month, hours |-> hours, billable |-> billable]

Logged == { Entry(1, c1, Until, 20, 1, TRUE),    Entry(2, c1, Until, 30, 1, TRUE),
            Entry(3, c1, Until, 21, 1, FALSE),
            Entry(4, c1, Title(cit, "none", 0, 0, NoYear), 25, 1, TRUE),
            Entry(5, c2, Title(cit, "none", 0, 0, NoYear), 25, 1, TRUE) }

HalfOfYear2 == 12..29

\* The year stands above its first column; the last row of a name counts.
Matrix(h1, h2) ==
    [ years |-> <<2, NoYear>>, services |-> <<other, cit>>,
      rows |-> << [name |-> n1, hours |-> <<0, h1>>],
                  [name |-> n2, hours |-> <<1, 1>>],
                  [name |-> n1, hours |-> <<0, h2>>] >> ]

WithStranger == [Matrix(1, 1) EXCEPT !.rows[2].name = nobody]

\* Two codes of one service; the first invoice is written twice.  Corporate
\* records are found among the rows of the year, dated ones too.
Line(name, service, invoice, max, used) ==
    [name |-> name, service |-> service, year |-> 2, invoice |-> invoice, max |-> max, used |-> used]

Invoices == << Line(n1, cit, 1, 1, 1), Line(n1, cit, 1, 2, 0), Line(n1, cit, 2, NoMax, 1),
               Line(n1, corp, 3, 2, 1), Line(nobody, cit, 4, 1, 1) >>

Books == { [format |-> "matrix", invoiced |-> Matrix(1, 2), used |-> Matrix(1, 0)],
           [format |-> "row-export", lines |-> Invoices] }
PrepaidSheets == { Matrix(1, 2), WithStranger }

=============================================================================
