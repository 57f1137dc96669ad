---------------------------- MODULE MCReporting -----------------------------
(* Two days at a task, and at one that is invoiced in Teamwork. *)
EXTENDS Reporting, TLC

Entry(hours, billable) == [hours |-> hours, billable |-> billable]

Logged == 1 :> Entry(12, TRUE) @@ 2 :> Entry(12, TRUE) @@ 3 :> Entry(12, TRUE) @@ 4 :> Entry(12, TRUE)
Dates == 1 :> 1 @@ 2 :> 1 @@ 3 :> 2 @@ 4 :> 2
Tasks == 1 :> "one" @@ 2 :> "one" @@ 3 :> "one" @@ 4 :> "two"
Changed == {Entry(24, TRUE), Entry(6, TRUE), Entry(12, FALSE)}
Months == {{1}, {2}, {1, 2}}

Budget(edits, moves, requests, outages, breaks, exits) ==
    "edits" :> edits @@ "moves" :> moves @@ "requests" :> requests
    @@ "outages" :> outages @@ "breaks" :> breaks @@ "exits" :> exits

\* Either drafts are made, edited and sent while nothing polls ...
Billing ==
    /\ Init
    /\ interval = FALSE
    /\ left = Budget(2, 0, 0, 0, 0, 0)

\* ... or documents are there and polled: an invoice of half of what lay outside
\* the allowance, and while the page does not poll a quote.
Halved(line) == IF line.covered THEN line ELSE [line EXCEPT !.quantity = @ \div 2]

SentAs(type, day, lines) == [status |-> "sent", period |-> {day}, type |-> type, lines |-> lines]

Polling ==
    /\ interval = TRUE
    /\ table = Imported
    /\ drafts = 1 :> SentAs("invoice", 1, { Halved(l) : l \in LinesOf({1, 2}, Allowance) })
                @@ 2 :> SentAs("quote", 2, LinesOf({3}, 0))
    /\ writeOffs = 1 :> WrittenOff(1) @@ 2 :> <<>>
    /\ \/ /\ left = Budget(0, 0, 0, 1, 1, 0)
          /\ StatusInit([d \in {1, 2} |-> "DRAFT"])
       \/ /\ left \in {Budget(0, 2, 1, 1, 0, 0), Budget(0, 0, 1, 1, 2, 0), Budget(0, 0, 1, 1, 1, 1)}
          /\ StatusInit([d \in {1} |-> "DRAFT"])

MCInit == Billing \/ Polling

MCSpec == MCInit /\ [][Next]_vars /\ StatusFairness

=============================================================================
