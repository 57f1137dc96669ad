---------------------------- MODULE MCDraftLines ----------------------------
(* Entries, allowances and edits of a small draft.                          *)
EXTENDS DraftLines

Work(task, hours, rate, billable, service, titled) ==
    [task |-> task, hours |-> hours, rate |-> rate, billable |-> billable,
     service |-> service, titled |-> titled, year |-> 1]

\* Two entries of an annual service's task, and one that is not billable.
ThreeEntries ==
    <<Work(1, 1, 3, TRUE, 1, TRUE), Work(1, 2, 6, TRUE, 1, TRUE), Work(2, 1, 0, FALSE, 2, TRUE)>>

\* Service 1 is prepaid for year 1 only.
AnnualService == {1}
TwoHours == (<<1, 1>> :> 2) @@ (<<1, 2>> :> 0)

TypedPatches ==
    {[quantity |-> 4], [unit |-> 5], [service |-> 2, year |-> NoYear],
     [service |-> 1, year |-> 2],
     [service |-> 1, year |-> 1, quantity |-> 4]}

TypedLines ==
    {[service |-> 1, year |-> 1, quantity |-> 3, unit |-> 5],
     [service |-> 2, year |-> NoYear, quantity |-> 3, unit |-> 5]}

=============================================================================
