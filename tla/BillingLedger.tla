---------------------------- MODULE BillingLedger ----------------------------
(***************************************************************************)
(* What sending promises, whatever fails on the way: a draft is revised    *)
(* only while no send of it is going on or in doubt, what is billed is     *)
(* what the send started from, it is billed once and then final, and the   *)
(* annual hours a client prepaid are booked with it and never exceeded.    *)
(***************************************************************************)
EXTENDS Naturals, FiniteSetsExt

CONSTANTS
    Drafts,
    Need,        \* [Drafts -> prepaid hours the draft is covered by]
    Allowance    \* prepaid hours of the year

VARIABLES
    phase,       \* [Drafts -> Phases]
    content,     \* [Drafts -> revision the draft is at]
    billed,      \* [Drafts -> revisions of it that were billed]
    hours        \* prepaid hours booked

ledgerVars == <<phase, content, billed, hours>>

Phases == {"open", "sending", "doubtful", "billed"}

Init ==
    /\ phase = [d \in Drafts |-> "open"]
    /\ content = [d \in Drafts |-> 0]
    /\ billed = [d \in Drafts |-> {}]
    /\ hours = 0

Move(d, from, to) == phase[d] = from /\ phase' = [phase EXCEPT ![d] = to]

Revise(d) ==
    /\ phase[d] = "open"
    /\ content' = [content EXCEPT ![d] = @ + 1]
    /\ UNCHANGED <<phase, billed, hours>>

Send(d) ==
    /\ Move(d, "open", "sending")
    /\ UNCHANGED <<content, billed, hours>>

GiveUp(d) ==
    /\ Move(d, "sending", "open") \/ Move(d, "sending", "doubtful")
    /\ UNCHANGED <<content, billed, hours>>

Reconcile(d) ==
    /\ Move(d, "doubtful", "open")
    /\ UNCHANGED <<content, billed, hours>>

Bill(d) ==
    /\ Move(d, "sending", "billed")
    /\ billed' = [billed EXCEPT ![d] = @ \cup {content[d]}]
    /\ hours' = hours + Need[d]
    /\ hours' <= Allowance
    /\ UNCHANGED content

Next == \E d \in Drafts : Revise(d) \/ Send(d) \/ GiveUp(d) \/ Reconcile(d) \/ Bill(d)

Spec == Init /\ [][Next]_ledgerVars

-----------------------------------------------------------------------------

\* The ledger adds up: exactly the billed drafts are billed, each for the
\* content it shows, and the hours booked are theirs.
Balanced ==
    /\ \A d \in Drafts : billed[d] = IF phase[d] = "billed" THEN {content[d]} ELSE {}
    /\ hours = MapThenSumSet(LAMBDA d : Need[d], { d \in Drafts : phase[d] = "billed" })
    /\ hours <= Allowance

=============================================================================
