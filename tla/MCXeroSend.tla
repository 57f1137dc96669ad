----------------------------- MODULE MCXeroSend -----------------------------
(* Numbers and annual hours of the drafts.                                  *)
EXTENDS XeroSend, Functions, TLC

\* All drafts were suggested the same document number, or each has its own.
SharedNumber == [d \in Drafts |-> 1]
OwnNumber == CHOOSE f \in [Drafts -> 1..Cardinality(Drafts)] : IsInjective(f)

\* Every draft draws on one hour of the annual allowance.
OneHour == [d \in Drafts |-> 1]

Symmetry == Permutations(Users)

=============================================================================
