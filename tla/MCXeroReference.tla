-------------------------- MODULE MCXeroReference ---------------------------
(* Two tenants that share codes; one contact to a page and two pages; an    *)
(* account that Xero archived since it was fetched.                         *)
EXTENDS XeroReference, TLC

CONSTANTS t1, t2

Item(id, value) == [id |-> id, value |-> value]

Short == <<Item("a", 1)>>
Long == <<Item("b", 1), Item("a", 2), Item("c", 1)>>

Accounts == <<Item("x", "active"), Item("y", "archived")>>

XeroLists == "contacts" :> {Short, Long} @@ "accounts" :> {Accounts}

AtXero == t1 :> ("contacts" :> Long @@ "accounts" :> Accounts)
          @@ t2 :> ("contacts" :> Short @@ "accounts" :> Accounts)

NotShown == "contacts" :> {} @@ "accounts" :> {"archived"}

StaleRow(value) == [value |-> value, recent |-> FALSE]

FromSheet == "sheet" :> StaleRow(0)

\* An older synchronisation left a contact and an account, the sheet another
\* contact.
Tables == "contacts" :> ("a" :> StaleRow(0) @@ FromSheet) @@ "accounts" :> ("y" :> StaleRow("active"))

=============================================================================
