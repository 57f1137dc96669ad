--------------------------- MODULE XeroReference ----------------------------
(***************************************************************************)
(* The reference data of Xero (contacts, tax rates, accounts and items)    *)
(* kept in tables of the application, and how they are brought up to date  *)
(* through a connection that others use, renew and change meanwhile.       *)
(* server/xeroReferenceRepository.js, fetchXeroReferenceData of            *)
(* server/xeroClient.js.                                                   *)
(*                                                                         *)
(* Each collection is fetched by a caller of its own, page by page, and    *)
(* every page asks for the connection again.                               *)
(***************************************************************************)
EXTENDS XeroConnection, Sequences, SequencesExt

CONSTANTS
    Collections,   \* fetched ones
    Contacts,      \* the first of them
    Paged,         \* those that come in pages
    PageSize,
    MaxPages,      \* no more of them are asked for
    Unlisted,      \* [Collections -> values the application's lists leave out]
    Lists,         \* [Collections -> what Xero may list, sequences of [id, value]]
    FirstBooks,    \* what they list at first
    Sheet,         \* rows from before there was a connection, a function like a table
    Stored,        \* tables at first
    MaxSyncs,      \* bound: synchronisations
    MaxChanges     \* bound: changes at Xero and passages of time

ASSUME CollectionsAssumption == Contacts \in Collections /\ Collections \subseteq Callers
ASSUME PageAssumption ==
    PageSize \in Nat \ {0} /\ MaxPages \in Nat \ {0} /\ Paged \subseteq Collections
\* Xero lists an id once, and none of those the sheet's rows go by.
ASSUME ListsAssumption ==
    /\ \A k \in Collections : \A list \in Lists[k] :
         /\ list \in Seq(Range(list))
         /\ \A m, n \in DOMAIN list : list[m].id = list[n].id => m = n
         /\ \A n \in DOMAIN list : list[n].id \notin DOMAIN Sheet
    /\ FirstBooks \in [Tenants -> [Collections -> UNION { Lists[k] : k \in Collections }]]
    /\ \A t \in Tenants, k \in Collections : FirstBooks[t][k] \in Lists[k]
\* What was fetched before is older than the TTL.
ASSUME StoredAssumption ==
    /\ Stored = [k \in Collections |-> Stored[k]]
    /\ \A k \in Collections : \A id \in DOMAIN Stored[k] \ DOMAIN Sheet : ~Stored[k][id].recent

VARIABLES
    books,     \* Xero: what each tenant lists
    tables,    \* [Collections -> rows by id: value, and whether synced_at is within the TTL]
    fetch,     \* progress of each collection: page, items, mode
    sync,      \* "never", "contacts", "others", and how the last one ended
    quiet,     \* since the synchronisation began nothing at Xero and no connection changed
    recent,    \* collections fetched to their last page within the TTL
    syncs, changes   \* counters for the bounds

referenceVars == <<books, tables, fetch, sync, quiet, recent, syncs, changes>>
vars == <<connectionVars, referenceVars>>

-----------------------------------------------------------------------------
(* The cache. *)

Live(k) == { id \in DOMAIN tables[k] : id \notin DOMAIN Sheet }

\* Mutation of CacheIsFresh: the newest table counts.
NewestIsFresh ==
    /\ \A k \in Collections : Live(k) # {}
    /\ \E k \in Collections : \E id \in Live(k) : tables[k][id].recent

\* xeroReferenceCacheState: of the latest entries of the tables the oldest.
CacheIsFresh ==
    \A k \in Collections : \E id \in Live(k) : tables[k][id].recent

\* What listXeroContacts and the others show: of the accounts the active
\* ones, of the items those that are sold.
Shown(k) ==
    { id \in IF Live(k) = {} THEN DOMAIN tables[k] ELSE Live(k) :
        tables[k][id].value \notin Unlisted[k] }

StoredRow(value, recently) == [value |-> value, recent |-> recently]

\* The last item of an id counts; nothing that vanished at Xero goes.
Upserted(k, items) ==
    LET at(id) == { n \in DOMAIN items : items[n].id = id }
    IN  [id \in (DOMAIN tables[k]) \cup { i.id : i \in Range(items) } |->
            IF at(id) = {} THEN tables[k][id] ELSE StoredRow(items[Max(at(id))].value, TRUE)]

\* Contacts from the sheet go as soon as there are others.
WithoutSheet(table, items) ==
    [id \in { i \in DOMAIN table : items = <<>> \/ i \notin DOMAIN Sheet } |-> table[id]]

-----------------------------------------------------------------------------
(* A synchronisation. *)

Waiting == [page |-> 1, items |-> <<>>, mode |-> "waiting"]
Asking == [Waiting EXCEPT !.mode = "asking"]

Running == sync \in {"contacts", "others"}

Settled(k) == fetch[k].mode \in {"live", "none", "failed"}

\* syncXeroReferenceData, whose page may insist.
BeginSync(force) ==
    /\ ~Running
    /\ syncs < MaxSyncs
    /\ force \/ ~CacheIsFresh
    /\ syncs' = syncs + 1
    /\ sync' = "contacts"
    /\ fetch' = [k \in Collections |-> IF k = Contacts THEN Asking ELSE Waiting]
    /\ quiet' = TRUE
    /\ UNCHANGED <<connectionVars, books, tables, recent, changes>>

Progress(k, state) ==
    /\ fetch' = [fetch EXCEPT ![k] = state]
    /\ UNCHANGED <<books, tables, sync, quiet, recent, syncs, changes>>

AskFor(k) ==
    /\ Running
    /\ fetch[k].mode = "asking"
    /\ Ask(k)
    /\ UNCHANGED referenceVars

\* Mutation of PageOf: the first page is the one after the first.
PageAfter(list, n) == SubSeq(list, n * PageSize + 1, Min({(n + 1) * PageSize, Len(list)}))

PageOf(list, n) == SubSeq(list, (n - 1) * PageSize + 1, Min({n * PageSize, Len(list)}))

\* A page that is not full is the last, and so is page MaxPages: what there is
\* then counts as the collection.
Answered(k, list) ==
    LET got == IF k \in Paged THEN PageOf(list, fetch[k].page) ELSE list
        items == fetch[k].items \o got
    IN  IF k \in Paged /\ Len(got) = PageSize /\ fetch[k].page < MaxPages
        THEN [page |-> fetch[k].page + 1, items |-> items, mode |-> "asking"]
        ELSE [page |-> fetch[k].page, items |-> items, mode |-> "live"]

Fetches(k) ==
    /\ fetch[k].mode = "asking"
    /\ agents[k].step = "ready"
    /\ Returns(k)
    /\ \/ Progress(k, Answered(k, books[agents[k].tenant][k]))
       \/ Progress(k, [fetch[k] EXCEPT !.mode = "failed"])

\* Not connected: the collection counts as empty, whatever came before.
Unanswered(k) == [fetch[k] EXCEPT !.mode = "none", !.items = <<>>]

NotFetched(k) ==
    /\ fetch[k].mode = "asking"
    /\ agents[k].step \in {"prepared", "failed"}
    /\ Returns(k)
    /\ Progress(k, IF agents[k].step = "prepared" THEN Unanswered(k)
                   ELSE [fetch[k] EXCEPT !.mode = "failed"])

\* With the contacts come the others, all at once.
ContactsCame ==
    /\ sync = "contacts"
    /\ Settled(Contacts)
    /\ IF fetch[Contacts].mode = "live"
       THEN /\ sync' = "others"
            /\ fetch' = [k \in Collections |-> IF k = Contacts THEN fetch[k] ELSE Asking]
       ELSE sync' = "unsynced" /\ UNCHANGED fetch
    /\ UNCHANGED <<connectionVars, books, tables, quiet, recent, syncs, changes>>

Came(k) == fetch[k].mode = "live"

StoreReference ==
    /\ sync = "others"
    /\ \A k \in Collections : fetch[k].mode \in {"live", "none"}
    /\ tables' = [k \in Collections |->
                    IF k = Contacts
                    THEN WithoutSheet(Upserted(k, fetch[k].items), fetch[k].items)
                    ELSE Upserted(k, fetch[k].items)]
    /\ recent' = recent \cup { k \in Collections : Came(k) }
    /\ sync' = "synced"
    /\ UNCHANGED <<connectionVars, books, fetch, quiet, syncs, changes>>

\* A request or the transaction failed.
SyncFails ==
    /\ sync = "others"
    /\ \A k \in Collections : Settled(k)
    /\ sync' = "unsynced"
    /\ UNCHANGED <<connectionVars, books, tables, fetch, quiet, recent, syncs, changes>>

-----------------------------------------------------------------------------
(* Everything else. *)

Connected == { t \in Tenants : t = latest /\ rows[t].status = "connected" }

\* Other requests, and changes of the connection.
Others ==
    /\ \/ \E c \in Callers \ Collections : Ask(c) \/ Returns(c)
       \/ ConnectionStep
    /\ quiet' = (quiet /\ Connected' = Connected)
    /\ UNCHANGED <<books, tables, fetch, sync, recent, syncs, changes>>

Exit ==
    /\ Restart
    /\ sync' = IF Running THEN "unsynced" ELSE sync
    /\ fetch' = [k \in Collections |-> Waiting]
    /\ UNCHANGED <<books, tables, quiet, recent, syncs, changes>>

XeroChanges(t, k) ==
    /\ changes < MaxChanges
    /\ changes' = changes + 1
    /\ \E list \in Lists[k] \ {books[t][k]} : books' = [books EXCEPT ![t][k] = list]
    /\ quiet' = FALSE
    /\ UNCHANGED <<connectionVars, tables, fetch, sync, recent, syncs>>

TtlPasses(k) ==
    /\ changes < MaxChanges
    /\ changes' = changes + 1
    /\ tables' = [tables EXCEPT ![k] = [id \in DOMAIN tables[k] |-> StoredRow(tables[k][id].value, FALSE)]]
    /\ recent' = recent \ {k}
    /\ UNCHANGED <<connectionVars, books, fetch, sync, quiet, syncs>>

Init ==
    /\ ConnectionInit
    /\ books = FirstBooks
    /\ tables = Stored
    /\ fetch = [k \in Collections |-> Waiting]
    /\ sync = "never"
    /\ quiet = FALSE
    /\ recent = {}
    /\ syncs = 0 /\ changes = 0

Next ==
    \/ \E force \in BOOLEAN : BeginSync(force)
    \/ \E k \in Collections : AskFor(k) \/ Fetches(k) \/ NotFetched(k)
    \/ ContactsCame \/ StoreReference \/ SyncFails
    \/ Others \/ Exit
    \/ \E t \in Tenants, k \in Collections : XeroChanges(t, k)
    \/ \E k \in Collections : TtlPasses(k)

Spec == Init /\ [][Next]_vars

-----------------------------------------------------------------------------
(* Properties. *)

\* Before it trusts its tables a page may ask no one: every one of them then
\* was fetched to its end, or to page MaxPages, within the TTL, whatever broke
\* off in between (xeroReferenceRepository.js:131).
FreshIsRecent == CacheIsFresh => recent = Collections

\* The entries that come within MaxPages pages (xeroClient.js:541).
Reached(k, list) ==
    IF k \in Paged THEN SubSeq(list, 1, Min({MaxPages * PageSize, Len(list)})) ELSE list

\* A synchronisation that says it succeeded, with nothing changed meanwhile,
\* leaves every entry within reach as the connected tenant has it at Xero, and
\* shows it unless its kind is not shown (xeroReferenceRepository.js:202, :356).
QuietSyncShowsXero ==
    [][sync = "others" /\ sync' = "synced" /\ quiet =>
         \A t \in Connected : \A k \in Collections : \A i \in Range(Reached(k, books[t][k])) :
             /\ i.id \in DOMAIN tables'[k] /\ tables'[k][i.id].value = i.value
             /\ i.id \in Shown(k)' <=> i.value \notin Unlisted[k]]_vars

=============================================================================
