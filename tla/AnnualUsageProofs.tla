-------------------------- MODULE AnnualUsageProofs --------------------------
(***************************************************************************)
(* The table of prepaid hours, for any clients, services, years, workbooks *)
(* and entries, and however the requests of the page and their answers are *)
(* delayed, lost or overtake each other: what is typed is kept, the table  *)
(* stays sound, used hours stay in it, drafts book what they planned, and  *)
(* the scripts leave one row per cell.                                     *)
(***************************************************************************)
EXTENDS AnnualUsage, SumTheorems

IsSave(m) == m.kind \in {"save", "saved"}

\* A save of a calendar cell, on its way there or back.
IsCellSave(m) == IsSave(m) /\ m.key.cover = NoPeriod

CellOf(m) == <<m.key.client, m.key.service>>

\* A list has all calendar cells, and dated ones.
AreDated(cells) == \A d \in cells : d[2] # NoPeriod

HasCells(m) ==
    m.kind = "listed" =>
        /\ m.list.calendar = [cell \in PageCells |-> m.list.calendar[cell]]
        /\ AreDated(DOMAIN m.list.dated)

\* An autosave that is due carries the latest version of its cell, everything
\* under way an earlier one.
DueIsLatest ==
    /\ \A cell \in PageCells : timer[cell].due => timer[cell].version = version[cell]
    /\ \A m \in net : IsCellSave(m) =>
         /\ m.version <= version[CellOf(m)]
         /\ timer[CellOf(m)].due => m.version < version[CellOf(m)]

PageTyped ==
    /\ version \in [PageCells -> Nat]
    /\ timer = [cell \in PageCells |-> timer[cell]]
    /\ shown = [cell \in PageCells |-> shown[cell]]
    /\ AreDated(DOMAIN dated)
    /\ \A m \in net :
         /\ HasCells(m)
         /\ IsSave(m) => m = [kind |-> m.kind, id |-> m.id, key |-> m.key,
                              hours |-> m.hours, version |-> m.version]
         /\ IsCellSave(m) => CellOf(m) \in PageCells /\ m.version \in Nat

TypedInv == PageTyped /\ DueIsLatest

-----------------------------------------------------------------------------
(* Messages. *)

LEMMA LoadIsNoSave == \A y : ~IsSave(LoadRequest(y)) /\ LoadRequest(y).kind = "load"
BY DEF LoadRequest, IsSave

LEMMA SaveShape ==
    ASSUME NEW k, NEW h, NEW v
    PROVE  LET m == SaveRequest(k, h, v)
           IN  /\ m.kind = "save" /\ m.key = k /\ m.version = v
               /\ m = [kind |-> m.kind, id |-> m.id, key |-> m.key, hours |-> m.hours,
                       version |-> m.version]
BY DEF SaveRequest

LEMMA CellFacts ==
    ASSUME NEW cell \in PageCells, NEW y, NEW h, NEW v
    PROVE  LET m == SaveRequest(CalendarKey(cell[1], cell[2], y), h, v)
           IN  IsCellSave(m) /\ CellOf(m) = cell /\ m.version = v
<1>1. cell = <<cell[1], cell[2]>>
    BY DEF PageCells
<1>2. QED
    BY <1>1, SaveShape DEF IsCellSave, IsSave, CellOf, CalendarKey, Key

\* Messages go, or come that are no saves of a calendar cell.
LEMMA NetStep ==
    ASSUME TypedInv, UNCHANGED <<version, timer>>,
           shown' = [cell \in PageCells |-> shown'[cell]], AreDated(DOMAIN dated'),
           \A m \in net' : \/ m \in net
                           \/ ~IsSave(m) /\ HasCells(m)
                           \/ /\ IsSave(m) /\ ~IsCellSave(m)
                              /\ m = [kind |-> m.kind, id |-> m.id, key |-> m.key,
                                      hours |-> m.hours, version |-> m.version]
    PROVE  TypedInv'
BY DEF TypedInv, PageTyped, DueIsLatest, IsSave, IsCellSave, CellOf, HasCells

-----------------------------------------------------------------------------
(* Steps of the page and the server. *)

\* The autosave of a cell, or leaving its input.
LEMMA SaveStep ==
    ASSUME TypedInv, NEW cell \in PageCells, NEW h, NEW y,
           SaveCell(cell, h, version[cell], y),
           timer' = [timer EXCEPT ![cell] = NoTimer], UNCHANGED <<version, shown, dated>>
    PROVE  TypedInv'
<1> DEFINE m == SaveRequest(CalendarKey(cell[1], cell[2], y), h, version[cell])
<1>1. net' \subseteq net \cup {m}
    BY DEF SaveCell, Requests
<1>2. IsCellSave(m) /\ CellOf(m) = cell /\ m.version = version[cell] /\ version[cell] \in Nat
    BY CellFacts DEF TypedInv, PageTyped
<1>3. m = [kind |-> m.kind, id |-> m.id, key |-> m.key, hours |-> m.hours, version |-> m.version]
    BY SaveShape
<1> HIDE DEF m
<1>4. timer' = [c \in PageCells |-> IF c = cell THEN NoTimer ELSE timer[c]]
    BY DEF TypedInv, PageTyped
<1>5. PageTyped'
    BY <1>1, <1>2, <1>3, <1>4 DEF TypedInv, PageTyped, IsSave, IsCellSave, CellOf, HasCells
<1>6. ~timer'[cell].due /\ \A c \in PageCells : c # cell => timer'[c] = timer[c]
    BY <1>4 DEF NoTimer
<1>7. DueIsLatest'
    <2>1. ASSUME NEW c \in PageCells, timer'[c].due PROVE timer'[c].version = version'[c]
        BY <1>6, <2>1 DEF TypedInv, DueIsLatest
    <2>2. ASSUME NEW n \in net', IsCellSave(n)
          PROVE  /\ n.version <= version[CellOf(n)]
                 /\ timer'[CellOf(n)].due => n.version < version[CellOf(n)]
        <3>1. CASE n = m
            BY <1>2, <1>6, <3>1
        <3>2. CASE n \in net
            BY <1>6, <2>2, <3>2 DEF TypedInv, DueIsLatest, PageTyped
        <3>3. QED
            BY <1>1, <3>1, <3>2
    <2>3. QED
        BY <2>1, <2>2 DEF DueIsLatest, IsCellSave, IsSave, CellOf
<1>8. QED
    BY <1>5, <1>7 DEF TypedInv

LEMMA TypeStep ==
    ASSUME TypedInv, NEW cell \in PageCells, NEW field, NEW value, Type(cell, field, value)
    PROVE  /\ TypedInv'
           /\ \A c \in PageCells : c # cell => shown'[c] = shown[c]
           /\ timer[cell].due => timer'[cell] # timer[cell]
<1> DEFINE due == [due |-> TRUE, hours |-> shown'[cell], version |-> version'[cell], year |-> tab]
<1>1. /\ version' = [version EXCEPT ![cell] = @ + 1] /\ version \in [PageCells -> Nat]
      /\ timer' = [timer EXCEPT ![cell] = due] /\ net' = net /\ dated' = dated
      /\ shown' = [shown EXCEPT ![cell] = Changed(@, field, value)]
    BY DEF Type, TypedInv, PageTyped
<1>2. /\ version' \in [PageCells -> Nat] /\ version'[cell] = version[cell] + 1
      /\ version[cell] \in Nat /\ \A c \in PageCells : c # cell => version'[c] = version[c]
    BY <1>1
<1>3. /\ timer' = [c \in PageCells |-> IF c = cell THEN due ELSE timer[c]]
      /\ shown' = [c \in PageCells |-> IF c = cell THEN Changed(shown[c], field, value) ELSE shown[c]]
    BY <1>1 DEF TypedInv, PageTyped
<1>4. PageTyped'
    BY <1>1, <1>2, <1>3 DEF TypedInv, PageTyped, IsSave, IsCellSave, CellOf
<1>5. DueIsLatest'
    <2>1. \A c \in PageCells : timer'[c].due => timer'[c].version = version'[c]
        BY <1>2, <1>3 DEF TypedInv, DueIsLatest
    <2>2. ASSUME NEW n \in net, IsCellSave(n)
          PROVE  /\ n.version <= version'[CellOf(n)]
                 /\ timer'[CellOf(n)].due => n.version < version'[CellOf(n)]
        <3>1. CellOf(n) \in PageCells /\ n.version \in Nat /\ n.version <= version[CellOf(n)]
            BY <2>2 DEF TypedInv, DueIsLatest, PageTyped
        <3>2. CASE CellOf(n) = cell
            BY <1>2, <3>1, <3>2
        <3>3. CASE CellOf(n) # cell
            BY <1>2, <1>3, <2>2, <3>1, <3>3 DEF TypedInv, DueIsLatest
        <3>4. QED
            BY <3>2, <3>3
    <2>3. QED
        BY <1>1, <2>1, <2>2 DEF DueIsLatest, IsCellSave, IsSave, CellOf
<1>6. timer[cell].due => timer'[cell] # timer[cell]
    <2>1. timer'[cell].version = version[cell] + 1
        BY <1>2, <1>3
    <2>2. timer[cell].due => timer[cell].version = version[cell]
        BY DEF TypedInv, DueIsLatest
    <2>3. QED
        BY <1>2, <2>1, <2>2
<1>7. QED
    BY <1>3, <1>4, <1>5, <1>6 DEF TypedInv

LEMMA ServerSavesStep ==
    ASSUME TypedInv, NEW m \in net, ServerSaves(m)
    PROVE  TypedInv'
<1> DEFINE n == [m EXCEPT !.kind = "saved"]
<1>1. /\ m.kind = "save" /\ net' = (net \ {m}) \cup {n} /\ UNCHANGED <<version, timer, shown, dated>>
    BY DEF ServerSaves, Answers, pageVars
<1>2. m = [kind |-> m.kind, id |-> m.id, key |-> m.key, hours |-> m.hours, version |-> m.version]
    BY <1>1 DEF TypedInv, PageTyped, IsSave
<1>3. n = [kind |-> "saved", id |-> m.id, key |-> m.key, hours |-> m.hours, version |-> m.version]
    BY <1>2
<1> HIDE DEF n
<1>4. /\ n = [kind |-> n.kind, id |-> n.id, key |-> n.key, hours |-> n.hours, version |-> n.version]
      /\ n.kind = "saved"
    BY <1>3
<1>5. IsCellSave(n) => CellOf(n) = CellOf(m) /\ n.version = m.version /\ IsCellSave(m)
    BY <1>1, <1>3 DEF IsCellSave, IsSave, CellOf
<1>6. PageTyped'
    BY <1>1, <1>4, <1>5 DEF TypedInv, PageTyped, IsSave, IsCellSave, CellOf, HasCells
<1>7. DueIsLatest'
    BY <1>1, <1>5 DEF TypedInv, DueIsLatest, IsSave, IsCellSave, CellOf
<1>8. QED
    BY <1>6, <1>7 DEF TypedInv

LEMMA ListingFacts ==
    ASSUME NEW y, NEW list \in Listings(y)
    PROVE  /\ list.calendar = [cell \in PageCells |-> list.calendar[cell]]
           /\ AreDated(DOMAIN list.dated)
<1> DEFINE inTable == { r \in rows : r.client \in Linked /\ r.cover # NoPeriod /\ Overlaps(r.cover, y) }
           named == { d \in Detected : d[1] \in Linked /\ Overlaps(d[2], y) }
           cells == { <<r.client, r.cover>> : r \in inTable } \cup named
<1>1. list.calendar = [cell \in PageCells |-> list.calendar[cell]] /\ DOMAIN list.dated = cells
    BY DEF Listings
<1>2. AreDated({ <<r.client, r.cover>> : r \in inTable })
    BY DEF AreDated
<1>3. \A d \in named : d[2] \in Period
    BY DetectedAssumption
<1>4. AreDated(cells)
    BY <1>2, <1>3, PeriodAssumption DEF AreDated
<1>5. QED
    BY <1>1, <1>4

\* Answers and losses.
LEMMA AnswerStep ==
    ASSUME TypedInv, NEW m \in net, ServerLists(m) \/ PageShows(m) \/ PageSaved(m)
                                     \/ PageSavedDated(m) \/ Lost(m)
    PROVE  TypedInv'
<1>1. CASE ServerLists(m)
    <2>1. PICK list \in Listings(m.year) :
             Answers(m, [kind |-> "listed", id |-> m.id, year |-> m.year, list |-> list])
        BY <1>1 DEF ServerLists
    <2>2. list.calendar = [cell \in PageCells |-> list.calendar[cell]] /\ AreDated(DOMAIN list.dated)
        BY <2>1, ListingFacts
    <2> DEFINE answer == [kind |-> "listed", id |-> m.id, year |-> m.year, list |-> list]
    <2>3. ~IsSave(answer) /\ HasCells(answer)
        BY <2>2 DEF IsSave, HasCells
    <2>4. net' = (net \ {m}) \cup {answer} /\ UNCHANGED <<version, timer, shown, dated>>
        BY <1>1, <2>1 DEF ServerLists, Answers, pageVars
    <2> HIDE DEF answer
    <2>5. QED
        BY <2>3, <2>4, NetStep DEF TypedInv, PageTyped
<1>2. CASE PageShows(m)
    <2>1. shown' = [cell \in PageCells |-> shown'[cell]]
        BY <1>2 DEF PageShows, TypedInv, PageTyped, HasCells
    <2>2. \A y : ~IsSave(LoadRequest(y)) /\ HasCells(LoadRequest(y))
        BY DEF IsSave, HasCells, LoadRequest
    <2>3. AreDated(DOMAIN dated') /\ UNCHANGED <<version, timer>>
        BY <1>2 DEF PageShows, TypedInv, PageTyped, HasCells
    <2>4. net' \subseteq net \cup { LoadRequest(y) : y \in {m.year} }
        BY <1>2 DEF PageShows
    <2>5. QED
        BY <2>1, <2>2, <2>3, <2>4, NetStep DEF TypedInv, PageTyped
<1>3. CASE PageSaved(m)
    BY <1>3, NetStep DEF PageSaved, TypedInv, PageTyped
<1>4. CASE PageSavedDated(m) \/ Lost(m)
    BY <1>4, NetStep DEF PageSavedDated, Lost, TypedInv, PageTyped
<1>5. QED
    BY <1>1, <1>2, <1>3, <1>4

LEMMA InitTyped == Init => TypedInv
<1> SUFFICES ASSUME Init PROVE TypedInv
    OBVIOUS
<1>1. \A m \in net : m.kind = "load"
    BY DEF Init
<1>2. /\ version \in [PageCells -> Nat]
      /\ timer = [cell \in PageCells |-> timer[cell]]
      /\ shown = [cell \in PageCells |-> shown[cell]]
      /\ \A cell \in PageCells : ~timer[cell].due
    BY DEF Init, NoTimer
<1>3. dated = <<>>
    BY DEF Init
<1>4. AreDated(DOMAIN dated)
    BY <1>3 DEF AreDated
<1>5. QED
    BY <1>1, <1>2, <1>4 DEF TypedInv, PageTyped, DueIsLatest, IsSave, IsCellSave, HasCells

LEMMA SaveActions ==
    ASSUME TypedInv, NEW cell \in PageCells, TimerFires(cell) \/ Blur(cell)
    PROVE  TypedInv' /\ shown' = shown
<1>1. CASE TimerFires(cell)
    <2>1. timer[cell].version = version[cell]
        BY <1>1 DEF TimerFires, TypedInv, DueIsLatest
    <2>2. QED
        BY <1>1, <2>1, SaveStep DEF TimerFires
<1>2. CASE Blur(cell)
    BY <1>2, SaveStep DEF Blur
<1>3. QED
    BY <1>1, <1>2

\* Everything else leaves inputs and autosaves of calendar cells alone.
LEMMA OtherActions ==
    ASSUME TypedInv,
           \/ \E y \in Years : OpenTab(y)
           \/ \E d \in DOMAIN dated : BlurDated(d)
           \/ \E d \in DOMAIN dated, in \in Typed : TypeDated(d, in[1], in[2])
           \/ \E need \in Needs : Prepare(need)
           \/ Booking
           \/ \E book \in Workbooks : Import(book)
           \/ \E sheet \in Sheets : Reconcile(sheet)
           \/ ScriptStep
           \/ UNCHANGED vars
    PROVE  TypedInv' /\ shown' = shown
<1>1. shown' = [cell \in PageCells |-> shown[cell]] => shown' = [cell \in PageCells |-> shown'[cell]]
    OBVIOUS
<1>2. ASSUME NEW y \in Years, OpenTab(y) PROVE TypedInv' /\ shown' = shown
    <2>1. ~IsSave(LoadRequest(y)) /\ HasCells(LoadRequest(y))
        BY DEF IsSave, HasCells, LoadRequest
    <2>2. QED
        BY <1>1, <1>2, <2>1, NetStep DEF OpenTab, Requests, TypedInv, PageTyped
<1>3. ASSUME NEW d \in DOMAIN dated, BlurDated(d) PROVE TypedInv' /\ shown' = shown
    <2> DEFINE m == SaveRequest(Key(d[1], Corp, d[2], tab), dated[d], 0)
    <2>1. net' = net \cup {m} /\ UNCHANGED <<version, timer, shown, dated>>
        BY <1>3 DEF BlurDated, Requests, pageVars
    <2>2. m = [kind |-> m.kind, id |-> m.id, key |-> m.key, hours |-> m.hours, version |-> m.version]
        BY SaveShape
    <2>3. m.key.cover = d[2] /\ m.version = 0
        BY DEF SaveRequest, Key
    <2>4. d[2] # NoPeriod
        BY <1>3 DEF TypedInv, PageTyped, AreDated
    <2>5. IsSave(m) /\ ~IsCellSave(m)
        BY <2>3, <2>4 DEF SaveRequest, IsSave, IsCellSave
    <2> HIDE DEF m
    <2>6. QED
        BY <1>1, <2>1, <2>2, <2>5, NetStep DEF TypedInv, PageTyped
<1>4. CASE UNCHANGED <<net, version, timer, shown>> /\ DOMAIN dated' = DOMAIN dated
    BY <1>1, <1>4, NetStep DEF TypedInv, PageTyped
<1>5. CASE \/ \E book \in Workbooks : Import(book)
           \/ \E sheet \in Sheets : Reconcile(sheet)
           \/ ScriptStep
    BY <1>4, <1>5 DEF Import, Reconcile, ScriptBegins, ScriptStep, ScriptTakes, ScriptCommits,
                      ScriptFails, pageVars
<1>6. QED
    BY <1>2, <1>3, <1>4, <1>5 DEF TypeDated, Prepare, Booking, vars, pageVars

-----------------------------------------------------------------------------
(* What somebody types. *)

TypedStays ==
    \A cell \in PageCells :
        timer[cell].due /\ timer'[cell] = timer[cell] /\ shown'[cell] # shown[cell]
            => \E m \in net : m.kind = "listed" /\ m \notin net'

LEMMA AnswerKeepsTyped ==
    ASSUME TypedInv, NEW m \in net, ServerLists(m) \/ ServerSaves(m) \/ PageShows(m)
                                     \/ PageSaved(m) \/ PageSavedDated(m) \/ Lost(m)
    PROVE  TypedStays
<1>1. CASE PageShows(m)
    <2>1. m.kind = "listed" /\ net' \subseteq (net \ {m}) \cup { LoadRequest(y) : y \in {m.year} }
        BY <1>1 DEF PageShows
    <2>2. m \notin net'
        BY <2>1, LoadIsNoSave
    <2>3. QED
        BY <2>1, <2>2 DEF TypedStays
<1>2. CASE PageSaved(m)
    <2> DEFINE cell == CellOf(m)
    <2>1. IsCellSave(m)
        BY <1>2 DEF PageSaved, IsCellSave, IsSave
    <2>2. shown' = shown \/ (m.version = version[cell] /\ shown' = [shown EXCEPT ![cell] = m.hours])
        BY <1>2 DEF PageSaved, IsLatest, CellOf
    <2>3. cell \in PageCells /\ m.version \in Nat /\ (timer[cell].due => m.version < version[cell])
        BY <2>1 DEF TypedInv, PageTyped, DueIsLatest
    <2>4. shown' = shown \/ (~timer[cell].due /\ \A c \in PageCells : c # cell => shown'[c] = shown[c])
        BY <2>2, <2>3 DEF TypedInv, PageTyped
    <2>5. QED
        BY <2>4 DEF TypedStays
<1>3. CASE ServerLists(m) \/ ServerSaves(m) \/ PageSavedDated(m) \/ Lost(m)
    <2>1. shown' = shown
        BY <1>3 DEF ServerLists, ServerSaves, PageSavedDated, Lost, pageVars
    <2>2. QED
        BY <2>1 DEF TypedStays
<1>4. QED
    BY <1>1, <1>2, <1>3

LEMMA TypedKeeps == TypedInv /\ [Next]_vars => TypedInv' /\ TypedStays
<1> SUFFICES ASSUME TypedInv, [Next]_vars PROVE TypedInv' /\ TypedStays
    OBVIOUS
<1>1. shown' = shown => TypedStays
    BY DEF TypedStays
<1>2. ASSUME NEW cell \in PageCells, TimerFires(cell) \/ Blur(cell) PROVE TypedInv' /\ TypedStays
    BY <1>1, <1>2, SaveActions
<1>3. ASSUME NEW cell \in PageCells, NEW in \in Typed, Type(cell, in[1], in[2])
      PROVE  TypedInv' /\ TypedStays
    BY <1>3, TypeStep DEF TypedStays
<1>4. ASSUME NEW m \in net, \/ ServerLists(m) \/ ServerSaves(m) \/ Lost(m)
                            \/ PageShows(m) \/ PageSaved(m) \/ PageSavedDated(m)
      PROVE  TypedInv' /\ TypedStays
    BY <1>4, AnswerKeepsTyped, AnswerStep, ServerSavesStep
<1>5. CASE \/ \E y \in Years : OpenTab(y)
           \/ \E d \in DOMAIN dated : BlurDated(d)
           \/ \E d \in DOMAIN dated, in \in Typed : TypeDated(d, in[1], in[2])
           \/ \E need \in Needs : Prepare(need)
           \/ Booking
           \/ \E book \in Workbooks : Import(book)
           \/ \E sheet \in Sheets : Reconcile(sheet)
           \/ ScriptStep
           \/ UNCHANGED vars
    BY <1>1, <1>5, OtherActions
<1>6. QED
    BY <1>2, <1>3, <1>4, <1>5 DEF Next, PageStep

\* Whatever is late, lost or overtaken: an input whose autosave is due changes
\* only with more typing or with the list of another load.
THEOREM TypingIsKept == Spec => TypedIsKept
<1>1. TypedInv /\ [Next]_vars => [TypedStays]_vars
    BY TypedKeeps
<1>2. TypedInv /\ [Next]_vars => TypedInv'
    BY TypedKeeps
<1>3. Spec => [][TypedStays]_vars
    BY <1>1, <1>2, InitTyped, PTL DEF Spec
<1>4. QED
    BY <1>3 DEF TypedIsKept, TypedStays

-----------------------------------------------------------------------------
(* What the scripts read. *)

\* A name belongs to a client or to nobody.
LEMMA OnlyOne == ASSUME NEW S \in SUBSET Clients PROVE Only(S) \in S \cup {NoClient}
<1>1. IsFiniteSet(S)
    BY FS_Subset, ClientsAssumption
<1>2. CASE Cardinality(S) = 1
    <2>1. \E x : S = {x}
        BY <1>1, <1>2, FS_Singleton
    <2>2. QED
        BY <1>2, <2>1 DEF Only
<1>3. CASE Cardinality(S) # 1
    BY <1>3 DEF Only
<1>4. QED
    BY <1>2, <1>3

\* The import takes a name for a client's or for nobody's.
LEMMA ImportClientType == \A n \in Names : ImportClient[n] \in Clients \cup {NoClient}
<1> SUFFICES ASSUME NEW n \in Names PROVE ImportClient[n] \in Clients \cup {NoClient}
    OBVIOUS
<1> DEFINE KeysOf(c) == {DisplayKey[c], XeroKey[c]}
           called == { i \in DOMAIN ClientOrder : n \in KeysOf(ClientOrder[i]) }
           alike == { c \in Clients : \E k \in KeysOf(c) : Alike(k, n) }
<1>1. ImportClient[n] = IF called # {} THEN ClientOrder[Min(called)] ELSE Only(alike)
    BY DEF ImportClient
<1>2. called \subseteq DOMAIN ClientOrder /\ alike \subseteq Clients
    OBVIOUS
<1> HIDE DEF called, alike
<1>3. called # {} => ClientOrder[Min(called)] \in Clients
    <2>1. DOMAIN ClientOrder \subseteq Nat /\ \A i \in DOMAIN ClientOrder : ClientOrder[i] \in Clients
        BY ClientsAssumption
    <2>2. ASSUME called # {} PROVE Min(called) \in called
        <3>1. called \subseteq Nat
            BY <1>2, <2>1
        <3>2. PICK g \in called : \A x \in called : ~(x < g)
            BY <2>2, <3>1, LeastNatural
        <3>3. \A x \in called : g =< x
            BY <3>1, <3>2
        <3>4. QED
            BY <3>3 DEF Min
    <2>3. QED
        BY <1>2, <2>1, <2>2
<1>4. Only(alike) \in Clients \cup {NoClient}
    BY <1>2, OnlyOne
<1>5. QED
    BY <1>1, <1>3, <1>4

\* What the key of a calendar cell is.
LEMMA CalendarKeyIs ==
    /\ \A k \in CalendarKeys :
         /\ k.client \in Clients /\ k.service \in Services /\ k.year \in Years /\ k.cover = NoPeriod
         /\ k = Key(k.client, k.service, k.cover, k.year)
    /\ \A c \in Clients, s \in Services, y \in Years : CalendarKey(c, s, y) \in CalendarKeys
BY DEF CalendarKeys, CalendarKey, Key

\* The last of some places of a matrix is one of them.
LEMMA LastPlaceIsOne ==
    ASSUME NEW sheet, IsMatrix(sheet),
           NEW places \in SUBSET ((DOMAIN sheet.rows) \X (DOMAIN sheet.services)), places # {}
    PROVE  LastPlace(places) \in places
<1>1. /\ DOMAIN sheet.rows = 1..Len(sheet.rows) /\ Len(sheet.rows) \in Nat
      /\ DOMAIN sheet.services = 1..Len(sheet.services) /\ Len(sheet.services) \in Nat
    BY DEF IsMatrix
<1>2. \A at \in places : at = <<at[1], at[2]>> /\ at[1] \in 1..Len(sheet.rows)
                                               /\ at[2] \in 1..Len(sheet.services)
    BY <1>1
<1> DEFINE rs == { at[1] : at \in places }
           row == Max(rs)
           cs == { at[2] : at \in { b \in places : b[1] = row } }
           col == Max(cs)
<1>3. row \in rs /\ \A x \in rs : x <= row
    <2>1. rs \subseteq Nat /\ rs # {} /\ \A x \in rs : x <= Len(sheet.rows)
        BY <1>1, <1>2
    <2> HIDE DEF rs
    <2>2. IsFiniteSet(rs)
        BY <1>1, <2>1, FS_BoundedSetOfNaturals
    <2>3. QED
        BY <2>1, <2>2, GreatestNatural
<1> HIDE DEF row
<1>4. \A at \in places : at[1] \in Nat /\ at[1] <= row
    BY <1>1, <1>2, <1>3
<1>5. row \in Nat /\ \E at \in places : at[1] = row
    BY <1>1, <1>2, <1>3
<1>6. col \in cs /\ \A x \in cs : x <= col
    <2>1. cs \subseteq Nat /\ cs # {} /\ \A x \in cs : x <= Len(sheet.services)
        BY <1>1, <1>2, <1>5
    <2> HIDE DEF cs
    <2>2. IsFiniteSet(cs)
        BY <1>1, <2>1, FS_BoundedSetOfNaturals
    <2>3. QED
        BY <2>1, <2>2, GreatestNatural
<1>7. PICK last \in places : last[1] = row /\ last[2] = col
    BY <1>6
<1>8. \A b \in places : b[1] < last[1] \/ (b[1] = last[1] /\ b[2] <= last[2])
    <2> TAKE b \in places
    <2>1. CASE b[1] = row
        BY <1>6, <1>7, <2>1
    <2>2. CASE b[1] # row
        BY <1>4, <1>5, <1>7, <2>2
    <2>3. QED
        BY <2>1, <2>2
<1>9. QED
    BY <1>8 DEF LastPlace

\* An element of a sequence.
LEMMA ElementOfSeq ==
    ASSUME NEW S, NEW s \in Seq(S), NEW i \in DOMAIN s
    PROVE  s[i] \in S
OBVIOUS

\* Where a matrix speaks of a key it has hours.
LEMMA HoursOfPlaces ==
    ASSUME NEW sheet, IsMatrix(sheet), NEW client, NEW k, Places(sheet, client, k) # {}
    PROVE  HoursAt(sheet, LastPlace(Places(sheet, client, k))) \in Nat
<1> DEFINE places == Places(sheet, client, k)
<1>1. places \in SUBSET ((DOMAIN sheet.rows) \X (DOMAIN sheet.services))
    BY DEF Places
<1> HIDE DEF places
<1>2. PICK at \in places : at = LastPlace(places)
    BY <1>1, LastPlaceIsOne DEF places
<1>3. /\ at[1] \in DOMAIN sheet.rows /\ at[2] \in DOMAIN sheet.services
    BY <1>1
<1>4. sheet.rows[at[1]] \in [name : Names, hours : Seq(Nat)]
    BY <1>3, ElementOfSeq DEF IsMatrix
<1>5. sheet.rows[at[1]].hours \in Seq(Nat) /\ at[2] \in DOMAIN sheet.rows[at[1]].hours
    BY <1>3, <1>4 DEF IsMatrix
<1>6. sheet.rows[at[1]].hours[at[2]] \in Nat
    BY <1>5, ElementOfSeq
<1>7. QED
    BY <1>2, <1>6 DEF HoursAt, places

\* No matrix speaks of corporate records.
LEMMA PlacesAreNotCorp ==
    ASSUME NEW sheet, IsMatrix(sheet), NEW client, NEW k, Places(sheet, client, k) # {}
    PROVE  k.service # Corp
<1>1. PICK at \in Places(sheet, client, k) : TRUE
    OBVIOUS
<1>2. at[2] \in DOMAIN sheet.services /\ sheet.services[at[2]] = k.service
    BY <1>1 DEF Places
<1>3. QED
    BY <1>2 DEF IsMatrix

\* What a script knows is hours, of calendar cells ...
AreHours(cells) == \A k \in DOMAIN cells : cells[k] \in CellHours

\* ... or, after the reconciliation, of periods of corporate records.
ReconciledKey(k) ==
    \/ k \in CalendarKeys /\ k.service # Corp
    \/ \E c \in Clients, p \in Period : k = DatedKey(c, p)

\* Hours a cell can hold.
LEMMA HoursAreCells ==
    ASSUME NEW max \in Nat \cup {NoMax}, NEW used \in Nat
    PROVE  Hours(max, used) \in CellHours
BY DEF Hours, CellHours

\* What the import makes of two matrices: hours of calendar cells.
LEMMA MatrixCells ==
    ASSUME NEW invoiced, IsMatrix(invoiced), NEW used, IsMatrix(used)
    PROVE  LET cells == MatrixImport(invoiced, used)
           IN  DOMAIN cells \subseteq CalendarKeys /\ AreHours(cells)
<1> DEFINE In(sheet, k) == Places(sheet, ImportClient, k)
           At(sheet, k) == IF In(sheet, k) = {} THEN 0 ELSE HoursAt(sheet, LastPlace(In(sheet, k)))
           keys == { k \in CalendarKeys : In(invoiced, k) \cup In(used, k) # {} }
           max(k) == IF At(invoiced, k) > 0 THEN At(invoiced, k) ELSE NoMax
           cells == [k \in keys |-> Hours(max(k), At(used, k))]
<1>1. MatrixImport(invoiced, used) = cells
    BY DEF MatrixImport
<1>2. \A k : At(invoiced, k) \in Nat /\ At(used, k) \in Nat
    BY HoursOfPlaces
<1> HIDE DEF At
<1>3. \A k : max(k) \in Nat \cup {NoMax}
    BY <1>2
<1> HIDE DEF max
<1>4. \A k \in keys : cells[k] \in CellHours
    BY <1>2, <1>3, HoursAreCells
<1>5. DOMAIN cells = keys /\ keys \subseteq CalendarKeys
    OBVIOUS
<1> HIDE DEF cells, keys
<1>6. QED
    BY <1>1, <1>4, <1>5 DEF AreHours

\* What it makes of the lines of the older export: the same.
LEMMA RowCells ==
    ASSUME NEW lines, IsExport(lines)
    PROVE  LET cells == RowImport(lines)
           IN  DOMAIN cells \subseteq CalendarKeys /\ AreHours(cells)
<1> DEFINE Counts(i) == ImportClient[lines[i].name] # NoClient /\ lines[i].service \in Services
                        /\ lines[i].year \in Years
           Twice(i) == \E j \in 1..(i - 1) :
                           /\ lines[j].name = lines[i].name
                           /\ lines[j].year = lines[i].year
                           /\ lines[j].invoice = lines[i].invoice
           KeyOf(i) == CalendarKey(ImportClient[lines[i].name], lines[i].service, lines[i].year)
           Of(k) == { i \in DOMAIN lines : Counts(i) /\ ~Twice(i) /\ KeyOf(i) = k }
           Maxima(k) == { lines[i].max : i \in Of(k) } \ {NoMax}
           f == [i \in DOMAIN lines |-> lines[i].used]
           keys == { KeyOf(i) : i \in { j \in DOMAIN lines : Counts(j) } }
           max(k) == IF Maxima(k) = {} THEN NoMax ELSE Max(Maxima(k))
           used(k) == SumFunctionOnSet(f, Of(k))
           cells == [k \in keys |-> Hours(max(k), used(k))]
<1>1. RowImport(lines) = cells
    BY DEF RowImport
<1>2. keys \subseteq CalendarKeys
    <2>1. ASSUME NEW i \in DOMAIN lines, Counts(i) PROVE KeyOf(i) \in CalendarKeys
        <3>1. ImportClient[lines[i].name] \in Clients
            BY <2>1, ImportClientType DEF IsExport
        <3>2. QED
            BY <2>1, <3>1, CalendarKeyIs
    <2> HIDE DEF KeyOf, Counts
    <2>2. QED
        BY <2>1
<1>3. \A k : Of(k) \in SUBSET DOMAIN lines
    OBVIOUS
<1> HIDE DEF Of
<1>4. ASSUME NEW k PROVE max(k) \in Nat \cup {NoMax}
    <2>1. IsFiniteSet(Of(k))
        BY <1>3, FS_Subset DEF IsExport
    <2> DEFINE all == { lines[i].max : i \in Of(k) }
    <2>2. IsFiniteSet(all)
        <3> DEFINE g == [i \in Of(k) |-> lines[i].max]
        <3>1. all = { g[i] : i \in Of(k) }
            OBVIOUS
        <3> HIDE DEF g, all
        <3>2. QED
            BY <2>1, <3>1, ImageFinite
    <2>3. IsFiniteSet(Maxima(k)) /\ Maxima(k) \subseteq Nat
        <3>1. all \subseteq Nat \cup {NoMax}
            BY <1>3 DEF IsExport
        <3>2. Maxima(k) \in SUBSET all
            OBVIOUS
        <3> HIDE DEF all, Maxima
        <3>3. IsFiniteSet(Maxima(k))
            BY <2>2, <3>2, FS_Subset
        <3>4. NoMax \notin Maxima(k)
            BY DEF Maxima
        <3>5. QED
            BY <3>1, <3>2, <3>3, <3>4
    <2> HIDE DEF Maxima
    <2>4. QED
        BY <2>3, GreatestNatural
<1>5. ASSUME NEW k PROVE used(k) \in Nat
    <2>1. IsFiniteSet(Of(k))
        BY <1>3, FS_Subset DEF IsExport
    <2>2. \A i \in Of(k) : f[i] \in Nat
        BY <1>3 DEF IsExport
    <2> HIDE DEF f
    <2>3. QED
        BY <2>1, <2>2, SumType
<1> HIDE DEF max, used
<1>6. \A k \in keys : cells[k] \in CellHours
    BY <1>4, <1>5, HoursAreCells
<1>7. DOMAIN cells = keys
    OBVIOUS
<1> HIDE DEF cells, keys
<1>8. QED
    BY <1>1, <1>2, <1>6, <1>7 DEF AreHours

\* Whatever the workbook.
LEMMA ImportedCells ==
    ASSUME NEW book \in Workbooks
    PROVE  DOMAIN ImportCells[book] \subseteq CalendarKeys /\ AreHours(ImportCells[book])
<1>1. ImportCells[book] = IF book.format = "matrix"
                          THEN MatrixImport(book.invoiced, book.used) ELSE RowImport(book.lines)
    BY DEF ImportCells
<1>2. CASE book.format = "matrix"
    <2>1. IsMatrix(book.invoiced) /\ IsMatrix(book.used)
        BY <1>2, WorkbooksAssumption
    <2>2. QED
        BY <1>1, <1>2, <2>1, MatrixCells
<1>3. CASE book.format # "matrix"
    <2>1. IsExport(book.lines)
        BY <1>3, WorkbooksAssumption
    <2>2. QED
        BY <1>1, <1>3, <2>1, RowCells
<1>4. QED
    BY <1>2, <1>3

\* An entry counts for a calendar cell or for a period.
LEMMA EntryKeys ==
    ASSUME NEW e \in Entries, EntryCounts(e), NEW k \in EntryKey(e)
    PROVE  ReconciledKey(k)
<1>1. e.client \in Clients /\ e.title.service \in Services
    BY ClientsAssumption DEF EntryCounts
<1>2. CASE e.title.service = Corp
    <2> DEFINE p == TitlePeriod(e.title)
    <2>1. p \in Period \cup {NoPeriod}
        BY EntriesAssumption
    <2>2. p # NoPeriod /\ k = DatedKey(e.client, p)
        BY <1>2 DEF EntryKey
    <2> HIDE DEF p
    <2>3. QED
        BY <1>1, <2>1, <2>2 DEF ReconciledKey
<1>3. CASE e.title.service # Corp
    <2> DEFINE y == IF e.title.year # NoYear THEN e.title.year ELSE YearOf(e.month)
    <2>1. y \in Years /\ k = CalendarKey(e.client, e.title.service, y)
        BY <1>3 DEF EntryKey
    <2> HIDE DEF y
    <2>2. k \in CalendarKeys
        BY <1>1, <2>1, CalendarKeyIs
    <2>3. k.service # Corp
        BY <1>3, <2>1 DEF CalendarKey, Key
    <2>4. QED
        BY <2>2, <2>3 DEF ReconciledKey
<1>4. QED
    BY <1>2, <1>3

\* What the reconciliation makes of a sheet and the entries.
LEMMA ReconciledCellsAre ==
    ASSUME NEW sheet \in Sheets
    PROVE  AreHours(SheetCells[sheet]) /\ \A k \in DOMAIN SheetCells[sheet] : ReconciledKey(k)
<1> DEFINE In(k) == Places(sheet, ReconcileClient, k)
           Of(k) == { e \in Entries : EntryCounts(e) /\ k \in EntryKey(e) }
           sheetKeys == { k \in CalendarKeys : k.client \in Linked /\ In(k) # {} }
           entryKeys == UNION { EntryKey(e) : e \in { g \in Entries : EntryCounts(g) } }
           f == [e \in Entries |-> e.hours]
           max(k) == IF k.cover # NoPeriod THEN DefaultMax
                     ELSE IF In(k) = {} THEN 0 ELSE HoursAt(sheet, LastPlace(In(k)))
           used(k) == SumFunctionOnSet(f, Of(k))
           cells == [k \in sheetKeys \cup entryKeys |-> Hours(max(k), used(k))]
<1>1. SheetCells[sheet] = cells
    BY DEF SheetCells, ReconciledCells
<1>2. IsMatrix(sheet)
    BY SheetsAssumption
<1>3. \A k : max(k) \in Nat \cup {NoMax}
    BY <1>2, HoursOfPlaces, MaxAssumption
<1>4. ASSUME NEW k PROVE used(k) \in Nat
    <2>1. IsFiniteSet(Of(k)) /\ Of(k) \in SUBSET Entries
        BY FS_Subset, EntriesAssumption
    <2>2. \A e \in Of(k) : f[e] \in Nat
        BY EntriesAssumption
    <2> HIDE DEF f, Of
    <2>3. QED
        BY <2>1, <2>2, SumType
<1>5. \A k \in sheetKeys : ReconciledKey(k)
    BY <1>2, PlacesAreNotCorp DEF ReconciledKey
<1>6. \A k \in entryKeys : ReconciledKey(k)
    BY EntryKeys
<1> HIDE DEF max, used, sheetKeys, entryKeys
<1>7. \A k \in sheetKeys \cup entryKeys : cells[k] \in CellHours
    BY <1>3, <1>4, HoursAreCells
<1>8. DOMAIN cells = sheetKeys \cup entryKeys
    OBVIOUS
<1> HIDE DEF cells
<1>9. QED
    BY <1>1, <1>5, <1>6, <1>7, <1>8 DEF AreHours

-----------------------------------------------------------------------------
(* The table, the page and the draft. *)

\* Rows are what the table admits; only corporate records are covered by
\* dated rows, one for each key.
TableInv ==
    /\ now \in Nat
    /\ rows \subseteq Row
    /\ \A r \in rows : r.at <= now /\ (r.cover # NoPeriod => r.service = Corp)
    /\ \A r, q \in rows : r.cover # NoPeriod /\ Finds(r, q) => r = q

DatedCells(cells) ==
    /\ cells = [d \in DOMAIN cells |-> cells[d]]
    /\ \A d \in DOMAIN cells : d[1] \in Linked /\ d[2] \in Period /\ cells[d] \in CellHours

\* Requests name allowances there can be and carry hours a cell can hold.
Carries(m) ==
    /\ m.kind \in {"load", "listed"} => m.year \in Years
    /\ m.kind = "listed" => /\ m.list.calendar \in [PageCells -> CellHours]
                            /\ DatedCells(m.list.dated)
    /\ IsSave(m) => IsKey(m.key) /\ m.hours \in CellHours

PageInv ==
    /\ tab \in Years
    /\ usage \in [PageCells -> CellHours]
    /\ shown \in [PageCells -> CellHours]
    /\ \A cell \in PageCells :
         timer[cell].due => timer[cell].hours \in CellHours /\ timer[cell].year \in Years
    /\ DatedCells(dated)
    /\ \A m \in net : Carries(m)

\* A draft takes no more from an allowance than it saw there.
PlanInv ==
    plan # NoNeed =>
        /\ plan.hours \in Nat
        /\ plan.seen.max # NoMax => plan.seen.used + plan.hours <= plan.seen.max

\* The cells of a script are hours, of calendar cells after the import.
AreCells(kind, cells) ==
    /\ AreHours(cells)
    /\ \A k \in DOMAIN cells : IF kind = "import" THEN k \in CalendarKeys ELSE ReconciledKey(k)

\* What a script found for a cell is still there, and where it found or adds a
\* dated row nobody else did.
FoundFor(k) ==
    /\ script.found[k] \subseteq rows
    /\ \A r \in script.found[k] : IF script.kind = "import" THEN FindsInYear(k, r) ELSE Finds(k, r)
    /\ k.cover # NoPeriod => \A r \in rows : Finds(k, r) => r \in script.found[k]

ScriptInv ==
    script # NoScript =>
        /\ script = [kind |-> script.kind, cells |-> script.cells, found |-> script.found,
                     at |-> script.at]
        /\ script.at \in Nat /\ script.at <= now
        /\ AreCells(script.kind, script.cells)
        /\ DOMAIN script.found \subseteq DOMAIN script.cells
        /\ \A k \in DOMAIN script.found : FoundFor(k)

UsageInv == TypedInv /\ TableInv /\ PageInv /\ PlanInv /\ ScriptInv

-----------------------------------------------------------------------------
(* Keys and rows. *)

\* The last month of a period is in a year.
LEMMA EndYearType == \A p \in Period : EndYear(p) \in Nat
<1>1. \A n \in Nat : n \div 12 \in Nat
    OBVIOUS
<1>2. QED
    BY <1>1 DEF EndYear, YearOf, Period

\* Keys of calendar cells are keys ...
LEMMA CalendarIsKey == \A k \in CalendarKeys : IsKey(k)
<1> TAKE k \in CalendarKeys
<1>1. k = [client |-> k.client, service |-> k.service, cover |-> k.cover, year |-> k.year]
    BY CalendarKeyIs DEF Key
<1>2. QED
    BY <1>1, CalendarKeyIs, YearsAssumption DEF IsKey

\* ... and so are those of periods ...
LEMMA DatedIsKey == \A c \in Clients, p \in Period : IsKey(DatedKey(c, p))
BY EndYearType, CorpAssumption DEF IsKey, DatedKey, Key

\* ... and those of the reconciliation.
LEMMA ReconciledIsKey == \A k : ReconciledKey(k) => IsKey(k)
BY CalendarIsKey, DatedIsKey DEF ReconciledKey

\* The fields of a row.
LEMMA RowShape ==
    ASSUME NEW k, NEW h, NEW at
    PROVE  LET r == RowOf(k, h, at)
           IN  /\ r.client = k.client /\ r.service = k.service /\ r.cover = k.cover
               /\ r.year = k.year /\ r.max = h.max /\ r.used = h.used /\ r.at = at
BY DEF RowOf

\* A row with hours a cell can hold is one the table admits.
LEMMA RowType ==
    ASSUME NEW k, IsKey(k), NEW h \in CellHours, NEW at \in Nat
    PROVE  RowOf(k, h, at) \in Row /\ HoursOf(RowOf(k, h, at)) = h
<1>1. h = [max |-> h.max, used |-> h.used] /\ h.max \in Nat \cup {NoMax} /\ h.used \in Nat
    BY DEF CellHours
<1>2. QED
    BY <1>1 DEF RowOf, Row, IsKey, HoursOf, Hours

\* Of some rows one is the newest.
LEMMA NewestIs ==
    ASSUME NEW R, R \subseteq Row, R # {}, NEW n \in Nat, \A r \in R : r.at <= n
    PROVE  Newest(R) # {}
<1> DEFINE S == { r.at : r \in R }
<1>1. S \subseteq Nat /\ S # {} /\ \A x \in S : x <= n
    BY DEF Row
<1> HIDE DEF S
<1>2. IsFiniteSet(S)
    BY <1>1, FS_BoundedSetOfNaturals
<1>3. Max(S) \in S /\ \A x \in S : x <= Max(S)
    BY <1>1, <1>2, GreatestNatural
<1> DEFINE g == Max(S)
<1> HIDE DEF g
<1>4. PICK r \in R : r.at = g
    BY <1>3 DEF S, g
<1>5. \A q \in R : q.at <= r.at
    BY <1>3, <1>4 DEF S, g
<1>6. QED
    BY <1>5 DEF Newest

-----------------------------------------------------------------------------
(* What is written into the table. *)

\* A row is put in the place of others, and of all of its own key.
LEMMA OneRowWritten ==
    ASSUME TableInv, NEW R \in SUBSET rows, NEW n \in Row, n.at = now + 1,
           n.cover # NoPeriod => n.service = Corp,
           n.cover # NoPeriod => \A r \in rows \ R : ~Finds(r, n),
           rows' = (rows \ R) \cup {n}, now' = now + 1
    PROVE  TableInv'
<1>1. now' \in Nat /\ rows' \subseteq Row
    BY DEF TableInv
<1>2. \A r \in rows' : r.at <= now' /\ (r.cover # NoPeriod => r.service = Corp)
    BY DEF TableInv, Row
<1>3. \A r, q \in rows' : r.cover # NoPeriod /\ Finds(r, q) => r = q
    BY DEF TableInv, Finds
<1>4. QED
    BY <1>1, <1>2, <1>3 DEF TableInv, Finds

\* A save of the page replaces a row it finds or adds one to none.
LEMMA ServerSavesTable ==
    ASSUME TypedInv, TableInv, PageInv, NEW m \in net, ServerSaves(m)
    PROVE  TableInv'
<1> DEFINE found == { r \in rows : FoundByPage(m.key, r) }
           n == RowOf(m.key, m.hours, now + 1)
<1>1. IsKey(m.key) /\ m.hours \in CellHours
    BY DEF ServerSaves, PageInv, Carries, IsSave
<1>2. n \in Row /\ n.at = now + 1 /\ n.client = m.key.client /\ n.service = m.key.service
      /\ n.cover = m.key.cover /\ n.year = m.key.year
    BY <1>1, RowType, RowShape DEF TableInv
<1>3. n.cover # NoPeriod => n.service = Corp
    BY <1>1, <1>2 DEF IsKey
<1>4. now' = now + 1
    BY DEF ServerSaves
<1>5. CASE found = {}
    <2>1. rows' = (rows \ {}) \cup {n}
        BY <1>5 DEF ServerSaves, Replace
    <2>2. n.cover # NoPeriod => \A r \in rows : ~Finds(r, n)
        BY <1>2, <1>5 DEF FoundByPage, Finds
    <2> HIDE DEF n, found
    <2>3. QED
        BY <1>2, <1>3, <1>4, <2>1, <2>2, OneRowWritten
<1>6. CASE found # {}
    <2>1. PICK r \in Newest(found) : rows' = (rows \ {r}) \cup {n}
        BY <1>6 DEF ServerSaves, Replace
    <2>2. r \in found
        BY <2>1 DEF Newest
    <2>3. ASSUME n.cover # NoPeriod, NEW q \in rows \ {r} PROVE ~Finds(q, n)
        <3>1. r.cover = n.cover /\ Finds(n, r)
            BY <1>2, <2>2, <2>3 DEF FoundByPage, Finds
        <3>2. Finds(q, n) => Finds(r, q)
            BY <2>3, <3>1 DEF Finds
        <3>3. QED
            BY <2>2, <2>3, <3>1, <3>2 DEF TableInv
    <2>4. {r} \in SUBSET rows
        BY <2>2
    <2> HIDE DEF n, found
    <2>5. QED
        BY <1>2, <1>3, <1>4, <2>1, <2>3, <2>4, OneRowWritten
<1>7. QED
    BY <1>5, <1>6

\* A draft adds a row only where there is none.
LEMMA PreparedTable ==
    ASSUME TableInv, NEW need \in Needs, Prepare(need)
    PROVE  TableInv' /\ rows \subseteq rows'
<1> DEFINE k == need.key
           n == RowOf(k, Hours(DefaultMax, 0), now + 1)
<1>1. IsKey(k)
    BY NeedsAssumption
<1>2. rows' = Prepared(k) /\ now' = (IF rows' = rows THEN now ELSE now + 1)
    BY DEF Prepare
<1>3. CASE rows' = rows
    BY <1>2, <1>3 DEF TableInv, Finds
<1>4. CASE rows' # rows
    <2>1. k.cover # NoPeriod /\ (\A r \in rows : ~Finds(k, r)) /\ rows' = (rows \ {}) \cup {n}
        BY <1>2, <1>4 DEF Prepared
    <2>2. Hours(DefaultMax, 0) \in CellHours
        BY HoursAreCells, MaxAssumption
    <2>3. n \in Row /\ n.at = now + 1 /\ n.client = k.client /\ n.service = k.service /\ n.cover = k.cover
        BY <1>1, <2>2, RowType, RowShape DEF TableInv
    <2>4. n.service = Corp
        BY <1>1, <2>1, <2>3 DEF IsKey
    <2>5. \A r \in rows : ~Finds(r, n)
        BY <2>1, <2>3 DEF Finds
    <2>6. now' = now + 1
        BY <1>2, <1>4
    <2> HIDE DEF n, k
    <2>7. TableInv'
        BY <2>1, <2>3, <2>4, <2>5, <2>6, OneRowWritten
    <2>8. QED
        BY <2>1, <2>7
<1>5. QED
    BY <1>3, <1>4

\* A booking rewrites two fields of a row.
LEMMA RowRewritten ==
    ASSUME NEW r \in Row, NEW u \in Nat, NEW t \in Nat
    PROVE  LET n == [r EXCEPT !.used = u, !.at = t]
           IN  /\ n \in Row /\ n.at = t /\ n.client = r.client /\ n.service = r.service
               /\ n.cover = r.cover /\ n.year = r.year /\ n.used = u
BY DEF Row

\* A booking adds to the used hours of a row and keeps its key.
LEMMA BookedTable ==
    ASSUME TableInv, PlanInv, Booking
    PROVE  TableInv' /\ \A r \in rows \ rows' : \E q \in rows' : Finds(r, q) /\ q.used >= r.used
<1>1. PICK r \in BookedIn(plan) :
         rows' = (rows \ {r}) \cup {[r EXCEPT !.used = @ + plan.hours, !.at = now + 1]}
    BY DEF Booking, Replace
<1> DEFINE n == [r EXCEPT !.used = @ + plan.hours, !.at = now + 1]
<1>2. r \in rows /\ plan.hours \in Nat /\ now \in Nat /\ now' = now + 1
    BY <1>1 DEF BookedIn, Newest, Booking, PlanInv, TableInv
<1>3. r \in Row
    BY <1>2 DEF TableInv
<1>4. /\ n \in Row /\ n.at = now + 1 /\ n.client = r.client /\ n.service = r.service
      /\ n.cover = r.cover /\ n.year = r.year /\ n.used = r.used + plan.hours
    <2>1. r.used + plan.hours \in Nat /\ now + 1 \in Nat
        BY <1>2, <1>3 DEF Row
    <2>2. QED
        BY <1>3, <2>1, RowRewritten
<1>7. rows' = (rows \ {r}) \cup {n}
    BY <1>1
<1> HIDE DEF n
<1>5. n.cover # NoPeriod => n.service = Corp
    BY <1>2, <1>4 DEF TableInv
<1>6. ASSUME n.cover # NoPeriod, NEW q \in rows \ {r} PROVE ~Finds(q, n)
    <2>1. Finds(q, n) => Finds(q, r) /\ q.cover # NoPeriod
        BY <1>4, <1>6 DEF Finds
    <2>2. QED
        BY <1>2, <2>1 DEF TableInv
<1>8. TableInv'
    BY <1>2, <1>4, <1>5, <1>6, <1>7, OneRowWritten
<1>9. Finds(r, n) /\ n.used >= r.used
    BY <1>2, <1>3, <1>4 DEF Finds, Row
<1>10. QED
    BY <1>7, <1>8, <1>9

-----------------------------------------------------------------------------
(* The scripts and the table. *)

\* A row with another coverage.
LEMMA CoverChanged ==
    ASSUME NEW r \in Row, NEW c \in Period \cup {NoPeriod}
    PROVE  LET n == [r EXCEPT !.cover = c]
           IN  /\ n \in Row /\ n.at = r.at /\ n.client = r.client /\ n.service = r.service
               /\ n.cover = c /\ n.year = r.year /\ n.used = r.used /\ n.max = r.max
BY DEF Row

\* The row a script writes for a cell: it keeps the coverage of the one it
\* overwrites.
LEMMA CellRowIs ==
    ASSUME NEW k, IsKey(k), NEW cells, cells[k] \in CellHours,
           NEW found, found \subseteq Row, NEW n \in Nat, \A r \in found : r.at <= n, NEW at \in Nat
    PROVE  LET new == CellRow(cells, k, found, at)
           IN  /\ new \in Row /\ new.at = at /\ new.client = k.client /\ new.service = k.service
               /\ new.year = k.year /\ HoursOf(new) = cells[k]
               /\ \/ found = {} /\ new.cover = k.cover
                  \/ \E r \in found : new.cover = r.cover
<1> DEFINE r == RowOf(k, cells[k], at)
           newest == CHOOSE q \in Newest(found) : TRUE
           cover == IF found = {} THEN r.cover ELSE newest.cover
           new == [r EXCEPT !.cover = cover]
<1>1. /\ r \in Row /\ HoursOf(r) = cells[k] /\ r.client = k.client /\ r.service = k.service
      /\ r.year = k.year /\ r.at = at /\ r.cover = k.cover
    BY RowType, RowShape
<1>2. CellRow(cells, k, found, at) = new
    BY DEF CellRow
<1>3. found # {} => newest \in found
    BY NewestIs DEF Newest
<1> HIDE DEF r, newest
<1>4. /\ cover \in Period \cup {NoPeriod}
      /\ \/ found = {} /\ cover = k.cover
         \/ \E q \in found : cover = q.cover
    BY <1>1, <1>3 DEF Row
<1> HIDE DEF cover
<1>5. /\ new \in Row /\ new.at = r.at /\ new.client = r.client /\ new.service = r.service
      /\ new.cover = cover /\ new.year = r.year /\ new.used = r.used /\ new.max = r.max
    BY <1>1, <1>4, CoverChanged
<1> HIDE DEF new
<1>6. HoursOf(new) = HoursOf(r)
    BY <1>5 DEF HoursOf
<1>7. QED
    BY <1>1, <1>2, <1>4, <1>5, <1>6

\* Keys of calendar cells that agree on client, service and year are one.
LEMMA CalendarKeyUnique ==
    \A j, k \in CalendarKeys :
        j.client = k.client /\ j.service = k.service /\ j.year = k.year => j = k
BY CalendarKeyIs

\* Keys of the reconciliation that agree on client, service and coverage, and
\* without coverage on the year, are one.
LEMMA ReconciledKeyUnique ==
    ASSUME NEW j, ReconciledKey(j), NEW k, ReconciledKey(k),
           j.client = k.client, j.service = k.service, j.cover = k.cover,
           j.cover = NoPeriod => j.year = k.year
    PROVE  j = k
<1>1. \A i : ReconciledKey(i) =>
        \/ i \in CalendarKeys
        \/ i.cover # NoPeriod /\ i = DatedKey(i.client, i.cover)
    BY PeriodAssumption DEF ReconciledKey, DatedKey, Key
<1>2. CASE j.cover = NoPeriod
    BY <1>1, <1>2, CalendarKeyUnique
<1>3. CASE j.cover # NoPeriod
    BY <1>1, <1>3, CalendarKeyIs
<1>4. QED
    BY <1>2, <1>3

\* What a script that has found the rows of all its cells writes.
LEMMA NewRows ==
    ASSUME TableInv, ScriptInv, script # NoScript, DOMAIN script.found = DOMAIN script.cells,
           NEW k \in DOMAIN script.cells
    PROVE  LET new == CellRow(script.cells, k, script.found[k], script.at)
           IN  /\ new \in Row /\ new.at = script.at
               /\ new.client = k.client /\ new.service = k.service /\ new.year = k.year
               /\ HoursOf(new) = script.cells[k]
               /\ script.kind # "import" => new.cover = k.cover
               /\ script.kind = "import" /\ new.cover # NoPeriod =>
                    \E r \in script.found[k] : FindsInYear(k, r) /\ r.cover = new.cover
<1> DEFINE cells == script.cells
           found == script.found[k]
           new == CellRow(cells, k, found, script.at)
<1>1. IsKey(k) /\ (script.kind = "import" => k \in CalendarKeys)
    BY CalendarIsKey, ReconciledIsKey DEF ScriptInv, AreCells
<1>2. cells[k] \in CellHours /\ script.at \in Nat /\ now \in Nat
    BY DEF ScriptInv, AreCells, AreHours, TableInv
<1>3. found \subseteq Row /\ \A r \in found : r.at <= now
    BY DEF ScriptInv, FoundFor, TableInv
<1>4. \A r \in found : IF script.kind = "import" THEN FindsInYear(k, r) ELSE Finds(k, r)
    BY DEF ScriptInv, FoundFor
<1> HIDE DEF cells, found
<1>5. /\ new \in Row /\ new.at = script.at /\ new.client = k.client /\ new.service = k.service
      /\ new.year = k.year /\ HoursOf(new) = cells[k]
      /\ \/ found = {} /\ new.cover = k.cover
         \/ \E r \in found : new.cover = r.cover
    BY <1>1, <1>2, <1>3, CellRowIs
<1> HIDE DEF new
<1>6. script.kind # "import" => new.cover = k.cover
    BY <1>4, <1>5 DEF Finds
<1>7. script.kind = "import" /\ new.cover # NoPeriod =>
        \E r \in found : FindsInYear(k, r) /\ r.cover = new.cover
    BY <1>1, <1>4, <1>5, CalendarKeyIs
<1>8. QED
    BY <1>5, <1>6, <1>7 DEF cells, found, new

\* Cells of a script that are of one client, service and year, and after the
\* reconciliation of one coverage, are one.
LEMMA CellKeyUnique ==
    ASSUME ScriptInv, script # NoScript,
           NEW j \in DOMAIN script.cells, NEW k \in DOMAIN script.cells,
           j.client = k.client, j.service = k.service,
           j.year = k.year \/ (script.kind # "import" /\ j.cover # NoPeriod),
           script.kind # "import" => j.cover = k.cover
    PROVE  j = k
<1>1. CASE script.kind = "import"
    BY <1>1, CalendarKeyUnique DEF ScriptInv, AreCells
<1>2. CASE script.kind # "import"
    BY <1>2, ReconciledKeyUnique DEF ScriptInv, AreCells
<1>3. QED
    BY <1>1, <1>2

\* Rows a script writes keep dated allowances apart: those of the import stand
\* each for one it removed, those of the reconciliation for all of their key.
LEMMA CommitTable ==
    ASSUME TableInv, ScriptInv, ScriptCommits
    PROVE  TableInv'
<1> DEFINE K == DOMAIN script.cells
           new(k) == CellRow(script.cells, k, script.found[k], script.at)
           kept == rows \ UNION { script.found[k] : k \in K }
           import == script.kind = "import"
<1>1. /\ script # NoScript /\ DOMAIN script.found = K /\ now' = now
      /\ rows' = kept \cup { new(k) : k \in K }
    BY DEF ScriptCommits, Written
<1>2. \A k \in K : /\ new(k) \in Row /\ new(k).at = script.at
                   /\ new(k).client = k.client /\ new(k).service = k.service
                   /\ new(k).year = k.year
                   /\ ~import => new(k).cover = k.cover
                   /\ import /\ new(k).cover # NoPeriod =>
                        \E r \in script.found[k] : FindsInYear(k, r) /\ r.cover = new(k).cover
    BY <1>1, NewRows
<1>3. \A k \in K : /\ script.found[k] \subseteq rows
                   /\ k.cover # NoPeriod => \A r \in rows : Finds(k, r) => r \in script.found[k]
                   /\ IsKey(k)
    BY <1>1, CalendarIsKey, ReconciledIsKey DEF ScriptInv, FoundFor, AreCells
<1>4. \A r \in kept : r \in rows /\ \A k \in K : r \notin script.found[k]
    OBVIOUS
<1>5. script.at \in Nat /\ script.at <= now /\ now \in Nat
    BY <1>1 DEF ScriptInv, TableInv
<1>11. \A j, k \in K :
         /\ j.client = k.client /\ j.service = k.service
         /\ j.year = k.year \/ (~import /\ j.cover # NoPeriod)
         /\ ~import => j.cover = k.cover
         => j = k
    BY <1>1, CellKeyUnique
<1> HIDE DEF new, kept, import, K
<1>6. now' \in Nat /\ rows' \subseteq Row
    BY <1>1, <1>2, <1>4, <1>5 DEF TableInv
<1>7. \A r \in rows' : r.at <= now' /\ (r.cover # NoPeriod => r.service = Corp)
    <2>1. \A r \in kept : r.at <= now' /\ (r.cover # NoPeriod => r.service = Corp)
        BY <1>1, <1>4 DEF TableInv
    <2>2. ASSUME NEW k \in K PROVE new(k).at <= now' /\ (new(k).cover # NoPeriod => new(k).service = Corp)
        <3>1. new(k).at <= now'
            BY <1>1, <1>2, <1>5
        <3>2. CASE import
            BY <1>2, <1>3, <3>1, <3>2 DEF TableInv, FindsInYear
        <3>3. CASE ~import
            BY <1>2, <1>3, <3>1, <3>3 DEF IsKey
        <3>4. QED
            BY <3>2, <3>3
    <2>3. QED
        BY <1>1, <2>1, <2>2
<1>8. ASSUME NEW r \in rows', NEW q \in rows', r.cover # NoPeriod, Finds(r, q) PROVE r = q
    <2>0. q.cover = r.cover /\ q.client = r.client /\ q.service = r.service
        BY <1>8 DEF Finds
    <2>1. CASE r \in kept /\ q \in kept
        BY <1>4, <1>8, <2>1 DEF TableInv
    <2>2. ASSUME NEW a \in kept, NEW k \in K, a.cover # NoPeriod, a.cover = new(k).cover,
                 a.client = new(k).client, a.service = new(k).service
          PROVE  FALSE
        <3>1. CASE import
            <4>1. PICK b \in script.found[k] : FindsInYear(k, b) /\ b.cover = new(k).cover
                BY <1>2, <2>2, <3>1
            <4>2. a \in rows /\ b \in rows /\ Finds(a, b)
                BY <1>2, <1>3, <1>4, <2>2, <4>1 DEF Finds, FindsInYear
            <4>3. a = b
                BY <2>2, <4>2 DEF TableInv
            <4>4. QED
                BY <1>4, <4>1, <4>3
        <3>2. CASE ~import
            BY <1>2, <1>3, <1>4, <2>2, <3>2 DEF Finds
        <3>3. QED
            BY <3>1, <3>2
    <2>3. ASSUME NEW j \in K, NEW k \in K, r = new(j), q = new(k) PROVE r = q
        <3>1. CASE import
            <4>1. PICK a \in script.found[j] : FindsInYear(j, a) /\ a.cover = r.cover
                BY <1>2, <1>8, <2>3, <3>1
            <4>2. PICK b \in script.found[k] : FindsInYear(k, b) /\ b.cover = q.cover
                BY <1>2, <1>8, <2>0, <2>3, <3>1
            <4>3. a \in rows /\ b \in rows /\ Finds(a, b) /\ a.cover # NoPeriod
                BY <1>2, <1>3, <1>8, <2>0, <2>3, <4>1, <4>2 DEF Finds, FindsInYear
            <4>4. a = b
                BY <4>3 DEF TableInv
            <4>5. j.client = k.client /\ j.service = k.service /\ j.year = k.year
                BY <4>1, <4>2, <4>4 DEF FindsInYear
            <4>6. QED
                BY <1>11, <2>3, <3>1, <4>5
        <3>2. CASE ~import
            BY <1>2, <1>8, <1>11, <2>0, <2>3, <3>2
        <3>3. QED
            BY <3>1, <3>2
    <2>4. QED
        BY <1>1, <1>8, <2>0, <2>1, <2>2, <2>3
<1>9. QED
    BY <1>6, <1>7, <1>8 DEF TableInv, Finds

-----------------------------------------------------------------------------
(* A script leaves one row per cell it knows. *)

\* A row of a cell that is written again keeps all but its time.
LEMMA WrittenTwice ==
    ASSUME NEW k, IsKey(k), NEW cells, cells[k] \in CellHours,
           NEW r \in Row, r.client = k.client, r.service = k.service, r.year = k.year,
           HoursOf(r) = cells[k], NEW at \in Nat
    PROVE  LET again == CellRow(cells, k, {r}, at)
           IN  [again EXCEPT !.at = 0] = [r EXCEPT !.at = 0]
<1> DEFINE again == CellRow(cells, k, {r}, at)
<1>1. {r} \subseteq Row /\ r.at \in Nat /\ \A q \in {r} : q.at <= r.at
    BY DEF Row
<1>2. /\ again \in Row /\ again.client = k.client /\ again.service = k.service
      /\ again.year = k.year /\ HoursOf(again) = cells[k]
      /\ \E q \in {r} : again.cover = q.cover
    BY <1>1, CellRowIs
<1> HIDE DEF again
<1>3. again.max = r.max /\ again.used = r.used
    BY <1>2 DEF HoursOf, Hours
<1>4. again.cover = r.cover
    BY <1>2
<1>5. QED
    BY <1>2, <1>3, <1>4 DEF Row, again

\* Once the rows of all cells are as found the script leaves one per cell, and
\* changes nothing the second time.
LEMMA CommitRestates ==
    ASSUME TableInv, ScriptInv, ScriptCommits, Undisturbed
    PROVE  /\ Restates(script.kind, script.cells, rows')
           /\ Contents(WrittenAgain(script.kind, script.cells, rows', now + 1)) = Contents(rows')
<1> DEFINE K == DOMAIN script.cells
           new(k) == CellRow(script.cells, k, script.found[k], script.at)
           kept == rows \ UNION { script.found[k] : k \in K }
           import == script.kind = "import"
           here(k) == CellRows(script.kind, k, rows')
           again(k) == CellRow(script.cells, k, {new(k)}, now + 1)
<1>1. /\ script # NoScript /\ DOMAIN script.found = K
      /\ rows' = kept \cup { new(k) : k \in K }
    BY DEF ScriptCommits, Written
<1>2. \A k \in K : /\ new(k) \in Row
                   /\ new(k).client = k.client /\ new(k).service = k.service
                   /\ new(k).year = k.year /\ HoursOf(new(k)) = script.cells[k]
                   /\ ~import => new(k).cover = k.cover
    BY <1>1, NewRows
<1>3. \A k \in K : IsKey(k) /\ script.cells[k] \in CellHours
    BY <1>1, CalendarIsKey, ReconciledIsKey DEF ScriptInv, AreCells, AreHours
<1>4. \A k \in K, r \in kept : IF import THEN ~FindsInYear(k, r) ELSE ~Finds(k, r)
    BY DEF Undisturbed, CellRows
<1>5. \A k \in K : here(k) = { r \in rows' : IF import THEN FindsInYear(k, r) ELSE Finds(k, r) }
    BY DEF CellRows
<1>6. \A j, k \in K :
         /\ j.client = k.client /\ j.service = k.service
         /\ j.year = k.year \/ (~import /\ j.cover # NoPeriod)
         /\ ~import => j.cover = k.cover
         => j = k
    BY <1>1, CellKeyUnique
<1>7. now + 1 \in Nat
    BY DEF TableInv
<1>8. \A k \in K : [again(k) EXCEPT !.at = 0] = [new(k) EXCEPT !.at = 0]
    <2> HIDE DEF new
    <2>1. QED
        BY <1>2, <1>3, <1>7, WrittenTwice
<1> HIDE DEF new, kept, import, K, here
<1>9. ASSUME NEW k \in K PROVE here(k) = {new(k)}
    <2>1. new(k) \in here(k)
        BY <1>1, <1>2, <1>5 DEF FindsInYear, Finds
    <2>2. ASSUME NEW r \in here(k) PROVE r = new(k)
        <3>1. r \in rows' /\ (IF import THEN FindsInYear(k, r) ELSE Finds(k, r))
            BY <1>5, <2>2
        <3>2. r \notin kept
            BY <1>4, <3>1
        <3>3. PICK j \in K : r = new(j)
            BY <1>1, <3>1, <3>2
        <3>4. j = k
            BY <1>2, <1>6, <3>1, <3>3 DEF FindsInYear, Finds
        <3>5. QED
            BY <3>3, <3>4
    <2>3. QED
        BY <2>1, <2>2
<1>10. Restates(script.kind, script.cells, rows')
    <2>1. \A k \in K : Cardinality(here(k)) = 1 /\ \A r \in here(k) : HoursOf(r) = script.cells[k]
        BY <1>2, <1>9, FS_Singleton
    <2>2. QED
        BY <2>1 DEF Restates, K, here
<1>11. Contents(WrittenAgain(script.kind, script.cells, rows', now + 1)) = Contents(rows')
    <2> DEFINE twice == (rows' \ { new(k) : k \in K }) \cup { again(k) : k \in K }
               found == [k \in K |-> here(k)]
    <2>1. WrittenAgain(script.kind, script.cells, rows', now + 1)
            = Written(script.cells, found, rows', now + 1)
        BY DEF WrittenAgain, K, here
    <2>2. \A k \in K : found[k] = {new(k)}
        BY <1>9
    <2> HIDE DEF found
    <2>3. Written(script.cells, found, rows', now + 1)
            = (rows' \ UNION { found[k] : k \in K })
              \cup { CellRow(script.cells, k, found[k], now + 1) : k \in K }
        BY DEF Written, K
    <2>4. UNION { found[k] : k \in K } = { new(k) : k \in K }
        BY <2>2
    <2>5. { CellRow(script.cells, k, found[k], now + 1) : k \in K } = { again(k) : k \in K }
        BY <2>2
    <2>6. WrittenAgain(script.kind, script.cells, rows', now + 1) = twice
        BY <2>1, <2>3, <2>4, <2>5
    <2> HIDE DEF again
    <2>7. \A k \in K : new(k) \in rows'
        BY <1>1
    <2> DEFINE timeless(r) == [r EXCEPT !.at = 0]
    <2>8. \A R : Contents(R) = { timeless(r) : r \in R }
        BY DEF Contents
    <2>9. \A k \in K : timeless(again(k)) = timeless(new(k))
        BY <1>8
    <2> HIDE DEF timeless
    <2>10. { timeless(r) : r \in twice } = { timeless(r) : r \in rows' }
        BY <2>7, <2>9
    <2>11. QED
        BY <2>6, <2>8, <2>10
<1>12. QED
    BY <1>10, <1>11

-----------------------------------------------------------------------------
(* What a script found stays. *)

\* A row the script is not looking for: none of the dated keys it took.
NotLookedFor(n) ==
    script # NoScript => \A k \in DOMAIN script.found : k.cover # NoPeriod => ~Finds(k, n)

\* Rows R make place for rows N, and the script goes on.
Beside(R, N) ==
    /\ rows' = (rows \ R) \cup N
    /\ now \in Nat /\ now' \in Nat /\ now <= now'
    /\ script' = script
    /\ \A r \in R : ~Locked(r)
    /\ \A n \in N : NotLookedFor(n)

\* Others write no row it found and add none it would have found.
LEMMA FoundStays ==
    ASSUME ScriptInv, NEW R, NEW N, Beside(R, N)
    PROVE  ScriptInv'
<1> SUFFICES ASSUME script # NoScript PROVE ScriptInv'
    BY DEF ScriptInv, Beside
<1> USE DEF Beside, NotLookedFor
<1>1. ASSUME NEW k \in DOMAIN script.found PROVE FoundFor(k)'
    <2>1. FoundFor(k)
        BY DEF ScriptInv
    <2>2. script.found[k] \subseteq rows'
        BY <2>1 DEF FoundFor, Locked
    <2>3. k.cover # NoPeriod => \A r \in rows' : Finds(k, r) => r \in script.found[k]
        BY <2>1 DEF FoundFor
    <2>4. QED
        BY <2>1, <2>2, <2>3 DEF FoundFor, Finds, FindsInYear
<1>2. script.at <= now'
    BY DEF ScriptInv
<1>3. QED
    BY <1>1, <1>2 DEF ScriptInv, AreCells, AreHours

\* A row written where a script found none of its key is not one it looks for.
LEMMA NotFound ==
    ASSUME ScriptInv, NEW q, NEW n, Finds(q, n), q.cover = n.cover,
           ~Held(q) \/ (q \in rows /\ ~Locked(q))
    PROVE  NotLookedFor(n)
<1> SUFFICES ASSUME script # NoScript, NEW k \in DOMAIN script.found, k.cover # NoPeriod, Finds(k, n)
             PROVE  FALSE
    BY DEF NotLookedFor
<1>1. Finds(k, q)
    BY DEF Finds
<1>2. ~Held(q) => FALSE
    BY <1>1 DEF Held
<1>3. q \in rows /\ ~Locked(q) => FALSE
    BY <1>1 DEF ScriptInv, FoundFor, Locked
<1>4. QED
    BY <1>2, <1>3

\* A save of the page waits for the script.
LEMMA SavesLeaveFound ==
    ASSUME TypedInv, TableInv, PageInv, ScriptInv, NEW m \in net, ServerSaves(m)
    PROVE  ScriptInv'
<1> DEFINE found == { r \in rows : FoundByPage(m.key, r) }
           n == RowOf(m.key, m.hours, now + 1)
<1>1. now' = now + 1 /\ now \in Nat /\ script' = script
    BY DEF ServerSaves, TableInv
<1>2. n.client = m.key.client /\ n.service = m.key.service /\ n.cover = m.key.cover /\ n.year = m.key.year
    BY RowShape
<1>3. CASE found = {}
    <2>1. rows' = (rows \ {}) \cup {n} /\ ~Held(m.key)
        BY <1>3 DEF ServerSaves, Replace
    <2>2. Finds(m.key, n)
        BY <1>2 DEF Finds
    <2> HIDE DEF n, found
    <2>3. NotLookedFor(n)
        BY <1>2, <2>1, <2>2, NotFound
    <2>4. Beside({}, {n})
        BY <1>1, <2>1, <2>3 DEF Beside
    <2>5. QED
        BY <2>4, FoundStays
<1>4. CASE found # {}
    <2>1. PICK r \in Newest(found) : ~Locked(r) /\ rows' = (rows \ {r}) \cup {n}
        BY <1>4 DEF ServerSaves, Replace
    <2>2. r \in rows /\ FoundByPage(m.key, r)
        BY <2>1 DEF Newest
    <2> HIDE DEF n, found
    <2>3. NotLookedFor(n)
        <3>1. CASE m.key.cover = NoPeriod
            BY <1>2, <3>1 DEF NotLookedFor, Finds
        <3>2. CASE m.key.cover # NoPeriod
            <4>1. Finds(r, n) /\ r.cover = n.cover
                BY <1>2, <2>2, <3>2 DEF FoundByPage, Finds
            <4>2. QED
                BY <2>1, <2>2, <4>1, NotFound
        <3>3. QED
            BY <3>1, <3>2
    <2>4. Beside({r}, {n})
        BY <1>1, <2>1, <2>3 DEF Beside
    <2>5. QED
        BY <2>4, FoundStays
<1>5. QED
    BY <1>3, <1>4

\* So does a draft that adds a row ...
LEMMA PreparedLeavesFound ==
    ASSUME TableInv, ScriptInv, NEW need \in Needs, Prepare(need)
    PROVE  ScriptInv'
<1> DEFINE k == need.key
           n == RowOf(k, Hours(DefaultMax, 0), now + 1)
<1>1. now \in Nat /\ now' \in Nat /\ now <= now' /\ script' = script
    BY DEF Prepare, TableInv
<1>2. n.client = k.client /\ n.service = k.service /\ n.cover = k.cover /\ n.year = k.year
    BY RowShape
<1>3. CASE rows' = rows
    <2>1. Beside({}, {})
        BY <1>1, <1>3 DEF Beside
    <2>2. QED
        BY <2>1, FoundStays
<1>4. CASE rows' # rows
    <2>1. k.cover # NoPeriod /\ ~Held(k) /\ rows' = (rows \ {}) \cup {n}
        BY <1>4 DEF Prepare, Prepared
    <2>2. Finds(k, n)
        BY <1>2 DEF Finds
    <2> HIDE DEF n, k
    <2>3. NotLookedFor(n)
        BY <1>2, <2>1, <2>2, NotFound
    <2>4. Beside({}, {n})
        BY <1>1, <2>1, <2>3 DEF Beside
    <2>5. QED
        BY <2>4, FoundStays
<1>5. QED
    BY <1>3, <1>4

\* ... and a booking.
LEMMA BookedLeavesFound ==
    ASSUME TableInv, PlanInv, ScriptInv, Booking
    PROVE  ScriptInv'
<1>1. PICK r \in BookedIn(plan) :
         /\ ~Locked(r)
         /\ rows' = (rows \ {r}) \cup {[r EXCEPT !.used = @ + plan.hours, !.at = now + 1]}
    BY DEF Booking, Replace
<1> DEFINE n == [r EXCEPT !.used = @ + plan.hours, !.at = now + 1]
<1>2. r \in rows /\ plan.hours \in Nat /\ now \in Nat /\ now' = now + 1 /\ script' = script
    BY <1>1 DEF BookedIn, Newest, Booking, PlanInv, TableInv
<1>3. r \in Row
    BY <1>2 DEF TableInv
<1>4. n.client = r.client /\ n.service = r.service /\ n.cover = r.cover /\ n.year = r.year
    BY <1>3 DEF Row
<1>5. rows' = (rows \ {r}) \cup {n}
    BY <1>1
<1> HIDE DEF n
<1>6. Finds(r, n)
    BY <1>4 DEF Finds
<1>7. NotLookedFor(n)
    BY <1>1, <1>2, <1>4, <1>6, NotFound
<1>8. Beside({r}, {n})
    BY <1>1, <1>2, <1>5, <1>7 DEF Beside
<1>9. QED
    BY <1>8, FoundStays

\* A script begins with what its sources give it ...
LEMMA BeginsFound ==
    ASSUME TableInv, NEW kind, NEW cells, AreCells(kind, cells), ScriptBegins(kind, cells)
    PROVE  ScriptInv'
<1>1. /\ script' = [kind |-> kind, cells |-> cells, found |-> <<>>, at |-> now + 1]
      /\ now' = now + 1 /\ now \in Nat
    BY DEF ScriptBegins, TableInv
<1>2. DOMAIN <<>> = {}
    OBVIOUS
<1>3. QED
    BY <1>1, <1>2 DEF ScriptInv, AreCells, AreHours

\* ... and finds rows of its cells.
LEMMA TakesFound ==
    ASSUME ScriptInv, script # NoScript, NEW k \in DOMAIN script.cells, ScriptTakes(k)
    PROVE  ScriptInv'
<1> DEFINE found == [c \in DOMAIN script.found \cup {k} |->
                        IF c = k THEN CellRows(script.kind, k, rows) ELSE script.found[c]]
<1>1. /\ script' = [script EXCEPT !.found = found] /\ rows' = rows /\ now' = now
      /\ k \notin DOMAIN script.found
    BY DEF ScriptTakes
<1>2. script = [kind |-> script.kind, cells |-> script.cells, found |-> script.found, at |-> script.at]
    BY DEF ScriptInv
<1>3. script' = [kind |-> script.kind, cells |-> script.cells, found |-> found, at |-> script.at]
    BY <1>1, <1>2
<1>4. /\ script'.kind = script.kind /\ script'.cells = script.cells
      /\ script'.at = script.at /\ script'.found = found
    BY <1>3
<1>5. DOMAIN found = DOMAIN script.found \cup {k} /\ found[k] = CellRows(script.kind, k, rows)
      /\ \A c \in DOMAIN script.found : found[c] = script.found[c]
    BY <1>1
<1> HIDE DEF found
<1>6. ASSUME NEW c \in DOMAIN script.found PROVE FoundFor(c)'
    BY <1>1, <1>4, <1>5 DEF ScriptInv, FoundFor, Finds, FindsInYear
<1>7. FoundFor(k)'
    <2>1. k.cover # NoPeriod => script.kind # "import"
        BY CalendarKeyIs DEF ScriptInv, AreCells
    <2>2. QED
        BY <1>1, <1>4, <1>5, <2>1 DEF FoundFor, CellRows, Finds, FindsInYear
<1>8. QED
    BY <1>1, <1>3, <1>4, <1>5, <1>6, <1>7 DEF ScriptInv, AreCells, AreHours

-----------------------------------------------------------------------------
(* The page. *)

\* An empty cell.
LEMMA NoUsageType == NoUsage \in CellHours
BY HoursAreCells DEF NoUsage

\* The hours of a row are hours of a cell.
LEMMA HoursOfType == \A r \in Row : HoursOf(r) \in CellHours
BY HoursAreCells DEF HoursOf, Row

\* Typing leaves hours a cell can hold.
LEMMA ChangedType ==
    ASSUME NEW h \in CellHours, NEW in \in Typed
    PROVE  Changed(h, in[1], in[2]) \in CellHours
<1>1. CASE in \in { <<"max", v>> : v \in TypedMax }
    <2>1. in[1] = "max" /\ in[2] \in Nat \cup {NoMax}
        BY <1>1, TypedAssumption
    <2>2. QED
        BY <2>1 DEF Changed, CellHours
<1>2. CASE in \in { <<"used", v>> : v \in TypedUsed }
    <2>1. in[1] = "used" /\ in[2] \in Nat
        BY <1>2, TypedAssumption
    <2>2. QED
        BY <2>1 DEF Changed, CellHours
<1>3. QED
    BY <1>1, <1>2 DEF Typed

\* The page starts in the last of the years.
LEMMA LastYear == Max(Years) \in Years
BY GreatestNatural, YearsAssumption

\* The page asks for keys there can be.
LEMMA PageKeys ==
    /\ \A cell \in PageCells, y \in Years : IsKey(CalendarKey(cell[1], cell[2], y))
    /\ \A c \in Linked, p \in Period, y \in Years : IsKey(Key(c, Corp, p, y))
<1>1. \A cell \in PageCells, y \in Years : IsKey(CalendarKey(cell[1], cell[2], y))
    BY CalendarKeyIs, CalendarIsKey, ClientsAssumption DEF PageCells
<1>2. \A c \in Linked, p \in Period, y \in Years : IsKey(Key(c, Corp, p, y))
    BY ClientsAssumption, CorpAssumption, YearsAssumption DEF IsKey, Key
<1>3. QED
    BY <1>1, <1>2

\* Requests for a list.
LEMMA LoadCarries == \A y \in Years : Carries(LoadRequest(y))
BY DEF Carries, LoadRequest, IsSave

\* Requests to save.
LEMMA SaveCarries ==
    ASSUME NEW k, IsKey(k), NEW h \in CellHours, NEW v
    PROVE  Carries(SaveRequest(k, h, v))
BY DEF Carries, SaveRequest, IsSave

\* A list of the server has hours in all its cells.
LEMMA ListingCarries ==
    ASSUME TableInv, NEW y, NEW list \in Listings(y)
    PROVE  list.calendar \in [PageCells -> CellHours] /\ DatedCells(list.dated)
<1> DEFINE Calendar(cell) == { r \in rows : Finds(CalendarKey(cell[1], cell[2], y), r) }
           inTable == { r \in rows : r.client \in Linked /\ r.cover # NoPeriod /\ Overlaps(r.cover, y) }
           named == { d \in Detected : d[1] \in Linked /\ Overlaps(d[2], y) }
           Dated(d) == { r \in inTable : r.client = d[1] /\ r.cover = d[2] }
           cells == { <<r.client, r.cover>> : r \in inTable } \cup named
           hours(d) == IF Dated(d) = {} THEN Hours(DefaultMax, 0)
                       ELSE HoursOf(CHOOSE r \in Dated(d) : TRUE)
<1>1. /\ list.calendar \in [PageCells -> { HoursOf(r) : r \in rows } \cup {NoUsage}]
      /\ list.dated = [d \in cells |-> hours(d)]
    BY DEF Listings
<1>2. { HoursOf(r) : r \in rows } \cup {NoUsage} \subseteq CellHours
    BY HoursOfType, NoUsageType DEF TableInv
<1>3. list.calendar \in [PageCells -> CellHours]
    BY <1>1, <1>2
<1>4. \A d \in cells : d[1] \in Linked /\ d[2] \in Period
    BY DetectedAssumption DEF TableInv, Row
<1>5. ASSUME NEW d PROVE hours(d) \in CellHours
    <2>1. CASE Dated(d) = {}
        BY <2>1, HoursAreCells, MaxAssumption
    <2>2. CASE Dated(d) # {}
        <3>1. (CHOOSE r \in Dated(d) : TRUE) \in Dated(d)
            BY <2>2
        <3>2. Dated(d) \subseteq rows
            OBVIOUS
        <3> HIDE DEF Dated
        <3>3. (CHOOSE r \in Dated(d) : TRUE) \in Row
            BY <3>1, <3>2 DEF TableInv
        <3>4. QED
            BY <2>2, <3>3, HoursOfType
    <2>3. QED
        BY <2>1, <2>2
<1> HIDE DEF cells, hours
<1>6. QED
    BY <1>1, <1>3, <1>4, <1>5 DEF DatedCells

\* The page begins with nothing in the table.
LEMMA InitUsage == Init => UsageInv
<1> SUFFICES ASSUME Init PROVE UsageInv
    OBVIOUS
<1>1. TableInv
    BY DEF Init, TableInv
<1>2. PageInv
    <2>1. tab \in Years
        BY LastYear DEF Init
    <2>2. usage \in [PageCells -> CellHours] /\ shown = usage
        BY NoUsageType DEF Init
    <2>3. \A cell \in PageCells : ~timer[cell].due
        BY DEF Init, NoTimer
    <2>4. DOMAIN <<>> = {} /\ dated = <<>>
        BY DEF Init
    <2>5. DatedCells(dated)
        BY <2>4 DEF DatedCells
    <2>6. \A m \in net : Carries(m)
        BY LastYear DEF Init, Carries, IsSave
    <2>7. QED
        BY <2>1, <2>2, <2>3, <2>5, <2>6 DEF PageInv
<1>3. PlanInv
    BY DEF Init, PlanInv
<1>4. ScriptInv
    BY DEF Init, ScriptInv
<1>5. QED
    BY <1>1, <1>2, <1>3, <1>4, InitTyped DEF UsageInv

\* The cells stay what they are or become hours a cell can hold.
LEMMA SavedPage ==
    ASSUME PageInv, NEW cell \in PageCells, NEW h \in CellHours, NEW v, NEW y \in Years,
           SaveCell(cell, h, v, y)
    PROVE  \A m \in net' : Carries(m)
<1>1. IsKey(CalendarKey(cell[1], cell[2], y))
    BY PageKeys
<1>2. net' \subseteq net \cup {SaveRequest(CalendarKey(cell[1], cell[2], y), h, v)}
    BY DEF SaveCell, Requests
<1>3. QED
    BY <1>1, <1>2, SaveCarries DEF PageInv

\* Typing into a calendar cell.
LEMMA TypingPage ==
    ASSUME TypedInv, PageInv, NEW cell \in PageCells, NEW in \in Typed, Type(cell, in[1], in[2])
    PROVE  PageInv'
<1> DEFINE h == Changed(shown[cell], in[1], in[2])
           due == [due |-> TRUE, hours |-> shown'[cell], version |-> version'[cell], year |-> tab]
<1>1. shown[cell] \in CellHours
    BY DEF PageInv
<1>2. h \in CellHours
    BY <1>1, ChangedType
<1>3. /\ shown' = [shown EXCEPT ![cell] = h] /\ timer' = [timer EXCEPT ![cell] = due]
      /\ UNCHANGED <<tab, usage, dated, net>>
    BY DEF Type
<1> HIDE DEF h
<1>4. shown' \in [PageCells -> CellHours] /\ shown'[cell] = h
    BY <1>2, <1>3 DEF PageInv
<1>5. due.hours = h /\ due.year = tab
    BY <1>4
<1> HIDE DEF due
<1>6. \A c \in PageCells : timer'[c] = IF c = cell THEN due ELSE timer[c]
    BY <1>3 DEF TypedInv, PageTyped
<1>7. \A c \in PageCells : timer'[c].due => timer'[c].hours \in CellHours /\ timer'[c].year \in Years
    BY <1>2, <1>5, <1>6 DEF PageInv
<1>8. QED
    BY <1>3, <1>4, <1>7 DEF PageInv, DatedCells, Carries, IsSave

\* Nothing of the page changes but what is under way.
LEMMA NetPage ==
    ASSUME PageInv, UNCHANGED <<tab, usage, shown, timer, dated>>, \A m \in net' : Carries(m)
    PROVE  PageInv'
BY DEF PageInv, DatedCells, Carries, IsSave

\* An autosave, or leaving a calendar input.
LEMMA SavingPage ==
    ASSUME TypedInv, PageInv, NEW cell \in PageCells, TimerFires(cell) \/ Blur(cell)
    PROVE  PageInv'
<1>1. /\ timer' = [timer EXCEPT ![cell] = NoTimer] /\ UNCHANGED <<tab, usage, shown, dated>>
    BY DEF TimerFires, Blur
<1>2. \A m \in net' : Carries(m)
    BY SavedPage DEF TimerFires, Blur, PageInv
<1>3. \A c \in PageCells : timer'[c].due => timer[c].due /\ timer'[c] = timer[c]
    BY <1>1 DEF TypedInv, PageTyped, NoTimer
<1>4. QED
    BY <1>1, <1>2, <1>3 DEF PageInv, DatedCells, Carries, IsSave

\* Leaving a dated input.
LEMMA DatedPage ==
    ASSUME PageInv, NEW d \in DOMAIN dated, BlurDated(d)
    PROVE  PageInv'
<1>1. d[1] \in Linked /\ d[2] \in Period /\ dated[d] \in CellHours /\ tab \in Years
    BY DEF PageInv, DatedCells
<1>2. IsKey(Key(d[1], Corp, d[2], tab))
    BY <1>1, PageKeys
<1>3. Carries(SaveRequest(Key(d[1], Corp, d[2], tab), dated[d], 0))
    BY <1>1, <1>2, SaveCarries
<1>4. net' = net \cup {SaveRequest(Key(d[1], Corp, d[2], tab), dated[d], 0)}
    BY DEF BlurDated, Requests
<1>5. \A m \in net' : Carries(m)
    BY <1>3, <1>4 DEF PageInv
<1>6. QED
    BY <1>5, NetPage DEF BlurDated, pageVars

\* One dated cell of the page changes.
LEMMA DatedChange ==
    ASSUME NEW cells, DatedCells(cells), NEW d \in DOMAIN cells, NEW h \in CellHours
    PROVE  DatedCells([cells EXCEPT ![d] = h])
BY DEF DatedCells

\* Typing into a dated cell.
LEMMA TypingDatedPage ==
    ASSUME PageInv, NEW d \in DOMAIN dated, NEW in \in Typed, TypeDated(d, in[1], in[2])
    PROVE  PageInv'
<1>1. dated[d] \in CellHours
    BY DEF PageInv, DatedCells
<1>2. Changed(dated[d], in[1], in[2]) \in CellHours
    BY <1>1, ChangedType
<1>3. dated' = [dated EXCEPT ![d] = Changed(dated[d], in[1], in[2])]
    BY DEF TypeDated
<1>4. DatedCells(dated')
    BY <1>2, <1>3, DatedChange DEF PageInv
<1>5. QED
    BY <1>4 DEF PageInv, TypeDated, DatedCells, Carries, IsSave

\* What the server and the page make of messages.
LEMMA AnswersPage ==
    ASSUME TypedInv, TableInv, PageInv, NEW m \in net,
           ServerLists(m) \/ ServerSaves(m) \/ Lost(m) \/ PageShows(m) \/ PageSaved(m)
               \/ PageSavedDated(m)
    PROVE  PageInv'
<1>0. Carries(m)
    BY DEF PageInv
<1>1. CASE ServerLists(m)
    <2>1. PICK list \in Listings(m.year) :
             net' = (net \ {m}) \cup {[kind |-> "listed", id |-> m.id, year |-> m.year, list |-> list]}
        BY <1>1 DEF ServerLists, Answers
    <2>2. list.calendar \in [PageCells -> CellHours] /\ DatedCells(list.dated)
        BY <2>1, ListingCarries
    <2>3. m.year \in Years
        BY <1>0, <1>1 DEF ServerLists, Carries
    <2>4. Carries([kind |-> "listed", id |-> m.id, year |-> m.year, list |-> list])
        BY <2>2, <2>3 DEF Carries, IsSave
    <2>5. \A n \in net' : Carries(n)
        BY <2>1, <2>4 DEF PageInv
    <2>6. QED
        BY <1>1, <2>5, NetPage DEF ServerLists, pageVars
<1>2. CASE ServerSaves(m)
    <2> DEFINE n == [m EXCEPT !.kind = "saved"]
    <2>1. m.kind = "save" /\ net' = (net \ {m}) \cup {n}
        BY <1>2 DEF ServerSaves, Answers
    <2>2. m = [kind |-> m.kind, id |-> m.id, key |-> m.key, hours |-> m.hours, version |-> m.version]
        BY <2>1 DEF TypedInv, PageTyped, IsSave
    <2>3. n.kind = "saved" /\ n.key = m.key /\ n.hours = m.hours
        BY <2>2
    <2>4. Carries(n)
        BY <1>0, <2>1, <2>3 DEF Carries, IsSave
    <2> HIDE DEF n
    <2>5. \A q \in net' : Carries(q)
        BY <2>1, <2>4 DEF PageInv
    <2>6. QED
        BY <1>2, <2>5, NetPage DEF ServerSaves, pageVars
<1>3. CASE Lost(m)
    <2>1. \A q \in net' : Carries(q)
        BY <1>3 DEF Lost, PageInv
    <2>2. QED
        BY <1>3, <2>1, NetPage DEF Lost
<1>4. CASE PageShows(m)
    <2>1. /\ m.year \in Years /\ m.list.calendar \in [PageCells -> CellHours]
          /\ DatedCells(m.list.dated)
        BY <1>0, <1>4 DEF PageShows, Carries
    <2>2. net' \subseteq net \cup {LoadRequest(m.year)}
        BY <1>4 DEF PageShows
    <2>3. \A q \in net' : Carries(q)
        BY <2>1, <2>2, LoadCarries DEF PageInv
    <2>4. QED
        BY <1>4, <2>1, <2>3 DEF PageShows, PageInv, DatedCells, Carries, IsSave
<1>5. CASE PageSaved(m)
    <2>1. m.hours \in CellHours
        BY <1>0, <1>5 DEF PageSaved, Carries, IsSave
    <2>2. usage' \in [PageCells -> CellHours] /\ shown' \in [PageCells -> CellHours]
        BY <1>5, <2>1 DEF PageSaved, PageInv
    <2>3. QED
        BY <1>5, <2>2 DEF PageSaved, PageInv, DatedCells, Carries, IsSave
<1>6. CASE PageSavedDated(m)
    <2>1. m.hours \in CellHours
        BY <1>0, <1>6 DEF PageSavedDated, Carries, IsSave
    <2>2. DatedCells(dated')
        BY <1>6, <2>1, DatedChange DEF PageSavedDated, PageInv
    <2>3. QED
        BY <1>6, <2>2 DEF PageSavedDated, PageInv, DatedCells, Carries, IsSave
<1>7. QED
    BY <1>1, <1>2, <1>3, <1>4, <1>5, <1>6

-----------------------------------------------------------------------------
(* The draft. *)

\* A draft covers what is left of an allowance at most.
LEMMA PlannedFits ==
    ASSUME NEW need \in Needs, NEW r \in Row, Planned(need, r) # NoNeed
    PROVE  LET p == Planned(need, r)
           IN  /\ p.hours \in Nat
               /\ p.seen.max # NoMax => p.seen.used + p.hours <= p.seen.max
<1> DEFINE covered == Min({need.hours, Left(r)})
           p == [key |-> need.key, hours |-> covered, seen |-> HoursOf(r)]
<1>1. /\ need.hours \in Nat /\ Left(r) \in Nat /\ r.used \in Nat /\ r.max \in Nat \cup {NoMax}
      /\ (r.max # NoMax => Left(r) = 0 \/ r.used + Left(r) = r.max)
    BY NeedsAssumption DEF Left, Row
<1>2. need.hours \in Int /\ Left(r) \in Int
    BY <1>1
<1>3. covered \in Nat /\ covered <= Left(r)
    BY <1>1, <1>2, SmallerOf
<1>4. covered # 0 /\ Planned(need, r) = p
    BY DEF Planned
<1>5. p.hours = covered /\ p.seen.max = r.max /\ p.seen.used = r.used
    BY DEF HoursOf, Hours
<1> HIDE DEF covered, p
<1>6. r.max # NoMax => r.used + covered <= r.max
    BY <1>1, <1>3, <1>4
<1>7. QED
    BY <1>3, <1>4, <1>5, <1>6

\* A draft keeps to what it saw.
LEMMA PreparedPlan ==
    ASSUME TableInv', NEW need \in Needs, Prepare(need)
    PROVE  PlanInv'
<1>1. CASE plan' = NoNeed
    BY <1>1 DEF PlanInv
<1>2. CASE plan' # NoNeed
    <2>1. PICK r \in rows' : plan' = Planned(need, r)
        BY <1>2 DEF Prepare
    <2>2. r \in Row
        BY <2>1 DEF TableInv, Row
    <2>3. QED
        BY <1>2, <2>1, <2>2, PlannedFits DEF PlanInv
<1>3. QED
    BY <1>1, <1>2

-----------------------------------------------------------------------------
(* The invariant is kept. *)

\* The table rests.
LEMMA TableKept == TableInv /\ UNCHANGED <<rows, now>> => TableInv'
BY DEF TableInv, Finds

\* The draft rests.
LEMMA PlanKept == PlanInv /\ UNCHANGED plan => PlanInv'
BY DEF PlanInv

\* Opening the tab of another year.
LEMMA OpenTabPage ==
    ASSUME PageInv, NEW y \in Years, OpenTab(y)
    PROVE  PageInv'
<1>1. net' = net \cup {LoadRequest(y)} /\ tab' = y /\ UNCHANGED <<usage, shown, timer, dated>>
    BY DEF OpenTab, Requests
<1>2. \A m \in net' : Carries(m)
    BY <1>1, LoadCarries DEF PageInv
<1>3. QED
    BY <1>1, <1>2 DEF PageInv, DatedCells, Carries, IsSave

\* Used hours leave a row only by a save that finds it or by a script.
HoursKept ==
    \A r \in rows \ rows' :
        KeepsItsHours(r) \/ SavedItself(r) \/ OverwrittenByYear(r) \/ TakenByScript(r)

\* Where no row goes no hours go.
LEMMA NothingLeaves == rows \subseteq rows' => HoursKept
BY DEF HoursKept

\* What a script found stays while nothing else does.
LEMMA FoundKept == ScriptInv /\ UNCHANGED <<rows, now, script>> => ScriptInv'
BY DEF ScriptInv, AreCells, AreHours, FoundFor, Finds, FindsInYear

\* A save takes hours out of rows it finds.
LEMMA SavesKeepHours ==
    ASSUME TypedInv, NEW m \in net, ServerSaves(m)
    PROVE  HoursKept
<1>1. m.kind = "save" /\ net' = (net \ {m}) \cup {[m EXCEPT !.kind = "saved"]}
    BY DEF ServerSaves, Answers
<1>2. m \notin net'
    <2>1. m = [kind |-> m.kind, id |-> m.id, key |-> m.key, hours |-> m.hours,
               version |-> m.version]
        BY <1>1 DEF TypedInv, PageTyped, IsSave
    <2>2. [m EXCEPT !.kind = "saved"].kind = "saved"
        BY <2>1
    <2>3. QED
        BY <1>1, <2>2
<1>3. Saves(m)
    BY <1>1, <1>2 DEF Saves
<1>4. ASSUME NEW r \in rows \ rows' PROVE SavedItself(r) \/ OverwrittenByYear(r)
    <2>1. FoundByPage(m.key, r)
        BY DEF ServerSaves, Replace, Newest
    <2>2. CASE m.key.cover # NoPeriod \/ r.cover = NoPeriod
        <3>1. Finds(m.key, r)
            BY <2>1, <2>2 DEF FoundByPage, Finds, FindsInYear
        <3>2. QED
            BY <1>3, <3>1 DEF SavedItself
    <2>3. CASE m.key.cover = NoPeriod /\ r.cover # NoPeriod
        BY <1>3, <2>1, <2>3 DEF FoundByPage, OverwrittenByYear
    <2>4. QED
        BY <2>2, <2>3
<1>5. QED
    BY <1>4 DEF HoursKept

\* Steps of the page and the server.
LEMMA PageStepUsage ==
    ASSUME UsageInv, PageStep
    PROVE  UsageInv' /\ HoursKept
<1>1. TypedInv /\ TableInv /\ PageInv /\ PlanInv /\ ScriptInv
    BY DEF UsageInv
<1>2. TypedInv'
    <2>1. [Next]_vars
        BY DEF Next
    <2>2. QED
        BY <1>1, <2>1, TypedKeeps
<1>3. plan' = plan /\ script' = script /\ PlanInv'
    <2>1. plan' = plan /\ script' = script
        BY DEF PageStep, OpenTab, TimerFires, Blur, Type, BlurDated, TypeDated, ServerLists,
               ServerSaves, Lost, PageShows, PageSaved, PageSavedDated
    <2>2. QED
        BY <1>1, <2>1, PlanKept
<1>4. ASSUME NEW m \in net, ServerSaves(m) PROVE TableInv' /\ PageInv' /\ ScriptInv' /\ HoursKept
    BY <1>1, <1>4, ServerSavesTable, AnswersPage, SavesLeaveFound, SavesKeepHours
<1>5. CASE UNCHANGED <<rows, now>>
    <2>1. TableInv' /\ ScriptInv' /\ HoursKept
        BY <1>1, <1>3, <1>5, TableKept, FoundKept, NothingLeaves
    <2>2. PageInv'
        <3>1. ASSUME NEW cell \in PageCells, TimerFires(cell) \/ Blur(cell) PROVE PageInv'
            BY <1>1, <3>1, SavingPage
        <3>2. ASSUME NEW cell \in PageCells, NEW in \in Typed, Type(cell, in[1], in[2]) PROVE PageInv'
            BY <1>1, <3>2, TypingPage
        <3>3. ASSUME NEW d \in DOMAIN dated, BlurDated(d) PROVE PageInv'
            BY <1>1, <3>3, DatedPage
        <3>4. ASSUME NEW d \in DOMAIN dated, NEW in \in Typed, TypeDated(d, in[1], in[2]) PROVE PageInv'
            BY <1>1, <3>4, TypingDatedPage
        <3>5. ASSUME NEW m \in net, ServerLists(m) \/ ServerSaves(m) \/ Lost(m) \/ PageShows(m)
                                        \/ PageSaved(m) \/ PageSavedDated(m)
              PROVE  PageInv'
            BY <1>1, <3>5, AnswersPage
        <3>6. ASSUME NEW y \in Years, OpenTab(y) PROVE PageInv'
            BY <1>1, <3>6, OpenTabPage
        <3>7. QED
            BY <3>1, <3>2, <3>3, <3>4, <3>5, <3>6 DEF PageStep
    <2>3. QED
        BY <1>2, <1>3, <2>1, <2>2 DEF UsageInv
<1>6. \/ UNCHANGED <<rows, now>>
      \/ \E m \in net : ServerSaves(m)
    BY DEF PageStep, OpenTab, TimerFires, Blur, Type, BlurDated, TypeDated, ServerLists,
           Lost, PageShows, PageSaved, PageSavedDated
<1>7. QED
    BY <1>1, <1>2, <1>3, <1>4, <1>5, <1>6 DEF UsageInv

\* The page rests.
LEMMA PageRests ==
    ASSUME PageInv, UNCHANGED <<pageVars, net>>
    PROVE  PageInv'
BY NetPage DEF PageInv, pageVars

\* A script begins.
LEMMA BeginsUsage ==
    ASSUME TableInv, PageInv, PlanInv, NEW kind, NEW cells, AreCells(kind, cells),
           ScriptBegins(kind, cells)
    PROVE  TableInv' /\ PageInv' /\ PlanInv' /\ ScriptInv' /\ HoursKept
<1>1. rows' = rows /\ now' = now + 1 /\ now \in Nat
    BY DEF ScriptBegins, TableInv
<1>2. TableInv'
    BY <1>1 DEF TableInv, Row, Finds
<1>3. PageInv' /\ PlanInv'
    BY PageRests, PlanKept DEF ScriptBegins
<1>4. QED
    BY <1>1, <1>2, <1>3, BeginsFound, NothingLeaves

\* A script finds the rows of a cell, commits or fails.
LEMMA ScriptStepUsage ==
    ASSUME TableInv, PageInv, PlanInv, ScriptInv, ScriptStep
    PROVE  TableInv' /\ PageInv' /\ PlanInv' /\ ScriptInv' /\ HoursKept
<1>1. PageInv' /\ PlanInv'
    BY PageRests, PlanKept DEF ScriptStep, ScriptTakes, ScriptCommits, ScriptFails
<1>2. ASSUME script # NoScript, NEW k \in DOMAIN script.cells, ScriptTakes(k)
      PROVE  TableInv' /\ ScriptInv' /\ HoursKept
    BY <1>2, TableKept, TakesFound, NothingLeaves DEF ScriptTakes
<1>3. CASE ScriptCommits
    <2>1. ScriptInv'
        BY <1>3 DEF ScriptCommits, ScriptInv
    <2>2. \A r \in rows \ rows' : TakenByScript(r)
        BY <1>3 DEF ScriptCommits, Written, TakenByScript, Locked
    <2>3. QED
        BY <1>1, <1>3, <2>1, <2>2, CommitTable DEF HoursKept
<1>4. CASE ScriptFails
    <2>1. ScriptInv'
        BY <1>4 DEF ScriptFails, ScriptInv
    <2>2. QED
        BY <1>1, <1>4, <2>1, TableKept, NothingLeaves DEF ScriptFails
<1>5. QED
    BY <1>1, <1>2, <1>3, <1>4 DEF ScriptStep

\* Every step keeps the invariant, and hours in their rows.
LEMMA UsageKeeps == UsageInv /\ [Next]_vars => UsageInv' /\ HoursKept
<1> SUFFICES ASSUME UsageInv, [Next]_vars PROVE UsageInv' /\ HoursKept
    OBVIOUS
<1>1. TypedInv /\ TableInv /\ PageInv /\ PlanInv /\ ScriptInv
    BY DEF UsageInv
<1>2. TypedInv'
    BY <1>1, TypedKeeps
<1>3. CASE PageStep
    BY <1>3, PageStepUsage
<1>4. ASSUME NEW need \in Needs, Prepare(need) PROVE UsageInv' /\ HoursKept
    <2>1. TableInv' /\ rows \subseteq rows'
        BY <1>1, <1>4, PreparedTable
    <2>2. PlanInv'
        BY <1>4, <2>1, PreparedPlan
    <2>3. PageInv'
        BY <1>1, <1>4, PageRests DEF Prepare
    <2>4. ScriptInv'
        BY <1>1, <1>4, PreparedLeavesFound
    <2>5. QED
        BY <1>2, <2>1, <2>2, <2>3, <2>4, NothingLeaves DEF UsageInv
<1>5. CASE Booking
    <2>1. TableInv' /\ \A r \in rows \ rows' : \E q \in rows' : Finds(r, q) /\ q.used >= r.used
        BY <1>1, <1>5, BookedTable
    <2>2. PlanInv'
        BY <1>5 DEF Booking, PlanInv
    <2>3. PageInv'
        BY <1>1, <1>5, PageRests DEF Booking
    <2>4. ScriptInv'
        BY <1>1, <1>5, BookedLeavesFound
    <2>5. QED
        BY <1>2, <2>1, <2>2, <2>3, <2>4 DEF UsageInv, HoursKept, KeepsItsHours, SameKey
<1>6. ASSUME NEW book \in Workbooks, Import(book) PROVE UsageInv' /\ HoursKept
    <2>1. AreCells("import", ImportCells[book])
        BY ImportedCells DEF AreCells
    <2>2. QED
        BY <1>1, <1>2, <1>6, <2>1, BeginsUsage DEF Import, UsageInv
<1>7. ASSUME NEW sheet \in Sheets, Reconcile(sheet) PROVE UsageInv' /\ HoursKept
    <2>1. AreCells("reconcile", SheetCells[sheet])
        BY ReconciledCellsAre DEF AreCells
    <2>2. QED
        BY <1>1, <1>2, <1>7, <2>1, BeginsUsage DEF Reconcile, UsageInv
<1>8. CASE ScriptStep
    BY <1>1, <1>2, <1>8, ScriptStepUsage DEF UsageInv
<1>9. CASE UNCHANGED vars
    <2>1. TableInv' /\ ScriptInv' /\ HoursKept
        BY <1>1, <1>9, TableKept, FoundKept, NothingLeaves DEF vars
    <2>2. PlanInv' /\ PageInv'
        BY <1>1, <1>9, PageRests, PlanKept DEF vars
    <2>3. QED
        BY <1>2, <2>1, <2>2 DEF UsageInv
<1>10. QED
    BY <1>3, <1>4, <1>5, <1>6, <1>7, <1>8, <1>9 DEF Next

\* The invariant.
LEMMA UsageHolds == Spec => []UsageInv
<1>1. UsageInv /\ [Next]_vars => UsageInv'
    BY UsageKeeps
<1>2. QED
    BY <1>1, InitUsage, PTL DEF Spec

-----------------------------------------------------------------------------
(* Theorems. *)

\* The table holds what it admits and one row of every dated allowance,
\* whoever writes it: page, drafts, sends or scripts.
THEOREM TableIsSound == Spec => []UsageTypeOK
<1>1. UsageInv => UsageTypeOK
    BY DEF UsageInv, TableInv, PageInv, ScriptInv, FoundFor, UsageTypeOK
<1>2. QED
    BY <1>1, UsageHolds, PTL

\* What the draft saw fits the row it is booked in, as long as that row is
\* the only one and has the hours the draft saw.
LEMMA PlanIsBookable == UsageInv => PreparedIsBookable
<1> SUFFICES ASSUME UsageInv, plan # NoNeed, NEW r \in rows,
                    { q \in rows : Finds(plan.key, q) } = {r}, HoursOf(r) = plan.seen
             PROVE  r \in BookedIn(plan) /\ Fits(plan, r)
    BY DEF PreparedIsBookable
<1>1. r.at <= r.at
    BY DEF UsageInv, TableInv, Row
<1>2. r \in BookedIn(plan)
    BY <1>1 DEF BookedIn, FoundBySend, Newest
<1>3. r.max = plan.seen.max /\ r.used = plan.seen.used
    BY DEF HoursOf, Hours
<1>4. Fits(plan, r)
    BY <1>3 DEF Fits, UsageInv, PlanInv
<1>5. QED
    BY <1>2, <1>4

\* A draft covered by an allowance can be sent, whatever a page has saved into
\* the row that is left with the hours the draft saw.
THEOREM PreparedDraftsBook == Spec => []PreparedIsBookable
BY PlanIsBookable, UsageHolds, PTL

\* Whatever else is written beside it, a script that commits leaves one row
\* per cell it knows, with the hours of its sources, unless a row was added
\* where it had looked already; run again it changes nothing.
THEOREM ScriptsLeaveOneRow == Spec => ScriptsRestate
<1> DEFINE Step == ScriptCommits /\ Undisturbed =>
                     /\ Restates(script.kind, script.cells, rows')
                     /\ Contents(WrittenAgain(script.kind, script.cells, rows', now + 1))
                            = Contents(rows')
<1>1. UsageInv /\ [Next]_vars => [Step]_vars
    BY CommitRestates DEF UsageInv
<1>2. Spec => [][Step]_vars
    BY <1>1, UsageHolds, PTL DEF Spec
<1>3. QED
    BY <1>2 DEF ScriptsRestate

\* Drafts and bookings take no used hours back: they go only by a save of
\* their own cell, by one of the calendar cell of their year, or by a script
\* that found them.
THEOREM UsedHoursStay == Spec => HoursLeaveByHand
<1>1. UsageInv /\ [Next]_vars => [HoursKept]_vars
    BY UsageKeeps
<1>2. Spec => [][HoursKept]_vars
    BY <1>1, UsageHolds, PTL DEF Spec
<1>3. QED
    BY <1>2 DEF HoursLeaveByHand, HoursKept

=============================================================================
