--------------------------- MODULE DocumentStatus ---------------------------
(***************************************************************************)
(* How the rows of sent documents follow their standing at Xero, and the   *)
(* alert when they stop following: syncXeroDocumentStatuses and its timer  *)
(* in server/billingQuoteRepository.js, the runs and incidents of          *)
(* server/operationsRepository.js.                                         *)
(*                                                                         *)
(* Polls of the timer, which does not wait for its last one, and a user's  *)
(* request go through the documents at the same time; each waits for Xero, *)
(* then for the database, and in the end for the table of runs.  What a    *)
(* document is paid goes with its standing.                                *)
(***************************************************************************)
EXTENDS Integers, Sequences, FiniteSets, FiniteSetsExt

CONSTANTS
    Timers, Page,   \* polls: as many of the timer's as overlap, a user's
    Cycles          \* scheduled runs an alert looks back on

ASSUME PollerAssumption == Page \notin Timers
ASSUME CyclesAssumption == Cycles \in Nat \ {0}

VARIABLES
    interval,     \* whether an interval is configured, so that the timer polls
    shown,        \* xero_quotes.status of each live document
    atXero,       \* how it stands there
    link,         \* what a request to Xero comes to
    polls,        \* the polls
    cycles,       \* status of the latest runs recorded as scheduled
    incident,     \* whether the incident of the poller is open
    excused,      \* history: since the last run without success was recorded
                  \* (or its poll opened the incident, if that came first),
                  \* somebody resolved the incident, or an exit or the database
                  \* kept it from being opened
    left          \* bounds: how often each thing may still happen

statusVars == <<interval, shown, atXero, link, polls, cycles, incident, excused, left>>

Pollers == Timers \cup {Page}

\* Where a document may go from where it stands.
Onward(standing) ==
    CASE standing = "DRAFT" -> {"AUTHORISED"}
      [] standing = "AUTHORISED" -> {"PAID", "VOIDED"}
      [] OTHER -> {}

Idle == [step |-> "idle"]

Becomes(p, state) == polls' = [polls EXCEPT ![p] = state]

Spend(what) ==
    /\ left[what] > 0
    /\ left' = [left EXCEPT ![what] = @ - 1]

-----------------------------------------------------------------------------
(* One poll. *)

Begin(p, docs, scheduled) ==
    /\ polls[p] = Idle
    /\ Becomes(p, [step |-> "polling", scheduled |-> scheduled,
                   todo |-> docs, failed |-> 0, total |-> Cardinality(docs)])
    /\ UNCHANGED <<interval, shown, atXero, link, cycles, incident, excused>>

\* Mutation of Listed: what is no draft any more is not asked about.
ListedDrafts == { d \in DOMAIN shown : shown[d] = "DRAFT" }

\* The documents with an id of Xero's that were neither mocked nor only prepared.
Listed == DOMAIN shown

\* startXeroStatusPoller: setInterval waits for nobody.
TimerPolls ==
    /\ interval
    /\ \E p \in Timers : Begin(p, Listed, TRUE)
    /\ UNCHANGED left

\* A request for all documents is recorded as scheduled, too.
PagePolls ==
    /\ Spend("requests")
    /\ \/ Begin(Page, Listed, TRUE)
       \/ \E d \in Listed : Begin(Page, {d}, FALSE)

\* A document Xero does not answer about is skipped or has failed.
Fetch(p, d) ==
    /\ polls[p].step = "polling"
    /\ d \in polls[p].todo
    /\ LET rest == [polls[p] EXCEPT !.todo = @ \ {d}] IN
       \/ /\ link = "live"
          /\ Becomes(p, [step |-> "fetched", doc |-> d, standing |-> atXero[d], poll |-> rest])
       \/ link = "disconnected" /\ Becomes(p, rest)
       \/ link = "down" /\ Becomes(p, [rest EXCEPT !.failed = @ + 1])
    /\ UNCHANGED <<interval, shown, atXero, link, cycles, incident, excused, left>>

StoreStatus(p) ==
    /\ polls[p].step = "fetched"
    /\ shown' = [shown EXCEPT ![polls[p].doc] = polls[p].standing]
    /\ Becomes(p, polls[p].poll)
    /\ UNCHANGED <<interval, atXero, link, cycles, incident, excused, left>>

\* Newest first, as many as are looked back on.
Recorded(status) == SubSeq(<<status>> \o cycles, 1, Min({Cycles, Len(cycles) + 1}))

Outcome(poll) ==
    IF poll.failed = 0 THEN "complete"
    ELSE IF poll.failed = poll.total THEN "failed" ELSE "warning"

\* recordOperationRun.  One document alone does not count as a cycle.
RecordRun(p) ==
    /\ polls[p].step = "polling"
    /\ polls[p].todo = {}
    /\ cycles' = IF polls[p].scheduled THEN Recorded(Outcome(polls[p])) ELSE cycles
    /\ excused' = (excused /\ ~(polls[p].scheduled /\ polls[p].failed > 0))
    /\ Becomes(p, IF polls[p].failed = 0 THEN [step |-> "resolving"]
                  ELSE IF polls[p].scheduled THEN [step |-> "looking"] ELSE Idle)
    /\ UNCHANGED <<interval, shown, atXero, link, incident, left>>

\* resolveAlertIncident, whoever polled and however little.
Resolve(p) ==
    /\ polls[p].step = "resolving"
    /\ incident' = FALSE
    /\ excused' = (excused \/ incident)
    /\ Becomes(p, Idle)
    /\ UNCHANGED <<interval, shown, atXero, link, cycles, left>>

\* Mutation of NoneComplete: runs in which some documents came do not count.
AllFailed(runs) == Len(runs) = Cycles /\ \A i \in DOMAIN runs : runs[i] = "failed"

NoneComplete(runs) == Len(runs) = Cycles /\ \A i \in DOMAIN runs : runs[i] # "complete"

LookBack(p) ==
    /\ polls[p].step = "looking"
    /\ Becomes(p, IF NoneComplete(cycles) THEN [step |-> "opening"] ELSE Idle)
    /\ UNCHANGED <<interval, shown, atXero, link, cycles, incident, excused, left>>

\* openAlertIncident
OpenIncident(p) ==
    /\ polls[p].step = "opening"
    /\ incident' = TRUE
    /\ Becomes(p, Idle)
    /\ UNCHANGED <<interval, shown, atXero, link, cycles, excused, left>>

\* The database refuses a poll: its list of documents, or what it stores of
\* one.  A page gets an error; for the timer two calls go out at once.
PollBreaks(p) ==
    /\ polls[p].step \in {"polling", "fetched"}
    /\ Spend("breaks")
    /\ Becomes(p, IF p \in Timers THEN [step |-> "alerting", calls |-> {"run", "incident"}] ELSE Idle)
    /\ UNCHANGED <<interval, shown, atXero, link, cycles, incident, excused>>

\* What a poll is yet to tell.
Calls(p) == IF polls[p].step = "alerting" THEN polls[p].calls ELSE {}

WithoutCall(p, call) ==
    Becomes(p, IF Calls(p) = {call} THEN Idle
               ELSE [step |-> "alerting", calls |-> Calls(p) \ {call}])

\* recordOperationRun of the failure
FailureRecorded(p) ==
    /\ "run" \in Calls(p)
    /\ cycles' = Recorded("failed")
    /\ excused' = ("incident" \notin Calls(p) /\ (excused \/ ~incident))
    /\ WithoutCall(p, "run")
    /\ UNCHANGED <<interval, shown, atXero, link, incident, left>>

\* openAlertIncident of the failure
FailureAlerted(p) ==
    /\ "incident" \in Calls(p)
    /\ incident' = TRUE
    /\ WithoutCall(p, "incident")
    /\ UNCHANGED <<interval, shown, atXero, link, cycles, excused, left>>

\* Whether a poll may still open the incident.
WillTell(p) == polls[p].step \in {"looking", "opening"} \/ "incident" \in Calls(p)

\* The database refuses what a poll tells at its end, and nobody is told.
CallRefused(p) ==
    /\ Spend("breaks")
    /\ \/ polls[p].step \in {"resolving", "looking", "opening"} /\ Becomes(p, Idle)
       \/ \E call \in Calls(p) : WithoutCall(p, call)
    /\ excused' = (excused \/ WillTell(p))
    /\ UNCHANGED <<interval, shown, atXero, link, cycles, incident>>

Proceed(p) ==
    \/ \E d \in DOMAIN shown : Fetch(p, d)
    \/ StoreStatus(p) \/ RecordRun(p) \/ Resolve(p) \/ LookBack(p) \/ OpenIncident(p)
    \/ FailureRecorded(p) \/ FailureAlerted(p)

-----------------------------------------------------------------------------
(* Around the polls. *)

\* The send has stored a document as Xero answered.
Stored(d) ==
    /\ shown' = [e \in DOMAIN shown \cup {d} |-> IF e = d THEN "DRAFT" ELSE shown[e]]
    /\ atXero' = [e \in DOMAIN atXero \cup {d} |-> IF e = d THEN "DRAFT" ELSE atXero[e]]
    /\ UNCHANGED <<interval, link, polls, cycles, incident, excused, left>>

\* At Xero somebody approves the document, and pays or voids it.
XeroMoves(d) ==
    /\ Spend("moves")
    /\ \E standing \in Onward(atXero[d]) : atXero' = [atXero EXCEPT ![d] = standing]
    /\ UNCHANGED <<interval, shown, link, polls, cycles, incident, excused>>

LinkBreaks ==
    /\ link = "live"
    /\ Spend("outages")
    /\ link' \in {"down", "disconnected"}
    /\ UNCHANGED <<interval, shown, atXero, polls, cycles, incident, excused>>

LinkMends ==
    /\ link # "live"
    /\ link' = "live"
    /\ UNCHANGED <<interval, shown, atXero, polls, cycles, incident, excused, left>>

Exit ==
    /\ Spend("exits")
    /\ polls' = [p \in Pollers |-> Idle]
    /\ excused' = (excused \/ \E p \in Pollers : WillTell(p))
    /\ UNCHANGED <<interval, shown, atXero, link, cycles, incident>>

StatusInit(documents) ==
    /\ shown = documents
    /\ atXero = documents
    /\ link = "live"
    /\ polls = [p \in Pollers |-> Idle]
    /\ cycles = <<>>
    /\ incident = FALSE
    /\ excused = FALSE

StatusStep ==
    \/ TimerPolls \/ PagePolls
    \/ \E p \in Pollers : Proceed(p) \/ PollBreaks(p) \/ CallRefused(p)
    \/ \E d \in DOMAIN atXero : XeroMoves(d)
    \/ LinkBreaks \/ LinkMends \/ Exit

\* The timer goes on, no request waits for ever.  An interval is at least a
\* minute, a request to Xero or the database ends or is refused.
StatusFairness ==
    /\ WF_statusVars(TimerPolls)
    /\ \A p \in Pollers : WF_statusVars(Proceed(p))

-----------------------------------------------------------------------------
(* Properties. *)

\* Once no poll is about to say so, as many scheduled runs without success as
\* an alert takes have left an incident, unless it was dealt with: whatever
\* polls overlap and however their reads of the runs and their writes of the
\* incident mix (billingQuoteRepository.js:546).
AlertAfterThree ==
    /\ Len(cycles) = Cycles /\ \A i \in DOMAIN cycles : cycles[i] # "complete"
    /\ \A p \in Pollers : ~WillTell(p)
    => incident \/ excused

\* If Xero answers from some time on, every document is in the end shown as it
\* stands, though a poll may store what another has overtaken
\* (billingQuoteRepository.js:474).
StatusCatchesUp ==
    interval /\ <>[](link = "live") => <>[](shown = atXero)

=============================================================================
