--------------------------- MODULE ReportingProofs ---------------------------
(***************************************************************************)
(* The alert about documents that are not followed any more, for any       *)
(* number of runs it looks back on and of polls that overlap; and, for any *)
(* entries, drafts, allowance and periods, that the send of an invoice     *)
(* accounts for the hours of its period.  The sums are SumTheorems'.       *)
(***************************************************************************)
EXTENDS Reporting, SumTheorems

\* Runs that call for an alert have one, or somebody about to open it.
AlertInv ==
    /\ cycles \in Seq({"complete", "warning", "failed"})
    /\ polls = [p \in Pollers |-> polls[p]]
    /\ NoneComplete(cycles) => incident \/ excused \/ \E p \in Pollers : WillTell(p)

\* A poll becomes what its step makes it, the other stays as it is.
LEMMA PollSteps ==
    ASSUME AlertInv, NEW p \in Pollers, NEW state, Becomes(p, state)
    PROVE  /\ polls' = [q \in Pollers |-> polls'[q]]
           /\ polls'[p] = state
           /\ \A q \in Pollers : q # p => polls'[q] = polls[q]
BY DEF AlertInv, Becomes

\* A poll goes on without having anything to tell.
LEMMA QuietStep ==
    ASSUME AlertInv, NEW p \in Pollers, NEW state, Becomes(p, state),
           ~WillTell(p), UNCHANGED <<cycles, incident, excused>>
    PROVE  AlertInv'
BY PollSteps DEF AlertInv, WillTell, Calls, NoneComplete

\* The latest run is the first that an alert looks at.
LEMMA LatestCounts ==
    ASSUME AlertInv, NEW status \in {"complete", "warning", "failed"}
    PROVE  /\ Recorded(status) \in Seq({"complete", "warning", "failed"})
           /\ NoneComplete(Recorded(status)) => status # "complete"
<1> DEFINE runs == <<status>> \o cycles
           n == Min({Cycles, Len(cycles) + 1})
<1>1. /\ runs \in Seq({"complete", "warning", "failed"})
      /\ Len(runs) = Len(cycles) + 1 /\ runs[1] = status /\ Len(cycles) \in Nat
    BY DEF AlertInv
<1>2. n \in Nat /\ 1 <= n /\ n <= Len(runs)
    <2>1. Cycles \in Int /\ Cycles >= 1 /\ Len(cycles) + 1 \in Int /\ Len(cycles) + 1 >= 1
        BY <1>1, CyclesAssumption
    <2>2. n \in {Cycles, Len(cycles) + 1} /\ n <= Len(cycles) + 1
        BY <2>1, SmallerOf
    <2>3. QED
        BY <1>1, <2>1, <2>2
<1>3. /\ Recorded(status) = SubSeq(runs, 1, n)
      /\ SubSeq(runs, 1, n) \in Seq({"complete", "warning", "failed"})
      /\ 1 \in DOMAIN SubSeq(runs, 1, n) /\ SubSeq(runs, 1, n)[1] = status
    <2>1. Recorded(status) = SubSeq(runs, 1, n)
        BY DEF Recorded
    <2> HIDE DEF runs, n
    <2>2. QED
        BY <1>1, <1>2, <2>1
<1>4. QED
    BY <1>3 DEF NoneComplete

\* Nothing has failed at first.
LEMMA InitAlert == Init => AlertInv
BY CyclesAssumption DEF Init, StatusInit, AlertInv, NoneComplete

\* Who records a run without success is about to look.
LEMMA RecordRunStep ==
    ASSUME AlertInv, NEW p \in Pollers, RecordRun(p)
    PROVE  AlertInv'
<1> DEFINE poll == polls[p]
           outcome == Outcome(poll)
<1>1. /\ poll.step = "polling" /\ incident' = incident
      /\ cycles' = IF poll.scheduled THEN Recorded(outcome) ELSE cycles
      /\ excused' = (excused /\ ~(poll.scheduled /\ poll.failed > 0))
      /\ Becomes(p, IF poll.failed = 0 THEN [step |-> "resolving"]
                    ELSE IF poll.scheduled THEN [step |-> "looking"] ELSE Idle)
    BY DEF RecordRun
<1>2. outcome \in {"complete", "warning", "failed"}
    BY DEF Outcome
<1>3. /\ polls' = [q \in Pollers |-> polls'[q]]
      /\ polls'[p] = IF poll.failed = 0 THEN [step |-> "resolving"]
                     ELSE IF poll.scheduled THEN [step |-> "looking"] ELSE Idle
      /\ \A q \in Pollers : q # p => polls'[q] = polls[q]
    BY <1>1, PollSteps
<1>4. cycles' \in Seq({"complete", "warning", "failed"})
    BY <1>1, <1>2, LatestCounts DEF AlertInv
<1>5. CASE poll.scheduled /\ poll.failed = 0
    <2>1. outcome = "complete"
        BY <1>5 DEF Outcome
    <2>2. ~NoneComplete(cycles')
        BY <1>1, <1>2, <1>5, <2>1, LatestCounts
    <2>3. QED
        BY <1>3, <1>4, <2>2 DEF AlertInv, NoneComplete
<1>6. CASE poll.scheduled /\ poll.failed # 0
    <2>1. WillTell(p)'
        BY <1>3, <1>6 DEF WillTell, Calls
    <2>2. QED
        BY <1>3, <1>4, <2>1 DEF AlertInv
<1>7. CASE ~poll.scheduled
    <2>1. cycles' = cycles /\ (excused => excused') /\ ~WillTell(p)
        BY <1>1, <1>7 DEF WillTell, Calls
    <2>2. QED
        BY <1>1, <1>3, <1>4, <2>1 DEF AlertInv, WillTell, Calls, NoneComplete
<1>8. QED
    BY <1>5, <1>6, <1>7

\* Who looks and finds an alert called for is about to open it.
LEMMA LookBackStep ==
    ASSUME AlertInv, NEW p \in Pollers, LookBack(p)
    PROVE  AlertInv'
<1>1. /\ polls[p].step = "looking" /\ UNCHANGED <<cycles, incident, excused>>
      /\ Becomes(p, IF NoneComplete(cycles) THEN [step |-> "opening"] ELSE Idle)
    BY DEF LookBack
<1>2. /\ polls' = [q \in Pollers |-> polls'[q]]
      /\ polls'[p] = IF NoneComplete(cycles) THEN [step |-> "opening"] ELSE Idle
    BY <1>1, PollSteps
<1>3. NoneComplete(cycles) => WillTell(p)'
    BY <1>2 DEF WillTell
<1>4. QED
    BY <1>1, <1>2, <1>3 DEF AlertInv, NoneComplete

\* A poll makes one of its calls.
LEMMA CallMade ==
    ASSUME AlertInv, NEW p \in Pollers, NEW call \in Calls(p), WithoutCall(p, call)
    PROVE  /\ polls' = [q \in Pollers |-> polls'[q]]
           /\ "incident" \in Calls(p) /\ call # "incident" => WillTell(p)'
           /\ \A q \in Pollers : q # p => polls'[q] = polls[q]
<1> DEFINE state == IF Calls(p) = {call} THEN Idle
                    ELSE [step |-> "alerting", calls |-> Calls(p) \ {call}]
<1>1. Becomes(p, state)
    BY DEF WithoutCall
<1>2. "incident" \in Calls(p) /\ call # "incident" =>
         /\ state.step = "alerting" /\ "incident" \in state.calls
    OBVIOUS
<1> HIDE DEF state
<1>3. /\ polls' = [q \in Pollers |-> polls'[q]] /\ polls'[p] = state
      /\ \A q \in Pollers : q # p => polls'[q] = polls[q]
    BY <1>1, PollSteps
<1>4. "incident" \in Calls(p) /\ call # "incident" => WillTell(p)'
    BY <1>2, <1>3 DEF WillTell, Calls
<1>5. QED
    BY <1>3, <1>4

\* A failure is recorded by a poll that is yet to alert, or after its alert,
\* and then the incident is open or its absence excused.
LEMMA FailureRecordedStep ==
    ASSUME AlertInv, NEW p \in Pollers, FailureRecorded(p)
    PROVE  AlertInv'
<1>1. /\ "run" \in Calls(p) /\ WithoutCall(p, "run") /\ incident' = incident
      /\ cycles' = Recorded("failed")
      /\ excused' = ("incident" \notin Calls(p) /\ (excused \/ ~incident))
    BY DEF FailureRecorded
<1>2. cycles' \in Seq({"complete", "warning", "failed"})
    BY <1>1, LatestCounts
<1>3. /\ polls' = [q \in Pollers |-> polls'[q]]
      /\ "incident" \in Calls(p) => WillTell(p)'
    BY <1>1, CallMade
<1>4. QED
    BY <1>1, <1>2, <1>3 DEF AlertInv

\* A refused call leaves the incident excused if it might have opened it.
LEMMA CallRefusedStep ==
    ASSUME AlertInv, NEW p \in Pollers, CallRefused(p)
    PROVE  AlertInv'
<1>1. /\ excused' = (excused \/ WillTell(p)) /\ UNCHANGED <<cycles, incident>>
      /\ \/ Becomes(p, Idle)
         \/ \E call \in Calls(p) : WithoutCall(p, call)
    BY DEF CallRefused
<1>2. /\ polls' = [q \in Pollers |-> polls'[q]]
      /\ \A q \in Pollers : q # p => polls'[q] = polls[q]
    BY <1>1, PollSteps, CallMade
<1>3. QED
    BY <1>1, <1>2 DEF AlertInv, WillTell, Calls, NoneComplete

\* The other steps of a poll.
LEMMA OtherPollSteps ==
    ASSUME AlertInv, NEW p \in Pollers,
           \/ \E d \in DOMAIN shown : Fetch(p, d)
           \/ StoreStatus(p) \/ Resolve(p) \/ OpenIncident(p) \/ FailureAlerted(p) \/ PollBreaks(p)
    PROVE  AlertInv'
<1>1. ASSUME NEW d \in DOMAIN shown, Fetch(p, d) PROVE AlertInv'
    BY <1>1, QuietStep DEF Fetch, WillTell, Calls
<1>2. CASE StoreStatus(p)
    BY <1>2, QuietStep DEF StoreStatus, WillTell, Calls
<1>3. CASE Resolve(p)
    BY <1>3, PollSteps DEF Resolve, AlertInv, WillTell, Calls, NoneComplete
<1>4. CASE OpenIncident(p)
    BY <1>4, PollSteps DEF OpenIncident, AlertInv
<1>5. CASE FailureAlerted(p)
    BY <1>5, CallMade DEF FailureAlerted, AlertInv
<1>6. CASE PollBreaks(p)
    BY <1>6, QuietStep DEF PollBreaks, WillTell, Calls
<1>7. QED
    BY <1>1, <1>2, <1>3, <1>4, <1>5, <1>6

\* A poll that begins was idle.
LEMMA BeginStep ==
    ASSUME AlertInv, TimerPolls \/ PagePolls
    PROVE  AlertInv'
<1>1. ASSUME NEW p \in Pollers, NEW docs, NEW scheduled, Begin(p, docs, scheduled) PROVE AlertInv'
    <2>1. ~WillTell(p)
        BY <1>1 DEF Begin, Idle, WillTell, Calls
    <2>2. QED
        BY <1>1, <2>1, QuietStep DEF Begin
<1>2. Timers \subseteq Pollers /\ Page \in Pollers
    BY DEF Pollers
<1>3. QED
    BY <1>1, <1>2 DEF TimerPolls, PagePolls

\* Every step keeps alerts coming.
LEMMA AlertKeeps == AlertInv /\ [Next]_vars => AlertInv'
<1> SUFFICES ASSUME AlertInv, [Next]_vars PROVE AlertInv'
    OBVIOUS
<1>1. CASE UNCHANGED <<polls, cycles, incident, excused>>
    BY <1>1 DEF AlertInv, NoneComplete, WillTell, Calls
<1>2. CASE TimerPolls \/ PagePolls
    BY <1>2, BeginStep
<1>3. ASSUME NEW p \in Pollers, Proceed(p) \/ PollBreaks(p) \/ CallRefused(p) PROVE AlertInv'
    BY <1>3, RecordRunStep, LookBackStep, FailureRecordedStep, CallRefusedStep, OtherPollSteps DEF Proceed
<1>4. CASE Exit
    <2>1. /\ \A p \in Pollers : polls'[p] = Idle
          /\ (\E p \in Pollers : WillTell(p)) => excused'
          /\ excused => excused'
          /\ UNCHANGED <<cycles, incident>>
          /\ polls' = [p \in Pollers |-> polls'[p]]
        BY <1>4 DEF Exit
    <2>2. QED
        BY <2>1 DEF AlertInv, NoneComplete
<1>5. ASSUME \/ \E d \in Drafts : \E period \in Periods : Generate(d, period)
             \/ \E d \in Drafts : EditDraft(d)
             \/ \E d \in Drafts : \E type \in {"invoice", "quote"} : \E live \in BOOLEAN : Send(d, type, live)
             \/ \E e \in Entries : Resync(e)
             \/ \E d \in DOMAIN atXero : XeroMoves(d)
             \/ LinkBreaks \/ LinkMends \/ UNCHANGED vars
      PROVE  UNCHANGED <<polls, cycles, incident, excused>>
    BY <1>5 DEF Generate, EditDraft, Send, Stored, Resync, XeroMoves, LinkBreaks, LinkMends,
                vars, statusVars
<1>6. QED
    BY <1>1, <1>2, <1>3, <1>4, <1>5 DEF Next, StatusStep

\* However many runs an alert looks back on, whatever polls overlap and however
\* they end: once nobody is about to tell, runs that call for an alert have
\* one, unless it was resolved, or an exit or the database kept it from opening.
THEOREM AlertComes == Spec => []AlertAfterThree
<1>1. AlertInv => AlertAfterThree
    BY DEF AlertInv, AlertAfterThree, NoneComplete
<1>2. QED
    BY <1>1, InitAlert, AlertKeeps, PTL DEF Spec

-----------------------------------------------------------------------------
(* Sums of hours. *)

\* The sum of a function is the one over its domain.
LEMMA SumIsOver ==
    ASSUME NEW f, NEW S, DOMAIN f = S
    PROVE  Sum(f) = SumFunctionOnSet(f, S)
BY DEF Sum, SumFunction

\* What a function of naturals, or integers, comes to is one.
LEMMA SumsOfNumbers ==
    ASSUME NEW f, IsFiniteSet(DOMAIN f), NEW N \in {Nat, Int}, \A x \in DOMAIN f : f[x] \in N
    PROVE  Sum(f) \in N
BY SumType, SumIsOver

\* Two functions that agree come to the same.
LEMMA SumsAgree ==
    ASSUME NEW f, NEW h, IsFiniteSet(DOMAIN f), DOMAIN f = DOMAIN h,
           \A x \in DOMAIN f : f[x] = h[x]
    PROVE  Sum(f) = Sum(h)
BY SumAgrees, SumIsOver

\* What is more than nothing somewhere comes to more than nothing.
LEMMA SumPositive ==
    ASSUME NEW f, IsFiniteSet(DOMAIN f), \A x \in DOMAIN f : f[x] \in Nat \ {0},
           NEW y \in DOMAIN f
    PROVE  Sum(f) \in Nat \ {0} /\ f[y] <= Sum(f)
<1> DEFINE S == DOMAIN f
           rest == SumFunctionOnSet(f, S \ {y})
<1>1. IsFiniteSet(S \ {y}) /\ \A x \in S \ {y} : f[x] \in Nat
    BY FS_Subset
<1>2. rest \in Nat
    BY <1>1, SumType
<1>3. SumFunctionOnSet(f, S) = f[y] + rest
    BY SumTakesOut
<1>4. Sum(f) = SumFunctionOnSet(f, S)
    BY SumIsOver
<1> HIDE DEF rest
<1>5. QED
    BY <1>2, <1>3, <1>4

-----------------------------------------------------------------------------
(* What drafts, documents and write-offs look like. *)

\* Hours of some entries.
IsHours(f, N) == DOMAIN f \subseteq Entries /\ f \in [DOMAIN f -> N]

IsLine(l) ==
    /\ l = [hours |-> l.hours, covered |-> l.covered, priced |-> l.priced, quantity |-> l.quantity]
    /\ IsHours(l.hours, Nat \ {0}) /\ l.quantity \in Nat
    /\ l.covered \in BOOLEAN /\ l.priced \in BOOLEAN

\* An entry is in one line that is covered at most, and in one that is not.
GoodLines(lines) ==
    /\ IsFiniteSet(lines) /\ \A l \in lines : IsLine(l)
    /\ \A l, m \in lines :
         l.covered = m.covered /\ DOMAIN l.hours \cap DOMAIN m.hours # {} => l = m

Preview(period, lines) == [status |-> "preview", period |-> period, lines |-> lines]

ReportInv ==
    /\ table \in [Entries -> TimeEntry]
    /\ drafts = [d \in Drafts |-> drafts[d]]
    /\ \A d \in Drafts : drafts[d].status # "none" => GoodLines(drafts[d].lines)
    /\ \A d \in Drafts : drafts[d].status = "preview" => drafts[d] = Preview(drafts[d].period, drafts[d].lines)
    /\ \A d \in DOMAIN shown : d \in Drafts /\ drafts[d].status = "sent"
    /\ writeOffs = [d \in Drafts |-> writeOffs[d]]
    /\ \A d \in Drafts : IsHours(writeOffs[d], Nat)

\* Any entries are finitely many.
LEMMA EntriesFinite ==
    ASSUME NEW S \in SUBSET Entries
    PROVE  IsFiniteSet(S)
BY EntriesAssumption, FS_Subset

\* Entries have hours.
LEMMA HoursAreNumbers ==
    ASSUME ReportInv
    PROVE  Hours \in [Entries -> Nat] /\ \A e \in Entries : table[e].billable \in BOOLEAN
BY DEF ReportInv, TimeEntry, Hours

\* The hours of a line's entries come to something.
LEMMA LineSums ==
    ASSUME NEW l, IsLine(l)
    PROVE  /\ IsFiniteSet(DOMAIN l.hours) /\ Sum(l.hours) \in Nat
           /\ \A e \in DOMAIN l.hours : l.hours[e] \in Nat \ {0} /\ Sum(l.hours) # 0
<1>1. DOMAIN l.hours \subseteq Entries /\ \A e \in DOMAIN l.hours : l.hours[e] \in Nat \ {0}
    BY DEF IsLine, IsHours
<1>2. IsFiniteSet(DOMAIN l.hours)
    BY <1>1, EntriesFinite
<1>3. Sum(l.hours) \in Nat
    BY <1>1, <1>2, SumsOfNumbers
<1>4. ASSUME NEW e \in DOMAIN l.hours PROVE Sum(l.hours) # 0
    BY <1>1, <1>2, SumPositive
<1>5. QED
    BY <1>1, <1>2, <1>3, <1>4

\* An entry draws some of its hours.
LEMMA DrawsNoMore ==
    ASSUME ReportInv, NEW S \in SUBSET Entries, NEW prepaid \in Int
    PROVE  /\ DOMAIN Drawn(S, prepaid) = S
           /\ \A e \in S : /\ Drawn(S, prepaid)[e] \in Nat /\ Hours[e] \in Nat
                           /\ Drawn(S, prepaid)[e] <= Hours[e]
<1> DEFINE before(e) == Sum(Restrict(Hours, { f \in S : f < e }))
           drawn(e) == Max({0, Min({Hours[e], prepaid - before(e)})})
<1>1. Drawn(S, prepaid) = [e \in S |-> drawn(e)]
    BY DEF Drawn
<1>2. ASSUME NEW e \in S PROVE drawn(e) \in Nat /\ Hours[e] \in Nat /\ drawn(e) <= Hours[e]
    <2> DEFINE earlier == { f \in S : f < e }
    <2>1. earlier \in SUBSET Entries
        OBVIOUS
    <2> HIDE DEF earlier
    <2>2. IsFiniteSet(earlier)
        BY <2>1, EntriesFinite
    <2>3. /\ DOMAIN Restrict(Hours, earlier) = earlier
          /\ \A x \in earlier : Restrict(Hours, earlier)[x] \in Int
        BY <2>1, HoursAreNumbers DEF Restrict
    <2>4. Sum(Restrict(Hours, earlier)) \in Int
        BY <2>2, <2>3, SumsOfNumbers
    <2>5. before(e) \in Int
        BY <2>4 DEF earlier
    <2> HIDE DEF before
    <2>6. Hours[e] \in Nat
        BY HoursAreNumbers
    <2> DEFINE h == Hours[e]
               r == prepaid - before(e)
               m == Min({h, r})
    <2>7. h \in Int /\ h >= 0 /\ r \in Int
        BY <2>5, <2>6
    <2> HIDE DEF h, r
    <2>8. m \in Int /\ m <= h
        BY <2>7, SmallerOf
    <2> HIDE DEF m
    <2>9. Max({0, m}) \in {0, m} /\ Max({0, m}) >= 0
        BY <2>8, GreaterOf
    <2>10. Max({0, m}) \in Nat /\ Max({0, m}) <= h
        BY <2>7, <2>8, <2>9
    <2>11. QED
        BY <2>6, <2>10 DEF m, h, r
<1> HIDE DEF drawn
<1>3. QED
    BY <1>1, <1>2

\* The lines a draft is made with.
LEMMA MadeLinesAreGood ==
    ASSUME ReportInv, NEW S \in SUBSET Entries, NEW prepaid \in Int
    PROVE  GoodLines(LinesOf(S, prepaid))
<1> DEFINE drawn == Drawn(S, prepaid)
           rest == [e \in S |-> Hours[e] - drawn[e]]
           part(hours, task) == Restrict(hours, { e \in S : hours[e] > 0 /\ TaskOf[e] = task })
           covered == { Line(part(drawn, TaskOf[e]), TRUE) : e \in S }
           open == { Line(part(rest, TaskOf[e]), FALSE) : e \in S }
           made == covered \cup open
           lines == { l \in made : DOMAIN l.hours # {} }
<1>1. LinesOf(S, prepaid) = lines
    BY DEF LinesOf
<1>2. IsFiniteSet(lines)
    <2>1. IsFiniteSet(S)
        BY EntriesFinite
    <2> DEFINE ofCovered == [e \in S |-> Line(part(drawn, TaskOf[e]), TRUE)]
               ofOpen == [e \in S |-> Line(part(rest, TaskOf[e]), FALSE)]
    <2>2. covered = { ofCovered[e] : e \in S } /\ open = { ofOpen[e] : e \in S }
        OBVIOUS
    <2> HIDE DEF ofCovered, ofOpen, covered, open
    <2>3. IsFiniteSet(covered) /\ IsFiniteSet(open)
        BY <2>1, <2>2, ImageFinite
    <2>4. IsFiniteSet(made)
        BY <2>3, FS_Union
    <2> HIDE DEF made
    <2>5. QED
        BY <2>4, FS_Subset
<1>3. /\ \A e \in S : drawn[e] \in Int /\ rest[e] \in Int
      /\ DOMAIN drawn = S /\ DOMAIN rest = S
    BY DrawsNoMore
<1> HIDE DEF drawn, rest
<1>4. ASSUME NEW hours \in {drawn, rest}, NEW task, NEW c \in BOOLEAN
      PROVE  /\ IsLine(Line(part(hours, task), c)) /\ Line(part(hours, task), c).covered = c
             /\ \A f \in DOMAIN Line(part(hours, task), c).hours : TaskOf[f] = task
    <2> DEFINE p == part(hours, task)
    <2>1. /\ DOMAIN p \subseteq Entries /\ p \in [DOMAIN p -> Nat \ {0}]
          /\ \A f \in DOMAIN p : TaskOf[f] = task
        BY <1>3 DEF Restrict
    <2> HIDE DEF p
    <2>2. IsFiniteSet(DOMAIN p)
        BY <2>1, EntriesFinite
    <2>3. \A x \in DOMAIN p : p[x] \in Nat
        BY <2>1
    <2>4. Sum(p) \in Nat
        BY <2>2, <2>3, SumsOfNumbers
    <2>5. IsLine(Line(p, c)) /\ Line(p, c).covered = c /\ Line(p, c).hours = p
        BY <2>1, <2>4 DEF Line, IsLine, IsHours
    <2>6. QED
        BY <2>1, <2>5 DEF p
<1> DEFINE Of(e, c) == Line(part(IF c THEN drawn ELSE rest, TaskOf[e]), c)
<1>5. \A l \in made : \E e \in S : \E c \in BOOLEAN : l = Of(e, c)
    OBVIOUS
<1>6. \A e \in S : \A c \in BOOLEAN :
        /\ IsLine(Of(e, c)) /\ Of(e, c).covered = c
        /\ \A f \in DOMAIN Of(e, c).hours : TaskOf[f] = TaskOf[e]
    <2> HIDE DEF part
    <2> TAKE e \in S
    <2>1. Of(e, TRUE) = Line(part(drawn, TaskOf[e]), TRUE) /\ Of(e, FALSE) = Line(part(rest, TaskOf[e]), FALSE)
        OBVIOUS
    <2> HIDE DEF Of
    <2> DEFINE Proper(c) ==
                 /\ IsLine(Of(e, c)) /\ Of(e, c).covered = c
                 /\ \A f \in DOMAIN Of(e, c).hours : TaskOf[f] = TaskOf[e]
    <2>2. Proper(TRUE)
        BY <1>4, <2>1
    <2>3. Proper(FALSE)
        BY <1>4, <2>1
    <2> HIDE DEF Proper
    <2>4. \A c \in BOOLEAN : Proper(c)
        BY <2>2, <2>3
    <2>5. QED
        BY <2>4 DEF Proper
<1>7. \A e, f \in S : \A c \in BOOLEAN : TaskOf[e] = TaskOf[f] => Of(e, c) = Of(f, c)
    OBVIOUS
<1> HIDE DEF Of, made
<1>8. \A l \in lines : IsLine(l)
    BY <1>5, <1>6
<1>9. ASSUME NEW l \in lines, NEW m \in lines, l.covered = m.covered,
             DOMAIN l.hours \cap DOMAIN m.hours # {}
      PROVE  l = m
    <2>1. PICK e \in S, c \in BOOLEAN : l = Of(e, c)
        BY <1>5
    <2>2. PICK f \in S, b \in BOOLEAN : m = Of(f, b)
        BY <1>5
    <2>3. c = b
        BY <1>6, <1>9, <2>1, <2>2
    <2>4. TaskOf[e] = TaskOf[f]
        BY <1>6, <1>9, <2>1, <2>2
    <2>5. QED
        BY <1>7, <2>1, <2>2, <2>3, <2>4
<1>10. QED
    BY <1>1, <1>2, <1>8, <1>9 DEF GoodLines

\* The lines that are left when one is edited or removed.
LEMMA EditedLinesAreGood ==
    ASSUME NEW lines, GoodLines(lines), NEW l \in lines,
           NEW new \in { {} } \cup { {x} : x \in EditedLines(l) }
    PROVE  GoodLines((lines \ {l}) \cup new)
<1>1. IsLine(l)
    BY DEF GoodLines
<1>2. Sum(l.hours) \in Nat
    BY <1>1, LineSums
<1>3. ASSUME NEW q \in Nat
      PROVE  /\ IsLine([l EXCEPT !.quantity = q])
             /\ [l EXCEPT !.quantity = q].covered = l.covered
             /\ [l EXCEPT !.quantity = q].hours = l.hours
    <2>1. [l EXCEPT !.quantity = q]
            = [hours |-> l.hours, covered |-> l.covered, priced |-> l.priced, quantity |-> q]
        BY <1>1 DEF IsLine
    <2>2. QED
        BY <1>1, <2>1 DEF IsLine
<1>4. ASSUME NEW p \in BOOLEAN
      PROVE  /\ IsLine([l EXCEPT !.priced = p])
             /\ [l EXCEPT !.priced = p].covered = l.covered
             /\ [l EXCEPT !.priced = p].hours = l.hours
    <2>1. [l EXCEPT !.priced = p]
            = [hours |-> l.hours, covered |-> l.covered, priced |-> p, quantity |-> l.quantity]
        BY <1>1 DEF IsLine
    <2>2. QED
        BY <1>1, <2>1 DEF IsLine
<1>5. \A x \in EditedLines(l) : IsLine(x) /\ x.covered = l.covered /\ x.hours = l.hours
    <2>1. 0 \in Nat /\ Sum(l.hours) \div 2 \in Nat /\ 2 * Sum(l.hours) \in Nat
        BY <1>2
    <2>2. QED
        BY <1>3, <1>4, <2>1 DEF EditedLines
<1>6. CASE new = {}
    <2>1. IsFiniteSet(lines \ {l})
        BY FS_Subset DEF GoodLines
    <2>2. QED
        BY <1>6, <2>1 DEF GoodLines
<1>7. CASE new # {}
    <2>1. PICK x \in EditedLines(l) : new = {x}
        BY <1>7
    <2>2. IsFiniteSet((lines \ {l}) \cup {x})
        <3>1. IsFiniteSet(lines \ {l})
            BY FS_Subset DEF GoodLines
        <3>2. QED
            BY <3>1, FS_AddElement
    <2>3. \A k \in lines \ {l} : ~(k.covered = x.covered /\ DOMAIN k.hours \cap DOMAIN x.hours # {})
        BY <1>5 DEF GoodLines
    <2>4. QED
        BY <1>5, <2>1, <2>2, <2>3 DEF GoodLines
<1>8. QED
    BY <1>6, <1>7

-----------------------------------------------------------------------------
(* Every step keeps them so. *)

\* A draft's row changes alone.
LEMMA RowChanges ==
    ASSUME NEW D, NEW f, f = [x \in D |-> f[x]], NEW d \in D, NEW v
    PROVE  /\ [f EXCEPT ![d] = v][d] = v
           /\ \A x \in D : x # d => [f EXCEPT ![d] = v][x] = f[x]
           /\ [f EXCEPT ![d] = v] = [x \in D |-> [f EXCEPT ![d] = v][x]]
OBVIOUS

\* No draft is there at first.
LEMMA InitReports == Init => ReportInv
<1> SUFFICES ASSUME Init PROVE ReportInv
    OBVIOUS
<1>1. DOMAIN <<>> = {}
    OBVIOUS
<1>2. /\ shown = <<>> /\ table = Imported /\ drafts = [d \in Drafts |-> NoDraft]
      /\ writeOffs = [d \in Drafts |-> <<>>]
    BY DEF Init, StatusInit
<1>3. IsHours(<<>>, Nat)
    BY <1>1 DEF IsHours
<1>4. \A d \in Drafts : drafts[d].status = "none"
    BY <1>2 DEF NoDraft
<1>5. QED
    BY <1>1, <1>2, <1>3, <1>4, EntriesAssumption DEF ReportInv

\* What drafts bill of the allowance comes to a number.
LEMMA UsedIsNumber ==
    ASSUME ReportInv
    PROVE  Used \in Int
<1> DEFINE D == { x \in Drafts : drafts[x].status = "sent" }
           f == [d \in D |-> QuantityOf(CoveredBy(d))]
<1>1. IsFiniteSet(D)
    BY DraftsAssumption, FS_Subset
<1>2. ASSUME NEW d \in D PROVE QuantityOf(CoveredBy(d)) \in Int
    <2> DEFINE lines == CoveredBy(d)
               q == [l \in lines |-> l.quantity]
    <2>1. IsFiniteSet(lines) /\ \A l \in lines : l.quantity \in Int
        <3>1. GoodLines(drafts[d].lines)
            BY DEF ReportInv
        <3>2. lines \subseteq drafts[d].lines
            BY DEF CoveredBy
        <3>3. QED
            BY <3>1, <3>2, FS_Subset DEF GoodLines, IsLine
    <2> HIDE DEF lines
    <2>2. IsFiniteSet(DOMAIN q) /\ \A l \in DOMAIN q : q[l] \in Int
        BY <2>1
    <2> HIDE DEF q
    <2>3. Sum(q) \in Int
        BY <2>2, SumsOfNumbers
    <2>4. QED
        BY <2>3 DEF q, lines, QuantityOf
<1>3. IsFiniteSet(DOMAIN f) /\ \A d \in DOMAIN f : f[d] \in Int
    BY <1>1, <1>2
<1> HIDE DEF f
<1>4. Sum(f) \in Int
    BY <1>3, SumsOfNumbers
<1>5. QED
    BY <1>4 DEF f, Used

\* A draft is made with good lines.
LEMMA GenerateReports ==
    ASSUME ReportInv, NEW d \in Drafts, NEW period, Generate(d, period)
    PROVE  ReportInv'
<1> DEFINE S == (Billable \cap In(period)) \ InvoicedInTeamwork
           prepaid == Max({0, Allowance - Used})
           new == [status |-> "preview", period |-> period, lines |-> LinesOf(S, prepaid)]
<1>1. /\ drafts[d].status = "none" /\ drafts' = [drafts EXCEPT ![d] = new]
      /\ shown' = shown /\ table' = table /\ writeOffs' = writeOffs
    BY DEF Generate, statusVars
<1>2. S \in SUBSET Entries
    BY DEF Billable, In
<1>3. prepaid \in Int
    <2> DEFINE free == Allowance - Used
    <2>1. free \in Int
        BY UsedIsNumber, DraftsAssumption
    <2> HIDE DEF free
    <2>2. Max({0, free}) \in {0, free}
        BY <2>1, 0 \in Int, GreaterOf
    <2>3. QED
        BY <2>1, <2>2 DEF free
<1>4. new.status = "preview" /\ new.lines = LinesOf(S, prepaid)
    OBVIOUS
<1>8. new = Preview(period, LinesOf(S, prepaid))
    BY DEF Preview
<1> HIDE DEF S, prepaid, new
<1>5. GoodLines(new.lines)
    BY <1>2, <1>3, <1>4, MadeLinesAreGood
<1>6. /\ drafts'[d] = new /\ \A x \in Drafts : x # d => drafts'[x] = drafts[x]
      /\ drafts' = [x \in Drafts |-> drafts'[x]]
    BY <1>1, RowChanges DEF ReportInv
<1>9. new = Preview(new.period, new.lines)
    BY <1>8 DEF Preview
<1>7. QED
    BY <1>1, <1>4, <1>5, <1>6, <1>9 DEF ReportInv

\* An edit leaves good lines.
LEMMA EditReports ==
    ASSUME ReportInv, NEW d \in Drafts, EditDraft(d)
    PROVE  ReportInv'
<1>1. PICK l \in drafts[d].lines : \E n \in { {} } \cup { {x} : x \in EditedLines(l) } :
        drafts' = [drafts EXCEPT ![d].lines = (@ \ {l}) \cup n]
    BY DEF EditDraft
<1>2. PICK n \in { {} } \cup { {x} : x \in EditedLines(l) } :
        drafts' = [drafts EXCEPT ![d].lines = (@ \ {l}) \cup n]
    BY <1>1
<1> DEFINE lines == (drafts[d].lines \ {l}) \cup n
           new == [drafts[d] EXCEPT !.lines = lines]
<1>3. /\ drafts[d].status = "preview" /\ drafts' = [drafts EXCEPT ![d] = new]
      /\ shown' = shown /\ table' = table /\ writeOffs' = writeOffs
    BY <1>2 DEF EditDraft
<1>4. GoodLines(lines)
    BY <1>3, EditedLinesAreGood DEF ReportInv
<1>5. new.status # "none" /\ new.lines = lines /\ new = Preview(new.period, new.lines)
    <2>1. drafts[d] = Preview(drafts[d].period, drafts[d].lines)
        BY <1>3 DEF ReportInv
    <2> HIDE DEF lines
    <2>2. new = Preview(drafts[d].period, lines)
        BY <2>1 DEF Preview
    <2>3. QED
        BY <2>2 DEF Preview
<1> HIDE DEF lines
<1>6. /\ drafts'[d] = new /\ \A x \in Drafts : x # d => drafts'[x] = drafts[x]
      /\ drafts' = [x \in Drafts |-> drafts'[x]]
    BY <1>3, RowChanges DEF ReportInv
<1> HIDE DEF new
<1>7. QED
    BY <1>3, <1>4, <1>5, <1>6 DEF ReportInv

\* A line's part in the hours of an entry.
LEMMA PartIsNumber ==
    ASSUME NEW l, IsLine(l), NEW e, NEW whole \in Nat \ {0}
    PROVE  PartOf(l, e, whole) \in Nat
<1>1. CASE e \in DOMAIN l.hours
    <2> DEFINE h == l.hours[e]
               q == l.quantity
    <2>1. h \in Nat /\ q \in Nat
        BY <1>1 DEF IsLine, IsHours
    <2> HIDE DEF h, q
    <2>2. h * q \in Nat
        BY <2>1
    <2>3. (h * q) \div whole \in Nat
        BY <2>2
    <2>4. QED
        BY <1>1, <2>3 DEF PartOf, h, q
<1>2. CASE e \notin DOMAIN l.hours
    BY <1>2 DEF PartOf
<1>3. QED
    BY <1>1, <1>2

\* The lines of a draft a send takes for work of its own.
Counted(lines) == { l \in lines : Included(l) \/ l.covered }

Share(l, e) ==
    IF e \in DOMAIN l.hours THEN Min({l.hours[e], PartOf(l, e, Sum(l.hours))}) ELSE 0

\* What a line stands for comes to a number.
LEMMA ShareIsNumber ==
    ASSUME NEW l, IsLine(l), NEW e
    PROVE  Share(l, e) \in Nat
<1>1. CASE e \in DOMAIN l.hours
    <2> DEFINE h == l.hours[e]
               p == PartOf(l, e, Sum(l.hours))
    <2>1. h \in Nat /\ Sum(l.hours) \in Nat \ {0}
        BY <1>1, LineSums
    <2>2. p \in Nat
        BY <2>1, PartIsNumber
    <2> HIDE DEF h, p
    <2>3. Min({h, p}) \in {h, p}
        BY <2>1, <2>2, h \in Int, p \in Int, SmallerOf
    <2>4. QED
        BY <1>1, <2>1, <2>2, <2>3 DEF Share, h, p
<1>2. CASE e \notin DOMAIN l.hours
    BY <1>2 DEF Share
<1>3. QED
    BY <1>1, <1>2

\* What a draft's lines represent is the sum of their shares.
LEMMA RepresentedIsNumber ==
    ASSUME NEW d, NEW e, GoodLines(drafts[d].lines)
    PROVE  /\ Represented(d, e) \in Nat
           /\ Represented(d, e) = SumFunctionOnSet([l \in Counted(drafts[d].lines) |-> Share(l, e)],
                                                   Counted(drafts[d].lines))
<1> DEFINE C == Counted(drafts[d].lines)
           f == [l \in C |-> Share(l, e)]
<1>1. Represented(d, e) = Sum(f)
    BY DEF Represented, Counted, Share
<1>2. IsFiniteSet(C) /\ \A l \in C : IsLine(l)
    BY FS_Subset DEF Counted, GoodLines
<1>3. DOMAIN f = C /\ \A l \in C : f[l] \in Nat
    BY <1>2, ShareIsNumber
<1> HIDE DEF f
<1>4. Sum(f) \in Nat /\ Sum(f) = SumFunctionOnSet(f, C)
    BY <1>2, <1>3, SumsOfNumbers, SumIsOver
<1>5. QED
    BY <1>1, <1>4 DEF f

\* What a send writes off are hours of entries of its source.
LEMMA WrittenOffAreHours ==
    ASSUME ReportInv, NEW d \in Drafts, drafts[d].status # "none"
    PROVE  /\ DOMAIN WrittenOff(d) = SourceOf(d)
           /\ SourceOf(d) \subseteq Entries
           /\ \A e \in SourceOf(d) :
                /\ WrittenOff(d)[e] = Max({0, Hours[e] - Represented(d, e)})
                /\ WrittenOff(d)[e] \in Nat
<1>1. SourceOf(d) \subseteq Entries
    BY DEF SourceOf, Billable
<1>2. ASSUME NEW e \in SourceOf(d) PROVE Max({0, Hours[e] - Represented(d, e)}) \in Nat
    <2> DEFINE n == Hours[e] - Represented(d, e)
    <2>1. Hours[e] \in Int
        BY <1>1, HoursAreNumbers
    <2>2. Represented(d, e) \in Int
        <3>1. GoodLines(drafts[d].lines)
            BY DEF ReportInv
        <3>2. QED
            <4>1. Represented(d, e) \in Nat
                BY <3>1, RepresentedIsNumber
            <4>2. QED
                BY <4>1
    <2>3. n \in Int
        BY <2>1, <2>2
    <2> HIDE DEF n
    <2>4. Max({0, n}) \in {0, n} /\ Max({0, n}) >= 0
        BY <2>3, 0 \in Int, GreaterOf
    <2>5. Max({0, n}) \in Nat
        BY <2>3, <2>4
    <2>6. QED
        BY <2>5 DEF n
<1>3. QED
    BY <1>1, <1>2 DEF WrittenOff

\* A send stores the document and hours of entries.
LEMMA SendReports ==
    ASSUME ReportInv, NEW d \in Drafts, NEW type, NEW live \in BOOLEAN, Send(d, type, live)
    PROVE  ReportInv'
<1> DEFINE new == [status |-> "sent", period |-> drafts[d].period, lines |-> drafts[d].lines, type |-> type]
           positive == { e \in DOMAIN WrittenOff(d) : WrittenOff(d)[e] > 0 }
           written == IF live /\ type = "invoice" THEN Restrict(WrittenOff(d), positive) ELSE <<>>
<1>1. /\ drafts[d].status = "preview" /\ table' = table
      /\ drafts' = [drafts EXCEPT ![d] = new]
      /\ IF live THEN Stored(d) ELSE UNCHANGED statusVars
    BY DEF Send
<1>2. writeOffs' = [writeOffs EXCEPT ![d] = written]
    BY DEF Send, RestrictDomain
<1>3. IsHours(written, Nat)
    <2>1. positive \subseteq Entries /\ \A e \in positive : WrittenOff(d)[e] \in Nat
        BY <1>1, WrittenOffAreHours
    <2> HIDE DEF positive
    <2>2. IsHours(Restrict(WrittenOff(d), positive), Nat)
        BY <2>1 DEF IsHours, Restrict
    <2>3. DOMAIN <<>> = {}
        OBVIOUS
    <2>4. IsHours(<<>>, Nat)
        BY <2>3 DEF IsHours
    <2>5. QED
        BY <2>2, <2>4
<1>4. new.status = "sent" /\ new.lines = drafts[d].lines
    OBVIOUS
<1>5. \A x \in DOMAIN shown' : x = d \/ x \in DOMAIN shown
    BY <1>1 DEF Stored, statusVars
<1> HIDE DEF new, written
<1>6. /\ drafts'[d] = new /\ \A x \in Drafts : x # d => drafts'[x] = drafts[x]
      /\ drafts' = [x \in Drafts |-> drafts'[x]]
    BY <1>1, RowChanges DEF ReportInv
<1>7. /\ writeOffs'[d] = written /\ \A x \in Drafts : x # d => writeOffs'[x] = writeOffs[x]
      /\ writeOffs' = [x \in Drafts |-> writeOffs'[x]]
    BY <1>2, RowChanges DEF ReportInv
<1>8. GoodLines(new.lines)
    BY <1>1, <1>4 DEF ReportInv
<1>9. /\ \A x \in Drafts : drafts'[x].status # "none" => GoodLines(drafts'[x].lines)
      /\ \A x \in Drafts : drafts'[x].status = "preview" => drafts'[x] = Preview(drafts'[x].period, drafts'[x].lines)
    BY <1>4, <1>6, <1>8 DEF ReportInv
<1>10. \A x \in DOMAIN shown' : x \in Drafts /\ drafts'[x].status = "sent"
    BY <1>4, <1>5, <1>6 DEF ReportInv
<1>11. \A x \in Drafts : IsHours(writeOffs'[x], Nat)
    BY <1>3, <1>7 DEF ReportInv
<1>12. QED
    BY <1>1, <1>6, <1>7, <1>9, <1>10, <1>11 DEF ReportInv, IsHours

\* A synchronisation brings a time entry.
LEMMA ResyncReports ==
    ASSUME ReportInv, NEW e \in Entries, Resync(e)
    PROVE  ReportInv'
<1>1. PICK new \in Resynced : table' = [table EXCEPT ![e] = new]
    BY DEF Resync
<1>2. UNCHANGED <<shown, drafts, writeOffs>>
    BY DEF Resync
<1>3. table' \in [Entries -> TimeEntry]
    BY <1>1, EntriesAssumption DEF ReportInv
<1>4. QED
    BY <1>2, <1>3 DEF ReportInv, IsHours

\* Following documents makes none.
LEMMA StatusKeepsDocuments ==
    ASSUME StatusStep
    PROVE  DOMAIN shown' = DOMAIN shown
<1>1. ASSUME NEW p \in Pollers, StoreStatus(p) PROVE DOMAIN shown' = DOMAIN shown
    BY <1>1 DEF StoreStatus
<1>2. ASSUME NEW p \in Pollers, PollBreaks(p) PROVE shown' = shown
    BY <1>2 DEF PollBreaks
<1>3. ASSUME NEW p \in Pollers, Proceed(p) \/ CallRefused(p), ~StoreStatus(p) PROVE shown' = shown
    BY <1>3 DEF Proceed, Fetch, RecordRun, Resolve, LookBack, OpenIncident, FailureRecorded,
                FailureAlerted, CallRefused
<1>4. ASSUME TimerPolls \/ PagePolls PROVE shown' = shown
    BY <1>4 DEF TimerPolls, PagePolls, Begin
<1>5. ASSUME NEW d \in DOMAIN atXero, XeroMoves(d) PROVE shown' = shown
    BY <1>5 DEF XeroMoves
<1>6. ASSUME LinkBreaks \/ LinkMends \/ Exit PROVE shown' = shown
    BY <1>6 DEF LinkBreaks, LinkMends, Exit
<1>7. QED
    BY <1>1, <1>2, <1>3, <1>4, <1>5, <1>6 DEF StatusStep

\* Polls touch neither drafts nor entries.
LEMMA StatusReports ==
    ASSUME ReportInv, StatusStep, UNCHANGED reportVars
    PROVE  ReportInv'
BY StatusKeepsDocuments DEF ReportInv, reportVars, IsHours

\* Every step keeps drafts, documents and write-offs as they should look.
LEMMA ReportsKeep == ReportInv /\ [Next]_vars => ReportInv'
<1> SUFFICES ASSUME ReportInv, [Next]_vars PROVE ReportInv'
    OBVIOUS
<1>1. CASE UNCHANGED vars
    BY <1>1 DEF ReportInv, vars, statusVars, reportVars, IsHours
<1>2. ASSUME NEW d \in Drafts, NEW period \in Periods, Generate(d, period) PROVE ReportInv'
    BY <1>2, GenerateReports
<1>3. ASSUME NEW d \in Drafts, EditDraft(d) PROVE ReportInv'
    BY <1>3, EditReports
<1>4. ASSUME NEW d \in Drafts, NEW type, NEW live \in BOOLEAN, Send(d, type, live) PROVE ReportInv'
    BY <1>4, SendReports
<1>5. ASSUME NEW e \in Entries, Resync(e) PROVE ReportInv'
    BY <1>5, ResyncReports
<1>6. CASE StatusStep /\ UNCHANGED reportVars
    BY <1>6, StatusReports
<1>7. QED
    BY <1>1, <1>2, <1>3, <1>4, <1>5, <1>6 DEF Next

-----------------------------------------------------------------------------
(* The send of an invoice. *)

\* A document that is new was sent, and is there as its draft was.
LEMMA NewDocumentWasSent ==
    ASSUME ReportInv, [Next]_vars, NEW d \in Drafts, d \in DOMAIN shown' \ DOMAIN shown,
           drafts'[d].type = "invoice"
    PROVE  /\ drafts[d].status = "preview" /\ drafts'[d].lines = drafts[d].lines
           /\ writeOffs'[d] = Restrict(WrittenOff(d), { e \in DOMAIN WrittenOff(d) : WrittenOff(d)[e] > 0 })
           /\ d \in Confirmed'
<1>1. ~(StatusStep \/ shown' = shown)
    BY StatusKeepsDocuments
<1>2. ASSUME NEW x \in Drafts, NEW period \in Periods, Generate(x, period) PROVE shown' = shown
    BY <1>2 DEF Generate, statusVars
<1>3. ASSUME NEW x \in Drafts, EditDraft(x) PROVE shown' = shown
    BY <1>3 DEF EditDraft
<1>4. ASSUME NEW e \in Entries, Resync(e) PROVE shown' = shown
    BY <1>4 DEF Resync
<1>5. UNCHANGED vars => shown' = shown
    BY DEF vars, statusVars
<1>6. PICK x \in Drafts, type \in {"invoice", "quote"}, live \in BOOLEAN : Send(x, type, live)
    BY <1>1, <1>2, <1>3, <1>4, <1>5 DEF Next
<1>7. live = TRUE /\ Stored(x)
    BY <1>1, <1>6 DEF Send, statusVars
<1>8. x = d /\ shown'[d] = "DRAFT" /\ d \in DOMAIN shown'
    BY <1>7 DEF Stored
<1> DEFINE new == [status |-> "sent", period |-> drafts[d].period, lines |-> drafts[d].lines, type |-> type]
           positive == { e \in DOMAIN WrittenOff(d) : WrittenOff(d)[e] > 0 }
<1>9. /\ drafts[d].status = "preview" /\ drafts' = [drafts EXCEPT ![d] = new]
    BY <1>6, <1>8 DEF Send
<1>10. new.lines = drafts[d].lines /\ new.type = type
    OBVIOUS
<1> HIDE DEF new
<1>11. drafts'[d] = new
    BY <1>9, RowChanges DEF ReportInv
<1>12. type = "invoice"
    BY <1>10, <1>11
<1>13. writeOffs' = [writeOffs EXCEPT ![d] = Restrict(WrittenOff(d), positive)]
    BY <1>6, <1>7, <1>8, <1>12 DEF Send, RestrictDomain
<1> HIDE DEF positive
<1>14. writeOffs'[d] = Restrict(WrittenOff(d), positive)
    BY <1>13, RowChanges DEF ReportInv
<1>15. d \in Confirmed'
    BY <1>8, <1>10, <1>11, <1>12 DEF Confirmed
<1>16. QED
    BY <1>9, <1>10, <1>11, <1>14, <1>15 DEF positive

\* All entries are of some day.
LEMMA AllDays == In(Days) = Entries
BY DEF In, Days

\* A part of hours by a quantity that is no more than the whole.
LEMMA NoMoreThanWhole ==
    ASSUME NEW h \in Nat, NEW q \in Nat, NEW w \in Nat \ {0}, q <= w
    PROVE  (h * q) \div w <= h
<1> DEFINE p == h * q
           r == p \div w
<1>1. p \in Nat /\ p <= w * h
    OBVIOUS
<1> HIDE DEF p
<1>2. r \in Int /\ w * r <= p
    BY <1>1
<1> HIDE DEF r
<1>3. w * r <= w * h
    BY <1>1, <1>2
<1>4. r <= h
    BY <1>2, <1>3
<1>5. QED
    BY <1>4 DEF r, p

\* The lines of a draft that stand for hours of an entry.
StandFor(lines, e) == { l \in Counted(lines) : e \in DOMAIN l.hours }

\* What the lines of a document allocate to an entry.
LineAllocation(d, l, e) ==
    [draft |-> d, entry |-> e, prepaid |-> l.covered, hours |-> PartOf(l, e, Sum(l.hours))]

\* What a report takes as billed by a document in its whole time.
AllocatesLines ==
    \A d \in Confirmed : \A e \in Entries :
       GoodLines(drafts[d].lines) =>
          { a \in For(e, Allocations(Days)) : a.draft = d }
             = { LineAllocation(d, l, e) : l \in StandFor(drafts[d].lines, e) }

\* Its lines do, each for one allocation.
LEMMA BilledByDocument == AllocatesLines
<1> SUFFICES ASSUME NEW d \in Confirmed, NEW e \in Entries, GoodLines(drafts[d].lines)
             PROVE  { a \in For(e, Allocations(Days)) : a.draft = d }
                       = { LineAllocation(d, l, e) : l \in StandFor(drafts[d].lines, e) }
    BY DEF AllocatesLines
<1> DEFINE L == drafts[d].lines
           row(c, l) == [line |-> l, in |-> DOMAIN l.hours \cap In(Days), draft |-> c]
           share(x, f) == [draft |-> x.draft, entry |-> f, prepaid |-> x.line.covered,
                           hours |-> PartOf(x.line, f, Sum(Restrict(x.line.hours, x.in)))]
<1>1. \A x : x \in BilledIn(Days) <=>
           \E c \in Confirmed : \E l \in drafts[c].lines :
              x = row(c, l) /\ x.in # {} /\ (Included(x.line) \/ x.line.covered)
    BY DEF BilledIn
<1>2. \A a : a \in Allocations(Days) <=> \E x \in BilledIn(Days) : \E f \in x.in : a = share(x, f)
    BY DEF Allocations
<1>3. ASSUME NEW l \in L, e \in DOMAIN l.hours
      PROVE  share(row(d, l), e) = LineAllocation(d, l, e)
    <2>1. DOMAIN l.hours \subseteq Entries /\ l.hours = [f \in DOMAIN l.hours |-> l.hours[f]]
        BY DEF GoodLines, IsLine, IsHours
    <2>2. DOMAIN l.hours \cap In(Days) = DOMAIN l.hours
        BY <2>1, AllDays
    <2>3. Restrict(l.hours, DOMAIN l.hours \cap In(Days)) = l.hours
        BY <2>1, <2>2 DEF Restrict
    <2>4. QED
        BY <2>3 DEF LineAllocation
<1>4. ASSUME NEW l \in StandFor(L, e)
      PROVE  LineAllocation(d, l, e) \in { a \in For(e, Allocations(Days)) : a.draft = d }
    <2>1. l \in L /\ e \in DOMAIN l.hours /\ (Included(l) \/ l.covered)
        BY DEF StandFor, Counted
    <2>2. e \in DOMAIN l.hours \cap In(Days)
        BY <2>1, AllDays
    <2> DEFINE x == row(d, l)
    <2>3. x \in BilledIn(Days) /\ e \in x.in
        BY <1>1, <2>1, <2>2
    <2>4. share(x, e) \in Allocations(Days) /\ share(x, e).entry = e /\ share(x, e).draft = d
        BY <1>2, <2>3
    <2>5. QED
        BY <1>3, <2>1, <2>4 DEF For
<1>5. ASSUME NEW a \in For(e, Allocations(Days)), a.draft = d
      PROVE  \E l \in StandFor(L, e) : a = LineAllocation(d, l, e)
    <2>0. PICK x \in BilledIn(Days) : \E f \in x.in : a = share(x, f)
        BY <1>2 DEF For
    <2>1. PICK f \in x.in : a = share(x, f)
        BY <2>0
    <2>2. f = e /\ x.draft = d
        BY <1>5, <2>1 DEF For
    <2>8. PICK c \in Confirmed : \E l \in drafts[c].lines :
              x = row(c, l) /\ x.in # {} /\ (Included(x.line) \/ x.line.covered)
        BY <1>1
    <2>3. PICK l \in drafts[c].lines : x = row(c, l) /\ x.in # {} /\ (Included(x.line) \/ x.line.covered)
        BY <2>8
    <2>4. c = d /\ x.line = l /\ e \in DOMAIN l.hours
        BY <2>1, <2>2, <2>3
    <2>5. l \in StandFor(L, e)
        BY <2>3, <2>4 DEF StandFor, Counted
    <2>6. a = LineAllocation(d, l, e)
        BY <1>3, <2>1, <2>2, <2>3, <2>4
    <2>7. QED
        BY <2>5, <2>6
<1>6. QED
    BY <1>4, <1>5

\* What it takes as written off by one.
WritesOff ==
    \A d \in Drafts : \A e \in Entries :
       /\ e \in DOMAIN writeOffs[d] =>
            { a \in For(e, WriteOffs(Days)) : a.draft = d }
               = {[draft |-> d, entry |-> e, hours |-> writeOffs[d][e]]}
       /\ e \notin DOMAIN writeOffs[d] =>
            { a \in For(e, WriteOffs(Days)) : a.draft = d } = {}

\* One row or none.
LEMMA WrittenByDocument == WritesOff
<1>1. \A a : a \in WriteOffs(Days) <=>
         \E d \in Drafts : \E e \in Entries \cap DOMAIN writeOffs[d] :
            a = [draft |-> d, entry |-> e, hours |-> writeOffs[d][e]]
    BY AllDays DEF WriteOffs
<1>2. ASSUME NEW d \in Drafts, NEW e \in Entries, NEW a
      PROVE  a \in { x \in For(e, WriteOffs(Days)) : x.draft = d }
               <=> e \in DOMAIN writeOffs[d] /\ a = [draft |-> d, entry |-> e, hours |-> writeOffs[d][e]]
    BY <1>1 DEF For
<1>3. QED
    BY <1>2 DEF WritesOff

\* So it is after every step, too.
LEMMA AllocatesNext == AllocatesLines' /\ WritesOff'
BY BilledByDocument, WrittenByDocument, PTL

\* The hours of a document's allocations to an entry are those of its lines:
\* no two lines make the same one.
LEMMA LinesAddUp ==
    ASSUME NEW lines, GoodLines(lines), NEW d, NEW e
    PROVE  LET K == StandFor(lines, e)
               A == { LineAllocation(d, l, e) : l \in K }
           IN  HoursOf(A) = SumFunctionOnSet([l \in lines |-> PartOf(l, e, Sum(l.hours))], K)
<1> DEFINE K == StandFor(lines, e)
           f == [l \in lines |-> PartOf(l, e, Sum(l.hours))]
           key == [l \in K |-> LineAllocation(d, l, e)]
           A == { LineAllocation(d, l, e) : l \in K }
           g == [a \in A |-> a.hours]
<1>1. K \in SUBSET lines /\ IsFiniteSet(K)
    <2>1. K \in SUBSET lines
        BY DEF StandFor, Counted
    <2>2. QED
        BY <2>1, FS_Subset DEF GoodLines
<1>2. A = { key[l] : l \in K }
    OBVIOUS
<1>3. IsFiniteSet(A)
    <2> HIDE DEF K, key, A
    <2>1. QED
        BY <1>1, <1>2, ImageFinite
<1>4. (\A a \in A : \E l \in K : key[l] = a) /\ (\A l \in K : key[l] \in A)
    OBVIOUS
<1>5. ASSUME NEW l \in K, NEW m \in K, key[l] = key[m] PROVE l = m
    <2>1. LineAllocation(d, l, e).prepaid = l.covered /\ LineAllocation(d, m, e).prepaid = m.covered
        BY DEF LineAllocation
    <2>2. l.covered = m.covered
        BY <1>5, <2>1
    <2>3. e \in DOMAIN l.hours \cap DOMAIN m.hours
        BY DEF StandFor
    <2>4. QED
        BY <1>1, <2>2, <2>3 DEF GoodLines
<1>6. \A l \in K : g[key[l]] = f[l]
    <2> TAKE l \in K
    <2>1. key[l] = LineAllocation(d, l, e) /\ key[l] \in A
        OBVIOUS
    <2>2. f[l] = PartOf(l, e, Sum(l.hours))
        BY <1>1
    <2> HIDE DEF key, A, K
    <2>3. QED
        BY <2>1, <2>2 DEF LineAllocation
<1>7. \A l \in K : f[l] \in Int
    <2> TAKE l \in K
    <2>1. l \in lines /\ IsLine(l) /\ e \in DOMAIN l.hours
        BY <1>1 DEF GoodLines, StandFor
    <2>2. Sum(l.hours) \in Nat \ {0}
        BY <2>1, LineSums
    <2>3. PartOf(l, e, Sum(l.hours)) \in Nat
        BY <2>1, <2>2, PartIsNumber
    <2>4. QED
        BY <2>1, <2>3
<1>8. HoursOf(A) = SumFunctionOnSet(g, A)
    <2>1. HoursOf(A) = Sum(g)
        BY DEF HoursOf
    <2>2. DOMAIN g = A
        OBVIOUS
    <2> HIDE DEF g
    <2>3. QED
        BY <2>1, <2>2, SumIsOver
<1> HIDE DEF K, f, key, A, g
<1>9. SumFunctionOnSet(g, A) = SumFunctionOnSet(f, K)
    BY <1>1, <1>3, <1>4, <1>5, <1>6, <1>7, SumOfImage
<1>10. HoursOf(A) = SumFunctionOnSet(f, K)
    BY <1>8, <1>9
<1>11. QED
    BY <1>10 DEF A, K, f

\* What a draft's lines represent of an entry, in the lines that stand for it.
LEMMA SharesAddUp ==
    ASSUME NEW d, GoodLines(drafts[d].lines), NEW e
    PROVE  LET lines == drafts[d].lines
           IN  Represented(d, e) = SumFunctionOnSet([l \in lines |-> Share(l, e)], StandFor(lines, e))
<1> DEFINE lines == drafts[d].lines
           C == Counted(lines)
           K == StandFor(lines, e)
           f == [l \in C |-> Share(l, e)]
           g == [l \in lines |-> Share(l, e)]
<1>1. Represented(d, e) = SumFunctionOnSet(f, C)
    BY RepresentedIsNumber
<1>2. C \in SUBSET lines /\ K \in SUBSET C /\ IsFiniteSet(C) /\ IsFiniteSet(K)
    <2>1. C \in SUBSET lines /\ K \in SUBSET C
        BY DEF Counted, StandFor
    <2>2. QED
        BY <2>1, FS_Subset DEF GoodLines
<1>3. \A l \in C : f[l] \in Int
    <2> TAKE l \in C
    <2>1. IsLine(l)
        BY <1>2 DEF GoodLines
    <2>2. Share(l, e) \in Nat
        BY <2>1, ShareIsNumber
    <2>3. QED
        BY <2>2
<1>4. \A l \in C \ K : f[l] = 0
    BY DEF StandFor, Share
<1>5. \A l \in K : f[l] = g[l]
    BY <1>2
<1> HIDE DEF C, K, f, g
<1>6. SumFunctionOnSet(f, C) = SumFunctionOnSet(f, K)
    BY <1>2, <1>3, <1>4, SumThatCounts
<1>7. SumFunctionOnSet(f, K) = SumFunctionOnSet(g, K)
    BY <1>2, <1>5, SumAgrees
<1>8. Represented(d, e) = SumFunctionOnSet(g, K)
    BY <1>1, <1>6, <1>7
<1>9. QED
    BY <1>8 DEF g, K

\* Entry by entry a line stands for no more than it bills, for just as much
\* where its quantity was not raised, and for no more than it was made of.
LEMMA LineShares ==
    ASSUME NEW l, IsLine(l), NEW e \in DOMAIN l.hours
    PROVE  /\ Share(l, e) \in Nat /\ PartOf(l, e, Sum(l.hours)) \in Nat /\ l.hours[e] \in Nat
           /\ Share(l, e) <= PartOf(l, e, Sum(l.hours)) /\ Share(l, e) <= l.hours[e]
           /\ l.quantity <= Sum(l.hours) => Share(l, e) = PartOf(l, e, Sum(l.hours))
<1> DEFINE h == l.hours[e]
           w == Sum(l.hours)
           p == PartOf(l, e, w)
<1>1. h \in Nat /\ w \in Nat \ {0} /\ l.quantity \in Nat
    BY LineSums DEF IsLine
<1>2. p \in Nat /\ Share(l, e) = Min({h, p}) /\ p = (h * l.quantity) \div w
    BY <1>1, PartIsNumber DEF Share, PartOf
<1>3. l.quantity <= w => p <= h
    BY <1>1, <1>2, NoMoreThanWhole
<1> HIDE DEF h, w, p
<1>4. Min({h, p}) \in {h, p} /\ Min({h, p}) <= h /\ Min({h, p}) <= p
    BY <1>1, <1>2, h \in Int, p \in Int, SmallerOf
<1>5. Share(l, e) \in Nat /\ Share(l, e) <= p /\ Share(l, e) <= h /\ (l.quantity <= w => Share(l, e) = p)
    BY <1>1, <1>2, <1>3, <1>4
<1>6. QED
    BY <1>1, <1>2, <1>5 DEF h, w, p

\* Sums over the lines that stand for an entry.
LEMMA ShareSums ==
    ASSUME NEW lines, GoodLines(lines), NEW e
    PROVE  LET K == StandFor(lines, e)
               with == { l \in lines : e \in DOMAIN l.hours }
               share == SumFunctionOnSet([l \in lines |-> Share(l, e)], K)
               part == SumFunctionOnSet([l \in lines |-> PartOf(l, e, Sum(l.hours))], K)
               made == Sum([l \in with |-> l.hours[e]])
           IN  /\ share \in Nat /\ part \in Nat /\ made \in Nat
               /\ share <= part /\ share <= made
               /\ (\A l \in with : l.quantity <= Sum(l.hours)) => share = part
<1> DEFINE K == StandFor(lines, e)
           with == { l \in lines : e \in DOMAIN l.hours }
           f == [l \in lines |-> Share(l, e)]
           g == [l \in lines |-> PartOf(l, e, Sum(l.hours))]
           h == [l \in with |-> l.hours[e]]
<1>1. /\ K \in SUBSET with /\ with \in SUBSET lines
      /\ IsFiniteSet(K) /\ IsFiniteSet(with)
    <2>1. K \in SUBSET with /\ with \in SUBSET lines
        BY DEF StandFor, Counted
    <2>2. IsFiniteSet(with)
        BY FS_Subset DEF GoodLines
    <2>3. IsFiniteSet(K)
        BY <2>1, <2>2, FS_Subset
    <2>4. QED
        BY <2>1, <2>2, <2>3
<1>2. \A l \in with : /\ f[l] \in Nat /\ g[l] \in Nat /\ h[l] \in Nat /\ f[l] <= g[l] /\ f[l] <= h[l]
                      /\ l.quantity <= Sum(l.hours) => f[l] = g[l]
    <2> TAKE l \in with
    <2>1. IsLine(l) /\ e \in DOMAIN l.hours /\ l \in lines
        BY DEF GoodLines
    <2>2. f[l] = Share(l, e) /\ g[l] = PartOf(l, e, Sum(l.hours)) /\ h[l] = l.hours[e]
        BY <2>1
    <2> HIDE DEF f, g, h
    <2>3. QED
        BY <2>1, <2>2, LineShares
<1>3. DOMAIN h = with
    OBVIOUS
<1> HIDE DEF f, g, h, K, with
<1>4. \A l \in K : f[l] \in Nat /\ g[l] \in Nat /\ h[l] \in Nat /\ f[l] <= g[l] /\ f[l] <= h[l]
    BY <1>1, <1>2
<1>5. SumFunctionOnSet(f, K) \in Nat /\ SumFunctionOnSet(g, K) \in Nat
    BY <1>1, <1>4, SumType
<1>6. Sum(h) \in Nat /\ Sum(h) = SumFunctionOnSet(h, with)
    BY <1>1, <1>2, <1>3, SumsOfNumbers, SumIsOver
<1>7. SumFunctionOnSet(f, K) <= SumFunctionOnSet(g, K)
    BY <1>1, <1>4, SumAtMost
<1>8. SumFunctionOnSet(f, K) <= Sum(h)
    <2>1. SumFunctionOnSet(f, K) <= SumFunctionOnSet(h, K)
        BY <1>1, <1>4, SumAtMost
    <2>2. SumFunctionOnSet(h, K) <= SumFunctionOnSet(h, with) /\ SumFunctionOnSet(h, K) \in Nat
        BY <1>1, <1>2, SumOfPart
    <2>3. QED
        BY <1>5, <1>6, <2>1, <2>2
<1>9. ASSUME \A l \in with : l.quantity <= Sum(l.hours)
      PROVE  SumFunctionOnSet(f, K) = SumFunctionOnSet(g, K)
    <2>1. \A l \in K : f[l] = g[l]
        BY <1>1, <1>2, <1>9
    <2>2. QED
        BY <1>1, <2>1, SumAgrees
<1>10. /\ SumFunctionOnSet(f, K) \in Nat /\ SumFunctionOnSet(g, K) \in Nat /\ Sum(h) \in Nat
       /\ SumFunctionOnSet(f, K) <= SumFunctionOnSet(g, K) /\ SumFunctionOnSet(f, K) <= Sum(h)
       /\ (\A l \in with : l.quantity <= Sum(l.hours)) => SumFunctionOnSet(f, K) = SumFunctionOnSet(g, K)
    BY <1>5, <1>6, <1>7, <1>8, <1>9
<1>11. QED
    BY <1>10 DEF f, g, h, K, with

\* Nothing allocated comes to no hours.
LEMMA NoHours == HoursOf({}) = 0
<1> DEFINE f == [a \in {} |-> a.hours]
<1>1. HoursOf({}) = Sum(f) /\ DOMAIN f = {}
    BY DEF HoursOf
<1> HIDE DEF f
<1>2. Sum(f) = SumFunctionOnSet(f, {})
    BY <1>1, SumIsOver
<1>3. QED
    BY <1>1, <1>2, FS_EmptySet, SumUnfolds

\* One allocation comes to its hours.
LEMMA HoursOfOne ==
    ASSUME NEW a, a.hours \in Int
    PROVE  HoursOf({a}) = a.hours
<1> DEFINE f == [x \in {a} |-> x.hours]
<1>1. HoursOf({a}) = Sum(f) /\ DOMAIN f = {a} /\ f[a] = a.hours
    BY DEF HoursOf
<1> HIDE DEF f
<1>2. QED
    BY <1>1, SumIsOver, SumOfOne

\* The send writes off what its lines do not represent.
LEMMA RestIsWrittenOff ==
    ASSUME ReportInv, NEW d \in Drafts, drafts[d].status # "none", NEW e \in SourceOf(d),
           writeOffs'[d] = Restrict(WrittenOff(d), { x \in DOMAIN WrittenOff(d) : WrittenOff(d)[x] > 0 })
    PROVE  HoursOf({ a \in For(e, WriteOffs(Days)') : a.draft = d })
             = Max({0, Hours[e] - Represented(d, e)})
<1> DEFINE rest == Max({0, Hours[e] - Represented(d, e)})
           rows == { a \in For(e, WriteOffs(Days)') : a.draft = d }
<1>1. e \in Entries /\ e \in DOMAIN WrittenOff(d) /\ WrittenOff(d)[e] = rest /\ rest \in Nat
    BY WrittenOffAreHours
<1>2. (e \in DOMAIN writeOffs'[d] <=> rest > 0) /\ (rest > 0 => writeOffs'[d][e] = rest)
    <2> HIDE DEF rest
    <2>1. QED
        BY <1>1 DEF Restrict
<1>3. /\ e \in DOMAIN writeOffs'[d] => rows = {[draft |-> d, entry |-> e, hours |-> writeOffs'[d][e]]}
      /\ e \notin DOMAIN writeOffs'[d] => rows = {}
    BY <1>1, AllocatesNext DEF WritesOff
<1> HIDE DEF rest, rows
<1>4. CASE rest > 0
    <2> DEFINE a == [draft |-> d, entry |-> e, hours |-> rest]
    <2>1. rows = {a} /\ a.hours = rest /\ a.hours \in Int
        BY <1>1, <1>2, <1>3, <1>4
    <2> HIDE DEF a
    <2>2. HoursOf(rows) = rest
        BY <2>1, HoursOfOne
    <2>3. QED
        BY <2>2 DEF rest, rows
<1>5. CASE ~(rest > 0)
    <2>1. rest = 0 /\ rows = {}
        BY <1>1, <1>2, <1>3, <1>5
    <2>2. HoursOf(rows) = rest
        BY <2>1, NoHours
    <2>3. QED
        BY <2>2 DEF rest, rows
<1>6. QED
    BY <1>4, <1>5

\* The send of an invoice accounts for the hours of its period.
LEMMA SendAccounts ==
    ASSUME ReportInv, [Next]_vars, NEW d \in Drafts, d \in DOMAIN shown' \ DOMAIN shown,
           drafts'[d].type = "invoice", NEW e \in SourceOf(d)
    PROVE  LET billed == HoursOf({ a \in For(e, Allocations(Days)') : a.draft = d })
               written == HoursOf({ a \in For(e, WriteOffs(Days)') : a.draft = d })
               lines == { l \in drafts[d].lines : e \in DOMAIN l.hours }
           IN  /\ billed + written >= Hours[e]
               /\ billed + written > Hours[e] =>
                    \/ \E l \in lines : l.quantity > Sum(l.hours)
                    \/ Sum([l \in lines |-> l.hours[e]]) > Hours[e]
<1> DEFINE L == drafts[d].lines
           with == { l \in L : e \in DOMAIN l.hours }
           billed == HoursOf({ a \in For(e, Allocations(Days)') : a.draft = d })
           written == HoursOf({ a \in For(e, WriteOffs(Days)') : a.draft = d })
           share == Represented(d, e)
           part == SumFunctionOnSet([l \in L |-> PartOf(l, e, Sum(l.hours))], StandFor(L, e))
           made == Sum([l \in with |-> l.hours[e]])
           hours == Hours[e]
<1>1. /\ drafts[d].status = "preview" /\ drafts'[d].lines = L /\ d \in Confirmed'
      /\ writeOffs'[d] = Restrict(WrittenOff(d), { x \in DOMAIN WrittenOff(d) : WrittenOff(d)[x] > 0 })
    BY NewDocumentWasSent
<1>2. GoodLines(L)
    BY <1>1 DEF ReportInv
<1>3. e \in Entries /\ hours \in Nat
    <2>1. e \in Entries
        BY <1>1, WrittenOffAreHours
    <2>2. QED
        BY <2>1, HoursAreNumbers
<1>4. billed = part
    <2>1. { a \in For(e, Allocations(Days)') : a.draft = d } = { LineAllocation(d, l, e) : l \in StandFor(L, e) }
        BY <1>1, <1>2, <1>3, AllocatesNext DEF AllocatesLines
    <2>2. QED
        BY <1>2, <2>1, LinesAddUp
<1>5. written = Max({0, hours - share})
    BY <1>1, RestIsWrittenOff
<1>6. share = SumFunctionOnSet([l \in L |-> Share(l, e)], StandFor(L, e))
    BY <1>2, SharesAddUp
<1>7. /\ share \in Nat /\ part \in Nat /\ made \in Nat /\ share <= part /\ share <= made
      /\ (\A l \in with : l.quantity <= Sum(l.hours)) => share = part
    <2> DEFINE s == SumFunctionOnSet([l \in L |-> Share(l, e)], StandFor(L, e))
    <2>1. /\ s \in Nat /\ part \in Nat /\ made \in Nat /\ s <= part /\ s <= made
          /\ (\A l \in with : l.quantity <= Sum(l.hours)) => s = part
        BY <1>2, ShareSums
    <2>2. share = s
        BY <1>6
    <2> HIDE DEF s, share, part, made, with
    <2>3. QED
        BY <2>1, <2>2
<1>8. \A l \in with : l.quantity \in Nat /\ Sum(l.hours) \in Nat
    <2> TAKE l \in with
    <2>1. IsLine(l)
        BY <1>2 DEF GoodLines
    <2>2. QED
        BY <2>1, LineSums DEF IsLine
<1> HIDE DEF billed, share, part, made, hours, L, with, written
<1>9. written \in Nat /\ written >= hours - share /\ (written = 0 \/ written = hours - share)
    <2> DEFINE n == hours - share
    <2>1. n \in Int
        BY <1>3, <1>7
    <2> HIDE DEF n
    <2>2. Max({0, n}) \in {0, n} /\ Max({0, n}) >= 0 /\ Max({0, n}) >= n
        BY <2>1, 0 \in Int, GreaterOf
    <2>3. written = Max({0, n})
        BY <1>5 DEF n
    <2>4. written \in Nat /\ written >= n /\ (written = 0 \/ written = n)
        BY <2>1, <2>2, <2>3
    <2>5. QED
        BY <2>4 DEF n
<1>10. billed + written >= hours
    BY <1>3, <1>4, <1>7, <1>9
<1>11. ASSUME billed + written > hours
       PROVE  (\E l \in with : l.quantity > Sum(l.hours)) \/ made > hours
    <2>1. CASE \A l \in with : l.quantity <= Sum(l.hours)
        <3>1. billed = share
            BY <1>4, <1>7, <2>1
        <3>2. share > hours
            BY <1>3, <1>7, <1>9, <1>11, <3>1
        <3>3. QED
            BY <1>3, <1>7, <3>2
    <2>2. CASE ~\A l \in with : l.quantity <= Sum(l.hours)
        BY <1>8, <2>2
    <2>3. QED
        BY <2>1, <2>2
<1>12. QED
    BY <1>10, <1>11 DEF billed, written, made, hours, L, with

\* Whatever a draft was made of and however it was edited, and whatever became
\* of its entries since: the send of an invoice bills or writes off every hour
\* of its period, and no more unless a quantity was raised or hours were lost.
THEOREM InvoicesAccountForHours == Spec => HoursAreAccountedFor
<1>1. ASSUME ReportInv, [Next]_vars
      PROVE  \A d \in Drafts :
         d \in DOMAIN shown' \ DOMAIN shown /\ drafts'[d].type = "invoice" =>
           \A e \in SourceOf(d) :
             LET billed == HoursOf({ a \in For(e, Allocations(Days)') : a.draft = d })
                 written == HoursOf({ a \in For(e, WriteOffs(Days)') : a.draft = d })
                 lines == { l \in drafts[d].lines : e \in DOMAIN l.hours }
             IN  /\ billed + written >= Hours[e]
                 /\ billed + written > Hours[e] =>
                      \/ \E l \in lines : l.quantity > Sum(l.hours)
                      \/ Sum([l \in lines |-> l.hours[e]]) > Hours[e]
    BY <1>1, SendAccounts
<1>2. QED
    BY <1>1, InitReports, ReportsKeep, PTL DEF Spec, HoursAreAccountedFor


=============================================================================
