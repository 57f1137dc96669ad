------------------------- MODULE XeroReferenceProofs -------------------------
(***************************************************************************)
(* What the connection to Xero keeps for any tenants, callers and numbers  *)
(* of tokens, and what a cache that passes for fresh was made of, for any  *)
(* collections.                                                            *)
(***************************************************************************)
EXTENDS XeroReference, SequenceTheorems, TLAPS

IsRefreshing(c) == agents[c].step = "refreshing"
IsGranted(c) == agents[c].step = "granted"

\* A row that holds a token is connected.
RowsHold == \A t \in Tenants : rows[t].refresh # NoToken => rows[t].status = "connected"

Alive ==
    \A t \in Tenants :
        rows[t].refresh # NoToken => rows[t].refresh \in usable \cup SpentBy(Agents) \cup orphaned

RowsDiffer ==
    \A t, u \in Tenants : t # u /\ rows[t].refresh # NoToken => rows[t].refresh # rows[u].refresh

\* What an agent sent to Xero is in no row but the one it was read from.
SentIsOwn ==
    \A c \in Agents : \A u \in Tenants :
        /\ IsRefreshing(c) /\ u # agents[c].tenant => rows[u].refresh # agents[c].token
        /\ IsGranted(c) /\ agents[c].sent # NoToken /\ u # agents[c].tenant
              => rows[u].refresh # agents[c].sent

\* A new token can be used, and nobody else knows it.
NewIsUnknown ==
    \A c \in Agents : IsGranted(c) /\ agents[c].token # NoToken =>
        /\ agents[c].token \in usable
        /\ \A u \in Tenants : rows[u].refresh # agents[c].token
        /\ \A d \in Agents :
              /\ IsRefreshing(d) => agents[d].token # agents[c].token
              /\ IsGranted(d) => agents[d].sent # agents[c].token
              /\ IsGranted(d) /\ d # c => agents[d].token # agents[c].token

ConnectionInv == ConnectionTypeOK /\ RowsHold /\ Alive /\ RowsDiffer /\ SentIsOwn /\ NewIsUnknown

-----------------------------------------------------------------------------
(* The states of an agent. *)

LEMMA Steps ==
    /\ Idle.step = "idle" /\ Failed.step = "failed" /\ Prepared.step = "prepared"
    /\ \A t : Ready(t).step = "ready" /\ Ready(t).tenant = t
    /\ \A t, k : /\ Refreshing(t, k).step = "refreshing"
                 /\ Refreshing(t, k).tenant = t /\ Refreshing(t, k).token = k
    /\ \A t, s, k : /\ Granted(t, s, k).step = "granted" /\ Granted(t, s, k).tenant = t
                    /\ Granted(t, s, k).sent = s /\ Granted(t, s, k).token = k
BY DEF Idle, Failed, Prepared, Ready, Refreshing, Granted

LEMMA StateFacts ==
    ASSUME NEW a \in AgentStates
    PROVE  /\ a.step = "refreshing" => a.tenant \in Tenants /\ a.token \in Token
           /\ a.step = "granted" => /\ a.tenant \in Tenants
                                    /\ a.sent \in Token \cup {NoToken}
                                    /\ a.token \in Token \cup {NoToken}
<1>1. CASE a \in {Idle, Failed, Prepared}
    BY <1>1, Steps
<1>2. CASE a \in { Ready(t) : t \in Tenants }
    BY <1>2, Steps
<1>3. CASE a \in { Refreshing(t, k) : t \in Tenants, k \in Token }
    BY <1>3, Steps
<1>4. CASE a \in { Granted(t, s, k) : t \in Tenants, s \in Token \cup {NoToken}, k \in Token \cup {NoToken} }
    BY <1>4, Steps
<1>5. QED
    BY <1>1, <1>2, <1>3, <1>4 DEF AgentStates

LEMMA AgentsTyped == ConnectionTypeOK => agents \in [Agents -> AgentStates]
BY DEF ConnectionTypeOK

LEMMA AgentFacts ==
    ASSUME ConnectionTypeOK, NEW c \in Agents
    PROVE  /\ agents[c] \in AgentStates
           /\ IsRefreshing(c) => agents[c].tenant \in Tenants /\ agents[c].token \in Token
           /\ IsGranted(c) => /\ agents[c].tenant \in Tenants
                              /\ agents[c].sent \in Token \cup {NoToken}
                              /\ agents[c].token \in Token \cup {NoToken}
<1>1. agents[c] \in AgentStates
    BY AgentsTyped
<1>2. QED
    BY <1>1, StateFacts DEF IsRefreshing, IsGranted

\* As more tokens are issued what was a state of an agent is one.
LEMMA StatesGrow ==
    ASSUME issued \in Nat, issued' \in Nat, issued' >= issued
    PROVE  Token \subseteq Token' /\ AgentStates \subseteq AgentStates'
<1>1. Token \subseteq Token'
    BY DEF Token
<1>2. QED
    BY <1>1 DEF AgentStates

\* A step of one agent.
LEMMA OneBecomes ==
    ASSUME ConnectionTypeOK, issued' \in Nat, issued' >= issued,
           NEW c \in Agents, NEW state, state \in AgentStates', Becomes(c, state)
    PROVE  /\ agents' \in [Agents -> AgentStates']
           /\ agents'[c] = state
           /\ \A d \in Agents : d # c => agents'[d] = agents[d]
<1>1. issued \in Nat /\ agents \in [Agents -> AgentStates]
    BY AgentsTyped DEF ConnectionTypeOK
<1>2. agents \in [Agents -> AgentStates']
    BY <1>1, StatesGrow
<1>3. QED
    BY <1>2 DEF Becomes

LEMMA SpentByFacts ==
    ASSUME NEW C, NEW k
    PROVE  k \in SpentBy(C) <=>
             /\ k # NoToken
             /\ \E d \in C : IsGranted(d) /\ agents[d].token # NoToken /\ agents[d].sent = k
BY DEF SpentBy, IsGranted

LEMMA TokenFacts == NoToken \notin Token /\ \A k \in Token : k # NoToken
BY TokenAssumption DEF Token

\* A row never holds anything but tokens that were issued.
LEMMA RowFacts ==
    ASSUME ConnectionTypeOK, NEW t \in Tenants
    PROVE  /\ rows[t] \in Row
           /\ rows[t].refresh \in Token \cup {NoToken}
BY DEF ConnectionTypeOK

-----------------------------------------------------------------------------
(* The steps of the connection. *)

\* Anything that changes no row, no token and no request to Xero.
LEMMA AgentStep ==
    ASSUME ConnectionInv, NEW c \in Agents, NEW state,
           state \in {Idle, Failed, Prepared} \cup { Ready(t) : t \in Tenants },
           ~IsGranted(c) \/ agents[c].token = NoToken,
           Becomes(c, state),
           UNCHANGED <<usable, issued, orphaned, rows, latest>>
    PROVE  ConnectionInv'
<1>1. ConnectionTypeOK /\ issued' = issued /\ issued \in Nat
    BY DEF ConnectionInv, ConnectionTypeOK
<1>2. state.step \notin {"refreshing", "granted"}
    BY Steps
<1>3. Token' = Token /\ state \in AgentStates'
    BY <1>1 DEF AgentStates, Token
<1>4. /\ agents' \in [Agents -> AgentStates']
      /\ agents'[c] = state
      /\ \A d \in Agents : d # c => agents'[d] = agents[d]
    BY <1>1, <1>3, OneBecomes
<1>5. ConnectionTypeOK'
    BY <1>1, <1>3, <1>4 DEF ConnectionInv, ConnectionTypeOK, Row
<1>6. \A k : k \in SpentBy(Agents) => k \in SpentBy(Agents)'
    BY <1>4, SpentByFacts DEF SpentBy, IsGranted
<1>7. RowsHold' /\ RowsDiffer'
    BY DEF ConnectionInv, RowsHold, RowsDiffer
<1>8. Alive'
    BY <1>6 DEF ConnectionInv, Alive
<1>9. SentIsOwn' /\ NewIsUnknown'
    BY <1>2, <1>4 DEF ConnectionInv, SentIsOwn, NewIsUnknown, IsRefreshing, IsGranted
<1>10. QED
    BY <1>5, <1>7, <1>8, <1>9 DEF ConnectionInv

\* A renewal that is asked for.
LEMMA AskStep ==
    ASSUME ConnectionInv, NEW c \in Agents, Ask(c)
    PROVE  ConnectionInv'
<1>1. CASE latest = NoTenant \/ Access(latest) \in {Idle, Failed, Prepared} \cup { Ready(t) : t \in Tenants }
    <2>1. ~IsGranted(c)
        BY Steps DEF Ask, IsGranted
    <2>2. QED
        BY <1>1, <2>1, AgentStep DEF Ask
<1>2. CASE latest # NoTenant /\ Access(latest) \notin {Idle, Failed, Prepared} \cup { Ready(t) : t \in Tenants }
    <2> DEFINE token == rows[latest].refresh
    <2>1. /\ ConnectionTypeOK /\ issued' = issued /\ issued \in Nat /\ latest \in Tenants
          /\ UNCHANGED <<usable, issued, orphaned, rows, latest>> /\ Token' = Token
        BY <1>2 DEF Ask, ConnectionInv, ConnectionTypeOK, Token
    <2>2. token # NoToken /\ token \in Token /\ Becomes(c, Refreshing(latest, token))
        BY <1>2, <2>1, RowFacts DEF Ask, Access
    <2>3. Refreshing(latest, token) \in AgentStates'
        BY <2>1, <2>2 DEF AgentStates
    <2>4. /\ agents' \in [Agents -> AgentStates']
          /\ agents'[c] = Refreshing(latest, token)
          /\ \A d \in Agents : d # c => agents'[d] = agents[d]
        BY <2>1, <2>2, <2>3, OneBecomes
    <2>5. /\ agents'[c].step = "refreshing" /\ agents'[c].tenant = latest /\ agents'[c].token = token
          /\ ~IsGranted(c)
        BY <2>4, Steps DEF Ask, IsGranted
    <2>6. ConnectionTypeOK'
        BY <2>1, <2>4 DEF ConnectionTypeOK, Row
    <2>7. \A k : k \in SpentBy(Agents) => k \in SpentBy(Agents)'
        BY <2>4, <2>5 DEF SpentBy, IsGranted
    <2>8. RowsHold' /\ RowsDiffer' /\ Alive'
        BY <2>1, <2>7 DEF ConnectionInv, RowsHold, RowsDiffer, Alive
    <2>9. SentIsOwn'
        BY <2>1, <2>2, <2>4, <2>5 DEF ConnectionInv, SentIsOwn, RowsDiffer, IsRefreshing, IsGranted
    <2>10. NewIsUnknown'
        BY <2>1, <2>2, <2>4, <2>5 DEF ConnectionInv, NewIsUnknown, IsRefreshing, IsGranted
    <2>11. QED
        BY <2>6, <2>8, <2>9, <2>10 DEF ConnectionInv
<1>3. QED
    BY <1>1, <1>2

LEMMA RefreshFailsStep ==
    ASSUME ConnectionInv, NEW c \in Agents, RefreshFails(c)
    PROVE  ConnectionInv'
<1>1. ~IsGranted(c)
    BY DEF RefreshFails, IsGranted
<1>2. QED
    BY <1>1, AgentStep DEF RefreshFails

\* Xero spends a token and hands out its successor.
LEMMA RotateStep ==
    ASSUME ConnectionInv, NEW c \in Agents, XeroRotates(c)
    PROVE  ConnectionInv'
<1> DEFINE t == agents[c].tenant
           k == agents[c].token
<1>1. /\ ConnectionTypeOK /\ issued \in Nat /\ issued' = issued + 1
      /\ usable' = (usable \ {k}) \cup {issued'} /\ UNCHANGED <<orphaned, rows, latest>>
      /\ IsRefreshing(c) /\ Becomes(c, Granted(t, k, issued'))
    BY DEF XeroRotates, Spend, ConnectionInv, ConnectionTypeOK, IsRefreshing
<1>2. t \in Tenants /\ k \in Token /\ k # NoToken
    BY <1>1, AgentFacts, TokenFacts
<1>3. /\ Token' = Token \cup {issued'} /\ issued' \in Nat /\ issued' \notin Token
      /\ issued' # NoToken /\ issued' # k
    BY <1>1, <1>2, TokenAssumption DEF Token
<1>4. Granted(t, k, issued') \in AgentStates'
    BY <1>2, <1>3 DEF AgentStates
<1>5. /\ agents' \in [Agents -> AgentStates']
      /\ agents'[c] = Granted(t, k, issued')
      /\ \A d \in Agents : d # c => agents'[d] = agents[d]
    <2>1. issued' >= issued
        BY <1>1
    <2>2. QED
        BY <1>1, <1>3, <1>4, <2>1, OneBecomes
<1>6. /\ agents'[c].step = "granted" /\ agents'[c].tenant = t
      /\ agents'[c].sent = k /\ agents'[c].token = issued'
    BY <1>5, Steps
<1>7. ConnectionTypeOK'
    BY <1>1, <1>2, <1>3, <1>5 DEF ConnectionTypeOK, Row
<1>8. \A j : j \in SpentBy(Agents) \cup {k} => j \in SpentBy(Agents)'
    BY <1>1, <1>2, <1>3, <1>5, <1>6 DEF SpentBy, IsGranted, IsRefreshing
<1>9. RowsHold' /\ RowsDiffer' /\ Alive'
    BY <1>1, <1>8 DEF ConnectionInv, RowsHold, RowsDiffer, Alive
<1>10. SentIsOwn'
    BY <1>1, <1>2, <1>5, <1>6 DEF ConnectionInv, SentIsOwn, IsRefreshing, IsGranted
<1>11. \A u \in Tenants : rows[u].refresh # issued'
    BY <1>1, <1>3, RowFacts
<1>12. \A d \in Agents : /\ IsRefreshing(d) => agents[d].token # issued'
                         /\ IsGranted(d) => agents[d].sent # issued' /\ agents[d].token # issued'
    BY <1>1, <1>3, AgentFacts
<1>13. NewIsUnknown'
    <2> SUFFICES ASSUME NEW d \in Agents, IsGranted(d)', agents'[d].token # NoToken
                 PROVE  /\ agents'[d].token \in usable'
                        /\ \A u \in Tenants : rows'[u].refresh # agents'[d].token
                        /\ \A e \in Agents :
                              /\ IsRefreshing(e)' => agents'[e].token # agents'[d].token
                              /\ IsGranted(e)' => agents'[e].sent # agents'[d].token
                              /\ IsGranted(e)' /\ e # d => agents'[e].token # agents'[d].token
        BY DEF NewIsUnknown
    <2>1. CASE d = c
        BY <1>1, <1>3, <1>5, <1>6, <1>11, <1>12, <2>1 DEF IsRefreshing, IsGranted
    <2>2. CASE d # c
        <3>1. IsGranted(d) /\ agents'[d] = agents[d] /\ agents[d].token # NoToken
            BY <1>5, <2>2 DEF IsGranted
        <3>2. /\ agents[d].token \in usable
              /\ \A u \in Tenants : rows[u].refresh # agents[d].token
              /\ \A e \in Agents :
                    /\ IsRefreshing(e) => agents[e].token # agents[d].token
                    /\ IsGranted(e) => agents[e].sent # agents[d].token
                    /\ IsGranted(e) /\ e # d => agents[e].token # agents[d].token
            BY <3>1 DEF ConnectionInv, NewIsUnknown
        <3>3. agents[d].token # k /\ agents[d].token # issued'
            BY <1>1, <1>12, <3>1, <3>2
        <3>4. QED
            BY <1>1, <1>5, <1>6, <3>1, <3>2, <3>3 DEF IsRefreshing, IsGranted
    <2>3. QED
        BY <2>1, <2>2
<1>14. QED
    BY <1>7, <1>9, <1>10, <1>13 DEF ConnectionInv

\* Xero answers without a successor: the token stays good.
LEMMA KeepStep ==
    ASSUME ConnectionInv, NEW c \in Agents, XeroKeeps(c)
    PROVE  ConnectionInv'
<1> DEFINE t == agents[c].tenant
           k == agents[c].token
<1>1. /\ ConnectionTypeOK /\ issued \in Nat /\ issued' = issued /\ Token' = Token
      /\ UNCHANGED <<usable, issued, orphaned, rows, latest>>
      /\ IsRefreshing(c) /\ ~IsGranted(c) /\ Becomes(c, Granted(t, k, NoToken))
    BY DEF XeroKeeps, ConnectionInv, ConnectionTypeOK, IsRefreshing, IsGranted, Token
<1>2. t \in Tenants /\ k \in Token
    BY <1>1, AgentFacts
<1>3. Granted(t, k, NoToken) \in AgentStates'
    BY <1>1, <1>2 DEF AgentStates
<1>4. /\ agents' \in [Agents -> AgentStates']
      /\ agents'[c] = Granted(t, k, NoToken)
      /\ \A d \in Agents : d # c => agents'[d] = agents[d]
    BY <1>1, <1>3, OneBecomes
<1>5. /\ agents'[c].step = "granted" /\ agents'[c].tenant = t
      /\ agents'[c].sent = k /\ agents'[c].token = NoToken
    BY <1>4, Steps
<1>6. ConnectionTypeOK'
    BY <1>1, <1>4 DEF ConnectionTypeOK, Row
<1>7. \A j : j \in SpentBy(Agents) => j \in SpentBy(Agents)'
    BY <1>1, <1>4 DEF SpentBy, IsGranted
<1>8. RowsHold' /\ RowsDiffer' /\ Alive'
    BY <1>1, <1>7 DEF ConnectionInv, RowsHold, RowsDiffer, Alive
<1>9. SentIsOwn'
    BY <1>1, <1>4, <1>5 DEF ConnectionInv, SentIsOwn, IsRefreshing, IsGranted
<1>10. NewIsUnknown'
    BY <1>1, <1>4, <1>5 DEF ConnectionInv, NewIsUnknown, IsRefreshing, IsGranted
<1>11. QED
    BY <1>6, <1>8, <1>9, <1>10 DEF ConnectionInv

\* The successor is lost on its way.
LEMMA LostStep ==
    ASSUME ConnectionInv, NEW c \in Agents, RefreshAnswerLost(c)
    PROVE  ConnectionInv'
<1> DEFINE k == agents[c].token
<1>1. /\ ConnectionTypeOK /\ issued \in Nat /\ issued' = issued + 1
      /\ usable' = (usable \ {k}) \cup {issued'} /\ orphaned' = orphaned \cup {k}
      /\ UNCHANGED <<rows, latest>>
      /\ IsRefreshing(c) /\ ~IsGranted(c) /\ Becomes(c, Failed)
    BY DEF RefreshAnswerLost, Spend, ConnectionInv, ConnectionTypeOK, IsRefreshing, IsGranted
<1>2. k \in Token /\ Token' = Token \cup {issued'} /\ issued' \in Nat /\ issued' >= issued
    BY <1>1, AgentFacts DEF Token
<1>3. /\ agents' \in [Agents -> AgentStates']
      /\ agents'[c] = Failed
      /\ \A d \in Agents : d # c => agents'[d] = agents[d]
    <2>1. Failed \in AgentStates'
        BY DEF AgentStates
    <2>2. QED
        BY <1>1, <1>2, <2>1, OneBecomes
<1>4. agents'[c].step = "failed"
    BY <1>3, Steps
<1>5. ConnectionTypeOK'
    BY <1>1, <1>2, <1>3 DEF ConnectionTypeOK, Row
<1>6. \A j : j \in SpentBy(Agents) => j \in SpentBy(Agents)'
    BY <1>1, <1>3 DEF SpentBy, IsGranted
<1>7. RowsHold' /\ RowsDiffer' /\ Alive'
    BY <1>1, <1>6 DEF ConnectionInv, RowsHold, RowsDiffer, Alive
<1>8. SentIsOwn'
    BY <1>1, <1>3, <1>4 DEF ConnectionInv, SentIsOwn, IsRefreshing, IsGranted
<1>9. NewIsUnknown'
    BY <1>1, <1>3, <1>4 DEF ConnectionInv, NewIsUnknown, IsRefreshing, IsGranted
<1>10. QED
    BY <1>5, <1>7, <1>8, <1>9 DEF ConnectionInv

\* An authorization brings a token of its own.
LEMMA ExchangeStep ==
    ASSUME ConnectionInv, NEW t \in Tenants, Exchange(t)
    PROVE  ConnectionInv'
<1> DEFINE c == Callback
<1>1. /\ ConnectionTypeOK /\ issued \in Nat /\ issued' = issued + 1
      /\ usable' = usable \cup {issued'} /\ UNCHANGED <<orphaned, rows, latest>>
      /\ c \in Agents /\ ~IsGranted(c) /\ ~IsRefreshing(c) /\ Becomes(c, Granted(t, NoToken, issued'))
    BY Steps DEF Exchange, ConnectionInv, ConnectionTypeOK, IsRefreshing, IsGranted, Agents
<1>2. /\ Token' = Token \cup {issued'} /\ issued' \in Nat /\ issued' >= issued
      /\ issued' \notin Token /\ issued' # NoToken
    BY <1>1, TokenAssumption DEF Token
<1>3. /\ agents' \in [Agents -> AgentStates']
      /\ agents'[c] = Granted(t, NoToken, issued')
      /\ \A d \in Agents : d # c => agents'[d] = agents[d]
    <2>1. Granted(t, NoToken, issued') \in AgentStates'
        BY <1>2 DEF AgentStates
    <2>2. QED
        BY <1>1, <1>2, <2>1, OneBecomes
<1>4. /\ agents'[c].step = "granted" /\ agents'[c].tenant = t
      /\ agents'[c].sent = NoToken /\ agents'[c].token = issued'
    BY <1>3, Steps
<1>5. ConnectionTypeOK'
    BY <1>1, <1>2, <1>3 DEF ConnectionTypeOK, Row
<1>6. \A j : j \in SpentBy(Agents) => j \in SpentBy(Agents)'
    BY <1>1, <1>3 DEF SpentBy, IsGranted
<1>7. RowsHold' /\ RowsDiffer' /\ Alive'
    BY <1>1, <1>6 DEF ConnectionInv, RowsHold, RowsDiffer, Alive
<1>8. SentIsOwn'
    BY <1>1, <1>3, <1>4 DEF ConnectionInv, SentIsOwn, IsRefreshing, IsGranted
<1>9. \A u \in Tenants : rows[u].refresh # issued'
    BY <1>1, <1>2, RowFacts
<1>10. \A d \in Agents : /\ IsRefreshing(d) => agents[d].token # issued'
                         /\ IsGranted(d) => agents[d].sent # issued' /\ agents[d].token # issued'
    BY <1>1, <1>2, AgentFacts
<1>11. NewIsUnknown'
    BY <1>1, <1>2, <1>3, <1>4, <1>9, <1>10 DEF ConnectionInv, NewIsUnknown, IsRefreshing, IsGranted
<1>12. QED
    BY <1>5, <1>7, <1>8, <1>11 DEF ConnectionInv

\* A row takes the new token, or keeps the one it has.
LEMMA StoreStep ==
    ASSUME ConnectionInv, NEW c \in Agents, Store(c)
    PROVE  ConnectionInv'
<1> DEFINE t == agents[c].tenant
           k == agents[c].token
           kept == Kept(agents[c])
           after == IF c = Callback THEN Idle ELSE Ready(t)
<1>1. /\ ConnectionTypeOK /\ issued \in Nat /\ issued' = issued /\ issued' >= issued /\ Token' = Token
      /\ UNCHANGED <<usable, orphaned>>
      /\ rows' = [rows EXCEPT ![t] = [status |-> "connected", refresh |-> kept, fresh |-> TRUE]]
      /\ latest' = t /\ IsGranted(c) /\ ~IsRefreshing(c) /\ Becomes(c, after)
    BY DEF Store, ConnectionInv, ConnectionTypeOK, IsRefreshing, IsGranted, Token
<1>2. t \in Tenants /\ k \in Token \cup {NoToken}
    BY <1>1, AgentFacts
<1>3. /\ kept \in Token \cup {NoToken}
      /\ kept # NoToken => kept = k \/ (k = NoToken /\ kept = rows[t].refresh)
    <2>1. rows[t].refresh \in Token \cup {NoToken}
        BY <1>1, <1>2, RowFacts
    <2>2. kept = IF k = NoToken THEN rows[t].refresh ELSE k
        BY DEF Kept
    <2>3. QED
        BY <1>2, <2>1, <2>2
<1>4. after \in AgentStates' /\ after.step \notin {"refreshing", "granted"}
    BY <1>2, Steps DEF AgentStates
<1>5. /\ agents' \in [Agents -> AgentStates']
      /\ agents'[c] = after
      /\ \A d \in Agents : d # c => agents'[d] = agents[d]
    BY <1>1, <1>4, OneBecomes
<1>6. /\ rows' \in [Tenants -> Row]
      /\ rows'[t].refresh = kept /\ rows'[t].status = "connected"
      /\ \A u \in Tenants : u # t => rows'[u] = rows[u]
    <2>1. rows \in [Tenants -> Row]
        BY <1>1 DEF ConnectionTypeOK
    <2>2. kept \in Nat \cup {NoToken}
        BY <1>3 DEF Token
    <2>3. [status |-> "connected", refresh |-> kept, fresh |-> TRUE] \in Row
        BY <2>2 DEF Row
    <2>4. QED
        BY <1>1, <1>2, <2>1, <2>3
<1>7. ConnectionTypeOK'
    BY <1>1, <1>2, <1>3, <1>5, <1>6 DEF ConnectionTypeOK
<1>8. RowsHold'
    BY <1>6 DEF ConnectionInv, RowsHold
<1>9. \A j \in SpentBy(Agents) : (j = agents[c].sent /\ k # NoToken) \/ j \in SpentBy(Agents)'
    BY <1>5 DEF SpentBy, IsGranted
<1>10. Alive'
    <2> SUFFICES ASSUME NEW u \in Tenants, rows'[u].refresh # NoToken
                 PROVE  rows'[u].refresh \in usable \cup SpentBy(Agents)' \cup orphaned
        BY <1>1 DEF Alive
    <2>1. CASE u # t
        <3>1. rows'[u] = rows[u] /\ rows[u].refresh \in usable \cup SpentBy(Agents) \cup orphaned
            BY <1>6, <2>1 DEF ConnectionInv, Alive
        <3>2. agents[c].sent # NoToken => rows[u].refresh # agents[c].sent
            BY <1>1, <2>1 DEF ConnectionInv, SentIsOwn
        <3>3. QED
            BY <1>9, <3>1, <3>2
    <2>2. CASE u = t /\ k # NoToken
        BY <1>1, <1>6, <2>2 DEF ConnectionInv, NewIsUnknown, Kept
    <2>3. CASE u = t /\ k = NoToken
        <3>1. rows'[u].refresh = rows[u].refresh
            BY <1>3, <1>6, <2>3
        <3>2. QED
            BY <1>9, <2>3, <3>1 DEF ConnectionInv, Alive
    <2>4. QED
        BY <2>1, <2>2, <2>3
<1>11. \A u \in Tenants : \/ rows'[u].refresh = rows[u].refresh
                          \/ u = t /\ rows'[u].refresh = k /\ k # NoToken
    BY <1>3, <1>6 DEF Kept
<1>12. RowsDiffer'
    BY <1>1, <1>11 DEF ConnectionInv, RowsDiffer, NewIsUnknown
<1>13. SentIsOwn'
    BY <1>1, <1>4, <1>5, <1>11 DEF ConnectionInv, SentIsOwn, NewIsUnknown, IsRefreshing, IsGranted
<1>14. NewIsUnknown'
    BY <1>1, <1>4, <1>5, <1>11 DEF ConnectionInv, NewIsUnknown, IsRefreshing, IsGranted
<1>15. QED
    BY <1>7, <1>8, <1>10, <1>12, <1>13, <1>14 DEF ConnectionInv

\* The database refuses the new token: its predecessor is orphaned.
LEMMA StoreFailsStep ==
    ASSUME ConnectionInv, NEW c \in Agents, StoreFails(c)
    PROVE  ConnectionInv'
<1> DEFINE after == IF c = Callback THEN Idle ELSE Failed
<1>1. /\ ConnectionTypeOK /\ issued \in Nat /\ issued' = issued /\ issued' >= issued /\ Token' = Token
      /\ UNCHANGED <<usable, rows, latest>> /\ orphaned' = orphaned \cup SpentBy({c})
      /\ IsGranted(c) /\ ~IsRefreshing(c) /\ Becomes(c, after)
    BY DEF StoreFails, ConnectionInv, ConnectionTypeOK, IsRefreshing, IsGranted, Token
<1>2. after \in AgentStates' /\ after.step \notin {"refreshing", "granted"}
    BY Steps DEF AgentStates
<1>3. /\ agents' \in [Agents -> AgentStates']
      /\ agents'[c] = after
      /\ \A d \in Agents : d # c => agents'[d] = agents[d]
    BY <1>1, <1>2, OneBecomes
<1>4. SpentBy({c}) \subseteq Token
    BY <1>1, AgentFacts DEF SpentBy, IsGranted
<1>5. ConnectionTypeOK'
    BY <1>1, <1>3, <1>4 DEF ConnectionTypeOK, Row
<1>6. \A j \in SpentBy(Agents) : j \in SpentBy({c}) \/ j \in SpentBy(Agents)'
    BY <1>3 DEF SpentBy, IsGranted
<1>7. RowsHold' /\ RowsDiffer' /\ Alive'
    BY <1>1, <1>6 DEF ConnectionInv, RowsHold, RowsDiffer, Alive
<1>8. SentIsOwn'
    BY <1>1, <1>2, <1>3 DEF ConnectionInv, SentIsOwn, IsRefreshing, IsGranted
<1>9. NewIsUnknown'
    BY <1>1, <1>2, <1>3 DEF ConnectionInv, NewIsUnknown, IsRefreshing, IsGranted
<1>10. QED
    BY <1>5, <1>7, <1>8, <1>9 DEF ConnectionInv

\* Rows that lose their token, or keep it, disturb nobody.
LEMMA RowStep ==
    ASSUME ConnectionInv, rows' \in [Tenants -> Row],
           UNCHANGED <<usable, issued, orphaned, latest, agents>>,
           \A t \in Tenants :
              \/ rows'[t].refresh = NoToken
              \/ rows'[t].refresh = rows[t].refresh /\ rows'[t].status = rows[t].status
    PROVE  ConnectionInv'
<1>1. Token' = Token /\ AgentStates' = AgentStates /\ SpentBy(Agents)' = SpentBy(Agents)
    BY DEF Token, AgentStates, SpentBy
<1>2. ConnectionTypeOK'
    BY <1>1 DEF ConnectionInv, ConnectionTypeOK
<1>3. RowsHold' /\ RowsDiffer' /\ Alive'
    BY <1>1 DEF ConnectionInv, RowsHold, RowsDiffer, Alive
<1>4. SentIsOwn'
    <2> SUFFICES ASSUME NEW c \in Agents, NEW u \in Tenants
                 PROVE  /\ IsRefreshing(c) /\ u # agents[c].tenant => rows'[u].refresh # agents[c].token
                        /\ IsGranted(c) /\ agents[c].sent # NoToken /\ u # agents[c].tenant
                              => rows'[u].refresh # agents[c].sent
        BY DEF SentIsOwn, IsRefreshing, IsGranted
    <2>1. IsRefreshing(c) => agents[c].token # NoToken
        BY AgentFacts, TokenFacts DEF ConnectionInv
    <2>2. QED
        BY <2>1 DEF ConnectionInv, SentIsOwn
<1>5. NewIsUnknown'
    BY DEF ConnectionInv, NewIsUnknown, IsRefreshing, IsGranted
<1>6. QED
    BY <1>2, <1>3, <1>4, <1>5 DEF ConnectionInv

LEMMA ExpiresStep ==
    ASSUME ConnectionInv, NEW t \in Tenants, Expires(t)
    PROVE  ConnectionInv'
<1>1. rows \in [Tenants -> Row]
    BY DEF ConnectionInv, ConnectionTypeOK
<1>2. [rows[t] EXCEPT !.fresh = FALSE] \in Row
    BY <1>1 DEF Row
<1>3. /\ rows' \in [Tenants -> Row]
      /\ \A u \in Tenants : rows'[u].refresh = rows[u].refresh /\ rows'[u].status = rows[u].status
    BY <1>1, <1>2 DEF Expires, Row
<1>4. QED
    BY <1>3, RowStep DEF Expires

LEMMA DisconnectStep ==
    ASSUME ConnectionInv, Disconnect
    PROVE  ConnectionInv'
<1>1. rows \in [Tenants -> Row]
    BY DEF ConnectionInv, ConnectionTypeOK
<1>2. /\ [NoRow EXCEPT !.status = "disconnected"] \in Row
      /\ [NoRow EXCEPT !.status = "disconnected"].refresh = NoToken
    BY DEF NoRow, Row
<1>3. /\ rows' \in [Tenants -> Row]
      /\ \A t \in Tenants : rows'[t].refresh = NoToken \/ rows'[t] = rows[t]
    BY <1>1, <1>2 DEF Disconnect
<1>4. QED
    BY <1>3, RowStep DEF Disconnect

LEMMA RestartStep ==
    ASSUME ConnectionInv, Restart
    PROVE  ConnectionInv'
<1>1. /\ ConnectionTypeOK /\ UNCHANGED <<usable, issued, rows, latest>> /\ Token' = Token
      /\ orphaned' = orphaned \cup SpentBy(Agents) /\ agents' = [c \in Agents |-> Idle]
    BY DEF Restart, ConnectionInv, Token
<1>2. agents' \in [Agents -> AgentStates'] /\ \A c \in Agents : agents'[c].step = "idle"
    BY <1>1, Steps DEF AgentStates
<1>3. SpentBy(Agents) \subseteq Token
    BY <1>1, AgentFacts DEF SpentBy, IsGranted
<1>4. ConnectionTypeOK'
    BY <1>1, <1>2, <1>3 DEF ConnectionTypeOK
<1>5. RowsHold' /\ RowsDiffer' /\ Alive'
    BY <1>1 DEF ConnectionInv, RowsHold, RowsDiffer, Alive
<1>6. SentIsOwn' /\ NewIsUnknown'
    BY <1>2 DEF SentIsOwn, NewIsUnknown, IsRefreshing, IsGranted
<1>7. QED
    BY <1>4, <1>5, <1>6 DEF ConnectionInv

LEMMA ReturnsStep ==
    ASSUME ConnectionInv, NEW c \in Agents, Returns(c)
    PROVE  ConnectionInv'
<1>1. ~IsGranted(c)
    BY DEF Returns, IsGranted
<1>2. QED
    BY <1>1, AgentStep DEF Returns

-----------------------------------------------------------------------------
(* The invariant of the connection, with everyone who uses it. *)

LEMMA InitConnection == Init => ConnectionInv
<1> SUFFICES ASSUME ConnectionInit PROVE ConnectionInv
    BY DEF Init
<1>1. NoRow \in Row /\ NoRow.refresh = NoToken /\ Idle \in AgentStates
    BY DEF NoRow, Row, AgentStates
<1>2. ConnectionTypeOK
    BY <1>1 DEF ConnectionInit, ConnectionTypeOK
<1>3. RowsHold /\ Alive /\ RowsDiffer
    BY <1>1 DEF ConnectionInit, RowsHold, Alive, RowsDiffer
<1>4. SentIsOwn /\ NewIsUnknown
    BY Steps DEF ConnectionInit, SentIsOwn, NewIsUnknown, IsRefreshing, IsGranted
<1>5. QED
    BY <1>2, <1>3, <1>4 DEF ConnectionInv

LEMMA RenewalKeeps ==
    ASSUME ConnectionInv, NEW c \in Agents, Renewal(c)
    PROVE  ConnectionInv'
BY RotateStep, KeepStep, RefreshFailsStep, LostStep, StoreStep, StoreFailsStep DEF Renewal

LEMMA ConnectionKeeps == ConnectionInv /\ [Next]_vars => ConnectionInv'
<1> SUFFICES ASSUME ConnectionInv, [Next]_vars PROVE ConnectionInv'
    OBVIOUS
<1>1. ASSUME NEW k \in Collections PROVE k \in Agents
    BY CollectionsAssumption DEF Agents
<1>2. CASE UNCHANGED connectionVars
    BY <1>2 DEF connectionVars, ConnectionInv, ConnectionTypeOK, RowsHold, Alive, RowsDiffer,
                SentIsOwn, NewIsUnknown, IsRefreshing, IsGranted, SpentBy, Token, AgentStates
<1>3. ASSUME NEW k \in Collections, AskFor(k) PROVE ConnectionInv'
    BY <1>1, <1>3, AskStep DEF AskFor
<1>4. ASSUME NEW k \in Collections, Fetches(k) \/ NotFetched(k) PROVE ConnectionInv'
    BY <1>1, <1>4, ReturnsStep DEF Fetches, NotFetched
<1>5. CASE Others
    BY <1>5, AskStep, ReturnsStep, RenewalKeeps, ExpiresStep, ExchangeStep, DisconnectStep
       DEF Others, ConnectionStep, Agents
<1>6. CASE Exit
    BY <1>6, RestartStep DEF Exit
<1>7. ASSUME \/ \E force \in BOOLEAN : BeginSync(force)
             \/ ContactsCame \/ StoreReference \/ SyncFails
             \/ \E t \in Tenants, k \in Collections : XeroChanges(t, k)
             \/ \E k \in Collections : TtlPasses(k)
             \/ UNCHANGED vars
      PROVE  UNCHANGED connectionVars
    BY <1>7 DEF BeginSync, ContactsCame, StoreReference, SyncFails, XeroChanges, TtlPasses, vars
<1>8. QED
    BY <1>2, <1>3, <1>4, <1>5, <1>6, <1>7 DEF Next

\* The rows, tokens and requests stay what they are meant to be.
THEOREM ConnectionIsTyped == Spec => []ConnectionTypeOK
<1>1. ConnectionInv => ConnectionTypeOK
    BY DEF ConnectionInv
<1>2. QED
    BY <1>1, InitConnection, ConnectionKeeps, PTL DEF Spec

\* For any number of tenants and concurrent requests and however tokens are
\* renewed, lost, replaced or dropped: a connection's refresh token is one Xero
\* takes, or one whose successor is on its way to the row or was lost.
THEOREM ConnectionStaysAlive == Spec => []RowIsAlive
<1>1. ConnectionInv => RowIsAlive
    BY DEF ConnectionInv, Alive, RowIsAlive
<1>2. QED
    BY <1>1, InitConnection, ConnectionKeeps, PTL DEF Spec

-----------------------------------------------------------------------------
(* What a fresh cache was made of. *)

\* A recent row was stored with all that was fetched of its collection; a
\* collection nobody answered for has no items.
CacheInv ==
    /\ recent \subseteq Collections
    /\ tables = [k \in Collections |-> tables[k]]
    /\ fetch = [k \in Collections |-> fetch[k]]
    /\ \A k \in Collections :
          fetch[k] = [page |-> fetch[k].page, items |-> fetch[k].items, mode |-> fetch[k].mode]
    /\ \A k \in Collections : \A id \in Live(k) : tables[k][id].recent => k \in recent
    /\ \A k \in Collections : fetch[k].mode = "none" => fetch[k].items = <<>>

LEMMA UpsertNothing ==
    ASSUME NEW k
    PROVE  /\ DOMAIN Upserted(k, <<>>) = DOMAIN tables[k]
           /\ \A id \in DOMAIN tables[k] : Upserted(k, <<>>)[id] = tables[k][id]
<1>1. DOMAIN <<>> = {}
    OBVIOUS
<1>2. Range(<<>>) = {} /\ \A id : { n \in DOMAIN <<>> : <<>>[n].id = id } = {}
    BY <1>1 DEF Range
<1>3. QED
    BY <1>2, Zenon DEF Upserted

LEMMA InitCache == Init => CacheInv
<1> SUFFICES ASSUME Init PROVE CacheInv
    OBVIOUS
<1>1. \A k \in Collections : Waiting = [page |-> Waiting.page, items |-> Waiting.items, mode |-> Waiting.mode]
                             /\ Waiting.mode = "waiting"
    BY DEF Waiting
<1>2. QED
    BY <1>1, StoredAssumption DEF Init, CacheInv, Live

\* A step that touches neither the tables nor what counts as recent.
LEMMA FetchStep ==
    ASSUME CacheInv, UNCHANGED <<tables, recent>>,
           fetch' = [k \in Collections |-> fetch'[k]],
           \A k \in Collections :
              /\ fetch'[k] = [page |-> fetch'[k].page, items |-> fetch'[k].items, mode |-> fetch'[k].mode]
              /\ fetch'[k].mode = "none" => fetch'[k].items = <<>>
    PROVE  CacheInv'
BY DEF CacheInv, Live

LEMMA ProgressStep ==
    ASSUME CacheInv, NEW k \in Collections, NEW state, Progress(k, state),
           state = [page |-> state.page, items |-> state.items, mode |-> state.mode],
           state.mode = "none" => state.items = <<>>
    PROVE  CacheInv'
<1>1. fetch' = [j \in Collections |-> IF j = k THEN state ELSE fetch[j]]
    BY DEF Progress, CacheInv
<1>2. QED
    BY <1>1, FetchStep DEF Progress, CacheInv

LEMMA FetchKeeps ==
    ASSUME CacheInv, NEW k \in Collections, Fetches(k) \/ NotFetched(k)
    PROVE  CacheInv'
<1> DEFINE f == fetch[k]
<1>1. f = [page |-> f.page, items |-> f.items, mode |-> f.mode]
    BY DEF CacheInv
<1>2. CASE Fetches(k)
    <2>1. PICK state \in { Answered(k, books[agents[k].tenant][k]), [f EXCEPT !.mode = "failed"] } :
             Progress(k, state)
        BY <1>2 DEF Fetches
    <2>2. \A list : /\ Answered(k, list) = [page |-> Answered(k, list).page,
                                            items |-> Answered(k, list).items,
                                            mode |-> Answered(k, list).mode]
                    /\ Answered(k, list).mode # "none"
        BY DEF Answered
    <2>3. /\ state = [page |-> state.page, items |-> state.items, mode |-> state.mode]
          /\ state.mode # "none"
        BY <1>1, <2>2
    <2>4. QED
        BY <2>1, <2>3, ProgressStep
<1>3. CASE NotFetched(k)
    <2>1. PICK state \in { Unanswered(k), [f EXCEPT !.mode = "failed"] } : Progress(k, state)
        BY <1>3 DEF NotFetched
    <2>2. /\ state = [page |-> state.page, items |-> state.items, mode |-> state.mode]
          /\ state.mode = "none" => state.items = <<>>
        BY <1>1 DEF Unanswered
    <2>3. QED
        BY <2>1, <2>2, ProgressStep
<1>4. QED
    BY <1>2, <1>3

LEMMA StoreReferenceKeeps ==
    ASSUME CacheInv, StoreReference
    PROVE  CacheInv'
<1>1. /\ fetch' = fetch /\ recent' = recent \cup { k \in Collections : Came(k) }
      /\ tables' = [k \in Collections |-> tables'[k]]
    BY DEF StoreReference
<1>2. ASSUME NEW k \in Collections, NEW id \in Live(k)', tables'[k][id].recent
      PROVE  k \in recent'
    <2>1. CASE Came(k)
        BY <1>1, <2>1
    <2>2. CASE ~Came(k)
        <3>1. fetch[k].items = <<>>
            BY <2>2 DEF StoreReference, Came, CacheInv
        <3>2. tables'[k] = Upserted(k, <<>>) \/ tables'[k] = WithoutSheet(Upserted(k, <<>>), <<>>)
            BY <3>1 DEF StoreReference
        <3>3. WithoutSheet(Upserted(k, <<>>), <<>>) =
                 [i \in DOMAIN Upserted(k, <<>>) |-> Upserted(k, <<>>)[i]]
            BY DEF WithoutSheet
        <3>4. id \in Live(k) /\ tables'[k][id] = tables[k][id]
            BY <3>2, <3>3, UpsertNothing DEF Live
        <3>5. QED
            BY <1>1, <1>2, <3>4 DEF CacheInv
    <2>3. QED
        BY <2>1, <2>2
<1>3. recent' \subseteq Collections
    BY <1>1 DEF CacheInv
<1>4. QED
    BY <1>1, <1>2, <1>3 DEF CacheInv

LEMMA CacheKeeps == CacheInv /\ [Next]_vars => CacheInv'
<1> SUFFICES ASSUME CacheInv, [Next]_vars PROVE CacheInv'
    OBVIOUS
<1>1. /\ Waiting = [page |-> Waiting.page, items |-> Waiting.items, mode |-> Waiting.mode]
      /\ Asking = [page |-> Asking.page, items |-> Asking.items, mode |-> Asking.mode]
      /\ Waiting.mode = "waiting" /\ Asking.mode = "asking"
    BY DEF Waiting, Asking
<1>2. CASE UNCHANGED <<tables, fetch, recent>>
    BY <1>2 DEF CacheInv, Live
<1>3. ASSUME NEW force \in BOOLEAN, BeginSync(force) PROVE CacheInv'
    BY <1>1, <1>3, FetchStep DEF BeginSync
<1>4. ASSUME NEW k \in Collections, Fetches(k) \/ NotFetched(k) PROVE CacheInv'
    BY <1>4, FetchKeeps
<1>5. CASE ContactsCame
    <2>1. CASE fetch' = fetch
        BY <1>2, <1>5, <2>1 DEF ContactsCame
    <2>2. CASE fetch' = [k \in Collections |-> IF k = Contacts THEN fetch[k] ELSE Asking]
        BY <1>1, <1>5, <2>2, FetchStep DEF ContactsCame, CacheInv
    <2>3. QED
        BY <1>5, <2>1, <2>2 DEF ContactsCame
<1>6. CASE StoreReference
    BY <1>6, StoreReferenceKeeps
<1>7. CASE Exit
    BY <1>1, <1>7, FetchStep DEF Exit
<1>8. ASSUME NEW k \in Collections, TtlPasses(k) PROVE CacheInv'
    <2>1. /\ tables' = [j \in Collections |->
                          IF j = k THEN [id \in DOMAIN tables[k] |-> StoredRow(tables[k][id].value, FALSE)]
                          ELSE tables[j]]
          /\ recent' = recent \ {k} /\ fetch' = fetch
        BY <1>8 DEF TtlPasses, CacheInv
    <2>2. ASSUME NEW j \in Collections, NEW id \in Live(j)', tables'[j][id].recent
          PROVE  j \in recent'
        <3>1. CASE j = k
            BY <2>1, <2>2, <3>1 DEF Live, StoredRow
        <3>2. CASE j # k
            BY <2>1, <2>2, <3>2 DEF Live, CacheInv
        <3>3. QED
            BY <3>1, <3>2
    <2>3. QED
        BY <2>1, <2>2 DEF CacheInv
<1>9. ASSUME \/ \E k \in Collections : AskFor(k)
             \/ SyncFails \/ Others \/ UNCHANGED vars
             \/ \E t \in Tenants, k \in Collections : XeroChanges(t, k)
      PROVE  UNCHANGED <<tables, fetch, recent>>
    BY <1>9 DEF AskFor, SyncFails, Others, XeroChanges, vars, referenceVars
<1>10. QED
    BY <1>2, <1>3, <1>4, <1>5, <1>6, <1>7, <1>8, <1>9 DEF Next

\* For any collections and contents: a cache that passes for fresh was fetched
\* to its last page within the TTL, collection by collection.
THEOREM FreshCacheIsRecent == Spec => []FreshIsRecent
<1>1. CacheInv => FreshIsRecent
    BY DEF CacheInv, FreshIsRecent, CacheIsFresh
<1>2. QED
    BY <1>1, InitCache, CacheKeeps, PTL DEF Spec

-----------------------------------------------------------------------------
(* A synchronisation nothing interferes with. *)

\* What a collection has of a list: the pages asked for, or all within reach.
HasPart(state, k, list) ==
    /\ state.mode = "asking" =>
         IF k \in Paged
         THEN /\ state.page \in Nat \ {0} /\ state.page <= MaxPages
              /\ (state.page - 1) * PageSize <= Len(list)
              /\ state.items = SubSeq(list, 1, (state.page - 1) * PageSize)
         ELSE state.items = <<>>
    /\ state.mode = "live" => state.items = Reached(k, list)

\* Only collections that are asked for have a request under way, ...
AskingInv ==
    \A k \in Collections :
        /\ fetch[k].mode = "asking" => sync = "others" \/ (sync = "contacts" /\ k = Contacts)
        /\ fetch[k].mode # "asking" => agents[k] = Idle

\* ... and as long as the connection stays the same it is for its tenant.
AsksConnected(k) ==
    /\ agents[k].step \in {"ready", "refreshing", "granted"} => agents[k].tenant \in Connected
    /\ agents[k].step = "prepared" \/ fetch[k].mode = "none" => Connected = {}
    /\ \A t \in Connected : HasPart(fetch[k], k, books[t][k])

BooksInv ==
    /\ books = [t \in Tenants |-> [k \in Collections |-> books[t][k]]]
    /\ \A t \in Tenants, k \in Collections : books[t][k] \in Lists[k]

QuietInv == quiet /\ Running => \A k \in Collections : AsksConnected(k)

FetchInv == BooksInv /\ AskingInv /\ QuietInv

\* A page that is full continues the list, and any other ends it.
LEMMA PageExtends ==
    ASSUME NEW list, list \in Seq(Range(list)), NEW p \in Nat \ {0},
           (p - 1) * PageSize <= Len(list)
    PROVE  /\ Len(PageOf(list, p)) = PageSize =>
                /\ p * PageSize <= Len(list)
                /\ SubSeq(list, 1, (p - 1) * PageSize) \o PageOf(list, p) = SubSeq(list, 1, p * PageSize)
           /\ Len(PageOf(list, p)) # PageSize =>
                SubSeq(list, 1, (p - 1) * PageSize) \o PageOf(list, p) = list
<1> DEFINE m == (p - 1) * PageSize
           n == p * PageSize
           e == Min({n, Len(list)})
           before == SubSeq(list, 1, m)
           page == SubSeq(list, m + 1, e)
<1>1. m \in Nat /\ n = m + PageSize /\ n \in Nat /\ PageSize \in Nat \ {0}
    BY PageAssumption
<1>2. Len(list) \in Nat /\ m <= Len(list)
    OBVIOUS
<1>3. PageOf(list, p) = page
    BY DEF PageOf
<1>4. e \in {n, Len(list)} /\ e <= n /\ e <= Len(list)
    <2> HIDE DEF n
    <2>1. \E x \in {n, Len(list)} : \A y \in {n, Len(list)} : x =< y
        BY <1>1, <1>2
    <2>2. QED
        BY <2>1 DEF Min
<1> HIDE DEF m, n, e
<1>5. e \in Nat /\ m <= e
    BY <1>1, <1>2, <1>4
<1>6. before \in Seq(Range(list)) /\ Len(before) = m /\ \A i \in 1..m : before[i] = list[i]
    BY <1>1, <1>2
<1>7. page \in Seq(Range(list)) /\ Len(page) = e - m /\ \A i \in 1..(e - m) : page[i] = list[m + i]
    BY <1>1, <1>2, <1>4, <1>5
<1>8. before \o page = SubSeq(list, 1, e)
    <2>1. SubSeq(list, 1, e) \in Seq(Range(list)) /\ Len(SubSeq(list, 1, e)) = e
          /\ \A i \in 1..e : SubSeq(list, 1, e)[i] = list[i]
        BY <1>2, <1>4, <1>5
    <2>2. before \o page \in Seq(Range(list)) /\ Len(before \o page) = e
        <3> HIDE DEF before, page
        <3>1. before \in Seq(Range(list)) /\ page \in Seq(Range(list))
            BY <1>6, <1>7
        <3>2. before \o page \in Seq(Range(list)) /\ Len(before \o page) = Len(before) + Len(page)
            BY <3>1
        <3>3. m + (e - m) = e
            BY <1>1, <1>5
        <3>4. QED
            BY <1>6, <1>7, <3>2, <3>3
    <2>3. \A i \in 1..e : (before \o page)[i] = IF i <= m THEN before[i] ELSE page[i - m]
        BY <1>1, <1>5, <1>6, <1>7, ConcatProperties
    <2>4. ASSUME NEW i \in 1..e PROVE (before \o page)[i] = SubSeq(list, 1, e)[i]
        <3>1. CASE i <= m
            BY <1>1, <1>6, <2>1, <2>3, <3>1
        <3>2. CASE i > m
            <4>1. i - m \in 1..(e - m) /\ m + (i - m) = i
                BY <1>1, <1>5, <3>2
            <4>2. page[i - m] = list[i]
                BY <1>7, <4>1
            <4>3. QED
                BY <2>1, <2>3, <3>2, <4>2, <1>1
        <3>3. i <= m \/ i > m
            BY <1>1, <1>5
        <3>4. QED
            BY <3>1, <3>2, <3>3
    <2>5. QED
        BY <2>1, <2>2, <2>4, SeqEqual
<1>9. CASE e = n
    <2>1. Len(page) = PageSize /\ n <= Len(list)
        BY <1>1, <1>2, <1>4, <1>7, <1>9
    <2>2. before \o page = SubSeq(list, 1, n)
        BY <1>8, <1>9
    <2> HIDE DEF before, page
    <2>3. QED
        BY <1>3, <2>1, <2>2 DEF n, before, m
<1>10. CASE e # n
    <2>1. e = Len(list) /\ e < n
        BY <1>1, <1>2, <1>4, <1>10
    <2>2. SubSeq(list, 1, e) = list
        BY <1>2, <2>1
    <2>3. Len(page) # PageSize
        BY <1>1, <1>5, <1>7, <2>1
    <2>4. QED
        BY <1>3, <1>8, <2>2, <2>3 DEF m
<1>11. QED
    BY <1>9, <1>10

\* Each id once, none of the sheet.
Proper(list) ==
    /\ list \in Seq(Range(list))
    /\ \A m, n \in DOMAIN list : list[m].id = list[n].id => m = n
    /\ \A n \in DOMAIN list : list[n].id \notin DOMAIN Sheet

LEMMA ListFacts ==
    ASSUME NEW k \in Collections, NEW list \in Lists[k]
    PROVE  Proper(list)
BY ListsAssumption DEF Proper

LEMMA Fewer ==
    ASSUME NEW m \in Nat, NEW n \in Nat
    PROVE  /\ Min({m, n}) \in {m, n} /\ Min({m, n}) \in Nat
           /\ Min({m, n}) <= m /\ Min({m, n}) <= n
<1>1. \E x \in {m, n} : \A y \in {m, n} : x =< y
    OBVIOUS
<1>2. Min({m, n}) \in {m, n} /\ \A y \in {m, n} : Min({m, n}) =< y
    BY <1>1 DEF Min
<1>3. QED
    BY <1>2

\* What is within reach of a list is such a list.
LEMMA ReachedFacts ==
    ASSUME NEW k \in Collections, NEW list \in Lists[k]
    PROVE  Proper(Reached(k, list))
<1>1. Proper(list)
    BY ListFacts
<1>2. CASE k \notin Paged
    BY <1>1, <1>2 DEF Reached
<1>3. CASE k \in Paged
    <2> DEFINE bound == MaxPages * PageSize
               e == Min({bound, Len(list)})
               part == SubSeq(list, 1, e)
    <2>1. bound \in Nat /\ Len(list) \in Nat /\ list \in Seq(Range(list))
        BY <1>1, PageAssumption DEF Proper
    <2> HIDE DEF bound
    <2>2. e \in Nat /\ e <= Len(list)
        BY <2>1, Fewer
    <2> HIDE DEF e
    <2>3. part \in Seq(Range(list)) /\ Len(part) = e /\ \A i \in 1..e : part[i] = list[i]
        BY <2>1, <2>2
    <2> HIDE DEF part
    <2>4. DOMAIN part = 1..e /\ DOMAIN list = 1..Len(list) /\ 1..e \subseteq 1..Len(list)
        BY <2>1, <2>2, <2>3
    <2>5. part \in Seq(Range(part))
        <3>1. \A i \in 1..Len(part) : part[i] \in Range(part)
            BY <2>3, <2>4 DEF Range
        <3>2. part = [i \in 1..Len(part) |-> part[i]]
            BY <2>3
        <3>3. QED
            BY <2>2, <2>3, <3>1, <3>2
    <2>6. Proper(part)
        BY <1>1, <2>3, <2>4, <2>5 DEF Proper
    <2>7. QED
        BY <1>3, <2>6 DEF Reached, part, e, bound
<1>4. QED
    BY <1>2, <1>3

\* An agent that asks does so for the one connected tenant, if there is one.
LEMMA AskedFor ==
    ASSUME ConnectionTypeOK, NEW c \in Agents, Ask(c)
    PROVE  /\ agents'[c].step \in {"prepared", "ready", "failed", "refreshing"}
           /\ agents'[c].step = "prepared" => Connected = {}
           /\ agents'[c].step \in {"ready", "refreshing"} => agents'[c].tenant \in Connected
           /\ \A d \in Agents : d # c => agents'[d] = agents[d]
<1>1. /\ agents' = [agents EXCEPT ![c] = IF latest = NoTenant THEN Prepared ELSE Access(latest)]
      /\ agents \in [Agents -> AgentStates]
    BY AgentsTyped DEF Ask, Becomes
<1>2. agents'[c] = IF latest = NoTenant THEN Prepared ELSE Access(latest)
    BY <1>1
<1>3. CASE latest = NoTenant
    BY <1>1, <1>2, <1>3, TenantAssumption, Steps DEF Connected
<1>4. CASE latest # NoTenant
    <2>1. latest \in Tenants
        BY <1>4 DEF ConnectionTypeOK
    <2>2. CASE rows[latest].status # "connected"
        BY <1>1, <1>2, <1>4, <2>2, Steps DEF Connected, Access
    <2>3. CASE rows[latest].status = "connected"
        <3>1. latest \in Connected
            BY <2>1, <2>3 DEF Connected
        <3>2. agents'[c] \in {Ready(latest), Failed, Refreshing(latest, rows[latest].refresh)}
            BY <1>2, <1>4, <2>3 DEF Access
        <3>3. QED
            BY <1>1, <3>1, <3>2, Steps
    <2>4. QED
        BY <2>2, <2>3
<1>5. QED
    BY <1>3, <1>4

\* Renewing a token changes neither the agent's tenant nor another agent.
LEMMA RenewedFor ==
    ASSUME ConnectionTypeOK, NEW c \in Callers, Renewal(c)
    PROVE  /\ agents[c].step \in {"refreshing", "granted"}
           /\ agents'[c].step \in {"granted", "ready", "failed"}
           /\ agents'[c].step \in {"granted", "ready"} => agents'[c].tenant = agents[c].tenant
           /\ \A d \in Agents : d # c => agents'[d] = agents[d]
<1>1. c \in Agents /\ c # Callback /\ agents \in [Agents -> AgentStates]
    BY CallbackAssumption, AgentsTyped DEF Agents
<1>2. ASSUME NEW state, Becomes(c, state)
      PROVE  agents'[c] = state /\ \A d \in Agents : d # c => agents'[d] = agents[d]
    BY <1>1, <1>2 DEF Becomes
<1>3. CASE XeroRotates(c)
    BY <1>2, <1>3, Steps DEF XeroRotates
<1>4. CASE XeroKeeps(c)
    BY <1>2, <1>4, Steps DEF XeroKeeps
<1>5. CASE RefreshFails(c) \/ RefreshAnswerLost(c)
    BY <1>2, <1>5, Steps DEF RefreshFails, RefreshAnswerLost
<1>6. CASE Store(c)
    BY <1>1, <1>2, <1>6, Steps DEF Store
<1>7. CASE StoreFails(c)
    BY <1>1, <1>2, <1>7, Steps DEF StoreFails
<1>8. QED
    BY <1>3, <1>4, <1>5, <1>6, <1>7 DEF Renewal

\* What begins has nothing of any list.
LEMMA NothingYet ==
    ASSUME NEW k \in Collections, NEW list \in Lists[k]
    PROVE  HasPart(Asking, k, list) /\ HasPart(Waiting, k, list)
<1>1. /\ Asking.page = 1 /\ Asking.items = <<>> /\ Asking.mode = "asking"
      /\ Waiting.mode = "waiting"
    BY DEF Asking, Waiting
<1>2. list \in Seq(Range(list)) /\ Len(list) \in Nat
    BY ListFacts DEF Proper
<1>3. (1 - 1) * PageSize = 0 /\ SubSeq(list, 1, 0) = <<>>
    BY <1>2, PageAssumption
<1>4. 1 <= MaxPages
    BY PageAssumption
<1>5. QED
    BY <1>1, <1>2, <1>3, <1>4 DEF HasPart

LEMMA InitFetch == Init => FetchInv
<1> SUFFICES ASSUME Init PROVE FetchInv
    OBVIOUS
<1>1. BooksInv
    BY ListsAssumption DEF Init, BooksInv
<1>2. \A k \in Collections : fetch[k].mode = "waiting" /\ agents[k] = Idle
    BY CollectionsAssumption DEF Init, ConnectionInit, Waiting, Agents
<1>3. QED
    BY <1>1, <1>2 DEF Init, FetchInv, AskingInv, QuietInv, Running

LEMMA BeginKeeps ==
    ASSUME ConnectionTypeOK, FetchInv, NEW force \in BOOLEAN, BeginSync(force)
    PROVE  FetchInv'
<1>1. /\ ~Running /\ UNCHANGED <<agents, rows, latest, books>>
      /\ fetch' = [k \in Collections |-> IF k = Contacts THEN Asking ELSE Waiting]
      /\ sync' = "contacts"
    BY DEF BeginSync, connectionVars
<1>2. \A k \in Collections : agents'[k] = Idle
    BY <1>1 DEF FetchInv, AskingInv, Running
<1>3. BooksInv'
    BY <1>1 DEF FetchInv, BooksInv
<1>4. ASSUME NEW k \in Collections PROVE AsksConnected(k)'
    <2>1. agents'[k].step = "idle" /\ (fetch'[k] = Asking \/ fetch'[k] = Waiting)
        BY <1>1, <1>2, Steps
    <2>2. fetch'[k].mode # "none"
        BY <2>1 DEF Asking, Waiting
    <2>3. ASSUME NEW t \in Connected' PROVE HasPart(fetch'[k], k, books'[t][k])
        <3>1. t \in Tenants /\ books'[t][k] \in Lists[k]
            BY <1>3 DEF Connected, BooksInv
        <3>2. QED
            BY <2>1, <3>1, NothingYet
    <2>4. QED
        BY <2>1, <2>2, <2>3 DEF AsksConnected
<1>5. AskingInv'
    BY <1>1, <1>2 DEF AskingInv, Waiting
<1>6. QED
    BY <1>3, <1>4, <1>5 DEF FetchInv, QuietInv

LEMMA AskKeeps ==
    ASSUME ConnectionTypeOK, FetchInv, NEW k \in Collections, AskFor(k)
    PROVE  FetchInv'
<1>1. /\ k \in Agents /\ Ask(k) /\ fetch[k].mode = "asking"
      /\ UNCHANGED <<rows, latest, books, fetch, sync, quiet>>
    BY CollectionsAssumption DEF AskFor, Ask, referenceVars, Agents
<1>2. Connected' = Connected /\ \A j \in Collections : j \in Agents
    BY <1>1, CollectionsAssumption DEF Connected, Agents
<1>3. \A j \in Collections : AsksConnected(j) => AsksConnected(j)'
    BY <1>1, <1>2, AskedFor DEF AsksConnected
<1>4. QED
    BY <1>1, <1>2, <1>3, AskedFor DEF FetchInv, BooksInv, AskingInv, QuietInv, Running

\* The last page that is asked for, when it is full, ends what is within reach.
LEMMA ReachedInFull ==
    ASSUME NEW k \in Paged, NEW list, list \in Seq(Range(list)),
           MaxPages * PageSize <= Len(list)
    PROVE  Reached(k, list) = SubSeq(list, 1, MaxPages * PageSize)
<1> DEFINE bound == MaxPages * PageSize
<1>1. bound \in Nat /\ Len(list) \in Nat /\ bound <= Len(list)
    BY PageAssumption
<1> HIDE DEF bound
<1>2. Min({bound, Len(list)}) = bound
    BY <1>1, Fewer
<1>3. QED
    BY <1>2 DEF Reached, bound

\* A list that ends on a page that may be asked for is within reach.
LEMMA ReachedShort ==
    ASSUME NEW k \in Paged, NEW list, list \in Seq(Range(list)),
           NEW p \in Nat \ {0}, p <= MaxPages, (p - 1) * PageSize <= Len(list),
           Len(PageOf(list, p)) # PageSize
    PROVE  Reached(k, list) = list
<1> DEFINE m == (p - 1) * PageSize
           n == p * PageSize
           bound == MaxPages * PageSize
           e == Min({n, Len(list)})
<1>1. /\ m \in Nat /\ n = m + PageSize /\ n \in Nat /\ PageSize \in Nat \ {0}
      /\ bound \in Nat /\ n <= bound
    <2>1. MaxPages - p \in Nat /\ bound = n + (MaxPages - p) * PageSize /\ (MaxPages - p) * PageSize >= 0
        BY PageAssumption
    <2>2. QED
        BY <2>1, PageAssumption
<1>2. Len(list) \in Nat /\ m <= Len(list) /\ PageOf(list, p) = SubSeq(list, m + 1, e)
    BY DEF PageOf
<1> HIDE DEF m, n, bound
<1>3. e \in {n, Len(list)} /\ e \in Nat /\ e <= n /\ e <= Len(list) /\ m <= e
    BY <1>1, <1>2, Fewer
<1> HIDE DEF e
<1>4. Len(SubSeq(list, m + 1, e)) = e - m
    BY <1>1, <1>2, <1>3
<1>5. Len(list) <= bound
    BY <1>1, <1>2, <1>3, <1>4
<1>6. Min({bound, Len(list)}) = Len(list)
    BY <1>1, <1>2, <1>5, Fewer
<1>7. SubSeq(list, 1, Len(list)) = list
    OBVIOUS
<1>8. QED
    BY <1>6, <1>7 DEF Reached, bound

\* An answer adds the next page of the list, or the rest within reach.
LEMMA PartAnswered ==
    ASSUME NEW k \in Collections, NEW list \in Lists[k],
           HasPart(fetch[k], k, list), fetch[k].mode = "asking"
    PROVE  /\ HasPart(Answered(k, list), k, list)
           /\ Answered(k, list).mode \in {"asking", "live"}
<1> DEFINE p == fetch[k].page
           got == PageOf(list, p)
           items == SubSeq(list, 1, (p - 1) * PageSize) \o got
<1>1. list \in Seq(Range(list))
    BY ListFacts DEF Proper
<1>2. CASE k \notin Paged
    <2>1. fetch[k].items = <<>> /\ <<>> \o list = list
        BY <1>1, <1>2 DEF HasPart
    <2>2. Answered(k, list) = [page |-> p, items |-> list, mode |-> "live"]
        BY <1>2, <2>1 DEF Answered
    <2>3. QED
        BY <1>2, <2>2 DEF HasPart, Reached
<1>3. CASE k \in Paged
    <2>1. /\ p \in Nat \ {0} /\ p <= MaxPages /\ (p - 1) * PageSize <= Len(list)
          /\ fetch[k].items = SubSeq(list, 1, (p - 1) * PageSize)
        BY <1>3 DEF HasPart
    <2>2. Answered(k, list) = IF Len(got) = PageSize /\ p < MaxPages
                              THEN [page |-> p + 1, items |-> items, mode |-> "asking"]
                              ELSE [page |-> p, items |-> items, mode |-> "live"]
        BY <1>3, <2>1 DEF Answered
    <2>3. /\ Len(got) = PageSize => /\ p * PageSize <= Len(list)
                                    /\ items = SubSeq(list, 1, p * PageSize)
          /\ Len(got) # PageSize => items = list
        BY <1>1, <2>1, PageExtends
    <2>4. p + 1 \in Nat \ {0} /\ (p + 1) - 1 = p /\ (p < MaxPages => p + 1 <= MaxPages)
        BY <2>1, PageAssumption
    <2>5. p = MaxPages /\ p * PageSize <= Len(list) => Reached(k, list) = SubSeq(list, 1, p * PageSize)
        BY <1>1, <1>3, ReachedInFull
    <2>6. Len(got) # PageSize => Reached(k, list) = list
        BY <1>1, <1>3, <2>1, ReachedShort
    <2> HIDE DEF p, got, items
    <2>7. CASE Len(got) = PageSize /\ p < MaxPages
        BY <1>3, <2>2, <2>3, <2>4, <2>7 DEF HasPart
    <2>8. CASE Len(got) = PageSize /\ p = MaxPages
        <3>1. items = Reached(k, list)
            BY <2>3, <2>5, <2>8
        <3>2. Answered(k, list) = [page |-> p, items |-> items, mode |-> "live"]
            BY <2>2, <2>8, PageAssumption
        <3>3. QED
            BY <3>1, <3>2 DEF HasPart
    <2>9. CASE Len(got) # PageSize
        <3>1. items = Reached(k, list)
            BY <2>3, <2>6, <2>9
        <3>2. Answered(k, list) = [page |-> p, items |-> items, mode |-> "live"]
            BY <2>2, <2>9
        <3>3. QED
            BY <3>1, <3>2 DEF HasPart
    <2>10. p < MaxPages \/ p = MaxPages
        BY <2>1, PageAssumption DEF p
    <2>11. QED
        BY <2>7, <2>8, <2>9, <2>10
<1>4. QED
    BY <1>2, <1>3

\* A request ended, and this is what the collection has now.
LEMMA ReturnKeeps ==
    ASSUME ConnectionTypeOK, CacheInv, FetchInv, NEW k \in Collections, NEW state,
           Returns(k), Progress(k, state), fetch[k].mode = "asking",
           quiet => /\ state.mode = "none" => Connected = {}
                    /\ \A t \in Connected : HasPart(state, k, books[t][k])
    PROVE  FetchInv'
<1>1. /\ k \in Agents /\ UNCHANGED <<rows, latest, books, sync, quiet>>
      /\ agents' = [agents EXCEPT ![k] = Idle] /\ agents \in [Agents -> AgentStates]
      /\ fetch' = [j \in Collections |-> IF j = k THEN state ELSE fetch[j]]
      /\ \A j \in Collections : j \in Agents
    BY CollectionsAssumption, AgentsTyped DEF Returns, Progress, Becomes, Agents, CacheInv
<1>2. agents'[k] = Idle /\ \A j \in Agents : j # k => agents'[j] = agents[j]
    BY <1>1
<1>3. Running' = Running /\ Running /\ Connected' = Connected
    BY <1>1 DEF Running, FetchInv, AskingInv, Connected
<1>4. BooksInv'
    BY <1>1 DEF FetchInv, BooksInv
<1>5. AskingInv'
    BY <1>1, <1>2, <1>3 DEF FetchInv, AskingInv
<1>6. QuietInv'
    <2> SUFFICES ASSUME quiet, NEW j \in Collections PROVE AsksConnected(j)'
        BY <1>1, <1>3 DEF QuietInv
    <2>1. CASE j = k
        BY <1>1, <1>2, <1>3, <2>1, Steps DEF AsksConnected, FetchInv
    <2>2. CASE j # k
        BY <1>1, <1>2, <1>3, <2>2 DEF AsksConnected, FetchInv, QuietInv
    <2>3. QED
        BY <2>1, <2>2
<1>7. QED
    BY <1>4, <1>5, <1>6 DEF FetchInv

LEMMA AnswerKeeps ==
    ASSUME ConnectionTypeOK, CacheInv, FetchInv, NEW k \in Collections, Fetches(k) \/ NotFetched(k)
    PROVE  FetchInv'
<1> DEFINE f == fetch[k]
           failed == [f EXCEPT !.mode = "failed"]
<1>1. f = [page |-> f.page, items |-> f.items, mode |-> f.mode]
    BY DEF CacheInv
<1>2. failed.mode = "failed" /\ \A list : HasPart(failed, k, list)
    BY <1>1 DEF HasPart
<1>3. Unanswered(k).mode = "none"
    BY <1>1 DEF Unanswered
<1>4. f.mode = "asking" /\ Running /\ Returns(k)
    BY DEF Fetches, NotFetched, FetchInv, AskingInv, Running
<1>5. CASE Fetches(k) /\ Progress(k, failed)
    BY <1>2, <1>4, <1>5, ReturnKeeps
<1>6. CASE Fetches(k) /\ Progress(k, Answered(k, books[agents[k].tenant][k]))
    <2> DEFINE state == Answered(k, books[agents[k].tenant][k])
    <2>1. ASSUME quiet, NEW t \in Connected
          PROVE  HasPart(state, k, books[t][k])
        <3>1. AsksConnected(k) /\ agents[k].step = "ready"
            BY <1>4, <1>6, <2>1 DEF FetchInv, QuietInv, Fetches
        <3>2. agents[k].tenant = t /\ t \in Tenants
            BY <3>1 DEF AsksConnected, Connected
        <3>3. books[t][k] \in Lists[k] /\ HasPart(f, k, books[t][k])
            BY <3>1, <3>2 DEF AsksConnected, FetchInv, BooksInv
        <3>4. QED
            BY <1>4, <3>2, <3>3, PartAnswered
    <2>2. state.mode # "none"
        BY DEF Answered
    <2> HIDE DEF state
    <2>3. Progress(k, state)
        BY <1>6 DEF state
    <2>4. QED
        BY <1>4, <2>1, <2>2, <2>3, ReturnKeeps
<1>7. CASE NotFetched(k) /\ agents[k].step = "prepared"
    <2>1. Progress(k, Unanswered(k))
        BY <1>7 DEF NotFetched
    <2>2. quiet => Connected = {}
        BY <1>4, <1>7 DEF FetchInv, QuietInv, AsksConnected
    <2>3. QED
        BY <1>4, <2>1, <2>2, ReturnKeeps
<1>8. CASE NotFetched(k) /\ agents[k].step # "prepared"
    <2>1. Progress(k, failed)
        BY <1>8 DEF NotFetched
    <2>2. QED
        BY <1>2, <1>4, <2>1, ReturnKeeps
<1>9. QED
    BY <1>5, <1>6, <1>7, <1>8 DEF Fetches

LEMMA ContactsKeep ==
    ASSUME ConnectionTypeOK, FetchInv, ContactsCame
    PROVE  FetchInv'
<1>1. /\ UNCHANGED <<agents, rows, latest, books, quiet>> /\ sync = "contacts"
      /\ Connected' = Connected /\ Running
    BY DEF ContactsCame, connectionVars, Connected, Running
<1>2. BooksInv'
    BY <1>1 DEF FetchInv, BooksInv
<1>3. CASE sync' = "unsynced" /\ UNCHANGED fetch
    <2>1. \A k \in Collections : fetch[k].mode # "asking" \/ k # Contacts
        BY DEF ContactsCame, Settled
    <2>2. QED
        BY <1>1, <1>2, <1>3, <2>1 DEF FetchInv, AskingInv, QuietInv, Running
<1>4. CASE /\ sync' = "others"
           /\ fetch' = [k \in Collections |-> IF k = Contacts THEN fetch[k] ELSE Asking]
    <2>1. Asking.mode = "asking" /\ Running'
        BY <1>4 DEF Asking, Running
    <2>2. AskingInv'
        BY <1>1, <1>4, <2>1 DEF FetchInv, AskingInv
    <2>3. ASSUME quiet, NEW k \in Collections PROVE AsksConnected(k)'
        <3>1. AsksConnected(k)
            BY <1>1, <2>3 DEF FetchInv, QuietInv
        <3>2. CASE k = Contacts
            BY <1>1, <1>4, <3>1, <3>2 DEF AsksConnected
        <3>3. CASE k # Contacts
            <4>1. fetch'[k] = Asking
                BY <1>4, <3>3
            <4>2. \A t \in Connected : HasPart(fetch'[k], k, books[t][k])
                BY <4>1, NothingYet DEF FetchInv, BooksInv, Connected
            <4>3. QED
                BY <1>1, <2>1, <3>1, <4>1, <4>2 DEF AsksConnected
        <3>4. QED
            BY <3>2, <3>3
    <2>4. QED
        BY <1>1, <1>2, <2>2, <2>3 DEF FetchInv, QuietInv
<1>5. QED
    BY <1>3, <1>4 DEF ContactsCame

LEMMA OthersKeep ==
    ASSUME ConnectionTypeOK, FetchInv, Others
    PROVE  FetchInv'
<1>1. /\ UNCHANGED <<books, fetch, sync>> /\ Running' = Running
      /\ quiet' => quiet /\ Connected' = Connected
    BY DEF Others, Running
<1>2. /\ agents \in [Agents -> AgentStates]
      /\ \A k \in Collections : k \in Callers /\ k \in Agents /\ k # Callback
    BY CollectionsAssumption, CallbackAssumption, AgentsTyped DEF Agents
\* The request of a collection stays as it is or is renewed for its tenant.
<1>3. ASSUME NEW k \in Collections
      PROVE  \/ agents'[k] = agents[k]
             \/ /\ agents[k].step \in {"refreshing", "granted"}
                /\ agents'[k].step \in {"granted", "ready", "failed"}
                /\ agents'[k].step \in {"granted", "ready"} => agents'[k].tenant = agents[k].tenant
    <2>1. ASSUME NEW c \in Callers \ Collections, Ask(c) \/ Returns(c) PROVE agents'[k] = agents[k]
        BY <1>2, <2>1 DEF Ask, Returns, Becomes
    <2>2. CASE \E c \in Agents : Renewal(c)
        <3>1. PICK c \in Agents : Renewal(c)
            BY <2>2
        <3>2. CASE c = Callback
            BY <1>2, <3>1, <3>2 DEF Renewal, XeroRotates, XeroKeeps, RefreshFails, RefreshAnswerLost,
                                    Store, StoreFails, Becomes
        <3>3. CASE c # Callback
            <4>1. c \in Callers
                BY <3>3 DEF Agents
            <4>2. QED
                BY <1>2, <3>1, <4>1, RenewedFor
        <3>4. QED
            BY <3>2, <3>3
    <2>3. CASE Disconnect \/ \E t \in Tenants : Expires(t) \/ Exchange(t)
        BY <1>2, <2>3 DEF Disconnect, Expires, Exchange, Becomes
    <2>4. QED
        BY <2>1, <2>2, <2>3 DEF Others, ConnectionStep
<1>4. BooksInv'
    BY <1>1 DEF FetchInv, BooksInv
<1>5. AskingInv'
    BY <1>1, <1>3, Steps DEF FetchInv, AskingInv
<1>6. ASSUME quiet', Running, NEW k \in Collections PROVE AsksConnected(k)'
    <2>1. AsksConnected(k)
        BY <1>1, <1>6 DEF FetchInv, QuietInv
    <2>2. QED
        BY <1>1, <1>3, <1>6, <2>1 DEF AsksConnected
<1>7. QED
    BY <1>1, <1>4, <1>5, <1>6 DEF FetchInv, QuietInv

LEMMA FetchInvKeeps == ConnectionTypeOK /\ CacheInv /\ FetchInv /\ [Next]_vars => FetchInv'
<1> SUFFICES ASSUME ConnectionTypeOK, CacheInv, FetchInv, [Next]_vars PROVE FetchInv'
    OBVIOUS
<1>1. ASSUME NEW force \in BOOLEAN, BeginSync(force) PROVE FetchInv'
    BY <1>1, BeginKeeps
<1>2. ASSUME NEW k \in Collections, AskFor(k) \/ Fetches(k) \/ NotFetched(k) PROVE FetchInv'
    BY <1>2, AskKeeps, AnswerKeeps
<1>3. CASE ContactsCame
    BY <1>3, ContactsKeep
<1>4. CASE StoreReference \/ SyncFails
    <2>1. /\ UNCHANGED <<agents, books, fetch>> /\ ~Running'
          /\ \A k \in Collections : fetch[k].mode # "asking"
        BY <1>4 DEF StoreReference, SyncFails, Settled, Running, connectionVars
    <2>2. QED
        BY <2>1 DEF FetchInv, BooksInv, AskingInv, QuietInv
<1>5. CASE Others
    BY <1>5, OthersKeep
<1>6. CASE Exit
    <2>1. /\ agents' = [c \in Agents |-> Idle] /\ fetch' = [k \in Collections |-> Waiting]
          /\ books' = books /\ ~Running'
        BY <1>6 DEF Exit, Restart, Running
    <2>2. \A k \in Collections : agents'[k] = Idle /\ fetch'[k].mode = "waiting"
        BY <2>1, CollectionsAssumption DEF Agents, Waiting
    <2>3. QED
        BY <2>1, <2>2 DEF FetchInv, BooksInv, AskingInv, QuietInv
<1>7. ASSUME NEW t \in Tenants, NEW k \in Collections, XeroChanges(t, k) PROVE FetchInv'
    <2>1. PICK list \in Lists[k] : books' = [books EXCEPT ![t][k] = list]
        BY <1>7 DEF XeroChanges
    <2>2. books' = [u \in Tenants |-> [j \in Collections |->
                       IF u = t /\ j = k THEN list ELSE books[u][j]]]
        BY <2>1 DEF FetchInv, BooksInv
    <2>3. BooksInv'
        BY <2>2 DEF FetchInv, BooksInv
    <2>4. QED
        BY <1>7, <2>3 DEF XeroChanges, FetchInv, AskingInv, QuietInv, connectionVars
<1>8. ASSUME (\E k \in Collections : TtlPasses(k)) \/ UNCHANGED vars PROVE FetchInv'
    <2>1. UNCHANGED <<agents, rows, latest, books, fetch, sync, quiet>>
        BY <1>8 DEF TtlPasses, vars, connectionVars, referenceVars
    <2>2. QED
        BY <2>1 DEF FetchInv, BooksInv, AskingInv, QuietInv, AsksConnected, Connected, Running
<1>9. QED
    BY <1>1, <1>2, <1>3, <1>4, <1>5, <1>6, <1>7, <1>8 DEF Next

\* Everything listed has a row with its value once it is stored.
LEMMA StoredAsListed ==
    ASSUME NEW k \in Collections, NEW list, Proper(list), NEW n \in DOMAIN list
    PROVE  LET after == Upserted(k, list)
               kept == WithoutSheet(after, list)
           IN  /\ list[n].id \in DOMAIN after /\ after[list[n].id].value = list[n].value
               /\ list[n].id \in DOMAIN kept /\ kept[list[n].id].value = list[n].value
<1> DEFINE id == list[n].id
           at == { m \in DOMAIN list : list[m].id = id }
<1>1. at = {n} /\ id \notin DOMAIN Sheet /\ n \in Nat
    BY DEF Proper
<1>2. Max(at) = n
    <2>1. \E x \in {n} : \A y \in {n} : x >= y
        BY <1>1
    <2>2. QED
        BY <1>1, <2>1 DEF Max
<1>3. id \in { i.id : i \in Range(list) }
    BY DEF Range
<1>4. id \in DOMAIN Upserted(k, list)
    BY <1>3 DEF Upserted
<1>5. Upserted(k, list)[id] = StoredRow(list[n].value, TRUE)
    BY <1>1, <1>2, <1>3 DEF Upserted
<1>6. /\ id \in DOMAIN WithoutSheet(Upserted(k, list), list)
      /\ WithoutSheet(Upserted(k, list), list)[id] = Upserted(k, list)[id]
    BY <1>1, <1>4 DEF WithoutSheet
<1>7. QED
    BY <1>4, <1>5, <1>6 DEF StoredRow

\* For any tenants, collections, lists and pages, and whoever else renews
\* the token meanwhile: a synchronisation that succeeded, with nothing changed
\* at Xero or with the connection, shows every entry within reach, of a kind that is
\* shown, as Xero lists it.
THEOREM QuietSyncsShowXero == Spec => QuietSyncShowsXero
<1> DEFINE Shows == sync = "others" /\ sync' = "synced" /\ quiet =>
                        \A t \in Connected : \A k \in Collections : \A i \in Range(Reached(k, books[t][k])) :
                            /\ i.id \in DOMAIN tables'[k] /\ tables'[k][i.id].value = i.value
                            /\ i.id \in Shown(k)' <=> i.value \notin Unlisted[k]
<1>1. FetchInv /\ [Next]_vars => [Shows]_vars
    <2> SUFFICES ASSUME FetchInv, Next, sync = "others", sync' = "synced", quiet,
                        NEW t \in Connected, NEW k \in Collections,
                        NEW i \in Range(Reached(k, books[t][k]))
                 PROVE  /\ i.id \in DOMAIN tables'[k] /\ tables'[k][i.id].value = i.value
                        /\ i.id \in Shown(k)' <=> i.value \notin Unlisted[k]
        OBVIOUS
    <2> DEFINE list == Reached(k, books[t][k])
    <2>1. StoreReference
        BY DEF Next, BeginSync, AskFor, Fetches, NotFetched, Progress, ContactsCame, SyncFails, Others,
               Exit, XeroChanges, TtlPasses, referenceVars, Running
    <2>2. AsksConnected(k) /\ t \in Tenants
        BY DEF FetchInv, QuietInv, Running, Connected
    <2>3. fetch[k].mode = "live"
        BY <2>1, <2>2 DEF StoreReference, AsksConnected
    <2>4. fetch[k].items = list /\ Proper(list)
        BY <2>2, <2>3, ReachedFacts DEF AsksConnected, HasPart, FetchInv, BooksInv
    <2>5. PICK n \in DOMAIN list : i = list[n]
        BY DEF Range
    <2> HIDE DEF list
    <2>6. tables'[k] \in {Upserted(k, list), WithoutSheet(Upserted(k, list), list)}
        BY <2>1, <2>4 DEF StoreReference
    <2>7. i.id \in DOMAIN tables'[k] /\ tables'[k][i.id].value = i.value
        BY <2>4, <2>5, <2>6, StoredAsListed
    <2>8. i.id \notin DOMAIN Sheet
        BY <2>4, <2>5 DEF Proper
    <2>9. QED
        BY <2>7, <2>8 DEF Shown, Live
<1>2. ConnectionInv => ConnectionTypeOK
    BY DEF ConnectionInv
<1>3. Spec => [][Shows]_vars
    BY <1>1, <1>2, InitConnection, ConnectionKeeps, InitCache, CacheKeeps, InitFetch, FetchInvKeeps, PTL DEF Spec
<1>4. QED
    BY <1>3 DEF QuietSyncShowsXero

=============================================================================
