--------------------------- MODULE XeroConnection ---------------------------
(***************************************************************************)
(* The connection to Xero: the rows of xero_connections, the tokens in     *)
(* them, and whoever uses, renews, makes or ends a connection.             *)
(* server/xeroClient.js, the Xero routes of server/index.js.               *)
(*                                                                         *)
(* A refresh token is a number, in the order Xero issued them.  Xero takes *)
(* each once and answers with its successor; the code also copes with an   *)
(* answer that has none.  An access token is good or due for renewal.      *)
(***************************************************************************)
EXTENDS Integers, FiniteSets

CONSTANTS
    Tenants,     \* organisations at Xero
    Callers,     \* requests to Xero that may run at the same time
    Callback,    \* the handler of the answer to an authorization
    NoTenant, NoToken,
    MaxTokens,   \* bound: tokens Xero issues
    MaxRestarts  \* bound: exits of the process

ASSUME CallbackAssumption == Callback \notin Callers
ASSUME TenantAssumption == NoTenant \notin Tenants
ASSUME TokenAssumption == NoToken \notin Nat

Agents == Callers \cup {Callback}

VARIABLES
    usable,      \* refresh tokens Xero takes
    issued,      \* the last token it issued
    orphaned,    \* tokens spent for an answer nobody keeps
    rows,        \* xero_connections, a row for a tenant
    latest,      \* the tenant whose row was updated last
    agents,      \* what each agent is doing
    restarts

connectionVars == <<usable, issued, orphaned, rows, latest, agents, restarts>>

Token == 1..issued

Row == [ status : {"none", "connected", "disconnected"},
         refresh : Nat \cup {NoToken}, fresh : BOOLEAN ]

NoRow == [status |-> "none", refresh |-> NoToken, fresh |-> FALSE]

Idle == [step |-> "idle"]
Failed == [step |-> "failed"]
Prepared == [step |-> "prepared"]
Ready(t) == [step |-> "ready", tenant |-> t]
Refreshing(t, token) == [step |-> "refreshing", tenant |-> t, token |-> token]
\* The token that was sent is spent if there is a new one.
Granted(t, sent, token) ==
    [step |-> "granted", tenant |-> t, sent |-> sent, token |-> token]

Becomes(c, state) == agents' = [agents EXCEPT ![c] = state]

-----------------------------------------------------------------------------
(* A request reads the connection and renews its token if need be.         *)

\* Mutation of Access: an empty token is sent, too.
AccessUnchecked(t) ==
    IF rows[t].status # "connected" THEN Prepared
    ELSE IF rows[t].fresh THEN Ready(t)
    ELSE Refreshing(t, rows[t].refresh)

\* accessTokenForLiveSend
Access(t) ==
    IF rows[t].status # "connected" THEN Prepared
    ELSE IF rows[t].fresh THEN Ready(t)
    ELSE IF rows[t].refresh = NoToken THEN Failed
    ELSE Refreshing(t, rows[t].refresh)

Ask(c) ==
    /\ agents[c] = Idle
    /\ Becomes(c, IF latest = NoTenant THEN Prepared ELSE Access(latest))
    /\ UNCHANGED <<usable, issued, orphaned, rows, latest, restarts>>

\* refreshConnectionToken, at Xero.
Spend(token) ==
    /\ issued < MaxTokens
    /\ issued' = issued + 1
    /\ usable' = (usable \ {token}) \cup {issued'}

XeroRotates(c) ==
    /\ agents[c].step = "refreshing"
    /\ agents[c].token \in usable
    /\ Spend(agents[c].token)
    /\ Becomes(c, Granted(agents[c].tenant, agents[c].token, issued'))
    /\ UNCHANGED <<orphaned, rows, latest, restarts>>

XeroKeeps(c) ==
    /\ agents[c].step = "refreshing"
    /\ agents[c].token \in usable
    /\ Becomes(c, Granted(agents[c].tenant, agents[c].token, NoToken))
    /\ UNCHANGED <<usable, issued, orphaned, rows, latest, restarts>>

\* Xero refuses, or does not hear of it.
RefreshFails(c) ==
    /\ agents[c].step = "refreshing"
    /\ Becomes(c, Failed)
    /\ UNCHANGED <<usable, issued, orphaned, rows, latest, restarts>>

RefreshAnswerLost(c) ==
    /\ agents[c].step = "refreshing"
    /\ agents[c].token \in usable
    /\ Spend(agents[c].token)
    /\ orphaned' = orphaned \cup {agents[c].token}
    /\ Becomes(c, Failed)
    /\ UNCHANGED <<rows, latest, restarts>>

\* Mutation of Kept: without a new token the one that was used is written.
KeptAsRead(call) == IF call.token = NoToken THEN call.sent ELSE call.token

\* Without a new token the row keeps what it has by now, not what was read.
Kept(call) == IF call.token = NoToken THEN rows[call.tenant].refresh ELSE call.token

\* storeConnection
Store(c) ==
    /\ agents[c].step = "granted"
    /\ rows' = [rows EXCEPT ![agents[c].tenant] =
                  [status |-> "connected", refresh |-> Kept(agents[c]), fresh |-> TRUE]]
    /\ latest' = agents[c].tenant
    /\ Becomes(c, IF c = Callback THEN Idle ELSE Ready(agents[c].tenant))
    /\ UNCHANGED <<usable, issued, orphaned, restarts>>

\* Tokens spent for successors that are in the hands of these agents.
SpentBy(C) ==
    { agents[c].sent : c \in { d \in C : agents[d].step = "granted" /\ agents[d].token # NoToken } }
    \ {NoToken}

StoreFails(c) ==
    /\ agents[c].step = "granted"
    /\ orphaned' = orphaned \cup SpentBy({c})
    /\ Becomes(c, IF c = Callback THEN Idle ELSE Failed)
    /\ UNCHANGED <<usable, issued, rows, latest, restarts>>

Expires(t) ==
    /\ rows[t].fresh
    /\ rows' = [rows EXCEPT ![t].fresh = FALSE]
    /\ UNCHANGED <<usable, issued, orphaned, latest, agents, restarts>>

Renewal(c) ==
    \/ XeroRotates(c) \/ XeroKeeps(c) \/ RefreshFails(c) \/ RefreshAnswerLost(c)
    \/ Store(c) \/ StoreFails(c)

-----------------------------------------------------------------------------
(* Connecting and disconnecting. *)

\* handleXeroCallback.  The state of the authorization is proved by a cookie
\* or by the memory of the process, so that an exit does not end it.
Exchange(t) ==
    /\ agents[Callback] = Idle
    /\ issued < MaxTokens
    /\ issued' = issued + 1
    /\ usable' = usable \cup {issued'}
    /\ Becomes(Callback, Granted(t, NoToken, issued'))
    /\ UNCHANGED <<orphaned, rows, latest, restarts>>

\* All connected rows get the same time; the latest is one of them.
Disconnect ==
    LET connected == { t \in Tenants : rows[t].status = "connected" } IN
    /\ connected # {}
    /\ rows' = [t \in Tenants |->
                  IF t \in connected
                  THEN [NoRow EXCEPT !.status = "disconnected"]
                  ELSE rows[t]]
    /\ UNCHANGED <<usable, issued, orphaned, latest, agents, restarts>>

\* The process ends and starts again.
Restart ==
    /\ restarts < MaxRestarts
    /\ restarts' = restarts + 1
    /\ orphaned' = orphaned \cup SpentBy(Agents)
    /\ agents' = [c \in Agents |-> Idle]
    /\ UNCHANGED <<usable, issued, rows, latest>>

\* The request itself, sent or not.
Returns(c) ==
    /\ agents[c].step \in {"ready", "prepared", "failed"}
    /\ Becomes(c, Idle)
    /\ UNCHANGED <<usable, issued, orphaned, rows, latest, restarts>>

ConnectionInit ==
    /\ usable = {}
    /\ issued = 0
    /\ orphaned = {}
    /\ rows = [t \in Tenants |-> NoRow]
    /\ latest = NoTenant
    /\ agents = [c \in Agents |-> Idle]
    /\ restarts = 0

\* Everything but the requests and exits, which others have a part in.
ConnectionStep ==
    \/ \E c \in Agents : Renewal(c)
    \/ \E t \in Tenants : Expires(t) \/ Exchange(t)
    \/ Disconnect

-----------------------------------------------------------------------------
(* Properties. *)

\* What an agent may be doing.
AgentStates ==
    {Idle, Failed, Prepared}
    \cup { Ready(t) : t \in Tenants }
    \cup { Refreshing(t, k) : t \in Tenants, k \in Token }
    \cup { Granted(t, s, k) : t \in Tenants, s \in Token \cup {NoToken}, k \in Token \cup {NoToken} }

\* Every row, token and request is what the code takes it for: a request to
\* Xero always carries a token (xeroClient.js:350).
ConnectionTypeOK ==
    /\ usable \subseteq Token /\ issued \in Nat /\ orphaned \subseteq Token
    /\ rows \in [Tenants -> Row]
    /\ latest \in Tenants \cup {NoTenant}
    /\ agents \in [Agents -> AgentStates]
    /\ \A t \in Tenants : rows[t].refresh \in Token \cup {NoToken}

\* However many requests renew the token at once, while somebody connects or
\* disconnects: a connection holds a refresh token Xero takes, or one whose
\* successor is about to be stored, unless that successor was lost
\* (xeroClient.js:282, 394).
RowIsAlive ==
    \A t \in Tenants :
        rows[t].status = "connected" /\ rows[t].refresh # NoToken
            => rows[t].refresh \in usable \cup SpentBy(Agents) \cup orphaned

=============================================================================
