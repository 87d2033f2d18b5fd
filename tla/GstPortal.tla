----------------------------- MODULE GstPortal -----------------------------
(***************************************************************************)
(* The GST portal (demos/gst-portal): browser sessions with a form token,  *)
(* the life of an invoice, the MSME classification of an enterprise, and   *)
(* what the MCP tools answer.                                              *)
(*                                                                         *)
(* A mutating request first reads its session (resolve_browser_scope and   *)
(* verify_csrf) and works from that reading: the tab next to it may switch *)
(* the enterprise, rotate the token or sign out before the request         *)
(* commits.  The request also writes last_seen_at to the session row, so a *)
(* sign-out in between makes it fail.                                      *)
(*                                                                         *)
(* Left out: audit and outbox rows, wording, and If-Match (a request with  *)
(* an old version is refused, so only current ones appear; the version is  *)
(* a function of the status).  Money is in paise.                          *)
(***************************************************************************)
EXTENDS Integers, FiniteSets

CONSTANTS
    GstUsers, Enterprises,
    RolesOf,        \* RolesOf[u][e]: roles of u's membership in e, {} for none
    FirstOf,        \* FirstOf[u]: the membership create_browser_session takes
    BrowserSessions, Tabs, GstRequests,
    Invoices,
    InvoiceSeed,    \* what the seed stores of an invoice: status, owner, total
    InvoiceLines,   \* lines a new invoice may have: quantity in thousandths, amounts in
                    \* paise, rate in hundredths of a percent
    Queries,
    MatchesOf,      \* MatchesOf[q]: invoices whose number, buyer name or buyer GSTIN contains q
    DatedAt,        \* invoice_date, which never changes, as the number and the buyer
    BuyerOf,        \* buyer_gstin
    Figures,        \* investment and turnover of an enterprise
    Declared, Categories,
    Nobody

VARIABLES
    gstSession,     \* rows of browser_sessions
    gstRequest,     \* mutating requests between their reading and their commit
    invoice,        \* rows of invoices
    statusHistory,  \* rows of invoice_status_history, without the seed's
    latestSnapshot, \* the newest classification snapshot of an enterprise
    effectiveOf     \* effective_classification of the enterprise row

gstVars == <<gstSession, gstRequest, invoice, statusHistory, latestSnapshot, effectiveOf>>

ASSUME GstAssumption ==
    /\ RolesOf \in [GstUsers -> [Enterprises -> SUBSET {"GST_VIEWER", "GST_OPERATOR", "GST_REVIEWER"}]]
    /\ \A u \in GstUsers : FirstOf[u] \in Enterprises /\ RolesOf[u][FirstOf[u]] # {}
    /\ Nobody \notin GstUsers \cup Tabs \cup Enterprises \cup Invoices
    /\ InvoiceSeed \in [Invoices -> [status : {"NONE", "DRAFT", "SUBMITTED", "REGISTERED", "REJECTED",
                                   "CANCELLED"}, owner : Enterprises \cup {Nobody}, total : Nat]]
    /\ InvoiceLines \subseteq
         [quantity : Nat, price : Nat, discount : Nat, rate : Nat, intra : BOOLEAN]
    /\ MatchesOf \in [Queries -> SUBSET Invoices]
    /\ DatedAt \in [Invoices -> Nat]
    /\ Declared \in [Enterprises -> Categories]

-----------------------------------------------------------------------------
\* Amounts.  Decimal.quantize(0.01, ROUND_HALF_UP) of n / d: half goes away from zero.
RoundHalfUp(n, d) == IF n >= 0 THEN (2 * n + d) \div (2 * d) ELSE -((d - 2 * n) \div (2 * d))

\* The tax of a line, split within a state and not across states.
CalculateLine(line) ==
    LET taxable == RoundHalfUp(line.quantity * line.price - 1000 * line.discount, 1000)
        tax == RoundHalfUp(taxable * line.rate, 10000)
        cgst == IF line.intra THEN RoundHalfUp(tax, 2) ELSE 0
    IN  [taxable |-> taxable, tax |-> tax, cgst |-> cgst,
         sgst |-> IF line.intra THEN tax - cgst ELSE 0,
         igst |-> IF line.intra THEN 0 ELSE tax]

\* Thresholds in lakh rupees.
ClassifyMsme(investment, turnover) ==
    IF investment <= 250 /\ turnover <= 1000 THEN "MICRO"
    ELSE IF investment <= 2500 /\ turnover <= 10000 THEN "SMALL"
    ELSE IF investment <= 12500 /\ turnover <= 50000 THEN "MEDIUM"
    ELSE "OUTSIDE_MSME_LIMITS"

-----------------------------------------------------------------------------
\* An invoice moves along these arrows, each for one role.
InvoiceTransitions ==
    [submit   |-> [from |-> "DRAFT",      to |-> "SUBMITTED",  role |-> "GST_OPERATOR"],
     register |-> [from |-> "SUBMITTED",  to |-> "REGISTERED", role |-> "GST_REVIEWER"],
     reject   |-> [from |-> "SUBMITTED",  to |-> "REJECTED",   role |-> "GST_REVIEWER"],
     cancel   |-> [from |-> "REGISTERED", to |-> "CANCELLED",  role |-> "GST_REVIEWER"]]

InvoiceStatuses == {"NONE", "DRAFT", "SUBMITTED", "REGISTERED", "REJECTED", "CANCELLED"}
NoRequest == [step |-> "idle", session |-> Nobody, user |-> Nobody, enterprise |-> Nobody,
              loaded |-> Nobody]
Snapshots == [effective : Categories, verification : {"VERIFIED", "REVIEW_REQUIRED"}]


SessionRows == [state : {"LIVE", "EXPIRED"}, user : GstUsers, enterprise : Enterprises, csrf : Tabs]
                 \cup [state : {"NONE", "DELETED"}, user : {Nobody}, enterprise : {Nobody}, csrf : {Nobody}]
RequestRows ==
    [step : {"resolved"}, session : BrowserSessions, user : GstUsers, enterprise : Enterprises,
     loaded : {Nobody}]
    \cup [step : {"read"}, session : BrowserSessions, user : GstUsers, enterprise : Enterprises,
           loaded : Snapshots]
InvoiceRows == [status : InvoiceStatuses, owner : Enterprises \cup {Nobody}, total : Int]

GstTypeOK ==
    /\ gstSession \in [BrowserSessions -> SessionRows]
    /\ gstRequest \in [GstRequests -> RequestRows \cup {NoRequest}]
    /\ invoice \in [Invoices -> InvoiceRows]
    /\ statusHistory \subseteq Invoices \X InvoiceStatuses \X GstUsers
    /\ latestSnapshot \in [Enterprises -> Snapshots]
    /\ effectiveOf \in [Enterprises -> Categories]

GstInit ==
    /\ gstSession = [b \in BrowserSessions |->
                       [state |-> "NONE", user |-> Nobody, enterprise |-> Nobody, csrf |-> Nobody]]
    /\ gstRequest = [r \in GstRequests |-> NoRequest]
    /\ invoice = InvoiceSeed
    /\ statusHistory = {}
    /\ latestSnapshot = [e \in Enterprises |->
                           [effective |-> Declared[e], verification |-> "VERIFIED"]]
    /\ effectiveOf = Declared

-----------------------------------------------------------------------------
\* Sessions.  The form token is known to the tab that received it.
Login(b, u, t) ==
    /\ gstSession[b].state = "NONE"
    /\ gstSession' = [gstSession EXCEPT ![b] =
         [state |-> "LIVE", user |-> u, enterprise |-> FirstOf[u], csrf |-> t]]
    /\ UNCHANGED <<gstRequest, invoice, statusHistory, latestSnapshot, effectiveOf>>

\* A session keeps its user.
SessionRow(b, state, enterprise, csrf) ==
    [state |-> state, user |-> gstSession[b].user, enterprise |-> enterprise, csrf |-> csrf]

\* GET /auth/session hands a new token to the tab that asks.
ViewSession(b, t) ==
    /\ gstSession[b].state = "LIVE"
    /\ gstSession' = [gstSession EXCEPT ![b] = SessionRow(b, "LIVE", gstSession[b].enterprise, t)]
    /\ UNCHANGED <<gstRequest, invoice, statusHistory, latestSnapshot, effectiveOf>>

Logout(b, t) ==
    /\ gstSession[b].state = "LIVE" /\ gstSession[b].csrf = t
    /\ gstSession' = [gstSession EXCEPT ![b] =
         [state |-> "DELETED", user |-> Nobody, enterprise |-> Nobody, csrf |-> Nobody]]
    /\ UNCHANGED <<gstRequest, invoice, statusHistory, latestSnapshot, effectiveOf>>

\* The token stays: the other pages of the tab now act for another enterprise.
SwitchEnterprise(b, t, e) ==
    /\ gstSession[b].state = "LIVE" /\ gstSession[b].csrf = t
    /\ RolesOf[gstSession[b].user][e] # {}
    /\ gstSession' = [gstSession EXCEPT ![b] = SessionRow(b, "LIVE", e, t)]
    /\ UNCHANGED <<gstRequest, invoice, statusHistory, latestSnapshot, effectiveOf>>

SessionExpires(b) ==
    /\ gstSession[b].state = "LIVE"
    /\ gstSession' = [gstSession EXCEPT ![b] =
         SessionRow(b, "EXPIRED", gstSession[b].enterprise, gstSession[b].csrf)]
    /\ UNCHANGED <<gstRequest, invoice, statusHistory, latestSnapshot, effectiveOf>>

-----------------------------------------------------------------------------
\* A mutating request reads its session and checks the form token.
ResolveScope(r, b, t) ==
    /\ gstRequest[r] = NoRequest
    /\ gstSession[b].state = "LIVE" /\ gstSession[b].csrf = t
    /\ gstRequest' = [gstRequest EXCEPT ![r] =
         [step |-> "resolved", session |-> b, user |-> gstSession[b].user,
          enterprise |-> gstSession[b].enterprise, loaded |-> Nobody]]
    /\ UNCHANGED <<gstSession, invoice, statusHistory, latestSnapshot, effectiveOf>>

\* An exception: the transaction is rolled back.
RequestFails(r) ==
    /\ gstRequest[r] # NoRequest
    /\ gstRequest' = [gstRequest EXCEPT ![r] = NoRequest]
    /\ UNCHANGED <<gstSession, invoice, statusHistory, latestSnapshot, effectiveOf>>

HasRole(r, role) == role \in RolesOf[gstRequest[r].user][gstRequest[r].enterprise]

\* The commit updates last_seen_at of the session row, which must exist.
Commits(r) ==
    /\ gstSession[gstRequest[r].session].state # "DELETED"
    /\ gstRequest' = [gstRequest EXCEPT ![r] = NoRequest]
    /\ UNCHANGED gstSession

CreateInvoice(r, i, line) ==
    /\ gstRequest[r].step = "resolved" /\ HasRole(r, "GST_OPERATOR")
    /\ invoice[i].status = "NONE"
    /\ LET a == CalculateLine(line)
       IN  /\ a.taxable >= 0
           /\ invoice' = [invoice EXCEPT ![i] =
                [status |-> "DRAFT", owner |-> gstRequest[r].enterprise,
                 total |-> a.taxable + a.cgst + a.sgst + a.igst]]
    /\ statusHistory' = statusHistory \cup {<<i, "DRAFT", gstRequest[r].user>>}
    /\ Commits(r)
    /\ UNCHANGED <<latestSnapshot, effectiveOf>>

\* Mutated form: an invoice is looked up by its id alone.
VisibleByIdOnly(r, i) == invoice[i].status # "NONE"

\* _invoice: the lookup under the row lock is confined to the scope's enterprise.
Visible(r, i) == invoice[i].status # "NONE" /\ invoice[i].owner = gstRequest[r].enterprise

TransitionInvoice(r, i, action) ==
    LET move == InvoiceTransitions[action]
    IN  /\ gstRequest[r].step = "resolved" /\ Visible(r, i)
        /\ HasRole(r, move.role) /\ invoice[i].status = move.from
        /\ invoice' = [invoice EXCEPT ![i] =
             [status |-> move.to, owner |-> invoice[i].owner, total |-> invoice[i].total]]
        /\ statusHistory' = statusHistory \cup {<<i, move.to, gstRequest[r].user>>}
        /\ Commits(r)
        /\ UNCHANGED <<latestSnapshot, effectiveOf>>

\* Both classification commands start from the newest snapshot, read without a lock.
ReadSnapshot(r) ==
    /\ gstRequest[r].step = "resolved" /\ HasRole(r, "GST_REVIEWER")
    /\ gstRequest' = [gstRequest EXCEPT ![r] =
         [step |-> "read", session |-> gstRequest[r].session, user |-> gstRequest[r].user,
          enterprise |-> gstRequest[r].enterprise,
          loaded |-> latestSnapshot[gstRequest[r].enterprise]]]
    /\ UNCHANGED <<gstSession, invoice, statusHistory, latestSnapshot, effectiveOf>>

RecalculateClassification(r) ==
    LET e == gstRequest[r].enterprise
        calculated == ClassifyMsme(Figures[e].investment, Figures[e].turnover)
    IN  /\ gstRequest[r].step = "read"
        /\ latestSnapshot' = [latestSnapshot EXCEPT ![e] =
             [effective |-> gstRequest[r].loaded.effective,
              verification |-> IF calculated = Declared[e] THEN "VERIFIED" ELSE "REVIEW_REQUIRED"]]
        /\ Commits(r)
        /\ UNCHANGED <<invoice, statusHistory, effectiveOf>>

ReviewClassification(r, category) ==
    LET e == gstRequest[r].enterprise
    IN  /\ gstRequest[r].step = "read"
        /\ latestSnapshot' = [latestSnapshot EXCEPT ![e] =
             [effective |-> category, verification |-> "VERIFIED"]]
        /\ effectiveOf' = [effectiveOf EXCEPT ![e] = category]
        /\ Commits(r)
        /\ UNCHANGED <<invoice, statusHistory>>

\* The steps of some users, tabs and requests, with reviews for some categories.
GstSteps(users, tabs, requests, categories) ==
    \/ \E b \in BrowserSessions, t \in tabs :
         \/ \E u \in users : Login(b, u, t)
         \/ ViewSession(b, t)
         \/ Logout(b, t)
         \/ \E e \in Enterprises : SwitchEnterprise(b, t, e)
         \/ \E r \in requests : ResolveScope(r, b, t)
    \/ \E b \in BrowserSessions : SessionExpires(b)
    \/ \E r \in requests :
         \/ RequestFails(r)
         \/ \E i \in Invoices, line \in InvoiceLines : CreateInvoice(r, i, line)
         \/ \E i \in Invoices, action \in DOMAIN InvoiceTransitions : TransitionInvoice(r, i, action)
         \/ ReadSnapshot(r)
         \/ RecalculateClassification(r)
         \/ \E category \in categories : ReviewClassification(r, category)

GstNext == GstSteps(GstUsers, Tabs, GstRequests, Categories)

GstSpec == GstInit /\ [][GstNext]_gstVars

-----------------------------------------------------------------------------
(* What the MCP tools answer, in the scope of one enterprise. *)

InvoiceGet(e, i) == invoice[i].owner = e /\ invoice[i].status # "NONE"

\* A part of the number, of the buyer's name or of its GSTIN is enough.
InvoiceSearch(e, query, status) ==
    {i \in MatchesOf[query] : InvoiceGet(e, i) /\ invoice[i].status = status}

\* The rows come newest first, in any order within a day: the first is one of these.
FirstItems(found) == {i \in found : \A j \in found : DatedAt[j] <= DatedAt[i]}

\* verified compares what was claimed (not the number); eligible asks for
\* REGISTERED whatever was claimed.
InvoiceVerify(e, i, claim) ==
    [verified |-> /\ InvoiceGet(e, i) /\ invoice[i].total = claim.total
                  /\ BuyerOf[i] = claim.buyer /\ invoice[i].status = claim.status,
     eligible |-> InvoiceGet(e, i) /\ invoice[i].status = "REGISTERED"]

GetClassification(e) == latestSnapshot[e].verification

-----------------------------------------------------------------------------
\* Whoever moved an invoice held the role for that move in the invoice's own
\* enterprise, whatever the session's other tabs did between the reading of
\* the session and the commit (resolve_browser_scope, _invoice, require_roles).
MovedByOwnStaff ==
    \A row \in statusHistory :
      \/ row[2] = "DRAFT" /\ "GST_OPERATOR" \in RolesOf[row[3]][invoice[row[1]].owner]
      \/ \E a \in DOMAIN InvoiceTransitions :
           /\ InvoiceTransitions[a].to = row[2]
           /\ InvoiceTransitions[a].role \in RolesOf[row[3]][invoice[row[1]].owner]
=============================================================================
