------------------------------ MODULE LiveDemo ------------------------------
(***************************************************************************)
(* The live demo route (apps/api/routes/demo.py): read-only requests that  *)
(* gather evidence from the demo platforms, one MCP call after the other,  *)
(* and end in a verdict.  A judge trace verifies an invoice or tours six   *)
(* platforms, a PDF scan checks the claims of a clean document, an         *)
(* operations snapshot opens the funding gate, a live proof asks whether   *)
(* the platform's parts answer.                                            *)
(*                                                                         *)
(* Every call is awaited: the platforms change between two calls of one    *)
(* request.  A call reads the platform's own state, through the operators  *)
(* of its module; its Guardian outcome and its success are free.  An       *)
(* invoice is looked for by the text that names it, and the first row that *)
(* the search returns is the one that is checked.  Bank and ledger reads   *)
(* are external.  Requests share nothing but a rate limit, which only      *)
(* refuses, so one at a time is enough.  Left out: that limit, and the     *)
(* model's summary, which is advisory and decides nothing.                 *)
(***************************************************************************)
EXTENDS GstPortal, BusinessRegistry, BuyerErp, Delivery, Sequences

CONSTANTS
    Subjects,    \* what may be asked: kind, and the records and claims it names
    GstScope     \* the enterprise of the demo's tool scope

ASSUME DemoAssumption ==
    \A s \in Subjects :
      /\ s.kind \in {"invoice", "pdf", "network", "operations", "proof"}
      /\ s.kind # "proof" => s.query \in Queries
      /\ s.kind = "pdf" => s.threat \in {"none", "structure", "injection"} /\ s.complete \in BOOLEAN
      /\ s.kind \in {"network", "operations"} =>
           s.business \in Businesses /\ s.order \in Orders /\ s.delivery \in Deliveries

VARIABLE trace    \* the request under way or its result: its status, the calls made, the
                  \* invoice found, whether some and whether all calls supported it

demoVars == trace

-----------------------------------------------------------------------------
(* The calls of a request, in their order. *)

InvoicePlan == <<"gst.invoices.search", "gst.invoices.get", "gst.invoices.verify",
                 "gst.registrations.verify", "gst.enterprises.get_classification">>
PdfPlan == <<"gst.invoices.search", "gst.invoices.verify">>
NetworkPlan == <<"registry.businesses.verify", "gst.invoices.search", "erp.purchase_orders.get",
                 "delivery.deliveries.find_by_invoice", "bank.accounts.list",
                 "ledger.accounts.get_balance">>
OperationsPlan == <<"registry.businesses.get", "gst.invoices.search", "erp.purchase_orders.get",
                    "delivery.deliveries.find_by_invoice", "bank.accounts.get_balance",
                    "bank.transactions.list">>
\* The parts are asked at once, and the MCP registry with the database; any
\* order will do.
ProofPlan == <<"database", "mcp_gateway", "guardian", "model">>

Plans == [invoice |-> InvoicePlan, pdf |-> PdfPlan, network |-> NetworkPlan,
          operations |-> OperationsPlan, proof |-> ProofPlan]

\* Platforms called by the first n calls: one, or one more with every call.
PlatformCount(kind, n) == IF kind = "network" THEN n ELSE IF n = 0 THEN 0 ELSE 1

\* How a call ended: what the Guardian's newest decision says (MISSING without
\* one), whether it succeeded, whether its result carries an unexpected flag.
\* A call that is escalated fails as a blocked one does.
CallResults ==
    {[guardian |-> "ALLOW", done |-> TRUE, flagged |-> FALSE],
     [guardian |-> "ALLOW", done |-> TRUE, flagged |-> TRUE],
     [guardian |-> "ALLOW", done |-> FALSE, flagged |-> FALSE],
     [guardian |-> "BLOCK", done |-> FALSE, flagged |-> FALSE],
     [guardian |-> "MISSING", done |-> TRUE, flagged |-> FALSE]}

\* A step is verified when the call succeeded and the Guardian allowed it.
StepVerified(call) == call.done /\ call.guardian = "ALLOW"

-----------------------------------------------------------------------------
(* The risk of a judge trace. *)

RiskWeights == [READ |-> 5, SENSITIVE_READ |-> 15, MUTATE |-> 45, PRIVILEGED |-> 75, UNKNOWN |-> 90]
GuardianPoints == [ALLOW |-> 0, VERIFY |-> 8, ESCALATE |-> 20, BLOCK |-> 40, MISSING |-> 40]

\* The demo's tools are registered as SENSITIVE_READ; the class comes with the decision.
RiskClass(call) == IF call.guardian = "MISSING" THEN "UNKNOWN" ELSE "SENSITIVE_READ"

Subtotal(call) ==
    Min({100, RiskWeights[RiskClass(call)] + GuardianPoints[call.guardian]
                + (IF StepVerified(call) THEN 0 ELSE 15) + (IF call.flagged THEN 5 ELSE 0)})

RiskScore(kind, calls, n) ==
    LET highest == IF calls = {} THEN 100 ELSE Max({Subtotal(call) : call \in calls})
        breadth == Min({10, 2 * Max({0, PlatformCount(kind, n) - 1})})
        volume == Min({5, Max({0, n - 3})})
        reduction == IF calls # {} /\ \A call \in calls : StepVerified(call) /\ ~call.flagged
                     THEN 5 ELSE 0
    IN  Max({0, Min({100, highest + breadth + volume - reduction})})

RiskBand(score) ==
    CASE score <= 24 -> "LOW"
      [] score > 24 /\ score <= 49 -> "GUARDED"
      [] score > 49 /\ score <= 74 -> "HIGH"
      [] OTHER -> "CRITICAL"

-----------------------------------------------------------------------------
\* items[0]: the invoice that the calls after a search are about, Nobody
\* without one.
ItemOf(tool, s) ==
    LET found == InvoiceSearch(GstScope, s.query, s.search)
    IN  IF tool # "gst.invoices.search" THEN {trace.invoice}
        ELSE IF found = {} THEN {Nobody} ELSE FirstItems(found)

\* What a tool answers about the subject and the item now: whether it supports
\* the request.  The answer of a platform that is not modelled here is free.
Supports(tool, s, item, answer) ==
    CASE tool = "gst.invoices.search" -> item # Nobody
      [] tool = "gst.invoices.get" -> InvoiceGet(GstScope, item)
      [] tool = "gst.invoices.verify" ->
           LET result == InvoiceVerify(GstScope, item, s.claim)
           IN  result.verified /\ (s.kind = "invoice" => result.eligible)
      [] tool = "gst.enterprises.get_classification" -> GetClassification(GstScope) = "VERIFIED"
      [] tool = "registry.businesses.get" -> business[s.business].status # "NONE"
      [] tool = "registry.businesses.verify" -> BusinessVerify(s.business, s.record).verified
      [] tool = "erp.purchase_orders.get" -> order[s.order].status # "NONE"
      [] tool = "delivery.deliveries.find_by_invoice" -> deliveryStatus[s.delivery] # "NONE"
      [] OTHER -> answer

NoTrace == [status |-> "none"]

DemoInit == trace = NoTrace

\* A document is blocked for what its text asks and set aside for how it is
\* built, and one without the four claims is not checked: no tool is called.
Intake(s) ==
    CASE s.kind # "pdf" -> "running"
      [] s.kind = "pdf" /\ s.threat = "injection" -> "BLOCKED_PROMPT_INJECTION"
      [] s.kind = "pdf" /\ (s.threat = "structure" \/ ~s.complete) -> "REVIEW_REQUIRED"
      [] OTHER -> "running"

StartRequest(s) ==
    /\ trace.status # "running"
    /\ trace' = [subject |-> s, status |-> Intake(s), calls |-> {}, made |-> 0,
                 invoice |-> Nobody, some |-> FALSE, all |-> TRUE]

Plan == Plans[trace.subject.kind]

\* A trace stops with an error at a call that is not verified and at a search
\* that finds nothing; a scan leaves the document to a reviewer.
GivesUp(tool, call, found) ==
    ~StepVerified(call) \/ (tool = "gst.invoices.search" /\ ~found)

\* One awaited call.
InvokeTool(call, item, answer) ==
    LET s == trace.subject
        tool == Plan[trace.made + 1]
        found == StepVerified(call) /\ Supports(tool, s, item, answer)
    IN  /\ trace.status = "running" /\ trace.made < Len(Plan)
        /\ item \in ItemOf(tool, s)
        /\ trace' = [subject |-> s, calls |-> trace.calls \cup {call}, made |-> trace.made + 1,
                     invoice |-> IF found THEN item ELSE trace.invoice,
                     some |-> trace.some \/ found, all |-> trace.all /\ found,
                     status |-> IF ~GivesUp(tool, call, found) THEN "running"
                                ELSE IF s.kind = "invoice" THEN "error"
                                ELSE IF s.kind = "pdf" THEN "REVIEW_REQUIRED"
                                ELSE "running"]

-----------------------------------------------------------------------------
(* The verdict. *)

EveryCallVerified == \A call \in trace.calls : StepVerified(call)

\* Claims, registration, classification and every call must be in order.
InvoiceVerdict == IF trace.all THEN "verified" ELSE "not_verified"
\* The tour asks only that every call went through.
NetworkVerdict == IF EveryCallVerified THEN "verified" ELSE "not_verified"
ProofVerdict == IF EveryCallVerified THEN "verified" ELSE "degraded"
PdfVerdict == IF trace.all THEN "verified" ELSE "AMOUNT_MISMATCH"
\* The funding gate opens on "verified": every call found its record.
OperationsVerdict == IF trace.all THEN "verified" ELSE IF trace.some THEN "partial" ELSE "failed"

\* Mutated form: calls that succeeded count, with or without a record.
ConclusionByCalls == IF EveryCallVerified THEN "verified" ELSE "not_verified"

Conclusion ==
    CASE trace.subject.kind = "invoice" -> InvoiceVerdict
      [] trace.subject.kind = "network" -> NetworkVerdict
      [] trace.subject.kind = "operations" -> OperationsVerdict
      [] trace.subject.kind = "pdf" -> PdfVerdict
      [] OTHER -> ProofVerdict

Conclude ==
    /\ trace.status = "running" /\ trace.made = Len(Plan)
    /\ trace' = [subject |-> trace.subject, calls |-> trace.calls, made |-> trace.made,
                 invoice |-> trace.invoice, some |-> trace.some, all |-> trace.all, status |-> Conclusion]

DemoNext ==
    \/ \E s \in Subjects : StartRequest(s)
    \/ \E call \in CallResults, item \in Invoices \cup {Nobody}, answer \in BOOLEAN :
         InvokeTool(call, item, answer)
    \/ Conclude

-----------------------------------------------------------------------------
\* An invoice had a status: the seed stored it so, or somebody moved it there.
Was(i, status) ==
    InvoiceSeed[i].status = status \/ \E u \in GstUsers : <<i, status, u>> \in statusHistory

\* An invoice of the scope's own enterprise answers to the text that names it
\* and had a status.
OnRecord(i, s, status) ==
    i \in MatchesOf[s.query] /\ InvoiceGet(GstScope, i) /\ Was(i, status)

ClaimHolds(i, claim) == invoice[i].total = claim.total /\ BuyerOf[i] = claim.buyer

\* A verdict rests on the records: a verified request made every call of its
\* plan and the Guardian allowed each.  One invoice of the scope's enterprise,
\* found under the text that names it, was registered with the claimed total
\* and buyer; a verified document was clean and its claims were once true of
\* one such invoice; an open funding gate means that all the records exist,
\* although the platforms changed between the calls.  Nothing says that the
\* invoice bears the number: the text may be a part of it, or of the buyer's
\* name.  Only allowed calls that succeeded are rated LOW
\* (create_judge_trace, scan_judge_pdf, create_operations_snapshot,
\* invoice_search, invoice_verify, _calculate_trace_risk).
VerdictGrounded ==
    /\ trace.status = "verified" =>
         LET s == trace.subject
         IN  /\ trace.made = Len(Plan) /\ \A call \in trace.calls : StepVerified(call)
             /\ s.kind = "invoice" =>
                  OnRecord(trace.invoice, s, "REGISTERED") /\ ClaimHolds(trace.invoice, s.claim)
             /\ s.kind = "pdf" =>
                  /\ s.threat = "none" /\ s.complete
                  /\ OnRecord(trace.invoice, s, s.claim.status)
                  /\ ClaimHolds(trace.invoice, s.claim)
             /\ s.kind = "operations" =>
                  /\ OnRecord(trace.invoice, s, s.search)
                  /\ business[s.business].status # "NONE"
                  /\ order[s.order].status # "NONE" /\ deliveryStatus[s.delivery] # "NONE"
    /\ /\ trace.status # "none" /\ trace.subject.kind \in {"invoice", "network"}
       /\ RiskBand(RiskScore(trace.subject.kind, trace.calls, trace.made)) = "LOW"
       => \A call \in trace.calls : StepVerified(call)
=============================================================================
