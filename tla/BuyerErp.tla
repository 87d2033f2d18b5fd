------------------------------ MODULE BuyerErp ------------------------------
(***************************************************************************)
(* The buyer's ERP (demos/buyer-erp): purchase orders, receipts, supplier  *)
(* invoices known from signed GST events, the three-way match and its      *)
(* acceptance.                                                             *)
(*                                                                         *)
(* Sessions run at READ COMMITTED.  Orders, receipts and (in most places)  *)
(* matches are read under a row lock; supplier invoices never are, and     *)
(* consume_gst_event reads the match without one.  Reads and commit of     *)
(* such a request are two actions.  The ORM writes the columns that differ *)
(* from what it loaded, and a FOR UPDATE does not refresh an object that   *)
(* is already loaded: a match can be computed from terms of the invoice    *)
(* that a newer event has replaced, and its columns can come from two      *)
(* computations.  The history variable "outdated" tells where.             *)
(*                                                                         *)
(* One line per order at unit value one, tax included, so that quantities  *)
(* and values are the same numbers.  Left out: audit and outbox rows,      *)
(* discrepancy texts, and If-Match (a stale request changes nothing).      *)
(* GST events come from outside: a source that registers an invoice, may   *)
(* register a newer version on other terms, may cancel it, and whose       *)
(* events arrive late, twice or in another order.                          *)
(***************************************************************************)
EXTENDS Integers, FiniteSets, FiniteSetsExt, Functions

CONSTANTS
    Orders,
    Quantity,       \* Quantity[o]: ordered quantity, which is the order's total
    OrderSeeds,     \* statuses an order may start from: no row, or what the seed stores
    Receipts,
    SupplierInvoices,
    Parties,        \* pairs of seller and buyer GSTIN
    PartiesOf,      \* PartiesOf[o]: the pair of an order
    Terms,          \* terms an invoice may be registered on
    ErpRequests,
    MaxVersion,     \* bound: versions of an invoice at the GST source
    NoRow

VARIABLES
    order,          \* status, received and accepted quantity of the line
    receipt,        \* status, order, accepted and rejected quantity
    supplierInvoice,\* gst_status, source_version and terms, status "NONE" before it is known
    match,          \* status, supported_value and invoice_value
    acceptance,     \* accepted_amount, NoRow without an acceptance row
    gstSource,      \* external: the GST source's newest version, its status and terms
    gstEvents,      \* external: events the source has signed
    erpInbox,       \* ids of the events in inbox_events
    erpRequest,     \* requests between their reads and their commit
    outdated        \* history: invoices whose match rests on overtaken readings

erpVars == <<order, receipt, supplierInvoice, match, acceptance, gstSource, gstEvents,
             erpInbox, erpRequest, outdated>>

ASSUME ErpAssumption ==
    /\ Quantity \in [Orders -> Nat \ {0}] /\ PartiesOf \in [Orders -> Parties]
    /\ OrderSeeds \subseteq {"NONE", "SUBMITTED"}
    /\ Terms \subseteq [claimed : Nat \ {0}, order : Orders \cup {NoRow}, parties : Parties]
    /\ MaxVersion \in Nat /\ NoRow \notin Orders \cup Nat /\ IsFiniteSet(Receipts)

OrderStatuses == {"NONE", "DRAFT", "SUBMITTED", "APPROVED", "REJECTED", "CANCELLED",
                  "PARTIALLY_FULFILLED", "FULFILLED"}
MatchStatuses == {"NONE", "MISMATCHED", "PARTIAL_MATCH", "MATCHED", "ACCEPTED",
                  "PARTIALLY_ACCEPTED", "DISPUTED", "REVIEW_REQUIRED"}
AcceptedStatuses == {"ACCEPTED", "PARTIALLY_ACCEPTED"}
Idle == [op |-> "idle"]
NoTerms == [claimed |-> 0, order |-> NoRow, parties |-> NoRow]
NoInvoice == [status |-> "NONE", version |-> 0, terms |-> NoTerms]

ErpInit ==
    /\ order \in [Orders -> [status : OrderSeeds, received : {0}, accepted : {0}]]
    /\ receipt = [r \in Receipts |->
                    [status |-> "NONE", order |-> NoRow, accepted |-> 0, rejected |-> 0]]
    /\ supplierInvoice = [i \in SupplierInvoices |-> NoInvoice]
    /\ match = [i \in SupplierInvoices |-> [status |-> "NONE", supported |-> 0, value |-> 0]]
    /\ acceptance = [i \in SupplierInvoices |-> NoRow]
    /\ gstSource = [i \in SupplierInvoices |-> NoInvoice]
    /\ gstEvents = {} /\ erpInbox = {} /\ outdated = {}
    /\ erpRequest = [q \in ErpRequests |-> Idle]

-----------------------------------------------------------------------------
\* External: the GST source registers an invoice, again at a newer version and
\* perhaps on other terms, or cancels it for good.  An event is signed with
\* every change; the terms of its version are kept with it.
SourceChanges(i, type, terms) ==
    /\ gstSource[i].version < MaxVersion
    /\ gstSource[i].status # "CANCELLED"
    /\ type = "cancelled" => gstSource[i].status = "REGISTERED" /\ terms = gstSource[i].terms
    /\ gstSource' = [gstSource EXCEPT ![i] =
         [status |-> IF type = "cancelled" THEN "CANCELLED" ELSE "REGISTERED",
          version |-> gstSource[i].version + 1, terms |-> terms]]
    /\ gstEvents' = gstEvents \cup
         {[invoice |-> i, type |-> type, version |-> gstSource[i].version + 1, terms |-> terms]}
    /\ UNCHANGED <<order, receipt, supplierInvoice, match, acceptance, erpInbox, erpRequest, outdated>>

-----------------------------------------------------------------------------
\* The row locks of an open posting: its receipt and its order.
Locked(row) == \E q \in ErpRequests : erpRequest[q].op = "post"
                                      /\ row \in {erpRequest[q].receipt, erpRequest[q].order}

\* Buyer and supplier are approved counterparties in the seed and stay so.
CreatePurchaseOrder(o) ==
    /\ order[o].status = "NONE"
    /\ order' = [order EXCEPT ![o].status = "DRAFT"]
    /\ UNCHANGED <<receipt, supplierInvoice, match, acceptance, gstSource, gstEvents, erpInbox, erpRequest, outdated>>

OrderTransitions ==
    {<<"DRAFT", "SUBMITTED">>, <<"SUBMITTED", "APPROVED">>, <<"SUBMITTED", "REJECTED">>,
     <<"APPROVED", "CANCELLED">>, <<"PARTIALLY_FULFILLED", "CANCELLED">>}

\* Nothing recomputes the matches of a cancelled order.
TransitionPurchaseOrder(o, target) ==
    /\ ~Locked(o) /\ <<order[o].status, target>> \in OrderTransitions
    /\ order' = [order EXCEPT ![o].status = target]
    /\ UNCHANGED <<receipt, supplierInvoice, match, acceptance, gstSource, gstEvents, erpInbox, erpRequest, outdated>>

\* The remaining quantity is read without a lock: drafts do not reserve any of it.
CreateReceipt(r, o, accepted, rejected) ==
    /\ receipt[r].status = "NONE" /\ order[o].status \in {"APPROVED", "PARTIALLY_FULFILLED"}
    /\ accepted + rejected > 0 /\ accepted + rejected <= Quantity[o] - order[o].received
    /\ receipt' = [receipt EXCEPT ![r] =
         [status |-> "DRAFT", order |-> o, accepted |-> accepted, rejected |-> rejected]]
    /\ UNCHANGED <<order, supplierInvoice, match, acceptance, gstSource, gstEvents, erpInbox, erpRequest, outdated>>

-----------------------------------------------------------------------------
\* Mutated form: drafts count as received.
ReceiptsOfAnyDraft(o) == {r \in Receipts : receipt[r].order = o /\ receipt[r].status # "NONE"}

\* The receipts a match may rest on.
ReceiptsOf(o) == {r \in Receipts : receipt[r].order = o /\ receipt[r].status = "POSTED"}

OrderKnown(terms) == terms.order # NoRow /\ order[terms.order].status # "NONE"

AcceptedQuantity == [r \in Receipts |-> receipt[r].accepted]

\* _recalculate_match: what a match is worth, for the invoice as its session
\* loaded it, and for the order's status and posted receipts as it sees them.
Computed(terms, gst, o, posted) ==
    LET value == IF OrderKnown(terms) THEN SumFunctionOnSet(AcceptedQuantity, posted) ELSE 0
        supported == IF OrderKnown(terms)
                     THEN Min({terms.claimed, Quantity[terms.order], value}) ELSE 0
        sound == /\ OrderKnown(terms) /\ PartiesOf[terms.order] = terms.parties
                 /\ o \notin {"CANCELLED", "REJECTED"}
                 /\ posted # {} /\ gst = "REGISTERED"
    IN  [status |-> CASE ~sound -> "MISMATCHED"
                      [] sound /\ supported < terms.claimed -> "PARTIAL_MATCH"
                      [] OTHER -> "MATCHED",
         supported |-> supported, value |-> terms.claimed]

OrderStatusOf(terms) == IF OrderKnown(terms) THEN order[terms.order].status ELSE "NONE"
PostedFor(terms) == IF OrderKnown(terms) THEN ReceiptsOf(terms.order) ELSE {}

\* History: the matches of these invoices were computed anew, some of them
\* from readings that another request had overtaken.
Reckoned(anew, stale) == outdated' = (outdated \ anew) \cup stale

\* A column is written when it differs from what the session loaded.
Written(new, loaded, current) == IF new = loaded THEN current ELSE new

\* Posting locks the receipt and the order and reads the order's invoices.
BeginPost(q, r) ==
    /\ erpRequest[q] = Idle /\ receipt[r].status = "DRAFT"
    /\ ~Locked(r) /\ ~Locked(receipt[r].order)
    /\ erpRequest' = [erpRequest EXCEPT ![q] =
         [op |-> "post", receipt |-> r, order |-> receipt[r].order,
          known |-> {i \in SupplierInvoices : supplierInvoice[i].terms.order = receipt[r].order},
          rows |-> supplierInvoice]]
    /\ UNCHANGED <<order, receipt, supplierInvoice, match, acceptance, gstSource, gstEvents, erpInbox, outdated>>

\* Mutated form: a receipt is booked a second time by an overlapping request.
AddQuantityTwice(o, r) ==
    [received |-> order[o].received + 2 * (receipt[r].accepted + receipt[r].rejected),
     accepted |-> order[o].accepted + receipt[r].accepted]

AddQuantity(o, r) ==
    [received |-> order[o].received + receipt[r].accepted + receipt[r].rejected,
     accepted |-> order[o].accepted + receipt[r].accepted]

\* The matches are computed before the receipt is flushed and do not see it,
\* except those that follow the flush for a match that had to be created.
\* One accepted match refuses the posting.
CommitPost(q) ==
    /\ erpRequest[q].op = "post"
    /\ LET r == erpRequest[q].receipt
           o == erpRequest[q].order
           known == erpRequest[q].known
           rows == erpRequest[q].rows
           line == AddQuantity(o, r)
           status == IF line.accepted >= Quantity[o] THEN "FULFILLED" ELSE "PARTIALLY_FULFILLED"
       IN  /\ \A i \in known : match[i].status \notin AcceptedStatuses
           /\ receipt' = [receipt EXCEPT ![r].status = "POSTED"]
           /\ order' = [order EXCEPT ![o] =
                [status |-> status, received |-> line.received, accepted |-> line.accepted]]
           /\ \E late \in SUBSET known :
                /\ late # {} => \E i \in known \ late : match[i].status = "NONE"
                /\ match' = [i \in SupplierInvoices |->
                     IF i \in known
                     THEN Computed(rows[i].terms, rows[i].status, status,
                                   ReceiptsOf(o) \cup (IF i \in late THEN {r} ELSE {}))
                     ELSE match[i]]
           /\ Reckoned(known, {i \in known : rows[i].terms # supplierInvoice[i].terms})
    /\ erpRequest' = [erpRequest EXCEPT ![q] = Idle]
    /\ UNCHANGED <<supplierInvoice, acceptance, gstSource, gstEvents, erpInbox>>

\* An explicit recalculation reads the invoice, then locks the match.
BeginRecalculate(q, i) ==
    /\ erpRequest[q] = Idle /\ supplierInvoice[i].status # "NONE"
    /\ erpRequest' = [erpRequest EXCEPT ![q] =
         [op |-> "recalculate", invoice |-> i, row |-> supplierInvoice[i]]]
    /\ UNCHANGED <<order, receipt, supplierInvoice, match, acceptance, gstSource, gstEvents, erpInbox, outdated>>

CommitRecalculate(q) ==
    /\ erpRequest[q].op = "recalculate"
    /\ LET i == erpRequest[q].invoice
           row == erpRequest[q].row
       IN  /\ match[i].status \notin AcceptedStatuses
           /\ match' = [match EXCEPT ![i] =
                Computed(row.terms, row.status, OrderStatusOf(row.terms), PostedFor(row.terms))]
           /\ Reckoned({i}, IF row.terms # supplierInvoice[i].terms THEN {i} ELSE {})
    /\ erpRequest' = [erpRequest EXCEPT ![q] = Idle]
    /\ UNCHANGED <<order, receipt, supplierInvoice, acceptance, gstSource, gstEvents, erpInbox>>

\* The reviewer's verdict, under the lock of the match.  The GST status and the
\* claim of the invoice are not asked again.
AcceptMatch(i, amount) ==
    /\ match[i].status \in {"MATCHED", "PARTIAL_MATCH"}
    /\ amount \in 1..match[i].supported /\ acceptance[i] = NoRow
    /\ match' = [match EXCEPT ![i].status =
                   IF amount = match[i].value THEN "ACCEPTED" ELSE "PARTIALLY_ACCEPTED"]
    /\ acceptance' = [acceptance EXCEPT ![i] = amount]
    /\ UNCHANGED <<order, receipt, supplierInvoice, gstSource, gstEvents, erpInbox, erpRequest, outdated>>

DisputeMatch(i) ==
    /\ match[i].status \notin AcceptedStatuses \cup {"NONE"}
    /\ match' = [match EXCEPT ![i].status = "DISPUTED"]
    /\ UNCHANGED <<order, receipt, supplierInvoice, acceptance, gstSource, gstEvents, erpInbox, erpRequest, outdated>>

-----------------------------------------------------------------------------
\* A signed event arrives.  For one that registers an invoice the route asks
\* the GST service, when one is configured, for a snapshot of the invoice: its
\* terms are those of the newest version at that moment, which may be newer
\* than the event's.  Inbox, invoice and match are read without locks.
Fetched(e) ==
    {NoTerms} \cup {f.terms : f \in {g \in gstEvents : /\ e.type = "registered"
                                                     /\ g.invoice = e.invoice
                                                     /\ g.version >= e.version}}

BeginConsume(q, e, snapshot) ==
    /\ erpRequest[q] = Idle /\ e \in gstEvents \ erpInbox
    /\ snapshot \in Fetched(e)
    /\ erpRequest' = [erpRequest EXCEPT ![q] =
         [op |-> "consume", event |-> e, snapshot |-> snapshot,
          invoice |-> supplierInvoice[e.invoice], match |-> match[e.invoice]]]
    /\ UNCHANGED <<order, receipt, supplierInvoice, match, acceptance, gstSource, gstEvents, erpInbox, outdated>>

\* The inbox row is unique: of two deliveries at once, one is rolled back.
Records(q) ==
    /\ erpRequest[q].op = "consume" /\ erpRequest[q].event \notin erpInbox
    /\ erpInbox' = erpInbox \cup {erpRequest[q].event}
    /\ erpRequest' = [erpRequest EXCEPT ![q] = Idle]
    /\ UNCHANGED <<order, receipt, acceptance, gstSource, gstEvents>>

\* DETAIL_FETCH_REQUIRED and STALE_VERSION_IGNORED: only the inbox remembers.
ConsumeIgnored(q) ==
    /\ Records(q)
    /\ LET q0 == erpRequest[q]
       IN  \/ q0.invoice.status = "NONE" /\ q0.snapshot = NoTerms
           \/ q0.invoice.status # "NONE" /\ q0.event.version <= q0.invoice.version
    /\ UNCHANGED <<supplierInvoice, match, outdated>>

\* The event makes the invoice or rewrites it from the snapshot, ...
NewTerms(q) ==
    LET new == erpRequest[q].snapshot
        loaded == erpRequest[q].invoice.terms
        current == supplierInvoice[erpRequest[q].event.invoice].terms
    IN  IF new = NoTerms THEN current
        ELSE [claimed |-> Written(new.claimed, loaded.claimed, current.claimed),
              order |-> Written(new.order, loaded.order, current.order),
              parties |-> Written(new.parties, loaded.parties, current.parties)]

\* ... and touches its match: computed from the terms of this session, or sent
\* to a review.  A match this session has loaded is not read again.
ConsumeApplied(q) ==
    /\ Records(q)
    /\ LET e == erpRequest[q].event
           i == e.invoice
           row == erpRequest[q].invoice
           m == erpRequest[q].match
           loaded == IF m.status = "NONE" THEN match[i] ELSE m
           terms == IF erpRequest[q].snapshot = NoTerms THEN row.terms ELSE erpRequest[q].snapshot
           status == IF e.type = "cancelled" THEN "CANCELLED" ELSE "REGISTERED"
           new == CASE e.type = "cancelled" /\ m.status = "NONE" -> loaded
                    [] m.status # "NONE" /\ (e.type = "cancelled" \/ m.status \in AcceptedStatuses) ->
                         [m EXCEPT !.status = "REVIEW_REQUIRED"]
                    [] OTHER -> Computed(terms, status, OrderStatusOf(terms), PostedFor(terms))
       IN  /\ IF row.status = "NONE"
              THEN erpRequest[q].snapshot # NoTerms /\ supplierInvoice[i].status = "NONE"
              ELSE e.version > row.version
           /\ e.type = "registered" /\ m.status = "NONE" => match[i].status \notin AcceptedStatuses
           /\ supplierInvoice' = [supplierInvoice EXCEPT ![i] =
                [status |-> Written(status, row.status, supplierInvoice[i].status),
                 version |-> e.version, terms |-> NewTerms(q)]]
           /\ match' = [match EXCEPT ![i] =
                [status |-> Written(new.status, loaded.status, match[i].status),
                 supported |-> Written(new.supported, loaded.supported, match[i].supported),
                 value |-> Written(new.value, loaded.value, match[i].value)]]
           /\ Reckoned(IF e.type = "registered" THEN {i} ELSE {},
                       IF row.terms # supplierInvoice[i].terms \/ loaded # match[i] THEN {i} ELSE {})

\* An exception, a conflict or a refusal: the transaction is rolled back.
ErpAborts(q) ==
    /\ erpRequest[q] # Idle
    /\ erpRequest' = [erpRequest EXCEPT ![q] = Idle]
    /\ UNCHANGED <<order, receipt, supplierInvoice, match, acceptance, gstSource, gstEvents, erpInbox, outdated>>

ErpNext ==
    \/ \E i \in SupplierInvoices :
         \/ \E type \in {"registered", "cancelled"}, terms \in Terms : SourceChanges(i, type, terms)
         \/ \E amount \in 1..match[i].supported : AcceptMatch(i, amount)
         \/ DisputeMatch(i)
    \/ \E o \in Orders :
         \/ CreatePurchaseOrder(o)
         \/ \E target \in OrderStatuses : TransitionPurchaseOrder(o, target)
         \/ \E r \in Receipts, a, j \in 0..Quantity[o] : CreateReceipt(r, o, a, j)
    \/ \E q \in ErpRequests :
         \/ \E r \in Receipts : BeginPost(q, r)
         \/ CommitPost(q)
         \/ \E i \in SupplierInvoices : BeginRecalculate(q, i)
         \/ CommitRecalculate(q)
         \/ \E e \in gstEvents, snapshot \in Terms \cup {NoTerms} : BeginConsume(q, e, snapshot)
         \/ ConsumeIgnored(q)
         \/ ConsumeApplied(q)
         \/ ErpAborts(q)

ErpSpec == ErpInit /\ [][ErpNext]_erpVars

-----------------------------------------------------------------------------
Posted(o) == {r \in Receipts : receipt[r].order = o /\ receipt[r].status = "POSTED"}
PostedValue(o) == SumFunctionOnSet(AcceptedQuantity, Posted(o))
ReceivedQuantity == [r \in Receipts |-> receipt[r].accepted + receipt[r].rejected]

\* A value that the source claimed and posted receipts support, in versions it
\* signed of the invoice.
Backed(i, v) ==
    \E e, f \in gstEvents :
      /\ e.invoice = i /\ v <= e.terms.claimed
      /\ f.invoice = i /\ f.terms.order \in Orders
      /\ v <= Quantity[f.terms.order] /\ v <= PostedValue(f.terms.order)

\* A value that an invoice on these terms claims and its order supports.
Covers(terms, v) ==
    /\ terms.order \in Orders
    /\ v <= terms.claimed /\ v <= Quantity[terms.order] /\ v <= PostedValue(terms.order)

\* What the reviewer accepted was claimed, ordered and received: whatever
\* overlapped with its match, an acceptance exceeds neither every claim signed
\* for the invoice nor the posted receipts of every order named for it.  Unless
\* the match rests on overtaken readings, an accepted match is accepted against
\* the invoice as it is now, and its status tells full from partial
\* (accept_match, _recalculate_match, consume_gst_event).
AcceptedWasReceived ==
    \A i \in SupplierInvoices :
      /\ acceptance[i] # NoRow => Backed(i, acceptance[i])
      /\ match[i].status \in AcceptedStatuses /\ i \notin outdated =>
           /\ acceptance[i] # NoRow /\ Covers(supplierInvoice[i].terms, acceptance[i])
           /\ match[i].status = "ACCEPTED" <=> acceptance[i] = supplierInvoice[i].terms.claimed

\* The quantities of an order are those of its posted receipts, each booked
\* once although its draft can be posted from two requests, and an order is
\* fulfilled only by accepted goods (post_receipt).
ReceiptsAddUp ==
    \A o \in Orders :
      /\ order[o].accepted = PostedValue(o)
      /\ order[o].received = SumFunctionOnSet(ReceivedQuantity, Posted(o))
      /\ order[o].status = "FULFILLED" => PostedValue(o) >= Quantity[o]
=============================================================================
