------------------------------ MODULE Delivery ------------------------------
(***************************************************************************)
(* The delivery service (demos/delivery-mcp): a delivery from its creation *)
(* to the buyer's acceptance, proofs of delivery, corrections, and events  *)
(* other systems sign about the order, invoice or business it refers to.   *)
(*                                                                         *)
(* Every operation locks the delivery row and refuses a request that names *)
(* another version, so each is one step.  A delivery has one item of unit  *)
(* value one: accepted quantity and verified_delivered_value are the same  *)
(* number.  The roles that routes ask for are constant token maps and      *)
(* appear only where the service itself asks.  Left out: the timeline,     *)
(* audit and outbox rows, addresses and tracking numbers.                  *)
(***************************************************************************)
EXTENDS Integers, FiniteSets, FiniteSetsExt

CONSTANTS
    Deliveries,
    Ordered,         \* Ordered[d]: ordered quantity
    SeedRows,        \* rows a delivery may start from: no row, or what the seed stores
    Proofs,
    Sources,         \* purchase orders, invoices and businesses of other systems
    ReferencesOf,    \* ReferencesOf[d]: the sources a delivery is created with
    SourceEvents,    \* signed events: [source, version, code]
    Unset

VARIABLES
    deliveryStatus, exceptionCode,
    dispatched, delivered, accepted, rejected,  \* quantities of the item
    verifiedValue,     \* verified_delivered_value
    references,        \* sources the delivery refers to now
    proofOf,           \* the delivery of a proof of delivery, or Unset
    proofStatus,
    correction,        \* the pending corrections of a delivery: sources they propose
    latestVersion,     \* external_aggregate_versions, 0 for no row
    inbox              \* events in inbox_events

quantityVars == <<dispatched, delivered, accepted, rejected, verifiedValue>>
proofVars == <<proofOf, proofStatus>>
sourceVars == <<latestVersion, inbox>>
deliveryVars == <<deliveryStatus, exceptionCode, quantityVars, references, proofVars, correction,
                  sourceVars>>

\* The exception codes the service writes, and the one its seed leaves behind.
SourceCodes == {"SOURCE_PO_CANCELLED", "SOURCE_INVOICE_CANCELLED", "SOURCE_IDENTITY_CHANGED"}
ExceptionCodes == {"DELIVERY_DELAYED", "SHORT_DELIVERY", "ATTEMPT_FAILED", "CANCELLED_BY_REVIEWER",
                   "INVOICE_MISMATCH"} \cup SourceCodes
ProofStatuses == {"PENDING_VERIFICATION", "VERIFIED", "REJECTED"}

ASSUME DeliveryAssumption ==
    /\ Ordered \in [Deliveries -> Nat \ {0}]
    /\ SeedRows \subseteq [status : {"NONE", "IN_TRANSIT"}, code : ExceptionCodes \cup {Unset},
                            dispatched : Nat, delivered : Nat]
    /\ \A row \in SeedRows, d \in Deliveries : row.dispatched <= Ordered[d]
    /\ ReferencesOf \in [Deliveries -> SUBSET Sources]
    /\ SourceEvents \subseteq [source : Sources, version : Nat \ {0}, code : SourceCodes]
    /\ Unset \notin Deliveries \cup ProofStatuses

TerminalStatuses == {"DELIVERED", "PARTIALLY_ACCEPTED", "REJECTED", "CANCELLED"}
PendingAcceptance == {"DELIVERED_PENDING_ACCEPTANCE", "PARTIAL_PENDING_ACCEPTANCE"}
Underway == {"DISPATCHED", "IN_TRANSIT", "OUT_FOR_DELIVERY", "DELIVERY_FAILED"}
DeliveryStatuses == {"NONE", "CREATED", "READY_TO_DISPATCH"} \cup Underway
                      \cup PendingAcceptance \cup TerminalStatuses
DeliveryTypeOK ==
    /\ deliveryStatus \in [Deliveries -> DeliveryStatuses]
    /\ dispatched \in [Deliveries -> Nat] /\ delivered \in [Deliveries -> Nat]
    /\ accepted \in [Deliveries -> Nat] /\ rejected \in [Deliveries -> Nat]
    /\ verifiedValue \in [Deliveries -> Nat]
    /\ references \in [Deliveries -> SUBSET Sources]
    /\ proofOf \in [Proofs -> Deliveries \cup {Unset}]
    /\ proofStatus \in [Proofs -> ProofStatuses \cup {Unset}]
    /\ correction \in [Deliveries -> SUBSET SUBSET Sources]
    /\ latestVersion \in [Sources -> Nat] /\ inbox \subseteq SourceEvents
    /\ exceptionCode \in [Deliveries -> ExceptionCodes \cup {Unset}]

Zero == [d \in Deliveries |-> 0]

\* The seed leaves one shipment on its way with a quantity already noted.
DeliveryInit ==
    /\ \E row \in [Deliveries -> SeedRows] :
         /\ deliveryStatus = [d \in Deliveries |-> row[d].status]
         /\ exceptionCode = [d \in Deliveries |-> row[d].code]
         /\ dispatched = [d \in Deliveries |-> row[d].dispatched]
         /\ delivered = [d \in Deliveries |-> row[d].delivered]
    /\ accepted = Zero /\ rejected = Zero /\ verifiedValue = Zero
    /\ references = ReferencesOf
    /\ proofOf = [p \in Proofs |-> Unset] /\ proofStatus = [p \in Proofs |-> Unset]
    /\ correction = [d \in Deliveries |-> {}]
    /\ latestVersion = [s \in Sources |-> 0] /\ inbox = {}

-----------------------------------------------------------------------------
MovesTo(d, status, code) ==
    /\ deliveryStatus' = [deliveryStatus EXCEPT ![d] = status]
    /\ exceptionCode' = [exceptionCode EXCEPT ![d] = code]

CreateDelivery(d) ==
    /\ deliveryStatus[d] = "NONE"
    /\ MovesTo(d, "CREATED", Unset)
    /\ UNCHANGED <<quantityVars, references, proofVars, correction, sourceVars>>

MarkReady(d) ==
    /\ deliveryStatus[d] = "CREATED"
    /\ MovesTo(d, "READY_TO_DISPATCH", exceptionCode[d])
    /\ UNCHANGED <<quantityVars, references, proofVars, correction, sourceVars>>

DispatchDelivery(d, quantity) ==
    /\ deliveryStatus[d] = "READY_TO_DISPATCH" /\ quantity <= Ordered[d]
    /\ dispatched' = [dispatched EXCEPT ![d] = quantity]
    /\ MovesTo(d, "DISPATCHED", exceptionCode[d])
    /\ UNCHANGED <<delivered, accepted, rejected, verifiedValue, references, proofVars,
                   correction, sourceVars>>

TransitTransitions ==
    {<<"DISPATCHED", "IN_TRANSIT", "IN_TRANSIT">>,
     <<"IN_TRANSIT", "OUT_FOR_DELIVERY", "OUT_FOR_DELIVERY">>,
     <<"DISPATCHED", "DELIVERY_DELAYED", "DELIVERY_FAILED">>,
     <<"IN_TRANSIT", "DELIVERY_DELAYED", "DELIVERY_FAILED">>,
     <<"OUT_FOR_DELIVERY", "DELIVERY_DELAYED", "DELIVERY_FAILED">>,
     <<"DELIVERY_FAILED", "DELIVERY_RESUMED", "IN_TRANSIT">>}

\* The exception code is overwritten, one that another system set included.
RecordTransitEvent(d, move) ==
    /\ deliveryStatus[d] = move[1]
    /\ MovesTo(d, move[3], IF move[3] = "DELIVERY_FAILED" THEN "DELIVERY_DELAYED" ELSE Unset)
    /\ UNCHANGED <<quantityVars, references, proofVars, correction, sourceVars>>

AttemptSucceeds(d, quantity) ==
    /\ deliveryStatus[d] \in {"IN_TRANSIT", "OUT_FOR_DELIVERY"} /\ quantity <= dispatched[d]
    /\ delivered' = [delivered EXCEPT ![d] = quantity]
    /\ IF quantity < dispatched[d]
       THEN MovesTo(d, "PARTIAL_PENDING_ACCEPTANCE", "SHORT_DELIVERY")
       ELSE MovesTo(d, "DELIVERED_PENDING_ACCEPTANCE", Unset)
    /\ UNCHANGED <<dispatched, accepted, rejected, verifiedValue, references, proofVars,
                   correction, sourceVars>>

AttemptFails(d) ==
    /\ deliveryStatus[d] \in {"IN_TRANSIT", "OUT_FOR_DELIVERY"}
    /\ MovesTo(d, "DELIVERY_FAILED", "ATTEMPT_FAILED")
    /\ UNCHANGED <<quantityVars, references, proofVars, correction, sourceVars>>

\* A new proof rejects the ones that still wait for their review.
CapturePod(d, p) ==
    /\ deliveryStatus[d] \in PendingAcceptance /\ proofOf[p] = Unset
    /\ proofOf' = [proofOf EXCEPT ![p] = d]
    /\ proofStatus' = [q \in Proofs |->
         IF q = p THEN "PENDING_VERIFICATION"
         ELSE IF proofOf[q] = d /\ proofStatus[q] = "PENDING_VERIFICATION" THEN "REJECTED"
         ELSE proofStatus[q]]
    /\ UNCHANGED <<deliveryStatus, exceptionCode, quantityVars, references, correction, sourceVars>>

\* Mutated form: a review may be repeated with another verdict.
ReviewableAgain(d, p) == proofOf[p] = d

Reviewable(d, p) == proofOf[p] = d /\ proofStatus[p] = "PENDING_VERIFICATION"

\* The status of the delivery is not asked.
VerifyPod(d, p, verdict) ==
    /\ Reviewable(d, p)
    /\ proofStatus' = [proofStatus EXCEPT ![p] = verdict]
    /\ UNCHANGED <<deliveryStatus, exceptionCode, quantityVars, references, proofOf, correction,
                   sourceVars>>

HasVerifiedProof(d) == \E p \in Proofs : proofOf[p] = d /\ proofStatus[p] = "VERIFIED"

RecordBuyerAcceptance(d, yes, no) ==
    /\ deliveryStatus[d] \in PendingAcceptance /\ HasVerifiedProof(d)
    /\ yes + no = delivered[d]
    /\ accepted' = [accepted EXCEPT ![d] = yes]
    /\ rejected' = [rejected EXCEPT ![d] = no]
    /\ verifiedValue' = [verifiedValue EXCEPT ![d] = yes]
    /\ MovesTo(d, IF yes = 0 THEN "REJECTED" ELSE IF no = 0 THEN "DELIVERED" ELSE "PARTIALLY_ACCEPTED",
               exceptionCode[d])
    /\ UNCHANGED <<dispatched, delivered, references, proofVars, correction, sourceVars>>

CancelDelivery(d, role) ==
    /\ deliveryStatus[d] \notin TerminalStatuses \cup {"NONE"}
    /\ deliveryStatus[d] \in {"CREATED", "READY_TO_DISPATCH"} \/ role = "DELIVERY_REVIEWER"
    /\ MovesTo(d, "CANCELLED", IF role = "DELIVERY_REVIEWER" THEN "CANCELLED_BY_REVIEWER" ELSE Unset)
    /\ UNCHANGED <<quantityVars, references, proofVars, correction, sourceVars>>

\* Identity and reference corrections change the sources, tracking and address
\* corrections propose the ones there are.  Any status will do.
ProposeCorrection(d, sources) ==
    /\ deliveryStatus[d] # "NONE" /\ correction[d] = {}
    /\ correction' = [correction EXCEPT ![d] = {sources}]
    /\ UNCHANGED <<deliveryStatus, exceptionCode, quantityVars, references, proofVars, sourceVars>>

ReviewCorrection(d, sources, approve) ==
    /\ sources \in correction[d]
    /\ references' = IF approve THEN [references EXCEPT ![d] = sources] ELSE references
    /\ correction' = [correction EXCEPT ![d] = {}]
    /\ UNCHANGED <<deliveryStatus, exceptionCode, quantityVars, proofVars, sourceVars>>

-----------------------------------------------------------------------------
\* Mutated form: an event marks every delivery of its source.
ConcernedEvenTerminal(e) == {d \in Deliveries : deliveryStatus[d] # "NONE" /\ e.source \in references[d]}

Concerned(e) ==
    {d \in Deliveries : /\ deliveryStatus[d] \notin TerminalStatuses \cup {"NONE"}
                        /\ e.source \in references[d]}

\* External events are signed by other systems; they arrive late, twice or in
\* another order.  A second delivery of one finds it in the inbox.
ConsumeProcessed(e) ==
    /\ e \notin inbox /\ e.version > latestVersion[e.source]
    /\ exceptionCode' = [d \in Deliveries |-> IF d \in Concerned(e) THEN e.code ELSE exceptionCode[d]]
    /\ latestVersion' = [latestVersion EXCEPT ![e.source] = e.version]
    /\ inbox' = inbox \cup {e}
    /\ UNCHANGED <<deliveryStatus, quantityVars, references, proofVars, correction>>

ConsumeStale(e) ==
    /\ e \notin inbox /\ e.version <= latestVersion[e.source]
    /\ inbox' = inbox \cup {e}
    /\ UNCHANGED <<deliveryStatus, exceptionCode, quantityVars, references, proofVars, correction,
                   latestVersion>>

DeliveryNext ==
    \/ \E d \in Deliveries :
         \/ CreateDelivery(d)
         \/ MarkReady(d)
         \/ \E quantity \in 1..Ordered[d] : DispatchDelivery(d, quantity)
         \/ \E move \in TransitTransitions : RecordTransitEvent(d, move)
         \/ \E quantity \in 0..Ordered[d] : AttemptSucceeds(d, quantity)
         \/ AttemptFails(d)
         \/ \E p \in Proofs : CapturePod(d, p)
         \/ \E p \in Proofs, verdict \in {"VERIFIED", "REJECTED"} : VerifyPod(d, p, verdict)
         \/ \E yes, no \in 0..Ordered[d] : RecordBuyerAcceptance(d, yes, no)
         \/ \E role \in {"SELLER_OPERATOR", "DELIVERY_REVIEWER"} : CancelDelivery(d, role)
         \/ \E sources \in SUBSET Sources : ProposeCorrection(d, sources)
         \/ \E sources \in SUBSET Sources, approve \in BOOLEAN : ReviewCorrection(d, sources, approve)
    \/ \E e \in SourceEvents : ConsumeProcessed(e) \/ ConsumeStale(e)

DeliverySpec == DeliveryInit /\ [][DeliveryNext]_deliveryVars

-----------------------------------------------------------------------------
\* verify_fulfilment: the deliveries that may support a claim on an invoice.
Supporting(source) ==
    {d \in Deliveries : /\ deliveryStatus[d] \in {"DELIVERED", "PARTIALLY_ACCEPTED"}
                        /\ HasVerifiedProof(d) /\ source \in references[d]}

VerifyFulfilment(source, quantity) ==
    CASE Supporting(source) = {} -> "unmatched"
      [] Supporting(source) # {} /\ quantity = MapThenSumSet(LAMBDA d : accepted[d], Supporting(source))
           -> "match"
      [] OTHER -> "contradiction"

-----------------------------------------------------------------------------
\* What counts as fulfilled is backed by what happened: a proof the reviewer
\* verified and never took back, and quantities that were ordered, dispatched,
\* handed over and judged by the buyer, whatever failed attempts, replaced
\* proofs and cancellations came before; nothing else carries a value
\* (verify_pod, record_buyer_acceptance, record_delivery_attempt).
FulfilmentBacked ==
    \A d \in Deliveries :
      /\ deliveryStatus[d] \in {"DELIVERED", "PARTIALLY_ACCEPTED"} =>
           /\ HasVerifiedProof(d)
           /\ accepted[d] > 0 /\ accepted[d] + rejected[d] = delivered[d]
           /\ delivered[d] <= dispatched[d] /\ dispatched[d] <= Ordered[d]
           /\ deliveryStatus[d] = "DELIVERED" <=> rejected[d] = 0
           /\ verifiedValue[d] = accepted[d]
      /\ deliveryStatus[d] \notin {"DELIVERED", "PARTIALLY_ACCEPTED"} => verifiedValue[d] = 0

\* A delivery that reached a final status keeps it, with its quantities, its
\* value and its exception code, whichever operations, late source events and
\* approved corrections follow (TERMINAL_STATUSES).
TerminalIsFinal ==
    [][\A d \in Deliveries : deliveryStatus[d] \in TerminalStatuses =>
         /\ deliveryStatus'[d] = deliveryStatus[d] /\ exceptionCode'[d] = exceptionCode[d]
         /\ delivered'[d] = delivered[d] /\ accepted'[d] = accepted[d]
         /\ verifiedValue'[d] = verifiedValue[d]]_deliveryVars
=============================================================================
