----------------------------- MODULE MCPlatform -----------------------------
(***************************************************************************)
(* Bounds of the platform run.  Two enterprises with one operator each, of *)
(* whom one appears, and the reviewer of both; an invoice waiting for its  *)
(* review, an older one that is registered, a registered one of the other  *)
(* enterprise and a new one; a query for the first that nothing else       *)
(* answers to, and one that all of them answer to.  One registered         *)
(* business and one to be entered, two changes.  One order of two pieces   *)
(* with two receipts and one invoice in two versions, on two terms.  One   *)
(* delivery of two pieces with two proofs and three source events.  One    *)
(* session with two conversations, two writers and four items.  Two people *)
(* (one an admin), two memories, one worker that embeds and one run.  Two  *)
(* objects and two requests of the vault.                                  *)
(***************************************************************************)
EXTENDS Platform, TLC

CONSTANTS operator, reviewer, registrar, kaveri, other, submitted, older, registered, fresh,
          b1, b2, n1, g1, po, inv, d1, o1, bill, admin, user, run1

MCRolesOf ==
    operator :> (kaveri :> {"GST_VIEWER", "GST_OPERATOR"} @@ other :> {})
    @@ reviewer :> (kaveri :> {"GST_VIEWER", "GST_REVIEWER"} @@ other :> {"GST_VIEWER", "GST_REVIEWER"})
    @@ registrar :> (kaveri :> {"GST_REVIEWER"} @@ other :> {})
MCFirstOf == operator :> kaveri @@ reviewer :> kaveri @@ registrar :> kaveri
MCInvoiceSeed ==
    submitted :> [status |-> "SUBMITTED", owner |-> kaveri, total |-> 118]
    @@ older :> [status |-> "REGISTERED", owner |-> kaveri, total |-> 118]
    @@ registered :> [status |-> "REGISTERED", owner |-> other, total |-> 105]
    @@ fresh :> [status |-> "NONE", owner |-> Nobody, total |-> 0]
\* Half a paisa to round, and an odd tax within a state, so that the halves differ.
MCInvoiceLines ==
    {[quantity |-> 1500, price |-> 69, discount |-> 3, rate |-> 525, intra |-> TRUE]}
MCMatchesOf == "full" :> {submitted} @@ "part" :> {submitted, older, registered, fresh}
MCDatedAt == submitted :> 2 @@ older :> 1 @@ registered :> 3 @@ fresh :> 3
MCBuyerOf == [i \in {submitted, older, registered, fresh} |-> "buyer"]
\* One enterprise has grown out of the category it declared.
MCFigures == kaveri :> [investment |-> 251, turnover |-> 1000]
             @@ other :> [investment |-> 250, turnover |-> 1000]
MCDeclared == kaveri :> "MICRO" @@ other :> "MICRO"

MCBusinessSeed ==
    b1 :> [status |-> "ACTIVE", version |-> 1, identity |-> n1, gstin |-> g1, flags |-> {}]
    @@ b2 :> NoBusiness

MCQuantity == o1 :> 2
MCPartiesOf == o1 :> "trade"
\* The invoice may be registered again on a smaller claim.
MCTerms == {[claimed |-> 2, order |-> o1, parties |-> "trade"],
            [claimed |-> 1, order |-> o1, parties |-> "trade"]}

MCOrdered == d1 :> 2
MCSeedRows ==
    {[status |-> "NONE", code |-> Unset, dispatched |-> 0, delivered |-> 0],
     [status |-> "IN_TRANSIT", code |-> "INVOICE_MISMATCH", dispatched |-> 2, delivered |-> 1]}
MCReferencesOf == d1 :> {po}
MCSourceEvents ==
    {[source |-> po, version |-> 1, code |-> "SOURCE_IDENTITY_CHANGED"],
     [source |-> po, version |-> 2, code |-> "SOURCE_PO_CANCELLED"],
     [source |-> inv, version |-> 1, code |-> "SOURCE_INVOICE_CANCELLED"]}

\* The scenario of a registered invoice under either name, one with another
\* amount, that of a submitted one, the tour, a document of each sort, and the
\* workflow of the snapshot.
Claims(status, total) == [status |-> status, total |-> total, buyer |-> "buyer"]
MCSubjects ==
    {[kind |-> "invoice", query |-> c[1], search |-> c[2], claim |-> Claims("REGISTERED", c[3])] :
       c \in {<<"part", "REGISTERED", 118>>, <<"full", "REGISTERED", 117>>, <<"full", "SUBMITTED", 118>>}}
    \cup {[kind |-> "pdf", query |-> "part", search |-> c[1], claim |-> Claims(c[1], 118),
           threat |-> c[2], complete |-> c[3]] :
            c \in {<<"SUBMITTED", "none", TRUE>>, <<"REGISTERED", "none", TRUE>>,
                   <<"REGISTERED", "structure", TRUE>>, <<"REGISTERED", "injection", TRUE>>,
                   <<"REGISTERED", "none", FALSE>>}}
    \cup {[kind |-> c[1], query |-> "full", search |-> "REGISTERED", business |-> c[2],
           record |-> [identity |-> n1, gstin |-> g1, status |-> "ACTIVE"],
           order |-> o1, delivery |-> d1] :
            c \in {<<"network", b1>>, <<"operations", b1>>}}
    \cup {[kind |-> "proof"]}

MCRunUser == run1 :> user

\* A second registration of the supplier's invoice does not raise its claim.
FirstClaimLarge == gstSource[bill].version = 1 => gstSource[bill].terms.claimed = 2

\* Beside the demo nobody's session ends: an ended one only stops its user.
SessionsLast ==
    scene = "demo" => \A b \in BrowserSessions : gstSession[b].state \in {"NONE", "LIVE"}

Bounds == FirstClaimLarge /\ SessionsLast

ReceiptsAndRequests == Permutations(Receipts) \cup Permutations(ErpRequests)
=============================================================================
