--------------------------- MODULE PlatformProofs ---------------------------
(***************************************************************************)
(* Proofs about the parts that keep records of their own, for every value  *)
(* of their constants: each part under its own specification, and all of   *)
(* them together under the one that the platform run checks.               *)
(***************************************************************************)
EXTENDS Platform, WellFoundedInduction, TLAPS

-----------------------------------------------------------------------------
(***************************************************************************)
(* The GST portal for every set of users, enterprises, sessions, tabs,     *)
(* requests and invoices, every assignment of roles and every seed.        *)
(*                                                                         *)
(* MovedByOwnStaff is not inductive by itself: an invoice could be created *)
(* over one that has a history and pass to another enterprise.  HistoryOf  *)
(* excludes it.                                                            *)
(***************************************************************************)
\* Only invoices that exist have a history.
HistoryOf == \A row \in statusHistory : invoice[row[1]].status # "NONE"

GstInv == GstTypeOK /\ HistoryOf /\ MovedByOwnStaff

-----------------------------------------------------------------------------
\* Rounding half up moves an amount by at most half a unit (domain.money).
LEMMA RoundingHalves ==
    ASSUME NEW n \in Nat
    PROVE  /\ RoundHalfUp(n, 2) \in Nat
           /\ 2 * RoundHalfUp(n, 2) = n \/ 2 * RoundHalfUp(n, 2) = n + 1
BY DEF RoundHalfUp

LEMMA RoundingIsNat ==
    ASSUME NEW n \in Nat
    PROVE  RoundHalfUp(n, 10000) \in Nat
BY DEF RoundHalfUp

LEMMA RoundingIsInt ==
    ASSUME NEW n \in Int
    PROVE  RoundHalfUp(n, 1000) \in Int
BY DEF RoundHalfUp

\* The tax of a line is split without a remainder: the three parts add up to
\* it, none is negative, and within a state the halves differ by at most one
\* paisa (calculate_line).
THEOREM TaxAddsUp ==
    ASSUME NEW line \in [quantity : Nat, price : Nat, discount : Nat, rate : Nat, intra : BOOLEAN],
           CalculateLine(line).taxable >= 0
    PROVE  LET a == CalculateLine(line)
           IN  /\ a.cgst + a.sgst + a.igst = a.tax
               /\ a.taxable \in Nat /\ a.cgst \in Nat /\ a.sgst \in Nat /\ a.igst \in Nat
               /\ line.intra => a.igst = 0 /\ (a.cgst = a.sgst \/ a.cgst = a.sgst + 1)
<1> DEFINE taxable == RoundHalfUp(line.quantity * line.price - 1000 * line.discount, 1000)
           tax == RoundHalfUp(taxable * line.rate, 10000)
           half == RoundHalfUp(tax, 2)
<1>1. taxable \in Nat /\ taxable * line.rate \in Nat
  <2>1. taxable \in Nat /\ line.rate \in Nat
    <3>1. line.quantity * line.price - 1000 * line.discount \in Int
      OBVIOUS
    <3>2. CalculateLine(line).taxable = taxable
      BY DEF CalculateLine
    <3>3. taxable \in Int
      BY <3>1, RoundingIsInt
    <3> HIDE DEF taxable
    <3> QED BY <3>2, <3>3
  <2> HIDE DEF taxable
  <2> QED BY <2>1
<1>2. tax \in Nat
  BY <1>1, RoundingIsNat
<1>3. half \in Nat /\ (2 * half = tax \/ 2 * half = tax + 1)
  BY <1>2, RoundingHalves
<1>4. CalculateLine(line) =
        [taxable |-> taxable, tax |-> tax, cgst |-> IF line.intra THEN half ELSE 0,
         sgst |-> IF line.intra THEN tax - (IF line.intra THEN half ELSE 0) ELSE 0,
         igst |-> IF line.intra THEN 0 ELSE tax]
  BY DEF CalculateLine
<1> HIDE DEF taxable, tax, half
<1>5. CASE line.intra
  BY <1>1, <1>2, <1>3, <1>4, <1>5
<1>6. CASE ~line.intra
  BY <1>1, <1>2, <1>4, <1>6
<1> QED BY <1>5, <1>6

-----------------------------------------------------------------------------
LEMMA GstInvInit == GstInit => GstInv
<1> SUFFICES ASSUME GstInit PROVE GstInv
  OBVIOUS
<1>1. gstSession \in [BrowserSessions -> SessionRows]
  BY DEF GstInit, SessionRows
<1>2. invoice \in [Invoices -> InvoiceRows]
  BY GstAssumption DEF GstInit, InvoiceRows, InvoiceStatuses
<1>3. latestSnapshot \in [Enterprises -> Snapshots] /\ effectiveOf \in [Enterprises -> Categories]
  BY GstAssumption DEF GstInit, Snapshots
<1>4. GstTypeOK
  BY <1>1, <1>2, <1>3 DEF GstInit, GstTypeOK
<1>5. HistoryOf /\ MovedByOwnStaff
  BY DEF GstInit, HistoryOf, MovedByOwnStaff
<1> QED BY <1>4, <1>5 DEF GstInv

\* Steps that leave the invoices alone.
LEMMA InvoicesAlone ==
    ASSUME GstInv, GstTypeOK', UNCHANGED <<invoice, statusHistory>>
    PROVE  GstInv'
BY DEF GstInv, HistoryOf, MovedByOwnStaff

LEMMA InvSession ==
    ASSUME GstInv, NEW b \in BrowserSessions, NEW t \in Tabs,
           \/ \E u \in GstUsers : Login(b, u, t)
           \/ ViewSession(b, t)
           \/ Logout(b, t)
           \/ \E e \in Enterprises : SwitchEnterprise(b, t, e)
           \/ SessionExpires(b)
    PROVE  GstInv'
<1>0. GstTypeOK
  BY DEF GstInv
<1>1. gstSession[b] \in SessionRows
  BY <1>0 DEF GstTypeOK
<1>2. \E row \in SessionRows : gstSession' = [gstSession EXCEPT ![b] = row]
  <2>1. ASSUME NEW u \in GstUsers, Login(b, u, t)
        PROVE  \E row \in SessionRows : gstSession' = [gstSession EXCEPT ![b] = row]
    <3>1. [state |-> "LIVE", user |-> u, enterprise |-> FirstOf[u], csrf |-> t] \in SessionRows
      BY GstAssumption DEF SessionRows
    <3> QED BY <2>1, <3>1 DEF Login
  <2>2. CASE ViewSession(b, t)
    <3>1. SessionRow(b, "LIVE", gstSession[b].enterprise, t) \in SessionRows
      BY <1>1, <2>2 DEF ViewSession, SessionRow, SessionRows
    <3> QED BY <2>2, <3>1 DEF ViewSession
  <2>3. CASE Logout(b, t)
    <3>1. [state |-> "DELETED", user |-> Nobody, enterprise |-> Nobody, csrf |-> Nobody] \in SessionRows
      BY DEF SessionRows
    <3> QED BY <2>3, <3>1 DEF Logout
  <2>4. ASSUME NEW e \in Enterprises, SwitchEnterprise(b, t, e)
        PROVE  \E row \in SessionRows : gstSession' = [gstSession EXCEPT ![b] = row]
    <3>1. SessionRow(b, "LIVE", e, t) \in SessionRows
      BY <1>1, <2>4 DEF SwitchEnterprise, SessionRow, SessionRows
    <3> QED BY <2>4, <3>1 DEF SwitchEnterprise
  <2>5. CASE SessionExpires(b)
    <3>1. SessionRow(b, "EXPIRED", gstSession[b].enterprise, gstSession[b].csrf) \in SessionRows
      BY <1>1, <2>5 DEF SessionExpires, SessionRow, SessionRows
    <3> QED BY <2>5, <3>1 DEF SessionExpires
  <2> QED BY <2>1, <2>2, <2>3, <2>4, <2>5
<1>3. UNCHANGED <<gstRequest, invoice, statusHistory, latestSnapshot, effectiveOf>>
  BY DEF Login, ViewSession, Logout, SwitchEnterprise, SessionExpires
<1>4. GstTypeOK'
  BY <1>0, <1>2, <1>3 DEF GstTypeOK
<1> QED BY <1>3, <1>4, InvoicesAlone

LEMMA InvResolve ==
    ASSUME GstInv, NEW r \in GstRequests, NEW b \in BrowserSessions, NEW t \in Tabs,
           ResolveScope(r, b, t)
    PROVE  GstInv'
<1> DEFINE row == [step |-> "resolved", session |-> b, user |-> gstSession[b].user,
                   enterprise |-> gstSession[b].enterprise, loaded |-> Nobody]
<1>0. GstTypeOK
  BY DEF GstInv
<1>1. row \in RequestRows
  BY <1>0 DEF GstTypeOK, SessionRows, RequestRows, ResolveScope
<1>2. gstRequest' = [gstRequest EXCEPT ![r] = row]
      /\ UNCHANGED <<gstSession, invoice, statusHistory, latestSnapshot, effectiveOf>>
  BY DEF ResolveScope
<1> HIDE DEF row
<1>3. GstTypeOK'
  BY <1>0, <1>1, <1>2 DEF GstTypeOK
<1> QED BY <1>2, <1>3, InvoicesAlone

LEMMA InvRequestFails ==
    ASSUME GstInv, NEW r \in GstRequests, RequestFails(r)
    PROVE  GstInv'
<1>1. GstTypeOK'
  BY DEF GstInv, GstTypeOK, RequestFails
<1> QED BY <1>1, InvoicesAlone DEF RequestFails

LEMMA InvReadSnapshot ==
    ASSUME GstInv, NEW r \in GstRequests, ReadSnapshot(r)
    PROVE  GstInv'
<1> DEFINE row == [step |-> "read", session |-> gstRequest[r].session, user |-> gstRequest[r].user,
                   enterprise |-> gstRequest[r].enterprise,
                   loaded |-> latestSnapshot[gstRequest[r].enterprise]]
<1>0. GstTypeOK
  BY DEF GstInv
<1>a. gstRequest[r] \in RequestRows /\ gstRequest[r].step = "resolved"
  BY <1>0 DEF GstTypeOK, ReadSnapshot, NoRequest
<1>b. gstRequest[r].enterprise \in Enterprises /\ gstRequest[r].user \in GstUsers
      /\ gstRequest[r].session \in BrowserSessions
  BY <1>a DEF RequestRows
<1>1. row \in RequestRows
  BY <1>0, <1>b DEF GstTypeOK, RequestRows
<1>2. gstRequest' = [gstRequest EXCEPT ![r] = row]
      /\ UNCHANGED <<gstSession, invoice, statusHistory, latestSnapshot, effectiveOf>>
  BY DEF ReadSnapshot
<1> HIDE DEF row
<1>3. GstTypeOK'
  BY <1>0, <1>1, <1>2 DEF GstTypeOK
<1> QED BY <1>2, <1>3, InvoicesAlone

LEMMA InvClassification ==
    ASSUME GstInv, NEW r \in GstRequests,
           RecalculateClassification(r) \/ \E category \in Categories : ReviewClassification(r, category)
    PROVE  GstInv'
<1>0. GstTypeOK
  BY DEF GstInv
<1>a. gstRequest[r].step = "read"
  BY DEF RecalculateClassification, ReviewClassification
<1>1. gstRequest[r] \in RequestRows /\ gstRequest[r].step = "read"
  BY <1>0, <1>a DEF GstTypeOK, NoRequest
<1>2. gstRequest[r].enterprise \in Enterprises /\ gstRequest[r].loaded \in Snapshots
  BY <1>1 DEF RequestRows
<1>3. /\ gstRequest' = [gstRequest EXCEPT ![r] = NoRequest]
      /\ UNCHANGED <<gstSession, invoice, statusHistory>>
  BY DEF RecalculateClassification, ReviewClassification, Commits
<1>4. /\ latestSnapshot' \in [Enterprises -> Snapshots]
      /\ effectiveOf' \in [Enterprises -> Categories]
  <2>1. CASE RecalculateClassification(r)
    <3> DEFINE e == gstRequest[r].enterprise
               calculated == ClassifyMsme(Figures[e].investment, Figures[e].turnover)
               snapshot == [effective |-> gstRequest[r].loaded.effective,
                            verification |-> IF calculated = Declared[e] THEN "VERIFIED"
                                             ELSE "REVIEW_REQUIRED"]
    <3>1. snapshot \in Snapshots
      BY <1>2 DEF Snapshots
    <3>2. latestSnapshot' = [latestSnapshot EXCEPT ![e] = snapshot] /\ effectiveOf' = effectiveOf
      BY <2>1 DEF RecalculateClassification
    <3> HIDE DEF snapshot, calculated
    <3> QED BY <1>0, <1>2, <3>1, <3>2 DEF GstTypeOK
  <2>2. ASSUME NEW category \in Categories, ReviewClassification(r, category)
        PROVE  /\ latestSnapshot' \in [Enterprises -> Snapshots]
               /\ effectiveOf' \in [Enterprises -> Categories]
    BY <1>0, <1>2, <2>2 DEF GstTypeOK, ReviewClassification, Snapshots
  <2> QED BY <2>1, <2>2
<1>5. GstTypeOK'
  BY <1>0, <1>3, <1>4 DEF GstTypeOK
<1> QED BY <1>3, <1>5, InvoicesAlone

LEMMA InvCreateInvoice ==
    ASSUME GstInv, NEW r \in GstRequests, NEW i \in Invoices, NEW line \in InvoiceLines,
           CreateInvoice(r, i, line)
    PROVE  GstInv'
<1> DEFINE a == CalculateLine(line)
           user == gstRequest[r].user
           row == [status |-> "DRAFT", owner |-> gstRequest[r].enterprise,
                   total |-> a.taxable + a.cgst + a.sgst + a.igst]
<1>0. GstTypeOK
  BY DEF GstInv
<1>1. gstRequest[r] \in RequestRows
  BY <1>0 DEF GstTypeOK, CreateInvoice, NoRequest
<1>2. gstRequest[r].enterprise \in Enterprises /\ user \in GstUsers
  BY <1>1 DEF RequestRows
<1>3. /\ line \in [quantity : Nat, price : Nat, discount : Nat, rate : Nat, intra : BOOLEAN]
      /\ CalculateLine(line).taxable >= 0
  BY GstAssumption DEF CreateInvoice
<1>4. row.total \in Int
  BY <1>3, TaxAddsUp
<1>5. row \in InvoiceRows /\ row.status = "DRAFT" /\ row.owner = gstRequest[r].enterprise
  BY <1>2, <1>4 DEF InvoiceRows, InvoiceStatuses
<1>6. /\ invoice[i].status = "NONE" /\ invoice' = [invoice EXCEPT ![i] = row]
      /\ statusHistory' = statusHistory \cup {<<i, "DRAFT", user>>}
      /\ "GST_OPERATOR" \in RolesOf[user][gstRequest[r].enterprise]
      /\ gstRequest' = [gstRequest EXCEPT ![r] = NoRequest]
      /\ UNCHANGED <<gstSession, latestSnapshot, effectiveOf>>
  BY DEF CreateInvoice, HasRole, Commits
<1> HIDE DEF row, user
<1>7. GstTypeOK'
  <2>1. statusHistory' \subseteq Invoices \X InvoiceStatuses \X GstUsers
    BY <1>0, <1>2, <1>6 DEF GstTypeOK, InvoiceStatuses
  <2>2. invoice' \in [Invoices -> InvoiceRows]
    BY <1>0, <1>5, <1>6 DEF GstTypeOK
  <2> QED BY <1>0, <1>6, <2>1, <2>2 DEF GstTypeOK
<1>8. \A h \in statusHistory : h[1] \in Invoices /\ h[1] # i
  BY <1>0, <1>6 DEF GstInv, HistoryOf, GstTypeOK
<1>9. invoice'[i] = row /\ \A h \in statusHistory : invoice'[h[1]] = invoice[h[1]]
  BY <1>0, <1>6, <1>8 DEF GstTypeOK
<1>10. HistoryOf'
  BY <1>5, <1>6, <1>9 DEF GstInv, HistoryOf
<1>11. MovedByOwnStaff'
  BY <1>5, <1>6, <1>9 DEF GstInv, MovedByOwnStaff
<1> QED BY <1>7, <1>10, <1>11 DEF GstInv

LEMMA InvInvoiceTransition ==
    ASSUME GstInv, NEW r \in GstRequests, NEW i \in Invoices,
           NEW action \in DOMAIN InvoiceTransitions, TransitionInvoice(r, i, action)
    PROVE  GstInv'
<1> DEFINE move == InvoiceTransitions[action]
           user == gstRequest[r].user
           row == [status |-> move.to, owner |-> invoice[i].owner, total |-> invoice[i].total]
<1>0. GstTypeOK
  BY DEF GstInv
<1>1. gstRequest[r] \in RequestRows
  BY <1>0 DEF GstTypeOK, TransitionInvoice, NoRequest
<1>2. user \in GstUsers
  BY <1>1 DEF RequestRows
<1>3. move.to \in InvoiceStatuses \ {"NONE"}
  BY DEF InvoiceTransitions, InvoiceStatuses
<1>4. row \in InvoiceRows /\ row.status # "NONE" /\ row.owner = invoice[i].owner
  BY <1>0, <1>3 DEF GstTypeOK, InvoiceRows
<1>5. /\ invoice' = [invoice EXCEPT ![i] = row]
      /\ statusHistory' = statusHistory \cup {<<i, move.to, user>>}
      /\ invoice[i].owner = gstRequest[r].enterprise
      /\ move.role \in RolesOf[user][gstRequest[r].enterprise]
      /\ gstRequest' = [gstRequest EXCEPT ![r] = NoRequest]
      /\ UNCHANGED <<gstSession, latestSnapshot, effectiveOf>>
  BY DEF TransitionInvoice, HasRole, Visible, Commits
<1> HIDE DEF row, user
<1>6. GstTypeOK'
  <2>1. statusHistory' \subseteq Invoices \X InvoiceStatuses \X GstUsers
    BY <1>0, <1>2, <1>3, <1>5 DEF GstTypeOK
  <2>2. invoice' \in [Invoices -> InvoiceRows]
    BY <1>0, <1>4, <1>5 DEF GstTypeOK
  <2> QED BY <1>0, <1>5, <2>1, <2>2 DEF GstTypeOK
<1>7. invoice'[i] = row /\ \A h \in statusHistory : invoice'[h[1]].owner = invoice[h[1]].owner
  BY <1>0, <1>4, <1>5 DEF GstTypeOK
<1>8. HistoryOf'
  <2>1. \A j \in Invoices : invoice[j].status # "NONE" => invoice'[j].status # "NONE"
    BY <1>0, <1>4, <1>5 DEF GstTypeOK
  <2> QED BY <1>0, <1>4, <1>5, <1>7, <2>1 DEF GstInv, GstTypeOK, HistoryOf
<1>9. MovedByOwnStaff'
  BY <1>4, <1>5, <1>7 DEF GstInv, MovedByOwnStaff
<1> QED BY <1>6, <1>8, <1>9 DEF GstInv

\* The invariant holds throughout (every command of service.py and auth.py).
THEOREM GstInvariant == GstSpec => []GstInv
<1>1. GstInv /\ UNCHANGED gstVars => GstInv'
  BY DEF GstInv, GstTypeOK, HistoryOf, MovedByOwnStaff, gstVars
<1>2. GstInv /\ [GstNext]_gstVars => GstInv'
  <2> SUFFICES ASSUME GstInv, GstNext PROVE GstInv'
    BY <1>1
  <2>1. ASSUME NEW b \in BrowserSessions, SessionExpires(b) PROVE GstInv'
    <3>1. CASE Tabs = {}
      <4>1. gstSession[b].state \in {"NONE", "DELETED"}
        BY <3>1 DEF GstInv, GstTypeOK, SessionRows
      <4> QED BY <2>1, <4>1 DEF SessionExpires
    <3>2. CASE Tabs # {}
      BY <2>1, <3>2, InvSession
    <3> QED BY <3>1, <3>2
  <2> QED BY <2>1, InvSession, InvResolve, InvRequestFails, InvReadSnapshot, InvClassification,
             InvCreateInvoice, InvInvoiceTransition DEF GstNext, GstSteps
<1> QED BY GstInvInit, <1>2, PTL DEF GstSpec

\* Whoever moved an invoice held the role for it in the invoice's own
\* enterprise (resolve_browser_scope, _invoice, require_roles), for every
\* instance.
THEOREM AlwaysMovedByOwnStaff == GstSpec => []MovedByOwnStaff
<1>1. GstInv => MovedByOwnStaff
  BY DEF GstInv
<1> QED BY <1>1, GstInvariant, PTL

-----------------------------------------------------------------------------
(***************************************************************************)
(* The business registry for every set of businesses, identities, GSTINs   *)
(* and changes, and every seed.                                            *)
(*                                                                         *)
(* SawWhatItChanges is not inductive by itself: a proposal that was read   *)
(* and not inserted yet must be as fresh, and a version must never come    *)
(* back, which Fresh says of every reading.                                *)
(***************************************************************************)
\* A reading of a business is at most as new as the business, and equal to it
\* if it has the same version.
Fresh(b, row) ==
    /\ row.status \in {"ACTIVE", "SUSPENDED"} /\ business[b].status # "NONE"
    /\ row.version <= business[b].version
    /\ row.version = business[b].version => row = business[b]

ReadingsFresh ==
    /\ \A c \in Changes : proposing[c] # Absent => Fresh(proposing[c].business, proposing[c].read)
    /\ \A c \in Changes : change[c].status = "SUBMITTED" =>
         Fresh(change[c].business, change[c].seen) /\ change[c].target = change[c].seen.version

AppliedNext ==
    \A c \in Changes : change[c].status = "APPROVED" =>
      /\ change[c].applied = change[c].seen.version + 1
      /\ change[c].seen.status \in {"ACTIVE", "SUSPENDED"}

RegistryInv == RegistryTypeOK /\ ReadingsFresh /\ AppliedNext

\* A business that is entered or gets a new version spoils no reading.
LEMMA FreshKept ==
    ASSUME RegistryTypeOK, NEW b \in Businesses, NEW new \in RecordRows,
           business' = [business EXCEPT ![b] = new], new.status # "NONE",
           business[b].status = "NONE" \/ new.version > business[b].version,
           NEW x \in Businesses, NEW row \in RecordRows, Fresh(x, row)
    PROVE  Fresh(x, row)'
<1>1. business[b] \in RecordRows /\ business[x] \in RecordRows
  BY DEF RegistryTypeOK
<1>2. CASE x = b
  <2>1. business'[x] = new
    BY <1>2 DEF RegistryTypeOK
  <2> QED BY <1>1, <1>2, <2>1 DEF Fresh, RecordRows
<1>3. CASE x # b
  <2>1. business'[x] = business[x]
    BY <1>3 DEF RegistryTypeOK
  <2> QED BY <2>1 DEF Fresh
<1> QED BY <1>2, <1>3

\* A step that changes one business and no proposal.
LEMMA ReadingsKept ==
    ASSUME RegistryInv, NEW b \in Businesses, NEW new \in RecordRows,
           business' = [business EXCEPT ![b] = new], new.status # "NONE",
           business[b].status = "NONE" \/ new.version > business[b].version,
           UNCHANGED <<change, proposing>>
    PROVE  ReadingsFresh' /\ AppliedNext'
<1> USE DEF RegistryInv
<1>1. ASSUME NEW c \in Changes, proposing[c] # Absent
      PROVE  Fresh(proposing[c].business, proposing[c].read)'
  <2>1. proposing[c].business \in Businesses /\ proposing[c].read \in RecordRows
    BY <1>1 DEF RegistryTypeOK
  <2>2. Fresh(proposing[c].business, proposing[c].read)
    BY <1>1 DEF ReadingsFresh
  <2> QED BY <2>1, <2>2, FreshKept DEF Fresh
<1>2. ASSUME NEW c \in Changes, change[c].status = "SUBMITTED"
      PROVE  Fresh(change[c].business, change[c].seen)'
  <2>1. change[c].business \in Businesses /\ change[c].seen \in RecordRows
    BY <1>2 DEF RegistryTypeOK, ChangeRows, NoChange
  <2>2. Fresh(change[c].business, change[c].seen)
    BY <1>2 DEF ReadingsFresh
  <2> QED BY <2>1, <2>2, FreshKept DEF Fresh
<1> QED BY <1>1, <1>2 DEF ReadingsFresh, AppliedNext

LEMMA RegistryInvInit == RegistryInit => RegistryInv
<1> SUFFICES ASSUME RegistryInit PROVE RegistryInv
  OBVIOUS
<1>1. RegistryTypeOK
  BY RegistryAssumption DEF RegistryInit, RegistryTypeOK, RecordRows, ChangeRows
<1>2. ReadingsFresh /\ AppliedNext
  BY DEF RegistryInit, ReadingsFresh, AppliedNext, NoChange
<1> QED BY <1>1, <1>2 DEF RegistryInv

LEMMA InvCreate ==
    ASSUME RegistryInv, NEW b \in Businesses, NEW identity \in Identities,
           NEW gstin \in Gstins \cup {Absent}, CreateBusiness(b, identity, gstin)
    PROVE  RegistryInv'
<1> DEFINE new == [status |-> "PENDING_REVIEW", version |-> 1, identity |-> identity,
                   gstin |-> gstin, flags |-> {"PENDING_IDENTITY_REVIEW"}]
<1>1. new \in RecordRows /\ new.status # "NONE"
  BY DEF RecordRows, RecordStatuses, RecordFlags
<1>2. business' = [business EXCEPT ![b] = new] /\ business[b].status = "NONE"
      /\ UNCHANGED <<change, proposing>>
  BY DEF CreateBusiness
<1>3. RegistryTypeOK'
  BY <1>1, <1>2 DEF RegistryInv, RegistryTypeOK, CreateBusiness
<1> HIDE DEF new
<1>4. ReadingsFresh' /\ AppliedNext'
  BY <1>1, <1>2, ReadingsKept
<1> QED BY <1>3, <1>4 DEF RegistryInv

LEMMA InvBusinessTransition ==
    ASSUME RegistryInv, NEW b \in Businesses, NEW target \in RecordStatuses, TransitionStatus(b, target)
    PROVE  RegistryInv'
<1> DEFINE new == [status |-> target, version |-> business[b].version + 1,
                   identity |-> business[b].identity, gstin |-> business[b].gstin,
                   flags |-> (business[b].flags \ {"PENDING_IDENTITY_REVIEW"}) \cup FlagFor(target)]
<1>0. business[b] \in RecordRows
  BY DEF RegistryInv, RegistryTypeOK
<1>a. FlagFor(target) \subseteq RecordFlags
  BY DEF FlagFor, RecordFlags
<1>1. new \in RecordRows /\ new.status # "NONE" /\ new.version > business[b].version
  BY <1>0, <1>a DEF RecordRows, RecordStatuses
<1>2. business' = [business EXCEPT ![b] = new] /\ UNCHANGED <<nameRows, change, proposing>>
  BY DEF TransitionStatus, VersionAfterStatus
<1> HIDE DEF new
<1>3. RegistryTypeOK'
  BY <1>1, <1>2 DEF RegistryInv, RegistryTypeOK
<1>4. ReadingsFresh' /\ AppliedNext'
  BY <1>1, <1>2, ReadingsKept
<1> QED BY <1>3, <1>4 DEF RegistryInv

LEMMA InvRead ==
    ASSUME RegistryInv, NEW c \in Changes, NEW b \in Businesses, ReadForChange(c, b)
    PROVE  RegistryInv'
<1>0. business[b] \in RecordRows
  BY DEF RegistryInv, RegistryTypeOK
<1>1. RegistryTypeOK'
  BY <1>0 DEF RegistryInv, RegistryTypeOK, ReadForChange
<1>2. Fresh(b, business[b])
  BY <1>0 DEF Fresh, ReadForChange, RecordRows
<1>3. ReadingsFresh'
  BY <1>0, <1>2 DEF RegistryInv, RegistryTypeOK, ReadForChange, ReadingsFresh, Fresh
<1>4. AppliedNext'
  BY DEF RegistryInv, ReadForChange, AppliedNext
<1> QED BY <1>1, <1>3, <1>4 DEF RegistryInv

LEMMA InvPropose ==
    ASSUME RegistryInv, NEW c \in Changes, NEW patch \in Patches, CreateChangeRequest(c, patch)
    PROVE  RegistryInv'
<1> DEFINE x == proposing[c].business
           row == proposing[c].read
<1>0. proposing[c] # Absent /\ x \in Businesses /\ row \in RecordRows /\ row.version \in Nat
  BY DEF RegistryInv, RegistryTypeOK, CreateChangeRequest, RecordRows
<1>1. Fresh(x, row)
  BY <1>0 DEF RegistryInv, ReadingsFresh
<1>2. change' = [change EXCEPT ![c] =
         [status |-> "SUBMITTED", business |-> x, target |-> row.version, patch |-> patch,
          seen |-> row, applied |-> 0]]
      /\ proposing' = [proposing EXCEPT ![c] = Absent] /\ UNCHANGED <<business, nameRows>>
  BY DEF CreateChangeRequest
<1> HIDE DEF x, row
<1>3. RegistryTypeOK'
  BY <1>0, <1>2 DEF RegistryInv, RegistryTypeOK, ChangeRows
<1>4. ReadingsFresh'
  BY <1>0, <1>1, <1>2 DEF RegistryInv, RegistryTypeOK, ReadingsFresh, Fresh
<1>5. AppliedNext'
  BY <1>2 DEF RegistryInv, RegistryTypeOK, AppliedNext
<1> QED BY <1>3, <1>4, <1>5 DEF RegistryInv

LEMMA InvFails ==
    ASSUME RegistryInv, NEW c \in Changes, ProposalFails(c)
    PROVE  RegistryInv'
BY DEF RegistryInv, RegistryTypeOK, ReadingsFresh, AppliedNext, Fresh, ProposalFails

LEMMA InvApprove ==
    ASSUME RegistryInv, NEW c \in Changes, ApproveChange(c)
    PROVE  RegistryInv'
<1> DEFINE b == change[c].business
           patch == change[c].patch
           version == business[b].version + 1
           identity == Patched(business[b].identity, patch.identity)
           new == [status |-> business[b].status, version |-> version, identity |-> identity,
                   gstin |-> Patched(business[b].gstin, patch.gstin), flags |-> business[b].flags]
           decided == [status |-> "APPROVED", business |-> b, target |-> change[c].target,
                       patch |-> patch, seen |-> change[c].seen, applied |-> version]
<1>1. /\ change[c].status = "SUBMITTED" /\ business[b].version = change[c].target
      /\ business' = [business EXCEPT ![b] = new] /\ change' = [change EXCEPT ![c] = decided]
      /\ nameRows' = nameRows \cup (IF identity = business[b].identity THEN {}
                                    ELSE {<<b, identity, version>>})
      /\ proposing' = proposing
  BY DEF ApproveChange
<1>2. /\ b \in Businesses /\ patch \in Patches /\ change[c].seen \in RecordRows
      /\ change[c].target \in Nat
  BY <1>1 DEF RegistryInv, RegistryTypeOK, ChangeRows, NoChange
<1>3. business[b] \in RecordRows /\ business[b].version \in Nat
  BY <1>2 DEF RegistryInv, RegistryTypeOK, RecordRows
<1>4. /\ identity \in Identities \cup {Absent}
      /\ Patched(business[b].gstin, patch.gstin) \in Gstins \cup {Absent}
  BY <1>2, <1>3 DEF Patched, Patches, RecordRows
<1>5. new \in RecordRows /\ new.version > business[b].version /\ version \in Nat
  BY <1>3, <1>4 DEF RecordRows
<1>6. /\ Fresh(b, change[c].seen) /\ change[c].target = change[c].seen.version
  BY <1>1 DEF RegistryInv, ReadingsFresh
<1>7. new.status # "NONE" /\ change[c].seen = business[b]
  BY <1>1, <1>6 DEF Fresh
<1>8. decided \in ChangeRows /\ decided.status = "APPROVED"
      /\ decided.applied = decided.seen.version + 1
      /\ decided.seen.status \in {"ACTIVE", "SUSPENDED"}
  BY <1>2, <1>5, <1>6, <1>7 DEF ChangeRows, Fresh
<1>9. RegistryTypeOK'
  <2>1. business' \in [Businesses -> RecordRows] /\ change' \in [Changes -> ChangeRows]
    BY <1>1, <1>5, <1>8 DEF RegistryInv, RegistryTypeOK
  <2>2. nameRows' \subseteq Businesses \X (Identities \cup {Absent}) \X Nat
    BY <1>1, <1>2, <1>4, <1>5 DEF RegistryInv, RegistryTypeOK
  <2> QED BY <1>1, <2>1, <2>2 DEF RegistryInv, RegistryTypeOK
<1>t. RegistryTypeOK
  BY DEF RegistryInv
<1> HIDE DEF b, new, decided
<1>10. ASSUME NEW x \in Businesses, NEW row \in RecordRows, Fresh(x, row)
       PROVE  Fresh(x, row)'
  BY <1>t, <1>1, <1>2, <1>5, <1>7, <1>10, FreshKept
<1>11. ASSUME NEW d \in Changes, proposing'[d] # Absent
       PROVE  Fresh(proposing[d].business, proposing[d].read)'
  <2>1. proposing' = proposing
    BY <1>1
  <2>2. proposing[d].business \in Businesses /\ proposing[d].read \in RecordRows
    BY <1>11, <2>1 DEF RegistryInv, RegistryTypeOK
  <2>3. Fresh(proposing[d].business, proposing[d].read)
    BY <1>11, <2>1 DEF RegistryInv, ReadingsFresh
  <2> QED BY <1>10, <2>1, <2>2, <2>3 DEF Fresh
<1>12. ASSUME NEW d \in Changes, change'[d].status = "SUBMITTED"
       PROVE  Fresh(change[d].business, change[d].seen)' /\ change'[d].target = change'[d].seen.version
  <2>1. d # c /\ change'[d] = change[d]
    BY <1>1, <1>8, <1>12 DEF RegistryInv, RegistryTypeOK
  <2>2. change[d].business \in Businesses /\ change[d].seen \in RecordRows
    BY <1>12, <2>1 DEF RegistryInv, RegistryTypeOK, ChangeRows, NoChange
  <2>3. Fresh(change[d].business, change[d].seen) /\ change[d].target = change[d].seen.version
    BY <1>12, <2>1 DEF RegistryInv, ReadingsFresh
  <2> QED BY <1>10, <2>1, <2>2, <2>3 DEF Fresh
<1>13. AppliedNext'
  BY <1>1, <1>8 DEF RegistryInv, RegistryTypeOK, AppliedNext
<1> QED BY <1>9, <1>11, <1>12, <1>13 DEF RegistryInv, ReadingsFresh

LEMMA InvReject ==
    ASSUME RegistryInv, NEW c \in Changes, RejectChange(c)
    PROVE  RegistryInv'
<1> DEFINE row == [status |-> "REJECTED", business |-> change[c].business,
                   target |-> change[c].target, patch |-> change[c].patch,
                   seen |-> change[c].seen, applied |-> 0]
<1>1. /\ change[c].status = "SUBMITTED" /\ change' = [change EXCEPT ![c] = row]
      /\ UNCHANGED <<business, nameRows, proposing>>
  BY DEF RejectChange
<1>2. row \in ChangeRows /\ row.status = "REJECTED"
  BY <1>1 DEF RegistryInv, RegistryTypeOK, ChangeRows, NoChange
<1> HIDE DEF row
<1>3. RegistryTypeOK'
  BY <1>1, <1>2 DEF RegistryInv, RegistryTypeOK
<1>4. ReadingsFresh' /\ AppliedNext'
  BY <1>1, <1>2 DEF RegistryInv, RegistryTypeOK, ReadingsFresh, AppliedNext, Fresh
<1> QED BY <1>3, <1>4 DEF RegistryInv

\* The invariant holds throughout (every operation of service.py).
THEOREM RegistryInvariant == RegistrySpec => []RegistryInv
<1>1. RegistryInv /\ UNCHANGED registryVars => RegistryInv'
  BY DEF RegistryInv, RegistryTypeOK, ReadingsFresh, AppliedNext, Fresh, registryVars
<1>2. RegistryInv /\ [RegistryNext]_registryVars => RegistryInv'
  BY <1>1, InvCreate, InvBusinessTransition, InvRead, InvPropose, InvFails, InvApprove, InvReject
     DEF RegistryNext
<1> QED BY RegistryInvInit, <1>2, PTL DEF RegistrySpec

\* A change that can be approved replaces exactly the record its proposer read,
\* although the reading held no lock (create_change_request, decide_change),
\* for every instance.
THEOREM ChangesSawWhatTheyReplace == RegistrySpec => []SawWhatItChanges
<1>1. RegistryInv => SawWhatItChanges
  BY DEF RegistryInv, ReadingsFresh, AppliedNext, Fresh, SawWhatItChanges
<1> QED BY <1>1, RegistryInvariant, PTL

-----------------------------------------------------------------------------
(***************************************************************************)
(* The delivery service for every set of deliveries, proofs, sources and   *)
(* source events, every ordered quantity and every row of the seed.        *)
(*                                                                         *)
(* FulfilmentBacked is not inductive by itself: that an accepted quantity  *)
(* was dispatched and ordered rests on what was dispatched and delivered   *)
(* before the buyer was asked, which Bounds carries to that point.         *)
(***************************************************************************)
\* Quantities shrink on their way to the buyer.
Bounds ==
    \A d \in Deliveries :
      /\ dispatched[d] <= Ordered[d]
      /\ deliveryStatus[d] \in PendingAcceptance => delivered[d] <= dispatched[d]

DeliveryInv == DeliveryTypeOK /\ Bounds /\ FulfilmentBacked

Fulfilled == {"DELIVERED", "PARTIALLY_ACCEPTED"}

\* What a step that changes neither quantities nor proofs must respect.
LEMMA QuietMove ==
    ASSUME DeliveryInv, NEW d \in Deliveries, NEW s \in DeliveryStatuses, NEW code,
           code \in ExceptionCodes \cup {Unset}, MovesTo(d, s, code), s \notin Fulfilled,
           s \notin PendingAcceptance, deliveryStatus[d] \notin Fulfilled,
           UNCHANGED <<quantityVars, references, proofVars, correction, sourceVars>>
    PROVE  DeliveryInv'
<1> USE DEF DeliveryInv, MovesTo, quantityVars, proofVars, sourceVars
<1>1. DeliveryTypeOK'
  BY DEF DeliveryTypeOK
<1>2. Bounds'
  BY DEF Bounds, DeliveryTypeOK
<1>3. FulfilmentBacked'
  BY DEF FulfilmentBacked, HasVerifiedProof, DeliveryTypeOK, Fulfilled
<1> QED BY <1>1, <1>2, <1>3

\* A step that leaves status, quantities and proofs alone.
LEMMA QuietRows ==
    ASSUME DeliveryInv, DeliveryTypeOK', UNCHANGED <<deliveryStatus, quantityVars, proofVars>>
    PROVE  DeliveryInv'
<1> USE DEF DeliveryInv, quantityVars, proofVars
<1>1. Bounds'
  BY DEF Bounds
<1>2. FulfilmentBacked'
  BY DEF FulfilmentBacked, HasVerifiedProof
<1> QED BY <1>1, <1>2

LEMMA InvInit == DeliveryInit => DeliveryInv
<1> SUFFICES ASSUME DeliveryInit PROVE DeliveryInv
  OBVIOUS
<1>1. PICK row \in [Deliveries -> SeedRows] :
        /\ deliveryStatus = [d \in Deliveries |-> row[d].status]
        /\ exceptionCode = [d \in Deliveries |-> row[d].code]
        /\ dispatched = [d \in Deliveries |-> row[d].dispatched]
        /\ delivered = [d \in Deliveries |-> row[d].delivered]
  BY DEF DeliveryInit
<1>2. \A d \in Deliveries : /\ row[d].status \in {"NONE", "IN_TRANSIT"}
                            /\ row[d].code \in ExceptionCodes \cup {Unset}
                            /\ row[d].dispatched \in Nat /\ row[d].delivered \in Nat
                            /\ row[d].dispatched <= Ordered[d]
  BY <1>1, DeliveryAssumption
<1>3. DeliveryTypeOK
  BY <1>1, <1>2, DeliveryAssumption DEF DeliveryInit, DeliveryTypeOK, Zero, DeliveryStatuses,
       Underway, ProofStatuses
<1>4. Bounds
  BY <1>1, <1>2 DEF Bounds, PendingAcceptance
<1>5. FulfilmentBacked
  BY <1>1, <1>2 DEF DeliveryInit, FulfilmentBacked, Zero
<1> QED BY <1>3, <1>4, <1>5 DEF DeliveryInv

LEMMA InvDispatch ==
    ASSUME DeliveryInv, NEW d \in Deliveries, NEW quantity \in 1..Ordered[d],
           DispatchDelivery(d, quantity)
    PROVE  DeliveryInv'
<1> USE DEF DeliveryInv, DispatchDelivery, MovesTo, proofVars, sourceVars
<1>0. quantity \in Nat
  BY DeliveryAssumption
<1>1. DeliveryTypeOK'
  BY <1>0 DEF DeliveryTypeOK, DeliveryStatuses, Underway
<1>2. Bounds'
  BY <1>0, DeliveryAssumption DEF Bounds, DeliveryTypeOK, PendingAcceptance
<1>3. FulfilmentBacked'
  BY DEF FulfilmentBacked, HasVerifiedProof, DeliveryTypeOK
<1> QED BY <1>1, <1>2, <1>3

LEMMA InvAttempt ==
    ASSUME DeliveryInv, NEW d \in Deliveries, NEW quantity \in 0..Ordered[d],
           AttemptSucceeds(d, quantity)
    PROVE  DeliveryInv'
<1> USE DEF DeliveryInv, AttemptSucceeds, MovesTo, proofVars, sourceVars
<1>0. quantity \in Nat
  BY DeliveryAssumption
<1>1. DeliveryTypeOK'
  BY <1>0 DEF DeliveryTypeOK, DeliveryStatuses, PendingAcceptance, ExceptionCodes
<1>2. Bounds'
  BY <1>0, DeliveryAssumption DEF Bounds, DeliveryTypeOK, PendingAcceptance
<1>3. FulfilmentBacked'
  BY DEF FulfilmentBacked, HasVerifiedProof, DeliveryTypeOK
<1> QED BY <1>1, <1>2, <1>3

LEMMA InvCapture ==
    ASSUME DeliveryInv, NEW d \in Deliveries, NEW p \in Proofs, CapturePod(d, p)
    PROVE  DeliveryInv'
<1> USE DEF DeliveryInv, CapturePod, quantityVars, sourceVars
<1>1. DeliveryTypeOK'
  BY DEF DeliveryTypeOK, ProofStatuses
<1>2. Bounds'
  BY DEF Bounds
<1>3. \A e \in Deliveries : HasVerifiedProof(e) => HasVerifiedProof(e)'
  BY DeliveryAssumption DEF HasVerifiedProof, DeliveryTypeOK
<1>4. FulfilmentBacked'
  BY <1>3 DEF FulfilmentBacked
<1> QED BY <1>1, <1>2, <1>4

LEMMA InvVerify ==
    ASSUME DeliveryInv, NEW d \in Deliveries, NEW p \in Proofs,
           NEW verdict \in {"VERIFIED", "REJECTED"}, VerifyPod(d, p, verdict)
    PROVE  DeliveryInv'
<1> USE DEF DeliveryInv, VerifyPod, quantityVars, sourceVars
<1>1. DeliveryTypeOK'
  BY DEF DeliveryTypeOK, ProofStatuses
<1>2. Bounds'
  BY DEF Bounds
<1>3. \A e \in Deliveries : HasVerifiedProof(e) => HasVerifiedProof(e)'
  BY DEF HasVerifiedProof, Reviewable, DeliveryTypeOK
<1>4. FulfilmentBacked'
  BY <1>3 DEF FulfilmentBacked
<1> QED BY <1>1, <1>2, <1>4

LEMMA InvAcceptance ==
    ASSUME DeliveryInv, NEW d \in Deliveries, NEW yes \in 0..Ordered[d], NEW no \in 0..Ordered[d],
           RecordBuyerAcceptance(d, yes, no)
    PROVE  DeliveryInv'
<1> USE DEF DeliveryInv, RecordBuyerAcceptance, MovesTo, proofVars, sourceVars
<1>0. yes \in Nat /\ no \in Nat
  BY DeliveryAssumption
<1>1. deliveryStatus'[d] \in {"PARTIALLY_ACCEPTED", "DELIVERED", "REJECTED"}
  BY <1>0 DEF DeliveryTypeOK
<1>2. DeliveryTypeOK'
  BY <1>0, <1>1 DEF DeliveryTypeOK, DeliveryStatuses, TerminalStatuses
<1>3. Bounds'
  BY <1>1 DEF Bounds, DeliveryTypeOK, PendingAcceptance
<1>4. ASSUME NEW e \in Deliveries, e # d
      PROVE  /\ deliveryStatus'[e] = deliveryStatus[e] /\ accepted'[e] = accepted[e]
             /\ rejected'[e] = rejected[e] /\ verifiedValue'[e] = verifiedValue[e]
  BY <1>4 DEF DeliveryTypeOK
<1>5. /\ accepted'[d] = yes /\ rejected'[d] = no /\ verifiedValue'[d] = yes
      /\ yes + no = delivered[d] /\ delivered[d] <= dispatched[d] /\ dispatched[d] <= Ordered[d]
      /\ deliveryStatus'[d] = "PARTIALLY_ACCEPTED" => yes > 0 /\ no > 0
      /\ deliveryStatus'[d] = "DELIVERED" => yes > 0 /\ no = 0
      /\ deliveryStatus'[d] = "REJECTED" => yes = 0
  BY <1>0 DEF DeliveryTypeOK, Bounds
<1>6. HasVerifiedProof(d)' /\ \A e \in Deliveries : HasVerifiedProof(e)' = HasVerifiedProof(e)
  BY DEF HasVerifiedProof
<1>7. FulfilmentBacked'
  <2> SUFFICES ASSUME NEW e \in Deliveries
               PROVE  /\ deliveryStatus'[e] \in Fulfilled =>
                           /\ HasVerifiedProof(e)'
                           /\ accepted'[e] > 0 /\ accepted'[e] + rejected'[e] = delivered'[e]
                           /\ delivered'[e] <= dispatched'[e] /\ dispatched'[e] <= Ordered[e]
                           /\ deliveryStatus'[e] = "DELIVERED" <=> rejected'[e] = 0
                           /\ verifiedValue'[e] = accepted'[e]
                      /\ deliveryStatus'[e] \notin Fulfilled => verifiedValue'[e] = 0
    BY DEF FulfilmentBacked, Fulfilled
  <2>1. CASE e # d
    BY <1>4, <1>6, <2>1 DEF FulfilmentBacked, Fulfilled
  <2>2. CASE e = d
    BY <1>0, <1>1, <1>5, <1>6, <2>2 DEF Fulfilled
  <2> QED BY <2>1, <2>2
<1> QED BY <1>2, <1>3, <1>7

LEMMA InvNext == DeliveryInv /\ [DeliveryNext]_deliveryVars => DeliveryInv'
<1> SUFFICES ASSUME DeliveryInv, [DeliveryNext]_deliveryVars PROVE DeliveryInv'
  OBVIOUS
<1>t. DeliveryTypeOK
  BY DEF DeliveryInv
<1>1. ASSUME NEW d \in Deliveries, CreateDelivery(d) PROVE DeliveryInv'
  BY <1>1, QuietMove DEF CreateDelivery, DeliveryStatuses, Fulfilled, PendingAcceptance
<1>2. ASSUME NEW d \in Deliveries, MarkReady(d) PROVE DeliveryInv'
  BY <1>t, <1>2, QuietMove DEF MarkReady, DeliveryStatuses, Fulfilled, PendingAcceptance, DeliveryTypeOK
<1>3. ASSUME NEW d \in Deliveries, NEW move \in TransitTransitions, RecordTransitEvent(d, move)
      PROVE  DeliveryInv'
  <2> DEFINE code == IF move[3] = "DELIVERY_FAILED" THEN "DELIVERY_DELAYED" ELSE Unset
  <2>1. /\ move[3] \in {"IN_TRANSIT", "OUT_FOR_DELIVERY", "DELIVERY_FAILED"}
        /\ move[1] \in {"DISPATCHED", "IN_TRANSIT", "OUT_FOR_DELIVERY", "DELIVERY_FAILED"}
    BY DEF TransitTransitions
  <2>2. code \in ExceptionCodes \cup {Unset}
    BY DEF ExceptionCodes
  <2>3. MovesTo(d, move[3], code)
    BY <1>3 DEF RecordTransitEvent
  <2> HIDE DEF code
  <2> QED BY <1>3, <2>1, <2>2, <2>3, QuietMove DEF RecordTransitEvent, DeliveryStatuses, Underway,
             Fulfilled, PendingAcceptance
<1>4. ASSUME NEW d \in Deliveries, AttemptFails(d) PROVE DeliveryInv'
  BY <1>4, QuietMove DEF AttemptFails, DeliveryStatuses, Underway, Fulfilled, PendingAcceptance,
       ExceptionCodes
<1>5. ASSUME NEW d \in Deliveries, NEW role, CancelDelivery(d, role) PROVE DeliveryInv'
  <2> DEFINE code == IF role = "DELIVERY_REVIEWER" THEN "CANCELLED_BY_REVIEWER" ELSE Unset
  <2>1. code \in ExceptionCodes \cup {Unset} /\ MovesTo(d, "CANCELLED", code)
    BY <1>5 DEF CancelDelivery, ExceptionCodes
  <2> HIDE DEF code
  <2> QED BY <1>5, <2>1, QuietMove DEF CancelDelivery, DeliveryStatuses, TerminalStatuses, Fulfilled,
             PendingAcceptance
<1>6. ASSUME NEW d \in Deliveries, NEW sources \in SUBSET Sources, ProposeCorrection(d, sources)
      PROVE  DeliveryInv'
  <2>1. DeliveryTypeOK'
    BY <1>t, <1>6 DEF ProposeCorrection, DeliveryTypeOK, quantityVars, proofVars, sourceVars
  <2> QED BY <1>6, <2>1, QuietRows DEF ProposeCorrection
<1>7. ASSUME NEW d \in Deliveries, NEW sources \in SUBSET Sources, NEW approve \in BOOLEAN,
             ReviewCorrection(d, sources, approve)
      PROVE  DeliveryInv'
  <2>1. DeliveryTypeOK'
    BY <1>t, <1>7 DEF ReviewCorrection, DeliveryTypeOK, quantityVars, proofVars, sourceVars
  <2> QED BY <1>7, <2>1, QuietRows DEF ReviewCorrection
<1>8. ASSUME NEW e \in SourceEvents, ConsumeProcessed(e) PROVE DeliveryInv'
  <2>1. e.code \in ExceptionCodes /\ e.version \in Nat /\ e.source \in Sources
    BY DeliveryAssumption DEF ExceptionCodes
  <2>2. DeliveryTypeOK'
    BY <1>t, <1>8, <2>1 DEF ConsumeProcessed, DeliveryTypeOK, quantityVars, proofVars
  <2> QED BY <1>8, <2>2, QuietRows DEF ConsumeProcessed
<1>9. ASSUME NEW e \in SourceEvents, ConsumeStale(e) PROVE DeliveryInv'
  <2>1. DeliveryTypeOK'
    BY <1>t, <1>9 DEF ConsumeStale, DeliveryTypeOK, quantityVars, proofVars
  <2> QED BY <1>9, <2>1, QuietRows DEF ConsumeStale
<1>10. CASE UNCHANGED deliveryVars
  <2>1. DeliveryTypeOK'
    BY <1>t, <1>10 DEF deliveryVars, DeliveryTypeOK, quantityVars, proofVars, sourceVars
  <2> QED BY <1>10, <2>1, QuietRows DEF deliveryVars
<1> QED BY <1>1, <1>2, <1>3, <1>4, <1>5, <1>6, <1>7, <1>8, <1>9, <1>10, InvDispatch, InvAttempt,
           InvCapture, InvVerify, InvAcceptance DEF DeliveryNext

\* The invariant holds throughout (every operation of service.py).
THEOREM DeliveryInvariant == DeliverySpec => []DeliveryInv
BY InvInit, InvNext, PTL DEF DeliverySpec

\* What counts as fulfilled is backed by a verified proof and by quantities
\* that were ordered, dispatched, delivered and judged (verify_pod,
\* record_buyer_acceptance), for every instance.
THEOREM FulfilmentAlwaysBacked == DeliverySpec => []FulfilmentBacked
<1>1. DeliveryInv => FulfilmentBacked
  BY DEF DeliveryInv
<1> QED BY <1>1, DeliveryInvariant, PTL

\* The quantities and the exception code of a delivery in a final status stay
\* as they are, whichever step follows (TERMINAL_STATUSES).
THEOREM TerminalStaysFinal == DeliverySpec => TerminalIsFinal
<1> DEFINE Kept(d) ==
      /\ deliveryStatus'[d] = deliveryStatus[d] /\ exceptionCode'[d] = exceptionCode[d]
      /\ delivered'[d] = delivered[d] /\ accepted'[d] = accepted[d]
      /\ verifiedValue'[d] = verifiedValue[d]
      Final == \A d \in Deliveries : deliveryStatus[d] \in TerminalStatuses => Kept(d)
<1>1. DeliveryInv /\ DeliveryNext => Final
  <2> SUFFICES ASSUME DeliveryInv, DeliveryNext, NEW f \in Deliveries,
                      deliveryStatus[f] \in TerminalStatuses
               PROVE  Kept(f)
    OBVIOUS
  <2>t. DeliveryTypeOK
    BY DEF DeliveryInv
  <2> USE DEF MovesTo, quantityVars, TerminalStatuses, PendingAcceptance, DeliveryTypeOK
  <2>1. ASSUME NEW d \in Deliveries, CreateDelivery(d) \/ MarkReady(d) \/ AttemptFails(d)
        PROVE  Kept(f)
    BY <2>t, <2>1 DEF CreateDelivery, MarkReady, AttemptFails
  <2>2. ASSUME NEW d \in Deliveries, NEW quantity \in 1..Ordered[d], DispatchDelivery(d, quantity)
        PROVE  Kept(f)
    BY <2>t, <2>2 DEF DispatchDelivery
  <2>3. ASSUME NEW d \in Deliveries, NEW move \in TransitTransitions, RecordTransitEvent(d, move)
        PROVE  Kept(f)
    <3>1. move[1] \in {"DISPATCHED", "IN_TRANSIT", "OUT_FOR_DELIVERY", "DELIVERY_FAILED"}
      BY DEF TransitTransitions
    <3> QED BY <2>t, <2>3, <3>1 DEF RecordTransitEvent
  <2>4. ASSUME NEW d \in Deliveries, NEW quantity \in 0..Ordered[d], AttemptSucceeds(d, quantity)
        PROVE  Kept(f)
    BY <2>t, <2>4 DEF AttemptSucceeds
  <2>5. ASSUME NEW d \in Deliveries, NEW p \in Proofs, CapturePod(d, p)
        PROVE  Kept(f)
    BY <2>5 DEF CapturePod
  <2>6. ASSUME NEW d \in Deliveries, NEW p \in Proofs, NEW verdict, VerifyPod(d, p, verdict)
        PROVE  Kept(f)
    BY <2>6 DEF VerifyPod
  <2>7. ASSUME NEW d \in Deliveries, NEW yes, NEW no, RecordBuyerAcceptance(d, yes, no)
        PROVE  Kept(f)
    <3>1. f # d
      BY <2>7 DEF RecordBuyerAcceptance
    <3> QED BY <2>t, <2>7, <3>1 DEF RecordBuyerAcceptance
  <2>8. ASSUME NEW d \in Deliveries, NEW role, CancelDelivery(d, role)
        PROVE  Kept(f)
    BY <2>t, <2>8 DEF CancelDelivery
  <2>9. ASSUME NEW d \in Deliveries, NEW sources, NEW approve,
               ProposeCorrection(d, sources) \/ ReviewCorrection(d, sources, approve)
        PROVE  Kept(f)
    BY <2>9 DEF ProposeCorrection, ReviewCorrection
  <2>10. ASSUME NEW e \in SourceEvents, ConsumeProcessed(e) \/ ConsumeStale(e)
         PROVE  Kept(f)
    BY <2>t, <2>10 DEF ConsumeProcessed, ConsumeStale, Concerned
  <2> QED BY <2>1, <2>2, <2>3, <2>4, <2>5, <2>6, <2>7, <2>8, <2>9, <2>10 DEF DeliveryNext
<1>2. DeliveryInv /\ [DeliveryNext]_deliveryVars => [Final]_deliveryVars
  BY <1>1
<1> QED BY <1>2, DeliveryInvariant, PTL DEF DeliverySpec, TerminalIsFinal

-----------------------------------------------------------------------------
(***************************************************************************)
(* What is forgotten or deleted is gone: the memories and the data vault   *)
(* for every set of people, memories, workers, objects and requests.       *)
(*                                                                         *)
(* Neither property is inductive.  A forgotten memory keeps no embedding   *)
(* because of what the two transactions knew of each other while they were *)
(* open (Crossings); a deleted object has no bytes because the store       *)
(* erased it before the row was marked (Erasures).                         *)
(***************************************************************************)
-----------------------------------------------------------------------------
(* Memories. *)

MemoryRows ==
    [status : {"NONE", "ACTIVE", "FORGOTTEN"}, owner : People \cup {Nil},
     sensitivity : Sensitivities, expired : BOOLEAN, content : BOOLEAN, embedding : BOOLEAN]

MemoryTypeOK ==
    /\ memory \in [Memories -> MemoryRows]
    /\ embedder \in [Embedders -> [step : {"computing", "writing"}, memory : Memories] \cup {NoWork}]
    /\ forgetting \in [People -> [memory : Memories, embedding : BOOLEAN] \cup {NoForgetting}]

\* A memory with two open transactions is in crossed, and so is one whose
\* embedding a forget request has not seen or a worker writes too late.
Crossings ==
    /\ \A w \in Embedders : embedder[w].step = "writing" =>
         /\ memory[embedder[w].memory].status # "NONE"
         /\ memory[embedder[w].memory].status = "FORGOTTEN" => embedder[w].memory \in crossed
         /\ \A u \in People : forgetting[u].memory = embedder[w].memory => embedder[w].memory \in crossed
    /\ \A u \in People : forgetting[u].memory # Nil =>
         /\ memory[forgetting[u].memory].status # "NONE"
         /\ memory[forgetting[u].memory].embedding /\ ~forgetting[u].embedding
              => forgetting[u].memory \in crossed

MemoryInv == MemoryTypeOK /\ Crossings /\ ForgottenIsErased

LEMMA MemoryInvInit == MemoryInit => MemoryInv
<1> SUFFICES ASSUME MemoryInit PROVE MemoryInv
  OBVIOUS
<1>1. "INTERNAL" \in Sensitivities
  BY DEF Sensitivities, Ranks
<1>2. MemoryTypeOK
  BY <1>1 DEF MemoryInit, MemoryTypeOK, MemoryRows, NoMemory
<1>3. Crossings /\ ForgottenIsErased
  BY DEF MemoryInit, Crossings, ForgottenIsErased, NoMemory, NoWork, NoForgetting
<1> QED BY <1>2, <1>3 DEF MemoryInv

LEMMA InvCreateMemory ==
    ASSUME MemoryInv, NEW m \in Memories, NEW u \in People, NEW organization \in BOOLEAN,
           NEW sensitivity \in {"CONFIDENTIAL", "RESTRICTED"},
           CreateMemory(m, u, organization, sensitivity)
    PROVE  MemoryInv'
<1> DEFINE row == [status |-> "ACTIVE", owner |-> IF organization THEN Nil ELSE u,
                   sensitivity |-> sensitivity, expired |-> FALSE, content |-> TRUE,
                   embedding |-> FALSE]
<1>0. sensitivity \in Sensitivities
  BY DEF Sensitivities, Ranks
<1>1. row \in MemoryRows /\ row.status = "ACTIVE" /\ ~row.embedding
  BY <1>0 DEF MemoryRows
<1>2. memory' = [memory EXCEPT ![m] = row] /\ memory[m].status = "NONE"
      /\ UNCHANGED <<embedder, forgetting, crossed>>
  BY DEF CreateMemory, NoMemory
<1> HIDE DEF row
<1>3. MemoryTypeOK'
  BY <1>1, <1>2 DEF MemoryInv, MemoryTypeOK
<1>4. Crossings'
  BY <1>1, <1>2 DEF MemoryInv, MemoryTypeOK, Crossings, NoWork, NoForgetting
<1>5. ForgottenIsErased'
  BY <1>1, <1>2 DEF MemoryInv, MemoryTypeOK, ForgottenIsErased
<1> QED BY <1>3, <1>4, <1>5 DEF MemoryInv

LEMMA InvMemoryExpires ==
    ASSUME MemoryInv, NEW m \in Memories, MemoryExpires(m)
    PROVE  MemoryInv'
<1> DEFINE row == Updated(m, TRUE, memory[m].embedding)
<1>1. /\ row \in MemoryRows /\ row.status = memory[m].status /\ row.content = memory[m].content
      /\ row.embedding = memory[m].embedding
  BY DEF MemoryInv, MemoryTypeOK, MemoryRows, Updated
<1>2. memory' = [memory EXCEPT ![m] = row] /\ UNCHANGED <<embedder, forgetting, crossed>>
  BY DEF MemoryExpires
<1> HIDE DEF row
<1>3. MemoryTypeOK'
  BY <1>1, <1>2 DEF MemoryInv, MemoryTypeOK
<1>4. Crossings'
  BY <1>1, <1>2 DEF MemoryInv, MemoryTypeOK, Crossings, NoWork, NoForgetting
<1>5. ForgottenIsErased'
  BY <1>1, <1>2 DEF MemoryInv, MemoryTypeOK, ForgottenIsErased
<1> QED BY <1>3, <1>4, <1>5 DEF MemoryInv

LEMMA InvWorker ==
    ASSUME MemoryInv, NEW w \in Embedders,
           \/ \E m \in Memories : BeginEmbed(w, m)
           \/ OpenEmbedding(w)
           \/ EmbedEnds(w)
    PROVE  MemoryInv'
<1> USE DEF MemoryInv
<1>1. ASSUME NEW m \in Memories, BeginEmbed(w, m) PROVE MemoryInv'
  <2>1. MemoryTypeOK'
    BY <1>1 DEF MemoryTypeOK, BeginEmbed
  <2>2. Crossings' /\ ForgottenIsErased'
    BY <1>1 DEF MemoryTypeOK, BeginEmbed, Crossings, ForgottenIsErased
  <2> QED BY <2>1, <2>2
<1>2. CASE OpenEmbedding(w)
  <2>0. embedder[w].memory \in Memories /\ memory[embedder[w].memory].status = "ACTIVE"
    BY <1>2 DEF MemoryTypeOK, OpenEmbedding, StillActive, NoWork
  <2>1. MemoryTypeOK'
    BY <1>2, <2>0 DEF MemoryTypeOK, OpenEmbedding
  <2>2. crossed \subseteq crossed'
    BY <1>2 DEF OpenEmbedding
  <2>3. Crossings'
    BY <1>2, <2>0, <2>2 DEF MemoryTypeOK, OpenEmbedding, BeingForgotten, Crossings
  <2>4. ForgottenIsErased'
    BY <1>2, <2>2 DEF OpenEmbedding, ForgottenIsErased
  <2> QED BY <2>1, <2>3, <2>4
<1>3. CASE EmbedEnds(w)
  <2>1. MemoryTypeOK'
    BY <1>3 DEF MemoryTypeOK, EmbedEnds
  <2>2. Crossings' /\ ForgottenIsErased'
    BY <1>3 DEF MemoryTypeOK, EmbedEnds, Crossings, ForgottenIsErased, NoWork
  <2> QED BY <2>1, <2>2
<1> QED BY <1>1, <1>2, <1>3

LEMMA InvWriteEmbedding ==
    ASSUME MemoryInv, NEW w \in Embedders, WriteEmbedding(w)
    PROVE  MemoryInv'
<1> DEFINE m == embedder[w].memory
           row == Updated(m, memory[m].expired, TRUE)
<1>0. embedder[w].step = "writing" /\ m \in Memories
  BY DEF MemoryInv, MemoryTypeOK, WriteEmbedding, NoWork
<1>1. /\ row \in MemoryRows /\ row.status = memory[m].status /\ row.content = memory[m].content
      /\ row.embedding
  BY <1>0 DEF MemoryInv, MemoryTypeOK, MemoryRows, Updated
<1>2. /\ memory' = [memory EXCEPT ![m] = row] /\ embedder' = [embedder EXCEPT ![w] = NoWork]
      /\ UNCHANGED <<forgetting, crossed>>
  BY DEF WriteEmbedding
<1>3. /\ memory[m].status # "NONE" /\ (memory[m].status = "FORGOTTEN" => m \in crossed)
      /\ \A u \in People : forgetting[u].memory = m => m \in crossed
  BY <1>0 DEF MemoryInv, Crossings
<1> HIDE DEF row, m
<1>4. MemoryTypeOK'
  BY <1>0, <1>1, <1>2 DEF MemoryInv, MemoryTypeOK
<1>5. Crossings'
  BY <1>0, <1>1, <1>2, <1>3 DEF MemoryInv, MemoryTypeOK, Crossings, NoWork, NoForgetting
<1>6. ForgottenIsErased'
  BY <1>0, <1>1, <1>2, <1>3 DEF MemoryInv, MemoryTypeOK, ForgottenIsErased
<1> QED BY <1>4, <1>5, <1>6 DEF MemoryInv

LEMMA InvBeginForget ==
    ASSUME MemoryInv, NEW u \in People, NEW m \in Memories, BeginForget(u, m)
    PROVE  MemoryInv'
<1> USE DEF MemoryInv
<1>0. memory[m].embedding \in BOOLEAN
  BY DEF MemoryTypeOK, MemoryRows
<1>1. MemoryTypeOK'
  BY <1>0 DEF MemoryTypeOK, BeginForget
<1>2. crossed \subseteq crossed'
  BY DEF BeginForget
<1>3. ASSUME NEW w \in Embedders, embedder[w].step = "writing", embedder[w].memory = m
      PROVE  m \in crossed'
  <2>1. embedder[w] = [step |-> "writing", memory |-> m]
    BY <1>3 DEF MemoryTypeOK, NoWork
  <2> QED BY <2>1 DEF BeginForget
<1>4. Crossings'
  BY <1>1, <1>2, <1>3 DEF MemoryTypeOK, BeginForget, Crossings
<1>5. ForgottenIsErased'
  BY <1>2 DEF BeginForget, ForgottenIsErased
<1> QED BY <1>1, <1>4, <1>5

LEMMA InvCommitForget ==
    ASSUME MemoryInv, NEW u \in People, CommitForget(u)
    PROVE  MemoryInv'
<1> DEFINE m == forgetting[u].memory
           row == [status |-> "FORGOTTEN", owner |-> memory[m].owner,
                   sensitivity |-> memory[m].sensitivity, expired |-> memory[m].expired,
                   content |-> FALSE,
                   embedding |-> ~forgetting[u].embedding /\ memory[m].embedding]
<1>0. m # Nil /\ m \in Memories
  BY DEF MemoryInv, MemoryTypeOK, CommitForget, NoForgetting
<1>1. /\ row \in MemoryRows /\ row.status = "FORGOTTEN" /\ ~row.content
      /\ row.embedding => ~forgetting[u].embedding /\ memory[m].embedding
  BY <1>0 DEF MemoryInv, MemoryTypeOK, MemoryRows
<1>2. /\ memory' = [memory EXCEPT ![m] = row]
      /\ forgetting' = [forgetting EXCEPT ![u] = NoForgetting] /\ UNCHANGED <<embedder, crossed>>
  BY DEF CommitForget
<1>3. row.embedding => m \in crossed
  BY <1>0, <1>1 DEF MemoryInv, Crossings
<1>4. \A w \in Embedders : embedder[w].step = "writing" /\ embedder[w].memory = m => m \in crossed
  BY DEF MemoryInv, Crossings
<1> HIDE DEF row, m
<1>5. MemoryTypeOK'
  BY <1>0, <1>1, <1>2 DEF MemoryInv, MemoryTypeOK
<1>6. Crossings'
  <2>1. ASSUME NEW w \in Embedders, embedder[w].step = "writing"
        PROVE  /\ memory'[embedder[w].memory].status # "NONE"
               /\ memory'[embedder[w].memory].status = "FORGOTTEN" => embedder[w].memory \in crossed
    BY <1>0, <1>1, <1>2, <1>4, <2>1 DEF MemoryInv, MemoryTypeOK, Crossings, NoWork
  <2>2. ASSUME NEW v \in People, forgetting'[v].memory # Nil
        PROVE  /\ v # u /\ forgetting'[v] = forgetting[v]
               /\ memory'[forgetting[v].memory].status # "NONE"
               /\ memory'[forgetting[v].memory].embedding /\ ~forgetting[v].embedding
                    => forgetting[v].memory \in crossed
    <3>1. v # u /\ forgetting'[v] = forgetting[v]
      BY <1>2, <2>2 DEF MemoryInv, MemoryTypeOK, NoForgetting
    <3> QED BY <1>0, <1>1, <1>2, <1>3, <2>2, <3>1 DEF MemoryInv, MemoryTypeOK, Crossings, NoForgetting
  <2>3. ASSUME NEW w \in Embedders, embedder[w].step = "writing", NEW v \in People,
               forgetting'[v].memory = embedder[w].memory
        PROVE  embedder[w].memory \in crossed
    <3>1. embedder[w].memory # Nil
      BY <2>3, MemoryAssumption DEF MemoryInv, MemoryTypeOK, NoWork
    <3> QED BY <2>2, <2>3, <3>1 DEF MemoryInv, Crossings
  <2> QED BY <1>2, <2>1, <2>2, <2>3 DEF Crossings
<1>7. ForgottenIsErased'
  BY <1>0, <1>1, <1>2, <1>3 DEF MemoryInv, MemoryTypeOK, ForgottenIsErased
<1> QED BY <1>5, <1>6, <1>7 DEF MemoryInv

LEMMA InvForgetFails ==
    ASSUME MemoryInv, NEW u \in People, ForgetFails(u)
    PROVE  MemoryInv'
<1> USE DEF MemoryInv
<1>1. MemoryTypeOK'
  BY DEF MemoryTypeOK, ForgetFails
<1>2. \A v \in People : forgetting'[v] = forgetting[v] \/ forgetting'[v].memory = Nil
  BY DEF MemoryTypeOK, ForgetFails, NoForgetting
<1>3. \A w \in Embedders : embedder[w].step = "writing" => embedder[w].memory # Nil
  BY MemoryAssumption DEF MemoryTypeOK, NoWork
<1>4. Crossings' /\ ForgottenIsErased'
  BY <1>2, <1>3 DEF ForgetFails, Crossings, ForgottenIsErased
<1> QED BY <1>1, <1>4

\* The invariant holds throughout (memory/service.py, handle_memory_embed).
THEOREM MemoryInvariant == MemorySpec => []MemoryInv
<1>1. ASSUME MemoryInv, UNCHANGED <<memory, embedder, forgetting, crossed>> PROVE MemoryInv'
  BY <1>1 DEF MemoryInv, MemoryTypeOK, Crossings, ForgottenIsErased
<1>2. MemoryInv /\ [MemoryNext]_memoryVars => MemoryInv'
  <2> SUFFICES ASSUME MemoryInv, [MemoryNext]_memoryVars PROVE MemoryInv'
    OBVIOUS
  <2>1. ASSUME NEW r \in ContextRuns, BeginAssemble(r) \/ \E kept \in BOOLEAN : CommitAssemble(r, kept)
        PROVE  MemoryInv'
    BY <1>1, <2>1 DEF BeginAssemble, CommitAssemble
  <2>2. CASE UNCHANGED memoryVars
    BY <1>1, <2>2 DEF memoryVars
  <2> QED BY <2>1, <2>2, InvCreateMemory, InvMemoryExpires, InvWorker, InvWriteEmbedding,
             InvBeginForget, InvCommitForget, InvForgetFails DEF MemoryNext
<1> QED BY MemoryInvInit, <1>2, PTL DEF MemorySpec

\* A forgotten memory has no content, and no embedding unless the forget
\* request and the embedding's write were open at once (forget,
\* handle_memory_embed), for every instance.
THEOREM ForgottenAlwaysErased == MemorySpec => []ForgottenIsErased
<1>1. MemoryInv => ForgottenIsErased
  BY DEF MemoryInv
<1> QED BY <1>1, MemoryInvariant, PTL

-----------------------------------------------------------------------------
(* The data vault. *)

VaultTypeOK ==
    /\ vaultObject \in [VaultObjects -> {"NONE", "PENDING_UPLOAD", "ACTIVE", "DELETED"}]
    /\ stored \in [VaultObjects -> {"nothing", "declared", "other"}]
    /\ ticket \in [VaultObjects -> {"none", "valid", "expired"}]
    /\ vaultRequest \in [VaultRequests ->
         [op : {"complete", "grant", "delete", "erased"}, object : VaultObjects] \cup {NoVaultRequest}]

\* Rows that requests work on exist, and what is deleted or about to be was
\* erased and is still gone if nobody wrote it again.
Erasures ==
    /\ \A q \in VaultRequests : vaultRequest[q].op # "none" =>
         /\ vaultObject[vaultRequest[q].object] # "NONE"
         /\ vaultRequest[q].op = "erased" => vaultRequest[q].object \in erasedAt
    /\ \A o \in VaultObjects : vaultObject[o] = "DELETED" => o \in erasedAt
    /\ \A o \in VaultObjects : o \in erasedAt =>
         vaultObject[o] # "NONE" /\ (stored[o] = "nothing" \/ o \in putAgain)

VaultInv == VaultTypeOK /\ Erasures

LEMMA InvBeginRequest ==
    ASSUME VaultInv, NEW q \in VaultRequests, NEW o \in VaultObjects,
           BeginComplete(q, o) \/ BeginGrant(q, o) \/ BeginDelete(q, o)
    PROVE  VaultInv'
<1>1. PICK op \in {"complete", "grant", "delete"} :
        vaultRequest' = [vaultRequest EXCEPT ![q] = [op |-> op, object |-> o]]
  BY DEF BeginComplete, BeginGrant, BeginDelete
<1>2. vaultObject[o] # "NONE" /\ UNCHANGED <<vaultObject, stored, ticket, erasedAt, putAgain>>
  BY DEF BeginComplete, BeginGrant, BeginDelete
<1>3. VaultTypeOK'
  BY <1>1, <1>2 DEF VaultInv, VaultTypeOK
<1>4. Erasures'
  BY <1>1, <1>2 DEF VaultInv, VaultTypeOK, Erasures
<1> QED BY <1>3, <1>4 DEF VaultInv

LEMMA InvEndRequest ==
    ASSUME VaultInv, NEW q \in VaultRequests,
           CommitComplete(q) \/ CommitGrant(q) \/ CommitDelete(q) \/ VaultFails(q)
    PROVE  VaultInv'
<1> USE DEF VaultInv, NoVaultRequest
<1>1. vaultRequest[q].op # "none" /\ vaultRequest[q].object \in VaultObjects
  BY DEF VaultTypeOK, CommitComplete, CommitGrant, CommitDelete, VaultFails
<1>2. CASE CommitComplete(q)
  BY <1>1, <1>2 DEF VaultTypeOK, Erasures, CommitComplete
<1>3. CASE CommitDelete(q)
  BY <1>1, <1>3 DEF VaultTypeOK, Erasures, CommitDelete
<1>4. CASE CommitGrant(q) \/ VaultFails(q)
  BY <1>1, <1>4 DEF VaultTypeOK, Erasures, CommitGrant, VaultFails
<1> QED BY <1>2, <1>3, <1>4

LEMMA InvErase ==
    ASSUME VaultInv, NEW q \in VaultRequests, EraseObject(q)
    PROVE  VaultInv'
<1> USE DEF VaultInv, NoVaultRequest
<1>1. vaultRequest[q].op = "delete" /\ vaultRequest[q].object \in VaultObjects
  BY DEF VaultTypeOK, EraseObject
<1>2. VaultTypeOK'
  BY <1>1 DEF VaultTypeOK, EraseObject, AfterErase
<1>3. Erasures'
  BY <1>1 DEF VaultTypeOK, Erasures, EraseObject, AfterErase
<1> QED BY <1>2, <1>3

LEMMA InvObject ==
    ASSUME VaultInv, NEW o \in VaultObjects,
           \/ InitiateUpload(o) \/ TicketExpires(o)
           \/ \E content \in {"nothing", "declared", "other"} : RegisterObject(o, content)
           \/ \E content \in {"declared", "other"} : PutObject(o, content)
    PROVE  VaultInv'
<1> USE DEF VaultInv
<1>0. CASE TicketExpires(o)
  BY <1>0 DEF VaultTypeOK, Erasures, TicketExpires
<1>1. CASE InitiateUpload(o)
  BY <1>1 DEF VaultTypeOK, Erasures, InitiateUpload
<1>2. ASSUME NEW content \in {"nothing", "declared", "other"}, RegisterObject(o, content)
      PROVE  VaultInv'
  BY <1>2 DEF VaultTypeOK, Erasures, RegisterObject
<1>3. ASSUME NEW content \in {"declared", "other"}, PutObject(o, content)
      PROVE  VaultInv'
  BY <1>3 DEF VaultTypeOK, Erasures, PutObject
<1> QED BY <1>0, <1>1, <1>2, <1>3

\* The invariant holds throughout (data_vault/service.py, object_store.py).
THEOREM VaultInvariant == VaultSpec => []VaultInv
<1>1. VaultInit => VaultInv
  BY DEF VaultInit, VaultInv, VaultTypeOK, Erasures, NoVaultRequest
<1>2. VaultInv /\ [VaultNext]_vaultVars => VaultInv'
  <2> SUFFICES ASSUME VaultInv, [VaultNext]_vaultVars PROVE VaultInv'
    OBVIOUS
  <2>1. CASE UNCHANGED vaultVars
    BY <2>1 DEF VaultInv, VaultTypeOK, Erasures, vaultVars
  <2> QED BY <2>1, InvBeginRequest, InvEndRequest, InvErase, InvObject DEF VaultNext
<1> QED BY <1>1, <1>2, PTL DEF VaultSpec

\* The store holds nothing under the key of a deleted object, unless its
\* uploader wrote again with a valid ticket (delete, complete_upload), for
\* every instance.
THEOREM DeletedAlwaysErased == VaultSpec => []DeletedIsErased
<1>1. VaultInv => DeletedIsErased
  BY DEF VaultInv, Erasures, DeletedIsErased
<1> QED BY <1>1, VaultInvariant, PTL

-----------------------------------------------------------------------------
(***************************************************************************)
(* The items of a session, for every number of conversations and writers.  *)
(*                                                                         *)
(* ItemsInOrder is not inductive by itself: the number a run is about to   *)
(* use was read in an earlier step.  Adders says that the advisory lock    *)
(* keeps it the greatest until the run commits, Numbered that the order of *)
(* insertion is bounded like the numbers.                                  *)
(***************************************************************************)

ItemRows == [sequence : Nat, chat : Chats, at : Nat]

WriterStates ==
    {AtRest}
    \cup [op : {"open"}, chat : Chats, session : ChatSessions]
    \cup [op : {"add"}, chat : Chats, last : Nat]
    \cup [op : {"drop"}, chat : Chats, rows : SUBSET ItemRows]

ChatTypeOK ==
    /\ chatOf \in [Chats -> ChatSessions \cup {Nowhere}]
    /\ items \in [ChatSessions -> SUBSET ItemRows]
    /\ added \in [ChatSessions -> Nat]
    /\ writer \in [Writers -> WriterStates]

Numbered ==
    \A s \in ChatSessions : \A a \in items[s] : a.sequence <= added[s] /\ a.at <= added[s]

\* A run that adds items is alone in its session and has read its last number.
Adding(w) == writer[w].op = "add"

Adders ==
    \A w \in Writers : Adding(w) =>
      /\ chatOf[writer[w].chat] \in ChatSessions
      /\ writer[w].last <= added[chatOf[writer[w].chat]]
      /\ \A a \in items[chatOf[writer[w].chat]] : a.sequence <= writer[w].last
      /\ \A v \in Writers : v # w /\ Adding(v) => chatOf[writer[v].chat] # chatOf[writer[w].chat]

ChatInv == ChatTypeOK /\ Numbered /\ Adders /\ ItemsInOrder

\* A set of numbers with a bound has a greatest one.
LEMMA GreatestNumber ==
    ASSUME NEW S \in SUBSET Nat, S # {}, NEW n \in Nat, \A m \in S : m <= n
    PROVE  \E x \in S : \A m \in S : m <= x
<1> DEFINE B == {k \in Nat : \A m \in S : m <= k}
<1>1. B \in SUBSET Nat /\ B # {}
  OBVIOUS
<1>2. PICK k \in B : \A x \in B : <<x, k>> \notin OpToRel(<, Nat)
  BY <1>1, NatLessThanWellFounded, WFMin, Zenon
<1>3. \A x \in B : ~(x < k)
  BY <1>2 DEF OpToRel
<1>4. PICK m \in S : TRUE
  OBVIOUS
<1>5. CASE k \in S
  BY <1>5
<1>6. CASE k \notin S
  <2>1. \A x \in S : x < k
    BY <1>6
  <2>2. k - 1 \in Nat /\ \A x \in S : x <= k - 1
    BY <2>1, <1>4
  <2>3. k - 1 \in B
    BY <2>2
  <2>4. QED BY <2>3, <1>3, <2>2
<1>7. QED BY <1>5, <1>6

\* What add_items reads is the greatest number of the session.
LEMMA LastItemGreatest ==
    ASSUME ChatTypeOK, Numbered, NEW s \in ChatSessions, NEW c \in Chats
    PROVE  /\ LastItem(s, c) \in Nat /\ LastItem(s, c) <= added[s]
           /\ \A a \in items[s] : a.sequence <= LastItem(s, c)
<1> DEFINE numbers == {item.sequence : item \in items[s]}
<1>1. numbers \in SUBSET Nat /\ added[s] \in Nat /\ \A m \in numbers : m <= added[s]
  BY DEF ChatTypeOK, Numbered, ItemRows
<1>2. CASE numbers = {}
  <2>1. LastItem(s, c) = 0
    BY <1>2 DEF LastItem
  <2>2. items[s] = {}
    BY <1>2
  <2>3. QED BY <2>1, <2>2, <1>1
<1>3. CASE numbers # {}
  <2>1. \E x \in numbers : \A m \in numbers : m <= x
    BY <1>1, <1>3, GreatestNumber
  <2>2. LastItem(s, c) = CHOOSE x \in numbers : \A m \in numbers : m <= x
    BY <1>3 DEF LastItem
  <2> HIDE DEF numbers
  <2>3. LastItem(s, c) \in numbers /\ \A m \in numbers : m <= LastItem(s, c)
    BY <2>1, <2>2
  <2>4. \A a \in items[s] : a.sequence \in numbers
    BY DEF numbers
  <2>5. QED BY <2>3, <2>4, <1>1
<1>4. QED BY <1>2, <1>3

LEMMA ChatInvInit == ChatInit => ChatInv
<1> SUFFICES ASSUME ChatInit PROVE ChatInv
  OBVIOUS
<1>1. ChatTypeOK
  BY DEF ChatInit, ChatTypeOK, WriterStates
<1>2. Numbered /\ ItemsInOrder
  BY DEF ChatInit, Numbered, ItemsInOrder
<1>3. Adders
  BY DEF ChatInit, Adders, Adding, AtRest
<1>4. QED BY <1>1, <1>2, <1>3 DEF ChatInv

\* A step that adds no item and lets nobody read a number.
LEMMA ChatQuiet ==
    ASSUME ChatInv, ChatTypeOK',
           added' = added,
           \A s \in ChatSessions : items'[s] \subseteq items[s],
           \A c \in Chats : chatOf[c] # Nowhere => chatOf'[c] = chatOf[c],
           \A w \in Writers : Adding(w)' => writer'[w] = writer[w]
    PROVE  ChatInv'
<1>1. Numbered' /\ ItemsInOrder'
  BY DEF ChatInv, Numbered, ItemsInOrder
<1>2. \A w \in Writers : Adding(w) => writer[w].chat \in Chats /\ chatOf[writer[w].chat] \in ChatSessions
  BY DEF ChatInv, ChatTypeOK, Adders, Adding, WriterStates, AtRest
<1>3. \A w \in Writers : Adding(w)' =>
        Adding(w) /\ writer'[w] = writer[w] /\ chatOf'[writer[w].chat] = chatOf[writer[w].chat]
  BY <1>2, ChatAssumption DEF Adding
<1>4. Adders'
  BY <1>2, <1>3 DEF ChatInv, Adders
<1>5. QED BY <1>1, <1>4 DEF ChatInv

\* A writer turns to something else than adding, or to rest.
LEMMA WriterTurns ==
    ASSUME ChatInv, NEW w \in Writers, NEW new \in WriterStates, new.op # "add",
           writer' = [writer EXCEPT ![w] = new]
    PROVE  /\ writer' \in [Writers -> WriterStates]
           /\ \A v \in Writers : Adding(v)' => writer'[v] = writer[v]
  BY DEF ChatInv, ChatTypeOK, Adding

LEMMA RestIsNoAdding == AtRest \in WriterStates /\ AtRest.op # "add"
  BY DEF AtRest, WriterStates

LEMMA InvBeginConversation ==
    ASSUME ChatInv, NEW w \in Writers, NEW c \in Chats, NEW s \in ChatSessions,
           BeginConversation(w, c, s)
    PROVE  ChatInv'
<1> DEFINE new == [op |-> "open", chat |-> c, session |-> s]
<1>1. new \in WriterStates /\ new.op # "add"
  BY DEF WriterStates
<1>2. writer' = [writer EXCEPT ![w] = new]
  BY DEF BeginConversation
<1> HIDE DEF new
<1>3. QED BY <1>1, <1>2, WriterTurns, ChatQuiet DEF BeginConversation, ChatInv, ChatTypeOK

LEMMA InvCreateConversation ==
    ASSUME ChatInv, NEW w \in Writers, CreateConversation(w)
    PROVE  ChatInv'
<1>1. writer[w].chat \in Chats /\ writer[w].session \in ChatSessions
  BY DEF ChatInv, ChatTypeOK, WriterStates, CreateConversation, AtRest
<1>2. ChatTypeOK'
  BY <1>1, RestIsNoAdding, WriterTurns DEF CreateConversation, ChatInv, ChatTypeOK
<1>3. \A c \in Chats : chatOf[c] # Nowhere => chatOf'[c] = chatOf[c]
  BY <1>1 DEF CreateConversation, ChatInv, ChatTypeOK
<1>4. QED BY <1>2, <1>3, RestIsNoAdding, WriterTurns, ChatQuiet DEF CreateConversation

LEMMA InvBeginDrop ==
    ASSUME ChatInv, NEW w \in Writers, NEW c \in Chats,
           BeginPopItem(w, c) \/ BeginClearSession(w, c)
    PROVE  ChatInv'
<1>1. chatOf[c] \in ChatSessions /\ items[chatOf[c]] \subseteq ItemRows
  BY DEF BeginPopItem, BeginClearSession, ChatInv, ChatTypeOK
<1>2. PICK rows \in SUBSET ItemRows :
        writer' = [writer EXCEPT ![w] = [op |-> "drop", chat |-> c, rows |-> rows]]
  <2>1. CASE BeginPopItem(w, c)
    <3>1. PICK item \in items[chatOf[c]] :
            writer' = [writer EXCEPT ![w] = [op |-> "drop", chat |-> c, rows |-> {item}]]
      BY <2>1 DEF BeginPopItem
    <3>2. QED BY <3>1, <1>1
  <2>2. CASE BeginClearSession(w, c)
    BY <2>2, <1>1 DEF BeginClearSession
  <2>3. QED BY <2>1, <2>2
<1> DEFINE new == [op |-> "drop", chat |-> c, rows |-> rows]
<1>3. new \in WriterStates /\ new.op # "add"
  BY DEF WriterStates
<1>4. writer' = [writer EXCEPT ![w] = new]
  BY <1>2
<1>5. UNCHANGED <<chatSession, chatOf, items, added>>
  BY DEF BeginPopItem, BeginClearSession
<1> HIDE DEF new
<1>6. QED BY <1>3, <1>4, <1>5, WriterTurns, ChatQuiet DEF ChatInv, ChatTypeOK

LEMMA InvDropItems ==
    ASSUME ChatInv, NEW w \in Writers, DropItems(w) \/ WriterFails(w)
    PROVE  ChatInv'
<1>1. writer' = [writer EXCEPT ![w] = AtRest] /\ UNCHANGED <<chatOf, added>>
  BY DEF DropItems, WriterFails
<1>2. /\ items' \in [ChatSessions -> SUBSET ItemRows]
      /\ \A s \in ChatSessions : items'[s] \subseteq items[s]
  BY DEF DropItems, WriterFails, ChatInv, ChatTypeOK
<1>3. QED BY <1>1, <1>2, RestIsNoAdding, WriterTurns, ChatQuiet DEF ChatInv, ChatTypeOK

\* The advisory lock: nobody else in the session is adding.
LEMMA InvBeginAddItems ==
    ASSUME ChatInv, NEW w \in Writers, NEW c \in Chats, BeginAddItems(w, c)
    PROVE  ChatInv'
<1> DEFINE s == chatOf[c]
           new == [op |-> "add", chat |-> c, last |-> LastItem(s, c)]
<1>1. s \in ChatSessions
  BY DEF BeginAddItems, ChatInv, ChatTypeOK
<1>2. /\ LastItem(s, c) \in Nat /\ LastItem(s, c) <= added[s]
      /\ \A a \in items[s] : a.sequence <= LastItem(s, c)
  BY <1>1, LastItemGreatest DEF ChatInv
<1>3. /\ new \in WriterStates /\ new.op = "add" /\ new.chat = c /\ new.last = LastItem(s, c)
  BY <1>2 DEF WriterStates
<1>4. writer' = [writer EXCEPT ![w] = new] /\ UNCHANGED <<chatOf, items, added>>
  BY DEF BeginAddItems
<1>5. \A v \in Writers : Adding(v) => chatOf[writer[v].chat] # s
  BY DEF BeginAddItems, AdvisoryLocked, Adding
<1> HIDE DEF new, s
<1>6. ChatTypeOK'
  BY <1>3, <1>4 DEF ChatInv, ChatTypeOK
<1>7. writer'[w] = new /\ \A v \in Writers : v # w => writer'[v] = writer[v]
  BY <1>4 DEF ChatInv, ChatTypeOK
<1>8. Numbered' /\ ItemsInOrder'
  BY <1>4 DEF ChatInv, Numbered, ItemsInOrder
<1>9. Adders'
  <2> SUFFICES ASSUME NEW v \in Writers, Adding(v)'
               PROVE  /\ chatOf[writer'[v].chat] \in ChatSessions
                      /\ writer'[v].last <= added[chatOf[writer'[v].chat]]
                      /\ \A a \in items[chatOf[writer'[v].chat]] : a.sequence <= writer'[v].last
                      /\ \A u \in Writers : u # v /\ Adding(u)' =>
                           chatOf[writer'[u].chat] # chatOf[writer'[v].chat]
    BY <1>4 DEF Adders
  <2>1. \A u \in Writers : u # w /\ Adding(u)' => Adding(u) /\ writer'[u] = writer[u]
    BY <1>7 DEF Adding
  <2>2. chatOf[c] = s
    BY DEF s
  <2>3. CASE v = w
    BY <2>1, <2>2, <2>3, <1>1, <1>2, <1>3, <1>5, <1>7
  <2>4. CASE v # w
    BY <2>1, <2>2, <2>4, <1>3, <1>5, <1>7 DEF ChatInv, Adders
  <2>5. QED BY <2>3, <2>4
<1>10. QED BY <1>6, <1>8, <1>9 DEF ChatInv

LEMMA InvAddItems ==
    ASSUME ChatInv, NEW w \in Writers, AddItems(w)
    PROVE  ChatInv'
<1> DEFINE c == writer[w].chat
           s == chatOf[c]
           new == [sequence |-> writer[w].last + 1, chat |-> c, at |-> added[s] + 1]
<1>1. /\ c \in Chats /\ s \in ChatSessions /\ writer[w].last \in Nat /\ added[s] \in Nat
      /\ writer[w].last <= added[s] /\ \A a \in items[s] : a.sequence <= writer[w].last
      /\ \A v \in Writers : v # w /\ Adding(v) => chatOf[writer[v].chat] # s
  BY DEF AddItems, ChatInv, ChatTypeOK, Adders, Adding, WriterStates, AtRest
<1>2. new \in ItemRows /\ new.sequence = writer[w].last + 1 /\ new.at = added[s] + 1
  BY <1>1 DEF ItemRows
<1>3. /\ added' = [added EXCEPT ![s] = added[s] + 1]
      /\ items' = [items EXCEPT ![s] = items[s] \cup {new}]
      /\ writer' = [writer EXCEPT ![w] = AtRest] /\ chatOf' = chatOf
  BY DEF AddItems
<1> HIDE DEF new, s, c
<1>4. /\ added'[s] = added[s] + 1 /\ items'[s] = items[s] \cup {new}
      /\ \A x \in ChatSessions : x # s => added'[x] = added[x] /\ items'[x] = items[x]
  BY <1>1, <1>3 DEF ChatInv, ChatTypeOK
<1>5. ChatTypeOK'
  BY <1>1, <1>2, <1>3, RestIsNoAdding DEF ChatInv, ChatTypeOK
<1>6. \A x \in ChatSessions : added[x] \in Nat /\ \A a \in items[x] : a.sequence \in Nat /\ a.at \in Nat
  BY DEF ChatInv, ChatTypeOK, ItemRows
<1>7. Numbered'
  BY <1>1, <1>2, <1>4, <1>6 DEF ChatInv, Numbered
<1>8. \A a \in items[s] : a.sequence < new.sequence /\ a.at < new.at
  BY <1>1, <1>2, <1>6 DEF ChatInv, Numbered
<1>9. ItemsInOrder'
  <2> SUFFICES ASSUME NEW x \in ChatSessions, NEW a \in items'[x], NEW b \in items'[x], a # b
               PROVE  a.sequence # b.sequence /\ (a.sequence < b.sequence <=> a.at < b.at)
    BY DEF ItemsInOrder
  <2>1. CASE a \in items[x] /\ b \in items[x]
    BY <2>1 DEF ChatInv, ItemsInOrder
  <2>2. CASE a \notin items[x]
    <3>1. x = s /\ a = new /\ b \in items[s]
      BY <2>2, <1>4
    <3>2. QED BY <3>1, <1>8, <1>6, <1>2, <1>1
  <2>3. CASE b \notin items[x]
    <3>1. x = s /\ b = new /\ a \in items[s]
      BY <2>3, <1>4
    <3>2. QED BY <3>1, <1>8, <1>6, <1>2, <1>1
  <2>4. QED BY <2>1, <2>2, <2>3
<1>10. \A v \in Writers : Adding(v)' => v # w /\ Adding(v) /\ writer'[v] = writer[v]
  BY <1>3, RestIsNoAdding DEF ChatInv, ChatTypeOK, Adding
<1>11. Adders'
  BY <1>1, <1>3, <1>4, <1>10 DEF ChatInv, Adders
<1>12. QED BY <1>5, <1>7, <1>9, <1>11 DEF ChatInv

\* Every step keeps the promise of the advisory lock under which a run adds
\* its items (add_items, pop_item, clear_session).
THEOREM ChatInvariant == ChatSpec => []ChatInv
<1>1. ChatInv /\ [ChatNext]_chatVars => ChatInv'
  <2> SUFFICES ASSUME ChatInv, [ChatNext]_chatVars PROVE ChatInv'
    OBVIOUS
  <2>1. CASE UNCHANGED chatVars
    BY <2>1 DEF chatVars, ChatInv, ChatTypeOK, Numbered, Adders, Adding, ItemsInOrder
  <2>2. ASSUME NEW s \in ChatSessions, CreateSession(s) \/ CloseSession(s)
        PROVE  ChatInv'
    BY <2>2 DEF CreateSession, CloseSession, ChatInv, ChatTypeOK, Numbered, Adders, Adding, ItemsInOrder
  <2>3. QED
    BY <2>1, <2>2, InvBeginConversation, InvCreateConversation, InvBeginAddItems, InvBeginDrop,
       InvAddItems, InvDropItems DEF ChatNext
<1>2. QED BY <1>1, ChatInvInit, PTL DEF ChatSpec

\* The items of a session are numbered in the order of their insertion
\* (add_items), for every number of writers.
THEOREM ItemsAlwaysInOrder == ChatSpec => []ItemsInOrder
<1>1. ChatInv => ItemsInOrder
  BY DEF ChatInv
<1>2. QED BY <1>1, ChatInvariant, PTL

-----------------------------------------------------------------------------
(***************************************************************************)
(* The verdicts of the live demo, for every set of subjects.               *)
(*                                                                         *)
(* VerdictGrounded is not inductive by itself: a verdict is spoken after   *)
(* the last call, and the records it rests on were read one call at a time *)
(* while the platforms went on.  Grounds says what each call has           *)
(* established; it lasts because records are never removed, totals never   *)
(* change and the history only grows (RecordsStay).                        *)
(***************************************************************************)

\* The rows of the ERP that a step of it touches.
ErpRowsOK ==
    /\ order \in [Orders -> [status : OrderStatuses, received : Nat, accepted : Nat]]
    /\ receipt \in [Receipts -> [status : {"NONE", "DRAFT", "POSTED"}, order : Orders \cup {NoRow},
                                 accepted : Nat, rejected : Nat]]
    /\ \A r \in Receipts : receipt[r].status # "NONE" => receipt[r].order \in Orders
    /\ DOMAIN erpRequest = ErpRequests
    /\ \A q \in ErpRequests : erpRequest[q].op = "post" =>
         /\ erpRequest[q].receipt \in Receipts /\ erpRequest[q].order \in Orders
         /\ receipt[erpRequest[q].receipt].status # "NONE"

LEMMA ErpRowsInit == ErpInit => ErpRowsOK
<1> SUFFICES ASSUME ErpInit PROVE ErpRowsOK
  OBVIOUS
<1>1. order \in [Orders -> [status : OrderStatuses, received : Nat, accepted : Nat]]
  <2>1. OrderSeeds \subseteq OrderStatuses
    BY ErpAssumption DEF OrderStatuses
  <2>2. [status : OrderSeeds, received : {0}, accepted : {0}]
          \subseteq [status : OrderStatuses, received : Nat, accepted : Nat]
    BY <2>1
  <2>3. QED BY <2>2 DEF ErpInit
<1>2. QED BY <1>1 DEF ErpInit, ErpRowsOK, Idle

\* Rows of orders stay, whatever a request of the ERP does.
LEMMA ErpRowsStep ==
    ASSUME ErpRowsOK, [ErpNext]_erpVars
    PROVE  /\ ErpRowsOK'
           /\ \A o \in Orders : order[o].status # "NONE" => order'[o].status # "NONE"
<1> DEFINE OrderRows == [status : OrderStatuses, received : Nat, accepted : Nat]
           ReceiptRows == [status : {"NONE", "DRAFT", "POSTED"}, order : Orders \cup {NoRow},
                           accepted : Nat, rejected : Nat]
           QuietRequests ==
             /\ DOMAIN erpRequest' = ErpRequests
             /\ \A q \in ErpRequests : erpRequest'[q].op = "post" => erpRequest'[q] = erpRequest[q]
<1>1. CASE UNCHANGED erpVars
  BY <1>1 DEF erpVars, ErpRowsOK
<1>2. ASSUME UNCHANGED <<order, receipt>>, QuietRequests
      PROVE  /\ ErpRowsOK'
             /\ \A o \in Orders : order[o].status # "NONE" => order'[o].status # "NONE"
  BY <1>2 DEF ErpRowsOK
<1>3. ASSUME NEW i \in SupplierInvoices,
             \/ \E type \in {"registered", "cancelled"}, terms \in Terms : SourceChanges(i, type, terms)
             \/ \E amount \in 1..match[i].supported : AcceptMatch(i, amount)
             \/ DisputeMatch(i)
      PROVE  /\ ErpRowsOK'
             /\ \A o \in Orders : order[o].status # "NONE" => order'[o].status # "NONE"
  <2>1. UNCHANGED <<order, receipt, erpRequest>>
    BY <1>3 DEF SourceChanges, AcceptMatch, DisputeMatch
  <2>2. QED BY <2>1, <1>2 DEF ErpRowsOK
<1>4. ASSUME NEW o \in Orders, NEW s \in OrderStatuses, s # "NONE",
             order' = [order EXCEPT ![o].status = s], UNCHANGED <<receipt, erpRequest>>
      PROVE  /\ ErpRowsOK'
             /\ \A x \in Orders : order[x].status # "NONE" => order'[x].status # "NONE"
  <2>1. order' \in [Orders -> OrderRows]
    BY <1>4 DEF ErpRowsOK
  <2>2. QED BY <2>1, <1>4 DEF ErpRowsOK
<1>5. ASSUME NEW o \in Orders, CreatePurchaseOrder(o)
      PROVE  /\ ErpRowsOK'
             /\ \A x \in Orders : order[x].status # "NONE" => order'[x].status # "NONE"
  BY <1>4, <1>5 DEF CreatePurchaseOrder, OrderStatuses
<1>6. ASSUME NEW o \in Orders, NEW s \in OrderStatuses, TransitionPurchaseOrder(o, s)
      PROVE  /\ ErpRowsOK'
             /\ \A x \in Orders : order[x].status # "NONE" => order'[x].status # "NONE"
  BY <1>4, <1>6 DEF TransitionPurchaseOrder, OrderTransitions
<1>7. ASSUME NEW o \in Orders, NEW r \in Receipts, NEW a \in 0..Quantity[o], NEW j \in 0..Quantity[o],
             CreateReceipt(r, o, a, j)
      PROVE  /\ ErpRowsOK'
             /\ \A x \in Orders : order[x].status # "NONE" => order'[x].status # "NONE"
  <2>1. Quantity[o] \in Nat
    BY ErpAssumption
  <2>2. [status |-> "DRAFT", order |-> o, accepted |-> a, rejected |-> j] \in ReceiptRows
    BY <2>1
  <2>3. receipt' \in [Receipts -> ReceiptRows]
    BY <1>7, <2>2 DEF CreateReceipt, ErpRowsOK
  <2>4. \A x \in Receipts : receipt'[x].status # "NONE" => receipt'[x].order \in Orders
    BY <1>7 DEF CreateReceipt, ErpRowsOK
  <2>5. \A x \in Receipts : receipt[x].status # "NONE" => receipt'[x].status # "NONE"
    BY <1>7 DEF CreateReceipt, ErpRowsOK
  <2>6. UNCHANGED <<order, erpRequest>>
    BY <1>7 DEF CreateReceipt
  <2>7. QED BY <2>3, <2>4, <2>5, <2>6 DEF ErpRowsOK
<1>8. ASSUME NEW q \in ErpRequests, NEW r \in Receipts, BeginPost(q, r)
      PROVE  /\ ErpRowsOK'
             /\ \A x \in Orders : order[x].status # "NONE" => order'[x].status # "NONE"
  <2>1. receipt[r].order \in Orders /\ receipt[r].status # "NONE"
    BY <1>8 DEF BeginPost, ErpRowsOK
  <2>2. erpRequest'[q].receipt = r /\ erpRequest'[q].order = receipt[r].order
    BY <1>8 DEF BeginPost, ErpRowsOK
  <2>3. DOMAIN erpRequest' = ErpRequests /\ \A x \in ErpRequests : x # q => erpRequest'[x] = erpRequest[x]
    BY <1>8 DEF BeginPost, ErpRowsOK
  <2>4. UNCHANGED <<order, receipt>>
    BY <1>8 DEF BeginPost
  <2>5. QED BY <2>1, <2>2, <2>3, <2>4 DEF ErpRowsOK
<1>9. ASSUME NEW q \in ErpRequests, CommitPost(q)
      PROVE  /\ ErpRowsOK'
             /\ \A x \in Orders : order[x].status # "NONE" => order'[x].status # "NONE"
  <2> DEFINE r == erpRequest[q].receipt
             o == erpRequest[q].order
             line == AddQuantity(o, r)
             s == IF line.accepted >= Quantity[o] THEN "FULFILLED" ELSE "PARTIALLY_FULFILLED"
             new == [status |-> s, received |-> line.received, accepted |-> line.accepted]
  <2>1. r \in Receipts /\ o \in Orders
    BY <1>9 DEF CommitPost, ErpRowsOK
  <2>2. line.received \in Nat /\ line.accepted \in Nat
    BY <2>1 DEF AddQuantity, ErpRowsOK
  <2>3. new \in OrderRows /\ new.status # "NONE"
    <3>1. s \in OrderStatuses /\ s # "NONE"
      BY DEF OrderStatuses
    <3> HIDE DEF s, line
    <3>2. QED BY <3>1, <2>2
  <2>4. order' = [order EXCEPT ![o] = new] /\ receipt' = [receipt EXCEPT ![r].status = "POSTED"]
        /\ erpRequest' = [erpRequest EXCEPT ![q] = Idle]
    BY <1>9 DEF CommitPost
  <2> HIDE DEF new, o, r
  <2>5. order' \in [Orders -> OrderRows] /\ \A x \in Orders : order[x].status # "NONE" => order'[x].status # "NONE"
    BY <2>1, <2>3, <2>4 DEF ErpRowsOK
  <2>6. receipt' \in [Receipts -> ReceiptRows] /\ \A x \in Receipts : receipt'[x].order = receipt[x].order
    BY <2>1, <2>4 DEF ErpRowsOK
  <2>7. \A x \in Receipts : receipt'[x].status # "NONE" => receipt'[x].order \in Orders
    <3>1. receipt[r].status # "NONE"
      BY <1>9 DEF CommitPost, ErpRowsOK, r
    <3>2. QED BY <2>1, <2>4, <2>6, <3>1 DEF ErpRowsOK
  <2>8. QuietRequests
    BY <2>4 DEF ErpRowsOK, Idle
  <2>9. \A x \in Receipts : receipt[x].status # "NONE" => receipt'[x].status # "NONE"
    BY <2>1, <2>4 DEF ErpRowsOK
  <2>10. QED BY <2>5, <2>6, <2>7, <2>8, <2>9 DEF ErpRowsOK
<1>10. ASSUME NEW q \in ErpRequests,
              \/ \E i \in SupplierInvoices : BeginRecalculate(q, i)
              \/ CommitRecalculate(q)
              \/ \E e \in gstEvents, snapshot \in Terms \cup {NoTerms} : BeginConsume(q, e, snapshot)
              \/ ConsumeIgnored(q) \/ ConsumeApplied(q) \/ ErpAborts(q)
       PROVE  /\ ErpRowsOK'
              /\ \A x \in Orders : order[x].status # "NONE" => order'[x].status # "NONE"
  <2>1. UNCHANGED <<order, receipt>>
    BY <1>10 DEF BeginRecalculate, CommitRecalculate, BeginConsume, ConsumeIgnored, ConsumeApplied,
                 Records, ErpAborts
  <2>2. PICK new : new.op # "post" /\ erpRequest' = [erpRequest EXCEPT ![q] = new]
    BY <1>10 DEF BeginRecalculate, CommitRecalculate, BeginConsume, ConsumeIgnored, ConsumeApplied,
                 Records, ErpAborts, Idle
  <2>3. QuietRequests
    BY <2>2 DEF ErpRowsOK
  <2>4. QED BY <2>1, <2>3, <1>2
<1>11. QED
  BY <1>1, <1>3, <1>5, <1>6, <1>7, <1>8, <1>9, <1>10 DEF ErpNext

\* An invoice has the status the seed gave it or one its history tells.
StatusHad == \A i \in Invoices : Was(i, invoice[i].status)

\* What the portal never takes back.
LEMMA PortalStays ==
    ASSUME GstInv, StatusHad, [GstNext]_gstVars
    PROVE  /\ StatusHad'
           /\ statusHistory \subseteq statusHistory'
           /\ \A i \in Invoices : invoice[i].status # "NONE" =>
                invoice'[i].status # "NONE" /\ invoice'[i].total = invoice[i].total
                /\ invoice'[i].owner = invoice[i].owner
<1>1. ASSUME UNCHANGED <<invoice, statusHistory>>
      PROVE  /\ StatusHad'
             /\ statusHistory \subseteq statusHistory'
             /\ \A i \in Invoices : invoice[i].status # "NONE" =>
                  invoice'[i].status # "NONE" /\ invoice'[i].total = invoice[i].total
                /\ invoice'[i].owner = invoice[i].owner
  BY <1>1 DEF StatusHad, Was
<1>2. ASSUME NEW i \in Invoices, NEW u \in GstUsers, NEW new \in InvoiceRows, new.status # "NONE",
             invoice[i].status # "NONE" => new.total = invoice[i].total /\ new.owner = invoice[i].owner,
             invoice' = [invoice EXCEPT ![i] = new],
             statusHistory' = statusHistory \cup {<<i, new.status, u>>}
      PROVE  /\ StatusHad'
             /\ statusHistory \subseteq statusHistory'
             /\ \A x \in Invoices : invoice[x].status # "NONE" =>
                  invoice'[x].status # "NONE" /\ invoice'[x].total = invoice[x].total
                  /\ invoice'[x].owner = invoice[x].owner
  <2>1. invoice'[i] = new /\ \A x \in Invoices : x # i => invoice'[x] = invoice[x]
    BY <1>2 DEF GstInv, GstTypeOK
  <2>2. StatusHad'
    BY <1>2, <2>1 DEF StatusHad, Was
  <2>3. QED BY <1>2, <2>1, <2>2
<1>3. \A r \in GstRequests : gstRequest[r].step = "resolved" =>
        gstRequest[r].user \in GstUsers /\ gstRequest[r].enterprise \in Enterprises
  BY DEF GstInv, GstTypeOK, RequestRows, NoRequest
<1>4. ASSUME NEW r \in GstRequests, NEW i \in Invoices, NEW line \in InvoiceLines, CreateInvoice(r, i, line)
      PROVE  /\ StatusHad'
             /\ statusHistory \subseteq statusHistory'
             /\ \A x \in Invoices : invoice[x].status # "NONE" =>
                  invoice'[x].status # "NONE" /\ invoice'[x].total = invoice[x].total
                  /\ invoice'[x].owner = invoice[x].owner
  <2> DEFINE a == CalculateLine(line)
             new == [status |-> "DRAFT", owner |-> gstRequest[r].enterprise,
                     total |-> a.taxable + a.cgst + a.sgst + a.igst]
  <2>1. a.taxable \in Nat /\ a.cgst \in Nat /\ a.sgst \in Nat /\ a.igst \in Nat
    BY <1>4, TaxAddsUp, GstAssumption DEF CreateInvoice
  <2> HIDE DEF a
  <2>2. new \in InvoiceRows /\ new.status = "DRAFT"
    BY <1>4, <1>3, <2>1 DEF CreateInvoice, InvoiceRows, InvoiceStatuses
  <2>3. invoice[i].status = "NONE" /\ invoice' = [invoice EXCEPT ![i] = new]
    BY <1>4 DEF CreateInvoice, a
  <2>4. statusHistory' = statusHistory \cup {<<i, "DRAFT", gstRequest[r].user>>}
        /\ gstRequest[r].user \in GstUsers
    BY <1>3, <1>4 DEF CreateInvoice
  <2> HIDE DEF new
  <2>5. QED BY <1>2, <2>2, <2>3, <2>4
<1>5. ASSUME NEW r \in GstRequests, NEW i \in Invoices, NEW action \in DOMAIN InvoiceTransitions,
             TransitionInvoice(r, i, action)
      PROVE  /\ StatusHad'
             /\ statusHistory \subseteq statusHistory'
             /\ \A x \in Invoices : invoice[x].status # "NONE" =>
                  invoice'[x].status # "NONE" /\ invoice'[x].total = invoice[x].total
                  /\ invoice'[x].owner = invoice[x].owner
  <2> DEFINE s == InvoiceTransitions[action].to
             new == [status |-> s, owner |-> invoice[i].owner, total |-> invoice[i].total]
  <2>1. s \in InvoiceStatuses /\ s # "NONE"
    BY DEF InvoiceTransitions, InvoiceStatuses
  <2>2. invoice' = [invoice EXCEPT ![i] = new]
        /\ statusHistory' = statusHistory \cup {<<i, s, gstRequest[r].user>>}
        /\ gstRequest[r].user \in GstUsers
    BY <1>3, <1>5 DEF TransitionInvoice
  <2> HIDE DEF s
  <2>3. /\ new \in InvoiceRows /\ new.status = s
        /\ new.total = invoice[i].total /\ new.owner = invoice[i].owner
    BY <2>1 DEF InvoiceRows, GstInv, GstTypeOK
  <2> HIDE DEF new
  <2>4. QED BY <1>2, <2>1, <2>2, <2>3
<1>6. CASE UNCHANGED gstVars
  BY <1>1, <1>6 DEF gstVars
<1>7. CASE GstNext
  <2>1. ASSUME NEW b \in BrowserSessions, NEW t \in Tabs,
               \/ \E u \in GstUsers : Login(b, u, t)
               \/ ViewSession(b, t) \/ Logout(b, t)
               \/ \E e \in Enterprises : SwitchEnterprise(b, t, e)
               \/ \E r \in GstRequests : ResolveScope(r, b, t)
        PROVE  UNCHANGED <<invoice, statusHistory>>
    BY <2>1 DEF Login, ViewSession, Logout, SwitchEnterprise, ResolveScope
  <2>2. ASSUME NEW r \in GstRequests,
               \/ RequestFails(r) \/ ReadSnapshot(r) \/ RecalculateClassification(r)
               \/ \E category \in Categories : ReviewClassification(r, category)
        PROVE  UNCHANGED <<invoice, statusHistory>>
    BY <2>2 DEF RequestFails, ReadSnapshot, RecalculateClassification, ReviewClassification
  <2>3. ASSUME NEW b \in BrowserSessions, SessionExpires(b)
        PROVE  UNCHANGED <<invoice, statusHistory>>
    BY <2>3 DEF SessionExpires
  <2>4. QED BY <1>1, <1>4, <1>5, <1>7, <2>1, <2>2, <2>3 DEF GstNext, GstSteps
<1>8. QED BY <1>6, <1>7

LEMMA RegistryStays ==
    ASSUME RegistryInv, [RegistryNext]_registryVars
    PROVE  \A b \in Businesses : business[b].status # "NONE" => business'[b].status # "NONE"
<1>1. CASE UNCHANGED registryVars
  BY <1>1 DEF registryVars
<1>2. ASSUME NEW b \in Businesses, NEW identity, NEW gstin, CreateBusiness(b, identity, gstin)
      PROVE  \A x \in Businesses : business[x].status # "NONE" => business'[x].status # "NONE"
  BY <1>2 DEF CreateBusiness, RegistryInv, RegistryTypeOK
<1>3. ASSUME NEW b \in Businesses, NEW target \in RecordStatuses, TransitionStatus(b, target)
      PROVE  \A x \in Businesses : business[x].status # "NONE" => business'[x].status # "NONE"
  BY <1>3 DEF TransitionStatus, RegistryInv, RegistryTypeOK, RecordStatuses
<1>4. ASSUME NEW c \in Changes, ApproveChange(c)
      PROVE  \A x \in Businesses : business[x].status # "NONE" => business'[x].status # "NONE"
  BY <1>4 DEF ApproveChange, RegistryInv, RegistryTypeOK
<1>5. ASSUME NEW c \in Changes,
             \/ \E b \in Businesses : ReadForChange(c, b)
             \/ \E patch \in Patches : CreateChangeRequest(c, patch)
             \/ ProposalFails(c) \/ RejectChange(c)
      PROVE  business' = business
  BY <1>5 DEF ReadForChange, CreateChangeRequest, ProposalFails, RejectChange
<1>6. QED BY <1>1, <1>2, <1>3, <1>4, <1>5 DEF RegistryNext

LEMMA DeliveriesStay ==
    ASSUME DeliveryInv, [DeliveryNext]_deliveryVars
    PROVE  \A d \in Deliveries : deliveryStatus[d] # "NONE" => deliveryStatus'[d] # "NONE"
<1>1. ASSUME NEW d \in Deliveries, NEW s, NEW code, s # "NONE", MovesTo(d, s, code)
      PROVE  \A x \in Deliveries : deliveryStatus[x] # "NONE" => deliveryStatus'[x] # "NONE"
  BY <1>1 DEF MovesTo, DeliveryInv, DeliveryTypeOK
<1>2. ASSUME NEW d \in Deliveries,
             \/ CreateDelivery(d) \/ MarkReady(d) \/ AttemptFails(d)
             \/ \E quantity \in 1..Ordered[d] : DispatchDelivery(d, quantity)
             \/ \E quantity \in 0..Ordered[d] : AttemptSucceeds(d, quantity)
             \/ \E move \in TransitTransitions : RecordTransitEvent(d, move)
             \/ \E yes, no \in 0..Ordered[d] : RecordBuyerAcceptance(d, yes, no)
             \/ \E role \in {"SELLER_OPERATOR", "DELIVERY_REVIEWER"} : CancelDelivery(d, role)
      PROVE  \E s, code : s # "NONE" /\ MovesTo(d, s, code)
  <2>1. CASE \/ CreateDelivery(d) \/ MarkReady(d) \/ AttemptFails(d)
             \/ \E quantity \in 1..Ordered[d] : DispatchDelivery(d, quantity)
             \/ \E quantity \in 0..Ordered[d] : AttemptSucceeds(d, quantity)
             \/ \E role \in {"SELLER_OPERATOR", "DELIVERY_REVIEWER"} : CancelDelivery(d, role)
    BY <2>1 DEF CreateDelivery, MarkReady, AttemptFails, DispatchDelivery, AttemptSucceeds, CancelDelivery
  <2>2. CASE \E move \in TransitTransitions : RecordTransitEvent(d, move)
    BY <2>2 DEF RecordTransitEvent, TransitTransitions
  <2>3. CASE \E yes, no \in 0..Ordered[d] : RecordBuyerAcceptance(d, yes, no)
    BY <2>3 DEF RecordBuyerAcceptance
  <2>4. QED BY <1>2, <2>1, <2>2, <2>3
<1>3. ASSUME NEW d \in Deliveries,
             \/ \E p \in Proofs : CapturePod(d, p)
             \/ \E p \in Proofs, verdict \in {"VERIFIED", "REJECTED"} : VerifyPod(d, p, verdict)
             \/ \E sources \in SUBSET Sources : ProposeCorrection(d, sources)
             \/ \E sources \in SUBSET Sources, approve \in BOOLEAN : ReviewCorrection(d, sources, approve)
      PROVE  deliveryStatus' = deliveryStatus
  BY <1>3 DEF CapturePod, VerifyPod, ProposeCorrection, ReviewCorrection
<1>4. ASSUME NEW e \in SourceEvents, ConsumeProcessed(e) \/ ConsumeStale(e)
      PROVE  deliveryStatus' = deliveryStatus
  BY <1>4 DEF ConsumeProcessed, ConsumeStale
<1>5. CASE UNCHANGED deliveryVars
  BY <1>5 DEF deliveryVars
<1>6. QED BY <1>1, <1>2, <1>3, <1>4, <1>5 DEF DeliveryNext

LEMMA MinOfTwo ==
    ASSUME NEW a \in Int, NEW b \in Int
    PROVE  Min({a, b}) = IF a <= b THEN a ELSE b
<1> DEFINE m == IF a <= b THEN a ELSE b
<1>1. m \in {a, b} /\ \A y \in {a, b} : m =< y
  OBVIOUS
<1>2. \A x \in {a, b} : (\A y \in {a, b} : x =< y) => x = m
  OBVIOUS
<1> HIDE DEF m
<1>3. QED BY <1>1, <1>2 DEF Min, m

LEMMA MaxOfTwo ==
    ASSUME NEW a \in Int, NEW b \in Int
    PROVE  Max({a, b}) = IF a >= b THEN a ELSE b
<1> DEFINE m == IF a >= b THEN a ELSE b
<1>1. m \in {a, b} /\ \A y \in {a, b} : m >= y
  OBVIOUS
<1>2. \A x \in {a, b} : (\A y \in {a, b} : x >= y) => x = m
  OBVIOUS
<1> HIDE DEF m
<1>3. QED BY <1>1, <1>2 DEF Max, m

\* A call that is not verified costs at least thirty points.
LEMMA SubtotalBounds ==
    ASSUME NEW c \in CallResults
    PROVE  /\ Subtotal(c) \in Nat /\ Subtotal(c) <= 100
           /\ ~StepVerified(c) => Subtotal(c) >= 30
<1> DEFINE x == RiskWeights[RiskClass(c)] + GuardianPoints[c.guardian]
                  + (IF StepVerified(c) THEN 0 ELSE 15) + (IF c.flagged THEN 5 ELSE 0)
<1>1. x \in Nat /\ (~StepVerified(c) => x >= 30)
  BY DEF CallResults, RiskClass, RiskWeights, GuardianPoints, StepVerified
<1>2. Subtotal(c) = Min({100, x})
  BY DEF Subtotal
<1> HIDE DEF x
<1>3. Subtotal(c) = IF 100 <= x THEN 100 ELSE x
  BY <1>1, <1>2, MinOfTwo
<1>4. QED BY <1>1, <1>3

\* So a trace with one is not rated LOW, however few platforms it touched.
LEMMA RiskOfUnverified ==
    ASSUME NEW kind, NEW calls \in SUBSET CallResults, NEW n \in Nat,
           NEW c \in calls, ~StepVerified(c)
    PROVE  RiskBand(RiskScore(kind, calls, n)) # "LOW"
<1> DEFINE S == {Subtotal(call) : call \in calls}
           h == Max(S)
           k == PlatformCount(kind, n)
           breadth == Min({10, 2 * Max({0, k - 1})})
           volume == Min({5, Max({0, n - 3})})
<1>1. h \in Nat /\ h >= 30
  <2>1. S \in SUBSET Nat /\ S # {} /\ \A m \in S : m <= 100
    BY SubtotalBounds
  <2>2. \E x \in S : \A m \in S : m <= x
    BY <2>1, GreatestNumber
  <2>3. Subtotal(c) \in S /\ Subtotal(c) >= 30
    BY SubtotalBounds
  <2> HIDE DEF S
  <2>4. \E x \in S : \A y \in S : x >= y
    BY <2>1, <2>2
  <2>5. h \in S /\ \A y \in S : h >= y
    BY <2>4 DEF Max
  <2> HIDE DEF h
  <2>6. h \in Nat /\ Subtotal(c) \in Nat /\ h >= Subtotal(c)
    BY <2>1, <2>3, <2>5
  <2>7. QED BY <2>3, <2>6
<1>2. k \in Nat
  BY DEF PlatformCount
<1>3. breadth \in Nat
  <2>1. Max({0, k - 1}) = IF 0 >= k - 1 THEN 0 ELSE k - 1
    BY <1>2, MaxOfTwo
  <2>2. 2 * Max({0, k - 1}) \in Nat
    BY <1>2, <2>1
  <2> DEFINE y == 2 * Max({0, k - 1})
  <2> HIDE DEF y
  <2>3. y \in Nat
    BY <2>2 DEF y
  <2>4. Min({10, y}) \in Nat
    BY <2>3, MinOfTwo
  <2>5. QED BY <2>4 DEF y
<1>4. volume \in Nat
  <2>1. Max({0, n - 3}) = IF 0 >= n - 3 THEN 0 ELSE n - 3
    BY MaxOfTwo
  <2>2. Max({0, n - 3}) \in Nat
    BY <2>1
  <2>3. QED BY <2>2, MinOfTwo
<1>5. RiskScore(kind, calls, n) = Max({0, Min({100, h + breadth + volume - 0})})
  <2>1. calls # {} /\ ~(\A call \in calls : StepVerified(call) /\ ~call.flagged)
    OBVIOUS
  <2>2. QED BY <2>1, Zenon DEF RiskScore
<1> HIDE DEF h, breadth, volume, S, k
<1> DEFINE z == h + breadth + volume - 0
           y == Min({100, z})
<1>6. z \in Int /\ z >= 30
  BY <1>1, <1>3, <1>4
<1> HIDE DEF z
<1>7. y \in Int /\ y >= 30
  BY <1>6, MinOfTwo
<1> HIDE DEF y
<1>8. RiskScore(kind, calls, n) \in Int /\ RiskScore(kind, calls, n) >= 30
  <2>1. Max({0, y}) = IF 0 >= y THEN 0 ELSE y
    BY <1>7, MaxOfTwo
  <2>2. QED BY <1>5, <1>7, <2>1 DEF y, z
<1>9. QED BY <1>8 DEF RiskBand

Verdicts == {"running", "error", "REVIEW_REQUIRED", "BLOCKED_PROMPT_INJECTION", "verified",
             "not_verified", "degraded", "AMOUNT_MISMATCH", "partial", "failed"}

TraceRows == [subject : Subjects, status : Verdicts, calls : SUBSET CallResults, made : Nat,
              invoice : Invoices \cup {Nobody}, some : BOOLEAN, all : BOOLEAN]

DemoTypeOK == trace = NoTrace \/ trace \in TraceRows

\* The invoice is on record and what was claimed of it holds.
Stands(i, s, status) == OnRecord(i, s, status) /\ ClaimHolds(i, s.claim)

\* What the calls made so far have found, if all of them supported the request.
Established ==
    trace.status # "none" /\ trace.all =>
      /\ \A call \in trace.calls : StepVerified(call)
      /\ trace.subject.kind \in {"invoice", "pdf"} /\ trace.made >= 1 =>
           OnRecord(trace.invoice, trace.subject, trace.subject.search)
      /\ trace.subject.kind = "invoice" /\ trace.made >= 3 =>
           Stands(trace.invoice, trace.subject, "REGISTERED")
      /\ trace.subject.kind = "pdf" /\ trace.made >= 2 =>
           Stands(trace.invoice, trace.subject, trace.subject.claim.status)
      /\ trace.subject.kind = "operations" =>
           /\ trace.made >= 1 => business[trace.subject.business].status # "NONE"
           /\ trace.made >= 2 => OnRecord(trace.invoice, trace.subject, trace.subject.search)
           /\ trace.made >= 3 => order[trace.subject.order].status # "NONE"
           /\ trace.made >= 4 => deliveryStatus[trace.subject.delivery] # "NONE"

\* A document under way is clean, and a verdict was spoken after every call.
Spoken ==
    trace.status \in {"running", "verified"} =>
      /\ trace.subject.kind = "pdf" => trace.subject.threat = "none" /\ trace.subject.complete
      /\ trace.status = "verified" =>
           /\ trace.made = Len(Plan) /\ \A call \in trace.calls : StepVerified(call)
           /\ trace.subject.kind \in {"invoice", "pdf", "operations"} => trace.all

Grounds == DemoTypeOK /\ Established /\ Spoken

\* The platforms the demo reads.
WorldInv == GstInv /\ StatusHad /\ RegistryInv /\ ErpRowsOK /\ DeliveryInv

WorldStep ==
    [GstNext]_gstVars /\ [RegistryNext]_registryVars /\ [ErpNext]_erpVars /\ [DeliveryNext]_deliveryVars

LEMMA KindsDiffer ==
    ASSUME NEW s \in Subjects
    PROVE  /\ s.kind = "invoice" => Plans[s.kind] = InvoicePlan
           /\ s.kind = "pdf" => Plans[s.kind] = PdfPlan
           /\ s.kind = "network" => Plans[s.kind] = NetworkPlan
           /\ s.kind = "operations" => Plans[s.kind] = OperationsPlan
           /\ s.kind = "proof" => Plans[s.kind] = ProofPlan
  BY DEF Plans

LEMMA PlanLengths ==
    /\ Len(InvoicePlan) = 5 /\ InvoicePlan[1] = "gst.invoices.search"
    /\ InvoicePlan[3] = "gst.invoices.verify"
    /\ Len(PdfPlan) = 2 /\ PdfPlan[1] = "gst.invoices.search" /\ PdfPlan[2] = "gst.invoices.verify"
    /\ \A n \in 2 .. 5 : InvoicePlan[n] # "gst.invoices.search"
    /\ \A n \in 3 .. 6 : OperationsPlan[n] # "gst.invoices.search"
    /\ Len(OperationsPlan) = 6 /\ OperationsPlan[1] = "registry.businesses.get"
    /\ OperationsPlan[2] = "gst.invoices.search" /\ OperationsPlan[3] = "erp.purchase_orders.get"
    /\ OperationsPlan[4] = "delivery.deliveries.find_by_invoice"
  BY DEF InvoicePlan, PdfPlan, OperationsPlan

\* Records stay, so what was found stays found.
LEMMA GroundsKept ==
    ASSUME WorldInv, WorldStep, Grounds, UNCHANGED trace
    PROVE  Grounds'
<1>1. \A i \in Invoices : \A status : Was(i, status) => Was(i, status)'
  BY PortalStays DEF WorldInv, WorldStep, Was
<1>2. \A i \in Invoices : invoice[i].status # "NONE" =>
        invoice'[i].status # "NONE" /\ invoice'[i].total = invoice[i].total
        /\ invoice'[i].owner = invoice[i].owner
  BY PortalStays DEF WorldInv, WorldStep
<1>3. \A s \in Subjects : s.kind # "proof" =>
        /\ \A i, status : OnRecord(i, s, status) => OnRecord(i, s, status)' /\ i \in Invoices
        /\ \A i, status : Stands(i, s, status) => Stands(i, s, status)'
  <2> SUFFICES ASSUME NEW s \in Subjects, s.kind # "proof", NEW i, NEW status, OnRecord(i, s, status)
               PROVE  /\ OnRecord(i, s, status)' /\ i \in Invoices
                      /\ ClaimHolds(i, s.claim) => ClaimHolds(i, s.claim)'
    BY DEF Stands
  <2>1. i \in Invoices
    BY DemoAssumption, GstAssumption DEF OnRecord
  <2>2. InvoiceGet(GstScope, i)' /\ invoice'[i].total = invoice[i].total
    BY <1>2, <2>1 DEF OnRecord, InvoiceGet
  <2>3. QED BY <1>1, <2>1, <2>2 DEF OnRecord, ClaimHolds
<1>4. \A b \in Businesses : business[b].status # "NONE" => business'[b].status # "NONE"
  BY RegistryStays DEF WorldInv, WorldStep
<1>5. \A o \in Orders : order[o].status # "NONE" => order'[o].status # "NONE"
  BY ErpRowsStep DEF WorldInv, WorldStep
<1>6. \A d \in Deliveries : deliveryStatus[d] # "NONE" => deliveryStatus'[d] # "NONE"
  BY DeliveriesStay DEF WorldInv, WorldStep
<1>7. DemoTypeOK' /\ Spoken'
  BY DEF Grounds, DemoTypeOK, Spoken, Plan
<1>8. CASE trace = NoTrace
  BY <1>7, <1>8 DEF NoTrace, Grounds, Established
<1>9. CASE trace \in TraceRows
  <2>1. trace.subject \in Subjects
    BY <1>9 DEF TraceRows
  <2>2. trace.subject.kind = "operations" =>
          /\ trace.subject.business \in Businesses /\ trace.subject.order \in Orders
          /\ trace.subject.delivery \in Deliveries
    BY <2>1, DemoAssumption
  <2>3. Established'
    BY <1>3, <1>4, <1>5, <1>6, <2>1, <2>2 DEF Grounds, Established
  <2>4. QED BY <1>7, <2>3 DEF Grounds
<1>10. QED BY <1>8, <1>9 DEF Grounds, DemoTypeOK

LEMMA GroundsOfStart ==
    ASSUME Grounds, NEW s \in Subjects, StartRequest(s)
    PROVE  Grounds'
<1> DEFINE new == [subject |-> s, status |-> Intake(s), calls |-> {}, made |-> 0,
                   invoice |-> Nobody, some |-> FALSE, all |-> TRUE]
<1>1. /\ Intake(s) \in Verdicts /\ Intake(s) # "verified"
      /\ s.kind = "pdf" /\ Intake(s) = "running" => s.threat = "none" /\ s.complete
  BY DemoAssumption DEF Intake, Verdicts
<1>2. /\ new \in TraceRows /\ new.status = Intake(s) /\ new.subject = s
      /\ new.calls = {} /\ new.made = 0
  BY <1>1 DEF TraceRows
<1>3. trace' = new
  BY DEF StartRequest
<1> HIDE DEF new
<1>4. DemoTypeOK'
  BY <1>2, <1>3 DEF DemoTypeOK
<1>5. Established'
  BY <1>2, <1>3 DEF Established
<1>6. Spoken'
  BY <1>1, <1>2, <1>3 DEF Spoken
<1>7. QED BY <1>4, <1>5, <1>6 DEF Grounds

\* What a search that supports the request has found: its first row.
LEMMA SearchFound ==
    ASSUME WorldInv, NEW s \in Subjects, s.kind # "proof", NEW item, NEW answer,
           item \in ItemOf("gst.invoices.search", s),
           Supports("gst.invoices.search", s, item, answer)
    PROVE  OnRecord(item, s, s.search)
<1>1. item # Nobody
  BY DEF Supports
<1>2. item \in InvoiceSearch(GstScope, s.query, s.search)
  BY <1>1 DEF ItemOf, FirstItems
<1>3. MatchesOf[s.query] \subseteq Invoices
  BY DemoAssumption, GstAssumption
<1>4. /\ item \in MatchesOf[s.query] /\ item \in Invoices
      /\ InvoiceGet(GstScope, item) /\ invoice[item].status = s.search
  BY <1>2, <1>3 DEF InvoiceSearch
<1>5. QED BY <1>4 DEF OnRecord, WorldInv, StatusHad

\* A search that supports the request has an item of its own; any other call
\* is about the item found before.
LEMMA OtherItems ==
    ASSUME NEW tool, tool # "gst.invoices.search", NEW s, NEW item, item \in ItemOf(tool, s)
    PROVE  item = trace.invoice
  BY DEF ItemOf

\* What a call that supports the request has found.
LEMMA SupportFound ==
    ASSUME WorldInv, NEW s \in Subjects, NEW item, NEW answer
    PROVE  /\ /\ s.kind \in {"invoice", "pdf"} /\ OnRecord(item, s, s.search)
              /\ Supports("gst.invoices.verify", s, item, answer)
              => /\ Stands(item, s, s.claim.status)
                 /\ s.kind = "invoice" => Stands(item, s, "REGISTERED")
           /\ s.kind = "operations" =>
                /\ Supports("registry.businesses.get", s, item, answer) =>
                     business[s.business].status # "NONE"
                /\ Supports("erp.purchase_orders.get", s, item, answer) => order[s.order].status # "NONE"
                /\ Supports("delivery.deliveries.find_by_invoice", s, item, answer) =>
                     deliveryStatus[s.delivery] # "NONE"
<1>1. \A i \in Invoices : Was(i, invoice[i].status)
  BY DEF WorldInv, StatusHad
<1>2. ASSUME s.kind \in {"invoice", "pdf"}, OnRecord(item, s, s.search),
             Supports("gst.invoices.verify", s, item, answer)
      PROVE  /\ Stands(item, s, s.claim.status)
             /\ s.kind = "invoice" => Stands(item, s, "REGISTERED")
  <2>1. InvoiceVerify(GstScope, item, s.claim).verified
        /\ (s.kind = "invoice" => InvoiceVerify(GstScope, item, s.claim).eligible)
    BY <1>2 DEF Supports
  <2>2. /\ ClaimHolds(item, s.claim) /\ invoice[item].status = s.claim.status
        /\ s.kind = "invoice" => invoice[item].status = "REGISTERED"
    BY <2>1 DEF InvoiceVerify, ClaimHolds
  <2>3. item \in Invoices
    BY <1>2, DemoAssumption, GstAssumption DEF OnRecord
  <2>4. QED BY <1>1, <1>2, <2>2, <2>3 DEF Stands, OnRecord
<1>3. ASSUME s.kind = "operations"
      PROVE  /\ Supports("registry.businesses.get", s, item, answer) => business[s.business].status # "NONE"
             /\ Supports("erp.purchase_orders.get", s, item, answer) => order[s.order].status # "NONE"
             /\ Supports("delivery.deliveries.find_by_invoice", s, item, answer) =>
                  deliveryStatus[s.delivery] # "NONE"
  BY <1>3 DEF Supports
<1>4. QED BY <1>2, <1>3

LEMMA GroundsOfCall ==
    ASSUME WorldInv, Grounds, NEW call \in CallResults, NEW item \in Invoices \cup {Nobody},
           NEW answer \in BOOLEAN, InvokeTool(call, item, answer),
           UNCHANGED <<gstVars, registryVars, erpVars, deliveryVars>>
    PROVE  Grounds'
<1> DEFINE s == trace.subject
           tool == Plan[trace.made + 1]
           found == StepVerified(call) /\ Supports(tool, s, item, answer)
           kept == IF found THEN item ELSE trace.invoice
           status == IF ~GivesUp(tool, call, found) THEN "running"
                     ELSE IF s.kind = "invoice" THEN "error"
                     ELSE IF s.kind = "pdf" THEN "REVIEW_REQUIRED"
                     ELSE "running"
           some == trace.some \/ found
           all == trace.all /\ found
           new == [subject |-> s, calls |-> trace.calls \cup {call}, made |-> trace.made + 1,
                   invoice |-> kept, some |-> some, all |-> all, status |-> status]
<1>1. trace.status = "running" /\ trace \in TraceRows /\ item \in ItemOf(tool, s)
  BY DEF InvokeTool, Grounds, DemoTypeOK, NoTrace
<1>2. trace' = new
  BY DEF InvokeTool
<1>3. status \in {"running", "error", "REVIEW_REQUIRED"}
  OBVIOUS
<1>4. s \in Subjects /\ trace.made \in Nat /\ trace.calls \in SUBSET CallResults
      /\ trace.invoice \in Invoices \cup {Nobody}
  BY <1>1 DEF TraceRows
<1>5. some \in BOOLEAN /\ all \in BOOLEAN /\ (all <=> trace.all /\ found)
  OBVIOUS
<1>0. kept \in Invoices \cup {Nobody} /\ (found => kept = item)
  BY <1>4
<1> HIDE DEF status
<1>6. /\ new \in TraceRows /\ new.status = status /\ new.subject = s /\ new.made = trace.made + 1
      /\ new.calls = trace.calls \cup {call} /\ (new.all <=> trace.all /\ found)
      /\ new.invoice = kept
  <2> HIDE DEF some, all, kept
  <2>1. /\ new \in TraceRows /\ new.status = status /\ new.subject = s /\ new.made = trace.made + 1
        /\ new.calls = trace.calls \cup {call} /\ new.all = all /\ new.invoice = kept
    BY <1>0, <1>3, <1>4, <1>5 DEF TraceRows, Verdicts
  <2> HIDE DEF new, found
  <2>2. QED BY <1>5, <2>1
<1> HIDE DEF new, kept
<1>7. DemoTypeOK'
  BY <1>2, <1>6 DEF DemoTypeOK
<1>8. Spoken'
  BY <1>1, <1>2, <1>3, <1>6 DEF Grounds, Spoken
<1>9. Established'
  <2> SUFFICES ASSUME trace.all, found
               PROVE  /\ \A c \in new.calls : StepVerified(c)
                      /\ s.kind \in {"invoice", "pdf"} /\ new.made >= 1 => OnRecord(item, s, s.search)
                      /\ s.kind = "invoice" /\ new.made >= 3 => Stands(item, s, "REGISTERED")
                      /\ s.kind = "pdf" /\ new.made >= 2 => Stands(item, s, s.claim.status)
                      /\ s.kind = "operations" =>
                           /\ new.made >= 1 => business[s.business].status # "NONE"
                           /\ new.made >= 2 => OnRecord(item, s, s.search)
                           /\ new.made >= 3 => order[s.order].status # "NONE"
                           /\ new.made >= 4 => deliveryStatus[s.delivery] # "NONE"
    <3>1. /\ \A i, x, st : OnRecord(i, x, st)' <=> OnRecord(i, x, st)
          /\ \A i, x, st : Stands(i, x, st)' <=> Stands(i, x, st)
          /\ UNCHANGED <<business, order, deliveryStatus>>
      BY DEF gstVars, registryVars, erpVars, deliveryVars, Stands, OnRecord, InvoiceGet, ClaimHolds, Was
    <3> HIDE DEF found, s
    <3>2. QED BY <1>0, <1>2, <1>6, <3>1 DEF Established
  <2>1. StepVerified(call) /\ Supports(tool, s, item, answer)
    OBVIOUS
  <2>2. \A c \in new.calls : StepVerified(c)
    BY <1>1, <1>6, <2>1 DEF Grounds, Established
  <2>3. Plan = Plans[s.kind] /\ trace.made < Len(Plan)
    BY DEF Plan, InvokeTool
  <2>4. /\ s.kind \in {"invoice", "pdf"} /\ trace.made >= 1 => OnRecord(trace.invoice, s, s.search)
        /\ s.kind = "invoice" /\ trace.made >= 3 => Stands(trace.invoice, s, "REGISTERED")
        /\ s.kind = "pdf" /\ trace.made >= 2 => Stands(trace.invoice, s, s.claim.status)
        /\ s.kind = "operations" =>
             /\ trace.made >= 1 => business[s.business].status # "NONE"
             /\ trace.made >= 2 => OnRecord(trace.invoice, s, s.search)
             /\ trace.made >= 3 => order[s.order].status # "NONE"
             /\ trace.made >= 4 => deliveryStatus[s.delivery] # "NONE"
    BY <1>1 DEF Grounds, Established
  <2> HIDE DEF s, found
  <2>5. /\ s.kind = "invoice" =>
             /\ trace.made \in 0 .. 4
             /\ trace.made = 0 => tool = "gst.invoices.search"
             /\ trace.made = 2 => tool = "gst.invoices.verify"
             /\ trace.made >= 1 => tool # "gst.invoices.search"
        /\ s.kind = "pdf" =>
             /\ trace.made \in 0 .. 1
             /\ trace.made = 0 => tool = "gst.invoices.search"
             /\ trace.made = 1 => tool = "gst.invoices.verify"
        /\ s.kind = "operations" =>
             /\ trace.made \in 0 .. 5
             /\ trace.made = 0 => tool = "registry.businesses.get"
             /\ trace.made = 1 => tool = "gst.invoices.search"
             /\ trace.made = 2 => tool = "erp.purchase_orders.get"
             /\ trace.made = 3 => tool = "delivery.deliveries.find_by_invoice"
             /\ trace.made >= 2 => tool # "gst.invoices.search"
    <3>1. CASE s.kind = "invoice"
      <4>1. Plan = InvoicePlan /\ trace.made \in 0 .. 4
        <5>1. Plan = InvoicePlan
          BY <1>4, <2>3, <3>1, KindsDiffer
        <5>2. trace.made < Len(InvoicePlan) /\ trace.made \in Nat
          BY <1>4, <2>3, <5>1
        <5>3. QED BY <5>1, <5>2, PlanLengths
      <4>2. QED BY <3>1, <4>1, PlanLengths
    <3>2. CASE s.kind = "pdf"
      <4>1. Plan = PdfPlan /\ trace.made \in 0 .. 1
        <5>1. Plan = PdfPlan
          BY <1>4, <2>3, <3>2, KindsDiffer
        <5>2. trace.made < Len(PdfPlan) /\ trace.made \in Nat
          BY <1>4, <2>3, <5>1
        <5>3. QED BY <5>1, <5>2, PlanLengths
      <4>2. QED BY <3>2, <4>1, PlanLengths
    <3>3. CASE s.kind = "operations"
      <4>1. Plan = OperationsPlan /\ trace.made \in 0 .. 5
        <5>1. Plan = OperationsPlan
          BY <1>4, <2>3, <3>3, KindsDiffer
        <5>2. trace.made < Len(OperationsPlan) /\ trace.made \in Nat
          BY <1>4, <2>3, <5>1
        <5>3. QED BY <5>1, <5>2, PlanLengths
      <4>2. QED BY <3>3, <4>1, PlanLengths
    <3>4. QED BY <3>1, <3>2, <3>3
  <2> HIDE DEF tool
  <2>6. tool # "gst.invoices.search" => item = trace.invoice
    BY <1>1, OtherItems
  <2>7. tool = "gst.invoices.search" /\ s.kind # "proof" => OnRecord(item, s, s.search)
    BY <1>1, <1>4, <2>1, SearchFound
  <2>8. ASSUME s.kind = "invoice"
        PROVE  /\ OnRecord(item, s, s.search)
               /\ new.made >= 3 => Stands(item, s, "REGISTERED")
    <3>1. OnRecord(item, s, s.search)
      BY <2>4, <2>5, <2>6, <2>7, <2>8
    <3>2. CASE trace.made >= 3
      BY <2>4, <2>5, <2>6, <2>8, <3>1, <3>2
    <3>3. CASE trace.made = 2
      BY <1>4, <2>1, <2>5, <2>8, <3>1, <3>3, SupportFound
    <3>4. QED BY <1>4, <1>6, <3>1, <3>2, <3>3
  <2>9. ASSUME s.kind = "pdf"
        PROVE  /\ OnRecord(item, s, s.search)
               /\ new.made >= 2 => Stands(item, s, s.claim.status)
    <3>1. OnRecord(item, s, s.search)
      BY <2>4, <2>5, <2>6, <2>7, <2>9
    <3>2. CASE trace.made = 1
      BY <1>4, <2>1, <2>5, <2>9, <3>1, <3>2, SupportFound
    <3>3. QED BY <1>4, <1>6, <2>5, <2>9, <3>1, <3>2
  <2>10. ASSUME s.kind = "operations"
         PROVE  /\ new.made >= 1 => business[s.business].status # "NONE"
                /\ new.made >= 2 => OnRecord(item, s, s.search)
                /\ new.made >= 3 => order[s.order].status # "NONE"
                /\ new.made >= 4 => deliveryStatus[s.delivery] # "NONE"
    <3>1. /\ trace.made = 0 => business[s.business].status # "NONE"
          /\ trace.made = 2 => order[s.order].status # "NONE"
          /\ trace.made = 3 => deliveryStatus[s.delivery] # "NONE"
      BY <1>4, <2>1, <2>5, <2>10, SupportFound
    <3>2. trace.made >= 1 => OnRecord(item, s, s.search)
      BY <1>4, <2>4, <2>5, <2>6, <2>7, <2>10
    <3>3. QED BY <1>4, <1>6, <2>4, <2>10, <3>1, <3>2
  <2>11. QED BY <2>2, <2>8, <2>9, <2>10
<1>10. QED BY <1>7, <1>8, <1>9 DEF Grounds

LEMMA GroundsOfVerdict ==
    ASSUME Grounds, Conclude, UNCHANGED <<gstVars, registryVars, erpVars, deliveryVars>>
    PROVE  Grounds'
<1> DEFINE new == [subject |-> trace.subject, calls |-> trace.calls, made |-> trace.made,
                   invoice |-> trace.invoice, some |-> trace.some, all |-> trace.all, status |-> Conclusion]
<1>1. trace.status = "running" /\ trace \in TraceRows /\ trace.made = Len(Plan)
  BY DEF Conclude, Grounds, DemoTypeOK, NoTrace
<1>2. trace' = new
  BY DEF Conclude
<1>3. Conclusion \in Verdicts /\ Conclusion # "running"
  BY DEF Conclusion, Verdicts, InvoiceVerdict, NetworkVerdict, OperationsVerdict, PdfVerdict, ProofVerdict
<1>4. Conclusion = "verified" =>
        /\ trace.subject.kind \in {"invoice", "pdf", "operations"} => trace.all
        /\ trace.subject.kind \notin {"invoice", "pdf", "operations"} => EveryCallVerified
  BY DEF Conclusion, InvoiceVerdict, NetworkVerdict, OperationsVerdict, PdfVerdict, ProofVerdict
<1>5. /\ new \in TraceRows /\ new.status = Conclusion /\ new.subject = trace.subject
      /\ new.made = trace.made /\ new.calls = trace.calls /\ new.all = trace.all
      /\ new.invoice = trace.invoice
  BY <1>1, <1>3 DEF TraceRows
<1> HIDE DEF new
<1>6. DemoTypeOK'
  BY <1>2, <1>5 DEF DemoTypeOK
<1>7. Established'
  <2>1. /\ \A i, s, st : OnRecord(i, s, st)' <=> OnRecord(i, s, st)
        /\ \A i, s, st : Stands(i, s, st)' <=> Stands(i, s, st)
        /\ UNCHANGED <<business, order, deliveryStatus>>
    BY DEF gstVars, registryVars, erpVars, deliveryVars, Stands, OnRecord, InvoiceGet, ClaimHolds, Was
  <2>2. QED BY <1>1, <1>2, <1>5, <2>1 DEF Grounds, Established
<1>8. Spoken'
  <2>1. Plan' = Plan
    BY <1>2, <1>5 DEF Plan
  <2>2. trace.all => \A call \in trace.calls : StepVerified(call)
    BY <1>1 DEF Grounds, Established
  <2>3. Conclusion = "verified" => \A call \in trace.calls : StepVerified(call)
    BY <1>4, <2>2 DEF EveryCallVerified
  <2>4. QED BY <1>1, <1>2, <1>4, <1>5, <2>1, <2>3 DEF Grounds, Spoken
<1>9. QED BY <1>6, <1>7, <1>8 DEF Grounds

\* What has been established is what a verdict has to rest on.
LEMMA GroundsSuffice == Grounds => VerdictGrounded
<1> SUFFICES ASSUME Grounds PROVE VerdictGrounded
  OBVIOUS
<1>1. CASE trace = NoTrace
  BY <1>1 DEF NoTrace, VerdictGrounded
<1>2. CASE trace \in TraceRows
  <2>1. trace.status # "none" /\ trace.subject \in Subjects /\ trace.made \in Nat
        /\ trace.calls \in SUBSET CallResults
    BY <1>2 DEF TraceRows, Verdicts
  <2>2. \/ trace.subject.kind \notin {"invoice", "network"}
        \/ RiskBand(RiskScore(trace.subject.kind, trace.calls, trace.made)) # "LOW"
        \/ \A call \in trace.calls : StepVerified(call)
    BY <2>1, RiskOfUnverified
  <2>3. ASSUME trace.status = "verified"
        PROVE  /\ trace.made = Len(Plan) /\ \A call \in trace.calls : StepVerified(call)
               /\ trace.subject.kind = "invoice" =>
                    /\ OnRecord(trace.invoice, trace.subject, "REGISTERED")
                    /\ ClaimHolds(trace.invoice, trace.subject.claim)
               /\ trace.subject.kind = "pdf" =>
                    /\ trace.subject.threat = "none" /\ trace.subject.complete
                    /\ OnRecord(trace.invoice, trace.subject, trace.subject.claim.status)
                    /\ ClaimHolds(trace.invoice, trace.subject.claim)
               /\ trace.subject.kind = "operations" =>
                    /\ OnRecord(trace.invoice, trace.subject, trace.subject.search)
                    /\ business[trace.subject.business].status # "NONE"
                    /\ order[trace.subject.order].status # "NONE"
                    /\ deliveryStatus[trace.subject.delivery] # "NONE"
    <3>1. /\ trace.made = Len(Plan) /\ \A call \in trace.calls : StepVerified(call)
          /\ trace.subject.kind \in {"invoice", "pdf", "operations"} => trace.all
          /\ trace.subject.kind = "pdf" => trace.subject.threat = "none" /\ trace.subject.complete
      BY <2>3 DEF Grounds, Spoken
    <3>2. /\ trace.subject.kind = "invoice" => trace.made = 5
          /\ trace.subject.kind = "pdf" => trace.made = 2
          /\ trace.subject.kind = "operations" => trace.made = 6
      BY <2>1, <3>1, KindsDiffer, PlanLengths DEF Plan
    <3>3. Established
      BY DEF Grounds
    <3>4. /\ trace.subject.kind = "invoice" /\ trace.made >= 3 =>
               Stands(trace.invoice, trace.subject, "REGISTERED")
          /\ trace.subject.kind = "pdf" /\ trace.made >= 2 =>
               Stands(trace.invoice, trace.subject, trace.subject.claim.status)
      BY <2>1, <3>1, <3>3, Zenon DEF Established
    <3>5. trace.subject.kind = "operations" =>
            /\ trace.made >= 1 => business[trace.subject.business].status # "NONE"
            /\ trace.made >= 2 => OnRecord(trace.invoice, trace.subject, trace.subject.search)
            /\ trace.made >= 3 => order[trace.subject.order].status # "NONE"
            /\ trace.made >= 4 => deliveryStatus[trace.subject.delivery] # "NONE"
      BY <2>1, <3>1, <3>3, Zenon DEF Established
    <3>6. /\ trace.subject.kind = "invoice" =>
               Stands(trace.invoice, trace.subject, "REGISTERED")
          /\ trace.subject.kind = "pdf" =>
               Stands(trace.invoice, trace.subject, trace.subject.claim.status)
      BY <3>2, <3>4
    <3>7. trace.subject.kind = "operations" =>
            /\ OnRecord(trace.invoice, trace.subject, trace.subject.search)
            /\ business[trace.subject.business].status # "NONE"
            /\ order[trace.subject.order].status # "NONE"
            /\ deliveryStatus[trace.subject.delivery] # "NONE"
      BY <3>2, <3>5
    <3>8. QED BY <3>1, <3>6, <3>7, Zenon DEF Stands
  <2>4. QED BY <2>2, <2>3 DEF VerdictGrounded
<1>3. QED BY <1>1, <1>2 DEF Grounds, DemoTypeOK

\* A demo beside which every platform may move, not only the portal.
OpenInit == GstInit /\ RegistryInit /\ ErpInit /\ DeliveryInit /\ DemoInit
OpenNext == (WorldStep /\ UNCHANGED trace) \/ (DemoNext /\ UNCHANGED sourceSystemVars)
openVars == <<sourceSystemVars, demoVars>>
OpenSpec == OpenInit /\ [][OpenNext]_openVars

LEMMA OpenIsWorldStep == [OpenNext]_openVars => WorldStep
  BY DEF OpenNext, openVars, WorldStep, sourceSystemVars

\* Even then a verdict rests on the records: an invoice of the scope's
\* enterprise, found under the text that names it, was registered with the
\* claimed total and buyer; a verified document was clean and once true of
\* such an invoice; an open funding gate has all its records; and only
\* verified calls are LOW.
THEOREM VerdictsRestOnRecords == OpenSpec => []VerdictGrounded
<1> DEFINE Own == StatusHad /\ ErpRowsOK /\ Grounds
<1>1. OpenSpec => GstSpec /\ RegistrySpec /\ DeliverySpec
  <2>1. OpenInit => GstInit /\ RegistryInit /\ DeliveryInit
    BY DEF OpenInit
  <2>2. [OpenNext]_openVars =>
          [GstNext]_gstVars /\ [RegistryNext]_registryVars /\ [DeliveryNext]_deliveryVars
    BY OpenIsWorldStep DEF WorldStep
  <2>3. QED BY <2>1, <2>2, PTL DEF OpenSpec, GstSpec, RegistrySpec, DeliverySpec
<1>2. OpenInit => Own
  <2> SUFFICES ASSUME OpenInit PROVE Own
    OBVIOUS
  <2>1. StatusHad
    BY DEF OpenInit, GstInit, StatusHad, Was
  <2>2. ErpRowsOK
    BY ErpRowsInit DEF OpenInit
  <2>3. Grounds
    BY DEF OpenInit, DemoInit, NoTrace, Grounds, DemoTypeOK, Established, Spoken
  <2>4. QED BY <2>1, <2>2, <2>3
<1>3. GstInv /\ RegistryInv /\ DeliveryInv /\ Own /\ [OpenNext]_openVars => Own'
  <2> SUFFICES ASSUME GstInv, RegistryInv, DeliveryInv, Own, [OpenNext]_openVars PROVE Own'
    OBVIOUS
  <2>1. WorldInv /\ WorldStep
    BY OpenIsWorldStep DEF WorldInv
  <2>2. StatusHad' /\ ErpRowsOK'
    BY <2>1, PortalStays, ErpRowsStep DEF WorldStep
  <2>3. Grounds'
    <3>1. CASE UNCHANGED trace
      BY <2>1, <3>1, GroundsKept
    <3>2. CASE DemoNext /\ UNCHANGED sourceSystemVars
      BY <2>1, <3>2, GroundsOfStart, GroundsOfCall, GroundsOfVerdict DEF DemoNext, sourceSystemVars
    <3>3. QED BY <3>1, <3>2 DEF OpenNext, openVars, demoVars
  <2>4. QED BY <2>2, <2>3
<1>4. Own => VerdictGrounded
  BY GroundsSuffice
<1>5. QED
  BY <1>1, <1>2, <1>3, <1>4, GstInvariant, RegistryInvariant, DeliveryInvariant, PTL DEF OpenSpec

-----------------------------------------------------------------------------
(***************************************************************************)
(* The platform as a whole.  Its parts share no variable, so a step of the *)
(* whole is a step of one of them and a stutter of the others: the whole   *)
(* implements each part, and what is proved of a part holds in it.         *)
(***************************************************************************)

\* The users of the portal that the demo runs beside are users of the portal.
LEMMA DemoStaff ==
    ASSUME GstSteps(DemoUsers, DemoTabs, DemoRequests, DemoCategories)
    PROVE  GstNext
  BY PlatformAssumption DEF GstSteps, GstNext

LEMMA PlatformParts ==
    ASSUME [PlatformNext]_platformVars
    PROVE  /\ [GstNext]_gstVars /\ [RegistryNext]_registryVars
           /\ [ErpNext]_erpVars /\ [DeliveryNext]_deliveryVars
           /\ [ChatNext]_chatVars /\ [MemoryNext]_memoryVars /\ [VaultNext]_vaultVars
           /\ [DemoNext]_demoVars
<1>1. CASE UNCHANGED platformVars
  BY <1>1 DEF platformVars, sourceSystemVars, keptVars
<1>2. CASE SourceSystemStep /\ UNCHANGED <<demoVars, keptVars>>
  BY <1>2, DemoStaff DEF SourceSystemStep, keptVars
<1>3. CASE DemoNext /\ UNCHANGED <<sourceSystemVars, keptVars>>
  BY <1>3 DEF sourceSystemVars, keptVars
<1>4. CASE KeptStep /\ UNCHANGED <<sourceSystemVars, demoVars>>
  BY <1>4 DEF KeptStep, sourceSystemVars
<1>5. QED BY <1>1, <1>2, <1>3, <1>4 DEF PlatformNext

\* The platform that the run checks implements each of its parts: what is
\* proved of a part under its own specification holds there too.
LEMMA PlatformImplementsParts ==
    PlatformSpec => /\ GstSpec /\ RegistrySpec /\ ErpSpec /\ DeliverySpec
                    /\ ChatSpec /\ MemorySpec /\ VaultSpec
<1>1. PlatformInit => /\ GstInit /\ RegistryInit /\ ErpInit /\ DeliveryInit
                      /\ ChatInit /\ MemoryInit /\ VaultInit
  BY DEF PlatformInit
<1>2. [PlatformNext]_platformVars =>
        /\ [GstNext]_gstVars /\ [RegistryNext]_registryVars
        /\ [ErpNext]_erpVars /\ [DeliveryNext]_deliveryVars
        /\ [ChatNext]_chatVars /\ [MemoryNext]_memoryVars /\ [VaultNext]_vaultVars
  BY PlatformParts
<1>3. QED
  BY <1>1, <1>2, PTL
  DEF PlatformSpec, GstSpec, RegistrySpec, ErpSpec, DeliverySpec, ChatSpec, MemorySpec, VaultSpec

\* The demo of the platform run, beside which only the portal moves, is one
\* of the demos above.
THEOREM PlatformVerdictsGrounded == PlatformSpec => []VerdictGrounded
<1>1. PlatformInit => OpenInit
  BY DEF PlatformInit, OpenInit
<1>2. [PlatformNext]_platformVars => [OpenNext]_openVars
  <2> SUFFICES ASSUME [PlatformNext]_platformVars PROVE [OpenNext]_openVars
    OBVIOUS
  <2>1. WorldStep
    BY PlatformParts DEF WorldStep
  <2>2. UNCHANGED demoVars \/ (DemoNext /\ UNCHANGED sourceSystemVars)
    BY DEF PlatformNext, platformVars
  <2>3. QED BY <2>1, <2>2 DEF OpenNext, demoVars
<1>3. QED BY <1>1, <1>2, VerdictsRestOnRecords, PTL DEF PlatformSpec, OpenSpec

\* The promises of the parts, kept by the whole: each operation of one service
\* leaves the rows of the others alone.
THEOREM PlatformKeepsPromises ==
    PlatformSpec => /\ [](MovedByOwnStaff /\ SawWhatItChanges /\ FulfilmentBacked)
                    /\ [](ItemsInOrder /\ ForgottenIsErased /\ DeletedIsErased)
                    /\ TerminalIsFinal
<1>1. QED
  BY PlatformImplementsParts, AlwaysMovedByOwnStaff, ChangesSawWhatTheyReplace,
     FulfilmentAlwaysBacked, TerminalStaysFinal, ItemsAlwaysInOrder, ForgottenAlwaysErased,
     DeletedAlwaysErased, PTL
=============================================================================
