------------------------- MODULE FunderMarketplace -------------------------
(***************************************************************************)
(* The funder marketplace (demos/funder-marketplace/funder_demo/service.py) *)
(* for one case: applications, offers, reservations of a program's         *)
(* capacity, commitments, and the execution events of the bank and ledger. *)
(*                                                                         *)
(* Every operation but create_application locks the rows it decides on     *)
(* before it reads them, so it is one step; create_application looks for   *)
(* an earlier application of the case without a lock, and is two.  The     *)
(* expected versions of If-Match only turn an operation away.              *)
(***************************************************************************)
EXTENDS Naturals, FiniteSets, Functions

CONSTANTS Programs, Applications, Offers, Reservations,
          Keys,             \* idempotency keys of reserve_offer
          Events,           \* ids of events the bank and the ledger send
          RequestAmounts,   \* amounts a request may name
          Capacity,         \* total_capacity of a program
          Maximum,          \* maximum_amount of a program
          Suited,           \* programs whose tenor, region and industry fit
          MaxEventVersion,  \* the largest aggregate version an event carries
          Absent

ASSUME FunderAssumption ==
    /\ RequestAmounts \subseteq Nat \ {0}
    /\ {Capacity, Maximum, MaxEventVersion} \subseteq Nat
    /\ Suited \subseteq Programs
    /\ IsFiniteSet(Reservations)

VARIABLES
    program, reserved, committed,      \* each program's status and capacity in use
    application, requested, eligible,  \* each application: status, amount, programs
    checking,     \* applications whose create request has passed its check
    offer,        \* each offer: status, application, program and amount
    reservation,  \* each reservation: status, offer, program, amount and key
    commitment,   \* the commitment of each reservation
    overdue,      \* offers and reservations past their expires_at
    inbox         \* events received

funderVars == <<program, reserved, committed, application, requested, eligible, checking,
                offer, reservation, commitment, overdue, inbox>>
programVars == <<program, reserved, committed>>
applicationVars == <<application, requested, eligible, checking>>

ProgramStatus == {"DRAFT", "ACTIVE", "SUSPENDED", "CLOSED"}
CommitmentStatus == {"NONE", "PREPARED", "COMMITTED", "DISBURSED", "SETTLED",
                     "EXECUTION_REVIEW_REQUIRED"}

OfferRow == [status : {"NONE", "ISSUED", "RESERVED", "EXPIRED"},
             program : Programs \cup {Absent}, amount : RequestAmounts \cup {0}]
ReservationRow == [status : {"NONE", "ACTIVE", "RELEASED", "COMMITTED"},
                   offer : Offers \cup {Absent}, program : Programs \cup {Absent},
                   amount : RequestAmounts \cup {0}, key : Keys \cup {Absent}]
CommitmentRow == [status : CommitmentStatus, authorized : BOOLEAN, version : Nat]

FunderTypeOK ==
    /\ program \in [Programs -> ProgramStatus]
    /\ reserved \in [Programs -> Nat] /\ committed \in [Programs -> Nat]
    /\ application \in [Applications -> {"NONE", "ELIGIBILITY_CHECKED", "APPROVED", "DECLINED"}]
    /\ requested \in [Applications -> RequestAmounts \cup {0}]
    /\ eligible \in [Applications -> SUBSET Programs]
    /\ checking \subseteq Applications
    /\ offer \in [Offers -> OfferRow]
    /\ reservation \in [Reservations -> ReservationRow]
    /\ commitment \in [Reservations -> CommitmentRow]
    /\ overdue \subseteq Offers \cup Reservations
    /\ inbox \subseteq Events

NoOffer == [status |-> "NONE", program |-> Absent, amount |-> 0]
NoReservation == [status |-> "NONE", offer |-> Absent, program |-> Absent, amount |-> 0,
                  key |-> Absent]
NoCommitment == [status |-> "NONE", authorized |-> FALSE, version |-> 0]

FunderInit ==
    /\ program = [p \in Programs |-> "DRAFT"]
    /\ reserved = [p \in Programs |-> 0]
    /\ committed = [p \in Programs |-> 0]
    /\ application = [a \in Applications |-> "NONE"]
    /\ requested = [a \in Applications |-> 0]
    /\ eligible = [a \in Applications |-> {}]
    /\ checking = {}
    /\ offer = [o \in Offers |-> NoOffer]
    /\ reservation = [r \in Reservations |-> NoReservation]
    /\ commitment = [r \in Reservations |-> NoCommitment]
    /\ overdue = {}
    /\ inbox = {}
-----------------------------------------------------------------------------
Monus(m, n) == IF m >= n THEN m - n ELSE 0

Available(p) == Monus(Capacity, reserved[p] + committed[p])

Eligible(amount) ==
    {p \in Suited : program[p] = "ACTIVE" /\ amount <= Maximum /\ amount <= Available(p)}

(* transition_program's table. *)
Transitions == {<<"DRAFT", "ACTIVE">>, <<"SUSPENDED", "ACTIVE">>, <<"ACTIVE", "SUSPENDED">>,
                <<"ACTIVE", "CLOSED">>, <<"SUSPENDED", "CLOSED">>}

TransitionProgram(p) ==
    /\ \E t \in Transitions :
          program[p] = t[1] /\ program' = [program EXCEPT ![p] = t[2]]
    /\ UNCHANGED <<reserved, committed, applicationVars, offer, reservation, commitment,
                   overdue, inbox>>

(* create_application finds no application of the case ... *)
CreateCheck(a, amount) ==
    /\ application[a] = "NONE" /\ a \notin checking
    /\ \A b \in Applications : application[b] = "NONE"
    /\ checking' = checking \cup {a}
    /\ requested' = [requested EXCEPT ![a] = amount]
    /\ eligible' = [eligible EXCEPT ![a] = Eligible(amount)]
    /\ UNCHANGED <<programVars, application, offer, reservation, commitment, overdue, inbox>>

(* ... and commits its own; the table has no unique constraint on cases. *)
CreateApplication(a) ==
    /\ a \in checking
    /\ checking' = checking \ {a}
    /\ application' = [application EXCEPT ![a] = "ELIGIBILITY_CHECKED"]
    /\ UNCHANGED <<programVars, requested, eligible, offer, reservation, commitment, overdue,
                   inbox>>

ReviewApplication(a, decision) ==
    /\ application[a] = "ELIGIBILITY_CHECKED"
    /\ decision = "APPROVED" => eligible[a] # {}
    /\ application' = [application EXCEPT ![a] = decision]
    /\ UNCHANGED <<programVars, requested, eligible, checking, offer, reservation,
                   commitment, overdue, inbox>>

(* The program need not be one the application was found eligible for. *)
IssueOffer(o, a, p, amount) ==
    /\ offer[o] = NoOffer
    /\ application[a] = "APPROVED"
    /\ program[p] = "ACTIVE"
    /\ amount <= requested[a] /\ amount <= Maximum
    /\ offer' = [offer EXCEPT ![o] = [status |-> "ISSUED", program |-> p, amount |-> amount]]
    /\ UNCHANGED <<programVars, applicationVars, reservation, commitment, overdue, inbox>>

OfferSet(o, s) == [offer EXCEPT ![o] = [@ EXCEPT !.status = s]]
ReservationSet(r, s) == [reservation EXCEPT ![r] = [@ EXCEPT !.status = s]]

(* Mutated form: an offer that is already reserved passes. *)
OfferOpenOnce(o) == offer[o].status \in {"ISSUED", "RESERVED"} /\ o \notin overdue

OfferOpen(o) == offer[o].status = "ISSUED" /\ o \notin overdue

(* A key that is in use returns its reservation, or is a conflict. *)
KeyFree(k) == \A r \in Reservations : reservation[r].key # k

ReserveOffer(r, o, amount, k) ==
    LET p == offer[o].program IN
    /\ reservation[r] = NoReservation
    /\ KeyFree(k)
    /\ OfferOpen(o)
    /\ amount <= offer[o].amount
    /\ program[p] = "ACTIVE" /\ amount <= Available(p)
    /\ reservation' = [reservation EXCEPT ![r] =
                          [status |-> "ACTIVE", offer |-> o, program |-> p,
                           amount |-> amount, key |-> k]]
    /\ reserved' = [reserved EXCEPT ![p] = @ + amount]
    /\ offer' = OfferSet(o, "RESERVED")
    /\ UNCHANGED <<program, committed, applicationVars, commitment, overdue, inbox>>

(* Mutated form: a reservation may be released after it was committed. *)
ReleasableUnlessReleased(r) == reservation[r].status \in {"ACTIVE", "COMMITTED"}

Releasable(r) == reservation[r].status = "ACTIVE"

(* Nothing asks whether the reservation has a commitment. *)
ReleaseReservation(r) ==
    LET o == reservation[r].offer
        p == reservation[r].program IN
    /\ Releasable(r)
    /\ reserved' = [reserved EXCEPT ![p] = Monus(@, reservation[r].amount)]
    /\ offer' = OfferSet(o, IF o \in overdue THEN "EXPIRED" ELSE "ISSUED")
    /\ reservation' = ReservationSet(r, "RELEASED")
    /\ UNCHANGED <<program, committed, applicationVars, commitment, overdue, inbox>>

PrepareCommitment(r) ==
    /\ reservation[r].status = "ACTIVE" /\ r \notin overdue
    /\ commitment[r] = NoCommitment
    /\ commitment' = [commitment EXCEPT ![r] =
                         [status |-> "PREPARED", authorized |-> FALSE, version |-> 1]]
    /\ UNCHANGED <<programVars, applicationVars, offer, reservation, overdue, inbox>>

(* Mutated form: confirm trusts the prepared commitment. *)
ConfirmableIfPrepared(r) == commitment[r].status = "PREPARED"

Confirmable(r) ==
    /\ commitment[r].status = "PREPARED"
    /\ reservation[r].status = "ACTIVE" /\ r \notin overdue

ConfirmCommitment(r) ==
    LET p == reservation[r].program
        n == reservation[r].amount IN
    /\ Confirmable(r)
    /\ reserved' = [reserved EXCEPT ![p] = Monus(@, n)]
    /\ committed' = [committed EXCEPT ![p] = @ + n]
    /\ reservation' = ReservationSet(r, "COMMITTED")
    /\ commitment' = [commitment EXCEPT ![r] =
                         [status |-> "COMMITTED", authorized |-> TRUE,
                          version |-> @.version + 1]]
    /\ UNCHANGED <<program, applicationVars, offer, overdue, inbox>>

(* consume_external_event: a signed event, in any order, once per id; what  *)
(* it does depends on the versions only.                                    *)
ConsumeEvent(e, r, outcome, v) ==
    /\ e \notin inbox
    /\ commitment[r] # NoCommitment
    /\ inbox' = inbox \cup {e}
    /\ commitment' = IF v <= commitment[r].version THEN commitment
                     ELSE [commitment EXCEPT ![r] =
                              [status |-> outcome, authorized |-> @.authorized, version |-> v]]
    /\ UNCHANGED <<programVars, applicationVars, offer, reservation, overdue>>

(* A reservation expires no later than its offer. *)
OfferLapses(o) ==
    /\ offer[o] # NoOffer /\ o \notin overdue
    /\ overdue' = overdue \cup {o} \cup {r \in Reservations : reservation[r].offer = o}
    /\ UNCHANGED <<programVars, applicationVars, offer, reservation, commitment, inbox>>

ReservationLapses(r) ==
    /\ reservation[r] # NoReservation /\ r \notin overdue
    /\ overdue' = overdue \cup {r}
    /\ UNCHANGED <<programVars, applicationVars, offer, reservation, commitment, inbox>>
-----------------------------------------------------------------------------
Outcomes == {"DISBURSED", "SETTLED", "EXECUTION_REVIEW_REQUIRED"}

FunderNext ==
    \/ \E p \in Programs : TransitionProgram(p)
    \/ \E a \in Applications, n \in RequestAmounts : CreateCheck(a, n)
    \/ \E a \in Applications : CreateApplication(a)
    \/ \E a \in Applications, d \in {"APPROVED", "DECLINED"} : ReviewApplication(a, d)
    \/ \E o \in Offers, a \in Applications, p \in Programs, n \in RequestAmounts :
          IssueOffer(o, a, p, n)
    \/ \E r \in Reservations, o \in Offers, n \in RequestAmounts, k \in Keys :
          ReserveOffer(r, o, n, k)
    \/ \E r \in Reservations : ReleaseReservation(r)
    \/ \E r \in Reservations : PrepareCommitment(r)
    \/ \E r \in Reservations : ConfirmCommitment(r)
    \/ \E e \in Events, r \in Reservations, c \in Outcomes, v \in 1..MaxEventVersion :
          ConsumeEvent(e, r, c, v)
    \/ \E o \in Offers : OfferLapses(o)
    \/ \E r \in Reservations : ReservationLapses(r)

FunderSpec == FunderInit /\ [][FunderNext]_funderVars
-----------------------------------------------------------------------------
AmountOf == [r \in Reservations |-> reservation[r].amount]
Holding(p, s) == {r \in Reservations : reservation[r].status = s /\ reservation[r].program = p}
InUse(p, s) == SumFunctionOnSet(AmountOf, Holding(p, s))

(* A program's counters are the sums of its live and its committed          *)
(* reservations, through every order of reserving, releasing, confirming,   *)
(* expiring and execution events (the increments and floors of              *)
(* reserve_offer, release_reservation and confirm_commitment), and together *)
(* they fit in its capacity: "Concurrency cannot over-reserve capacity".    *)
CapacityConserved ==
    \A p \in Programs : /\ reserved[p] = InUse(p, "ACTIVE")
                        /\ committed[p] = InUse(p, "COMMITTED")
                        /\ reserved[p] + committed[p] <= Capacity

(* An offer backs at most one reservation that holds capacity, and is       *)
(* RESERVED exactly as long as it does (reserve and release, repeated).     *)
OneLiveReservation ==
    \A o \in Offers :
        LET live == {r \in Reservations : /\ reservation[r].offer = o
                                          /\ reservation[r].status \in {"ACTIVE", "COMMITTED"}}
        IN Cardinality(live) = IF offer[o].status = "RESERVED" THEN 1 ELSE 0

(* Capacity that was committed under a Guardian authorization stays         *)
(* committed: no release, expiry or event gives it back.                    *)
CommittedCapacityHeld ==
    [][\A r \in Reservations : commitment[r].authorized =>
          reservation[r].status = "COMMITTED" /\ reservation'[r] = reservation[r]]_funderVars
=============================================================================
