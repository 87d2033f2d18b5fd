-------------------------- MODULE BusinessRegistry --------------------------
(***************************************************************************)
(* The business registry (demos/business-registry): an operator enters     *)
(* records and proposes changes to them, a reviewer activates, suspends or *)
(* dissolves records and decides on changes.                               *)
(*                                                                         *)
(* transition_status and decide_change hold the row lock of the business,  *)
(* so each is one step.  create_change_request reads the business without  *)
(* one: its reading and its insert are two steps, with anything between.   *)
(*                                                                         *)
(* An identity is all that a change may replace but the GSTIN: names,      *)
(* address, industry and classification.  Left out: people, owners and     *)
(* relationships (only the seed writes them), audit and outbox rows,       *)
(* and browser sessions, which work as the GST portal's do.                *)
(***************************************************************************)
EXTENDS Integers

CONSTANTS
    Businesses, Identities, Gstins, Changes,
    BusinessSeed,      \* the seeded rows of businesses
    MaxRecordVersion,  \* bound: versions of a business
    Absent             \* no value: a field a change leaves alone, no reading

VARIABLES
    business,   \* rows of businesses
    nameRows,   \* rows of business_names: business, identity, record_version
    change,     \* rows of change_requests, with what the proposer had read
    proposing   \* create_change_request between its reading and its insert

registryVars == <<business, nameRows, change, proposing>>

RecordStatuses == {"PENDING_REVIEW", "ACTIVE", "REJECTED", "SUSPENDED", "DISSOLVED"}
RecordFlags == {"PENDING_IDENTITY_REVIEW", "REGISTRY_SUSPENDED", "REGISTRY_DISSOLVED",
                "REGISTRY_REJECTED"}
RecordRows == [status : RecordStatuses \cup {"NONE"}, version : Nat, identity : Identities \cup {Absent},
               gstin : Gstins \cup {Absent}, flags : SUBSET RecordFlags]
ASSUME RegistryAssumption ==
    /\ Absent \notin Identities \cup Gstins
    /\ MaxRecordVersion \in Nat \ {0}
    /\ BusinessSeed \in [Businesses -> RecordRows]

Patches == [identity : Identities \cup {Absent}, gstin : Gstins \cup {Absent}]
NoBusiness == [status |-> "NONE", version |-> 0, identity |-> Absent, gstin |-> Absent, flags |-> {}]
NoChange == [status |-> "NONE", business |-> Absent, target |-> 0, patch |-> Absent,
             seen |-> Absent, applied |-> 0]

ChangeRows ==
    [status : {"SUBMITTED", "APPROVED", "REJECTED"}, business : Businesses, target : Nat,
     patch : Patches, seen : RecordRows, applied : Nat] \cup {NoChange}

RegistryTypeOK ==
    /\ business \in [Businesses -> RecordRows]
    /\ nameRows \subseteq Businesses \X (Identities \cup {Absent}) \X Nat
    /\ change \in [Changes -> ChangeRows]
    /\ proposing \in [Changes -> [business : Businesses, read : RecordRows] \cup {Absent}]

RegistryInit ==
    /\ business = BusinessSeed
    /\ nameRows = {<<b, BusinessSeed[b].identity, 1>> :
                     b \in {x \in Businesses : BusinessSeed[x].status # "NONE"}}
    /\ change = [c \in Changes |-> NoChange]
    /\ proposing = [c \in Changes |-> Absent]

-----------------------------------------------------------------------------
GstinFree(b, gstin) == \A other \in Businesses \ {b} : business[other].gstin # gstin

\* Numbers are unique by check and by constraint; the GSTIN by constraint.
CreateBusiness(b, identity, gstin) ==
    /\ business[b].status = "NONE" /\ (gstin = Absent \/ GstinFree(b, gstin))
    /\ business' = [business EXCEPT ![b] =
         [status |-> "PENDING_REVIEW", version |-> 1, identity |-> identity, gstin |-> gstin,
          flags |-> {"PENDING_IDENTITY_REVIEW"}]]
    /\ nameRows' = nameRows \cup {<<b, identity, 1>>}
    /\ UNCHANGED <<change, proposing>>

RecordTransitions ==
    [NONE |-> {}, PENDING_REVIEW |-> {"ACTIVE", "REJECTED"},
     ACTIVE |-> {"SUSPENDED", "DISSOLVED"}, SUSPENDED |-> {"ACTIVE", "DISSOLVED"},
     REJECTED |-> {}, DISSOLVED |-> {}]

FlagFor(target) ==
    IF target = "SUSPENDED" THEN {"REGISTRY_SUSPENDED"}
    ELSE IF target = "DISSOLVED" THEN {"REGISTRY_DISSOLVED"}
    ELSE IF target = "REJECTED" THEN {"REGISTRY_REJECTED"}
    ELSE {}

\* Mutated form: a new status is not a new version.
VersionAfterStatusForgotten(b) == business[b].version

VersionAfterStatus(b) == business[b].version + 1

\* The request names the version it saw; a stale one is refused and not modelled.
TransitionStatus(b, target) ==
    /\ target \in RecordTransitions[business[b].status]
    /\ business[b].version < MaxRecordVersion
    /\ business' = [business EXCEPT ![b] =
         [status |-> target, version |-> VersionAfterStatus(b),
          identity |-> business[b].identity, gstin |-> business[b].gstin,
          flags |-> (business[b].flags \ {"PENDING_IDENTITY_REVIEW"}) \cup FlagFor(target)]]
    /\ UNCHANGED <<nameRows, change, proposing>>

-----------------------------------------------------------------------------
ReadForChange(c, b) ==
    /\ change[c] = NoChange /\ proposing[c] = Absent
    /\ business[b].status \in {"ACTIVE", "SUSPENDED"}
    /\ proposing' = [proposing EXCEPT ![c] = [business |-> b, read |-> business[b]]]
    /\ UNCHANGED <<business, nameRows, change>>

\* The target version is the one that was read, whatever the record is now.
CreateChangeRequest(c, patch) ==
    /\ proposing[c] # Absent /\ patch # [identity |-> Absent, gstin |-> Absent]
    /\ change' = [change EXCEPT ![c] =
         [status |-> "SUBMITTED", business |-> proposing[c].business,
          target |-> proposing[c].read.version, patch |-> patch,
          seen |-> proposing[c].read, applied |-> 0]]
    /\ proposing' = [proposing EXCEPT ![c] = Absent]
    /\ UNCHANGED <<business, nameRows>>

ProposalFails(c) ==
    /\ proposing[c] # Absent
    /\ proposing' = [proposing EXCEPT ![c] = Absent]
    /\ UNCHANGED <<business, nameRows, change>>

Patched(old, new) == IF new = Absent THEN old ELSE new

ApproveChange(c) ==
    LET b == change[c].business
        patch == change[c].patch
        version == business[b].version + 1
        identity == Patched(business[b].identity, patch.identity)
    IN  /\ change[c].status = "SUBMITTED" /\ business[b].version = change[c].target
        /\ business[b].version < MaxRecordVersion
        /\ patch.gstin = Absent \/ GstinFree(b, patch.gstin)
        /\ business' = [business EXCEPT ![b] =
             [status |-> business[b].status, version |-> version, identity |-> identity,
              gstin |-> Patched(business[b].gstin, patch.gstin), flags |-> business[b].flags]]
        /\ nameRows' = nameRows \cup
             (IF identity = business[b].identity THEN {} ELSE {<<b, identity, version>>})
        /\ change' = [change EXCEPT ![c] =
             [status |-> "APPROVED", business |-> b, target |-> change[c].target,
              patch |-> patch, seen |-> change[c].seen, applied |-> version]]
        /\ UNCHANGED proposing

\* A rejection needs no version.
RejectChange(c) ==
    /\ change[c].status = "SUBMITTED"
    /\ change' = [change EXCEPT ![c] =
         [status |-> "REJECTED", business |-> change[c].business, target |-> change[c].target,
          patch |-> change[c].patch, seen |-> change[c].seen, applied |-> 0]]
    /\ UNCHANGED <<business, nameRows, proposing>>

RegistryNext ==
    \/ \E b \in Businesses :
         \/ \E identity \in Identities, gstin \in Gstins \cup {Absent} : CreateBusiness(b, identity, gstin)
         \/ \E target \in RecordStatuses : TransitionStatus(b, target)
    \/ \E c \in Changes :
         \/ \E b \in Businesses : ReadForChange(c, b)
         \/ \E patch \in Patches : CreateChangeRequest(c, patch)
         \/ ProposalFails(c)
         \/ ApproveChange(c)
         \/ RejectChange(c)

RegistrySpec == RegistryInit /\ [][RegistryNext]_registryVars

-----------------------------------------------------------------------------
(* What the MCP tools answer. *)

\* A field that was not claimed is not compared; claiming nothing verifies nothing.
BusinessVerify(b, claim) ==
    LET claimed == {f \in {"identity", "gstin", "status"} : claim[f] # Absent}
    IN  [verified |-> claimed # {} /\ \A f \in claimed : business[b][f] = claim[f],
         legallyActive |-> business[b].status = "ACTIVE"]

-----------------------------------------------------------------------------
\* A change that can still be approved replaces exactly the record its proposer
\* read: status, identity, GSTIN and flags, although the reading held no lock
\* and any number of other changes and transitions came after it
\* (create_change_request, decide_change, transition_status).
SawWhatItChanges ==
    \A c \in Changes :
      /\ change[c].status = "SUBMITTED"
           /\ change[c].target = business[change[c].business].version
         => change[c].seen = business[change[c].business]
      /\ change[c].status = "APPROVED" =>
           /\ change[c].applied = change[c].seen.version + 1
           /\ change[c].seen.status \in {"ACTIVE", "SUSPENDED"}
=============================================================================
