----------------------------- MODULE DataVault -----------------------------
(***************************************************************************)
(* The data vault (packages/data_vault): rows in the database, bytes in an *)
(* object store that clients write to directly with a presigned ticket.    *)
(*                                                                         *)
(* Rows are read without locks, and the store is called while the          *)
(* transaction is open: the reads, the store's part and the commit are     *)
(* actions of their own, and a request may die between them.  An object    *)
(* key belongs to one row for ever (unique constraint), so objects stand   *)
(* for their keys.  Left out: access events, names, classifications;       *)
(* download tickets change nothing.                                        *)
(***************************************************************************)
EXTENDS FiniteSets

CONSTANTS
    VaultObjects, VaultRequests,
    NoObject

VARIABLES
    vaultObject,    \* status of rows of data_vault.objects
    stored,         \* external: what the store holds under the object's key
    ticket,         \* the upload ticket of an object
    grants,         \* objects with a row in data_vault.grants
    vaultRequest,   \* open requests
    erasedAt,       \* objects the store has erased
    putAgain        \* objects written with a ticket after they were erased

vaultVars == <<vaultObject, stored, ticket, grants, vaultRequest, erasedAt, putAgain>>

NoVaultRequest == [op |-> "none", object |-> NoObject]

VaultInit ==
    /\ vaultObject = [o \in VaultObjects |-> "NONE"]
    /\ stored = [o \in VaultObjects |-> "nothing"]
    /\ ticket = [o \in VaultObjects |-> "none"]
    /\ grants = {}
    /\ vaultRequest = [q \in VaultRequests |-> NoVaultRequest]
    /\ erasedAt = {} /\ putAgain = {}

InitiateUpload(o) ==
    /\ vaultObject[o] = "NONE"
    /\ vaultObject' = [vaultObject EXCEPT ![o] = "PENDING_UPLOAD"]
    /\ ticket' = [ticket EXCEPT ![o] = "valid"]
    /\ UNCHANGED <<stored, grants, vaultRequest, erasedAt, putAgain>>

\* An object that is said to be in the store already; nobody looks.
RegisterObject(o, content) ==
    /\ vaultObject[o] = "NONE"
    /\ vaultObject' = [vaultObject EXCEPT ![o] = "ACTIVE"]
    /\ stored' = [stored EXCEPT ![o] = content]
    /\ UNCHANGED <<ticket, grants, vaultRequest, erasedAt, putAgain>>

\* External: the holder of a ticket writes, as often as it likes for 900 s.
\* The ticket fixes the declared hash, not the bytes.
PutObject(o, content) ==
    /\ ticket[o] = "valid"
    /\ stored' = [stored EXCEPT ![o] = content]
    /\ putAgain' = IF o \in erasedAt THEN putAgain \cup {o} ELSE putAgain
    /\ UNCHANGED <<vaultObject, ticket, grants, vaultRequest, erasedAt>>

TicketExpires(o) ==
    /\ ticket[o] = "valid"
    /\ ticket' = [ticket EXCEPT ![o] = "expired"]
    /\ UNCHANGED <<vaultObject, stored, grants, vaultRequest, erasedAt, putAgain>>

\* verify_upload: size and declared hash agree.
BeginComplete(q, o) ==
    /\ vaultRequest[q] = NoVaultRequest
    /\ vaultObject[o] = "PENDING_UPLOAD" /\ stored[o] = "declared"
    /\ vaultRequest' = [vaultRequest EXCEPT ![q] = [op |-> "complete", object |-> o]]
    /\ UNCHANGED <<vaultObject, stored, ticket, grants, erasedAt, putAgain>>

\* The status it was read with is not asked again.
CommitComplete(q) ==
    /\ vaultRequest[q].op = "complete"
    /\ vaultObject' = [vaultObject EXCEPT ![vaultRequest[q].object] = "ACTIVE"]
    /\ vaultRequest' = [vaultRequest EXCEPT ![q] = NoVaultRequest]
    /\ UNCHANGED <<stored, ticket, grants, erasedAt, putAgain>>

BeginGrant(q, o) ==
    /\ vaultRequest[q] = NoVaultRequest /\ vaultObject[o] = "ACTIVE"
    /\ vaultRequest' = [vaultRequest EXCEPT ![q] = [op |-> "grant", object |-> o]]
    /\ UNCHANGED <<vaultObject, stored, ticket, grants, erasedAt, putAgain>>

CommitGrant(q) ==
    /\ vaultRequest[q].op = "grant"
    /\ grants' = grants \cup {vaultRequest[q].object}
    /\ vaultRequest' = [vaultRequest EXCEPT ![q] = NoVaultRequest]
    /\ UNCHANGED <<vaultObject, stored, ticket, erasedAt, putAgain>>

BeginDelete(q, o) ==
    /\ vaultRequest[q] = NoVaultRequest /\ vaultObject[o] = "ACTIVE"
    /\ vaultRequest' = [vaultRequest EXCEPT ![q] = [op |-> "delete", object |-> o]]
    /\ UNCHANGED <<vaultObject, stored, ticket, grants, erasedAt, putAgain>>

\* Mutated form: an error of the store is swallowed.
AfterEraseIgnored(o) == stored[o]

AfterErase(o) == "nothing"

\* The store erases before the row is marked.
EraseObject(q) ==
    LET o == vaultRequest[q].object
    IN  /\ vaultRequest[q].op = "delete"
        /\ stored' = [stored EXCEPT ![o] = AfterErase(o)]
        /\ erasedAt' = erasedAt \cup {o}
        /\ vaultRequest' = [vaultRequest EXCEPT ![q] = [op |-> "erased", object |-> o]]
        /\ UNCHANGED <<vaultObject, ticket, grants, putAgain>>

CommitDelete(q) ==
    /\ vaultRequest[q].op = "erased"
    /\ vaultObject' = [vaultObject EXCEPT ![vaultRequest[q].object] = "DELETED"]
    /\ vaultRequest' = [vaultRequest EXCEPT ![q] = NoVaultRequest]
    /\ UNCHANGED <<stored, ticket, grants, erasedAt, putAgain>>

\* The store is unavailable, the commit fails, or the process dies.
VaultFails(q) ==
    /\ vaultRequest[q] # NoVaultRequest
    /\ vaultRequest' = [vaultRequest EXCEPT ![q] = NoVaultRequest]
    /\ UNCHANGED <<vaultObject, stored, ticket, grants, erasedAt, putAgain>>

VaultNext ==
    \/ \E o \in VaultObjects :
         \/ InitiateUpload(o)
         \/ \E content \in {"nothing", "declared", "other"} : RegisterObject(o, content)
         \/ \E content \in {"declared", "other"} : PutObject(o, content)
         \/ TicketExpires(o)
         \/ \E q \in VaultRequests : BeginComplete(q, o) \/ BeginGrant(q, o) \/ BeginDelete(q, o)
    \/ \E q \in VaultRequests :
         CommitComplete(q) \/ CommitGrant(q) \/ EraseObject(q) \/ CommitDelete(q) \/ VaultFails(q)

VaultSpec == VaultInit /\ [][VaultNext]_vaultVars

-----------------------------------------------------------------------------
\* The bytes of a deleted object are gone from the store, whichever requests
\* overlapped or died, unless the uploader wrote them again with a ticket that
\* was still valid (delete, complete_upload, presign_upload).
DeletedIsErased ==
    \A o \in VaultObjects :
      vaultObject[o] = "DELETED" => stored[o] = "nothing" \/ o \in putAgain
=============================================================================
