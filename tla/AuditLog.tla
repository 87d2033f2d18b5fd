------------------------------ MODULE AuditLog ------------------------------
(***************************************************************************)
(* One tenant's audit chain and outbox: append_audit_event and             *)
(* enqueue_outbox (packages/audit/service.py), called inside the           *)
(* transaction of the change they record, and the worker's                 *)
(* publish_outbox_one (apps/worker/main.py).                               *)
(*                                                                         *)
(* A hash is a function of the event it is taken of, so the transaction    *)
(* that wrote an event stands for the event's hash.  Every caller appends  *)
(* one event per transaction.  The rows reach the database when the        *)
(* transaction commits (sessions do not flush before).                     *)
(*                                                                         *)
(* A worker comes to the outbox only when it has found neither an expired  *)
(* lease nor a due job (run_forever).  The jobs themselves are JobQueue's; *)
(* here they are a fact that the rest of the system changes at will.       *)
(***************************************************************************)
EXTENDS Naturals, FiniteSets, Sequences

CONSTANTS Txs,         \* transactions that change protected state
          Notifying,   \* those that also enqueue an outbox event
          Publishers,  \* workers with an event webhook configured
          None

ASSUME AuditAssumption ==
    /\ Notifying \subseteq Txs
    /\ None \notin Txs

VARIABLES
    log,        \* committed audit events: sequence, hash and previous hash
    pc,         \* each transaction's progress
    last,       \* the chain's last event as a transaction read it, or NoEvent
    changed,    \* transactions whose protected change is committed
    stamped,    \* the order in which outbox events got their created_at
    outbox,     \* the committed outbox row of each transaction
    sending,    \* the event each publisher has locked, or None
    accepted,   \* whether the webhook has answered the publisher's post
    delivered,  \* events the webhook has received
    work,       \* whether some job is due or some lease has expired
    turn        \* what each publisher's loop looks for next

vars == <<log, pc, last, changed, stamped, outbox, sending, accepted, delivered,
          work, turn>>
txVars == <<log, pc, last, changed, stamped>>
publisherVars == <<sending, accepted, delivered, work, turn>>

NoEvent == [sequence |-> 0, hash |-> None, previous |-> None]
Event == [sequence : Nat \ {0}, hash : Txs, previous : Txs \cup {None}]

TypeOK ==
    /\ log \subseteq Event
    /\ pc \in [Txs -> {"idle", "locking", "open", "committed", "aborted"}]
    /\ last \in [Txs -> Event \cup {NoEvent}]
    /\ changed \subseteq Txs
    /\ stamped \in Seq(Txs)
    /\ outbox \in [Txs -> {"NONE", "PENDING", "PUBLISHED"}]
    /\ sending \in [Publishers -> Txs \cup {None}]
    /\ accepted \in [Publishers -> BOOLEAN]
    /\ delivered \subseteq Txs
    /\ work \in BOOLEAN
    /\ turn \in [Publishers -> {"jobs", "outbox"}]

Init ==
    /\ log = {}
    /\ pc = [t \in Txs |-> "idle"]
    /\ last = [t \in Txs |-> NoEvent]
    /\ changed = {}
    /\ stamped = <<>>
    /\ outbox = [t \in Txs |-> "NONE"]
    /\ sending = [p \in Publishers |-> None]
    /\ accepted = [p \in Publishers |-> FALSE]
    /\ delivered = {}
    /\ work = FALSE
    /\ turn = [p \in Publishers |-> "jobs"]
-----------------------------------------------------------------------------
Goto(t, step) == pc' = [pc EXCEPT ![t] = step]

(* ORDER BY sequence DESC LIMIT 1. *)
IsLast(e) == IF log = {} THEN e = NoEvent
             ELSE e \in log /\ \A f \in log : f.sequence <= e.sequence

(* The SELECT sees what is committed when it starts, then waits for the    *)
(* row's lock.  The holder never changes the row it locked, so the waiter  *)
(* is given the row it first saw, not the holder's new event.              *)
ReadLast(t) ==
    /\ pc[t] = "idle"
    /\ \E e \in log \cup {NoEvent} : IsLast(e) /\ last' = [last EXCEPT ![t] = e]
    /\ Goto(t, "locking")
    /\ UNCHANGED <<log, changed, stamped, outbox, publisherVars>>

RowLocked(e) == e # NoEvent /\ \E u \in Txs : pc[u] = "open" /\ last[u] = e

(* Mutated form: the outbox row is written in a session of its own. *)
AppendSeparateOutbox(t) ==
    /\ pc[t] = "locking"
    /\ ~RowLocked(last[t])
    /\ Goto(t, "open")
    /\ stamped' = IF t \in Notifying THEN Append(stamped, t) ELSE stamped
    /\ outbox' = [outbox EXCEPT ![t] = IF t \in Notifying THEN "PENDING" ELSE "NONE"]
    /\ UNCHANGED <<log, last, changed, publisherVars>>

(* append_audit_event and enqueue_outbox build their rows. *)
AppendEvent(t) ==
    /\ pc[t] = "locking"
    /\ ~RowLocked(last[t])
    /\ Goto(t, "open")
    /\ stamped' = IF t \in Notifying THEN Append(stamped, t) ELSE stamped
    /\ UNCHANGED <<log, last, changed, outbox, publisherVars>>

NewEvent(t) == [sequence |-> last[t].sequence + 1, hash |-> t, previous |-> last[t].hash]

(* Mutated form: the table has no unique constraint. *)
SequenceAlwaysFree(n) == TRUE

(* UNIQUE (tenant_id, sequence). *)
SequenceFree(n) == \A e \in log : e.sequence # n

Commit(t) ==
    /\ pc[t] = "open"
    /\ SequenceFree(NewEvent(t).sequence)
    /\ log' = log \cup {NewEvent(t)}
    /\ changed' = changed \cup {t}
    /\ outbox' = [outbox EXCEPT ![t] = IF t \in Notifying THEN "PENDING" ELSE @]
    /\ Goto(t, "committed")
    /\ UNCHANGED <<last, stamped, publisherVars>>

(* The sequence is taken, or the request fails for any other reason: the   *)
(* session rolls the protected change and its records back together.       *)
Rollback(t) ==
    /\ pc[t] \in {"locking", "open"}
    /\ Goto(t, "aborted")
    /\ UNCHANGED <<log, last, changed, stamped, outbox, publisherVars>>
-----------------------------------------------------------------------------
Position(t) == CHOOSE i \in DOMAIN stamped : stamped[i] = t

(* Unpublished rows that no other publisher has locked (SKIP LOCKED). *)
Candidates == {t \in Txs : outbox[t] = "PENDING" /\ \A p \in Publishers : sending[p] # t}

NextTurn(p) == turn' = [turn EXCEPT ![p] = "jobs"]

(* Jobs are enqueued, become due and are taken, and leases expire. *)
WorkChanges ==
    /\ work' = ~work
    /\ UNCHANGED <<txVars, outbox, sending, accepted, delivered, turn>>

(* recovered or process_one(): a worker that finds a job goes round again,  *)
(* and never comes to the outbox while there is another.                    *)
DoJob(p) ==
    /\ turn[p] = "jobs" /\ work
    /\ work' \in BOOLEAN
    /\ UNCHANGED <<txVars, outbox, sending, accepted, delivered, turn>>

NoJob(p) ==
    /\ turn[p] = "jobs" /\ ~work
    /\ turn' = [turn EXCEPT ![p] = "outbox"]
    /\ UNCHANGED <<txVars, outbox, sending, accepted, delivered, work>>

(* publish_outbox_one selects the oldest row that is not locked. *)
Pick(p) ==
    /\ turn[p] = "outbox" /\ sending[p] = None
    /\ \E t \in Candidates :
          /\ \A u \in Candidates : Position(t) <= Position(u)
          /\ sending' = [sending EXCEPT ![p] = t]
    /\ accepted' = [accepted EXCEPT ![p] = FALSE]
    /\ UNCHANGED <<txVars, outbox, delivered, work, turn>>

NoEventToPick(p) ==
    /\ turn[p] = "outbox" /\ sending[p] = None
    /\ Candidates = {}
    /\ NextTurn(p)
    /\ UNCHANGED <<txVars, outbox, sending, accepted, delivered, work>>

PostSucceeds(p) ==
    /\ sending[p] # None /\ ~accepted[p]
    /\ delivered' = delivered \cup {sending[p]}
    /\ accepted' = [accepted EXCEPT ![p] = TRUE]
    /\ UNCHANGED <<txVars, outbox, sending, work, turn>>

(* The post is refused, or received and its answer lost: attempt_count and *)
(* last_error are saved and the row stays unpublished.                     *)
PostFails(p) ==
    /\ sending[p] # None /\ ~accepted[p]
    /\ delivered' \in {delivered, delivered \cup {sending[p]}}
    /\ sending' = [sending EXCEPT ![p] = None]
    /\ NextTurn(p)
    /\ UNCHANGED <<txVars, outbox, accepted, work>>

(* Mutated form: published_at is set without waiting for the answer. *)
MarkPublishedUnasked(p) ==
    /\ sending[p] # None
    /\ outbox' = [outbox EXCEPT ![sending[p]] = "PUBLISHED"]
    /\ sending' = [sending EXCEPT ![p] = None]
    /\ accepted' = [accepted EXCEPT ![p] = FALSE]
    /\ NextTurn(p)
    /\ UNCHANGED <<txVars, delivered, work>>

MarkPublished(p) ==
    /\ sending[p] # None /\ accepted[p]
    /\ outbox' = [outbox EXCEPT ![sending[p]] = "PUBLISHED"]
    /\ sending' = [sending EXCEPT ![p] = None]
    /\ accepted' = [accepted EXCEPT ![p] = FALSE]
    /\ NextTurn(p)
    /\ UNCHANGED <<txVars, delivered, work>>

(* Mutated form: the row is not selected again once it was posted. *)
PublisherDiesPublished(p) ==
    /\ sending[p] # None
    /\ outbox' = [outbox EXCEPT ![sending[p]] = "NONE"]
    /\ sending' = [sending EXCEPT ![p] = None]
    /\ accepted' = [accepted EXCEPT ![p] = FALSE]
    /\ NextTurn(p)
    /\ UNCHANGED <<txVars, delivered, work>>

(* A publisher that dies loses its row lock and its transaction. *)
PublisherDies(p) ==
    /\ sending[p] # None
    /\ sending' = [sending EXCEPT ![p] = None]
    /\ accepted' = [accepted EXCEPT ![p] = FALSE]
    /\ NextTurn(p)
    /\ UNCHANGED <<txVars, outbox, delivered, work>>
-----------------------------------------------------------------------------
TxStep(t) == ReadLast(t) \/ AppendEvent(t) \/ Commit(t) \/ Rollback(t)

PublisherStep(p) ==
    \/ DoJob(p) \/ NoJob(p) \/ Pick(p) \/ NoEventToPick(p)
    \/ PostSucceeds(p) \/ PostFails(p) \/ MarkPublished(p) \/ PublisherDies(p)

Next ==
    \/ \E t \in Txs : TxStep(t)
    \/ \E p \in Publishers : PublisherStep(p)
    \/ WorkChanges

Spec == Init /\ [][Next]_vars

(* run_forever goes round and round, and the webhook does not refuse every *)
(* post, nor the worker die after each one, for ever.  Nothing says that   *)
(* the jobs ever let a worker come to the outbox.                          *)
Fairness ==
    \A p \in Publishers :
        /\ WF_vars(DoJob(p) \/ NoJob(p)) /\ WF_vars(Pick(p) \/ NoEventToPick(p))
        /\ SF_vars(PostSucceeds(p)) /\ SF_vars(MarkPublished(p))

LiveSpec == Spec /\ Fairness
-----------------------------------------------------------------------------
(* The committed events form one chain: every number but the first has its  *)
(* predecessor, and each event carries its predecessor's hash, whatever     *)
(* transactions overlap, wait for each other's lock or roll back            *)
(* (append_audit_event under READ COMMITTED).                               *)
ChainUnbroken ==
    \A e \in log :
        /\ \A f \in log : f.sequence = e.sequence => f = e
        /\ IF e.sequence = 1 THEN e.previous = None
           ELSE \E f \in log : f.sequence + 1 = e.sequence /\ f.hash = e.previous

(* The webhook hears only of changes that are in the database and in the    *)
(* audit chain, although publishers run beside transactions that may still  *)
(* roll back (enqueue_outbox in the caller's session).                      *)
DeliveredWasCommitted ==
    \A t \in delivered : t \in changed /\ \E e \in log : e.hash = t

(* A row is marked published only once the webhook has received it, through *)
(* failed posts, lost answers and dying workers (publish_outbox_one posts   *)
(* before it sets published_at).                                            *)
PublishedWasDelivered == \A t \in Txs : outbox[t] = "PUBLISHED" => t \in delivered

(* As long as some worker finds no job to do again and again, every         *)
(* committed change that notifies reaches the webhook and is retired from   *)
(* the outbox, behind any backlog of older events (publish_outbox_one).     *)
(* Jobs go first in run_forever, so the condition cannot be dropped: steady *)
(* jobs starve the outbox.                                                  *)
EventuallyPublished ==
    \A t \in Notifying :
        []<>(\E p \in Publishers : turn[p] = "outbox")
            => ((t \in changed) ~> (outbox[t] = "PUBLISHED"))
=============================================================================
