--------------------------- MODULE AuditLogProofs ---------------------------
(***************************************************************************)
(* The audit chain and the outbox are sound for every number of            *)
(* transactions and publishers.                                            *)
(***************************************************************************)
EXTENDS AuditLog, TLAPS

(* What a transaction read as the chain's last event is in the chain; it   *)
(* need not be the last any more.                                          *)
ReadIsCommitted ==
    \A t \in Txs : last[t] = NoEvent \/ last[t] \in log

ChainInv == TypeOK /\ ReadIsCommitted /\ ChainUnbroken

(* Rows exist only for committed changes, publishers hold only such rows,  *)
(* and an accepted post has been received.                                 *)
RowsCommitted ==
    \A t \in Txs : outbox[t] # "NONE" => t \in changed /\ \E e \in log : e.hash = t
SendingIsRow ==
    \A p \in Publishers : sending[p] # None => outbox[sending[p]] # "NONE"
AcceptedWasDelivered ==
    \A p \in Publishers : sending[p] # None /\ accepted[p] => sending[p] \in delivered

OutboxInv == RowsCommitted /\ SendingIsRow /\ AcceptedWasDelivered
             /\ DeliveredWasCommitted /\ PublishedWasDelivered

LEMMA TypeInit == Init => TypeOK
  <1> SUFFICES ASSUME Init PROVE TypeOK
    OBVIOUS
  <1>1. /\ accepted \in [Publishers -> BOOLEAN] /\ work \in BOOLEAN
        /\ turn \in [Publishers -> {"jobs", "outbox"}]
    BY Zenon DEF Init
  <1>2. /\ log \subseteq Event /\ changed \subseteq Txs /\ delivered \subseteq Txs
        /\ stamped \in Seq(Txs) /\ outbox \in [Txs -> {"NONE", "PENDING", "PUBLISHED"}]
        /\ sending \in [Publishers -> Txs \cup {None}]
    BY DEF Init
  <1>3. /\ pc \in [Txs -> {"idle", "locking", "open", "committed", "aborted"}]
        /\ last \in [Txs -> Event \cup {NoEvent}]
    BY DEF Init
  <1> QED
    BY <1>1, <1>2, <1>3 DEF TypeOK

LEMMA NewEventTyped ==
    ASSUME NEW t \in Txs, TypeOK
    PROVE  /\ NewEvent(t) \in Event
           /\ NewEvent(t).sequence = last[t].sequence + 1
           /\ NewEvent(t).hash = t
           /\ NewEvent(t).previous = last[t].hash
  <1>1. last[t].sequence \in Nat /\ last[t].hash \in Txs \cup {None}
    BY DEF TypeOK, Event, NoEvent
  <1> QED
    BY <1>1 DEF NewEvent, Event

(* Types are kept by every step. *)
LEMMA TypeStep == TypeOK /\ [Next]_vars => TypeOK'
  <1> SUFFICES ASSUME TypeOK, [Next]_vars PROVE TypeOK'
    OBVIOUS
  <1>1. ASSUME NEW t \in Txs, ReadLast(t) PROVE TypeOK'
    BY <1>1 DEF TypeOK, ReadLast, Goto, publisherVars
  <1>2. ASSUME NEW t \in Txs, AppendEvent(t) PROVE TypeOK'
    <2>1. stamped' \in Seq(Txs)
      BY <1>2 DEF TypeOK, AppendEvent
    <2> QED
      BY <1>2, <2>1 DEF TypeOK, AppendEvent, Goto, publisherVars
  <1>3. ASSUME NEW t \in Txs, Commit(t) PROVE TypeOK'
    <2>1. log' \subseteq Event
      BY <1>3, NewEventTyped DEF TypeOK, Commit
    <2>2. outbox' \in [Txs -> {"NONE", "PENDING", "PUBLISHED"}]
      BY <1>3 DEF TypeOK, Commit
    <2> QED
      BY <1>3, <2>1, <2>2 DEF TypeOK, Commit, Goto, publisherVars
  <1>4. ASSUME NEW t \in Txs, Rollback(t) PROVE TypeOK'
    BY <1>4 DEF TypeOK, Rollback, Goto, publisherVars
  <1>5. ASSUME NEW p \in Publishers, PublisherStep(p) PROVE TypeOK'
    <2>1. CASE Pick(p)
      BY <2>1 DEF TypeOK, Pick, Candidates, txVars
    <2>2. CASE PostSucceeds(p)
      BY <2>2 DEF TypeOK, PostSucceeds, txVars
    <2>3. CASE PostFails(p)
      BY <2>3 DEF TypeOK, PostFails, NextTurn, txVars
    <2>4. CASE MarkPublished(p)
      BY <2>4 DEF TypeOK, MarkPublished, NextTurn, txVars
    <2>5. CASE PublisherDies(p)
      BY <2>5 DEF TypeOK, PublisherDies, NextTurn, txVars
    <2>6. CASE DoJob(p) \/ NoJob(p) \/ NoEventToPick(p)
      BY <2>6 DEF TypeOK, DoJob, NoJob, NoEventToPick, NextTurn, txVars
    <2> QED
      BY <1>5, <2>1, <2>2, <2>3, <2>4, <2>5, <2>6 DEF PublisherStep
  <1>6. CASE UNCHANGED vars
    BY <1>6 DEF TypeOK, vars
  <1>7. CASE WorkChanges
    BY <1>7 DEF TypeOK, WorkChanges, txVars
  <1> QED
    BY <1>1, <1>2, <1>3, <1>4, <1>5, <1>6, <1>7 DEF Next, TxStep

(* An appended event extends the chain: its number is free, and its         *)
(* predecessor is the committed event its transaction read.                 *)
LEMMA ChainStep == ChainInv /\ [Next]_vars => ReadIsCommitted' /\ ChainUnbroken'
  <1> SUFFICES ASSUME ChainInv, [Next]_vars PROVE ReadIsCommitted' /\ ChainUnbroken'
    OBVIOUS
  <1> USE DEF ChainInv
  <1>1. ASSUME NEW t \in Txs, ReadLast(t) PROVE ReadIsCommitted' /\ ChainUnbroken'
    <2>1. log' = log /\ \E e \in log \cup {NoEvent} : last' = [last EXCEPT ![t] = e]
      BY <1>1 DEF ReadLast
    <2>2. ReadIsCommitted'
      BY <2>1 DEF ReadIsCommitted, TypeOK
    <2>3. ChainUnbroken'
      BY <2>1 DEF ChainUnbroken
    <2> QED
      BY <2>2, <2>3
  <1>2. ASSUME NEW t \in Txs, Commit(t) PROVE ReadIsCommitted' /\ ChainUnbroken'
    <2>1. /\ log' = log \cup {NewEvent(t)}
          /\ last' = last
          /\ \A e \in log : e.sequence # NewEvent(t).sequence
      BY <1>2 DEF Commit, SequenceFree
    <2>2. ReadIsCommitted'
      BY <2>1 DEF ReadIsCommitted
    <2>3. NewEvent(t).sequence = 1 => NewEvent(t).previous = None
      <3>1. CASE last[t] = NoEvent
        BY <3>1, NewEventTyped DEF NoEvent
      <3>2. CASE last[t] \in log
        BY <3>2, NewEventTyped DEF TypeOK, Event
      <3> QED
        BY <3>1, <3>2 DEF ReadIsCommitted
    <2>4. NewEvent(t).sequence # 1 =>
             \E f \in log : f.sequence + 1 = NewEvent(t).sequence
                            /\ f.hash = NewEvent(t).previous
      <3>1. CASE last[t] = NoEvent
        BY <3>1, NewEventTyped DEF NoEvent
      <3>2. CASE last[t] \in log
        BY <3>2, NewEventTyped
      <3> QED
        BY <3>1, <3>2 DEF ReadIsCommitted
    <2>5. ChainUnbroken'
      BY <2>1, <2>3, <2>4 DEF ChainUnbroken
    <2> QED
      BY <2>2, <2>5
  <1>3. CASE UNCHANGED <<log, last>>
    BY <1>3 DEF ReadIsCommitted, ChainUnbroken
  <1> QED
    BY <1>1, <1>2, <1>3
       DEF Next, TxStep, PublisherStep, AppendEvent, Rollback, Pick, PostSucceeds,
           PostFails, MarkPublished, PublisherDies, DoJob, NoJob, NoEventToPick, WorkChanges,
           txVars, vars

LEMMA OutboxStep == TypeOK /\ OutboxInv /\ [Next]_vars => OutboxInv'
  <1> SUFFICES ASSUME TypeOK, OutboxInv, [Next]_vars PROVE OutboxInv'
    OBVIOUS
  <1> USE DEF OutboxInv
  <1>1. ASSUME NEW t \in Txs, Commit(t) PROVE OutboxInv'
    <2>1. /\ log' = log \cup {NewEvent(t)}
          /\ changed' = changed \cup {t}
          /\ \A u \in Txs : outbox'[u] # outbox[u] => u = t
          /\ \A u \in Txs : outbox[u] # "NONE" => outbox'[u] # "NONE"
          /\ \A u \in Txs : outbox'[u] = "PUBLISHED" => outbox[u] = "PUBLISHED"
          /\ UNCHANGED publisherVars
      BY <1>1 DEF Commit, TypeOK
    <2>2. \E e \in log' : e.hash = t
      BY <2>1, NewEventTyped
    <2>3. RowsCommitted'
      BY <2>1, <2>2 DEF RowsCommitted
    <2>4. SendingIsRow' /\ AcceptedWasDelivered'
      BY <2>1 DEF SendingIsRow, AcceptedWasDelivered, publisherVars, TypeOK
    <2>5. DeliveredWasCommitted' /\ PublishedWasDelivered'
      BY <2>1 DEF DeliveredWasCommitted, PublishedWasDelivered, publisherVars
    <2> QED
      BY <2>3, <2>4, <2>5
  <1>2. CASE UNCHANGED <<log, changed, outbox, sending, accepted, delivered>>
    BY <1>2 DEF RowsCommitted, SendingIsRow, AcceptedWasDelivered,
                DeliveredWasCommitted, PublishedWasDelivered
  <1>3. ASSUME NEW p \in Publishers, Pick(p) PROVE OutboxInv'
    <2>1. RowsCommitted' /\ DeliveredWasCommitted' /\ PublishedWasDelivered'
      BY <1>3 DEF Pick, txVars, RowsCommitted, DeliveredWasCommitted, PublishedWasDelivered
    <2>2. SendingIsRow' /\ AcceptedWasDelivered'
      BY <1>3 DEF Pick, Candidates, txVars, SendingIsRow, AcceptedWasDelivered, TypeOK
    <2> QED
      BY <2>1, <2>2
  <1>4. ASSUME NEW p \in Publishers,
               delivered' \in {delivered, delivered \cup {sending[p]}},
               sending[p] # None,
               UNCHANGED <<txVars, outbox>>,
               \/ PostSucceeds(p)
               \/ PostFails(p)
        PROVE  OutboxInv'
    <2>1. RowsCommitted' /\ PublishedWasDelivered'
      BY <1>4 DEF txVars, RowsCommitted, PublishedWasDelivered
    <2>2. DeliveredWasCommitted'
      <3>1. sending[p] \in Txs /\ outbox[sending[p]] # "NONE"
        BY <1>4 DEF SendingIsRow, TypeOK
      <3> QED
        BY <1>4, <3>1 DEF txVars, DeliveredWasCommitted, RowsCommitted
    <2>3. SendingIsRow'
      BY <1>4 DEF PostSucceeds, PostFails, SendingIsRow, TypeOK
    <2>4. AcceptedWasDelivered'
      BY <1>4 DEF PostSucceeds, PostFails, AcceptedWasDelivered, TypeOK
    <2> QED
      BY <2>1, <2>2, <2>3, <2>4
  <1>5. ASSUME NEW p \in Publishers, MarkPublished(p) PROVE OutboxInv'
    <2>0. sending[p] \in Txs /\ sending[p] \in delivered /\ outbox[sending[p]] # "NONE"
      BY <1>5 DEF MarkPublished, SendingIsRow, AcceptedWasDelivered, TypeOK
    <2>1. RowsCommitted' /\ DeliveredWasCommitted'
      BY <1>5, <2>0 DEF MarkPublished, txVars, RowsCommitted, DeliveredWasCommitted, TypeOK
    <2>2. PublishedWasDelivered'
      BY <1>5, <2>0 DEF MarkPublished, PublishedWasDelivered, TypeOK
    <2>3. SendingIsRow' /\ AcceptedWasDelivered'
      BY <1>5, <2>0 DEF MarkPublished, SendingIsRow, AcceptedWasDelivered, TypeOK
    <2> QED
      BY <2>1, <2>2, <2>3
  <1>6. ASSUME NEW p \in Publishers, PublisherDies(p) PROVE OutboxInv'
    <2>1. RowsCommitted' /\ DeliveredWasCommitted' /\ PublishedWasDelivered'
      BY <1>6 DEF PublisherDies, txVars, RowsCommitted, DeliveredWasCommitted,
                  PublishedWasDelivered
    <2>2. SendingIsRow' /\ AcceptedWasDelivered'
      BY <1>6 DEF PublisherDies, SendingIsRow, AcceptedWasDelivered, TypeOK
    <2> QED
      BY <2>1, <2>2
  <1>7. ASSUME NEW t \in Txs, TxStep(t) PROVE OutboxInv'
    BY <1>1, <1>2, <1>7 DEF TxStep, ReadLast, AppendEvent, Rollback, publisherVars
  <1>8. ASSUME NEW p \in Publishers, PostSucceeds(p) \/ PostFails(p) PROVE OutboxInv'
    BY <1>4, <1>8 DEF PostSucceeds, PostFails
  <1>9. ASSUME WorkChanges \/ \E p \in Publishers : DoJob(p) \/ NoJob(p) \/ NoEventToPick(p)
        PROVE  OutboxInv'
    BY <1>2, <1>9 DEF WorkChanges, DoJob, NoJob, NoEventToPick, txVars
  <1> QED
    BY <1>2, <1>3, <1>5, <1>6, <1>7, <1>8, <1>9 DEF Next, PublisherStep, vars

(* Rows, transactions and publishers keep their types. *)
THEOREM AuditTypeCorrect == Spec => []TypeOK
  <1>1. Init => TypeOK
    BY TypeInit
  <1> QED
    BY <1>1, TypeStep, PTL DEF Spec

(* The audit events of a tenant form one unbroken hash chain, although      *)
(* append_audit_event may be handed a last event that is no longer last.    *)
THEOREM AuditChain == Spec => []ChainUnbroken
  <1>1. Init => ChainInv
    BY TypeInit DEF Init, ChainInv, ReadIsCommitted, ChainUnbroken
  <1>2. ChainInv /\ [Next]_vars => ChainInv'
    BY TypeStep, ChainStep DEF ChainInv
  <1>3. ChainInv => ChainUnbroken
    BY DEF ChainInv
  <1> QED
    BY <1>1, <1>2, <1>3, PTL DEF Spec

LEMMA OutboxInductive == Spec => []OutboxInv
  <1>1. Init => OutboxInv
    BY DEF Init, OutboxInv, RowsCommitted, SendingIsRow, AcceptedWasDelivered,
           DeliveredWasCommitted, PublishedWasDelivered
  <1> QED
    BY <1>1, OutboxStep, AuditTypeCorrect, PTL DEF Spec

(* The webhook hears only of committed, audited changes. *)
THEOREM OutboxSound == Spec => []DeliveredWasCommitted
  <1>1. OutboxInv => DeliveredWasCommitted
    BY DEF OutboxInv
  <1> QED
    BY <1>1, OutboxInductive, PTL

(* No event is retired from the outbox before the webhook received it. *)
THEOREM OutboxComplete == Spec => []PublishedWasDelivered
  <1>1. OutboxInv => PublishedWasDelivered
    BY DEF OutboxInv
  <1> QED
    BY <1>1, OutboxInductive, PTL
=============================================================================
