------------------------------ MODULE JobQueue ------------------------------
(***************************************************************************)
(* The durable job queue (ops.jobs) and the worker loop that serves it     *)
(* (apps/worker/main.py): leases, retries with backoff, and the recovery   *)
(* of expired leases.                                                      *)
(*                                                                         *)
(* The clock enters through two facts per job: whether its lease has run   *)
(* out and whether its backoff has passed.  Both may come true at any      *)
(* time.  skip_locked makes taking and recovering a job atomic.  _fail and *)
(* the completion at the end of process_one lock nothing: they load the    *)
(* row, whoever leases it, and at their commit the ORM writes the columns  *)
(* whose new value differs from the loaded one.                            *)
(***************************************************************************)
EXTENDS Naturals, FiniteSets

CONSTANTS
  Jobs, Workers,
  MaxAttempts,    \* Job.max_attempts
  Slow,           \* jobs whose handler may still run when the lease expires
  None

ASSUME QueueAssumption ==
  /\ MaxAttempts \in Nat \ {0}
  /\ Slow \subseteq Jobs
  /\ IsFiniteSet(Workers)
  /\ None \notin Jobs \cup Workers

VARIABLES
  state,          \* Job.state, ABSENT before the row is inserted
  attempts,       \* Job.attempts
  owner,          \* Job.lease_owner
  expired,        \* Job.lease_expires_at lies in the past
  due,            \* Job.available_at lies in the past
  busy,           \* the job each worker's loop is at, if any
  handler,        \* what the handler of that job has done so far
  loaded          \* the row as the worker's last transaction has read it

vars == <<state, attempts, owner, expired, due, busy, handler, loaded>>

Settled == {"COMPLETED", "FAILED"}
States == {"ABSENT", "AVAILABLE", "RUNNING"} \cup Settled
Rows == [state : States, owner : Workers \cup {None}, attempts : Nat]
Unread == [state |-> "UNREAD", owner |-> None, attempts |-> 0]

TypeOK ==
  /\ state \in [Jobs -> States]
  /\ attempts \in [Jobs -> Nat]
  /\ owner \in [Jobs -> Workers \cup {None}]
  /\ expired \in [Jobs -> BOOLEAN]
  /\ due \in [Jobs -> BOOLEAN]
  /\ busy \in [Workers -> Jobs \cup {None}]
  /\ handler \in [Workers -> {"idle", "running", "returned", "raised"}]
  /\ loaded \in [Workers -> Rows \cup {Unread}]

Init ==
  /\ state = [j \in Jobs |-> "ABSENT"]
  /\ attempts = [j \in Jobs |-> 0]
  /\ owner = [j \in Jobs |-> None]
  /\ expired = [j \in Jobs |-> FALSE]
  /\ due = [j \in Jobs |-> FALSE]
  /\ busy = [w \in Workers |-> None]
  /\ handler = [w \in Workers |-> "idle"]
  /\ loaded = [w \in Workers |-> Unread]

-----------------------------------------------------------------------------
\* A request handler adds the row in its own transaction.
Enqueue(j) ==
  /\ state[j] = "ABSENT"
  /\ state' = [state EXCEPT ![j] = "AVAILABLE"]
  /\ due' = [due EXCEPT ![j] = TRUE]
  /\ UNCHANGED <<attempts, owner, expired, busy, handler, loaded>>

\* The first transaction of process_one.
TakeJob(w, j) ==
  /\ busy[w] = None
  /\ state[j] = "AVAILABLE" /\ due[j]
  /\ state' = [state EXCEPT ![j] = "RUNNING"]
  /\ owner' = [owner EXCEPT ![j] = w]
  /\ expired' = [expired EXCEPT ![j] = FALSE]
  /\ attempts' = [attempts EXCEPT ![j] = @ + 1]
  /\ busy' = [busy EXCEPT ![w] = j]
  /\ handler' = [handler EXCEPT ![w] = "running"]
  /\ UNCHANGED <<due, loaded>>

\* The handler comes back, or raises (an unknown job type counts as raising),
\* and the transaction that records it loads the row without a lock.
HandlerEnds(w, how) ==
  /\ handler[w] = "running"
  /\ handler' = [handler EXCEPT ![w] = how]
  /\ loaded' = [loaded EXCEPT ![w] =
       [state |-> state[busy[w]], owner |-> owner[busy[w]], attempts |-> attempts[busy[w]]]]
  /\ UNCHANGED <<state, attempts, owner, expired, due, busy>>

\* The commit: a state other than the loaded one is written, the lease is
\* cleared if one was loaded, and the loop goes on.
Writes(w, new) ==
  /\ state' = IF new = loaded[w].state THEN state ELSE [state EXCEPT ![busy[w]] = new]
  /\ IF loaded[w].owner = None
       THEN UNCHANGED <<owner, expired>>
       ELSE /\ owner' = [owner EXCEPT ![busy[w]] = None]
            /\ expired' = [expired EXCEPT ![busy[w]] = FALSE]
  /\ busy' = [busy EXCEPT ![w] = None]
  /\ handler' = [handler EXCEPT ![w] = "idle"]
  /\ loaded' = [loaded EXCEPT ![w] = Unread]
  /\ UNCHANGED attempts

\* The last transaction of process_one.  It does not look at lease_owner.
Complete(w) ==
  /\ handler[w] = "returned"
  /\ Writes(w, "COMPLETED")
  /\ UNCHANGED due


\* _fail.  It does not look at lease_owner either, and counts the attempts
\* that it has loaded.
Fail(w) ==
  /\ handler[w] = "raised"
  /\ IF loaded[w].attempts >= MaxAttempts
       THEN Writes(w, "FAILED") /\ UNCHANGED due
       ELSE Writes(w, "AVAILABLE") /\ due' = [due EXCEPT ![busy[w]] = FALSE]

\* Mutated form: the lease expiry is not compared with the clock.
RecoverEager(w, j) ==
  /\ busy[w] = None
  /\ state[j] = "RUNNING" /\ owner[j] # None
  /\ state' = [state EXCEPT ![j] =
                 IF attempts[j] < MaxAttempts THEN "AVAILABLE" ELSE "FAILED"]
  /\ due' = [due EXCEPT ![j] = TRUE]
  /\ owner' = [owner EXCEPT ![j] = None]
  /\ expired' = [expired EXCEPT ![j] = FALSE]
  /\ UNCHANGED <<attempts, busy, handler, loaded>>

\* Mutated form: the attempts of an abandoned job are not counted.
RecoverAlways(w, j) ==
  /\ busy[w] = None
  /\ state[j] = "RUNNING" /\ owner[j] # None /\ expired[j]
  /\ state' = [state EXCEPT ![j] = "AVAILABLE"]
  /\ due' = [due EXCEPT ![j] = TRUE]
  /\ owner' = [owner EXCEPT ![j] = None]
  /\ expired' = [expired EXCEPT ![j] = FALSE]
  /\ UNCHANGED <<attempts, busy, handler, loaded>>

\* recover_expired_lease, which every worker tries before anything else.
Recover(w, j) ==
  /\ busy[w] = None
  /\ state[j] = "RUNNING" /\ owner[j] # None /\ expired[j]
  /\ state' = [state EXCEPT ![j] =
                 IF attempts[j] < MaxAttempts THEN "AVAILABLE" ELSE "FAILED"]
  /\ due' = [due EXCEPT ![j] = TRUE]
  /\ owner' = [owner EXCEPT ![j] = None]
  /\ expired' = [expired EXCEPT ![j] = FALSE]
  /\ UNCHANGED <<attempts, busy, handler, loaded>>

\* A worker process dies and comes back with an empty loop.
Crash(w) ==
  /\ busy[w] # None
  /\ busy' = [busy EXCEPT ![w] = None]
  /\ handler' = [handler EXCEPT ![w] = "idle"]
  /\ loaded' = [loaded EXCEPT ![w] = Unread]
  /\ UNCHANGED <<state, attempts, owner, expired, due>>

\* Five minutes without a heartbeat, however far the handler has come.
LeaseExpires(j) ==
  /\ state[j] = "RUNNING" /\ ~expired[j]
  /\ j \in Slow \/ \A w \in Workers : busy[w] # j
  /\ expired' = [expired EXCEPT ![j] = TRUE]
  /\ UNCHANGED <<state, attempts, owner, due, busy, handler, loaded>>

\* 2 ** attempts seconds have passed.
BackoffPasses(j) ==
  /\ state[j] = "AVAILABLE" /\ ~due[j]
  /\ due' = [due EXCEPT ![j] = TRUE]
  /\ UNCHANGED <<state, attempts, owner, expired, busy, handler, loaded>>

Next ==
  \/ \E j \in Jobs : Enqueue(j) \/ LeaseExpires(j) \/ BackoffPasses(j)
  \/ \E w \in Workers :
       \/ \E j \in Jobs : TakeJob(w, j) \/ Recover(w, j)
       \/ \E how \in {"returned", "raised"} : HandlerEnds(w, how)
       \/ Complete(w)
       \/ Fail(w)
       \/ Crash(w)

Spec == Init /\ [][Next]_vars

(***************************************************************************)
(* Fairness: time passes, every worker keeps going round its loop, a       *)
(* handler ends one way or the other, and a due or abandoned job is not    *)
(* passed over for ever (both queries order by time, and a retried job     *)
(* goes to the back).                                                      *)
(***************************************************************************)
Fairness ==
  /\ \A j \in Jobs :
       /\ WF_vars(LeaseExpires(j))
       /\ WF_vars(BackoffPasses(j))
       /\ SF_vars(\E w \in Workers : TakeJob(w, j))
       /\ SF_vars(\E w \in Workers : Recover(w, j))
  /\ \A w \in Workers :
       /\ WF_vars(\E how \in {"returned", "raised"} : HandlerEnds(w, how))
       /\ WF_vars(Complete(w) \/ Fail(w))

FairSpec == Spec /\ Fairness

-----------------------------------------------------------------------------
(* A job whose handlers stay within the lease is started at most           *)
(* MaxAttempts times and given up only when they are used up.  A slow job  *)
(* can be put back by a late worker that counted the attempts before       *)
(* somebody else took it again (_fail, main.py:148-160), once by each of   *)
(* them and never by one that was started over the budget: there are fewer *)
(* than twice as many attempts as were meant.                              *)
RetryBudget ==
  \A j \in Jobs :
    /\ attempts[j] < 2 * MaxAttempts
    /\ j \notin Slow =>
         /\ attempts[j] <= MaxAttempts
         /\ state[j] = "AVAILABLE" => attempts[j] < MaxAttempts
         /\ state[j] = "FAILED" => attempts[j] = MaxAttempts

(* While no handler of a job outlives its lease, the lease is worth its    *)
(* name: at most one worker runs the job at a time ("Only one worker owns  *)
(* a run lease", docs/backend-architecture/README.md), whatever crashes    *)
(* and recoveries come in between.  A slow job gets two.                   *)
SingleExecutor ==
  \A v, w \in Workers :
    busy[v] \in Jobs \ Slow /\ busy[v] = busy[w] => v = w

(* A worker that runs such a job still holds the job's lease, so what it   *)
(* writes at the end is about its own attempt.                             *)
LeaseHeldWhileBusy ==
  \A w \in Workers : busy[w] \in Jobs \ Slow =>
    state[busy[w]] = "RUNNING" /\ owner[busy[w]] = w

(* Such a job, once completed, is never started again: its handler's side  *)
(* effects are not repeated by a retry.                                    *)
CompletedIsFinal ==
  [][\A j \in Jobs \ Slow :
       state[j] = "COMPLETED" => state'[j] = "COMPLETED"]_vars

=============================================================================
