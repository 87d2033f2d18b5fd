------------------------------ MODULE AgentRun ------------------------------
(***************************************************************************)
(* The life of an agent run: packages/agents/runtime.py driven by the      *)
(* worker's "agent.run" and "mcp.resume" jobs, cancelled by its user       *)
(* (apps/api/routes/runs.py), continued by an approval                     *)
(* (apps/api/routes/approvals.py), and watched through the event stream.   *)
(*                                                                         *)
(* The job queue is reduced to what JobQueue establishes of it: a job is   *)
(* handed out at most MaxAttempts times, and possibly to a second worker   *)
(* while the first still runs.  Guardian and the broker are reduced to     *)
(* the verdict on a call and to whether the call has run.                  *)
(*                                                                         *)
(* Sessions do not flush before a query (database.py), so what             *)
(* _mark_waiting and _mark_failed read is not protected until they commit: *)
(* their read and their write are two steps.  _prepare and _complete lock  *)
(* the run's row first and are one step each.                              *)
(***************************************************************************)
EXTENDS Naturals, FiniteSets, Sequences

CONSTANTS Runs,         \* the runs of one conversation
          Calls,        \* tool calls the runs may escalate
          Workers,      \* worker processes
          Configured,   \* the workers that have a model API key
          MaxAttempts,  \* Job.max_attempts
          MayCrash,     \* whether a process may die between two transactions
          None

ASSUME RunAssumption ==
    /\ Configured \subseteq Workers
    /\ MaxAttempts \in Nat \ {0}
    /\ IsFiniteSet(Workers) /\ IsFiniteSet(Calls)
    /\ MayCrash \in BOOLEAN
    /\ None \notin Runs \cup Calls \cup Workers \cup {"WAITING_APPROVAL", "FAILED"}

VARIABLES
    status,     \* AgentRun.status, "NONE" before the row exists
    prepared,   \* whether the run's step row with sequence 1 exists
    events,     \* AgentRunEvent rows of each run: sequence and status
    messages,   \* the conversation's messages: role and run
    runJob,     \* attempts left of the run's agent.run job
    callOf,     \* the run that escalated a call, None before
    verdict,    \* what the approver decided about a call
    executed,   \* whether the broker has run the call
    extra,      \* calls beyond the first that single turns of a run escalated (history)
    enqueued,   \* the API's mcp.resume job for an approved call
    resumeJob,  \* attempts left of that job
    pc, run, call, target, seen,   \* each worker's handler
    cancelling, \* runs whose cancel request has passed its status check
    stream      \* the event stream a client holds on each run

vars == <<status, prepared, events, messages, runJob, callOf, verdict, executed, extra,
          enqueued, resumeJob, pc, run, call, target, seen, cancelling, stream>>

rowVars == <<status, prepared, events, messages>>
jobVars == <<runJob, enqueued, resumeJob>>
callVars == <<callOf, verdict, executed, extra>>
handlerVars == <<pc, run, call, target, seen>>
clientVars == <<cancelling, stream>>

Statuses == {"NONE", "QUEUED", "RUNNING_MODEL", "WAITING_APPROVAL",
             "COMPLETED", "FAILED", "CANCELLED"}

TerminalStates == {"COMPLETED", "FAILED", "CANCELLED", "EXPIRED", "BLOCKED"}

(* The largest member of S, or n: coalesce(max(sequence), n). *)
Greatest(S, n) == IF S = {} THEN n ELSE CHOOSE m \in S : \A k \in S : k <= m

EventNumbers(r) == {e.sequence : e \in events[r]}
LastSequence(r) == Greatest(EventNumbers(r), 0)

Steps == {"idle", "prepare", "model", "complete", "markRead", "markWrite", "ack",
          "broker", "continue"}

TypeOK ==
    /\ status \in [Runs -> Statuses]
    /\ prepared \in [Runs -> BOOLEAN]
    /\ events \in [Runs -> SUBSET [sequence : Nat \ {0}, status : Statuses]]
    /\ messages \in Seq([role : {"user", "assistant"}, run : Runs])
    /\ runJob \in [Runs -> 0..MaxAttempts]
    /\ callOf \in [Calls -> Runs \cup {None}]
    /\ verdict \in [Calls -> {"PENDING", "APPROVED", "REJECTED"}]
    /\ executed \in [Calls -> BOOLEAN]
    /\ extra \in [Runs -> Nat]
    /\ enqueued \in [Calls -> {"NO", "DUE", "YES", "LOST"}]
    /\ resumeJob \in [Calls -> 0..MaxAttempts]
    /\ pc \in [Workers -> Steps]
    /\ run \in [Workers -> Runs \cup {None}]
    /\ call \in [Workers -> Calls \cup {None}]
    /\ target \in [Workers -> {"WAITING_APPROVAL", "FAILED", None}]
    /\ seen \in [Workers -> [status : Statuses, last : Nat]]
    /\ cancelling \in SUBSET Runs
    /\ stream \in [Runs -> [open : BOOLEAN, polled : BOOLEAN, last : Nat,
                            batch : SUBSET Nat, got : Seq(Nat)]]

NotSeen == [status |-> "NONE", last |-> 0]
NewStream == [open |-> TRUE, polled |-> FALSE, last |-> 0, batch |-> {}, got |-> <<>>]

Init ==
    /\ status = [r \in Runs |-> "NONE"]
    /\ prepared = [r \in Runs |-> FALSE]
    /\ events = [r \in Runs |-> {}]
    /\ messages = <<>>
    /\ runJob = [r \in Runs |-> 0]
    /\ callOf = [c \in Calls |-> None]
    /\ verdict = [c \in Calls |-> "PENDING"]
    /\ executed = [c \in Calls |-> FALSE]
    /\ extra = [r \in Runs |-> 0]
    /\ enqueued = [c \in Calls |-> "NO"]
    /\ resumeJob = [c \in Calls |-> 0]
    /\ pc = [w \in Workers |-> "idle"]
    /\ run = [w \in Workers |-> None]
    /\ call = [w \in Workers |-> None]
    /\ target = [w \in Workers |-> None]
    /\ seen = [w \in Workers |-> NotSeen]
    /\ cancelling = {}
    /\ stream = [r \in Runs |-> NewStream]
-----------------------------------------------------------------------------
(* A worker's handler moves to its next step, or ends. *)
Goto(w, step) == pc' = [pc EXCEPT ![w] = step]

Ended(w) ==
    /\ Goto(w, "idle")
    /\ run' = [run EXCEPT ![w] = None]
    /\ call' = [call EXCEPT ![w] = None]
    /\ target' = [target EXCEPT ![w] = None]
    /\ seen' = [seen EXCEPT ![w] = NotSeen]

(* The handler raised: process_one leaves the job to its remaining attempts. *)
Raise(w) == Ended(w) /\ UNCHANGED jobVars

ToMark(w, s) ==
    /\ Goto(w, "markRead")
    /\ target' = [target EXCEPT ![w] = s]
    /\ UNCHANGED <<run, call, seen>>

(* add_user_message_and_run, under the conversation's row lock. *)
Submit(r) ==
    /\ status[r] = "NONE"
    /\ status' = [status EXCEPT ![r] = "QUEUED"]
    /\ events' = [events EXCEPT ![r] = {[sequence |-> 1, status |-> "QUEUED"]}]
    /\ messages' = Append(messages, [role |-> "user", run |-> r])
    /\ runJob' = [runJob EXCEPT ![r] = MaxAttempts]
    /\ UNCHANGED <<prepared, enqueued, resumeJob, callVars, handlerVars, clientVars>>

TakeRun(w, r) ==
    /\ pc[w] = "idle"
    /\ runJob[r] > 0
    /\ runJob' = [runJob EXCEPT ![r] = @ - 1]
    /\ Goto(w, "prepare")
    /\ run' = [run EXCEPT ![w] = r]
    /\ UNCHANGED <<call, target, seen, enqueued, resumeJob, rowVars, callVars, clientVars>>

(* execute on a worker without a model key fails the run, whatever its status. *)
ExecuteUnconfigured(w) ==
    /\ pc[w] = "prepare"
    /\ w \notin Configured
    /\ ToMark(w, "FAILED")
    /\ UNCHANGED <<rowVars, jobVars, callVars, clientVars>>

(* Mutated form: the step table has no unique constraint. *)
StepRowAlwaysFree(r) == TRUE

(* The step row with sequence 1 is unique, so a run is prepared once. *)
StepRowFree(r) == ~prepared[r]

Prepare(w) ==
    /\ pc[w] = "prepare"
    /\ w \in Configured
    /\ status[run[w]] \in {"QUEUED", "WAITING_APPROVAL"}
    /\ StepRowFree(run[w])
    /\ status' = [status EXCEPT ![run[w]] = "RUNNING_MODEL"]
    /\ prepared' = [prepared EXCEPT ![run[w]] = TRUE]
    /\ Goto(w, "model")
    /\ UNCHANGED <<events, messages, run, call, target, seen, jobVars, callVars, clientVars>>

PrepareRefused(w) ==
    /\ pc[w] = "prepare"
    /\ w \in Configured
    /\ \/ status[run[w]] \notin {"QUEUED", "WAITING_APPROVAL"}
       \/ ~StepRowFree(run[w])
    /\ Raise(w)
    /\ UNCHANGED <<rowVars, callVars, clientVars>>

Resuming(w) == call[w] # None

(* The tool calls of one turn: the agent sets no limit on their number. *)
Turns == (SUBSET Calls) \ {{}}

(* Runner.run: the model answers, escalates a tool call, or fails. *)
ModelAnswers(w) ==
    /\ pc[w] = "model"
    /\ Goto(w, "complete")
    /\ UNCHANGED <<run, call, target, seen, rowVars, jobVars, callVars, clientVars>>

(* The calls of one turn run side by side and may all be escalated; the    *)
(* first ApprovalPending ends the turn, and only execute catches it.       *)
ModelEscalates(w, C) ==
    /\ pc[w] = "model"
    /\ \A c \in C : callOf[c] = None
    /\ callOf' = [c \in Calls |-> IF c \in C THEN run[w] ELSE callOf[c]]
    /\ extra' = [extra EXCEPT ![run[w]] = @ + Cardinality(C) - 1]
    /\ IF Resuming(w) THEN Raise(w) ELSE ToMark(w, "WAITING_APPROVAL") /\ UNCHANGED jobVars
    /\ UNCHANGED <<verdict, executed, rowVars, clientVars>>

(* Any other exception: execute records it, resume_after_tool lets it escape. *)
ModelFails(w) ==
    /\ pc[w] = "model"
    /\ IF Resuming(w) THEN Raise(w) ELSE ToMark(w, "FAILED") /\ UNCHANGED jobVars
    /\ UNCHANGED <<rowVars, callVars, clientVars>>

(* _complete, under the locks of the run and the conversation. *)
Complete(w) ==
    LET r == run[w] IN
    /\ pc[w] = "complete"
    /\ status' = [status EXCEPT ![r] = "COMPLETED"]
    /\ events' = [events EXCEPT ![r] =
                    @ \cup {[sequence |-> LastSequence(r) + 1, status |-> "COMPLETED"]}]
    /\ messages' = Append(messages, [role |-> "assistant", run |-> r])
    /\ Goto(w, "ack")
    /\ UNCHANGED <<prepared, run, call, target, seen, jobVars, callVars, clientVars>>

(* _mark_waiting and _mark_failed: the row and the last event, read unlocked. *)
MarkRead(w) ==
    /\ pc[w] = "markRead"
    /\ seen' = [seen EXCEPT ![w] = [status |-> status[run[w]], last |-> LastSequence(run[w])]]
    /\ Goto(w, "markWrite")
    /\ UNCHANGED <<run, call, target, rowVars, jobVars, callVars, clientVars>>

(* Mutated form: the event table has no unique constraint. *)
SequenceAlwaysFree(w) == TRUE

(* UNIQUE (tenant_id, run_id, sequence) on the run's events. *)
SequenceFree(w) == seen[w].last + 1 \notin EventNumbers(run[w])

(* Only changed columns are written: a status read equal to the target is not. *)
MarkWrite(w) ==
    LET r == run[w] IN
    /\ pc[w] = "markWrite"
    /\ SequenceFree(w)
    /\ status' = IF seen[w].status = target[w] THEN status
                 ELSE [status EXCEPT ![r] = target[w]]
    /\ events' = [events EXCEPT ![r] =
                    @ \cup {[sequence |-> seen[w].last + 1, status |-> target[w]]}]
    /\ Goto(w, "ack")
    /\ UNCHANGED <<prepared, messages, run, call, target, seen, jobVars, callVars, clientVars>>

MarkConflict(w) ==
    /\ pc[w] = "markWrite"
    /\ ~SequenceFree(w)
    /\ Raise(w)
    /\ UNCHANGED <<rowVars, callVars, clientVars>>

(* The handler returned: process_one marks the job COMPLETED. *)
Ack(w) ==
    /\ pc[w] = "ack"
    /\ IF Resuming(w)
       THEN resumeJob' = [resumeJob EXCEPT ![call[w]] = 0] /\ UNCHANGED runJob
       ELSE runJob' = [runJob EXCEPT ![run[w]] = 0] /\ UNCHANGED resumeJob
    /\ Ended(w)
    /\ UNCHANGED <<enqueued, rowVars, callVars, clientVars>>
-----------------------------------------------------------------------------
(* Mutated form: resume_required is set whatever the verdict. *)
DecideAlwaysResume(c, v) ==
    /\ callOf[c] # None
    /\ verdict[c] = "PENDING"
    /\ verdict' = [verdict EXCEPT ![c] = v]
    /\ enqueued' = [enqueued EXCEPT ![c] = "DUE"]
    /\ UNCHANGED <<callOf, executed, extra, runJob, resumeJob, rowVars, handlerVars, clientVars>>

(* The approver's verdict commits in Guardian; only then does the API, in a *)
(* transaction of its own, enqueue the mcp.resume job for an approval.      *)
Decide(c, v) ==
    /\ callOf[c] # None
    /\ verdict[c] = "PENDING"
    /\ verdict' = [verdict EXCEPT ![c] = v]
    /\ enqueued' = [enqueued EXCEPT ![c] = IF v = "APPROVED" THEN "DUE" ELSE "NO"]
    /\ UNCHANGED <<callOf, executed, extra, runJob, resumeJob, rowVars, handlerVars, clientVars>>

EnqueueResume(c) ==
    /\ enqueued[c] = "DUE"
    /\ enqueued' = [enqueued EXCEPT ![c] = "YES"]
    /\ resumeJob' = [resumeJob EXCEPT ![c] = MaxAttempts]
    /\ UNCHANGED <<runJob, rowVars, callVars, handlerVars, clientVars>>

LoseResume(c) ==
    /\ MayCrash
    /\ enqueued[c] = "DUE"
    /\ enqueued' = [enqueued EXCEPT ![c] = "LOST"]
    /\ UNCHANGED <<runJob, resumeJob, rowVars, callVars, handlerVars, clientVars>>

TakeResume(w, c) ==
    /\ pc[w] = "idle"
    /\ resumeJob[c] > 0
    /\ resumeJob' = [resumeJob EXCEPT ![c] = @ - 1]
    /\ Goto(w, "broker")
    /\ run' = [run EXCEPT ![w] = callOf[c]]
    /\ call' = [call EXCEPT ![w] = c]
    /\ UNCHANGED <<target, seen, runJob, enqueued, rowVars, callVars, clientVars>>

(* Mutated form: the broker does not check that the call still waits. *)
BrokerResumesAgain(w) ==
    /\ pc[w] = "broker"
    /\ executed' = [executed EXCEPT ![call[w]] = TRUE]
    /\ Goto(w, "continue")
    /\ UNCHANGED <<run, call, target, seen, jobVars>>
    /\ UNCHANGED <<callOf, verdict, extra, rowVars, clientVars>>

(* The broker resumes a call at most once and hands the result over, or the *)
(* worker's sixty-second timeout strikes first and the result is lost to it. *)
BrokerResumes(w) ==
    /\ pc[w] = "broker"
    /\ ~executed[call[w]]
    /\ executed' = [executed EXCEPT ![call[w]] = TRUE]
    /\ \/ Goto(w, "continue") /\ UNCHANGED <<run, call, target, seen, jobVars>>
       \/ Raise(w)
    /\ UNCHANGED <<callOf, verdict, extra, rowVars, clientVars>>

(* CALL_NOT_RESUMABLE, an expired approval, or a broker that is away. *)
BrokerRefuses(w) ==
    /\ pc[w] = "broker"
    /\ Raise(w)
    /\ UNCHANGED <<rowVars, callVars, clientVars>>

(* resume_after_tool sets the status without looking at it. *)
Continue(w) ==
    /\ pc[w] = "continue"
    /\ IF w \in Configured
       THEN /\ status' = [status EXCEPT ![run[w]] = "RUNNING_MODEL"]
            /\ Goto(w, "model")
            /\ UNCHANGED <<run, call, target, seen>>
       ELSE ToMark(w, "FAILED") /\ UNCHANGED status
    /\ UNCHANGED <<prepared, events, messages, jobVars, callVars, clientVars>>

Crash(w) ==
    /\ MayCrash
    /\ pc[w] # "idle"
    /\ Raise(w)
    /\ UNCHANGED <<rowVars, callVars, clientVars>>
-----------------------------------------------------------------------------
(* cancel_run checks an unlocked read and writes when its request commits. *)
CancelRead(r) ==
    /\ status[r] \notin TerminalStates \cup {"NONE"}
    /\ cancelling' = cancelling \cup {r}
    /\ UNCHANGED <<stream, rowVars, jobVars, callVars, handlerVars>>

CancelWrite(r) ==
    /\ r \in cancelling
    /\ status' = [status EXCEPT ![r] = "CANCELLED"]
    /\ cancelling' = cancelling \ {r}
    /\ UNCHANGED <<prepared, events, messages, stream, jobVars, callVars, handlerVars>>

(* _event_stream: one poll reads the new events, then the status.  Each is *)
(* a statement of its own, with its own view of the committed rows.        *)
NewEvents(r) == {n \in EventNumbers(r) : n > stream[r].last}

Ascending(S) == [i \in 1..Cardinality(S) |->
                    CHOOSE n \in S : Cardinality({m \in S : m < n}) = i - 1]

PollEvents(r) ==
    /\ status[r] # "NONE"
    /\ stream[r].open /\ ~stream[r].polled
    /\ stream' = [stream EXCEPT ![r] =
                    [open |-> TRUE, polled |-> TRUE, last |-> stream[r].last,
                     batch |-> NewEvents(r), got |-> stream[r].got]]
    /\ UNCHANGED <<cancelling, rowVars, jobVars, callVars, handlerVars>>

PollStatus(r) ==
    LET s == stream[r] IN
    /\ s.polled
    /\ stream' = [stream EXCEPT ![r] =
                    [open |-> ~(status[r] \in TerminalStates /\ s.batch = {}),
                     polled |-> FALSE,
                     last |-> Greatest(s.batch, s.last),
                     batch |-> {},
                     got |-> s.got \o Ascending(s.batch)]]
    /\ UNCHANGED <<cancelling, rowVars, jobVars, callVars, handlerVars>>
-----------------------------------------------------------------------------
WorkerStep(w) ==
    \/ \E r \in Runs : TakeRun(w, r)
    \/ \E c \in Calls : TakeResume(w, c)
    \/ ExecuteUnconfigured(w)
    \/ Prepare(w)
    \/ PrepareRefused(w)
    \/ ModelAnswers(w)
    \/ \E C \in Turns : ModelEscalates(w, C)
    \/ ModelFails(w)
    \/ Complete(w)
    \/ MarkRead(w)
    \/ MarkWrite(w)
    \/ MarkConflict(w)
    \/ Ack(w)
    \/ BrokerResumes(w)
    \/ BrokerRefuses(w)
    \/ Continue(w)

Next ==
    \/ \E r \in Runs : Submit(r)
    \/ \E w \in Workers : WorkerStep(w)
    \/ \E w \in Workers : Crash(w)
    \/ \E c \in Calls, v \in {"APPROVED", "REJECTED"} : Decide(c, v)
    \/ \E c \in Calls : EnqueueResume(c)
    \/ \E c \in Calls : LoseResume(c)
    \/ \E r \in Runs : CancelRead(r)
    \/ \E r \in Runs : CancelWrite(r)
    \/ \E r \in Runs : PollEvents(r)
    \/ \E r \in Runs : PollStatus(r)

Spec == Init /\ [][Next]_vars
-----------------------------------------------------------------------------
Answers(r) == {i \in DOMAIN messages : messages[i] = [role |-> "assistant", run |-> r]}

(* However often its jobs are delivered, retried or resumed, and whatever   *)
(* crashes or is cancelled in between, a run adds one assistant message to  *)
(* its conversation (_complete appends one each time it runs), and at most  *)
(* one more for each further call that its model escalated in one turn:     *)
(* every approved call of a turn resumes the run for itself.                *)
OneAnswerPerRun == \A r \in Runs : Cardinality(Answers(r)) <= 1 + extra[r]

Unsettled(r) == {c \in Calls : callOf[c] = r /\ ~(verdict[c] = "APPROVED" /\ executed[c])}

(* A run whose turns escalate one call each answers only after every call   *)
(* was approved and run: no delivery of its jobs carries it past a call     *)
(* that is pending or was rejected (resume_required, _prepare's unique step *)
(* row).  It may leave behind at most the further calls of such turns.      *)
AnswerNeedsVerdicts ==
    \A r \in Runs : Answers(r) # {} => Cardinality(Unsettled(r)) <= extra[r]

(* At most one worker runs the model for a run at a time, although the      *)
(* queue may hand the same job to two of them (_prepare's row lock and step *)
(* row, the broker's lock on a resumed call), and one more for each further *)
(* call of a turn.                                                          *)
OneModelPhase ==
    \A r \in Runs :
        Cardinality({w \in Workers : pc[w] = "model" /\ run[w] = r}) <= 1 + extra[r]

(* What a client has received is the run's first events in order, none      *)
(* twice, none skipped, and no two events of a run share a number           *)
(* (_event_stream's cursor, _add_event's numbering).                        *)
StreamInOrder ==
    \A r \in Runs :
        /\ stream[r].got = [i \in 1..stream[r].last |-> i]
        /\ Cardinality({e \in events[r] : e.sequence <= stream[r].last}) = stream[r].last

(* Work that can still move a run on: a handler, a job, or an approver. *)
Attended(r) ==
    \/ \E w \in Workers : run[w] = r
    \/ runJob[r] > 0
    \/ \E c \in Calls :
          /\ callOf[c] = r
          /\ (verdict[c] = "PENDING" \/ enqueued[c] = "DUE" \/ resumeJob[c] > 0)

(* A run is not left in RUNNING_MODEL with nobody working on it: a model    *)
(* failure is persisted as one ("persist resumable failure").               *)
NoOrphanRun == \A r \in Runs : status[r] = "RUNNING_MODEL" => Attended(r)
=============================================================================
