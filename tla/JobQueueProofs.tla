--------------------------- MODULE JobQueueProofs ---------------------------
(***************************************************************************)
(* Proofs about JobQueue for any number of jobs, workers and attempts.     *)
(* First the jobs whose handlers never outlive a lease, however the slow   *)
(* ones behave: one worker runs such a job at a time, what it loads at the *)
(* end is still so at its commit, the budget holds and a completed job     *)
(* stays completed.  The code does not keep a handler within its lease,    *)
(* and all of this fails for a slow job.  Then what is left of the budget  *)
(* for every job: an excess attempt needs a late worker that loaded the    *)
(* row while the budget lasted, and each of those was one of the attempts. *)
(***************************************************************************)
EXTENDS JobQueue, FiniteSetTheorems, TLAPS

\* A worker is at a job exactly while it has a handler for it, and has loaded
\* the row when the handler has ended.
LoopOK ==
  \A w \in Workers :
    /\ busy[w] = None <=> handler[w] = "idle"
    /\ handler[w] \in {"returned", "raised"} => loaded[w] \in Rows

\* A row that was not inserted has not been attempted.
FreshRows == \A j \in Jobs : state[j] = "ABSENT" => attempts[j] = 0

\* The expired lease of a prompt job is one that nobody is working under.
NoOverrun ==
  \A j \in Jobs \ Slow : expired[j] => \A w \in Workers : busy[w] # j

\* What was loaded of a prompt job is still so.
LoadedIsNow ==
  \A w \in Workers : busy[w] \in Jobs \ Slow /\ handler[w] \in {"returned", "raised"} =>
    /\ loaded[w].state = "RUNNING" /\ loaded[w].owner = w
    /\ loaded[w].attempts = attempts[busy[w]]

PromptBudget ==
  \A j \in Jobs \ Slow :
    /\ attempts[j] <= MaxAttempts
    /\ state[j] = "AVAILABLE" => attempts[j] < MaxAttempts
    /\ state[j] = "FAILED" => attempts[j] = MaxAttempts

PromptInv ==
  TypeOK /\ LoopOK /\ FreshRows /\ LeaseHeldWhileBusy /\ NoOverrun /\ LoadedIsNow /\ PromptBudget

\* The end of a worker's turn, by the columns it writes.
LEMMA WritesFacts ==
  ASSUME TypeOK, LoopOK, NEW w \in Workers, NEW new \in States,
         handler[w] \in {"returned", "raised"}, Writes(w, new)
  PROVE  /\ busy[w] \in Jobs /\ loaded[w] \in Rows
         /\ state' \in [Jobs -> States] /\ owner' \in [Jobs -> Workers \cup {None}]
         /\ expired' \in [Jobs -> BOOLEAN] /\ busy' \in [Workers -> Jobs \cup {None}]
         /\ handler' \in [Workers -> {"idle", "running", "returned", "raised"}]
         /\ loaded' \in [Workers -> Rows \cup {Unread}] /\ attempts' = attempts
         /\ busy'[w] = None /\ handler'[w] = "idle" /\ loaded'[w] = Unread
         /\ \A v \in Workers : v # w => /\ busy'[v] = busy[v] /\ handler'[v] = handler[v]
                                        /\ loaded'[v] = loaded[v]
         /\ \A j \in Jobs : j # busy[w] =>
              state'[j] = state[j] /\ owner'[j] = owner[j] /\ expired'[j] = expired[j]
         /\ state'[busy[w]] = IF new = loaded[w].state THEN state[busy[w]] ELSE new
         /\ loaded[w].owner # None => owner'[busy[w]] = None /\ expired'[busy[w]] = FALSE
<1>1. busy[w] \in Jobs /\ loaded[w] \in Rows
  BY QueueAssumption DEF TypeOK, LoopOK
<1>2. /\ owner' \in [Jobs -> Workers \cup {None}] /\ expired' \in [Jobs -> BOOLEAN]
      /\ \A j \in Jobs : j # busy[w] => owner'[j] = owner[j] /\ expired'[j] = expired[j]
      /\ loaded[w].owner # None => owner'[busy[w]] = None /\ expired'[busy[w]] = FALSE
  BY <1>1 DEF TypeOK, Writes
<1>3. /\ state' \in [Jobs -> States]
      /\ \A j \in Jobs : j # busy[w] => state'[j] = state[j]
      /\ state'[busy[w]] = IF new = loaded[w].state THEN state[busy[w]] ELSE new
  BY <1>1 DEF TypeOK, Writes
<1>4. QED BY <1>1, <1>2, <1>3 DEF TypeOK, Writes

\* What it does to a prompt job is decided by the attempts it has loaded.
LEMMA TurnEnds ==
  ASSUME PromptInv, NEW w \in Workers, handler[w] \in {"returned", "raised"},
         NEW new \in {"COMPLETED", "FAILED", "AVAILABLE"}, Writes(w, new),
         new = "FAILED" => loaded[w].attempts >= MaxAttempts,
         new = "AVAILABLE" => ~(loaded[w].attempts >= MaxAttempts),
         due' \in [Jobs -> BOOLEAN]
  PROVE  PromptInv'
<1>1. TypeOK /\ LoopOK /\ new \in States
  BY DEF PromptInv, States, Settled
<1>2. /\ busy[w] \in Jobs /\ loaded[w] \in Rows
      /\ state' \in [Jobs -> States] /\ owner' \in [Jobs -> Workers \cup {None}]
      /\ expired' \in [Jobs -> BOOLEAN] /\ busy' \in [Workers -> Jobs \cup {None}]
      /\ handler' \in [Workers -> {"idle", "running", "returned", "raised"}]
      /\ loaded' \in [Workers -> Rows \cup {Unread}] /\ attempts' = attempts
      /\ busy'[w] = None /\ handler'[w] = "idle" /\ loaded'[w] = Unread
  BY <1>1, WritesFacts
<1>3. /\ \A v \in Workers : v # w => /\ busy'[v] = busy[v] /\ handler'[v] = handler[v]
                                     /\ loaded'[v] = loaded[v]
      /\ \A j \in Jobs : j # busy[w] =>
           state'[j] = state[j] /\ owner'[j] = owner[j] /\ expired'[j] = expired[j]
  BY <1>1, WritesFacts
<1>4. /\ state'[busy[w]] = IF new = loaded[w].state THEN state[busy[w]] ELSE new
      /\ loaded[w].owner # None => owner'[busy[w]] = None /\ expired'[busy[w]] = FALSE
  BY <1>1, WritesFacts
<1>5. loaded[w].attempts \in Nat
  BY <1>2 DEF Rows
<1> USE QueueAssumption
<1>6. TypeOK' /\ LoopOK'
  BY <1>2, <1>3 DEF PromptInv, TypeOK, LoopOK
<1>7. busy[w] \notin Slow =>
        /\ state[busy[w]] = "RUNNING" /\ owner[busy[w]] = w
        /\ loaded[w].state = "RUNNING" /\ loaded[w].owner = w
        /\ loaded[w].attempts = attempts[busy[w]]
        /\ state'[busy[w]] = new /\ owner'[busy[w]] = None /\ expired'[busy[w]] = FALSE
        /\ \A v \in Workers : v # w => busy[v] # busy[w]
  BY <1>2, <1>4 DEF PromptInv, LeaseHeldWhileBusy, LoadedIsNow
<1>8. FreshRows'
  BY <1>2, <1>3, <1>4 DEF PromptInv, FreshRows, TypeOK
<1>9. LeaseHeldWhileBusy'
  BY <1>2, <1>3, <1>7 DEF PromptInv, LeaseHeldWhileBusy
<1>10. NoOverrun'
  BY <1>2, <1>3, <1>7 DEF PromptInv, NoOverrun
<1>11. LoadedIsNow'
  BY <1>2, <1>3, <1>7 DEF PromptInv, LoadedIsNow
<1>12. PromptBudget'
  BY <1>2, <1>3, <1>5, <1>7 DEF PromptInv, PromptBudget, TypeOK
<1>13. QED BY <1>6, <1>8, <1>9, <1>10, <1>11, <1>12 DEF PromptInv

LEMMA PromptStep == PromptInv /\ [Next]_vars => PromptInv'
<1> SUFFICES ASSUME PromptInv, [Next]_vars PROVE PromptInv'
  OBVIOUS
<1> USE QueueAssumption DEF PromptInv, TypeOK, LoopOK, FreshRows, LeaseHeldWhileBusy, NoOverrun,
        LoadedIsNow, PromptBudget, Settled, States
<1>1. ASSUME NEW j \in Jobs, Enqueue(j) PROVE PromptInv'
  BY <1>1 DEF Enqueue
<1>2. ASSUME NEW j \in Jobs, LeaseExpires(j) PROVE PromptInv'
  BY <1>2 DEF LeaseExpires
<1>3. ASSUME NEW j \in Jobs, BackoffPasses(j) PROVE PromptInv'
  BY <1>3 DEF BackoffPasses
<1>4. ASSUME NEW w \in Workers, NEW j \in Jobs, TakeJob(w, j) PROVE PromptInv'
  BY <1>4 DEF TakeJob
<1>5. ASSUME NEW w \in Workers, NEW j \in Jobs, Recover(w, j) PROVE PromptInv'
  BY <1>5 DEF Recover
<1>6. ASSUME NEW w \in Workers, NEW how \in {"returned", "raised"}, HandlerEnds(w, how)
      PROVE  PromptInv'
  <2>1. busy[w] \in Jobs
    BY <1>6 DEF HandlerEnds
  <2>2. PICK row : row = [state |-> state[busy[w]], owner |-> owner[busy[w]], attempts |-> attempts[busy[w]]]
    OBVIOUS
  <2>3. /\ row \in Rows /\ row.state = state[busy[w]] /\ row.owner = owner[busy[w]]
        /\ row.attempts = attempts[busy[w]]
    BY <2>1, <2>2 DEF Rows
  <2>4. loaded' = [loaded EXCEPT ![w] = row]
    BY <1>6, <2>2 DEF HandlerEnds
  <2>5. QED BY <1>6, <2>1, <2>3, <2>4 DEF HandlerEnds
<1>7. ASSUME NEW w \in Workers, Complete(w) PROVE PromptInv'
  <2>1. TypeOK /\ LoopOK /\ handler[w] \in {"returned", "raised"} /\ Writes(w, "COMPLETED") /\ due' = due
    BY <1>7 DEF Complete
  <2>2. QED BY <2>1, TurnEnds
<1>8. ASSUME NEW w \in Workers, Fail(w) PROVE PromptInv'
  <2>1. /\ TypeOK /\ LoopOK /\ handler[w] \in {"returned", "raised"} /\ due' \in [Jobs -> BOOLEAN]
        /\ \/ loaded[w].attempts >= MaxAttempts /\ Writes(w, "FAILED")
           \/ ~(loaded[w].attempts >= MaxAttempts) /\ Writes(w, "AVAILABLE")
    <3>1. CASE loaded[w].attempts >= MaxAttempts
      BY <1>8, <3>1 DEF Fail
    <3>2. CASE ~(loaded[w].attempts >= MaxAttempts)
      <4>1. Writes(w, "AVAILABLE") /\ due' = [due EXCEPT ![busy[w]] = FALSE]
        BY <1>8, <3>2 DEF Fail
      <4>2. due' \in [Jobs -> BOOLEAN]
        BY <4>1, Zenon
      <4>3. QED BY <1>8, <3>2, <4>1, <4>2 DEF Fail
    <3>3. QED BY <3>1, <3>2
  <2>2. QED BY <2>1, TurnEnds
<1>9. ASSUME NEW w \in Workers, Crash(w) PROVE PromptInv'
  BY <1>9 DEF Crash
<1>10. CASE UNCHANGED vars
  BY <1>10 DEF vars
<1>11. QED
  BY <1>1, <1>2, <1>3, <1>4, <1>5, <1>6, <1>7, <1>8, <1>9, <1>10 DEF Next

(* What a prompt job's worker knows of it stays true to the end.           *)
THEOREM PromptInvariant == Spec => []PromptInv
<1>1. Init => PromptInv
  BY QueueAssumption
  DEF Init, PromptInv, TypeOK, LoopOK, FreshRows, LeaseHeldWhileBusy, NoOverrun, LoadedIsNow,
      PromptBudget, Settled, States, Rows
<1>2. QED BY <1>1, PromptStep, PTL DEF Spec

(* The lease protects every job whose handler stays within it: whoever     *)
(* runs it owns it, so there is one runner at a time.                      *)
THEOREM PromptLeases == Spec => [](LeaseHeldWhileBusy /\ SingleExecutor)
<1>1. PromptInv => LeaseHeldWhileBusy /\ SingleExecutor
  BY QueueAssumption DEF PromptInv, TypeOK, LeaseHeldWhileBusy, SingleExecutor
<1>2. QED BY <1>1, PromptInvariant, PTL

(* Such a job, once completed, is never reopened, so its handler's side    *)
(* effects are not repeated (main.py:92-98, :148-160).                     *)
THEOREM PromptCompletion == Spec => CompletedIsFinal
<1>1. ASSUME PromptInv, [Next]_vars, NEW j \in Jobs \ Slow, state[j] = "COMPLETED"
      PROVE  state'[j] = "COMPLETED"
  <2> USE DEF PromptInv, TypeOK, LeaseHeldWhileBusy
  <2>1. ASSUME NEW w \in Workers, Complete(w) \/ Fail(w) PROVE state'[j] = "COMPLETED"
    <3>1. busy[w] \in Jobs /\ busy[w] # j
      BY <1>1, <2>1, QueueAssumption DEF LoopOK, Complete, Fail
    <3>2. QED BY <1>1, <2>1, <3>1 DEF Complete, Fail, Writes
  <2>2. ASSUME NEW w \in Workers,
               \/ \E i \in Jobs : TakeJob(w, i) \/ Recover(w, i)
               \/ \E how \in {"returned", "raised"} : HandlerEnds(w, how)
               \/ Crash(w)
        PROVE  state'[j] = "COMPLETED"
    BY <1>1, <2>2 DEF TakeJob, Recover, HandlerEnds, Crash
  <2>3. ASSUME NEW i \in Jobs, Enqueue(i) \/ LeaseExpires(i) \/ BackoffPasses(i)
        PROVE  state'[j] = "COMPLETED"
    BY <1>1, <2>3 DEF Enqueue, LeaseExpires, BackoffPasses
  <2>4. CASE UNCHANGED vars
    BY <1>1, <2>4 DEF vars
  <2>5. QED BY <1>1, <2>1, <2>2, <2>3, <2>4 DEF Next
<1>2. PromptInv /\ [Next]_vars =>
        [\A j \in Jobs \ Slow : state[j] = "COMPLETED" => state'[j] = "COMPLETED"]_vars
  <2>1. PromptInv /\ [Next]_vars =>
          \A j \in Jobs \ Slow : state[j] = "COMPLETED" => state'[j] = "COMPLETED"
    BY <1>1
  <2>2. QED BY <2>1
<1>3. QED BY <1>2, PromptInvariant, PTL DEF Spec, CompletedIsFinal

-----------------------------------------------------------------------------
\* The workers at a job, and those of them that will put it back because of
\* the attempts they have loaded.
At(j) == {w \in Workers : busy[w] = j}
Late(j) == {w \in At(j) : handler[w] = "raised" /\ loaded[w].attempts < MaxAttempts}
Waiting(j) == IF state[j] = "AVAILABLE" THEN 1 ELSE 0

\* Each worker at a job was started by an attempt of its own; over the budget,
\* the attempts still to come are those of the late workers and one that waits.
Excess ==
  \A j \in Jobs :
    /\ Cardinality(At(j)) <= attempts[j]
    /\ attempts[j] >= MaxAttempts =>
         attempts[j] + Cardinality(Late(j)) + Waiting(j) < 2 * MaxAttempts

LEMMA AtFinite ==
  \A j : IsFiniteSet(At(j)) /\ IsFiniteSet(Late(j)) /\ Late(j) \subseteq At(j)
         /\ Cardinality(At(j)) \in Nat /\ Cardinality(Late(j)) \in Nat
         /\ Cardinality(Late(j)) <= Cardinality(At(j))
<1> TAKE j
<1>1. IsFiniteSet(At(j)) /\ Late(j) \subseteq At(j)
  BY QueueAssumption, FS_Subset DEF At, Late
<1>2. QED BY <1>1, FS_Subset, FS_CardinalityType

\* The sets of the next state are finite and ordered in the same way.
LEMMA AtFiniteNext ==
  \A j : IsFiniteSet(At(j)') /\ IsFiniteSet(Late(j)') /\ Late(j)' \subseteq At(j)'
         /\ Cardinality(At(j)') \in Nat /\ Cardinality(Late(j)') \in Nat
         /\ Cardinality(Late(j)') <= Cardinality(At(j)')
<1> TAKE j
<1>1. IsFiniteSet(At(j)') /\ Late(j)' \subseteq At(j)'
  BY QueueAssumption, FS_Subset DEF At, Late
<1>2. QED BY <1>1, FS_Subset, FS_CardinalityType

\* No step but taking a job adds a worker to it, and no step makes a worker
\* late once the attempts are used up.
LEMMA ExcessKept ==
  ASSUME TypeOK, Excess, NEW j \in Jobs, attempts'[j] = attempts[j],
         At(j)' \subseteq At(j),
         attempts[j] >= MaxAttempts => Late(j)' \subseteq Late(j),
         attempts[j] >= MaxAttempts =>
           \/ Waiting(j)' <= Waiting(j)
           \/ \E w \in Late(j) : w \notin Late(j)'
  PROVE  /\ Cardinality(At(j)') <= attempts'[j]
         /\ attempts'[j] >= MaxAttempts =>
              attempts'[j] + Cardinality(Late(j)') + Waiting(j)' < 2 * MaxAttempts
<1> USE QueueAssumption
<1>1. /\ IsFiniteSet(At(j)) /\ IsFiniteSet(Late(j)) /\ Cardinality(Late(j)) \in Nat
      /\ Cardinality(At(j)) \in Nat /\ attempts[j] \in Nat
  BY AtFinite DEF TypeOK
<1>2. Cardinality(At(j)') \in Nat /\ Cardinality(Late(j)') \in Nat
  BY AtFiniteNext
<1>3. Cardinality(At(j)') <= Cardinality(At(j))
  BY <1>1, FS_Subset
<1>4. Waiting(j) \in {0, 1} /\ Waiting(j)' \in {0, 1}
  BY DEF Waiting
<1>5. ASSUME attempts[j] >= MaxAttempts
      PROVE  attempts[j] + Cardinality(Late(j)') + Waiting(j)' < 2 * MaxAttempts
  <2>1. Cardinality(Late(j)') <= Cardinality(Late(j))
    BY <1>1, <1>5, FS_Subset
  <2>2. attempts[j] + Cardinality(Late(j)) + Waiting(j) < 2 * MaxAttempts
    BY <1>5 DEF Excess
  <2>3. CASE Waiting(j)' <= Waiting(j)
    BY <1>1, <1>2, <1>4, <2>1, <2>2, <2>3
  <2>4. ASSUME NEW w \in Late(j), w \notin Late(j)'
        PROVE  attempts[j] + Cardinality(Late(j)') + Waiting(j)' < 2 * MaxAttempts
    <3>1. Late(j)' \subseteq Late(j) \ {w}
      BY <1>5, <2>4
    <3>2. IsFiniteSet(Late(j) \ {w}) /\ Cardinality(Late(j) \ {w}) = Cardinality(Late(j)) - 1
      BY <1>1, <2>4, FS_RemoveElement
    <3>3. Cardinality(Late(j)') <= Cardinality(Late(j) \ {w})
      BY <3>1, <3>2, FS_Subset
    <3>4. QED BY <1>1, <1>2, <1>4, <2>2, <3>2, <3>3
  <2>5. QED BY <1>5, <2>3, <2>4
<1>6. QED BY <1>1, <1>2, <1>3, <1>5 DEF Excess

\* The worker leaves its job, nobody else moves, and the job is open again
\* only if the worker meant it to be.
LEMMA TurnLeaves ==
  ASSUME TypeOK, LoopOK, NEW w \in Workers, NEW new \in States, NEW j \in Jobs,
         handler[w] \in {"returned", "raised"}, Writes(w, new)
  PROVE  /\ attempts' = attempts /\ busy[w] \in Jobs /\ loaded[w] \in Rows
         /\ At(j)' \subseteq At(j) /\ Late(j)' \subseteq Late(j) /\ w \notin Late(j)'
         /\ state'[j] = "AVAILABLE" =>
              state[j] = "AVAILABLE" \/ (busy[w] = j /\ new = "AVAILABLE")
<1>1. /\ busy[w] \in Jobs /\ loaded[w] \in Rows /\ attempts' = attempts
      /\ busy'[w] = None /\ handler'[w] = "idle" /\ loaded'[w] = Unread
  BY WritesFacts
<1>2. \A v \in Workers : v # w => /\ busy'[v] = busy[v] /\ handler'[v] = handler[v]
                                  /\ loaded'[v] = loaded[v]
  BY WritesFacts
<1>3. \A i \in Jobs : i # busy[w] => state'[i] = state[i]
  BY WritesFacts
<1>4. state'[busy[w]] = IF new = loaded[w].state THEN state[busy[w]] ELSE new
  BY WritesFacts
<1>5. At(j)' \subseteq At(j) \ {w}
  BY <1>1, <1>2, QueueAssumption DEF At
<1>6. Late(j)' \subseteq Late(j) /\ w \notin Late(j)'
  BY <1>1, <1>2, <1>5 DEF At, Late
<1>7. state'[j] = "AVAILABLE" => state[j] = "AVAILABLE" \/ (busy[w] = j /\ new = "AVAILABLE")
  BY <1>1, <1>3, <1>4
<1>8. QED BY <1>1, <1>5, <1>6, <1>7

LEMMA ExcessStep == PromptInv /\ Excess /\ [Next]_vars => Excess'
<1> SUFFICES ASSUME PromptInv, Excess, [Next]_vars, NEW j \in Jobs
             PROVE  (/\ Cardinality(At(j)) <= attempts[j]
                     /\ attempts[j] >= MaxAttempts =>
                          attempts[j] + Cardinality(Late(j)) + Waiting(j) < 2 * MaxAttempts)'
  BY DEF Excess
<1> DEFINE Goal == (/\ Cardinality(At(j)) <= attempts[j]
                    /\ attempts[j] >= MaxAttempts =>
                         attempts[j] + Cardinality(Late(j)) + Waiting(j) < 2 * MaxAttempts)'
<1>0. TypeOK /\ LoopOK /\ FreshRows
  BY DEF PromptInv
<1> USE QueueAssumption, <1>0
<1>1. ASSUME attempts' = attempts, At(j)' \subseteq At(j),
             attempts[j] >= MaxAttempts => Late(j)' \subseteq Late(j),
             attempts[j] >= MaxAttempts =>
               \/ Waiting(j)' <= Waiting(j)
               \/ \E w \in Late(j) : w \notin Late(j)'
      PROVE  Goal
  BY <1>1, ExcessKept
<1>2. ASSUME NEW i \in Jobs, Enqueue(i) \/ LeaseExpires(i) \/ BackoffPasses(i) PROVE Goal
  <2>1. attempts' = attempts /\ At(j)' = At(j) /\ Late(j)' = Late(j)
    BY <1>2 DEF Enqueue, LeaseExpires, BackoffPasses, At, Late
  <2>2. attempts[j] >= MaxAttempts /\ state'[j] = "AVAILABLE" => state[j] = "AVAILABLE"
    BY <1>2 DEF Enqueue, LeaseExpires, BackoffPasses, TypeOK, FreshRows
  <2>3. attempts[j] >= MaxAttempts => Waiting(j)' <= Waiting(j)
    BY <2>2 DEF Waiting
  <2>4. QED BY <1>1, <2>1, <2>3
<1>3. ASSUME NEW w \in Workers, NEW i \in Jobs, TakeJob(w, i) PROVE Goal
  <2>1. CASE i # j
    <3>1. attempts'[j] = attempts[j] /\ At(j)' = At(j) /\ Late(j)' = Late(j) /\ state'[j] = state[j]
      BY <1>3, <2>1 DEF TakeJob, TypeOK, At, Late
    <3>2. Waiting(j)' = Waiting(j) /\ Waiting(j) \in {0, 1}
      BY <3>1 DEF Waiting
    <3>3. QED BY <3>1, <3>2, ExcessKept
  <2>2. CASE i = j
    <3>1. /\ attempts'[j] = attempts[j] + 1 /\ attempts[j] \in Nat
          /\ state[j] = "AVAILABLE" /\ state'[j] = "RUNNING"
      BY <1>3, <2>2 DEF TakeJob, TypeOK
    <3>2. At(j)' = At(j) \cup {w} /\ w \notin At(j) /\ Late(j)' = Late(j)
      BY <1>3, <2>2 DEF TakeJob, TypeOK, At, Late
    <3>3. /\ IsFiniteSet(At(j)) /\ Cardinality(At(j)) \in Nat /\ Cardinality(Late(j)) \in Nat
          /\ Cardinality(Late(j)) <= Cardinality(At(j))
      BY AtFinite
    <3>4. Cardinality(At(j)') = Cardinality(At(j)) + 1
      BY <3>2, <3>3, FS_AddElement
    <3>5. Waiting(j) = 1 /\ Waiting(j)' = 0
      BY <3>1 DEF Waiting
    <3>6. /\ Cardinality(At(j)) <= attempts[j]
          /\ attempts[j] >= MaxAttempts =>
               attempts[j] + Cardinality(Late(j)) + Waiting(j) < 2 * MaxAttempts
      BY DEF Excess
    <3>7. QED BY <3>1, <3>2, <3>3, <3>4, <3>5, <3>6
  <2>3. QED BY <2>1, <2>2
<1>4. ASSUME NEW w \in Workers, NEW i \in Jobs, Recover(w, i) PROVE Goal
  <2>1. attempts' = attempts /\ At(j)' = At(j) /\ Late(j)' = Late(j)
    BY <1>4 DEF Recover, At, Late
  <2>2. attempts[j] >= MaxAttempts /\ state'[j] = "AVAILABLE" => state[j] = "AVAILABLE"
    BY <1>4 DEF Recover, TypeOK
  <2>3. attempts[j] >= MaxAttempts => Waiting(j)' <= Waiting(j)
    BY <2>2 DEF Waiting
  <2>4. QED BY <1>1, <2>1, <2>3
<1>5. ASSUME NEW w \in Workers, NEW how \in {"returned", "raised"}, HandlerEnds(w, how)
      PROVE  Goal
  <2>1. attempts' = attempts /\ At(j)' = At(j) /\ Waiting(j)' = Waiting(j) /\ Waiting(j) \in {0, 1}
    BY <1>5 DEF HandlerEnds, At, Waiting
  <2>2. busy[w] \in Jobs
    BY <1>5 DEF HandlerEnds, LoopOK, TypeOK
  <2>3. /\ loaded'[w].attempts = attempts[busy[w]]
        /\ \A v \in Workers : v # w => loaded'[v] = loaded[v] /\ handler'[v] = handler[v]
    BY <1>5 DEF HandlerEnds, TypeOK
  <2>4. attempts[j] >= MaxAttempts => Late(j)' \subseteq Late(j)
    BY <1>5, <2>1, <2>2, <2>3 DEF HandlerEnds, TypeOK, At, Late
  <2>5. QED BY <1>1, <2>1, <2>4
<1>6. ASSUME NEW w \in Workers, Complete(w) PROVE Goal
  <2>1. handler[w] \in {"returned", "raised"} /\ Writes(w, "COMPLETED") /\ "COMPLETED" \in States
    BY <1>6 DEF Complete, States, Settled
  <2>3. attempts' = attempts /\ At(j)' \subseteq At(j) /\ Late(j)' \subseteq Late(j)
    BY <2>1, TurnLeaves
  <2>4. state'[j] = "AVAILABLE" => state[j] = "AVAILABLE"
    BY <2>1, TurnLeaves
  <2>5. Waiting(j)' <= Waiting(j)
    BY <2>4 DEF Waiting
  <2>6. QED BY <1>1, <2>3, <2>5
<1>7. ASSUME NEW w \in Workers, Fail(w) PROVE Goal
  <2>1. PICK new \in {"FAILED", "AVAILABLE"} :
          /\ Writes(w, new) /\ new \in States
          /\ new = "AVAILABLE" => ~(loaded[w].attempts >= MaxAttempts)
    BY <1>7 DEF Fail, States, Settled
  <2>2. handler[w] = "raised"
    BY <1>7 DEF Fail
  <2>3. attempts' = attempts /\ At(j)' \subseteq At(j) /\ Late(j)' \subseteq Late(j)
        /\ w \notin Late(j)' /\ busy[w] \in Jobs /\ loaded[w] \in Rows
    BY <2>1, <2>2, TurnLeaves
  <2>4. loaded[w].attempts \in Nat
    BY <2>3 DEF Rows
  <2>5. state'[j] = "AVAILABLE" => state[j] = "AVAILABLE" \/ (busy[w] = j /\ new = "AVAILABLE")
    BY <2>1, <2>2, TurnLeaves
  <2>6. busy[w] = j /\ new = "AVAILABLE" => w \in Late(j)
    BY <2>1, <2>2, <2>4 DEF At, Late
  <2>7. Waiting(j)' <= Waiting(j) \/ (busy[w] = j /\ new = "AVAILABLE")
    BY <2>5 DEF Waiting
  <2>8. QED BY <1>1, <2>3, <2>6, <2>7
<1>8. ASSUME NEW w \in Workers, Crash(w) PROVE Goal
  <2>1. attempts' = attempts /\ Waiting(j)' = Waiting(j) /\ Waiting(j) \in {0, 1}
    BY <1>8 DEF Crash, Waiting
  <2>2. At(j)' \subseteq At(j) /\ Late(j)' \subseteq Late(j)
    BY <1>8 DEF Crash, TypeOK, At, Late
  <2>3. QED BY <1>1, <2>1, <2>2
<1>9. CASE UNCHANGED vars
  <2>1. attempts' = attempts /\ At(j)' = At(j) /\ Late(j)' = Late(j) /\ Waiting(j)' = Waiting(j)
        /\ Waiting(j) \in {0, 1}
    BY <1>9 DEF vars, At, Late, Waiting
  <2>2. QED BY <1>1, <2>1
<1>10. QED
  BY <1>2, <1>3, <1>4, <1>5, <1>6, <1>7, <1>8, <1>9 DEF Next

(* The retry budget with what is left of it for a slow job: such a job is  *)
(* started more than MaxAttempts times only through late workers that      *)
(* loaded the row before the budget was used up (_fail, main.py:148-160),  *)
(* and there are fewer than MaxAttempts of those.                          *)
THEOREM RetriesBounded == Spec => []RetryBudget
<1>1. Init => Excess
  <2> SUFFICES ASSUME Init, NEW j \in Jobs
               PROVE  Cardinality(At(j)) <= attempts[j] /\ ~(attempts[j] >= MaxAttempts)
    BY DEF Excess
  <2>1. At(j) = {} /\ attempts[j] = 0
    BY QueueAssumption DEF Init, At
  <2>2. QED BY <2>1, FS_EmptySet, QueueAssumption
<1>2. PromptInv /\ Excess => RetryBudget
  <2> SUFFICES ASSUME PromptInv, Excess, NEW j \in Jobs PROVE attempts[j] < 2 * MaxAttempts
    BY DEF PromptInv, PromptBudget, RetryBudget
  <2>1. /\ attempts[j] \in Nat /\ Cardinality(Late(j)) \in Nat /\ Waiting(j) \in {0, 1}
        /\ MaxAttempts \in Nat \ {0}
    BY AtFinite, QueueAssumption DEF PromptInv, TypeOK, Waiting
  <2>2. attempts[j] >= MaxAttempts => attempts[j] + Cardinality(Late(j)) + Waiting(j) < 2 * MaxAttempts
    BY DEF Excess
  <2>3. QED BY <2>1, <2>2
<1>3. QED BY <1>1, <1>2, ExcessStep, PromptInvariant, PTL DEF Spec
=============================================================================
