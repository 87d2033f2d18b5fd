--------------------------- MODULE AgentRunProofs ---------------------------
(***************************************************************************)
(* Proofs about AgentRun for any number of runs, calls, workers and        *)
(* attempts, crashes included.                                             *)
(***************************************************************************)
EXTENDS AgentRun, FiniteSetTheorems, FunctionTheorems, TLAPS

(* What a handler holds while it runs. *)
HandlerOK ==
    \A w \in Workers :
        /\ pc[w] = "idle" => call[w] = None
        /\ pc[w] # "idle" => run[w] \in Runs /\ status[run[w]] # "NONE"
        /\ pc[w] \in {"markRead", "markWrite"} => target[w] # None
        /\ pc[w] \in {"broker", "continue"} => call[w] # None
        /\ call[w] # None => callOf[call[w]] = run[w] /\ verdict[call[w]] = "APPROVED"

(* Work exists only for a run that was submitted, and a resumption only    *)
(* for a call that was escalated and approved.                             *)
WorkOK ==
    /\ \A r \in Runs : runJob[r] > 0 => status[r] # "NONE"
    /\ \A c \in Calls :
        /\ callOf[c] # None => status[callOf[c]] # "NONE"
        /\ enqueued[c] # "NO" \/ resumeJob[c] > 0 => verdict[c] = "APPROVED"
        /\ verdict[c] # "PENDING" => callOf[c] # None
        /\ executed[c] => verdict[c] = "APPROVED"

Live(w) == pc[w] \in {"continue", "model", "complete"}
LiveAt(r) == {w \in Workers : Live(w) /\ run[w] = r}
OpenCalls(r) == {c \in Calls : callOf[c] = r /\ ~executed[c]}
Free(r) == IF prepared[r] THEN 0 ELSE 1

(* The rights to answer for a run.  There is one to begin with, and a turn  *)
(* that escalates k calls turns the one it holds into k.  Each lies with    *)
(* the step row that is still free, with a handler, with a call that has    *)
(* not run, or with an answer.                                              *)
Tokens ==
    \A r \in Runs :
        Cardinality(LiveAt(r)) + Cardinality(OpenCalls(r)) + Cardinality(Answers(r)) + Free(r)
            <= 1 + extra[r]

(* The events of a run are numbered 1, 2, ... without a gap or a repeat;   *)
(* a handler that is about to write one has counted some of them.          *)
EventsOK ==
    \A r \in Runs :
        /\ LastSequence(r) \in Nat /\ EventNumbers(r) = 1..LastSequence(r)
        /\ \A e, f \in events[r] : e.sequence = f.sequence => e = f
        /\ status[r] = "NONE" => events[r] = {}
        /\ \A w \in Workers : pc[w] = "markWrite" /\ run[w] = r => seen[w].last <= LastSequence(r)

CursorOK ==
    \A r \in Runs :
        /\ stream[r].last <= LastSequence(r)
        /\ stream[r].got = [i \in 1..stream[r].last |-> i]
        /\ stream[r].polled =>
             \E m \in Nat : /\ stream[r].last <= m /\ m <= LastSequence(r)
                            /\ stream[r].batch = (stream[r].last + 1)..m

Base == TypeOK /\ HandlerOK /\ WorkOK /\ EventsOK /\ CursorOK

USE RunAssumption DEF rowVars, jobVars, callVars, handlerVars, clientVars

-----------------------------------------------------------------------------
(* What the helpers of the handlers do, said once. *)

LEMMA EndedShape ==
    ASSUME TypeOK, NEW w \in Workers, Ended(w)
    PROVE  /\ pc' \in [Workers -> Steps] /\ run' \in [Workers -> Runs \cup {None}]
           /\ call' \in [Workers -> Calls \cup {None}]
           /\ target' \in [Workers -> {"WAITING_APPROVAL", "FAILED", None}]
           /\ seen' \in [Workers -> [status : Statuses, last : Nat]]
           /\ pc'[w] = "idle" /\ call'[w] = None
           /\ \A v \in Workers : v # w =>
                /\ pc'[v] = pc[v] /\ run'[v] = run[v] /\ call'[v] = call[v]
                /\ target'[v] = target[v] /\ seen'[v] = seen[v]
<1>1. NotSeen \in [status : Statuses, last : Nat]
  BY DEF NotSeen, Statuses
<1>2. QED BY <1>1 DEF TypeOK, Ended, Goto, Steps

LEMMA ToMarkShape ==
    ASSUME TypeOK, NEW w \in Workers, NEW t \in {"WAITING_APPROVAL", "FAILED"}, ToMark(w, t)
    PROVE  /\ pc' \in [Workers -> Steps]
           /\ target' \in [Workers -> {"WAITING_APPROVAL", "FAILED", None}]
           /\ pc'[w] = "markRead" /\ target'[w] # None
           /\ UNCHANGED <<run, call, seen>>
           /\ \A v \in Workers : v # w => pc'[v] = pc[v] /\ target'[v] = target[v]
  BY DEF TypeOK, ToMark, Goto, Steps

LEMMA GotoShape ==
    ASSUME TypeOK, NEW w \in Workers, NEW s \in Steps, Goto(w, s)
    PROVE  /\ pc' \in [Workers -> Steps] /\ pc'[w] = s
           /\ \A v \in Workers : v # w => pc'[v] = pc[v]
  BY DEF TypeOK, Goto

(* The largest of a run of numbers that starts after n. *)
LEMMA GreatestOfInterval ==
    ASSUME NEW n \in Nat, NEW m \in Nat, n <= m
    PROVE  Greatest((n + 1)..m, n) = m
<1>1. CASE n = m
  BY <1>1 DEF Greatest
<1>2. CASE n < m
  <2>0. m \in (n + 1)..m /\ \A k \in (n + 1)..m : k <= m
    BY <1>2
  <2>1. (n + 1)..m # {} /\ m \in (n + 1)..m /\ \A k \in (n + 1)..m : k <= m
    BY <2>0
  <2> DEFINE g == CHOOSE x \in (n + 1)..m : \A k \in (n + 1)..m : k <= x
  <2>2. g \in (n + 1)..m /\ \A k \in (n + 1)..m : k <= g
    BY <2>1
  <2>3. g = m
    BY <2>1, <2>2
  <2>4. QED BY <2>1, <2>3 DEF Greatest
<1>3. QED BY <1>1, <1>2

LEMMA LastIs ==
    ASSUME NEW r \in Runs, NEW n \in Nat, EventNumbers(r) = 1..n
    PROVE  LastSequence(r) = n
<1>1. Greatest((0 + 1)..n, 0) = n
  BY GreatestOfInterval
<1>2. QED BY <1>1 DEF LastSequence

(* Ascending lists the numbers n + 1, ..., m in order. *)
LEMMA AscendingInterval ==
    ASSUME NEW n \in Nat, NEW m \in Nat, n <= m
    PROVE  Ascending((n + 1)..m) = [i \in 1..(m - n) |-> n + i]
<1> DEFINE S == (n + 1)..m
<1>1. Cardinality(S) = m - n
  <2>1. n + 1 \in Int /\ m \in Int
    OBVIOUS
  <2>2. Cardinality(S) = IF n + 1 > m THEN 0 ELSE m - (n + 1) + 1
    BY <2>1, FS_Interval
  <2>3. QED BY <2>2
<1>2. \A k \in S : Cardinality({x \in S : x < k}) = k - (n + 1)
  <2> SUFFICES ASSUME NEW k \in S PROVE Cardinality({x \in S : x < k}) = k - (n + 1)
    OBVIOUS
  <2>1. {x \in S : x < k} = (n + 1)..(k - 1)
    OBVIOUS
  <2>2. n + 1 \in Int /\ k - 1 \in Int /\ k >= n + 1
    OBVIOUS
  <2>3. Cardinality((n + 1)..(k - 1)) =
          IF n + 1 > k - 1 THEN 0 ELSE (k - 1) - (n + 1) + 1
    BY <2>2, FS_Interval
  <2>4. Cardinality((n + 1)..(k - 1)) = k - (n + 1)
    BY <2>2, <2>3
  <2> HIDE DEF S
  <2>5. QED BY <2>1, <2>4, Zenon
<1>3. \A i \in 1..(m - n) : (CHOOSE k \in S : Cardinality({x \in S : x < k}) = i - 1) = n + i
  <2> SUFFICES ASSUME NEW i \in 1..(m - n)
               PROVE  (CHOOSE k \in S : Cardinality({x \in S : x < k}) = i - 1) = n + i
    OBVIOUS
  <2>1. n + i \in S /\ Cardinality({x \in S : x < n + i}) = i - 1
    BY <1>2
  <2>2. \A k \in S : Cardinality({x \in S : x < k}) = i - 1 => k = n + i
    BY <1>2
  <2> HIDE DEF S
  <2>3. QED BY <2>1, <2>2
<1>4. QED BY <1>1, <1>3 DEF Ascending

(* One more event with the next number. *)
LEMMA EventAdded ==
    ASSUME TypeOK, EventsOK, NEW r \in Runs, NEW t \in Statuses,
           events' = [events EXCEPT ![r] = @ \cup {[sequence |-> LastSequence(r) + 1, status |-> t]}]
    PROVE  /\ events' \in [Runs -> SUBSET [sequence : Nat \ {0}, status : Statuses]]
           /\ LastSequence(r)' = LastSequence(r) + 1
           /\ EventNumbers(r)' = 1..(LastSequence(r) + 1)
           /\ \A e, f \in events'[r] : e.sequence = f.sequence => e = f
           /\ \A q \in Runs : q # r => events'[q] = events[q] /\ LastSequence(q)' = LastSequence(q)
                                       /\ EventNumbers(q)' = EventNumbers(q)
<1> DEFINE n == LastSequence(r)
           e1 == [sequence |-> n + 1, status |-> t]
<1>1. n \in Nat /\ EventNumbers(r) = 1..n
  BY DEF EventsOK
<1>2. e1 \in [sequence : Nat \ {0}, status : Statuses] /\ e1.sequence = n + 1
  BY <1>1
<1>3. events'[r] = events[r] \cup {e1} /\ \A q \in Runs : q # r => events'[q] = events[q]
  BY DEF TypeOK
<1>4. events' \in [Runs -> SUBSET [sequence : Nat \ {0}, status : Statuses]]
  BY <1>2 DEF TypeOK
<1>5. EventNumbers(r)' = EventNumbers(r) \cup {n + 1}
  BY <1>2, <1>3 DEF EventNumbers
<1>6. EventNumbers(r)' = 1..(n + 1)
  BY <1>1, <1>5
<1>7. LastSequence(r)' = n + 1
  <2>1. Greatest((0 + 1)..(n + 1), 0) = n + 1
    BY <1>1, GreatestOfInterval
  <2>2. QED BY <1>6, <2>1 DEF LastSequence
<1>8. \A e \in events[r] : e.sequence # n + 1
  <2>1. \A e \in events[r] : e.sequence \in EventNumbers(r)
    BY DEF EventNumbers
  <2>2. QED BY <1>1, <2>1
<1>9. \A e, f \in events'[r] : e.sequence = f.sequence => e = f
  BY <1>2, <1>3, <1>8 DEF EventsOK
<1>10. \A q \in Runs : q # r => EventNumbers(q)' = EventNumbers(q) /\ LastSequence(q)' = LastSequence(q)
  BY <1>3 DEF EventNumbers, LastSequence
<1>11. QED BY <1>3, <1>4, <1>6, <1>7, <1>9, <1>10

(* A step that adds no event and starts no write keeps the numbering. *)
LEMMA EventsFrame ==
    ASSUME TypeOK, EventsOK, UNCHANGED events,
           \A r \in Runs : status'[r] = "NONE" => status[r] = "NONE",
           \A w \in Workers : pc'[w] = "markWrite" =>
               pc[w] = "markWrite" /\ run'[w] = run[w] /\ seen'[w] = seen[w]
    PROVE  EventsOK'
  BY DEF EventsOK, LastSequence, EventNumbers

LEMMA CursorFrame ==
    ASSUME TypeOK, CursorOK, UNCHANGED stream,
           \A r \in Runs : LastSequence(r) \in Nat /\ LastSequence(r)' \in Nat
                           /\ LastSequence(r) <= LastSequence(r)'
    PROVE  CursorOK'
<1> SUFFICES ASSUME NEW r \in Runs
             PROVE  /\ stream[r].last <= LastSequence(r)'
                    /\ stream[r].got = [i \in 1..stream[r].last |-> i]
                    /\ stream[r].polled =>
                         \E m \in Nat : /\ stream[r].last <= m /\ m <= LastSequence(r)'
                                        /\ stream[r].batch = (stream[r].last + 1)..m
  BY DEF CursorOK
<1>1. stream[r].last \in Nat
  BY DEF TypeOK
<1>2. QED BY <1>1 DEF CursorOK

LEMMA StillCursor ==
    ASSUME Base, UNCHANGED <<events, stream>>
    PROVE  CursorOK'
<1>1. \A r \in Runs : LastSequence(r) \in Nat /\ LastSequence(r)' = LastSequence(r)
  BY DEF Base, EventsOK, LastSequence, EventNumbers
<1>2. QED BY <1>1, CursorFrame DEF Base

LEMMA BaseInit == Init => Base
<1> SUFFICES ASSUME Init PROVE Base
  OBVIOUS
<1>1. TypeOK
  BY DEF Init, TypeOK, Statuses, Steps, NotSeen, NewStream
<1>2. HandlerOK /\ WorkOK
  BY DEF Init, HandlerOK, WorkOK
<1>3. \A r \in Runs : EventNumbers(r) = {} /\ LastSequence(r) = 0
  BY DEF Init, EventNumbers, LastSequence, Greatest
<1>4. EventsOK
  <2>1. 1..0 = {}
    OBVIOUS
  <2>2. \A r \in Runs : LastSequence(r) \in Nat /\ EventNumbers(r) = 1..LastSequence(r)
    <3> SUFFICES ASSUME NEW r \in Runs
                 PROVE  LastSequence(r) \in Nat /\ EventNumbers(r) = 1..LastSequence(r)
      OBVIOUS
    <3>1. EventNumbers(r) = {} /\ LastSequence(r) = 0
      BY <1>3
    <3> HIDE RunAssumption
    <3>2. QED BY <2>1, <3>1
  <2>3. /\ \A r \in Runs : events[r] = {}
        /\ \A w \in Workers : pc[w] # "markWrite"
    BY DEF Init
  <2>4. QED BY <2>2, <2>3 DEF EventsOK
<1>5. CursorOK
  BY <1>3 DEF Init, CursorOK, NewStream
<1>6. QED BY <1>1, <1>2, <1>4, <1>5 DEF Base

(* Steps that leave the rows alone, or only end or redirect a handler. *)
LEMMA EndedInv ==
    ASSUME Base, NEW w \in Workers, Ended(w), UNCHANGED <<rowVars, clientVars, callOf, verdict, extra>>,
           executed' \in [Calls -> BOOLEAN],
           \A c \in Calls : executed'[c] => executed[c] \/ verdict[c] = "APPROVED",
           runJob' \in [Runs -> 0..MaxAttempts], resumeJob' \in [Calls -> 0..MaxAttempts],
           \A r \in Runs : runJob'[r] > 0 => runJob[r] > 0,
           \A c \in Calls : resumeJob'[c] > 0 => resumeJob[c] > 0, UNCHANGED enqueued
    PROVE  Base'
<1>1. /\ pc' \in [Workers -> Steps] /\ run' \in [Workers -> Runs \cup {None}]
      /\ call' \in [Workers -> Calls \cup {None}]
      /\ target' \in [Workers -> {"WAITING_APPROVAL", "FAILED", None}]
      /\ seen' \in [Workers -> [status : Statuses, last : Nat]]
      /\ pc'[w] = "idle" /\ call'[w] = None
      /\ \A v \in Workers : v # w =>
           /\ pc'[v] = pc[v] /\ run'[v] = run[v] /\ call'[v] = call[v]
           /\ target'[v] = target[v] /\ seen'[v] = seen[v]
  BY EndedShape DEF Base
<1>2. TypeOK'
  BY <1>1 DEF Base, TypeOK
<1>3. HandlerOK'
  BY <1>1 DEF Base, HandlerOK
<1>4. WorkOK'
  BY DEF Base, WorkOK
<1>5. EventsOK'
  BY <1>1, EventsFrame DEF Base
<1>6. QED BY <1>2, <1>3, <1>4, <1>5, StillCursor DEF Base

LEMMA RaiseInv ==
    ASSUME Base, NEW w \in Workers, Raise(w), UNCHANGED <<rowVars, clientVars, callVars>>
    PROVE  Base'
  BY EndedInv DEF Raise, Base, TypeOK

LEMMA ToMarkInv ==
    ASSUME Base, NEW w \in Workers, NEW t \in {"WAITING_APPROVAL", "FAILED"}, ToMark(w, t),
           pc[w] # "idle", UNCHANGED <<rowVars, clientVars, jobVars, callVars>>
    PROVE  Base'
<1>1. /\ pc' \in [Workers -> Steps]
      /\ target' \in [Workers -> {"WAITING_APPROVAL", "FAILED", None}]
      /\ pc'[w] = "markRead" /\ target'[w] # None
      /\ UNCHANGED <<run, call, seen>>
      /\ \A v \in Workers : v # w => pc'[v] = pc[v] /\ target'[v] = target[v]
  BY ToMarkShape DEF Base
<1>2. TypeOK'
  BY <1>1 DEF Base, TypeOK
<1>3. HandlerOK'
  BY <1>1 DEF Base, HandlerOK
<1>4. WorkOK'
  BY DEF Base, WorkOK
<1>5. EventsOK'
  BY <1>1, EventsFrame DEF Base
<1>6. QED BY <1>2, <1>3, <1>4, <1>5, StillCursor DEF Base

(* The calls of a turn are at least one and finitely many. *)
LEMMA TurnSize ==
    ASSUME NEW C \in Turns
    PROVE  IsFiniteSet(C) /\ C \subseteq Calls /\ Cardinality(C) \in Nat \ {0}
<1>0. C \subseteq Calls /\ C # {} /\ IsFiniteSet(Calls)
  BY Zenon DEF Turns
<1>1. C \subseteq Calls /\ C # {} /\ IsFiniteSet(C)
  BY <1>0, FS_Subset
<1>2. QED BY <1>1, FS_EmptySet, FS_CardinalityType

LEMMA ModelEscalatesInv ==
    ASSUME Base, NEW w \in Workers, NEW C \in Turns, ModelEscalates(w, C)
    PROVE  Base'
<1>1. /\ callOf' \in [Calls -> Runs \cup {None}] /\ run[w] \in Runs /\ status[run[w]] # "NONE"
      /\ \A c \in Calls : callOf'[c] # callOf[c] => callOf[c] = None /\ callOf'[c] = run[w]
  BY DEF Base, TypeOK, HandlerOK, ModelEscalates, Turns
<1>2. UNCHANGED <<rowVars, clientVars, jobVars, verdict, executed>> /\ extra' \in [Runs -> Nat]
  BY <1>1, TurnSize DEF ModelEscalates, Raise, Base, TypeOK
<1>3. WorkOK'
  BY <1>1, <1>2 DEF Base, WorkOK
<1>4. \A v \in Workers : call[v] # None => callOf'[call[v]] = callOf[call[v]]
  BY <1>1 DEF Base, TypeOK, HandlerOK, WorkOK
<1>5. CASE Resuming(w)
  <2>0. Ended(w) BY <1>5 DEF ModelEscalates, Raise
  <2>1. /\ pc' \in [Workers -> Steps] /\ run' \in [Workers -> Runs \cup {None}]
        /\ call' \in [Workers -> Calls \cup {None}]
        /\ target' \in [Workers -> {"WAITING_APPROVAL", "FAILED", None}]
        /\ seen' \in [Workers -> [status : Statuses, last : Nat]]
        /\ pc'[w] = "idle" /\ call'[w] = None
        /\ \A v \in Workers : v # w =>
             /\ pc'[v] = pc[v] /\ run'[v] = run[v] /\ call'[v] = call[v]
             /\ target'[v] = target[v] /\ seen'[v] = seen[v]
    BY <2>0, EndedShape DEF Base
  <2>2. TypeOK'
    BY <1>1, <1>2, <2>1 DEF Base, TypeOK
  <2>3. HandlerOK'
    BY <1>2, <1>4, <2>1 DEF Base, HandlerOK
  <2>4. EventsOK'
    BY <1>2, <2>1, EventsFrame DEF Base
  <2>5. QED BY <1>2, <1>3, <2>2, <2>3, <2>4, StillCursor DEF Base
<1>6. CASE ~Resuming(w)
  <2>0. ToMark(w, "WAITING_APPROVAL") BY <1>6 DEF ModelEscalates
  <2>1. /\ pc' \in [Workers -> Steps]
        /\ target' \in [Workers -> {"WAITING_APPROVAL", "FAILED", None}]
        /\ pc'[w] = "markRead" /\ target'[w] # None
        /\ UNCHANGED <<run, call, seen>>
        /\ \A v \in Workers : v # w => pc'[v] = pc[v] /\ target'[v] = target[v]
    BY <2>0, ToMarkShape DEF Base
  <2>2. TypeOK'
    BY <1>1, <1>2, <2>1 DEF Base, TypeOK
  <2>3. HandlerOK'
    BY <1>1, <1>2, <1>4, <1>6, <2>1 DEF Base, HandlerOK, Resuming
  <2>4. EventsOK'
    BY <1>2, <2>1, EventsFrame DEF Base
  <2>5. QED BY <1>2, <1>3, <2>2, <2>3, <2>4, StillCursor DEF Base
<1>7. QED BY <1>5, <1>6

LEMMA SubmitInv ==
    ASSUME Base, NEW r \in Runs, Submit(r)
    PROVE  Base'
<1>1. TypeOK'
  BY DEF Base, TypeOK, Submit, Statuses
<1>2. HandlerOK'
  BY DEF Base, TypeOK, HandlerOK, Submit
<1>3. WorkOK'
  BY DEF Base, TypeOK, WorkOK, Submit
<1>4. /\ events[r] = {} /\ events'[r] = {[sequence |-> 1, status |-> "QUEUED"]}
      /\ \A q \in Runs : q # r => events'[q] = events[q]
  BY DEF Base, TypeOK, EventsOK, Submit
<1>5. EventNumbers(r)' = {1}
  BY <1>4 DEF EventNumbers
<1>6. LastSequence(r)' = 1 /\ EventNumbers(r)' = 1..1
  <2>1. {1} = 1..1 /\ 1 \in Nat /\ 0 \in Nat /\ 0 <= 1 /\ 0 + 1 = 1
    OBVIOUS
  <2>2. Greatest((0 + 1)..1, 0) = 1
    BY <2>1, GreatestOfInterval
  <2>3. Greatest(1..1, 0) = 1
    BY <2>1, <2>2
  <2>4. QED BY <1>5, <2>1, <2>3 DEF LastSequence
<1>7. \A q \in Runs : q # r => LastSequence(q)' = LastSequence(q) /\ EventNumbers(q)' = EventNumbers(q)
  BY <1>4 DEF LastSequence, EventNumbers
<1>8. LastSequence(r) = 0
  BY <1>4 DEF LastSequence, EventNumbers, Greatest
<1>9. \A w \in Workers : pc[w] = "markWrite" => run[w] # r
  BY DEF Base, HandlerOK, Submit
<1>10. EventsOK'
  <2> SUFFICES ASSUME NEW q \in Runs
               PROVE  /\ LastSequence(q)' \in Nat /\ EventNumbers(q)' = 1..LastSequence(q)'
                      /\ \A e, f \in events'[q] : e.sequence = f.sequence => e = f
                      /\ status'[q] = "NONE" => events'[q] = {}
                      /\ \A w \in Workers : pc'[w] = "markWrite" /\ run'[w] = q =>
                            seen'[w].last <= LastSequence(q)'
    BY DEF EventsOK
  <2>1. CASE q = r
    BY <2>1, <1>4, <1>6, <1>9 DEF Base, TypeOK, Submit
  <2>2. CASE q # r
    BY <2>2, <1>4, <1>7 DEF Base, TypeOK, EventsOK, Submit
  <2>3. QED BY <2>1, <2>2
<1>11. CursorOK'
  BY <1>6, <1>7, <1>8, CursorFrame DEF Base, EventsOK, Submit
<1>12. QED BY <1>1, <1>2, <1>3, <1>10, <1>11 DEF Base

LEMMA TakeRunInv ==
    ASSUME Base, NEW w \in Workers, NEW r \in Runs, TakeRun(w, r)
    PROVE  Base'
<1>0. runJob' \in [Runs -> 0..MaxAttempts]
  BY DEF Base, TypeOK, TakeRun
<1>1. TypeOK'
  BY <1>0 DEF Base, TypeOK, TakeRun, Goto, Steps
<1>2. HandlerOK'
  BY DEF Base, TypeOK, HandlerOK, WorkOK, TakeRun, Goto
<1>3. WorkOK'
  BY DEF Base, TypeOK, WorkOK, TakeRun
<1>4. EventsOK'
  BY EventsFrame DEF Base, TypeOK, TakeRun, Goto
<1>5. CursorOK'
  BY StillCursor DEF TakeRun
<1>6. QED BY <1>1, <1>2, <1>3, <1>4, <1>5 DEF Base

LEMMA TakeResumeInv ==
    ASSUME Base, NEW w \in Workers, NEW c \in Calls, TakeResume(w, c)
    PROVE  Base'
<1>0. resumeJob' \in [Calls -> 0..MaxAttempts]
  BY DEF Base, TypeOK, TakeResume
<1>1. TypeOK'
  BY <1>0 DEF Base, TypeOK, TakeResume, Goto, Steps
<1>2. HandlerOK'
  BY DEF Base, TypeOK, HandlerOK, WorkOK, TakeResume, Goto
<1>3. WorkOK'
  BY DEF Base, TypeOK, WorkOK, TakeResume
<1>4. EventsOK'
  BY EventsFrame DEF Base, TypeOK, TakeResume, Goto
<1>5. CursorOK'
  BY StillCursor DEF TakeResume
<1>6. QED BY <1>1, <1>2, <1>3, <1>4, <1>5 DEF Base

LEMMA PrepareInv ==
    ASSUME Base, NEW w \in Workers, Prepare(w)
    PROVE  Base'
<1>1. TypeOK'
  BY DEF Base, TypeOK, HandlerOK, Prepare, Goto, Steps, Statuses
<1>2. HandlerOK'
  BY DEF Base, TypeOK, HandlerOK, Prepare, Goto
<1>3. WorkOK'
  BY DEF Base, TypeOK, HandlerOK, WorkOK, Prepare
<1>4. EventsOK'
  BY EventsFrame DEF Base, TypeOK, Prepare, Goto
<1>5. CursorOK'
  BY StillCursor DEF Prepare
<1>6. QED BY <1>1, <1>2, <1>3, <1>4, <1>5 DEF Base

LEMMA ModelAnswersInv ==
    ASSUME Base, NEW w \in Workers, ModelAnswers(w)
    PROVE  Base'
<1>1. TypeOK'
  BY DEF Base, TypeOK, ModelAnswers, Goto, Steps
<1>2. HandlerOK'
  BY DEF Base, TypeOK, HandlerOK, ModelAnswers, Goto
<1>3. WorkOK'
  BY DEF Base, WorkOK, ModelAnswers
<1>4. EventsOK'
  BY EventsFrame DEF Base, TypeOK, ModelAnswers, Goto
<1>5. CursorOK'
  BY StillCursor DEF ModelAnswers
<1>6. QED BY <1>1, <1>2, <1>3, <1>4, <1>5 DEF Base

(* The two steps that add an event to a run w works on. *)
LEMMA EventStepInv ==
    ASSUME Base, NEW w \in Workers, NEW t \in {"COMPLETED", "WAITING_APPROVAL", "FAILED"},
           pc[w] # "idle", Goto(w, "ack"),
           status' \in [Runs -> Statuses],
           \A q \in Runs : status'[q] = "NONE" => status[q] = "NONE",
           events' = [events EXCEPT ![run[w]] =
                        @ \cup {[sequence |-> LastSequence(run[w]) + 1, status |-> t]}],
           messages' \in Seq([role : {"user", "assistant"}, run : Runs]),
           UNCHANGED <<prepared, run, call, target, seen, jobVars, callVars, clientVars>>
    PROVE  Base'
<1>0. run[w] \in Runs /\ status[run[w]] # "NONE"
  BY DEF Base, HandlerOK
<1>1. pc' \in [Workers -> Steps] /\ pc'[w] = "ack" /\ \A v \in Workers : v # w => pc'[v] = pc[v]
  BY GotoShape DEF Base, Steps
<1>2. /\ events' \in [Runs -> SUBSET [sequence : Nat \ {0}, status : Statuses]]
      /\ LastSequence(run[w])' = LastSequence(run[w]) + 1
      /\ EventNumbers(run[w])' = 1..(LastSequence(run[w]) + 1)
      /\ \A e, f \in events'[run[w]] : e.sequence = f.sequence => e = f
      /\ \A q \in Runs : q # run[w] => events'[q] = events[q] /\ LastSequence(q)' = LastSequence(q)
                                       /\ EventNumbers(q)' = EventNumbers(q)
  <2> DEFINE r == run[w]
  <2>1. r \in Runs /\ UNCHANGED run /\ t \in Statuses
    BY <1>0 DEF Statuses
  <2>2. events' = [events EXCEPT ![r] = @ \cup {[sequence |-> LastSequence(r) + 1, status |-> t]}]
    OBVIOUS
  <2>3. \A q \in Runs : q = r =>
          /\ LastSequence(q)' = LastSequence(q) + 1
          /\ EventNumbers(q)' = 1..(LastSequence(q) + 1)
          /\ \A e, f \in events'[q] : e.sequence = f.sequence => e = f
          /\ events' \in [Runs -> SUBSET [sequence : Nat \ {0}, status : Statuses]]
          /\ \A p \in Runs : p # q => events'[p] = events[p] /\ LastSequence(p)' = LastSequence(p)
                                       /\ EventNumbers(p)' = EventNumbers(p)
    BY <2>1, <2>2, EventAdded DEF Base
  <2>4. QED BY <2>1, <2>3 DEF LastSequence, EventNumbers
<1>3. TypeOK'
  BY <1>1, <1>2 DEF Base, TypeOK
<1>4. HandlerOK'
  BY <1>0, <1>1 DEF Base, HandlerOK
<1>5. WorkOK'
  BY DEF Base, TypeOK, WorkOK
<1>6. \A q \in Runs : /\ LastSequence(q) \in Nat /\ LastSequence(q)' \in Nat
                      /\ LastSequence(q) <= LastSequence(q)'
                      /\ EventNumbers(q)' = 1..LastSequence(q)'
  BY <1>0, <1>2 DEF Base, EventsOK
<1>7. EventsOK'
  <2> SUFFICES ASSUME NEW q \in Runs
               PROVE  /\ \A e, f \in events'[q] : e.sequence = f.sequence => e = f
                      /\ status'[q] = "NONE" => events'[q] = {}
                      /\ \A v \in Workers : pc'[v] = "markWrite" /\ run'[v] = q =>
                            seen'[v].last <= LastSequence(q)'
    BY <1>6 DEF EventsOK
  <2>1. \A v \in Workers : pc'[v] = "markWrite" =>
          pc[v] = "markWrite" /\ run'[v] = run[v] /\ seen'[v] = seen[v] /\ seen[v].last \in Nat
    BY <1>1 DEF Base, TypeOK
  <2>2. QED BY <1>0, <1>2, <1>6, <2>1 DEF Base, EventsOK
<1>8. CursorOK'
  BY <1>6, CursorFrame DEF Base
<1>9. QED BY <1>3, <1>4, <1>5, <1>7, <1>8 DEF Base

LEMMA CompleteInv ==
    ASSUME Base, NEW w \in Workers, Complete(w)
    PROVE  Base'
<1>1. run[w] \in Runs /\ pc[w] # "idle"
  BY DEF Base, HandlerOK, Complete
<1>2. messages' \in Seq([role : {"user", "assistant"}, run : Runs])
  BY <1>1 DEF Base, TypeOK, Complete
<1>3. status' \in [Runs -> Statuses] /\ \A q \in Runs : status'[q] = "NONE" => status[q] = "NONE"
  BY <1>1 DEF Base, TypeOK, Complete, Statuses
<1>4. QED BY <1>1, <1>2, <1>3, EventStepInv DEF Complete

LEMMA MarkWriteInv ==
    ASSUME Base, NEW w \in Workers, MarkWrite(w)
    PROVE  Base'
<1>1. /\ run[w] \in Runs /\ pc[w] = "markWrite"
      /\ target[w] \in {"WAITING_APPROVAL", "FAILED"}
  BY DEF Base, TypeOK, HandlerOK, MarkWrite
<1>2. /\ LastSequence(run[w]) \in Nat /\ EventNumbers(run[w]) = 1..LastSequence(run[w])
      /\ seen[w].last <= LastSequence(run[w]) /\ seen[w].last \in Nat
  BY <1>1 DEF Base, EventsOK, TypeOK
<1>3. seen[w].last = LastSequence(run[w])
  BY <1>2 DEF MarkWrite, SequenceFree
<1>4. status' \in [Runs -> Statuses] /\ \A q \in Runs : status'[q] = "NONE" => status[q] = "NONE"
  BY <1>1 DEF Base, TypeOK, MarkWrite, Statuses
<1>5. QED BY <1>1, <1>3, <1>4, EventStepInv DEF MarkWrite, Base, TypeOK

LEMMA MarkReadInv ==
    ASSUME Base, NEW w \in Workers, MarkRead(w)
    PROVE  Base'
<1>1. run[w] \in Runs /\ status[run[w]] # "NONE" /\ LastSequence(run[w]) \in Nat
  BY DEF Base, HandlerOK, EventsOK, MarkRead
<1>2. [status |-> status[run[w]], last |-> LastSequence(run[w])] \in [status : Statuses, last : Nat]
  BY <1>1 DEF Base, TypeOK
<1>3. pc' \in [Workers -> Steps] /\ pc'[w] = "markWrite" /\ \A v \in Workers : v # w => pc'[v] = pc[v]
  BY GotoShape DEF Base, MarkRead, Steps
<1>4. /\ seen' \in [Workers -> [status : Statuses, last : Nat]]
      /\ seen'[w].last = LastSequence(run[w])
      /\ \A v \in Workers : v # w => seen'[v] = seen[v]
  BY <1>2 DEF Base, TypeOK, MarkRead
<1>5. TypeOK'
  BY <1>3, <1>4 DEF Base, TypeOK, MarkRead
<1>6. HandlerOK'
  BY <1>3 DEF Base, HandlerOK, MarkRead
<1>7. WorkOK'
  BY DEF Base, WorkOK, MarkRead
<1>8. \A q \in Runs : LastSequence(q)' = LastSequence(q) /\ EventNumbers(q)' = EventNumbers(q)
  BY DEF MarkRead, LastSequence, EventNumbers
<1>9. EventsOK'
  BY <1>1, <1>3, <1>4, <1>8 DEF Base, EventsOK, MarkRead
<1>10. QED BY <1>5, <1>6, <1>7, <1>9, StillCursor DEF Base, MarkRead

LEMMA AckInv ==
    ASSUME Base, NEW w \in Workers, Ack(w)
    PROVE  Base'
<1>1. run[w] \in Runs
  BY DEF Base, HandlerOK, Ack
<1>2. /\ runJob' \in [Runs -> 0..MaxAttempts] /\ resumeJob' \in [Calls -> 0..MaxAttempts]
      /\ \A r \in Runs : runJob'[r] > 0 => runJob[r] > 0
      /\ \A c \in Calls : resumeJob'[c] > 0 => resumeJob[c] > 0
  <2>0. 0 \in 0..MaxAttempts /\ runJob \in [Runs -> 0..MaxAttempts]
        /\ resumeJob \in [Calls -> 0..MaxAttempts]
    BY DEF Base, TypeOK
  <2>1. CASE Resuming(w)
    <3>1. call[w] \in Calls
      BY <2>1 DEF Base, TypeOK, Resuming
    <3>2. resumeJob' = [resumeJob EXCEPT ![call[w]] = 0] /\ UNCHANGED runJob
      BY <2>1 DEF Ack
    <3>3. QED BY <2>0, <3>1, <3>2
  <2>2. CASE ~Resuming(w)
    <3>1. runJob' = [runJob EXCEPT ![run[w]] = 0] /\ UNCHANGED resumeJob
      BY <2>2 DEF Ack
    <3>2. QED BY <1>1, <2>0, <3>1
  <2>3. QED BY <2>1, <2>2
<1>3. QED BY <1>2, EndedInv DEF Ack, Base, TypeOK

LEMMA BrokerResumesInv ==
    ASSUME Base, NEW w \in Workers, BrokerResumes(w)
    PROVE  Base'
<1>1. call[w] \in Calls /\ verdict[call[w]] = "APPROVED" /\ pc[w] # "idle"
  BY DEF Base, TypeOK, HandlerOK, BrokerResumes
<1>2. /\ executed' \in [Calls -> BOOLEAN]
      /\ \A c \in Calls : executed'[c] => executed[c] \/ verdict[c] = "APPROVED"
  BY <1>1 DEF Base, TypeOK, BrokerResumes
<1>3. CASE Raise(w)
  BY <1>2, <1>3, EndedInv DEF BrokerResumes, Raise, Base, TypeOK
<1>4. CASE Goto(w, "continue") /\ UNCHANGED <<run, call, target, seen, jobVars>>
  <2>1. pc' \in [Workers -> Steps] /\ pc'[w] = "continue" /\ \A v \in Workers : v # w => pc'[v] = pc[v]
    BY <1>4, GotoShape DEF Base, Steps
  <2>2. TypeOK'
    BY <1>2, <1>4, <2>1 DEF Base, TypeOK, BrokerResumes
  <2>3. HandlerOK'
    BY <1>1, <1>4, <2>1 DEF Base, HandlerOK, BrokerResumes
  <2>4. WorkOK'
    BY <1>2, <1>4 DEF Base, WorkOK, BrokerResumes
  <2>5. EventsOK'
    BY <1>4, <2>1, EventsFrame DEF Base, BrokerResumes
  <2>6. QED BY <2>2, <2>3, <2>4, <2>5, StillCursor DEF Base, BrokerResumes
<1>5. QED BY <1>3, <1>4 DEF BrokerResumes

LEMMA ContinueInv ==
    ASSUME Base, NEW w \in Workers, Continue(w)
    PROVE  Base'
<1>0. run[w] \in Runs
  BY DEF Base, HandlerOK, Continue
<1>1. CASE w \in Configured
  <2>1. /\ pc' \in [Workers -> Steps] /\ pc'[w] = "model" /\ \A v \in Workers : v # w => pc'[v] = pc[v]
        /\ UNCHANGED <<run, call, target, seen>>
    BY <1>1, GotoShape DEF Base, Steps, Continue
  <2>2. /\ status' \in [Runs -> Statuses]
        /\ \A q \in Runs : status'[q] = "NONE" => status[q] = "NONE"
    BY <1>0, <1>1 DEF Base, TypeOK, Continue, Statuses
  <2>3. TypeOK'
    BY <2>1, <2>2 DEF Base, TypeOK, Continue
  <2>4. HandlerOK'
    BY <2>1, <2>2 DEF Base, HandlerOK, Continue
  <2>5. WorkOK'
    BY <2>2 DEF Base, TypeOK, WorkOK, Continue
  <2>6. EventsOK'
    BY <2>1, <2>2, EventsFrame DEF Base, Continue
  <2>7. QED BY <2>3, <2>4, <2>5, <2>6, StillCursor DEF Base, Continue
<1>2. CASE w \notin Configured
  BY <1>2, ToMarkInv DEF Continue
<1>3. QED BY <1>1, <1>2

(* Approver, API and user. *)
LEMMA OutsideInv ==
    ASSUME Base,
           \/ \E c \in Calls, v \in {"APPROVED", "REJECTED"} : Decide(c, v)
           \/ \E c \in Calls : EnqueueResume(c) \/ LoseResume(c)
           \/ \E r \in Runs : CancelRead(r) \/ CancelWrite(r)
    PROVE  Base'
<1>1. TypeOK'
  <2>1. ASSUME NEW c \in Calls, NEW v \in {"APPROVED", "REJECTED"}, Decide(c, v) PROVE TypeOK'
    BY <2>1 DEF Base, TypeOK, Decide
  <2>2. ASSUME NEW c \in Calls, EnqueueResume(c) PROVE TypeOK'
    BY <2>2 DEF Base, TypeOK, EnqueueResume
  <2>3. ASSUME NEW c \in Calls, LoseResume(c) PROVE TypeOK'
    BY <2>3 DEF Base, TypeOK, LoseResume
  <2>4. ASSUME NEW r \in Runs, CancelRead(r) PROVE TypeOK'
    BY <2>4 DEF Base, TypeOK, CancelRead
  <2>5. ASSUME NEW r \in Runs, CancelWrite(r) PROVE TypeOK'
    BY <2>5 DEF Base, TypeOK, CancelWrite, Statuses
  <2>6. QED BY <2>1, <2>2, <2>3, <2>4, <2>5
<1>2. /\ UNCHANGED <<handlerVars, events, stream, callOf, executed>>
      /\ \A c \in Calls : verdict[c] = "APPROVED" => verdict'[c] = "APPROVED"
      /\ \A r \in Runs : status'[r] = "NONE" => status[r] = "NONE"
  BY DEF Base, TypeOK, Decide, EnqueueResume, LoseResume, CancelRead, CancelWrite
<1>3. HandlerOK'
  BY <1>2 DEF Base, TypeOK, HandlerOK
<1>4. WorkOK'
  BY <1>2 DEF Base, TypeOK, WorkOK, Decide, EnqueueResume, LoseResume, CancelRead, CancelWrite
<1>5. EventsOK'
  BY <1>2, EventsFrame DEF Base
<1>6. QED BY <1>1, <1>2, <1>3, <1>4, <1>5, StillCursor DEF Base

(* The first statement of a poll takes exactly the events after the cursor. *)
LEMMA PollEventsInv ==
    ASSUME Base, NEW r \in Runs, PollEvents(r)
    PROVE  Base'
<1> DEFINE l == stream[r].last
           n == LastSequence(r)
           s == [open |-> TRUE, polled |-> TRUE, last |-> stream[r].last,
                 batch |-> NewEvents(r), got |-> stream[r].got]
<1>1. /\ l \in Nat /\ n \in Nat /\ l <= n /\ stream[r].got = [i \in 1..l |-> i]
      /\ stream[r].got \in Seq(Nat) /\ EventNumbers(r) = 1..n
  BY DEF Base, TypeOK, CursorOK, EventsOK
<1>2. NewEvents(r) = (l + 1)..n
  BY <1>1 DEF NewEvents
<1>3. s \in [open : BOOLEAN, polled : BOOLEAN, last : Nat, batch : SUBSET Nat, got : Seq(Nat)]
  BY <1>1, <1>2
<1>4. stream' = [stream EXCEPT ![r] = s]
  BY DEF PollEvents
<1>5. s.last = l /\ s.got = stream[r].got /\ s.batch = (l + 1)..n
  BY <1>2
<1> HIDE DEF s
<1>6. stream'[r] = s /\ \A q \in Runs : q # r => stream'[q] = stream[q]
  BY <1>4 DEF Base, TypeOK
<1>7. \A q \in Runs : LastSequence(q)' = LastSequence(q) /\ EventNumbers(q)' = EventNumbers(q)
  BY DEF PollEvents, LastSequence, EventNumbers
<1>8. TypeOK'
  BY <1>3, <1>4 DEF Base, TypeOK, PollEvents
<1>9. HandlerOK' /\ WorkOK'
  BY DEF Base, HandlerOK, WorkOK, PollEvents
<1>10. EventsOK'
  BY EventsFrame DEF Base, PollEvents
<1>11. CursorOK'
  <2> SUFFICES ASSUME NEW q \in Runs
               PROVE  /\ stream'[q].last <= LastSequence(q)
                      /\ stream'[q].got = [i \in 1..stream'[q].last |-> i]
                      /\ stream'[q].polled =>
                           \E m \in Nat : /\ stream'[q].last <= m /\ m <= LastSequence(q)
                                          /\ stream'[q].batch = (stream'[q].last + 1)..m
    BY <1>7 DEF CursorOK
  <2>1. CASE q = r
    BY <2>1, <1>1, <1>5, <1>6
  <2>2. CASE q # r
    BY <2>2, <1>6 DEF Base, CursorOK
  <2>3. QED BY <2>1, <2>2
<1>12. QED BY <1>8, <1>9, <1>10, <1>11 DEF Base

LEMMA CountingConcat ==
    ASSUME NEW n \in Nat, NEW m \in Nat, n <= m
    PROVE  [i \in 1..n |-> i] \o [i \in 1..(m - n) |-> n + i] = [i \in 1..m |-> i]
<1> DEFINE s == [i \in 1..n |-> i]
           t == [i \in 1..(m - n) |-> n + i]
<1>1. s \in Seq(Nat) /\ t \in Seq(Nat) /\ Len(s) = n /\ Len(t) = m - n
  OBVIOUS
<1>2. s \o t \in Seq(Nat) /\ Len(s \o t) = m
  BY <1>1
<1>3. \A i \in 1..m : (s \o t)[i] = i
  BY <1>1
<1>4. s \o t = [i \in 1..m |-> (s \o t)[i]]
  BY <1>2
<1>5. QED BY <1>3, <1>4

(* The second statement delivers the batch in order and moves the cursor. *)
LEMMA PollStatusInv ==
    ASSUME Base, NEW r \in Runs, PollStatus(r)
    PROVE  Base'
<1> DEFINE l == stream[r].last
<1>1. PICK m \in Nat : l <= m /\ m <= LastSequence(r) /\ stream[r].batch = (l + 1)..m
  BY DEF Base, CursorOK, PollStatus
<1>2. l \in Nat /\ stream[r].got = [i \in 1..l |-> i] /\ LastSequence(r) \in Nat
  BY DEF Base, TypeOK, CursorOK, EventsOK
<1>3. Greatest(stream[r].batch, l) = m
  BY <1>1, <1>2, GreatestOfInterval
<1>4. stream[r].got \o Ascending(stream[r].batch) = [i \in 1..m |-> i]
  <2>1. Ascending((l + 1)..m) = [i \in 1..(m - l) |-> l + i]
    BY <1>1, <1>2, AscendingInterval
  <2>2. [i \in 1..l |-> i] \o [i \in 1..(m - l) |-> l + i] = [i \in 1..m |-> i]
    BY <1>1, <1>2, CountingConcat
  <2> HIDE DEF l
  <2>3. stream[r].got \o Ascending(stream[r].batch)
          = [i \in 1..l |-> i] \o [i \in 1..(m - l) |-> l + i]
    BY <1>1, <1>2, <2>1, Zenon
  <2>4. QED BY <2>2, <2>3, Zenon
<1> DEFINE open == ~(status[r] \in TerminalStates /\ stream[r].batch = {})
           s == [open |-> open, polled |-> FALSE, last |-> m, batch |-> {}, got |-> [i \in 1..m |-> i]]
<1>5. stream' = [stream EXCEPT ![r] = s]
  BY <1>3, <1>4 DEF PollStatus
<1>6. s \in [open : BOOLEAN, polled : BOOLEAN, last : Nat, batch : SUBSET Nat, got : Seq(Nat)]
  <2>1. open \in BOOLEAN
    OBVIOUS
  <2>2. [i \in 1..m |-> i] \in Seq(Nat)
    OBVIOUS
  <2> HIDE DEF open
  <2>3. QED BY <2>1, <2>2
<1>7. s.last = m /\ s.polled = FALSE /\ s.got = [i \in 1..m |-> i]
  OBVIOUS
<1> HIDE DEF s, open
<1>8. stream'[r] = s /\ \A q \in Runs : q # r => stream'[q] = stream[q]
  BY <1>5 DEF Base, TypeOK
<1>9. \A q \in Runs : LastSequence(q)' = LastSequence(q) /\ EventNumbers(q)' = EventNumbers(q)
  BY DEF PollStatus, LastSequence, EventNumbers
<1>10. TypeOK'
  <2>1. stream' \in [Runs -> [open : BOOLEAN, polled : BOOLEAN, last : Nat,
                            batch : SUBSET Nat, got : Seq(Nat)]]
    BY <1>5, <1>6 DEF Base, TypeOK
  <2>2. UNCHANGED <<cancelling, rowVars, jobVars, callVars, handlerVars>>
    BY DEF PollStatus
  <2>3. QED BY <2>1, <2>2 DEF Base, TypeOK
<1>11. HandlerOK' /\ WorkOK'
  BY DEF Base, HandlerOK, WorkOK, PollStatus
<1>12. EventsOK'
  BY EventsFrame DEF Base, PollStatus
<1>13. CursorOK'
  <2> SUFFICES ASSUME NEW q \in Runs
               PROVE  /\ stream'[q].last <= LastSequence(q)
                      /\ stream'[q].got = [i \in 1..stream'[q].last |-> i]
                      /\ stream'[q].polled =>
                           \E k \in Nat : /\ stream'[q].last <= k /\ k <= LastSequence(q)
                                          /\ stream'[q].batch = (stream'[q].last + 1)..k
    BY <1>9 DEF CursorOK
  <2>1. CASE q = r
    BY <2>1, <1>1, <1>7, <1>8
  <2>2. CASE q # r
    BY <2>2, <1>8 DEF Base, CursorOK
  <2>3. QED BY <2>1, <2>2
<1>14. QED BY <1>10, <1>11, <1>12, <1>13 DEF Base

LEMMA BaseStep == Base /\ [Next]_vars => Base'
<1> SUFFICES ASSUME Base, [Next]_vars PROVE Base'
  OBVIOUS
<1>1. CASE UNCHANGED vars
  <2>1. \A q \in Runs : LastSequence(q)' = LastSequence(q) /\ EventNumbers(q)' = EventNumbers(q)
    BY <1>1 DEF vars, LastSequence, EventNumbers
  <2>2. QED BY <1>1, <2>1 DEF vars, Base, TypeOK, HandlerOK, WorkOK, EventsOK, CursorOK
<1>2. ASSUME NEW w \in Workers, WorkerStep(w) \/ Crash(w)
      PROVE  Base'
  <2>1. CASE ExecuteUnconfigured(w)
    BY <2>1, ToMarkInv DEF ExecuteUnconfigured
  <2>2. CASE PrepareRefused(w) \/ MarkConflict(w) \/ BrokerRefuses(w) \/ Crash(w)
    BY <2>2, RaiseInv DEF PrepareRefused, MarkConflict, BrokerRefuses, Crash
  <2>3. CASE ModelFails(w)
    BY <2>3, RaiseInv, ToMarkInv DEF ModelFails
  <2>4. QED
    BY <1>2, <2>1, <2>2, <2>3, TakeRunInv, TakeResumeInv, PrepareInv, ModelAnswersInv,
       ModelEscalatesInv, CompleteInv, MarkReadInv, MarkWriteInv, AckInv, BrokerResumesInv,
       ContinueInv DEF WorkerStep
<1>3. QED
  BY <1>1, <1>2, SubmitInv, OutsideInv, PollEventsInv, PollStatusInv DEF Next

(* What each handler remembers, and the numbering of events (_add_event),   *)
(* stay consistent with the rows through every handler, crash and retry.    *)
THEOREM AgentRunInvariant == Spec => []Base
<1>1. QED BY BaseInit, BaseStep, PTL DEF Spec

(* Rows, handlers and streams of the agent runtime keep their types. *)
THEOREM AgentRunTypeCorrect == Spec => []TypeOK
<1>1. Base => TypeOK
  BY DEF Base
<1>2. QED BY <1>1, AgentRunInvariant, PTL

-----------------------------------------------------------------------------
(* Two members of a set are always equal: it has at most one. *)
(* The events up to a number that has been reached are as many as it says. *)
LEMMA EventsCounted ==
    ASSUME Base, NEW r \in Runs, NEW n \in Nat, n <= LastSequence(r)
    PROVE  Cardinality({e \in events[r] : e.sequence <= n}) = n
<1> DEFINE S == {e \in events[r] : e.sequence <= n}
           f == [e \in S |-> e.sequence]
<1>1. EventNumbers(r) = 1..LastSequence(r) /\ LastSequence(r) \in Nat
  BY DEF Base, EventsOK
<1>2. \A e \in events[r] : e.sequence \in 1..LastSequence(r)
  BY <1>1 DEF EventNumbers
<1>3. \A i \in 1..n : \E e \in S : e.sequence = i
  <2> SUFFICES ASSUME NEW i \in 1..n PROVE \E e \in S : e.sequence = i
    OBVIOUS
  <2>1. i \in EventNumbers(r)
    BY <1>1
  <2>2. QED BY <2>1 DEF EventNumbers
<1>4. \A d, e \in S : d.sequence = e.sequence => d = e
  BY DEF Base, EventsOK
<1>5. f \in [S -> 1..n]
  BY <1>2
<1>6. f \in Bijection(S, 1..n)
  <2>1. \A d, e \in S : f[d] = f[e] => d = e
    BY <1>4
  <2>2. \A i \in 1..n : \E e \in S : f[e] = i
    BY <1>3
  <2> HIDE DEF f, S
  <2>3. QED BY <2>1, <2>2, <1>5 DEF Bijection, Injection, Surjection, IsInjective
<1>7. ExistsBijection(1..n, S)
  BY <1>6, Fun_ExistsBijSymmetric DEF ExistsBijection
<1>8. IsFiniteSet(1..n) /\ Cardinality(1..n) = n
  <2>1. 1 \in Int /\ n \in Int
    OBVIOUS
  <2>2. IsFiniteSet(1..n) /\ Cardinality(1..n) = IF 1 > n THEN 0 ELSE n - 1 + 1
    BY <2>1, FS_Interval
  <2>3. QED BY <2>2
<1>9. QED BY <1>7, <1>8, FS_Bijection

(* A client that follows a run's stream receives its events in order, none *)
(* twice and none skipped, whichever handlers write at the same time.      *)
THEOREM StreamOrdered == Spec => []StreamInOrder
<1>1. Base => StreamInOrder
  <2> SUFFICES ASSUME Base, NEW r \in Runs
               PROVE  /\ stream[r].got = [i \in 1..stream[r].last |-> i]
                      /\ Cardinality({e \in events[r] : e.sequence <= stream[r].last})
                           = stream[r].last
    BY DEF StreamInOrder
  <2>1. stream[r].last \in Nat /\ stream[r].last <= LastSequence(r)
    BY DEF Base, TypeOK, CursorOK
  <2>2. stream[r].got = [i \in 1..stream[r].last |-> i]
    BY DEF Base, CursorOK
  <2>3. QED BY <2>1, <2>2, EventsCounted
<1>2. QED BY <1>1, AgentRunInvariant, PTL
-----------------------------------------------------------------------------
(* A user's message is no answer; an assistant's is one, for its own run. *)
LEMMA UserMessage ==
    ASSUME TypeOK, NEW r \in Runs, NEW q \in Runs,
           messages' = Append(messages, [role |-> "user", run |-> r])
    PROVE  Answers(q)' = Answers(q)
<1> DEFINE msg == [role |-> "user", run |-> r]
<1>1. msg \in [role : {"user", "assistant"}, run : Runs] /\ msg # [role |-> "assistant", run |-> q]
  OBVIOUS
<1> HIDE DEF msg
<1>2. /\ DOMAIN messages = 1..Len(messages) /\ Len(messages) \in Nat
      /\ DOMAIN Append(messages, msg) = 1..(Len(messages) + 1)
      /\ Append(messages, msg)[Len(messages) + 1] = msg
      /\ \A i \in 1..Len(messages) : Append(messages, msg)[i] = messages[i]
  BY <1>1 DEF TypeOK
<1>3. messages' = Append(messages, msg)
  BY DEF msg
<1>4. QED BY <1>1, <1>2, <1>3 DEF Answers

LEMMA AssistantMessage ==
    ASSUME TypeOK, NEW r \in Runs, NEW q \in Runs,
           messages' = Append(messages, [role |-> "assistant", run |-> r])
    PROVE  Answers(q)' = IF q = r THEN Answers(q) \cup {Len(messages) + 1} ELSE Answers(q)
<1> DEFINE msg == [role |-> "assistant", run |-> r]
           ans == [role |-> "assistant", run |-> q]
<1>1. msg \in [role : {"user", "assistant"}, run : Runs] /\ (msg = ans <=> q = r)
  OBVIOUS
<1>2. Answers(q) = {i \in DOMAIN messages : messages[i] = ans}
  BY DEF Answers
<1>3. Answers(q)' = {i \in DOMAIN messages' : messages'[i] = ans}
  BY DEF Answers
<1>4. messages' = Append(messages, msg)
  OBVIOUS
<1> HIDE DEF msg, ans
<1>5. /\ DOMAIN messages = 1..Len(messages) /\ Len(messages) \in Nat
      /\ DOMAIN Append(messages, msg) = 1..(Len(messages) + 1)
      /\ Append(messages, msg)[Len(messages) + 1] = msg
      /\ \A i \in 1..Len(messages) : Append(messages, msg)[i] = messages[i]
  BY <1>1 DEF TypeOK
<1>6. QED BY <1>1, <1>2, <1>3, <1>4, <1>5

LEMMA Finiteness ==
    ASSUME TypeOK, NEW r \in Runs
    PROVE  /\ IsFiniteSet(LiveAt(r)) /\ IsFiniteSet(OpenCalls(r)) /\ IsFiniteSet(Answers(r))
           /\ Cardinality(LiveAt(r)) \in Nat /\ Cardinality(OpenCalls(r)) \in Nat
           /\ Cardinality(Answers(r)) \in Nat /\ Free(r) \in {0, 1} /\ extra[r] \in Nat
<1>1. LiveAt(r) \subseteq Workers /\ OpenCalls(r) \subseteq Calls /\ Answers(r) \subseteq DOMAIN messages
  BY DEF LiveAt, OpenCalls, Answers
<1>2. IsFiniteSet(DOMAIN messages)
  <2>1. Len(messages) \in Nat /\ DOMAIN messages = 1..Len(messages)
    BY DEF TypeOK
  <2>2. QED BY <2>1, FS_Interval
<1>3. IsFiniteSet(LiveAt(r)) /\ IsFiniteSet(OpenCalls(r)) /\ IsFiniteSet(Answers(r))
  BY <1>1, <1>2, FS_Subset
<1>4. QED BY <1>3, FS_CardinalityType DEF TypeOK, Free

LEMMA TokenInit == Init => Tokens
<1> SUFFICES ASSUME Init, NEW r \in Runs
             PROVE  Cardinality(LiveAt(r)) + Cardinality(OpenCalls(r)) + Cardinality(Answers(r))
                        + Free(r) <= 1 + extra[r]
  BY DEF Tokens
<1>1. LiveAt(r) = {} /\ OpenCalls(r) = {} /\ Answers(r) = {} /\ Free(r) = 1 /\ extra[r] = 0
  BY DEF Init, LiveAt, Live, OpenCalls, Answers, Free
<1>2. QED BY <1>1, FS_EmptySet

(* The counts of the next state are those of finite sets, and a run keeps   *)
(* to its limit when none of them grows.                                    *)
LEMMA TokensKept ==
    ASSUME Base, Tokens, NEW r \in Runs, LiveAt(r)' \subseteq LiveAt(r),
           OpenCalls(r)' \subseteq OpenCalls(r), Answers(r)' = Answers(r),
           prepared[r] => prepared'[r], extra'[r] = extra[r]
    PROVE  Cardinality(LiveAt(r)') + Cardinality(OpenCalls(r)') + Cardinality(Answers(r)')
               + Free(r)' <= 1 + extra'[r]
<1>1. /\ IsFiniteSet(LiveAt(r)) /\ IsFiniteSet(OpenCalls(r)) /\ IsFiniteSet(Answers(r))
      /\ Cardinality(LiveAt(r)) \in Nat /\ Cardinality(OpenCalls(r)) \in Nat
      /\ Cardinality(Answers(r)) \in Nat /\ Free(r) \in {0, 1} /\ extra[r] \in Nat
  BY Finiteness DEF Base
<1>2. /\ IsFiniteSet(LiveAt(r)') /\ Cardinality(LiveAt(r)') <= Cardinality(LiveAt(r))
      /\ IsFiniteSet(OpenCalls(r)') /\ Cardinality(OpenCalls(r)') <= Cardinality(OpenCalls(r))
  BY <1>1, FS_Subset
<1>3. Cardinality(LiveAt(r)') \in Nat /\ Cardinality(OpenCalls(r)') \in Nat
  BY <1>2, FS_CardinalityType
<1>4. Free(r)' \in {0, 1} /\ Free(r)' <= Free(r)
  BY DEF Free
<1>5. Cardinality(LiveAt(r)) + Cardinality(OpenCalls(r)) + Cardinality(Answers(r)) + Free(r)
        <= 1 + extra[r]
  BY DEF Tokens
<1>6. QED BY <1>1, <1>2, <1>3, <1>4, <1>5

(* A step that moves no token: nobody starts to work on a run, no call is  *)
(* opened and nothing is answered.                                         *)
LEMMA TokenFrame ==
    ASSUME Base, Tokens,
           \A r \in Runs : prepared[r] => prepared'[r],
           \A w \in Workers : Live(w)' => Live(w) /\ run'[w] = run[w],
           \A c \in Calls : executed[c] => executed'[c],
           callOf' = callOf, extra' = extra,
           \A r \in Runs : Answers(r)' = Answers(r)
    PROVE  Tokens'
<1> SUFFICES ASSUME NEW r \in Runs
             PROVE  Cardinality(LiveAt(r)') + Cardinality(OpenCalls(r)') + Cardinality(Answers(r)')
                        + Free(r)' <= 1 + extra'[r]
  BY DEF Tokens
<1>1. LiveAt(r)' \subseteq LiveAt(r) /\ OpenCalls(r)' \subseteq OpenCalls(r)
  BY DEF LiveAt, OpenCalls
<1>2. QED BY <1>1, TokensKept

(* A handler that ends, or turns to marking the run, gives up its token. *)
LEMMA StopsWorking ==
    ASSUME Base, NEW w \in Workers,
           Ended(w) \/ \E s \in {"WAITING_APPROVAL", "FAILED"} : ToMark(w, s)
    PROVE  /\ ~Live(w)'
           /\ \A v \in Workers : Live(v)' => v # w /\ Live(v) /\ run'[v] = run[v]
<1>1. CASE Ended(w)
  BY <1>1, EndedShape DEF Base, Live
<1>2. CASE \E s \in {"WAITING_APPROVAL", "FAILED"} : ToMark(w, s)
  BY <1>2, ToMarkShape DEF Base, Live
<1>3. QED BY <1>1, <1>2

LEMMA SameAnswers ==
    ASSUME messages' = messages
    PROVE  \A r \in Runs : Answers(r)' = Answers(r)
  BY DEF Answers

(* Counting a set that gains or loses an element. *)
LEMMA AddedAtMostOne ==
    ASSUME NEW S, NEW T, NEW x, IsFiniteSet(S), T \subseteq S \cup {x}
    PROVE  Cardinality(T) \in Nat /\ Cardinality(T) <= Cardinality(S) + 1
<1>1. /\ IsFiniteSet(S \cup {x}) /\ Cardinality(S) \in Nat
      /\ Cardinality(S \cup {x}) = IF x \in S THEN Cardinality(S) ELSE Cardinality(S) + 1
  BY FS_AddElement, FS_CardinalityType
<1>2. IsFiniteSet(T) /\ Cardinality(T) <= Cardinality(S \cup {x})
  BY <1>1, FS_Subset
<1>3. QED BY <1>1, <1>2, FS_CardinalityType

LEMMA RemovedOne ==
    ASSUME NEW S, NEW T, NEW x \in S, IsFiniteSet(S), T \subseteq S \ {x}
    PROVE  Cardinality(T) \in Nat /\ Cardinality(T) <= Cardinality(S) - 1
<1>1. /\ IsFiniteSet(S \ {x}) /\ Cardinality(S) \in Nat
      /\ Cardinality(S \ {x}) = Cardinality(S) - 1
  BY FS_RemoveElement, FS_CardinalityType
<1>2. IsFiniteSet(T) /\ Cardinality(T) <= Cardinality(S \ {x})
  BY <1>1, FS_Subset
<1>3. QED BY <1>1, <1>2, FS_CardinalityType

(* _prepare takes the token from the step row. *)
LEMMA PrepareToken ==
    ASSUME Base, Tokens, NEW w \in Workers, Prepare(w)
    PROVE  Tokens'
<1>1. PICK r \in Runs : r = run[w] /\ ~prepared[r] /\ ~Live(w)
  BY DEF Base, HandlerOK, Prepare, StepRowFree, Live
<1>2. /\ \A q \in Runs : prepared[q] \/ q = r => prepared'[q]
      /\ \A v \in Workers : run'[v] = run[v] /\ (Live(v)' => Live(v) \/ v = w)
      /\ callOf' = callOf /\ executed' = executed /\ extra' = extra /\ messages' = messages
  BY <1>1 DEF Base, TypeOK, Prepare, Goto, Live
<1>3. \A q \in Runs : OpenCalls(q)' = OpenCalls(q) /\ Answers(q)' = Answers(q)
  BY <1>2 DEF OpenCalls, Answers
<1>4. \A q \in Runs : q # r =>
        Cardinality(LiveAt(q)') + Cardinality(OpenCalls(q)') + Cardinality(Answers(q)')
          + Free(q)' <= 1 + extra'[q]
  <2> SUFFICES ASSUME NEW q \in Runs, q # r
               PROVE  Cardinality(LiveAt(q)') + Cardinality(OpenCalls(q)')
                        + Cardinality(Answers(q)') + Free(q)' <= 1 + extra'[q]
    OBVIOUS
  <2>1. LiveAt(q)' \subseteq LiveAt(q)
    BY <1>1, <1>2 DEF LiveAt
  <2>2. QED BY <1>2, <1>3, <2>1, TokensKept
<1>5. Cardinality(LiveAt(r)') + Cardinality(OpenCalls(r)') + Cardinality(Answers(r)')
        + Free(r)' <= 1 + extra'[r]
  <2>1. /\ IsFiniteSet(LiveAt(r)) /\ IsFiniteSet(OpenCalls(r)) /\ IsFiniteSet(Answers(r))
      /\ Cardinality(LiveAt(r)) \in Nat /\ Cardinality(OpenCalls(r)) \in Nat
      /\ Cardinality(Answers(r)) \in Nat /\ Free(r) \in {0, 1} /\ extra[r] \in Nat
      /\ Cardinality(LiveAt(r)) + Cardinality(OpenCalls(r)) + Cardinality(Answers(r))
           + Free(r) <= 1 + extra[r]
    BY Finiteness DEF Base, Tokens
  <2>2. LiveAt(r)' \subseteq LiveAt(r) \cup {w} /\ w \notin LiveAt(r)
    BY <1>1, <1>2 DEF LiveAt
  <2>3. Cardinality(LiveAt(r)') \in Nat /\ Cardinality(LiveAt(r)') <= Cardinality(LiveAt(r)) + 1
    BY <2>1, <2>2, AddedAtMostOne
  <2>4. Free(r) = 1 /\ Free(r)' = 0
    BY <1>1, <1>2 DEF Free
  <2>5. QED BY <1>2, <1>3, <2>1, <2>3, <2>4
<1>6. QED BY <1>4, <1>5 DEF Tokens

(* The broker takes it from the call it resumes, or the timeout loses it. *)
LEMMA BrokerToken ==
    ASSUME Base, Tokens, NEW w \in Workers, BrokerResumes(w)
    PROVE  Tokens'
<1>1. PICK r \in Runs, c \in Calls : r = run[w] /\ c = call[w] /\ callOf[c] = r /\ ~executed[c]
  BY DEF Base, TypeOK, HandlerOK, BrokerResumes
<1>2. /\ executed'[c] = TRUE /\ \A d \in Calls : d # c => executed'[d] = executed[d]
      /\ callOf' = callOf /\ extra' = extra /\ messages' = messages /\ prepared' = prepared
  BY <1>1 DEF Base, TypeOK, BrokerResumes
<1>3. \A q \in Runs : Answers(q)' = Answers(q)
  BY <1>2, SameAnswers
<1>4. CASE Raise(w)
  <2>1. \A v \in Workers : Live(v)' => Live(v) /\ run'[v] = run[v]
    BY <1>4, StopsWorking DEF Raise
  <2>2. \A d \in Calls : executed[d] => executed'[d]
    BY <1>2
  <2>3. QED BY <1>2, <1>3, <2>1, <2>2, TokenFrame
<1>5. CASE Goto(w, "continue") /\ UNCHANGED <<run, call, target, seen, jobVars>>
  <2>1. \A v \in Workers : run'[v] = run[v] /\ (Live(v)' => Live(v) \/ v = w)
    BY <1>5 DEF Base, TypeOK, Goto, Live
  <2>2. \A q \in Runs : q # r =>
        Cardinality(LiveAt(q)') + Cardinality(OpenCalls(q)') + Cardinality(Answers(q)')
          + Free(q)' <= 1 + extra'[q]
    <3> SUFFICES ASSUME NEW q \in Runs, q # r
                 PROVE  Cardinality(LiveAt(q)') + Cardinality(OpenCalls(q)')
                          + Cardinality(Answers(q)') + Free(q)' <= 1 + extra'[q]
      OBVIOUS
    <3>1. LiveAt(q)' \subseteq LiveAt(q) /\ OpenCalls(q)' \subseteq OpenCalls(q)
      BY <1>1, <1>2, <2>1 DEF LiveAt, OpenCalls
    <3>2. QED BY <1>2, <1>3, <3>1, TokensKept
  <2>3. Cardinality(LiveAt(r)') + Cardinality(OpenCalls(r)') + Cardinality(Answers(r)')
        + Free(r)' <= 1 + extra'[r]
    <3>1. /\ IsFiniteSet(LiveAt(r)) /\ IsFiniteSet(OpenCalls(r)) /\ IsFiniteSet(Answers(r))
      /\ Cardinality(LiveAt(r)) \in Nat /\ Cardinality(OpenCalls(r)) \in Nat
      /\ Cardinality(Answers(r)) \in Nat /\ Free(r) \in {0, 1} /\ extra[r] \in Nat
      /\ Cardinality(LiveAt(r)) + Cardinality(OpenCalls(r)) + Cardinality(Answers(r))
           + Free(r) <= 1 + extra[r]
      BY Finiteness DEF Base, Tokens
    <3>2. /\ LiveAt(r)' \subseteq LiveAt(r) \cup {w}
          /\ c \in OpenCalls(r) /\ OpenCalls(r)' \subseteq OpenCalls(r) \ {c}
      BY <1>1, <1>2, <2>1 DEF LiveAt, OpenCalls
    <3>3. Cardinality(LiveAt(r)') \in Nat /\ Cardinality(LiveAt(r)') <= Cardinality(LiveAt(r)) + 1
      BY <3>1, <3>2, AddedAtMostOne
    <3>4. /\ Cardinality(OpenCalls(r)') \in Nat
          /\ Cardinality(OpenCalls(r)') <= Cardinality(OpenCalls(r)) - 1
      BY <3>1, <3>2, RemovedOne
    <3>5. Free(r)' = Free(r)
      BY <1>2 DEF Free
    <3>6. QED BY <1>2, <1>3, <3>1, <3>3, <3>4, <3>5
  <2>4. QED BY <2>2, <2>3 DEF Tokens
<1>6. QED BY <1>4, <1>5 DEF BrokerResumes

(* The calls of a turn take it from the handler that made them, and the    *)
(* further ones are counted.                                               *)
LEMMA EscalateToken ==
    ASSUME Base, Tokens, NEW w \in Workers, NEW C \in Turns, ModelEscalates(w, C)
    PROVE  Tokens'
<1>1. PICK r \in Runs : r = run[w] /\ Live(w)
  BY DEF Base, HandlerOK, ModelEscalates, Live
<1>2. IsFiniteSet(C) /\ C \subseteq Calls /\ Cardinality(C) \in Nat \ {0}
  BY TurnSize
<1>3. /\ \A c \in C : callOf[c] = None /\ callOf'[c] = r
      /\ \A c \in Calls \ C : callOf'[c] = callOf[c]
      /\ executed' = executed /\ prepared' = prepared /\ messages' = messages
  BY <1>1, <1>2 DEF ModelEscalates
<1>4. /\ extra'[r] = extra[r] + Cardinality(C) - 1
      /\ \A q \in Runs : q # r => extra'[q] = extra[q]
  BY <1>1 DEF ModelEscalates, Base, TypeOK
<1>5. \A q \in Runs : Answers(q)' = Answers(q)
  BY <1>3, SameAnswers
<1>6. \A v \in Workers : Live(v)' => v # w /\ Live(v) /\ run'[v] = run[v]
  BY StopsWorking DEF ModelEscalates, Raise
<1>7. \A q \in Runs : q # r =>
        Cardinality(LiveAt(q)') + Cardinality(OpenCalls(q)') + Cardinality(Answers(q)')
          + Free(q)' <= 1 + extra'[q]
  <2> SUFFICES ASSUME NEW q \in Runs, q # r
               PROVE  Cardinality(LiveAt(q)') + Cardinality(OpenCalls(q)')
                        + Cardinality(Answers(q)') + Free(q)' <= 1 + extra'[q]
    OBVIOUS
  <2>1. LiveAt(q)' \subseteq LiveAt(q) /\ OpenCalls(q)' \subseteq OpenCalls(q)
    BY <1>3, <1>6 DEF LiveAt, OpenCalls
  <2>2. prepared[q] => prepared'[q]
    BY <1>3
  <2>3. QED BY <1>4, <1>5, <2>1, <2>2, TokensKept
<1>8. Cardinality(LiveAt(r)') + Cardinality(OpenCalls(r)') + Cardinality(Answers(r)')
        + Free(r)' <= 1 + extra'[r]
  <2>1. /\ IsFiniteSet(LiveAt(r)) /\ IsFiniteSet(OpenCalls(r)) /\ IsFiniteSet(Answers(r))
      /\ Cardinality(LiveAt(r)) \in Nat /\ Cardinality(OpenCalls(r)) \in Nat
      /\ Cardinality(Answers(r)) \in Nat /\ Free(r) \in {0, 1} /\ extra[r] \in Nat
      /\ Cardinality(LiveAt(r)) + Cardinality(OpenCalls(r)) + Cardinality(Answers(r))
           + Free(r) <= 1 + extra[r]
    BY Finiteness DEF Base, Tokens
  <2>2. /\ w \in LiveAt(r) /\ LiveAt(r)' \subseteq LiveAt(r) \ {w}
        /\ OpenCalls(r)' \subseteq OpenCalls(r) \cup C
    BY <1>1, <1>3, <1>6 DEF LiveAt, OpenCalls
  <2>3. Cardinality(LiveAt(r)') \in Nat /\ Cardinality(LiveAt(r)') <= Cardinality(LiveAt(r)) - 1
    BY <2>1, <2>2, RemovedOne
  <2>4. /\ IsFiniteSet(OpenCalls(r) \cup C)
        /\ Cardinality(OpenCalls(r) \cup C) <= Cardinality(OpenCalls(r)) + Cardinality(C)
    <3>1. /\ IsFiniteSet(OpenCalls(r) \cup C)
          /\ Cardinality(OpenCalls(r) \cup C)
               = Cardinality(OpenCalls(r)) + Cardinality(C) - Cardinality(OpenCalls(r) \cap C)
      BY <1>2, <2>1, FS_Union
    <3>2. Cardinality(OpenCalls(r) \cap C) \in Nat
      BY <1>2, <2>1, FS_Intersection, FS_CardinalityType
    <3>3. QED BY <1>2, <2>1, <3>1, <3>2
  <2>5. /\ IsFiniteSet(OpenCalls(r)')
        /\ Cardinality(OpenCalls(r)') <= Cardinality(OpenCalls(r) \cup C)
    BY <2>2, <2>4, FS_Subset
  <2>6. Cardinality(OpenCalls(r)') \in Nat /\ Cardinality(OpenCalls(r) \cup C) \in Nat
    BY <2>4, <2>5, FS_CardinalityType
  <2>7. Free(r)' = Free(r)
    BY <1>3 DEF Free
  <2>8. QED BY <1>2, <1>4, <1>5, <2>1, <2>3, <2>4, <2>5, <2>6, <2>7
<1>9. QED BY <1>7, <1>8 DEF Tokens

(* _complete spends it on the answer. *)
LEMMA CompleteToken ==
    ASSUME Base, Tokens, NEW w \in Workers, Complete(w)
    PROVE  Tokens'
<1>1. PICK r \in Runs : r = run[w] /\ Live(w)
  BY DEF Base, HandlerOK, Complete, Live
<1>2. messages' = Append(messages, [role |-> "assistant", run |-> r])
  BY <1>1 DEF Complete
<1>3. \A q \in Runs : q # r => Answers(q)' = Answers(q)
  BY <1>1, <1>2, AssistantMessage DEF Base
<1>4. Answers(r)' = Answers(r) \cup {Len(messages) + 1}
  BY <1>1, <1>2, AssistantMessage DEF Base
<1>5. /\ prepared' = prepared /\ callOf' = callOf /\ executed' = executed /\ extra' = extra
      /\ \A v \in Workers : Live(v)' => v # w /\ Live(v) /\ run'[v] = run[v]
  BY DEF Complete, Base, TypeOK, Goto, Live
<1>6. \A q \in Runs : OpenCalls(q)' = OpenCalls(q) /\ Free(q)' = Free(q)
  BY <1>5 DEF OpenCalls, Free
<1>7. \A q \in Runs : q # r =>
        Cardinality(LiveAt(q)') + Cardinality(OpenCalls(q)') + Cardinality(Answers(q)')
          + Free(q)' <= 1 + extra'[q]
  <2> SUFFICES ASSUME NEW q \in Runs, q # r
               PROVE  Cardinality(LiveAt(q)') + Cardinality(OpenCalls(q)')
                        + Cardinality(Answers(q)') + Free(q)' <= 1 + extra'[q]
    OBVIOUS
  <2>1. LiveAt(q)' \subseteq LiveAt(q)
    BY <1>5 DEF LiveAt
  <2>2. QED BY <1>3, <1>5, <1>6, <2>1, TokensKept
<1>8. Cardinality(LiveAt(r)') + Cardinality(OpenCalls(r)') + Cardinality(Answers(r)')
        + Free(r)' <= 1 + extra'[r]
  <2>1. /\ IsFiniteSet(LiveAt(r)) /\ IsFiniteSet(OpenCalls(r)) /\ IsFiniteSet(Answers(r))
      /\ Cardinality(LiveAt(r)) \in Nat /\ Cardinality(OpenCalls(r)) \in Nat
      /\ Cardinality(Answers(r)) \in Nat /\ Free(r) \in {0, 1} /\ extra[r] \in Nat
      /\ Cardinality(LiveAt(r)) + Cardinality(OpenCalls(r)) + Cardinality(Answers(r))
           + Free(r) <= 1 + extra[r]
    BY Finiteness DEF Base, Tokens
  <2>2. w \in LiveAt(r) /\ LiveAt(r)' \subseteq LiveAt(r) \ {w}
    BY <1>1, <1>5 DEF LiveAt
  <2>3. Cardinality(LiveAt(r)') \in Nat /\ Cardinality(LiveAt(r)') <= Cardinality(LiveAt(r)) - 1
    BY <2>1, <2>2, RemovedOne
  <2>4. /\ Cardinality(Answers(r)') \in Nat
        /\ Cardinality(Answers(r)') <= Cardinality(Answers(r)) + 1
    BY <1>4, <2>1, AddedAtMostOne
  <2>5. QED BY <1>5, <1>6, <2>1, <2>3, <2>4
<1>9. QED BY <1>7, <1>8 DEF Tokens

(* Every other step leaves the tokens where they are. *)
LEMMA QuietToken ==
    ASSUME Base, Tokens, [Next]_vars,
           \A w \in Workers : ~Prepare(w) /\ ~BrokerResumes(w) /\ ~Complete(w)
                              /\ \A C \in Turns : ~ModelEscalates(w, C)
    PROVE  Tokens'
<1>1. CASE UNCHANGED vars
  <2>1. /\ messages' = messages /\ prepared' = prepared /\ executed' = executed
        /\ callOf' = callOf /\ extra' = extra /\ pc' = pc /\ run' = run
    BY <1>1 DEF vars
  <2>2. \A w \in Workers : Live(w)' => Live(w)
    BY <2>1 DEF Live
  <2>3. QED BY <2>1, <2>2, SameAnswers, TokenFrame
<1>2. ASSUME NEW r \in Runs, Submit(r) PROVE Tokens'
  <2>1. \A q \in Runs : Answers(q)' = Answers(q)
    BY <1>2, UserMessage DEF Base, Submit
  <2>2. /\ prepared' = prepared /\ executed' = executed /\ callOf' = callOf /\ extra' = extra
        /\ pc' = pc /\ run' = run
    BY <1>2 DEF Submit
  <2>3. \A w \in Workers : Live(w)' => Live(w)
    BY <2>2 DEF Live
  <2>4. QED BY <2>1, <2>2, <2>3, TokenFrame
<1>3. ASSUME NEW w \in Workers, WorkerStep(w) \/ Crash(w)
      PROVE  Tokens'
  <2>1. messages' = messages /\ prepared' = prepared /\ executed' = executed /\ callOf' = callOf /\ extra' = extra
    BY <1>3 DEF WorkerStep, TakeRun, TakeResume, ExecuteUnconfigured, PrepareRefused, ModelAnswers,
                ModelFails, MarkRead, MarkWrite, MarkConflict, Ack, BrokerRefuses, Continue, Crash
  <2>2. \A v \in Workers : Live(v)' => Live(v) /\ run'[v] = run[v]
    <3>1. CASE \/ ExecuteUnconfigured(w) \/ PrepareRefused(w) \/ ModelFails(w) \/ MarkConflict(w)
               \/ Ack(w) \/ BrokerRefuses(w) \/ Crash(w)
      <4>1. Ended(w) \/ \E s \in {"WAITING_APPROVAL", "FAILED"} : ToMark(w, s)
        BY <3>1 DEF ExecuteUnconfigured, PrepareRefused, ModelFails, MarkConflict, Ack,
                    BrokerRefuses, Crash, Raise
      <4>2. QED BY <4>1, StopsWorking
    <3>2. CASE (\E r \in Runs : TakeRun(w, r)) \/ (\E c \in Calls : TakeResume(w, c))
      BY <3>2 DEF TakeRun, TakeResume, Goto, Base, TypeOK, Live
    <3>3. CASE ModelAnswers(w) \/ MarkRead(w) \/ MarkWrite(w)
      BY <3>3 DEF ModelAnswers, MarkRead, MarkWrite, Goto, Base, TypeOK, Live
    <3>4. CASE Continue(w)
      <4>1. CASE w \in Configured
        BY <3>4, <4>1 DEF Continue, Goto, Base, TypeOK, Live
      <4>2. CASE w \notin Configured
        BY <3>4, <4>2, StopsWorking DEF Continue
      <4>3. QED BY <4>1, <4>2
    <3>5. QED BY <1>3, <3>1, <3>2, <3>3, <3>4 DEF WorkerStep
  <2>3. QED BY <2>1, <2>2, SameAnswers, TokenFrame
<1>4. CASE \/ \E c \in Calls, v \in {"APPROVED", "REJECTED"} : Decide(c, v)
           \/ \E c \in Calls : EnqueueResume(c) \/ LoseResume(c)
           \/ \E r \in Runs : CancelRead(r) \/ CancelWrite(r) \/ PollEvents(r) \/ PollStatus(r)
  <2>1. /\ messages' = messages /\ prepared' = prepared /\ executed' = executed
        /\ callOf' = callOf /\ extra' = extra /\ pc' = pc /\ run' = run
    BY <1>4 DEF Decide, EnqueueResume, LoseResume, CancelRead, CancelWrite, PollEvents, PollStatus
  <2>2. \A w \in Workers : Live(w)' => Live(w)
    BY <2>1 DEF Live
  <2>3. QED BY <2>1, <2>2, SameAnswers, TokenFrame
<1>5. QED BY <1>1, <1>2, <1>3, <1>4 DEF Next

LEMMA TokenStep == Base /\ Tokens /\ [Next]_vars => Tokens'
  BY PrepareToken, BrokerToken, EscalateToken, CompleteToken, QuietToken

(* However many calls a turn escalates, the rights to answer for a run are  *)
(* one and as many more as turns escalated further calls.                   *)
THEOREM AnswerToken == Spec => [](Base /\ Tokens)
<1>1. Init => Base /\ Tokens
  BY BaseInit, TokenInit
<1>2. Base /\ Tokens /\ [Next]_vars => (Base /\ Tokens)'
  BY BaseStep, TokenStep
<1>3. QED BY <1>1, <1>2, PTL DEF Spec

(* However its jobs are delivered, retried or resumed (handle_agent_run,    *)
(* handle_mcp_resume), a run answers once, and once more for each further   *)
(* call that one of its turns escalated.                                    *)
THEOREM AnswersOnce == Spec => []OneAnswerPerRun
<1>1. Base /\ Tokens => OneAnswerPerRun
  <2> SUFFICES ASSUME Base, Tokens, NEW r \in Runs
               PROVE  Cardinality(Answers(r)) <= 1 + extra[r]
    BY DEF OneAnswerPerRun
  <2>1. TypeOK
    BY DEF Base
  <2>2. QED BY <2>1, Finiteness DEF Tokens
<1>2. QED BY <1>1, AnswerToken, PTL

(* No delivery of a job carries a run past a call that is pending or        *)
(* rejected (resume_after_tool, resume_required), except past the further   *)
(* calls of a turn that escalated several.                                  *)
THEOREM AnswersAfterVerdicts == Spec => []AnswerNeedsVerdicts
<1>1. Base /\ Tokens => AnswerNeedsVerdicts
  <2> SUFFICES ASSUME Base, Tokens, NEW r \in Runs, Answers(r) # {}
               PROVE  Cardinality(Unsettled(r)) <= extra[r]
    BY DEF AnswerNeedsVerdicts
  <2>1. Unsettled(r) = OpenCalls(r)
    BY DEF Base, WorkOK, Unsettled, OpenCalls
  <2>2. /\ IsFiniteSet(Answers(r)) /\ Cardinality(LiveAt(r)) \in Nat
        /\ Cardinality(OpenCalls(r)) \in Nat /\ Cardinality(Answers(r)) \in Nat
        /\ Free(r) \in {0, 1} /\ extra[r] \in Nat
    BY Finiteness DEF Base
  <2>3. Cardinality(Answers(r)) # 0
    BY <2>2, FS_EmptySet
  <2>4. Cardinality(LiveAt(r)) + Cardinality(OpenCalls(r)) + Cardinality(Answers(r)) + Free(r)
          <= 1 + extra[r]
    BY DEF Tokens
  <2>5. QED BY <2>1, <2>2, <2>3, <2>4
<1>2. QED BY <1>1, AnswerToken, PTL

(* Workers run the model for the same run at once only for the further      *)
(* calls of its turns (_prepare, the broker's lock on a resumed call).      *)
THEOREM ModelPhaseExclusive == Spec => []OneModelPhase
<1>1. Base /\ Tokens => OneModelPhase
  <2> SUFFICES ASSUME Base, Tokens, NEW r \in Runs
               PROVE  Cardinality({w \in Workers : pc[w] = "model" /\ run[w] = r}) <= 1 + extra[r]
    BY DEF OneModelPhase
  <2> DEFINE S == {w \in Workers : pc[w] = "model" /\ run[w] = r}
  <2>1. S \subseteq LiveAt(r)
    BY DEF LiveAt, Live
  <2>2. /\ IsFiniteSet(LiveAt(r)) /\ Cardinality(LiveAt(r)) \in Nat
        /\ Cardinality(OpenCalls(r)) \in Nat /\ Cardinality(Answers(r)) \in Nat
        /\ Free(r) \in {0, 1} /\ extra[r] \in Nat
    BY Finiteness DEF Base
  <2>3. IsFiniteSet(S) /\ Cardinality(S) <= Cardinality(LiveAt(r))
    BY <2>1, <2>2, FS_Subset
  <2>4. Cardinality(S) \in Nat
    BY <2>3, FS_CardinalityType
  <2>5. Cardinality(LiveAt(r)) + Cardinality(OpenCalls(r)) + Cardinality(Answers(r)) + Free(r)
          <= 1 + extra[r]
    BY DEF Tokens
  <2>6. QED BY <2>2, <2>3, <2>4, <2>5
<1>2. QED BY <1>1, AnswerToken, PTL
=============================================================================
