------------------------------- MODULE Memory -------------------------------
(***************************************************************************)
(* Memory records (packages/memory/service.py), the worker's embedding job *)
(* (apps/worker/handlers.py) and the context a run starts from             *)
(* (packages/memory/context.py).                                           *)
(*                                                                         *)
(* The embedding is computed between two transactions.  No row is locked,  *)
(* so the reads and the commit of a request are two actions, and the ORM   *)
(* writes only the columns that differ from what it loaded.  The job queue *)
(* may hand the job out again, to a second worker too.                     *)
(***************************************************************************)
EXTENDS Naturals, FiniteSets

CONSTANTS
    People,
    OrgAdmins,      \* people with the role organization-admin
    Memories,
    Embedders,      \* workers that handle memory.embed jobs
    ContextRuns,    \* runs that assemble a context
    RunUser,        \* RunUser[r]: the user of a run
    RecallLimit,    \* memories that fit a context, by the limit of 20 and the token budget
    Nil

VARIABLES
    memory,         \* rows of memory.records
    embedder,       \* the embedding job of a worker
    forgetting,     \* forget requests between their read and their commit
    crossed,        \* memories whose forgetting and embedding were both open at once
    recall          \* memories in the context snapshot of a run

memoryVars == <<memory, embedder, forgetting, crossed, recall>>

ASSUME MemoryAssumption ==
    /\ OrgAdmins \subseteq People /\ RunUser \in [ContextRuns -> People] /\ RecallLimit \in Nat
    /\ Nil \notin People \cup Memories

Ranks == [PUBLIC |-> 0, INTERNAL |-> 1, CONFIDENTIAL |-> 2, RESTRICTED |-> 3]
Sensitivities == DOMAIN Ranks
Allowed(maximum) == {s \in Sensitivities : Ranks[s] <= Ranks[maximum]}

NoMemory == [status |-> "NONE", owner |-> Nil, sensitivity |-> "INTERNAL", expired |-> FALSE,
             content |-> FALSE, embedding |-> FALSE]
NoWork == [step |-> "idle", memory |-> Nil]
NoForgetting == [memory |-> Nil, embedding |-> FALSE]

MemoryInit ==
    /\ memory = [m \in Memories |-> NoMemory]
    /\ embedder = [w \in Embedders |-> NoWork]
    /\ forgetting = [u \in People |-> NoForgetting]
    /\ crossed = {}
    /\ recall = [r \in ContextRuns |-> [step |-> "none", memories |-> {}]]

\* A fact of the organization has no owner, and only an admin writes one.
CreateMemory(m, u, organization, sensitivity) ==
    /\ memory[m] = NoMemory /\ (organization => u \in OrgAdmins)
    /\ memory' = [memory EXCEPT ![m] =
         [status |-> "ACTIVE", owner |-> IF organization THEN Nil ELSE u,
          sensitivity |-> sensitivity, expired |-> FALSE, content |-> TRUE, embedding |-> FALSE]]
    /\ UNCHANGED <<embedder, forgetting, crossed, recall>>

\* The row with other values in the two columns that change on their own.
Updated(m, expired, embedding) ==
    [status |-> memory[m].status, owner |-> memory[m].owner, sensitivity |-> memory[m].sensitivity,
     expired |-> expired, content |-> memory[m].content, embedding |-> embedding]

MemoryExpires(m) ==
    /\ memory[m].status # "NONE"
    /\ memory' = [memory EXCEPT ![m] = Updated(m, TRUE, memory[m].embedding)]
    /\ UNCHANGED <<embedder, forgetting, crossed, recall>>

-----------------------------------------------------------------------------
BeginEmbed(w, m) ==
    /\ embedder[w] = NoWork /\ memory[m].status = "ACTIVE" /\ ~memory[m].embedding
    /\ embedder' = [embedder EXCEPT ![w] = [step |-> "computing", memory |-> m]]
    /\ UNCHANGED <<memory, forgetting, crossed, recall>>

\* Mutated form: the embedding is stored without another look at the record.
StillActiveUnchecked(m) == TRUE

StillActive(m) == memory[m].status = "ACTIVE"

BeingForgotten(m) == \E u \in People : forgetting[u].memory = m

\* The embedding is there; a new transaction reads the record again.
OpenEmbedding(w) ==
    /\ embedder[w].step = "computing" /\ StillActive(embedder[w].memory)
    /\ embedder' = [embedder EXCEPT ![w] = [step |-> "writing", memory |-> embedder[w].memory]]
    /\ crossed' = IF BeingForgotten(embedder[w].memory)
                  THEN crossed \cup {embedder[w].memory} ELSE crossed
    /\ UNCHANGED <<memory, forgetting, recall>>

WriteEmbedding(w) ==
    /\ embedder[w].step = "writing"
    /\ LET m == embedder[w].memory
       IN  memory' = [memory EXCEPT ![m] = Updated(m, memory[m].expired, TRUE)]
    /\ embedder' = [embedder EXCEPT ![w] = NoWork]
    /\ UNCHANGED <<forgetting, crossed, recall>>

\* The provider fails, the record is gone, or the worker dies.
EmbedEnds(w) ==
    /\ embedder[w] # NoWork
    /\ embedder' = [embedder EXCEPT ![w] = NoWork]
    /\ UNCHANGED <<memory, forgetting, crossed, recall>>

-----------------------------------------------------------------------------
\* get and forget; the status of the record is not asked.
BeginForget(u, m) ==
    /\ forgetting[u] = NoForgetting /\ memory[m].status # "NONE"
    /\ memory[m].owner = u \/ (memory[m].owner = Nil /\ u \in OrgAdmins)
    /\ forgetting' = [forgetting EXCEPT ![u] = [memory |-> m, embedding |-> memory[m].embedding]]
    /\ crossed' = IF \E w \in Embedders : embedder[w] = [step |-> "writing", memory |-> m]
                  THEN crossed \cup {m} ELSE crossed
    /\ UNCHANGED <<memory, embedder, recall>>

\* Setting an embedding to None that was loaded as None writes nothing.
CommitForget(u) ==
    LET m == forgetting[u].memory
    IN  /\ m # Nil
        /\ memory' = [memory EXCEPT ![m] =
             [status |-> "FORGOTTEN", owner |-> memory[m].owner,
              sensitivity |-> memory[m].sensitivity, expired |-> memory[m].expired,
              content |-> FALSE, embedding |-> ~forgetting[u].embedding /\ memory[m].embedding]]
        /\ forgetting' = [forgetting EXCEPT ![u] = NoForgetting]
        /\ UNCHANGED <<embedder, crossed, recall>>

ForgetFails(u) ==
    /\ forgetting[u] # NoForgetting
    /\ forgetting' = [forgetting EXCEPT ![u] = NoForgetting]
    /\ UNCHANGED <<memory, embedder, crossed, recall>>

-----------------------------------------------------------------------------
\* What search and the context see for a user.
Recallable(u, maximum) ==
    {m \in Memories : /\ memory[m].status = "ACTIVE" /\ ~memory[m].expired
                      /\ memory[m].owner \in {u, Nil}
                      /\ memory[m].sensitivity \in Allowed(maximum)}

\* The newest ones, as many as fit; which are the newest is left open.
BeginAssemble(r) ==
    /\ recall[r].step = "none"
    /\ \E chosen \in SUBSET Recallable(RunUser[r], "CONFIDENTIAL") :
         /\ Cardinality(chosen) <= RecallLimit
         /\ chosen # Recallable(RunUser[r], "CONFIDENTIAL") => Cardinality(chosen) = RecallLimit
         /\ recall' = [recall EXCEPT ![r] = [step |-> "read", memories |-> chosen]]
    /\ UNCHANGED <<memory, embedder, forgetting, crossed>>

\* The snapshot of a run's turn is stored once; a failed attempt leaves none.
CommitAssemble(r, kept) ==
    /\ recall[r].step = "read"
    /\ recall' = [recall EXCEPT ![r] =
         IF kept THEN [step |-> "stored", memories |-> recall[r].memories]
         ELSE [step |-> "none", memories |-> {}]]
    /\ UNCHANGED <<memory, embedder, forgetting, crossed>>

MemoryNext ==
    \/ \E m \in Memories :
         \/ \E u \in People, organization \in BOOLEAN, sensitivity \in {"CONFIDENTIAL", "RESTRICTED"} :
              CreateMemory(m, u, organization, sensitivity)
         \/ MemoryExpires(m)
         \/ \E w \in Embedders : BeginEmbed(w, m)
         \/ \E u \in People : BeginForget(u, m)
    \/ \E w \in Embedders : OpenEmbedding(w) \/ WriteEmbedding(w) \/ EmbedEnds(w)
    \/ \E u \in People : CommitForget(u) \/ ForgetFails(u)
    \/ \E r \in ContextRuns : BeginAssemble(r) \/ \E kept \in BOOLEAN : CommitAssemble(r, kept)

MemorySpec == MemoryInit /\ [][MemoryNext]_memoryVars

-----------------------------------------------------------------------------
\* A forgotten memory is gone: its content is erased for good, and an embedding
\* computed from it while it was forgotten is not stored afterwards.  One
\* survives only when the two transactions were open at the same time
\* (forget, handle_memory_embed).
ForgottenIsErased ==
    \A m \in Memories : memory[m].status = "FORGOTTEN" =>
      ~memory[m].content /\ (memory[m].embedding => m \in crossed)
=============================================================================
