---------------------------- MODULE ToolRegistry ----------------------------
(***************************************************************************)
(* The registry of one MCP server and one of its tools                     *)
(* (packages/tools/registry.py behind apps/mcp_server/main.py): the server *)
(* is registered, discovered and reviewed, and an administrator reviews    *)
(* the versions of the tool, one per schema the server has offered.        *)
(*                                                                         *)
(* A discovery waits for the remote server between reading what it offers  *)
(* and writing.  A review of a version reads the rows without locks, then  *)
(* supersedes the version's siblings with one UPDATE and disables their    *)
(* policies with another, and writes its own version last.  Each UPDATE    *)
(* sees the siblings that are committed when it starts, waits for those    *)
(* that another review has updated, and holds them to the commit; reviews  *)
(* that wait for each other are a deadlock, and PostgreSQL aborts one.     *)
(* Only columns whose value differs from the one read are written.         *)
(***************************************************************************)
EXTENDS Naturals, FiniteSets

CONSTANTS Schemas,        \* schemas the remote server may offer for the tool
          Discoveries,    \* discovery requests
          Reviews,        \* review requests for tool versions
          None

ASSUME RegistryAssumption == None \notin Schemas

VARIABLES
    server,    \* MCPServer.status, "NONE" before it is registered
    offered,   \* the schema the remote server offers now
    known,     \* the schema behind MCPServer.discovery_hash
    tool,      \* MCPTool.status
    version,   \* MCPToolVersion.status of each schema
    policy,    \* MCPToolPolicy.status of each version
    listed,    \* what each discovery was told
    pc, target, seen,  \* each review: its step, its version, what it read
    siblings,  \* the siblings that each review's running UPDATE has seen
    superseded, disabled,  \* the siblings each review has updated so far
    approved,  \* the version of the last review that has committed (history)
    crossed    \* <<s, t>>: s was first discovered during a review of t (history)

vars == <<server, offered, known, tool, version, policy, listed, pc, target, seen,
          siblings, superseded, disabled, approved, crossed>>
rows == <<tool, version, policy>>
reviewVars == <<pc, target, seen, siblings, superseded, disabled>>
history == <<approved, crossed>>

VersionStatus == {"NONE", "PENDING_REVIEW", "ACTIVE", "SUPERSEDED"}
Underway == {"versions", "between", "policies", "updated"}
ReviewSteps == {"idle", "read", "done"} \cup Underway
PolicyStatus == {"NONE", "DRAFT", "ACTIVE", "DISABLED"}

TypeOK ==
    /\ server \in {"NONE", "PENDING_REVIEW", "ACTIVE", "SUSPENDED"}
    /\ offered \in Schemas
    /\ known \in Schemas \cup {None}
    /\ tool \in {"NONE", "PENDING_REVIEW", "ACTIVE"}
    /\ version \in [Schemas -> VersionStatus]
    /\ policy \in [Schemas -> PolicyStatus]
    /\ listed \in [Discoveries -> Schemas \cup {None}]
    /\ pc \in [Reviews -> ReviewSteps]
    /\ target \in [Reviews -> Schemas \cup {None}]
    /\ seen \in [Reviews -> [tool : VersionStatus, version : VersionStatus,
                             policy : PolicyStatus]]
    /\ siblings \in [Reviews -> SUBSET Schemas]
    /\ superseded \in [Reviews -> SUBSET Schemas]
    /\ disabled \in [Reviews -> SUBSET Schemas]
    /\ approved \in Schemas \cup {None}
    /\ crossed \subseteq Schemas \X Schemas

Unread == [tool |-> "NONE", version |-> "NONE", policy |-> "NONE"]

Init ==
    /\ server = "NONE"
    /\ offered \in Schemas
    /\ known = None
    /\ tool = "NONE"
    /\ version = [s \in Schemas |-> "NONE"]
    /\ policy = [s \in Schemas |-> "NONE"]
    /\ listed = [d \in Discoveries |-> None]
    /\ pc = [r \in Reviews |-> "idle"]
    /\ target = [r \in Reviews |-> None]
    /\ seen = [r \in Reviews |-> Unread]
    /\ siblings = [r \in Reviews |-> {}]
    /\ superseded = [r \in Reviews |-> {}]
    /\ disabled = [r \in Reviews |-> {}]
    /\ approved = None
    /\ crossed = {}
-----------------------------------------------------------------------------
Register ==
    /\ server = "NONE"
    /\ server' = "PENDING_REVIEW"
    /\ UNCHANGED <<offered, known, rows, listed, reviewVars, history>>

(* The remote server is deployed with another schema for the tool. *)
RemoteChanges(s) ==
    /\ s # offered
    /\ offered' = s
    /\ UNCHANGED <<server, known, rows, listed, reviewVars, history>>

DiscoverList(d) ==
    /\ server # "NONE"
    /\ listed[d] = None
    /\ listed' = [listed EXCEPT ![d] = offered]
    /\ UNCHANGED <<server, offered, known, rows, reviewVars, history>>

(* History: a version that is new here is no sibling to a review whose      *)
(* first UPDATE has started.                                                *)
Crossings(s) ==
    IF version[s] # "NONE" THEN {}
    ELSE {<<s, target[r]>> : r \in {q \in Reviews : pc[q] \in Underway}}

(* Mutated form: a version that comes with a discovery is usable at once. *)
DiscoverWriteActive(d) ==
    LET s == listed[d] IN
    /\ s # None
    /\ known' = s
    /\ tool' = "ACTIVE"
    /\ version' = [version EXCEPT ![s] = IF @ = "NONE" THEN "ACTIVE" ELSE @]
    /\ policy' = [policy EXCEPT ![s] = IF @ = "NONE" THEN "ACTIVE" ELSE @]
    /\ listed' = [listed EXCEPT ![d] = None]
    /\ crossed' = crossed \cup Crossings(s)
    /\ UNCHANGED <<server, offered, approved, reviewVars>>

(* discover and _upsert_discovered_tool: rows are created, none is changed *)
(* but the server's.                                                       *)
DiscoverWrite(d) ==
    LET s == listed[d] IN
    /\ s # None
    /\ known' = s
    /\ tool' = IF tool = "NONE" THEN "PENDING_REVIEW" ELSE tool
    /\ version' = [version EXCEPT ![s] = IF @ = "NONE" THEN "PENDING_REVIEW" ELSE @]
    /\ policy' = [policy EXCEPT ![s] = IF @ = "NONE" THEN "DRAFT" ELSE @]
    /\ listed' = [listed EXCEPT ![d] = None]
    /\ crossed' = crossed \cup Crossings(s)
    /\ UNCHANGED <<server, offered, approved, reviewVars>>

(* The remote server is away, or another discovery created the same rows. *)
DiscoverFails(d) ==
    /\ listed[d] # None
    /\ listed' = [listed EXCEPT ![d] = None]
    /\ UNCHANGED <<server, offered, known, rows, reviewVars, history>>

ReviewServer(s) ==
    /\ server # "NONE"
    /\ s = "ACTIVE" => known # None
    /\ server' = s
    /\ UNCHANGED <<offered, known, rows, listed, reviewVars, history>>
-----------------------------------------------------------------------------
(* review_tool_version finds the rows, and the server active. *)
ReviewRead(r, s) ==
    /\ pc[r] = "idle"
    /\ server = "ACTIVE"
    /\ version[s] # "NONE"
    /\ pc' = [pc EXCEPT ![r] = "read"]
    /\ target' = [target EXCEPT ![r] = s]
    /\ seen' = [seen EXCEPT ![r] = [tool |-> tool, version |-> version[s], policy |-> policy[s]]]
    /\ UNCHANGED <<server, offered, known, rows, listed, siblings, superseded, disabled, history>>

(* Mutated form: only versions in use are superseded. *)
SiblingsInUse(s) == {t \in Schemas \ {s} : version[t] = "ACTIVE"}

Siblings(s) == {t \in Schemas \ {s} : version[t] # "NONE"}

(* Rows another review has updated and not committed. *)
VersionLocked(r, s) == \E q \in Reviews \ {r} : s \in superseded[q]
PolicyLocked(r, s) == \E q \in Reviews \ {r} : s \in disabled[q]

(* Each of the two UPDATEs starts with a look at the siblings ... *)
StartUpdate(r) ==
    /\ \/ pc[r] = "read" /\ pc' = [pc EXCEPT ![r] = "versions"]
       \/ pc[r] = "between" /\ pc' = [pc EXCEPT ![r] = "policies"]
    /\ siblings' = [siblings EXCEPT ![r] = Siblings(target[r])]
    /\ UNCHANGED <<server, offered, known, rows, listed, target, seen, superseded, disabled, history>>

(* ... and ends when it has got their rows. *)
SupersedeVersions(r) ==
    /\ pc[r] = "versions"
    /\ \A s \in siblings[r] : ~VersionLocked(r, s)
    /\ pc' = [pc EXCEPT ![r] = "between"]
    /\ superseded' = [superseded EXCEPT ![r] = siblings[r]]
    /\ UNCHANGED <<server, offered, known, rows, listed, target, seen, siblings, disabled, history>>

(* Mutated form: the siblings' policies are left as they are. *)
DisableNoPolicies(r) ==
    /\ pc[r] = "policies"
    /\ pc' = [pc EXCEPT ![r] = "updated"]
    /\ UNCHANGED <<server, offered, known, rows, listed, target, seen, siblings, superseded,
                   disabled, history>>

DisablePolicies(r) ==
    /\ pc[r] = "policies"
    /\ \A s \in siblings[r] : ~PolicyLocked(r, s)
    /\ pc' = [pc EXCEPT ![r] = "updated"]
    /\ disabled' = [disabled EXCEPT ![r] = siblings[r]]
    /\ UNCHANGED <<server, offered, known, rows, listed, target, seen, siblings, superseded, history>>

(* A column that is assigned the value it was read with is not written. *)
Assigned(current, read, v) == IF read = v THEN current ELSE v

Ended(r) ==
    /\ pc' = [pc EXCEPT ![r] = "done"]
    /\ target' = [target EXCEPT ![r] = None]
    /\ siblings' = [siblings EXCEPT ![r] = {}]
    /\ superseded' = [superseded EXCEPT ![r] = {}]
    /\ disabled' = [disabled EXCEPT ![r] = {}]
    /\ seen' = [seen EXCEPT ![r] = Unread]

VersionAfter(r, s) ==
    IF s \in superseded[r] THEN "SUPERSEDED"
    ELSE IF s = target[r] THEN Assigned(version[s], seen[r].version, "ACTIVE")
    ELSE version[s]

PolicyAfter(r, s) ==
    IF s \in disabled[r] THEN "DISABLED"
    ELSE IF s = target[r] THEN Assigned(policy[s], seen[r].policy, "ACTIVE")
    ELSE policy[s]

(* Everything becomes visible at the commit: the siblings' rows as they     *)
(* were updated, and the review's own version, policy and tool.             *)
ReviewCommit(r) ==
    LET s == target[r] IN
    /\ pc[r] = "updated"
    /\ ~VersionLocked(r, s) /\ ~PolicyLocked(r, s)
    /\ version' = [t \in Schemas |-> VersionAfter(r, t)]
    /\ policy' = [t \in Schemas |-> PolicyAfter(r, t)]
    /\ tool' = Assigned(tool, seen[r].tool, "ACTIVE")
    /\ approved' = s
    /\ Ended(r)
    /\ UNCHANGED <<server, offered, known, listed, crossed>>

(* The request fails, or is the victim of a deadlock. *)
ReviewAborts(r) ==
    /\ pc[r] \in {"read"} \cup Underway
    /\ Ended(r)
    /\ UNCHANGED <<server, offered, known, rows, listed, history>>
-----------------------------------------------------------------------------
Next ==
    \/ Register
    \/ \E s \in Schemas : RemoteChanges(s)
    \/ \E d \in Discoveries : DiscoverList(d) \/ DiscoverWrite(d) \/ DiscoverFails(d)
    \/ \E s \in {"ACTIVE", "SUSPENDED"} : ReviewServer(s)
    \/ \E r \in Reviews, s \in Schemas : ReviewRead(r, s)
    \/ \E r \in Reviews : StartUpdate(r) \/ SupersedeVersions(r) \/ DisablePolicies(r)
    \/ \E r \in Reviews : ReviewCommit(r) \/ ReviewAborts(r)

Spec == Init /\ [][Next]_vars

(* What _resolve asks of a version before a call may use it. *)
Runnable(s) == server = "ACTIVE" /\ tool = "ACTIVE"
               /\ version[s] = "ACTIVE" /\ policy[s] = "ACTIVE"
-----------------------------------------------------------------------------
(* A tool call finds at most one version of the tool, although reviews of   *)
(* sibling versions overlap: _resolve takes one row and states no order     *)
(* between versions.  Two versions run at once only if one of them was      *)
(* discovered while the other's review was past the start of its UPDATE     *)
(* (registry.py:139), which does not see it.                                *)
OneRunnableVersion ==
    \A s, t \in Schemas : Runnable(s) /\ Runnable(t) =>
        s = t \/ <<s, t>> \in crossed \/ <<t, s>> \in crossed

(* What runs is what the last review to commit has approved, whatever other *)
(* reviews have read, waited for and superseded: no earlier approval stays  *)
(* in force beside it, except for a version that was discovered during that *)
(* last review.                                                             *)
LastReviewRuns ==
    \A s \in Schemas : Runnable(s) => s = approved \/ <<s, approved>> \in crossed

(* A version's policy and its status agree, through overlapping reviews and *)
(* columns that are not written because they were read as they should be.   *)
(* The exception is a version that was discovered during a review: the      *)
(* UPDATE of the policies may see it where that of the versions did not     *)
(* (registry.py:139, :144).                                                 *)
PolicyFollowsVersion ==
    \A s \in Schemas :
        \/ version[s] = "ACTIVE" <=> policy[s] = "ACTIVE"
        \/ \E t \in Schemas : <<s, t>> \in crossed
=============================================================================
