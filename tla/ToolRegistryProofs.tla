------------------------- MODULE ToolRegistryProofs -------------------------
(***************************************************************************)
(* The reviews of tool versions, for every number of schemas, discoveries  *)
(* and reviews that overlap.                                               *)
(*                                                                         *)
(* None of the three properties is inductive by itself.  A review writes   *)
(* what follows from rows it read earlier, so its reading must have been   *)
(* consistent (ReadingsAgree); and its two UPDATEs must have seen the same *)
(* siblings, and all that there are now (SeesSiblings), except for those   *)
(* that were discovered since the first of them started.                   *)
(***************************************************************************)
EXTENDS ToolRegistry, TLAPS

\* Versions that were discovered during a review.
Late(s) == \E t \in Schemas : <<s, t>> \in crossed

\* A review under way has a version, and updates rows of other versions only.
ReviewsOK ==
    \A r \in Reviews :
        /\ pc[r] \in {"read"} \cup Underway => target[r] \in Schemas /\ version[target[r]] # "NONE"
        /\ target[r] \notin siblings[r] \cup superseded[r] \cup disabled[r]
        /\ \A t \in siblings[r] \cup superseded[r] \cup disabled[r] : version[t] # "NONE"

IdleOK ==
    \A r \in Reviews : pc[r] = "idle" =>
        siblings[r] = {} /\ superseded[r] = {} /\ disabled[r] = {}

SeesSiblings ==
    \A r \in Reviews, t \in Schemas : version[t] # "NONE" /\ t # target[r] =>
        /\ pc[r] = "versions" => t \in siblings[r] \/ <<t, target[r]>> \in crossed
        /\ pc[r] \in {"between", "policies", "updated"} =>
             t \in superseded[r] \/ <<t, target[r]>> \in crossed
        /\ pc[r] = "policies" => t \in siblings[r] \/ <<t, target[r]>> \in crossed
        /\ pc[r] = "updated" => t \in disabled[r] \/ <<t, target[r]>> \in crossed

\* What a review has read of its version goes together.
ReadingsAgree ==
    \A r \in Reviews : pc[r] \in {"read"} \cup Underway =>
        Late(target[r]) \/ (seen[r].version = "ACTIVE" <=> seen[r].policy = "ACTIVE")

OneActive ==
    \A s, t \in Schemas : version[s] = "ACTIVE" /\ version[t] = "ACTIVE" =>
        s = t \/ <<s, t>> \in crossed \/ <<t, s>> \in crossed

ActiveApproved ==
    \A s \in Schemas : version[s] = "ACTIVE" => s = approved \/ <<s, approved>> \in crossed

RegistryInv == TypeOK /\ ReviewsOK /\ IdleOK /\ SeesSiblings /\ ReadingsAgree /\ PolicyFollowsVersion
               /\ OneActive /\ ActiveApproved

USE RegistryAssumption DEF rows, reviewVars, history, VersionStatus, PolicyStatus, Underway, ReviewSteps
-----------------------------------------------------------------------------
LEMMA EndedShape ==
    ASSUME TypeOK, NEW r \in Reviews, Ended(r)
    PROVE  /\ pc' \in [Reviews -> ReviewSteps] /\ target' \in [Reviews -> Schemas \cup {None}]
           /\ seen' \in [Reviews -> [tool : VersionStatus, version : VersionStatus, policy : PolicyStatus]]
           /\ siblings' \in [Reviews -> SUBSET Schemas]
           /\ superseded' \in [Reviews -> SUBSET Schemas] /\ disabled' \in [Reviews -> SUBSET Schemas]
           /\ pc'[r] = "done" /\ siblings'[r] = {} /\ superseded'[r] = {} /\ disabled'[r] = {}
           /\ \A q \in Reviews : q # r =>
                /\ pc'[q] = pc[q] /\ target'[q] = target[q] /\ seen'[q] = seen[q]
                /\ siblings'[q] = siblings[q] /\ superseded'[q] = superseded[q]
                /\ disabled'[q] = disabled[q]
<1>1. Unread \in [tool : VersionStatus, version : VersionStatus, policy : PolicyStatus]
  BY DEF Unread
<1>2. QED BY <1>1 DEF Ended, TypeOK

LEMMA InvInit == Init => RegistryInv
<1> SUFFICES ASSUME Init PROVE RegistryInv
  OBVIOUS
<1>1. Unread \in [tool : VersionStatus, version : VersionStatus, policy : PolicyStatus]
  BY DEF Unread
<1>2. TypeOK
  BY <1>1 DEF Init, TypeOK
<1>3. \A s \in Schemas : version[s] = "NONE" /\ policy[s] = "NONE"
  BY DEF Init
<1>4. \A r \in Reviews : pc[r] = "idle" /\ siblings[r] = {} /\ superseded[r] = {} /\ disabled[r] = {}
  BY DEF Init
<1>5. ReviewsOK /\ IdleOK /\ SeesSiblings /\ ReadingsAgree
  BY <1>3, <1>4 DEF ReviewsOK, IdleOK, SeesSiblings, ReadingsAgree
<1>6. PolicyFollowsVersion /\ OneActive /\ ActiveApproved
  BY <1>3 DEF PolicyFollowsVersion, OneActive, ActiveApproved
<1>7. QED BY <1>2, <1>5, <1>6 DEF RegistryInv

\* Steps that leave the tool's rows, the reviews and the history alone.
LEMMA OutsideStep ==
    ASSUME RegistryInv,
           \/ Register
           \/ \E s \in Schemas : RemoteChanges(s)
           \/ \E d \in Discoveries : DiscoverList(d) \/ DiscoverFails(d)
           \/ \E s \in {"ACTIVE", "SUSPENDED"} : ReviewServer(s)
           \/ UNCHANGED vars
    PROVE  RegistryInv'
<1>1. UNCHANGED <<rows, reviewVars, history>>
  BY DEF Register, RemoteChanges, DiscoverList, DiscoverFails, ReviewServer, vars
<1>2. TypeOK'
  BY DEF RegistryInv, TypeOK, Register, RemoteChanges, DiscoverList, DiscoverFails, ReviewServer, vars
<1>3. ReviewsOK' /\ IdleOK' /\ SeesSiblings'
  BY <1>1 DEF RegistryInv, ReviewsOK, IdleOK, SeesSiblings
<1>4. ReadingsAgree' /\ PolicyFollowsVersion' /\ OneActive' /\ ActiveApproved'
  BY <1>1 DEF RegistryInv, ReadingsAgree, PolicyFollowsVersion, OneActive, ActiveApproved, Late
<1>5. QED BY <1>2, <1>3, <1>4 DEF RegistryInv

\* A discovery creates rows that nobody may use yet; a version that is new to
\* a review under way has crossed it.
LEMMA DiscoverStep ==
    ASSUME RegistryInv, NEW d \in Discoveries, DiscoverWrite(d)
    PROVE  RegistryInv'
<1>0. PICK s : s = listed[d]
  OBVIOUS
<1>1. s \in Schemas
  BY <1>0 DEF DiscoverWrite, RegistryInv, TypeOK
<1>2. /\ version' \in [Schemas -> VersionStatus] /\ policy' \in [Schemas -> PolicyStatus]
      /\ \A t \in Schemas : t # s => version'[t] = version[t] /\ policy'[t] = policy[t]
      /\ version[s] = "NONE" => version'[s] = "PENDING_REVIEW"
      /\ version[s] # "NONE" => version'[s] = version[s]
      /\ policy[s] = "NONE" => policy'[s] = "DRAFT"
      /\ policy[s] # "NONE" => policy'[s] = policy[s]
  BY <1>0, <1>1 DEF DiscoverWrite, RegistryInv, TypeOK
<1>3. UNCHANGED <<server, offered, approved, reviewVars>> /\ known' = s
  BY <1>0 DEF DiscoverWrite
<1>4. crossed' = crossed \cup Crossings(s)
  BY <1>0 DEF DiscoverWrite
<1>5. /\ crossed' \subseteq Schemas \X Schemas /\ crossed \subseteq crossed'
      /\ version[s] = "NONE" => \A r \in Reviews : pc[r] \in Underway => <<s, target[r]>> \in crossed'
      /\ \A t, u : <<t, u>> \in crossed' => <<t, u>> \in crossed \/ (t = s /\ version[s] = "NONE")
  <2>1. Crossings(s) \subseteq Schemas \X Schemas
    BY <1>1 DEF Crossings, RegistryInv, ReviewsOK
  <2>2. QED BY <1>4, <2>1 DEF Crossings, RegistryInv, TypeOK
<1>6. TypeOK'
  BY <1>0, <1>1, <1>2, <1>3, <1>5 DEF DiscoverWrite, RegistryInv, TypeOK
<1>7. \A t \in Schemas : /\ version'[t] = "ACTIVE" <=> version[t] = "ACTIVE"
                         /\ policy'[t] = "ACTIVE" <=> policy[t] = "ACTIVE"
                         /\ version[t] # "NONE" => version'[t] # "NONE"
                         /\ version'[t] # "NONE" => version[t] # "NONE" \/ (t = s /\ version[s] = "NONE")
  BY <1>1, <1>2
<1>8. ReviewsOK' /\ IdleOK'
  BY <1>3, <1>7 DEF RegistryInv, ReviewsOK, IdleOK, TypeOK
<1>9. SeesSiblings'
  BY <1>1, <1>3, <1>5, <1>7 DEF RegistryInv, SeesSiblings
<1>10. ReadingsAgree'
  <2>1. \A t \in Schemas : Late(t) => Late(t)'
    BY <1>5 DEF Late
  <2>2. QED BY <1>3, <2>1 DEF RegistryInv, ReadingsAgree, ReviewsOK
<1>11. PolicyFollowsVersion'
  BY <1>5, <1>7 DEF RegistryInv, PolicyFollowsVersion
<1>12. OneActive' /\ ActiveApproved'
  BY <1>3, <1>5, <1>7 DEF RegistryInv, OneActive, ActiveApproved
<1>13. QED BY <1>6, <1>8, <1>9, <1>10, <1>11, <1>12 DEF RegistryInv

LEMMA ReadStep ==
    ASSUME RegistryInv, NEW r \in Reviews, NEW s \in Schemas, ReviewRead(r, s)
    PROVE  RegistryInv'
<1> DEFINE new == [tool |-> tool, version |-> version[s], policy |-> policy[s]]
<1>1. /\ new \in [tool : VersionStatus, version : VersionStatus, policy : PolicyStatus]
      /\ new.version = version[s] /\ new.policy = policy[s]
  BY DEF RegistryInv, TypeOK
<1>2. seen' = [seen EXCEPT ![r] = new]
  BY DEF ReviewRead
<1> HIDE DEF new
<1>3. TypeOK'
  BY <1>1, <1>2 DEF ReviewRead, RegistryInv, TypeOK
<1>4. /\ pc'[r] = "read" /\ target'[r] = s /\ seen'[r] = new
      /\ \A q \in Reviews : q # r => pc'[q] = pc[q] /\ target'[q] = target[q] /\ seen'[q] = seen[q]
      /\ UNCHANGED <<version, policy, siblings, superseded, disabled, history>>
      /\ version[s] # "NONE" /\ pc[r] = "idle"
  BY <1>2 DEF ReviewRead, RegistryInv, TypeOK
<1>5. siblings[r] = {} /\ superseded[r] = {} /\ disabled[r] = {}
  BY <1>4 DEF RegistryInv, IdleOK, TypeOK
<1>6. ReviewsOK'
  BY <1>4, <1>5 DEF RegistryInv, ReviewsOK
<1>7. SeesSiblings'
  BY <1>4 DEF RegistryInv, SeesSiblings
<1>8. ReadingsAgree'
  BY <1>1, <1>4 DEF RegistryInv, ReadingsAgree, PolicyFollowsVersion, Late
<1>9. PolicyFollowsVersion' /\ OneActive' /\ ActiveApproved'
  BY <1>4 DEF RegistryInv, PolicyFollowsVersion, OneActive, ActiveApproved
<1>10. QED BY <1>3, <1>4, <1>5, <1>6, <1>7, <1>8, <1>9 DEF RegistryInv, IdleOK

\* Either UPDATE takes every sibling there is when it starts.
LEMMA UpdateStep ==
    ASSUME RegistryInv, NEW r \in Reviews,
           StartUpdate(r) \/ SupersedeVersions(r) \/ DisablePolicies(r)
    PROVE  RegistryInv'
<1>1. /\ UNCHANGED <<server, offered, known, rows, listed, target, seen, history>>
      /\ pc[r] \in {"read"} \cup Underway /\ pc'[r] \in Underway
      /\ \A q \in Reviews : q # r =>
            /\ pc'[q] = pc[q] /\ siblings'[q] = siblings[q]
            /\ superseded'[q] = superseded[q] /\ disabled'[q] = disabled[q]
  BY DEF StartUpdate, SupersedeVersions, DisablePolicies, RegistryInv, TypeOK
<1>2. /\ target[r] \notin Siblings(target[r]) /\ Siblings(target[r]) \subseteq Schemas
      /\ \A t \in Schemas : version[t] # "NONE" /\ t # target[r] <=> t \in Siblings(target[r])
  BY DEF Siblings
<1>3. TypeOK'
  <2>0. Siblings(target[r]) \in SUBSET Schemas /\ siblings[r] \in SUBSET Schemas
    BY <1>2 DEF RegistryInv, TypeOK
  <2>1. pc' \in [Reviews -> ReviewSteps]
    BY DEF StartUpdate, SupersedeVersions, DisablePolicies, RegistryInv, TypeOK
  <2>2. /\ siblings' \in [Reviews -> SUBSET Schemas]
        /\ superseded' \in [Reviews -> SUBSET Schemas] /\ disabled' \in [Reviews -> SUBSET Schemas]
    <3>1. CASE StartUpdate(r)
      BY <2>0, <3>1 DEF StartUpdate, RegistryInv, TypeOK
    <3>2. CASE SupersedeVersions(r)
      BY <2>0, <3>2 DEF SupersedeVersions, RegistryInv, TypeOK
    <3>3. CASE DisablePolicies(r)
      BY <2>0, <3>3 DEF DisablePolicies, RegistryInv, TypeOK
    <3>4. QED BY <3>1, <3>2, <3>3
  <2>3. QED BY <1>1, <2>1, <2>2 DEF RegistryInv, TypeOK
<1>4. \/ /\ pc[r] = "read" /\ pc'[r] = "versions" /\ siblings'[r] = Siblings(target[r])
         /\ superseded'[r] = superseded[r] /\ disabled'[r] = disabled[r]
      \/ /\ pc[r] = "between" /\ pc'[r] = "policies" /\ siblings'[r] = Siblings(target[r])
         /\ superseded'[r] = superseded[r] /\ disabled'[r] = disabled[r]
      \/ /\ pc[r] = "versions" /\ pc'[r] = "between" /\ superseded'[r] = siblings[r]
         /\ siblings'[r] = siblings[r] /\ disabled'[r] = disabled[r]
      \/ /\ pc[r] = "policies" /\ pc'[r] = "updated" /\ disabled'[r] = siblings[r]
         /\ siblings'[r] = siblings[r] /\ superseded'[r] = superseded[r]
  BY DEF StartUpdate, SupersedeVersions, DisablePolicies, RegistryInv, TypeOK
<1>5. /\ target[r] \in Schemas /\ version[target[r]] # "NONE"
      /\ target[r] \notin siblings'[r] \cup superseded'[r] \cup disabled'[r]
      /\ \A t \in siblings'[r] \cup superseded'[r] \cup disabled'[r] : version[t] # "NONE"
  BY <1>1, <1>2, <1>4 DEF RegistryInv, ReviewsOK
<1>6. ReviewsOK' /\ IdleOK'
  BY <1>1, <1>5 DEF RegistryInv, ReviewsOK, IdleOK
<1>7. SeesSiblings'
  BY <1>1, <1>2, <1>4 DEF RegistryInv, SeesSiblings
<1>8. ReadingsAgree' /\ PolicyFollowsVersion' /\ OneActive' /\ ActiveApproved'
  BY <1>1 DEF RegistryInv, ReadingsAgree, PolicyFollowsVersion, OneActive, ActiveApproved, Late
<1>9. QED BY <1>3, <1>6, <1>7, <1>8 DEF RegistryInv

\* The commit: what the review assigned, and what it superseded.
LEMMA CommitStep ==
    ASSUME RegistryInv, NEW r \in Reviews, ReviewCommit(r)
    PROVE  RegistryInv'
<1>0. PICK s : s = target[r]
  OBVIOUS
<1>1. /\ pc[r] = "updated" /\ s \in Schemas /\ version[s] # "NONE"
      /\ s \notin superseded[r] /\ s \notin disabled[r]
      /\ Ended(r) /\ UNCHANGED <<server, offered, known, listed, crossed>> /\ approved' = s
      /\ tool' = Assigned(tool, seen[r].tool, "ACTIVE")
      /\ version' = [t \in Schemas |-> VersionAfter(r, t)]
      /\ policy' = [t \in Schemas |-> PolicyAfter(r, t)]
  BY <1>0 DEF ReviewCommit, RegistryInv, ReviewsOK
<1>2. /\ \A t \in Schemas : t \in superseded[r] => version'[t] = "SUPERSEDED"
      /\ \A t \in Schemas : t \notin superseded[r] /\ t # s => version'[t] = version[t]
      /\ seen[r].version = "ACTIVE" => version'[s] = version[s]
      /\ seen[r].version # "ACTIVE" => version'[s] = "ACTIVE"
  BY <1>0, <1>1 DEF VersionAfter, Assigned
<1>3. /\ \A t \in Schemas : t \in disabled[r] => policy'[t] = "DISABLED"
      /\ \A t \in Schemas : t \notin disabled[r] /\ t # s => policy'[t] = policy[t]
      /\ seen[r].policy = "ACTIVE" => policy'[s] = policy[s]
      /\ seen[r].policy # "ACTIVE" => policy'[s] = "ACTIVE"
  BY <1>0, <1>1 DEF PolicyAfter, Assigned
<1>4. /\ pc' \in [Reviews -> ReviewSteps] /\ target' \in [Reviews -> Schemas \cup {None}]
      /\ seen' \in [Reviews -> [tool : VersionStatus, version : VersionStatus, policy : PolicyStatus]]
      /\ siblings' \in [Reviews -> SUBSET Schemas]
      /\ superseded' \in [Reviews -> SUBSET Schemas] /\ disabled' \in [Reviews -> SUBSET Schemas]
      /\ pc'[r] = "done" /\ siblings'[r] = {} /\ superseded'[r] = {} /\ disabled'[r] = {}
      /\ \A q \in Reviews : q # r =>
           /\ pc'[q] = pc[q] /\ target'[q] = target[q] /\ seen'[q] = seen[q]
           /\ siblings'[q] = siblings[q] /\ superseded'[q] = superseded[q]
           /\ disabled'[q] = disabled[q]
  BY <1>1, EndedShape DEF RegistryInv
<1>5. \A t \in Schemas : version'[t] \in VersionStatus /\ policy'[t] \in PolicyStatus
  BY <1>1, <1>2, <1>3 DEF RegistryInv, TypeOK
<1>6. version' \in [Schemas -> VersionStatus] /\ policy' \in [Schemas -> PolicyStatus]
  BY <1>1, <1>5
<1>7. tool' \in {"NONE", "PENDING_REVIEW", "ACTIVE"}
  BY <1>1 DEF Assigned, RegistryInv, TypeOK
<1>8. TypeOK'
  BY <1>1, <1>4, <1>6, <1>7 DEF RegistryInv, TypeOK
<1>9. \A t \in Schemas : version'[t] # "NONE" <=> version[t] # "NONE"
  <2>1. \A t \in superseded[r] : version[t] # "NONE"
    BY DEF RegistryInv, ReviewsOK
  <2>2. QED BY <1>1, <1>2, <2>1
<1>10. ReviewsOK' /\ IdleOK'
  <2>1. IdleOK'
    BY <1>4 DEF RegistryInv, IdleOK
  <2>2. ASSUME NEW q \in Reviews
        PROVE  /\ pc'[q] \in {"read"} \cup Underway =>
                    target'[q] \in Schemas /\ version'[target'[q]] # "NONE"
               /\ target'[q] \notin siblings'[q] \cup superseded'[q] \cup disabled'[q]
               /\ \A t \in siblings'[q] \cup superseded'[q] \cup disabled'[q] : version'[t] # "NONE"
    <3>1. CASE q = r
      BY <1>4, <3>1
    <3>2. CASE q # r
      <4>1. /\ pc'[q] = pc[q] /\ target'[q] = target[q] /\ siblings'[q] = siblings[q]
            /\ superseded'[q] = superseded[q] /\ disabled'[q] = disabled[q]
        BY <1>4, <3>2
      <4>2. siblings[q] \cup superseded[q] \cup disabled[q] \subseteq Schemas
        BY DEF RegistryInv, TypeOK
      <4>3. QED BY <1>9, <4>1, <4>2 DEF RegistryInv, ReviewsOK
    <3>3. QED BY <3>1, <3>2
  <2>3. QED BY <2>1, <2>2 DEF ReviewsOK
<1>11. SeesSiblings'
  BY <1>1, <1>4, <1>9 DEF RegistryInv, SeesSiblings
<1>12. ReadingsAgree'
  BY <1>1, <1>4 DEF RegistryInv, ReadingsAgree, Late
<1>13. \A t \in Schemas : version[t] # "NONE" /\ t # s =>
         /\ t \in superseded[r] \/ <<t, s>> \in crossed
         /\ t \in disabled[r] \/ <<t, s>> \in crossed
  BY <1>0, <1>1 DEF RegistryInv, SeesSiblings
<1>14. PolicyFollowsVersion'
  <2> SUFFICES ASSUME NEW t \in Schemas, ~Late(t)
               PROVE  version'[t] = "ACTIVE" <=> policy'[t] = "ACTIVE"
    BY <1>1 DEF PolicyFollowsVersion, Late
  <2>1. version[t] = "ACTIVE" <=> policy[t] = "ACTIVE"
    BY DEF RegistryInv, PolicyFollowsVersion, Late
  <2>2. CASE t = s
    BY <1>0, <1>1, <1>2, <1>3, <2>1, <2>2 DEF RegistryInv, ReadingsAgree
  <2>3. CASE t # s /\ version[t] # "NONE"
    BY <1>1, <1>2, <1>3, <1>13, <2>3 DEF Late
  <2>4. CASE t # s /\ version[t] = "NONE"
    <3>1. t \notin superseded[r] /\ t \notin disabled[r]
      BY <2>4 DEF RegistryInv, ReviewsOK
    <3>2. QED BY <1>2, <1>3, <2>1, <2>4, <3>1
  <2>5. QED BY <2>2, <2>3, <2>4
<1>15. \A t \in Schemas : version'[t] = "ACTIVE" /\ t # s => version[t] = "ACTIVE" /\ <<t, s>> \in crossed
  BY <1>2, <1>13
<1>16. OneActive' /\ ActiveApproved'
  BY <1>1, <1>15 DEF RegistryInv, OneActive, ActiveApproved
<1>17. QED BY <1>8, <1>10, <1>11, <1>12, <1>14, <1>16 DEF RegistryInv

LEMMA AbortStep ==
    ASSUME RegistryInv, NEW r \in Reviews, ReviewAborts(r)
    PROVE  RegistryInv'
<1>1. Ended(r) /\ UNCHANGED <<server, offered, known, rows, listed, history>>
  BY DEF ReviewAborts
<1>2. /\ pc' \in [Reviews -> ReviewSteps] /\ target' \in [Reviews -> Schemas \cup {None}]
      /\ seen' \in [Reviews -> [tool : VersionStatus, version : VersionStatus, policy : PolicyStatus]]
      /\ siblings' \in [Reviews -> SUBSET Schemas]
      /\ superseded' \in [Reviews -> SUBSET Schemas] /\ disabled' \in [Reviews -> SUBSET Schemas]
      /\ pc'[r] = "done" /\ siblings'[r] = {} /\ superseded'[r] = {} /\ disabled'[r] = {}
      /\ \A q \in Reviews : q # r =>
           /\ pc'[q] = pc[q] /\ target'[q] = target[q] /\ seen'[q] = seen[q]
           /\ siblings'[q] = siblings[q] /\ superseded'[q] = superseded[q]
           /\ disabled'[q] = disabled[q]
  BY <1>1, EndedShape DEF RegistryInv
<1>3. TypeOK'
  BY <1>1, <1>2 DEF RegistryInv, TypeOK
<1>4. ReviewsOK' /\ IdleOK'
  BY <1>1, <1>2 DEF RegistryInv, ReviewsOK, IdleOK
<1>5. SeesSiblings'
  <2>1. ASSUME NEW q \in Reviews, NEW t \in Schemas, version'[t] # "NONE", t # target'[q], q # r
        PROVE  /\ pc'[q] = "versions" => t \in siblings'[q] \/ <<t, target'[q]>> \in crossed'
               /\ pc'[q] \in {"between", "policies", "updated"} =>
                    t \in superseded'[q] \/ <<t, target'[q]>> \in crossed'
               /\ pc'[q] = "policies" => t \in siblings'[q] \/ <<t, target'[q]>> \in crossed'
               /\ pc'[q] = "updated" => t \in disabled'[q] \/ <<t, target'[q]>> \in crossed'
    <3>1. /\ pc'[q] = pc[q] /\ target'[q] = target[q] /\ version' = version /\ crossed' = crossed
          /\ siblings'[q] = siblings[q] /\ superseded'[q] = superseded[q]
          /\ disabled'[q] = disabled[q]
      BY <1>1, <1>2, <2>1
    <3>2. QED BY <2>1, <3>1 DEF RegistryInv, SeesSiblings
  <2>2. QED BY <1>2, <2>1 DEF SeesSiblings
<1>6. ReadingsAgree'
  BY <1>1, <1>2 DEF RegistryInv, ReadingsAgree, Late
<1>7. PolicyFollowsVersion' /\ OneActive' /\ ActiveApproved'
  BY <1>1 DEF RegistryInv, PolicyFollowsVersion, OneActive, ActiveApproved
<1>8. QED BY <1>3, <1>4, <1>5, <1>6, <1>7 DEF RegistryInv

LEMMA RegistryStep == RegistryInv /\ [Next]_vars => RegistryInv'
<1> SUFFICES ASSUME RegistryInv, [Next]_vars PROVE RegistryInv'
  OBVIOUS
<1>1. CASE UNCHANGED vars
  BY <1>1, OutsideStep
<1>2. CASE Next
  BY <1>2, OutsideStep, DiscoverStep, ReadStep, UpdateStep, CommitStep, AbortStep DEF Next
<1>3. QED BY <1>1, <1>2
-----------------------------------------------------------------------------
(* What review_tool_version read, locked and is about to write keeps the    *)
(* shape that its commit relies on, however reviews and discoveries overlap.*)
THEOREM ToolRegistryInvariant == Spec => []RegistryInv
<1>1. QED BY InvInit, RegistryStep, PTL DEF Spec

(* The registry's rows, discoveries and reviews keep their types. *)
THEOREM ToolRegistryTypeCorrect == Spec => []TypeOK
<1>1. RegistryInv => TypeOK
  BY DEF RegistryInv
<1>2. QED BY <1>1, ToolRegistryInvariant, PTL

(* What can be called is what the last committed review approved, or was    *)
(* discovered during that review.                                           *)
THEOREM LastReviewAlwaysRuns == Spec => []LastReviewRuns
<1>1. RegistryInv => LastReviewRuns
  BY DEF RegistryInv, ActiveApproved, LastReviewRuns, Runnable
<1>2. QED BY <1>1, ToolRegistryInvariant, PTL

(* A version is active exactly when its policy is, although a review skips  *)
(* the columns it believes to be right already and updates versions and     *)
(* policies in two statements, unless it was discovered during a review.    *)
THEOREM PolicyAlwaysFollows == Spec => []PolicyFollowsVersion
<1>1. RegistryInv => PolicyFollowsVersion
  BY DEF RegistryInv
<1>2. QED BY <1>1, ToolRegistryInvariant, PTL

(* A tool has at most one version that can be called, for any number of     *)
(* overlapping reviews and discoveries, unless one of two was discovered    *)
(* during a review of the other.                                            *)
THEOREM OneVersionRuns == Spec => []OneRunnableVersion
<1>1. RegistryInv => OneRunnableVersion
  BY DEF RegistryInv, OneActive, OneRunnableVersion, Runnable
<1>2. QED BY <1>1, ToolRegistryInvariant, PTL
=============================================================================
