------------------------ MODULE UploadSessionsProofs ------------------------
(***************************************************************************)
(* Theorems about UploadSessions, for every number of uploads, chunks,     *)
(* requests, recordings and crashes, and for every quota.  Nothing is      *)
(* assumed of the set of upload ids: that the sessions open at a time are  *)
(* finitely many is part of the invariant.                                 *)
(***************************************************************************)
EXTENDS UploadSessions, FiniteSetTheorems, TLAPS

(* A process at work has an upload; what it wants to mark as queued the    *)
(* relay has taken.                                                        *)
Aimed ==
    \A p \in Processes :
        /\ pc[p] # "idle" => target[p] \in Uploads
        /\ pc[p] = "mark" => jobs[Recording[target[p]]] # None

OpenSessions == {u \in Uploads : Open(u)}
Unfinished == {u \in Uploads : Open(u) /\ ~installed[u]}

Inv == /\ TypeOK /\ Aimed /\ QueuedHasJob
       /\ IsFiniteSet(OpenSessions) /\ Cardinality(Unfinished) <= Quota

----------------------------------------------------------------------------
(* What the operations have in common.                                     *)

(* Removing sessions keeps the types, if they go from the table too.       *)
LEMMA RemoveTyped ==
  ASSUME TypeOK, NEW gone \in SUBSET Uploads, Remove(gone)
  PROVE  /\ parts' \in [Uploads -> SUBSET Parts]
         /\ receipt' \in [Uploads -> Receipts]
         /\ owner' \in [Uploads -> Owners \cup {None}]
         /\ \A u \in Uploads :
              /\ owner'[u] # None <=> receipt'[u] = "enqueueing"
              /\ receipt'[u] # "none" => receipt[u] # "none" /\ u \notin gone
BY DEF TypeOK, Remove, Receipts

(* The relay gives the recording a job, and no job is ever taken back.     *)
LEMMA WithJobHas ==
  ASSUME TypeOK, NEW u \in Uploads
  PROVE  /\ WithJob(u) \in [Recordings -> HotwordLists \cup {None}]
         /\ WithJob(u)[Recording[u]] # None
         /\ \A r \in Recordings : jobs[r] # None => WithJob(u)[r] = jobs[r]
<1>1. Recording[u] \in Recordings /\ Hotwords[u] \in HotwordLists
  BY UploadAssumption
<1>2. Hotwords[u] # None
  BY <1>1, UploadAssumption
<1> QED BY <1>1, <1>2 DEF TypeOK, WithJob

----------------------------------------------------------------------------
(* Type correctness, one operation at a time.                              *)

(* Where the typing of a step only needs the definitions of the operation. *)
LEMMA TypeStep ==
  ASSUME TypeOK, Aimed, [Next]_vars
  PROVE  TypeOK'
<1> USE UploadAssumption DEF dirVars, leaseVars, procVars, Receipts
<1>1. CASE UNCHANGED vars
  BY <1>1 DEF TypeOK, vars
<1>2. ASSUME NEW u \in Uploads, Start(u)
      PROVE  TypeOK'
  <2>1. Expired \in SUBSET Uploads
    BY DEF Expired
  <2>2. Remove(Expired)
    BY <1>2 DEF Start
  <2>3. session' \in [Uploads -> {"unused", "open", "removed"}]
    BY <1>2 DEF Start, TypeOK
  <2>4. ASSUME NEW v \in Uploads, receipt'[v] # "none"
        PROVE  installed'[v] /\ session'[v] = "open"
    BY <1>2, <2>1, <2>2, <2>4, RemoveTyped DEF Start, Remove, TypeOK
  <2> QED BY <1>2, <2>1, <2>2, <2>3, <2>4, RemoveTyped
          DEF Start, Remove, TypeOK
<1>3. CASE Cleanup
  <2>1. Expired \in SUBSET Uploads
    BY DEF Expired
  <2>2. Remove(Expired)
    BY <1>3 DEF Cleanup
  <2>3. session' \in [Uploads -> {"unused", "open", "removed"}]
    BY <1>3 DEF Cleanup, TypeOK
  <2>4. ASSUME NEW v \in Uploads, receipt'[v] # "none"
        PROVE  installed'[v] /\ session'[v] = "open"
    BY <1>3, <2>1, <2>2, <2>4, RemoveTyped DEF Cleanup, Remove, TypeOK
  <2> QED BY <1>3, <2>1, <2>2, <2>3, <2>4, RemoveTyped
          DEF Cleanup, Remove, TypeOK
<1>4. ASSUME NEW u \in Uploads, Cancel(u)
      PROVE  TypeOK'
  <2>1. Remove({u})
    BY <1>4 DEF Cancel
  <2>2. ASSUME NEW v \in Uploads, receipt'[v] # "none"
        PROVE  installed'[v] /\ session'[v] = "open"
    BY <1>4, <2>1, <2>2, RemoveTyped DEF Cancel, Remove, TypeOK
  <2> QED BY <1>4, <2>1, <2>2, RemoveTyped DEF Cancel, Remove, TypeOK
<1>5. ASSUME NEW u \in Uploads, NEW i \in Parts, WriteChunk(u, i)
      PROVE  TypeOK'
  BY <1>5 DEF WriteChunk, TypeOK
<1>6. ASSUME NEW u \in Uploads, Age(u)
      PROVE  TypeOK'
  BY <1>6 DEF Age, TypeOK
<1>7. ASSUME NEW u \in Uploads, LeaseEnds(u)
      PROVE  TypeOK'
  BY <1>7 DEF LeaseEnds, TypeOK
<1>8. ASSUME NEW u \in Uploads, NEW r \in Requests, Complete(r, u)
      PROVE  TypeOK'
  <2>1. r \in Processes
    BY DEF Processes
  <2>2. Open(u)
    BY <1>8 DEF Complete
  <2> QED BY <1>8, <2>1, <2>2 DEF Complete, TypeOK, Open, Steps
<1>9. ASSUME ProcessEnds
      PROVE  /\ pc' \in [Processes -> Steps]
             /\ target' \in [Processes -> Uploads \cup {None}]
             /\ todo' \subseteq Uploads
             /\ owner' \in [Uploads -> Owners \cup {None}]
             /\ \A u \in Uploads : owner'[u] # None <=> owner[u] # None
             /\ crashes' \in 0..MaxCrashes
  BY <1>9 DEF ProcessEnds, TypeOK, Owners, Steps
<1>10. CASE Crash
  <2>1. ProcessEnds
    BY <1>10 DEF Crash
  <2> QED BY <1>9, <1>10, <2>1 DEF Crash, TypeOK
<1>11. ASSUME NEW u \in Uploads, CutComplete(u)
       PROVE  TypeOK'
  <2>1. ProcessEnds /\ Open(u) /\ receipt[u] = "none"
    BY <1>11 DEF CutComplete
  <2> QED BY <1>9, <1>11, <2>1 DEF CutComplete, TypeOK, Open
<1>12. ASSUME NEW u \in Uploads, CutRemoval(u)
       PROVE  TypeOK'
  <2>1. ProcessEnds /\ receipt[u] # "enqueueing"
    BY <1>12 DEF CutRemoval, Expired, Waiting
  <2>2. parts' \in [Uploads -> SUBSET Parts]
    BY <1>12 DEF CutRemoval, TypeOK
  <2> QED BY <1>9, <1>12, <2>1, <2>2 DEF CutRemoval, TypeOK
<1>13. ASSUME NEW p \in Processes, NEW u \in Uploads,
              TakeUp(p, u) \/ Pass(p, u), todo' \subseteq Uploads
       PROVE  TypeOK'
  <2>1. CASE TakeUp(p, u)
    <3>1. Open(u) /\ receipt[u] # "none" /\ p \in Owners /\ p # None
      BY <2>1 DEF TakeUp, Claimable, Owners
    <3> QED BY <1>13, <2>1, <3>1 DEF TakeUp, Goto, TypeOK, Steps
  <2>2. CASE Pass(p, u)
    BY <1>13, <2>2 DEF Pass, Goto, TypeOK, Steps
  <2> QED BY <1>13, <2>1, <2>2
<1>14. ASSUME NEW p \in Processes, Claim(p)
       PROVE  TypeOK'
  <2>1. target[p] \in Uploads
    BY <1>14 DEF Claim, Aimed
  <2> QED BY <1>13, <1>14, <2>1 DEF Claim, TypeOK
<1>15. CASE ListPending
  BY <1>15 DEF ListPending, TypeOK
<1>16. ASSUME NEW u \in Uploads, ScanClaim(u)
       PROVE  TypeOK'
  <2>1. Scan \in Processes /\ todo' \subseteq Uploads
    BY <1>16 DEF Processes, ScanClaim, TypeOK
  <2> QED BY <1>13, <1>16, <2>1 DEF ScanClaim
<1>17. ASSUME NEW p \in Processes, RelayEnqueues(p)
       PROVE  TypeOK'
  <2>1. target[p] \in Uploads
    BY <1>17 DEF RelayEnqueues, Aimed
  <2>2. jobs' \in [Recordings -> HotwordLists \cup {None}]
    BY <1>17, <2>1, WithJobHas DEF RelayEnqueues
  <2> QED BY <1>17, <2>2 DEF RelayEnqueues, Goto, TypeOK, Steps
<1>18. ASSUME NEW p \in Processes, RelayFails(p)
       PROVE  TypeOK'
  <2>1. target[p] \in Uploads
    BY <1>18 DEF RelayFails, Aimed
  <2>2. jobs' \in [Recordings -> HotwordLists \cup {None}]
    BY <1>18, <2>1, WithJobHas DEF RelayFails, TypeOK
  <2> QED BY <1>18, <2>2 DEF RelayFails, Goto, TypeOK, Steps
<1>19. ASSUME NEW p \in Processes, MarkEnqueued(p)
       PROVE  TypeOK'
  <2>1. target[p] \in Uploads
    BY <1>19 DEF MarkEnqueued, Aimed
  <2> QED BY <1>19, <2>1
          DEF MarkEnqueued, Owns, Done, Goto, TypeOK, Steps
<1>20. ASSUME NEW p \in Processes, MarkRefused(p)
       PROVE  TypeOK'
  BY <1>20 DEF MarkRefused, Done, Goto, TypeOK, Steps
<1>21. ASSUME NEW p \in Processes, Release(p)
       PROVE  TypeOK'
  <2>1. target[p] \in Uploads
    BY <1>21 DEF Release, Aimed
  <2> QED BY <1>21, <2>1 DEF Release, Owns, Done, Goto, TypeOK, Steps
<1> QED BY <1>1, <1>2, <1>3, <1>4, <1>5, <1>6, <1>7, <1>8, <1>10, <1>11,
           <1>12, <1>14, <1>15, <1>16, <1>17, <1>18, <1>19, <1>20, <1>21
        DEF Next, Goon, ScanStep

----------------------------------------------------------------------------
(* What the relay has taken it keeps, and a process marks as queued only   *)
(* what the relay has taken.                                               *)
LEMMA JobsStay ==
  ASSUME TypeOK, Aimed, [Next]_vars
  PROVE  \A r \in Recordings : jobs[r] # None => jobs'[r] = jobs[r]
<1>1. CASE jobs' = jobs
  BY <1>1
<1>2. ASSUME NEW p \in Processes, RelayEnqueues(p) \/ RelayFails(p)
      PROVE  \A r \in Recordings : jobs[r] # None => jobs'[r] = jobs[r]
  <2>1. target[p] \in Uploads
    BY <1>2 DEF RelayEnqueues, RelayFails, Aimed
  <2> QED BY <1>2, <2>1, WithJobHas DEF RelayEnqueues, RelayFails
<1>3. CASE UNCHANGED vars
  BY <1>1, <1>3 DEF vars
<1>4. CASE Next
  <2>1. ASSUME NEW u \in Uploads, Start(u) \/ Cancel(u)
        PROVE  jobs' = jobs
    BY <2>1 DEF Start, Cancel, Remove
  <2>2. ASSUME NEW u \in Uploads, Age(u) \/ LeaseEnds(u)
        PROVE  jobs' = jobs
    BY <2>2 DEF Age, LeaseEnds
  <2>3. ASSUME NEW u \in Uploads, CutComplete(u) \/ CutRemoval(u)
        PROVE  jobs' = jobs
    BY <2>3 DEF CutComplete, CutRemoval
  <2>4. ASSUME NEW u \in Uploads, NEW i \in Parts, WriteChunk(u, i)
        PROVE  jobs' = jobs
    BY <2>4 DEF WriteChunk
  <2>5. ASSUME NEW u \in Uploads, NEW r \in Requests, Complete(r, u)
        PROVE  jobs' = jobs
    BY <2>5 DEF Complete
  <2>6. ASSUME NEW p \in Processes,
               Claim(p) \/ MarkEnqueued(p) \/ MarkRefused(p) \/ Release(p)
        PROVE  jobs' = jobs
    BY <2>6 DEF Claim, TakeUp, Pass, MarkEnqueued, MarkRefused, Release
  <2>7. CASE ScanStep
    BY <2>7 DEF ScanStep, ListPending, ScanClaim, TakeUp, Pass
  <2>8. CASE Cleanup \/ Crash
    BY <2>8 DEF Cleanup, Crash, Remove
  <2> QED BY <1>1, <1>2, <1>4, <2>1, <2>2, <2>3, <2>4, <2>5, <2>6, <2>7,
             <2>8 DEF Next, Goon
<1> QED BY <1>3, <1>4

LEMMA AimedStep ==
  ASSUME TypeOK, Aimed, [Next]_vars
  PROVE  Aimed'
<1>1. \A r \in Recordings : jobs[r] # None => jobs'[r] # None
  BY JobsStay
<1>2. Recording \in [Uploads -> Recordings]
  BY UploadAssumption
<1>3. CASE pc' = pc /\ target' = target
  BY <1>1, <1>2, <1>3 DEF Aimed, TypeOK
<1>4. ASSUME NEW p \in Processes, pc' = [pc EXCEPT ![p] = "idle"],
             target' = [target EXCEPT ![p] = None]
      PROVE  Aimed'
  BY <1>1, <1>2, <1>4 DEF Aimed, TypeOK
<1>5. ASSUME NEW p \in Processes, NEW step \in {"claim", "enqueue"},
             NEW u \in Uploads, pc' = [pc EXCEPT ![p] = step],
             target' = [target EXCEPT ![p] = u]
      PROVE  Aimed'
  BY <1>1, <1>2, <1>5 DEF Aimed, TypeOK
<1>6. ASSUME NEW p \in Processes, pc[p] # "idle", target' = target,
             pc' = [pc EXCEPT ![p] = "release"]
      PROVE  Aimed'
  BY <1>1, <1>2, <1>6 DEF Aimed, TypeOK
<1>7. ASSUME ProcessEnds
      PROVE  Aimed'
  BY <1>7 DEF ProcessEnds, Aimed
<1>8. CASE UNCHANGED vars
  BY <1>3, <1>8 DEF vars, procVars
<1>9. ASSUME NEW u \in Uploads, Start(u) \/ Cancel(u)
      PROVE  Aimed'
  BY <1>3, <1>9 DEF Start, Cancel
<1>10. CASE Cleanup
  BY <1>3, <1>10 DEF Cleanup
<1>11. ASSUME NEW u \in Uploads, Age(u) \/ LeaseEnds(u)
       PROVE  Aimed'
  BY <1>3, <1>11 DEF Age, LeaseEnds, procVars
<1>12. ASSUME NEW u \in Uploads, NEW i \in Parts, WriteChunk(u, i)
       PROVE  Aimed'
  BY <1>3, <1>12 DEF WriteChunk, procVars
<1>13. ASSUME NEW u \in Uploads, CutComplete(u) \/ CutRemoval(u)
       PROVE  Aimed'
  BY <1>7, <1>13 DEF CutComplete, CutRemoval
<1>14. CASE Crash
  BY <1>7, <1>14 DEF Crash
<1>15. ASSUME NEW u \in Uploads, NEW r \in Requests, Complete(r, u)
       PROVE  Aimed'
  BY <1>5, <1>15 DEF Complete, Processes
<1>16. ASSUME NEW p \in Processes, NEW u \in Uploads,
              TakeUp(p, u) \/ Pass(p, u)
       PROVE  Aimed'
  BY <1>4, <1>5, <1>16 DEF TakeUp, Pass, Goto
<1>17. ASSUME NEW p \in Processes, Claim(p)
       PROVE  Aimed'
  <2>1. target[p] \in Uploads
    BY <1>17 DEF Claim, Aimed
  <2> QED BY <1>16, <1>17, <2>1 DEF Claim
<1>18. CASE ScanStep
  <2>1. Scan \in Processes
    BY DEF Processes
  <2>2. CASE ListPending
    BY <1>3, <2>2 DEF ListPending
  <2>3. ASSUME NEW u \in Uploads, ScanClaim(u)
        PROVE  Aimed'
    BY <1>16, <2>1, <2>3 DEF ScanClaim
  <2> QED BY <1>18, <2>2, <2>3 DEF ScanStep
<1>19. ASSUME NEW p \in Processes, RelayEnqueues(p)
       PROVE  Aimed'
  <2>1. target[p] \in Uploads
    BY <1>19 DEF RelayEnqueues, Aimed
  <2>2. jobs'[Recording[target[p]]] # None
    BY <1>19, <2>1, WithJobHas DEF RelayEnqueues
  <2> QED BY <1>1, <1>2, <1>19, <2>1, <2>2
          DEF RelayEnqueues, Goto, Aimed, TypeOK
<1>20. ASSUME NEW p \in Processes, RelayFails(p)
       PROVE  Aimed'
  BY <1>6, <1>20 DEF RelayFails, Goto
<1>21. ASSUME NEW p \in Processes, MarkEnqueued(p) \/ Release(p)
       PROVE  Aimed'
  BY <1>4, <1>21 DEF MarkEnqueued, Release, Done, Goto
<1>22. ASSUME NEW p \in Processes, MarkRefused(p)
       PROVE  Aimed'
  BY <1>4, <1>6, <1>22 DEF MarkRefused, Done, Goto
<1> QED BY <1>8, <1>9, <1>10, <1>11, <1>12, <1>13, <1>14, <1>15, <1>17,
           <1>18, <1>19, <1>20, <1>21, <1>22 DEF Next, Goon

(* Only mark_enqueued writes "queued", and nothing puts it on another      *)
(* upload; so what was queued had its job, and has it still.               *)
LEMMA QueuedStep ==
  ASSUME TypeOK, Aimed, QueuedHasJob, [Next]_vars
  PROVE  QueuedHasJob'
<1>1. ASSUME NEW u \in Uploads, jobs[Recording[u]] # None
      PROVE  jobs'[Recording[u]] # None
  BY <1>1, JobsStay, UploadAssumption
<1>2. ASSUME NEW u \in Uploads, receipt'[u] = "queued",
             receipt[u] # "queued"
      PROVE  jobs[Recording[u]] # None
  <2>1. PICK p \in Processes : MarkEnqueued(p)
    <3> SUFFICES ASSUME \A p \in Processes : ~MarkEnqueued(p)
                 PROVE  FALSE
      OBVIOUS
    <3> USE <1>2 DEF TypeOK
    <3>1. ASSUME NEW v \in Uploads, Start(v) \/ Cancel(v)
          PROVE  FALSE
      BY <3>1 DEF Start, Cancel, Remove
    <3>2. ASSUME NEW v \in Uploads, Age(v) \/ LeaseEnds(v)
          PROVE  FALSE
      BY <3>2 DEF Age, LeaseEnds, leaseVars
    <3>3. ASSUME NEW v \in Uploads, CutComplete(v) \/ CutRemoval(v)
          PROVE  FALSE
      BY <3>3 DEF CutComplete, CutRemoval
    <3>4. ASSUME NEW v \in Uploads, NEW i \in Parts, WriteChunk(v, i)
          PROVE  FALSE
      BY <3>4 DEF WriteChunk, leaseVars
    <3>5. ASSUME NEW v \in Uploads, NEW r \in Requests, Complete(r, v)
          PROVE  FALSE
      BY <3>5 DEF Complete
    <3>6. ASSUME NEW p \in Processes, NEW v, TakeUp(p, v) \/ Pass(p, v)
          PROVE  FALSE
      BY <3>6 DEF TakeUp, Pass, leaseVars
    <3>7. ASSUME NEW p \in Processes,
                 RelayEnqueues(p) \/ RelayFails(p) \/ MarkRefused(p)
          PROVE  FALSE
      BY <3>7 DEF RelayEnqueues, RelayFails, MarkRefused, leaseVars
    <3>8. ASSUME NEW p \in Processes, Claim(p) \/ Release(p)
          PROVE  FALSE
      BY <3>6, <3>8 DEF Claim, Release
    <3>9. CASE ScanStep
      BY <3>6, <3>9
         DEF ScanStep, ListPending, ScanClaim, Processes, leaseVars
    <3>10. CASE Cleanup \/ Crash
      BY <3>10 DEF Cleanup, Crash, Remove
    <3>11. CASE UNCHANGED vars
      BY <3>11 DEF vars, leaseVars
    <3> QED BY <3>1, <3>2, <3>3, <3>4, <3>5, <3>7, <3>8, <3>9, <3>10,
               <3>11 DEF Next, Goon
  <2>2. u = target[p]
    BY <1>2, <2>1 DEF MarkEnqueued, TypeOK
  <2> QED BY <2>1, <2>2 DEF MarkEnqueued, Aimed
<1> QED BY <1>1, <1>2 DEF QueuedHasJob

----------------------------------------------------------------------------
(* The quota: only start opens a session, and it counts first.  A receipt  *)
(* has an installed recording, so what start counts is at least what is    *)
(* not installed yet.                                                      *)

LEMMA StartKeepsQuota ==
  ASSUME TypeOK, IsFiniteSet(OpenSessions), NEW u \in Uploads, Start(u)
  PROVE  IsFiniteSet(OpenSessions)' /\ Cardinality(Unfinished)' <= Quota
<1> DEFINE R == Reserved(Expired)
<1>1. OpenSessions' \subseteq OpenSessions \cup {u}
  BY DEF Start, OpenSessions, Open, TypeOK
<1>2. IsFiniteSet(OpenSessions \cup {u})
  BY FS_AddElement
<1>3. IsFiniteSet(OpenSessions')
  BY <1>1, <1>2, FS_Subset
<1>4. R \subseteq OpenSessions
  BY DEF Reserved, OpenSessions
<1>5. IsFiniteSet(R) /\ Cardinality(R) \in Nat
  BY <1>4, FS_Subset, FS_CardinalityType
<1>6. u \notin R
  BY DEF Reserved, Open, Start
<1>7. IsFiniteSet(R \cup {u}) /\ Cardinality(R \cup {u}) <= Quota
  <2>1. Cardinality(R) + 1 <= Quota
    BY DEF Start
  <2>2. IsFiniteSet(R \cup {u})
        /\ Cardinality(R \cup {u}) = Cardinality(R) + 1
    BY <1>5, <1>6, FS_AddElement
  <2> QED BY <2>1, <2>2
<1>8. Unfinished' \subseteq R \cup {u}
  BY DEF Unfinished, Start, Remove, Reserved, Open, TypeOK
<1>9. Cardinality(Unfinished') <= Cardinality(R \cup {u})
      /\ Cardinality(Unfinished') \in Nat
      /\ Cardinality(R \cup {u}) \in Nat
  BY <1>7, <1>8, FS_Subset, FS_CardinalityType
<1> QED BY <1>3, <1>7, <1>9, UploadAssumption

(* No other step opens a session, or takes an installed recording back.    *)
LEMMA OthersKeepQuota ==
  ASSUME TypeOK, Aimed, [Next]_vars, IsFiniteSet(OpenSessions),
         Cardinality(Unfinished) <= Quota,
         \A u \in Uploads : ~Start(u)
  PROVE  IsFiniteSet(OpenSessions)' /\ Cardinality(Unfinished)' <= Quota
<1> DEFINE Closes ==
        \A u \in Uploads : /\ session'[u] = "open" => session[u] = "open"
                           /\ installed[u] => installed'[u]
<1>1. Closes
  <2> USE DEF TypeOK
  <2>1. ASSUME NEW v \in Uploads, Cancel(v)
        PROVE  Closes
    BY <2>1 DEF Cancel, Remove
  <2>2. ASSUME NEW v \in Uploads, Age(v) \/ LeaseEnds(v)
        PROVE  Closes
    BY <2>2 DEF Age, LeaseEnds, dirVars
  <2>3. ASSUME NEW v \in Uploads, CutComplete(v) \/ CutRemoval(v)
        PROVE  Closes
    BY <2>3 DEF CutComplete, CutRemoval
  <2>4. ASSUME NEW v \in Uploads, NEW i \in Parts, WriteChunk(v, i)
        PROVE  Closes
    BY <2>4 DEF WriteChunk
  <2>5. ASSUME NEW v \in Uploads, NEW r \in Requests, Complete(r, v)
        PROVE  Closes
    BY <2>5 DEF Complete
  <2>6. ASSUME NEW p \in Processes, Goon(p)
        PROVE  Closes
    BY <2>6 DEF Goon, Claim, TakeUp, Pass, RelayEnqueues, RelayFails,
                MarkEnqueued, MarkRefused, Release, dirVars
  <2>7. CASE ScanStep
    BY <2>7 DEF ScanStep, ListPending, ScanClaim, TakeUp, Pass, dirVars
  <2>8. CASE Cleanup \/ Crash
    BY <2>8 DEF Cleanup, Crash, Remove, dirVars
  <2>9. CASE UNCHANGED vars
    BY <2>9 DEF vars, dirVars
  <2> QED BY <2>1, <2>2, <2>3, <2>4, <2>5, <2>6, <2>7, <2>8, <2>9 DEF Next
<1>2. OpenSessions' \subseteq OpenSessions
  BY <1>1 DEF OpenSessions, Open
<1>3. IsFiniteSet(OpenSessions')
  BY <1>2, FS_Subset
<1>4. Unfinished \subseteq OpenSessions /\ Unfinished' \subseteq Unfinished
  BY <1>1 DEF OpenSessions, Unfinished, Open
<1>5. IsFiniteSet(Unfinished) /\ Cardinality(Unfinished) \in Nat
      /\ Cardinality(Unfinished') <= Cardinality(Unfinished)
      /\ Cardinality(Unfinished') \in Nat
  BY <1>4, FS_Subset, FS_CardinalityType
<1> QED BY <1>3, <1>5, UploadAssumption

----------------------------------------------------------------------------
LEMMA InvInit == Init => Inv
<1> SUFFICES ASSUME Init PROVE Inv
  OBVIOUS
<1>1. TypeOK
  BY UploadAssumption DEF Init, TypeOK, Receipts, Steps
<1>2. Aimed /\ QueuedHasJob
  BY DEF Init, Aimed, QueuedHasJob
<1>3. OpenSessions = {} /\ Unfinished = {}
  BY DEF Init, OpenSessions, Unfinished, Open
<1> QED BY <1>1, <1>2, <1>3, FS_EmptySet, UploadAssumption DEF Inv

LEMMA InvStep == Inv /\ [Next]_vars => Inv'
<1> SUFFICES ASSUME Inv, [Next]_vars PROVE Inv'
  OBVIOUS
<1>1. TypeOK' /\ Aimed' /\ QueuedHasJob'
  BY TypeStep, AimedStep, QueuedStep DEF Inv
<1>2. IsFiniteSet(OpenSessions)' /\ Cardinality(Unfinished)' <= Quota
  BY StartKeepsQuota, OthersKeepQuota DEF Inv
<1> QED BY <1>1, <1>2 DEF Inv

(* The inductive invariant of the uploads, all of it.                      *)
THEOREM UploadsInvariant == Spec => []Inv
BY InvInit, InvStep, PTL DEF Spec

(* The quota of unfinished uploads holds however many sessions are opened, *)
(* cancelled, expired or cut off by a crash, and every variable keeps its  *)
(* type (start counts and creates under one lock; uploads.py).             *)
THEOREM QuotaHolds == Spec => []QuotaKept
<1>1. Inv => QuotaKept
  BY DEF Inv, QuotaKept, Unfinished
<1> QED BY <1>1, UploadsInvariant, PTL

(* An upload whose receipt says "queued" is in the relay, whoever lost its *)
(* lease while the relay was asked (claim_enqueue, mark_enqueued).         *)
THEOREM QueuedInRelay == Spec => []QueuedHasJob
<1>1. Inv => QueuedHasJob
  BY DEF Inv
<1> QED BY <1>1, UploadsInvariant, PTL

(* A step never takes back that a recording is saved, nor that it is       *)
(* queued, as long as its session exists: neither a crash nor a late       *)
(* answer, a lost lease or the cleaner does (cleanup_expired,              *)
(* claim_enqueue, release_enqueue).                                        *)
THEOREM SavedStays == Spec => SavedIsKept
<1> DEFINE Kept == \A u \in Uploads :
              /\ receipt[u] \in Waiting => receipt'[u] # "none"
              /\ receipt[u] = "queued" => receipt'[u] \in {"queued", "none"}
<1>1. ASSUME Inv, [Next]_vars
      PROVE  Kept
  <2> USE <1>1 DEF Inv, TypeOK, Waiting
  <2>1. ASSUME NEW v \in Uploads, Start(v) \/ Cancel(v)
        PROVE  Kept
    BY <2>1 DEF Start, Cancel, Remove, Expired
  <2>2. ASSUME NEW v \in Uploads, Age(v) \/ LeaseEnds(v)
        PROVE  Kept
    BY <2>2 DEF Age, LeaseEnds, leaseVars
  <2>3. ASSUME NEW v \in Uploads, CutComplete(v) \/ CutRemoval(v)
        PROVE  Kept
    BY <2>3 DEF CutComplete, CutRemoval, Expired
  <2>4. ASSUME NEW v \in Uploads, NEW i \in Parts, WriteChunk(v, i)
        PROVE  Kept
    BY <2>4 DEF WriteChunk, leaseVars
  <2>5. ASSUME NEW v \in Uploads, NEW r \in Requests, Complete(r, v)
        PROVE  Kept
    BY <2>5 DEF Complete
  <2>6. ASSUME NEW p \in Processes, NEW v, TakeUp(p, v) \/ Pass(p, v)
        PROVE  Kept
    BY <2>6 DEF TakeUp, Pass, Claimable, leaseVars
  <2>7. ASSUME NEW p \in Processes,
               RelayEnqueues(p) \/ RelayFails(p) \/ MarkRefused(p)
        PROVE  Kept
    BY <2>7 DEF RelayEnqueues, RelayFails, MarkRefused, leaseVars
  <2>8. ASSUME NEW p \in Processes, MarkEnqueued(p) \/ Release(p)
        PROVE  Kept
    BY <2>8 DEF MarkEnqueued, Release, Owns
  <2>9. ASSUME NEW p \in Processes, Claim(p)
        PROVE  Kept
    BY <2>6, <2>9 DEF Claim
  <2>10. CASE ScanStep
    BY <2>6, <2>10
       DEF ScanStep, ListPending, ScanClaim, Processes, leaseVars
  <2>11. CASE Cleanup
    BY <2>11 DEF Cleanup, Remove, Expired
  <2>12. CASE Crash \/ UNCHANGED vars
    BY <2>12 DEF Crash, vars, leaseVars
  <2> QED BY <2>1, <2>2, <2>3, <2>4, <2>5, <2>7, <2>8, <2>9, <2>10,
             <2>11, <2>12 DEF Next, Goon
<1> QED BY <1>1, UploadsInvariant, PTL DEF Spec, SavedIsKept
=============================================================================
