-------------------------- MODULE RelayJobsProofs --------------------------
(***************************************************************************)
(* Theorems about RelayJobs for every number of jobs, retries, run-next    *)
(* processes, deferrals and faults.  The invariant is proved action by     *)
(* action: first the types, then what relates the two tables, then who may *)
(* write about an attempt, that its minutes agent starts once, and where a *)
(* duplicate points.                                                       *)
(***************************************************************************)
EXTENDS RelayJobs, TLAPS

----------------------------------------------------------------------------
(* What the parts shared by several actions keep of the types.             *)

(* Attempts are counted in naturals.                                       *)
LEMMA AttemptsCounted ==
  ASSUME TypeOK
  PROVE  attempt \in [Jobs -> Nat] /\ \A j \in Jobs : attempt[j] \in Nat
<1>1. attempt \in [Jobs -> 0..MaxAttempts]
  BY Zenon DEF TypeOK
<1> QED BY <1>1

(* Moving the two rows to a status keeps their types.                      *)
LEMMA MoveTyped ==
  ASSUME TypeOK, NEW j, NEW s \in Statuses, Move(j, s)
  PROVE  /\ status' \in [Jobs -> Statuses]
         /\ attStatus' \in [Jobs -> [Attempts -> Statuses]]
<1>1. status' \in [Jobs -> Statuses]
  BY DEF TypeOK, Move
<1>2. attStatus' \in [Jobs -> [Attempts -> Statuses]]
  BY DEF TypeOK, Move
<1> QED BY <1>1, <1>2

(* A process that rests holds nothing, with the types it had.              *)
LEMMA RestTyped ==
  ASSUME TypeOK, NEW w \in Workers, Rest(w)
  PROVE  /\ pc' \in [Workers -> Steps]
         /\ held' \in [Workers -> Jobs \cup {NoJob}]
         /\ heldAttempt' \in [Workers -> 0..MaxAttempts]
         /\ startStage' \in [Workers -> Active \cup {NoStage}]
<1>1. 0 \in 0..MaxAttempts
  BY RelayAssumption
<1>2. pc' \in [Workers -> Steps]
  BY DEF TypeOK, Rest, Steps, LoopSteps
<1>3. held' \in [Workers -> Jobs \cup {NoJob}]
  BY DEF TypeOK, Rest
<1>4. heldAttempt' \in [Workers -> 0..MaxAttempts]
  BY <1>1 DEF TypeOK, Rest
<1>5. startStage' \in [Workers -> Active \cup {NoStage}]
  BY DEF TypeOK, Rest
<1> QED BY <1>2, <1>3, <1>4, <1>5

(* A process that goes on keeps its claim.                                 *)
LEMMA GotoTyped ==
  ASSUME TypeOK, NEW w \in Workers, NEW step \in Steps, Goto(w, step)
  PROVE  /\ pc' \in [Workers -> Steps]
         /\ held' \in [Workers -> Jobs \cup {NoJob}]
         /\ heldAttempt' \in [Workers -> 0..MaxAttempts]
         /\ startStage' \in [Workers -> Active \cup {NoStage}]
BY DEF TypeOK, Goto

(* Only the name of the holder changes when a process ends.                *)
LEMMA DepartedTyped ==
  ASSUME TypeOK, NEW w \in Workers
  PROVE  Departed(w, worker) \in [Jobs -> Workers \cup {NoWorker, Gone}]
BY DEF TypeOK, Departed

(* A claim that goes back to the queue.                                    *)
LEMMA RequeueTyped ==
  ASSUME TypeOK, NEW w \in Workers, NEW stage \in Active, Requeue(w, stage)
  PROVE  /\ status' \in [Jobs -> Statuses]
         /\ attStatus' \in [Jobs -> [Attempts -> Statuses]]
         /\ retryStage' \in [Jobs -> Active \cup {NoStage}]
         /\ stop' \in [Jobs -> BOOLEAN]
         /\ worker' \in [Jobs -> Workers \cup {NoWorker, Gone}]
<1>1. (IF stop[held[w]] THEN "interrupted" ELSE "queued") \in Statuses
  BY DEF Statuses, Stopped
<1>2. PICK s \in Statuses : Move(held[w], s)
  BY <1>1 DEF Requeue
<1>3. /\ status' \in [Jobs -> Statuses]
      /\ attStatus' \in [Jobs -> [Attempts -> Statuses]]
  BY <1>2, MoveTyped
<1>4. /\ retryStage' \in [Jobs -> Active \cup {NoStage}]
      /\ stop' \in [Jobs -> BOOLEAN]
      /\ worker' \in [Jobs -> Workers \cup {NoWorker, Gone}]
  BY DEF TypeOK, Requeue, Released
<1> QED BY <1>3, <1>4

----------------------------------------------------------------------------
(* Every variable keeps its type: the statuses of the two tables, the      *)
(* limits of the deferrals, the claims of the processes and the calls that *)
(* are under way (all of RelayControl and of the worker loop).             *)
THEOREM TypeCorrect == Spec => []TypeOK
<1> USE RelayAssumption
    DEF Jobs, Attempts, Workers, Active, Finished, Stopped,
        Statuses, Retryable, FailStages, Repairable, NoJob, NoStage,
        NoCall, Callbacks, Publishes, LoopSteps, SourceSteps, AdmitSteps,
        LaterSteps, AgentSteps, Running, Owing, Steps
<1>1. Init => TypeOK
  <2> SUFFICES ASSUME Init PROVE TypeOK
    OBVIOUS
  <2>1. 0 \in 0..MaxAttempts /\ 0 \in 0..MaxFaults
    OBVIOUS
  <2>2. pc \in [Workers -> Steps] /\ held \in [Workers -> Jobs \cup {NoJob}]
    BY DEF Init
  <2>3. /\ heldAttempt \in [Workers -> 0..MaxAttempts]
        /\ startStage \in [Workers -> Active \cup {NoStage}]
    BY <2>1 DEF Init
  <2>4. faults \in 0..MaxFaults /\ paneTaken \in BOOLEAN
    BY <2>1 DEF Init
  <2>5. /\ attStatus \in [Jobs -> [Attempts -> Statuses]]
        /\ agent \in [Jobs -> [Attempts -> {"none", "live", "exited"}]]
        /\ callback \in [Jobs -> [Attempts -> Callbacks]]
        /\ publishing \in [Jobs -> [Attempts -> Publishes]]
    BY DEF Init
  <2> QED BY <2>1, <2>2, <2>3, <2>4, <2>5 DEF Init, TypeOK
<1>2. TypeOK /\ [Next]_vars => TypeOK'
  <2> SUFFICES ASSUME TypeOK, [Next]_vars PROVE TypeOK'
    OBVIOUS
  <2>1. ASSUME NEW w \in Workers, ReconcileHandoffs(w)
       PROVE  TypeOK'
    BY <2>1
       DEF TypeOK, ReconcileHandoffs, HandedOff, Goto, outsideVars
  <2>2. ASSUME NEW w \in Workers, RecoverOrphans(w)
       PROVE  TypeOK'
    BY <2>2
       DEF TypeOK, RecoverOrphans, Orphaned, OrphanStatus, HandedOff, Goto,
           outsideVars
  <2>3. ASSUME NEW w \in Workers, NothingToClaim(w)
       PROVE  TypeOK'
    BY <2>3 DEF TypeOK, NothingToClaim, Goto, jobVars, outsideVars
  <2>4. ASSUME NEW w \in Workers, NEW k \in Jobs, Claim(w, k)
       PROVE  TypeOK'
    BY <2>4
       DEF TypeOK, Claim, FirstStage, FirstStep, Move, outsideVars
  <2>5. ASSUME NEW w \in Workers, WorkerFail(w)
       PROVE  TypeOK'
    <3>1. Rest(w)
      BY <2>5 DEF WorkerFail
    <3>2. /\ status' \in [Jobs -> Statuses]
          /\ attStatus' \in [Jobs -> [Attempts -> Statuses]]
          /\ failStage' \in [Jobs -> FailStages]
      <4>1. CASE Failable(w)
        <5>1. Move(held[w], "failed")
          BY <2>5, <4>1 DEF WorkerFail
        <5> QED BY <2>5, <4>1, <5>1, MoveTyped DEF TypeOK, WorkerFail
      <4>2. CASE ~Failable(w)
        BY <2>5, <4>2 DEF TypeOK, WorkerFail
      <4> QED BY <4>1, <4>2
    <3> QED
      BY <2>5, <3>1, <3>2, RestTyped, DepartedTyped
         DEF TypeOK, WorkerFail, outsideVars
  <2>6. ASSUME NEW w \in Workers, DeferUnstableSource(w)
       PROVE  TypeOK'
    <3>1. Requeue(w, "stabilizing") /\ Rest(w) /\ MayWait(held[w])
      BY <2>6 DEF DeferUnstableSource, Requeue
    <3>2. sourceDefers' \in [Jobs -> 0..MaxStabilizeDeferrals]
      <4>1. \A n \in 0..MaxStabilizeDeferrals :
               n < MaxStabilizeDeferrals => n + 1 \in 0..MaxStabilizeDeferrals
        OBVIOUS
      <4> QED
        BY <2>6, <3>1, <4>1 DEF TypeOK, DeferUnstableSource, MayWait
    <3> QED
      BY <2>6, <3>1, <3>2, RestTyped, RequeueTyped
         DEF TypeOK, DeferUnstableSource, Requeue, outsideVars
  <2>7. ASSUME NEW w \in Workers, SourceChanged(w)
       PROVE  TypeOK'
    BY <2>7
       DEF TypeOK, SourceChanged, Owns, Move, Goto, outsideVars
  <2>8. ASSUME NEW w \in Workers, NEW k \in Jobs, SourceDuplicate(w, k)
       PROVE  TypeOK'
    BY <2>8
       DEF TypeOK, SourceDuplicate, Owns, Move, Goto, outsideVars
  <2>9. ASSUME NEW w \in Workers, SourceRecorded(w)
       PROVE  TypeOK'
    BY <2>9 DEF TypeOK, SourceRecorded, Owns, Goto, outsideVars
  <2>10. ASSUME NEW w \in Workers, StopBetweenStages(w)
       PROVE  TypeOK'
    BY <2>10 DEF TypeOK, StopBetweenStages, Move, Goto, outsideVars
  <2>11. ASSUME NEW w \in Workers, GoOnBetweenStages(w)
       PROVE  TypeOK'
    BY <2>11
       DEF TypeOK, GoOnBetweenStages, NextStep, CheckSteps, Goto, jobVars,
           outsideVars
  <2>12. ASSUME NEW w \in Workers, BackToQueued(w)
       PROVE  TypeOK'
    BY <2>12
       DEF TypeOK, BackToQueued, RecordStage, Move, Goto, outsideVars
  <2>13. ASSUME NEW w \in Workers, StartTranscribing(w)
       PROVE  TypeOK'
    BY <2>13
       DEF TypeOK, StartTranscribing, RecordStage, Move, Goto, outsideVars
  <2>14. ASSUME NEW w \in Workers, TranscriptReady(w)
       PROVE  TypeOK'
    BY <2>14
       DEF TypeOK, TranscriptReady, RecordStage, Move, Goto, outsideVars
  <2>15. ASSUME NEW w \in Workers, DeferDispatch(w)
       PROVE  TypeOK'
    <3>1. status[held[w]] \in Active
      BY <2>15 DEF DeferDispatch, At
    <3>2. Requeue(w, status[held[w]]) /\ Rest(w)
      BY <2>15 DEF DeferDispatch, Requeue
    <3>3. paneDefers' \in [Jobs -> 0..MaxDispatchDeferrals]
      <4>1. \A n \in 0..MaxDispatchDeferrals :
               n < MaxDispatchDeferrals => n + 1 \in 0..MaxDispatchDeferrals
        OBVIOUS
      <4> QED BY <2>15, <4>1 DEF TypeOK, DeferDispatch
    <3> QED
      BY <2>15, <3>1, <3>2, <3>3, RestTyped, RequeueTyped
         DEF TypeOK, DeferDispatch, Requeue, outsideVars
  <2>16. ASSUME NEW w \in Workers, StartMinutes(w)
       PROVE  TypeOK'
    BY <2>16
       DEF TypeOK, StartMinutes, RecordStage, Move, Goto, outsideVars
  <2>17. ASSUME NEW w \in Workers, ResumeMinutes(w)
       PROVE  TypeOK'
    BY <2>17 DEF TypeOK, ResumeMinutes, Goto, jobVars, outsideVars
  <2>18. ASSUME NEW w \in Workers, SendToAgent(w)
       PROVE  TypeOK'
    BY <2>18 DEF TypeOK, SendToAgent, Goto, jobVars
  <2>19. ASSUME NEW w \in Workers, RecordDispatched(w)
       PROVE  TypeOK'
    <3>1. CASE pc[w] = "sent"
      BY <2>19, <3>1, GotoTyped
         DEF TypeOK, RecordDispatched, outsideVars
    <3>2. CASE pc[w] # "sent"
      BY <2>19, <3>2, RestTyped
         DEF TypeOK, RecordDispatched, outsideVars
    <3> QED BY <3>1, <3>2
  <2>20. ASSUME NEW w \in Workers, DropDispatchDebt(w)
       PROVE  TypeOK'
    <3>1. Rest(w)
      BY <2>20 DEF DropDispatchDebt
    <3> QED
      BY <2>20, <3>1, RestTyped
         DEF TypeOK, DropDispatchDebt, jobVars, outsideVars
  <2>21. ASSUME NEW w \in Workers, KeepBooks(w)
       PROVE  TypeOK'
    <3>1. Rest(w)
      BY <2>21 DEF KeepBooks
    <3> QED
      BY <2>21, <3>1, RestTyped, DepartedTyped
         DEF TypeOK, KeepBooks, outsideVars
  <2>22. ASSUME NEW w \in Workers, GiveUp(w)
       PROVE  TypeOK'
    <3>1. /\ pc' \in [Workers -> Steps]
          /\ held' \in [Workers -> Jobs \cup {NoJob}]
          /\ heldAttempt' \in [Workers -> 0..MaxAttempts]
          /\ startStage' \in [Workers -> Active \cup {NoStage}]
      BY <2>22, RestTyped, GotoTyped DEF GiveUp
    <3>2. faults' \in 0..MaxFaults
      BY <2>22 DEF TypeOK, GiveUp
    <3> QED
      BY <2>22, <3>1, <3>2, DepartedTyped DEF TypeOK, GiveUp
  <2>23. ASSUME NEW w \in Workers, Crash(w)
       PROVE  TypeOK'
    <3>1. faults' \in 0..MaxFaults
      BY <2>23 DEF TypeOK, Crash
    <3>2. heldAttempt' \in [Workers -> 0..MaxAttempts]
      <4>1. 0 \in 0..MaxAttempts
        OBVIOUS
      <4> QED BY <2>23, <4>1 DEF TypeOK, Crash
    <3> QED BY <2>23, <3>1, <3>2 DEF TypeOK, Crash
  <2>24. ASSUME NEW w \in Workers, Restart(w)
       PROVE  TypeOK'
    BY <2>24 DEF TypeOK, Restart, Goto, jobVars, outsideVars
  <2>25. ASSUME NEW j \in Jobs, NEW h \in BOOLEAN,
                NEW s \in Active \cup {NoStage},
              Enqueue(j, h, s)
       PROVE  TypeOK'
    <3>1. attempt' \in [Jobs -> 0..MaxAttempts]
      <4>1. 1 \in 0..MaxAttempts
        OBVIOUS
      <4> QED BY <2>25, <4>1 DEF TypeOK, Enqueue
    <3>2. attStatus' \in [Jobs -> [Attempts -> Statuses]]
      BY <2>25 DEF TypeOK, Enqueue
    <3> QED
      BY <2>25, <3>1, <3>2
         DEF TypeOK, Enqueue, procVars, outsideVars
  <2>26. ASSUME NEW j \in Jobs, NEW s \in Active, Retry(j, s)
       PROVE  TypeOK'
    <3>1. attempt' \in [Jobs -> 0..MaxAttempts]
      <4>1. \A n \in 0..MaxAttempts :
               n < MaxAttempts => n + 1 \in 0..MaxAttempts
        OBVIOUS
      <4> QED BY <2>26, <4>1 DEF TypeOK, Retry
    <3>2. attStatus' \in [Jobs -> [Attempts -> Statuses]]
      BY <2>26 DEF TypeOK, Retry
    <3>3. paneDefers' \in [Jobs -> 0..MaxDispatchDeferrals]
      <4>1. 0 \in 0..MaxDispatchDeferrals
        OBVIOUS
      <4> QED BY <2>26, <4>1 DEF TypeOK, Retry
    <3>4. sourceDefers' \in [Jobs -> 0..MaxStabilizeDeferrals]
      <4>1. 0 \in 0..MaxStabilizeDeferrals
        OBVIOUS
      <4> QED BY <2>26, <4>1 DEF TypeOK, Retry
    <3> QED
      BY <2>26, <3>1, <3>2, <3>3, <3>4
         DEF TypeOK, Retry, procVars, outsideVars
  <2>27. ASSUME NEW j \in Jobs, NEW o, Withdraw(j, o)
       PROVE  TypeOK'
    BY <2>27 DEF TypeOK, Withdraw, Move, procVars, outsideVars
  <2>28. ASSUME NEW j \in Jobs, StopAfterStage(j)
       PROVE  TypeOK'
    BY <2>28 DEF TypeOK, StopAfterStage, procVars, outsideVars
  <2>29. ASSUME NEW j \in Jobs, MarkDraftModified(j)
       PROVE  TypeOK'
    BY <2>29 DEF TypeOK, MarkDraftModified, procVars, outsideVars
  <2>30. ASSUME NEW j \in Jobs, PublishBegin(j)
       PROVE  TypeOK'
    BY <2>30 DEF TypeOK, PublishBegin, jobVars, procVars
  <2>31. ASSUME NEW j \in Jobs, NEW a \in Attempts, PublishCommit(j, a)
       PROVE  TypeOK'
    <3>1. published' \in [Jobs -> 0..MaxAttempts]
      <4>1. a \in 0..MaxAttempts
        BY DEF Attempts
      <4> QED BY <2>31, <4>1 DEF TypeOK, PublishCommit
    <3>2. attStatus' \in [Jobs -> [Attempts -> Statuses]]
      BY <2>31 DEF TypeOK, PublishCommit
    <3>3. publishing' \in [Jobs -> [Attempts -> Publishes]]
      BY <2>31 DEF TypeOK, PublishCommit
    <3> QED
      BY <2>31, <3>1, <3>2, <3>3
         DEF TypeOK, PublishCommit, procVars
  <2>32. ASSUME NEW j \in Jobs, NEW a \in Attempts, PublishAgain(j, a)
       PROVE  TypeOK'
    BY <2>32 DEF TypeOK, PublishAgain, jobVars, procVars
  <2>33. ASSUME NEW j \in Jobs, NEW a \in Attempts, PublishWithdrawn(j, a)
       PROVE  TypeOK'
    BY <2>33 DEF TypeOK, PublishWithdrawn, Move, procVars
  <2>34. ASSUME NEW j \in Jobs, NEW a \in Attempts, PublishEnd(j, a)
       PROVE  TypeOK'
    BY <2>34 DEF TypeOK, PublishEnd, jobVars, procVars
  <2>35. ASSUME NEW j \in Jobs, NEW a \in Attempts, CallbackBegin(j, a)
       PROVE  TypeOK'
    <3>1. callback' \in [Jobs -> [Attempts -> Callbacks]]
      <4>1. PICK c \in Callbacks : callback' = [callback EXCEPT ![j][a] = c]
        BY <2>35 DEF CallbackBegin
      <4> QED BY <4>1 DEF TypeOK
    <3> QED
      BY <2>35, <3>1 DEF TypeOK, CallbackBegin, jobVars, procVars
  <2>36. ASSUME NEW j \in Jobs, NEW a \in Attempts, CallbackInvalid(j, a)
       PROVE  TypeOK'
    BY <2>36 DEF TypeOK, CallbackInvalid, Move, procVars
  <2>37. ASSUME NEW j \in Jobs, NEW a \in Attempts, CallbackCommit(j, a)
       PROVE  TypeOK'
    BY <2>37 DEF TypeOK, CallbackCommit, Move, procVars
  <2>38. ASSUME NEW j \in Jobs, NEW a \in Attempts, CallbackStop(j, a)
       PROVE  TypeOK'
    BY <2>38 DEF TypeOK, CallbackStop, Move, procVars
  <2>39. ASSUME NEW j \in Jobs, NEW a \in Attempts, CallbackEnd(j, a)
       PROVE  TypeOK'
    BY <2>39 DEF TypeOK, CallbackEnd, jobVars, procVars
  <2>40. ASSUME NEW j \in Jobs, NEW a \in Attempts, AgentExit(j, a)
       PROVE  TypeOK'
    BY <2>40 DEF TypeOK, AgentExit, jobVars, procVars
  <2>41. CASE UNCHANGED vars \/ TakePane \/ LeavePane
    BY <2>41 DEF TypeOK, TakePane, LeavePane, vars, jobVars, procVars,
       outsideVars
  <2> QED
    BY <2>1, <2>2, <2>3, <2>4, <2>5, <2>6, <2>7, <2>8, <2>9, <2>10, <2>11,
       <2>12, <2>13, <2>14, <2>15, <2>16, <2>17, <2>18, <2>19, <2>20, <2>21,
       <2>22, <2>23, <2>24, <2>25, <2>26, <2>27, <2>28, <2>29, <2>30, <2>31,
       <2>32, <2>33, <2>34, <2>35, <2>36, <2>37, <2>38, <2>39, <2>40, <2>41
       DEF Next, Round, Stage, Fault, Callback, User, Publish
<1> QED BY <1>1, <1>2, PTL DEF Spec

----------------------------------------------------------------------------
(* The rows of a job.  A job that has not been enqueued has no attempt and  *)
(* no stop request, and nothing newer than the current attempt has been    *)
(* published: with these two the properties of the rows are inductive.     *)

Unborn ==
    \A j \in Jobs : status[j] = "absent" => attempt[j] = 0 /\ ~stop[j]

PublishedBefore == \A j \in Jobs : published[j] <= attempt[j]

Rows == /\ AttemptRows /\ Unborn /\ PublishedBefore
        /\ PublishedIsCurrent /\ QueuedCanBeClaimed

(* A move of both rows keeps them alike.                                   *)
LEMMA MoveRows ==
  ASSUME TypeOK, AttemptRows, NEW j, NEW s, Move(j, s), UNCHANGED attempt
  PROVE  AttemptRows'
BY DEF TypeOK, AttemptRows, Move

(* Every action keeps the rows of all jobs in order.                        *)
LEMMA RowsStep == Rows /\ TypeOK /\ TypeOK' /\ [Next]_vars => Rows'
<1> SUFFICES ASSUME Rows, TypeOK, TypeOK', [Next]_vars PROVE Rows'
  OBVIOUS
<1> USE RelayAssumption
    DEF Active, Finished, Stopped, Retryable, NoStage, NoJob
<1>1. ASSUME NEW w \in Workers, ReconcileHandoffs(w)
     PROVE  Rows'
  BY <1>1
     DEF Rows, AttemptRows, Unborn, PublishedBefore, PublishedIsCurrent,
         QueuedCanBeClaimed, TypeOK, ReconcileHandoffs, HandedOff, Goto,
         outsideVars
<1>2. ASSUME NEW w \in Workers, RecoverOrphans(w)
     PROVE  Rows'
  BY <1>2
     DEF Rows, AttemptRows, Unborn, PublishedBefore, PublishedIsCurrent,
         QueuedCanBeClaimed, TypeOK, RecoverOrphans, Orphaned, OrphanStatus,
         HandedOff, Goto, outsideVars
<1>3. ASSUME NEW w \in Workers, NothingToClaim(w)
     PROVE  Rows'
  BY <1>3
     DEF Rows, AttemptRows, Unborn, PublishedBefore, PublishedIsCurrent,
         QueuedCanBeClaimed, TypeOK, NothingToClaim, Goto, jobVars,
         outsideVars
<1>4. ASSUME NEW w \in Workers, NEW k \in Jobs, Claim(w, k)
     PROVE  Rows'
  BY <1>4, MoveRows
     DEF Rows, AttemptRows, Unborn, PublishedBefore, PublishedIsCurrent,
         QueuedCanBeClaimed, TypeOK, Claim, FirstStage, FirstStep, Move,
         outsideVars
<1>5. ASSUME NEW w \in Workers, WorkerFail(w)
     PROVE  Rows'
  <2>1. AttemptRows'
    <3>1. CASE Failable(w)
      BY <1>5, <3>1, MoveRows DEF Rows, WorkerFail
    <3>2. CASE ~Failable(w)
      BY <1>5, <3>2 DEF Rows, AttemptRows, WorkerFail
    <3> QED BY <3>1, <3>2
  <2>2. \A j \in Jobs : status'[j] \in {status[j], "failed"}
    BY <1>5 DEF TypeOK, WorkerFail, Move
  <2>3. Unborn' /\ PublishedBefore' /\ PublishedIsCurrent'
    BY <1>5, <2>2 DEF Rows, Unborn, PublishedBefore, PublishedIsCurrent,
       WorkerFail
  <2>4. QueuedCanBeClaimed'
    <3>1. \A j \in Jobs : worker'[j] = NoWorker => worker[j] = NoWorker
      BY <1>5 DEF TypeOK, WorkerFail, Departed
    <3> QED BY <1>5, <2>2, <3>1 DEF Rows, QueuedCanBeClaimed, WorkerFail
  <2> QED BY <2>1, <2>2, <2>3, <2>4 DEF Rows
<1>6. ASSUME NEW w \in Workers, DeferUnstableSource(w)
     PROVE  Rows'
  BY <1>6, MoveRows
     DEF Rows, AttemptRows, Unborn, PublishedBefore, PublishedIsCurrent,
         QueuedCanBeClaimed, TypeOK, DeferUnstableSource, At, Owns, MayWait,
         Requeue, Released, Move, Rest
<1>7. ASSUME NEW w \in Workers, SourceChanged(w)
     PROVE  Rows'
  BY <1>7, MoveRows
     DEF Rows, AttemptRows, Unborn, PublishedBefore, PublishedIsCurrent,
         QueuedCanBeClaimed, TypeOK, SourceChanged, Owns, Move, Goto,
         outsideVars
<1>8. ASSUME NEW w \in Workers, NEW k \in Jobs, SourceDuplicate(w, k)
     PROVE  Rows'
  BY <1>8, MoveRows
     DEF Rows, AttemptRows, Unborn, PublishedBefore, PublishedIsCurrent,
         QueuedCanBeClaimed, TypeOK, SourceDuplicate, Owns, Move, Goto,
         outsideVars
<1>9. ASSUME NEW w \in Workers, SourceRecorded(w)
     PROVE  Rows'
  BY <1>9
     DEF Rows, AttemptRows, Unborn, PublishedBefore, PublishedIsCurrent,
         QueuedCanBeClaimed, TypeOK, SourceRecorded, Owns, Goto, outsideVars
<1>10. ASSUME NEW w \in Workers, StopBetweenStages(w)
     PROVE  Rows'
  BY <1>10, MoveRows
     DEF Rows, AttemptRows, Unborn, PublishedBefore, PublishedIsCurrent,
         QueuedCanBeClaimed, TypeOK, StopBetweenStages, Move, Goto,
         outsideVars
<1>11. ASSUME NEW w \in Workers, GoOnBetweenStages(w)
     PROVE  Rows'
  BY <1>11
     DEF Rows, AttemptRows, Unborn, PublishedBefore, PublishedIsCurrent,
         QueuedCanBeClaimed, TypeOK, GoOnBetweenStages, NextStep, CheckSteps,
         Goto, jobVars, outsideVars
<1>12. ASSUME NEW w \in Workers, BackToQueued(w)
     PROVE  Rows'
  <2>1. /\ Move(held[w], "queued") /\ worker[held[w]] = w
        /\ UNCHANGED <<attempt, worker, stop, published>>
    BY <1>12 DEF BackToQueued, RecordStage, At, Owns
  <2>2. AttemptRows'
    BY <2>1, MoveRows DEF Rows
  <2>3. Unborn' /\ PublishedBefore' /\ PublishedIsCurrent'
    BY <2>1 DEF Rows, Unborn, PublishedBefore, PublishedIsCurrent, TypeOK, Move
  <2>4. QueuedCanBeClaimed'
    BY <2>1 DEF Rows, QueuedCanBeClaimed, TypeOK, Move
  <2> QED BY <2>2, <2>3, <2>4 DEF Rows
<1>13. ASSUME NEW w \in Workers, StartTranscribing(w)
     PROVE  Rows'
  BY <1>13, MoveRows
     DEF Rows, AttemptRows, Unborn, PublishedBefore, PublishedIsCurrent,
         QueuedCanBeClaimed, TypeOK, StartTranscribing, RecordStage, Move,
         Goto, outsideVars
<1>14. ASSUME NEW w \in Workers, TranscriptReady(w)
     PROVE  Rows'
  BY <1>14, MoveRows
     DEF Rows, AttemptRows, Unborn, PublishedBefore, PublishedIsCurrent,
         QueuedCanBeClaimed, TypeOK, TranscriptReady, RecordStage, Move,
         Goto, outsideVars
<1>15. ASSUME NEW w \in Workers, DeferDispatch(w)
     PROVE  Rows'
  BY <1>15, MoveRows
     DEF Rows, AttemptRows, Unborn, PublishedBefore, PublishedIsCurrent,
         QueuedCanBeClaimed, TypeOK, DeferDispatch, At, Owns, Requeue,
         Released, Move, Rest
<1>16. ASSUME NEW w \in Workers, StartMinutes(w)
     PROVE  Rows'
  BY <1>16, MoveRows
     DEF Rows, AttemptRows, Unborn, PublishedBefore, PublishedIsCurrent,
         QueuedCanBeClaimed, TypeOK, StartMinutes, RecordStage, Move, Goto,
         outsideVars
<1>17. ASSUME NEW w \in Workers, ResumeMinutes(w)
     PROVE  Rows'
  BY <1>17
     DEF Rows, AttemptRows, Unborn, PublishedBefore, PublishedIsCurrent,
         QueuedCanBeClaimed, TypeOK, ResumeMinutes, Goto, jobVars,
         outsideVars
<1>18. ASSUME NEW w \in Workers, SendToAgent(w)
     PROVE  Rows'
  BY <1>18
     DEF Rows, AttemptRows, Unborn, PublishedBefore, PublishedIsCurrent,
         QueuedCanBeClaimed, TypeOK, SendToAgent, Goto, jobVars
<1>19. ASSUME NEW w \in Workers, RecordDispatched(w)
     PROVE  Rows'
  BY <1>19
     DEF Rows, AttemptRows, Unborn, PublishedBefore, PublishedIsCurrent,
         QueuedCanBeClaimed, TypeOK, RecordDispatched, Goto, Rest,
         outsideVars
<1>20. ASSUME NEW w \in Workers, DropDispatchDebt(w)
     PROVE  Rows'
  BY <1>20
     DEF Rows, AttemptRows, Unborn, PublishedBefore, PublishedIsCurrent,
         QueuedCanBeClaimed, TypeOK, DropDispatchDebt, Rest, jobVars,
         outsideVars
<1>21. ASSUME NEW w \in Workers, KeepBooks(w)
     PROVE  Rows'
  BY <1>21
     DEF Rows, AttemptRows, Unborn, PublishedBefore, PublishedIsCurrent,
         QueuedCanBeClaimed, TypeOK, KeepBooks, Departed, Rest, outsideVars
<1>22. ASSUME NEW w \in Workers, GiveUp(w)
     PROVE  Rows'
  BY <1>22
     DEF Rows, AttemptRows, Unborn, PublishedBefore, PublishedIsCurrent,
         QueuedCanBeClaimed, TypeOK, GiveUp, Departed, Rest, Goto
<1>23. ASSUME NEW w \in Workers, Crash(w)
     PROVE  Rows'
  BY <1>23
     DEF Rows, AttemptRows, Unborn, PublishedBefore, PublishedIsCurrent,
         QueuedCanBeClaimed, TypeOK, Crash
<1>24. ASSUME NEW w \in Workers, Restart(w)
     PROVE  Rows'
  BY <1>24
     DEF Rows, AttemptRows, Unborn, PublishedBefore, PublishedIsCurrent,
         QueuedCanBeClaimed, TypeOK, Restart, Goto, jobVars, outsideVars
<1>25. ASSUME NEW j \in Jobs, NEW h \in BOOLEAN,
                NEW s \in Active \cup {NoStage},
              Enqueue(j, h, s)
     PROVE  Rows'
  <2>1. attempt[j] = 0 /\ ~stop[j]
    BY <1>25 DEF Rows, Unborn, Enqueue
  <2>2. AttemptRows'
    <3> SUFFICES ASSUME NEW k \in Jobs
                 PROVE  \A n \in Attempts :
                   /\ n < attempt'[k] => attStatus'[k][n] \in Retryable
                   /\ n > attempt'[k] => attStatus'[k][n] = "absent"
                   /\ n = attempt'[k] =>
                        \/ attStatus'[k][n] = status'[k]
                        \/ /\ status'[k] = "draft_modified"
                           /\ attStatus'[k][n] \in {"completed_unreviewed",
                                                    "published"}
      BY DEF AttemptRows
    <3>1. CASE k = j
      <4>1. attempt'[j] = 1 /\ status'[j] = "queued"
        BY <1>25 DEF TypeOK, Enqueue
      <4>2. \A n \in Attempts : attStatus'[j][n] =
                                  IF n = 1 THEN "queued" ELSE attStatus[j][n]
        BY <1>25 DEF TypeOK, Enqueue
      <4>3. \A n \in Attempts : n > 0 /\ attStatus[j][n] = "absent"
        BY <2>1 DEF Rows, AttemptRows, Attempts
      <4> QED BY <3>1, <4>1, <4>2, <4>3 DEF Attempts
    <3>2. CASE k # j
      <4>1. UNCHANGED <<attempt[k], status[k], attStatus[k]>>
        BY <1>25, <3>2 DEF TypeOK, Enqueue
      <4> QED BY <4>1 DEF Rows, AttemptRows
    <3> QED BY <3>1, <3>2
  <2>3. Unborn' /\ PublishedIsCurrent'
    BY <1>25 DEF Rows, Unborn, PublishedIsCurrent, TypeOK, Enqueue
  <2>4. PublishedBefore'
    BY <1>25, <2>1 DEF Rows, PublishedBefore, TypeOK, Enqueue
  <2>5. QueuedCanBeClaimed'
    BY <1>25, <2>1 DEF Rows, QueuedCanBeClaimed, TypeOK, Enqueue
  <2> QED BY <2>2, <2>3, <2>4, <2>5 DEF Rows
<1>26. ASSUME NEW j \in Jobs, NEW s \in Active, Retry(j, s)
     PROVE  Rows'
  <2>1. status[j] \in Retryable
    BY <1>26 DEF Retry
  <2>2. AttemptRows'
    <3> SUFFICES ASSUME NEW k \in Jobs
                 PROVE  \A n \in Attempts :
                   /\ n < attempt'[k] => attStatus'[k][n] \in Retryable
                   /\ n > attempt'[k] => attStatus'[k][n] = "absent"
                   /\ n = attempt'[k] =>
                        \/ attStatus'[k][n] = status'[k]
                        \/ /\ status'[k] = "draft_modified"
                           /\ attStatus'[k][n] \in {"completed_unreviewed",
                                                    "published"}
      BY DEF AttemptRows
    <3>1. CASE k = j
      <4>1. attempt'[j] = attempt[j] + 1 /\ status'[j] = "queued"
        BY <1>26 DEF TypeOK, Retry
      <4>2. \A n \in Attempts :
              attStatus'[j][n] = IF n = attempt[j] + 1 THEN "queued"
                                                       ELSE attStatus[j][n]
        BY <1>26 DEF TypeOK, Retry
      <4>3. \A n \in Attempts : n = attempt[j] => attStatus[j][n] \in Retryable
        BY <2>1 DEF Rows, AttemptRows
      <4>4. \A n \in Attempts :
              /\ n < attempt[j] => attStatus[j][n] \in Retryable
              /\ n > attempt[j] => attStatus[j][n] = "absent"
        BY DEF Rows, AttemptRows
      <4>5. attempt[j] \in Nat
        BY AttemptsCounted
      <4> HIDE DEF Retryable
      <4> QED BY <3>1, <4>1, <4>2, <4>3, <4>4, <4>5 DEF Attempts
    <3>2. CASE k # j
      <4>1. UNCHANGED <<attempt[k], status[k], attStatus[k]>>
        BY <1>26, <3>2 DEF TypeOK, Retry
      <4> QED BY <4>1 DEF Rows, AttemptRows
    <3> QED BY <3>1, <3>2
  <2>3. Unborn' /\ PublishedIsCurrent' /\ QueuedCanBeClaimed'
    BY <1>26 DEF Rows, Unborn, PublishedIsCurrent, QueuedCanBeClaimed, TypeOK,
       Retry
  <2>4. PublishedBefore'
    BY <1>26 DEF Rows, PublishedBefore, TypeOK, Retry
  <2> QED BY <2>2, <2>3, <2>4 DEF Rows
<1>27. ASSUME NEW j \in Jobs, NEW o, Withdraw(j, o)
     PROVE  Rows'
  BY <1>27, MoveRows
     DEF Rows, AttemptRows, Unborn, PublishedBefore, PublishedIsCurrent,
         QueuedCanBeClaimed, TypeOK, Withdraw, Move, procVars, outsideVars
<1>28. ASSUME NEW j \in Jobs, StopAfterStage(j)
     PROVE  Rows'
  <2>1. status[j] \notin {"absent", "queued"}
    BY <1>28 DEF StopAfterStage, UnderWay
  <2>2. UNCHANGED <<status, attempt, attStatus, published, worker>>
    BY <1>28 DEF StopAfterStage
  <2>3. \A k \in Jobs : k # j => UNCHANGED stop[k]
    BY <1>28 DEF TypeOK, StopAfterStage
  <2> QED
    BY <2>1, <2>2, <2>3 DEF Rows, AttemptRows, Unborn, PublishedBefore,
       PublishedIsCurrent, QueuedCanBeClaimed
<1>29. ASSUME NEW j \in Jobs, MarkDraftModified(j)
     PROVE  Rows'
  BY <1>29
     DEF Rows, AttemptRows, Unborn, PublishedBefore, PublishedIsCurrent,
         QueuedCanBeClaimed, TypeOK, MarkDraftModified, procVars,
         outsideVars
<1>30. ASSUME NEW j \in Jobs, PublishBegin(j)
     PROVE  Rows'
  BY <1>30
     DEF Rows, AttemptRows, Unborn, PublishedBefore, PublishedIsCurrent,
         QueuedCanBeClaimed, TypeOK, PublishBegin, jobVars, procVars
<1>31. ASSUME NEW j \in Jobs, NEW a \in Attempts, PublishCommit(j, a)
     PROVE  Rows'
  <2>1. a = attempt[j] /\ status[j] # "absent"
    BY <1>31 DEF PublishCommit, AsValidated
  <2>2. Move(j, "published")
    BY <1>31, <2>1 DEF PublishCommit, Move
  <2>3. AttemptRows'
    BY <1>31, <2>2, MoveRows DEF Rows, PublishCommit
  <2>4. Unborn' /\ QueuedCanBeClaimed'
    BY <1>31 DEF Rows, Unborn, QueuedCanBeClaimed, TypeOK, PublishCommit
  <2>5. PublishedBefore' /\ PublishedIsCurrent'
    BY <1>31, <2>1 DEF Rows, PublishedBefore, PublishedIsCurrent, TypeOK,
       PublishCommit
  <2> QED BY <2>3, <2>4, <2>5 DEF Rows
<1>32. ASSUME NEW j \in Jobs, NEW a \in Attempts, PublishAgain(j, a)
     PROVE  Rows'
  BY <1>32
     DEF Rows, AttemptRows, Unborn, PublishedBefore, PublishedIsCurrent,
         QueuedCanBeClaimed, TypeOK, PublishAgain, jobVars, procVars
<1>33. ASSUME NEW j \in Jobs, NEW a \in Attempts, PublishWithdrawn(j, a)
     PROVE  Rows'
  BY <1>33, MoveRows
     DEF Rows, AttemptRows, Unborn, PublishedBefore, PublishedIsCurrent,
         QueuedCanBeClaimed, TypeOK, PublishWithdrawn, Move, procVars
<1>34. ASSUME NEW j \in Jobs, NEW a \in Attempts, PublishEnd(j, a)
     PROVE  Rows'
  BY <1>34
     DEF Rows, AttemptRows, Unborn, PublishedBefore, PublishedIsCurrent,
         QueuedCanBeClaimed, TypeOK, PublishEnd, jobVars, procVars
<1>35. ASSUME NEW j \in Jobs, NEW a \in Attempts, CallbackBegin(j, a)
     PROVE  Rows'
  BY <1>35
     DEF Rows, AttemptRows, Unborn, PublishedBefore, PublishedIsCurrent,
         QueuedCanBeClaimed, TypeOK, CallbackBegin, jobVars, procVars
<1>36. ASSUME NEW j \in Jobs, NEW a \in Attempts, CallbackInvalid(j, a)
     PROVE  Rows'
  BY <1>36, MoveRows
     DEF Rows, AttemptRows, Unborn, PublishedBefore, PublishedIsCurrent,
         QueuedCanBeClaimed, TypeOK, CallbackInvalid, Move, procVars
<1>37. ASSUME NEW j \in Jobs, NEW a \in Attempts, CallbackCommit(j, a)
     PROVE  Rows'
  BY <1>37, MoveRows
     DEF Rows, AttemptRows, Unborn, PublishedBefore, PublishedIsCurrent,
         QueuedCanBeClaimed, TypeOK, CallbackCommit, Move, procVars
<1>38. ASSUME NEW j \in Jobs, NEW a \in Attempts, CallbackStop(j, a)
     PROVE  Rows'
  BY <1>38, MoveRows
     DEF Rows, AttemptRows, Unborn, PublishedBefore, PublishedIsCurrent,
         QueuedCanBeClaimed, TypeOK, CallbackStop, Move, procVars
<1>39. ASSUME NEW j \in Jobs, NEW a \in Attempts, CallbackEnd(j, a)
     PROVE  Rows'
  BY <1>39
     DEF Rows, AttemptRows, Unborn, PublishedBefore, PublishedIsCurrent,
         QueuedCanBeClaimed, TypeOK, CallbackEnd, jobVars, procVars
<1>40. ASSUME NEW j \in Jobs, NEW a \in Attempts, AgentExit(j, a)
     PROVE  Rows'
  BY <1>40
     DEF Rows, AttemptRows, Unborn, PublishedBefore, PublishedIsCurrent,
         QueuedCanBeClaimed, TypeOK, AgentExit, jobVars, procVars
<1>41. CASE UNCHANGED vars \/ TakePane \/ LeavePane
  BY <1>41 DEF Rows, AttemptRows, Unborn, PublishedBefore,
     PublishedIsCurrent, QueuedCanBeClaimed, TakePane, LeavePane, vars, jobVars
<1> QED
  BY <1>1, <1>2, <1>3, <1>4, <1>5, <1>6, <1>7, <1>8, <1>9, <1>10, <1>11,
     <1>12, <1>13, <1>14, <1>15, <1>16, <1>17, <1>18, <1>19, <1>20, <1>21,
     <1>22, <1>23, <1>24, <1>25, <1>26, <1>27, <1>28, <1>29, <1>30, <1>31,
     <1>32, <1>33, <1>34, <1>35, <1>36, <1>37, <1>38, <1>39, <1>40, <1>41
     DEF Next, Round, Stage, Fault, Callback, User, Publish

(* The two tables agree in every state of every behaviour: Rows is         *)
(* inductive, so it holds always.                                          *)
LEMMA RowsInvariant == Spec => []Rows
<1>1. Init => Rows
  <2>1. Init => Unborn /\ PublishedBefore /\ PublishedIsCurrent
                /\ QueuedCanBeClaimed
    BY DEF Init, Unborn, PublishedBefore, PublishedIsCurrent,
       QueuedCanBeClaimed
  <2>2. Init => AttemptRows
    BY DEF Init, AttemptRows, Attempts
  <2> QED BY <2>1, <2>2 DEF Rows
<1> QED BY <1>1, RowsStep, TypeCorrect, PTL DEF Spec

(* The two tables agree about every attempt, old or current: the           *)
(* compare-and-swap on attempts of fail, record_stage, retry and the       *)
(* recovery of orphans never fails for ever.                               *)
THEOREM TablesAgree == Spec => []AttemptRows
<1>1. Rows => AttemptRows
  BY DEF Rows
<1> QED BY <1>1, RowsInvariant, PTL

(* What mark_published commits is the archive of the current attempt,      *)
(* however long it validated outside the write lock.                       *)
THEOREM PublishedCurrent == Spec => []PublishedIsCurrent
<1>1. Rows => PublishedIsCurrent
  BY DEF Rows
<1> QED BY <1>1, RowsInvariant, PTL

(* No free attempt in the queue carries a stop request, which claim_next   *)
(* would skip for ever.                                                    *)
THEOREM QueueClaimable == Spec => []QueuedCanBeClaimed
<1>1. Rows => QueuedCanBeClaimed
  BY DEF Rows
<1> QED BY <1>1, RowsInvariant, PTL

(* A publication is replaced only by that of a newer attempt: no           *)
(* mark_published that is still under way for an older one can undo it.    *)
THEOREM PublicationAdvances == Spec => PublishedOnlyAdvances
<1>1. Rows /\ TypeOK /\ [Next]_vars
        => [\A j \in Jobs : published'[j] >= published[j]]_vars
  <2> SUFFICES ASSUME Rows, TypeOK, [Next]_vars, NEW j \in Jobs
               PROVE  published'[j] >= published[j]
    OBVIOUS
  <2>1. published[j] \in Nat
    BY RelayAssumption DEF TypeOK
  <2>2. CASE \E k \in Jobs, a \in Attempts : PublishCommit(k, a)
    <3>1. PICK k \in Jobs, a \in Attempts : PublishCommit(k, a)
      BY <2>2
    <3>2. a = attempt[k] /\ published[k] <= attempt[k]
      BY <3>1 DEF PublishCommit, AsValidated, Rows, PublishedBefore
    <3>3. published'[j] = IF j = k THEN a ELSE published[j]
      BY <3>1 DEF TypeOK, PublishCommit
    <3> QED BY <2>1, <3>2, <3>3
  <2>3. CASE ~\E k \in Jobs, a \in Attempts : PublishCommit(k, a)
    <3>1. ASSUME NEW w \in Workers, Round(w) \/ Fault(w) \/ Restart(w)
          PROVE  UNCHANGED published
      BY <3>1 DEF Round, Fault, jobVars, ReconcileHandoffs, RecoverOrphans,
         NothingToClaim, Claim, GiveUp, Crash, Restart
    <3>2. ASSUME NEW w \in Workers, Stage(w)
          PROVE  UNCHANGED published
      BY <3>2 DEF Stage, jobVars, WorkerFail, DeferUnstableSource, Requeue,
         SourceChanged, SourceDuplicate, SourceRecorded, StopBetweenStages,
         GoOnBetweenStages, BackToQueued, StartTranscribing, TranscriptReady,
         RecordStage, DeferDispatch, StartMinutes, ResumeMinutes, SendToAgent,
         RecordDispatched, DropDispatchDebt, KeepBooks
    <3>3. ASSUME NEW k \in Jobs, User(k)
          PROVE  UNCHANGED published
      BY <3>3 DEF User, jobVars, Enqueue, Retry, Withdraw, StopAfterStage,
         MarkDraftModified, PublishBegin
    <3>4. ASSUME NEW k \in Jobs, NEW a \in Attempts,
                 AgentExit(k, a) \/ Callback(k, a)
          PROVE  UNCHANGED published
      BY <3>4 DEF Callback, jobVars, AgentExit, CallbackBegin,
         CallbackInvalid, CallbackCommit, CallbackStop, CallbackEnd
    <3>5. ASSUME NEW k \in Jobs, NEW a \in Attempts, Publish(k, a)
          PROVE  UNCHANGED published
      BY <2>3, <3>5 DEF Publish, jobVars, PublishAgain, PublishWithdrawn,
         PublishEnd
    <3>6. UNCHANGED published
      BY <3>1, <3>2, <3>3, <3>4, <3>5
         DEF Next, TakePane, LeavePane, vars, jobVars
    <3> QED BY <2>1, <3>6
  <2> QED BY <2>2, <2>3
<1> QED
  BY <1>1, RowsInvariant, TypeCorrect, PTL DEF Spec, PublishedOnlyAdvances

----------------------------------------------------------------------------
(* Claims.                                                                 *)

(* A process that has a claim, or still owes a write about one.            *)
Busy(w) == pc[w] \in Running \cup Owing

(* A process that has not yet sent the prompt of its attempt.              *)
Carrying(w) == pc[w] \in Running \ {"sent", "books"}

(* An attempt has one process that may write about it: the worker of the   *)
(* row, or none any more once the attempt is over.                         *)
Born == \A j \in Jobs : status[j] # "absent" => attempt[j] # 0

Keeps(v, j) ==
    \/ worker[j] = v
    \/ worker[j] = NoWorker /\ status[j] \in Retryable

Held ==
    \A w \in Workers : Busy(w) =>
        /\ held[w] # NoJob /\ heldAttempt[w] # 0
        /\ heldAttempt[w] <= attempt[held[w]]
        /\ heldAttempt[w] = attempt[held[w]] => Keeps(w, held[w])

OneHolder ==
    \A v, w \in Workers :
        /\ Busy(v) /\ Busy(w)
        /\ held[v] = held[w] /\ heldAttempt[v] = heldAttempt[w]
        => v = w

Holders == Born /\ Held /\ OneHolder

(* What ClaimIsHeld says of process v, job j and attempt n, and what makes *)
(* it inductive: nobody has sent the attempt to the agent.                 *)
InOrder(v, j, n) ==
    /\ agent[j][n] = "none"
    /\ \/ /\ attempt[j] = n /\ worker[j] = v /\ ~dispatched[j]
          /\ status[j] \in Working(pc[v])
          /\ pc[v] = "source" => status[j] = startStage[v]
       \/ n > 1 /\ attStatus[j][n] = "interrupted"

Carried ==
    \A w \in Workers : Carrying(w) => InOrder(w, held[w], heldAttempt[w])

(* No agent has seen an attempt that waits in the queue, or one still to   *)
(* come; and nobody reports the result of an attempt no agent has seen.    *)
Fresh(j) ==
    /\ status[j] \in {"absent", "queued"} => ~dispatched[j]
    /\ \A n \in Attempts :
         /\ status[j] = "queued" /\ n = attempt[j] => agent[j][n] = "none"
         /\ n > attempt[j] => agent[j][n] = "none"
         /\ callback[j][n] # NoCall => agent[j][n] # "none"

Untouched == \A j \in Jobs : Fresh(j)

Claims == Holders /\ Carried /\ Untouched

----------------------------------------------------------------------------

(* A claim is only ever taken by Claim; after it, a process moves on with   *)
(* the same job and attempt until it lets go, and what it carries it has   *)
(* not sent before.                                                        *)
LEMMA ClaimsStay ==
  ASSUME TypeOK, [Next]_vars, NEW v \in Workers, Busy(v)'
  PROVE  \/ \E k \in Jobs : Claim(v, k)
         \/ /\ Busy(v) /\ UNCHANGED <<held[v], heldAttempt[v]>>
            /\ Carrying(v)' => Carrying(v)
<1> DEFINE Stays == /\ Busy(v) /\ UNCHANGED <<held[v], heldAttempt[v]>>
                    /\ Carrying(v)' => Carrying(v)
<1> SUFFICES Stays \/ \E k \in Jobs : Claim(v, k)
  OBVIOUS
<1> USE RelayAssumption DEF Jobs, Attempts, Workers, Active, Finished,
   Stopped,
   Retryable, NoStage, NoJob, NoCall, Repairable, Running, Owing, SourceSteps,
   AdmitSteps, LaterSteps, AgentSteps
<1>1. ASSUME NEW w \in Workers, ReconcileHandoffs(w) \/ RecoverOrphans(w)
             \/ NothingToClaim(w)
      PROVE  Stays
  <2>1. \E step \in {"swept", "recovered", "idle"} : Goto(w, step)
    BY <1>1 DEF ReconcileHandoffs, RecoverOrphans, NothingToClaim
  <2>2. PICK step \in {"swept", "recovered", "idle"} : Goto(w, step)
    BY <2>1
  <2>3. pc'[v] = pc[v] \/ pc'[v] = step
    BY <2>2 DEF TypeOK, Goto
  <2> QED BY <2>2, <2>3 DEF Busy, Carrying, Goto
<1>2. ASSUME NEW w \in Workers, NEW k \in Jobs, Claim(w, k)
      PROVE  Stays \/ v = w
  BY <1>2 DEF TypeOK, Busy, Carrying, Claim, Head, Claimable, FirstStage,
     FirstStep, Move, jobVars, procVars, outsideVars
<1>3. ASSUME NEW w \in Workers, WorkerFail(w)
      PROVE  Stays
  BY <1>3 DEF TypeOK, Busy, Carrying, WorkerFail, Failable, Owns, Mirrored,
     Move, Departed, Rest, jobVars, procVars, outsideVars
<1>4. ASSUME NEW w \in Workers, DeferUnstableSource(w)
      PROVE  Stays
  BY <1>4 DEF TypeOK, Busy, Carrying, DeferUnstableSource, At, Owns, MayWait,
     Requeue, Released, Move, Rest, jobVars, procVars, outsideVars
<1>5. ASSUME NEW w \in Workers, SourceChanged(w)
      PROVE  Stays
  BY <1>5 DEF TypeOK, Busy, Carrying, SourceChanged, Owns, Move, Goto,
     jobVars,
     procVars, outsideVars
<1>6. ASSUME NEW w \in Workers, NEW k \in Jobs, SourceDuplicate(w, k)
      PROVE  Stays
  BY <1>6 DEF TypeOK, Busy, Carrying, SourceDuplicate, Owns, Move, Goto,
     jobVars, procVars, outsideVars
<1>7. ASSUME NEW w \in Workers, SourceRecorded(w)
      PROVE  Stays
  BY <1>7 DEF TypeOK, Busy, Carrying, SourceRecorded, Owns, Goto, jobVars,
     procVars, outsideVars
<1>8. ASSUME NEW w \in Workers, StopBetweenStages(w) \/ GoOnBetweenStages(w)
      PROVE  Stays
  BY <1>8 DEF TypeOK, Busy, Carrying, StopBetweenStages, Owns, StopAsked,
     CheckSteps, Move, Goto, GoOnBetweenStages, NextStep, jobVars, procVars,
     outsideVars
<1>9. ASSUME NEW w \in Workers, BackToQueued(w) \/ StartTranscribing(w)
             \/ TranscriptReady(w) \/ StartMinutes(w)
      PROVE  Stays
  BY <1>9 DEF TypeOK, Busy, Carrying, BackToQueued, RecordStage, At, Owns,
     Move, Goto, StartTranscribing, TranscriptReady, StartMinutes, jobVars,
     procVars, outsideVars
<1>10. ASSUME NEW w \in Workers, DeferDispatch(w)
       PROVE  Stays
  BY <1>10 DEF TypeOK, Busy, Carrying, DeferDispatch, At, Owns, Requeue,
     Released, Move, Rest, jobVars, procVars, outsideVars
<1>11. ASSUME NEW w \in Workers, ResumeMinutes(w) \/ SendToAgent(w)
       PROVE  Stays
  BY <1>11 DEF TypeOK, Busy, Carrying, ResumeMinutes, At, Owns, Goto,
     SendToAgent, jobVars, procVars, outsideVars
<1>12. ASSUME NEW w \in Workers, RecordDispatched(w)
       PROVE  Stays
  <2>1. CASE pc[w] = "sent"
    BY <1>12, <2>1 DEF TypeOK, Busy, Carrying, RecordDispatched, Goto
  <2>2. CASE pc[w] # "sent"
    <3>1. Rest(w) /\ Busy(w)
      BY <1>12, <2>2 DEF RecordDispatched, Busy
    <3> QED BY <3>1 DEF TypeOK, Busy, Carrying, Rest
  <2> QED BY <2>1, <2>2
<1>13. ASSUME NEW w \in Workers, DropDispatchDebt(w)
       PROVE  Stays
  BY <1>13 DEF TypeOK, Busy, Carrying, DropDispatchDebt, Rest, jobVars,
     procVars, outsideVars
<1>14. ASSUME NEW w \in Workers, KeepBooks(w)
       PROVE  Stays
  BY <1>14 DEF TypeOK, Busy, Carrying, KeepBooks, Departed, Rest, jobVars,
     procVars, outsideVars
<1>15. ASSUME NEW w \in Workers, GiveUp(w)
       PROVE  Stays
  <2>1. CASE Rest(w)
    BY <1>15, <2>1 DEF TypeOK, Busy, Carrying, Rest
  <2>2. CASE Goto(w, "owes_failure") \/ Goto(w, "owes_dispatch")
    BY <1>15, <2>2 DEF TypeOK, Busy, Carrying, GiveUp, Goto
  <2> QED BY <1>15, <2>1, <2>2 DEF GiveUp
<1>16. ASSUME NEW w \in Workers, Crash(w)
       PROVE  Stays
  BY <1>16 DEF TypeOK, Busy, Carrying, Crash, jobVars, procVars, outsideVars
<1>17. ASSUME NEW w \in Workers, Restart(w)
       PROVE  Stays
  BY <1>17 DEF TypeOK, Busy, Carrying, Restart, Goto, jobVars, procVars,
     outsideVars
<1>18. ASSUME NEW i \in Jobs, NEW h \in BOOLEAN, NEW s \in Active \cup
              {NoStage}, Enqueue(i, h, s)
       PROVE  Stays
  BY <1>18 DEF TypeOK, Busy, Carrying, Enqueue, jobVars, procVars,
     outsideVars
<1>19. ASSUME NEW i \in Jobs, NEW s \in Active, Retry(i, s)
       PROVE  Stays
  BY <1>19 DEF TypeOK, Busy, Carrying, Retry, jobVars, procVars, outsideVars
<1>20. ASSUME NEW i \in Jobs, NEW o, Withdraw(i, o)
       PROVE  Stays
  BY <1>20 DEF TypeOK, Busy, Carrying, Withdraw, NotBegun, Move, jobVars,
     procVars, outsideVars
<1>21. ASSUME NEW i \in Jobs, StopAfterStage(i) \/ MarkDraftModified(i)
              \/ PublishBegin(i)
       PROVE  Stays
  BY <1>21 DEF TypeOK, Busy, Carrying, StopAfterStage, UnderWay,
     MarkDraftModified, PublishBegin, jobVars, procVars, outsideVars
<1>22. ASSUME NEW i \in Jobs, NEW a \in Attempts, PublishCommit(i, a)
              \/ PublishAgain(i, a) \/ PublishWithdrawn(i, a)
              \/ PublishEnd(i, a)
       PROVE  Stays
  BY <1>22 DEF TypeOK, Busy, Carrying, PublishCommit, AsValidated,
     PublishAgain, PublishWithdrawn, Move, PublishEnd, jobVars, procVars,
     outsideVars
<1>23. ASSUME NEW i \in Jobs, NEW a \in Attempts, CallbackBegin(i, a)
              \/ CallbackInvalid(i, a) \/ CallbackCommit(i, a)
              \/ CallbackStop(i, a) \/ CallbackEnd(i, a) \/ AgentExit(i, a)
       PROVE  Stays
  BY <1>23 DEF TypeOK, Busy, Carrying, CallbackBegin, CallbackInvalid, Read,
     Move, CallbackCommit, CallbackStop, StopAsked, CallbackEnd, AgentExit,
     jobVars, procVars, outsideVars
<1>24. CASE UNCHANGED vars \/ TakePane \/ LeavePane
  BY <1>24 DEF Busy, Carrying, TakePane, LeavePane, vars, jobVars, procVars,
     outsideVars
<1> QED
  BY <1>1, <1>2, <1>3, <1>4, <1>5, <1>6, <1>7, <1>8, <1>9, <1>10, <1>11, <1>12,
     <1>13, <1>14, <1>15, <1>16, <1>17, <1>18, <1>19, <1>20, <1>21, <1>22,
     <1>23, <1>24 DEF Next, Round, Stage, Fault, Callback, User, Publish

(* No attempt comes back: current_attempt only grows.                      *)
LEMMA AttemptGrows ==
  ASSUME TypeOK, Rows, [Next]_vars, NEW j \in Jobs
  PROVE  attempt'[j] >= attempt[j]
<1>1. attempt[j] \in Nat
  BY RelayAssumption DEF TypeOK
<1>2. CASE \E i \in Jobs, h \in BOOLEAN, s \in Active \cup {NoStage} :
             Enqueue(i, h, s)
  <2>1. PICK i \in Jobs, h \in BOOLEAN, s \in Active \cup {NoStage} :
               Enqueue(i, h, s)
    BY <1>2
  <2>2. attempt[i] = 0
    BY <2>1 DEF Enqueue, Rows, Unborn
  <2>3. attempt'[j] = IF j = i THEN 1 ELSE attempt[j]
    BY <2>1 DEF Enqueue, TypeOK
  <2> QED BY <1>1, <2>2, <2>3
<1>3. CASE \E i \in Jobs, s \in Active : Retry(i, s)
  <2>1. PICK i \in Jobs, s \in Active : Retry(i, s)
    BY <1>3
  <2>2. attempt'[j] = IF j = i THEN attempt[j] + 1 ELSE attempt[j]
    BY <2>1 DEF Retry, TypeOK
  <2> QED BY <1>1, <2>2
<1>4. CASE /\ ~\E i \in Jobs, h \in BOOLEAN, s \in Active \cup {NoStage} :
                  Enqueue(i, h, s)
           /\ ~\E i \in Jobs, s \in Active : Retry(i, s)
  <2>1. ASSUME NEW w \in Workers, Round(w) \/ Fault(w) \/ Restart(w)
        PROVE  UNCHANGED attempt
    BY <2>1 DEF Round, Fault, jobVars, ReconcileHandoffs, RecoverOrphans,
       NothingToClaim, Claim, GiveUp, Crash, Restart
  <2>2. ASSUME NEW w \in Workers, Stage(w)
        PROVE  UNCHANGED attempt
    BY <2>2 DEF Stage, jobVars, WorkerFail, DeferUnstableSource, Requeue,
       SourceChanged, SourceDuplicate, SourceRecorded, StopBetweenStages,
       GoOnBetweenStages, BackToQueued, StartTranscribing, TranscriptReady,
       RecordStage, DeferDispatch, StartMinutes, ResumeMinutes, SendToAgent,
       RecordDispatched, DropDispatchDebt, KeepBooks
  <2>3. ASSUME NEW k \in Jobs, User(k)
        PROVE  UNCHANGED attempt
    BY <1>4, <2>3 DEF User, jobVars, Active, NoStage, Withdraw,
       StopAfterStage, MarkDraftModified, PublishBegin
  <2>4. ASSUME NEW k \in Jobs, NEW a \in Attempts,
               AgentExit(k, a) \/ Callback(k, a) \/ Publish(k, a)
        PROVE  UNCHANGED attempt
    BY <2>4 DEF Callback, Publish, jobVars, AgentExit, CallbackBegin,
       CallbackInvalid, CallbackCommit, CallbackStop, CallbackEnd,
       PublishCommit, PublishAgain, PublishWithdrawn, PublishEnd
  <2>5. UNCHANGED attempt
    BY <2>1, <2>2, <2>3, <2>4 DEF Next, TakePane, LeavePane, vars, jobVars
  <2> QED BY <1>1, <2>5
<1> QED BY <1>2, <1>3, <1>4

(* While the attempt is current nobody takes it from its holder: the row   *)
(* keeps its worker, or loses it with the attempt's end.                   *)
LEMMA ClaimKept ==
  ASSUME TypeOK, [Next]_vars, NEW v \in Workers, NEW j \in Jobs,
         Busy(v), Busy(v)', Keeps(v, j), attempt'[j] = attempt[j]
  PROVE  Keeps(v, j)'
<1> USE RelayAssumption DEF Jobs, Attempts, Workers, Active, Finished,
   Stopped,
   Retryable, NoStage, NoJob, NoCall, Repairable, Running, Owing, SourceSteps,
   AdmitSteps, LaterSteps, AgentSteps
<1>1. ASSUME NEW w \in Workers, ReconcileHandoffs(w)
      PROVE  Keeps(v, j)'
  BY <1>1 DEF TypeOK, Busy, Keeps, ReconcileHandoffs, HandedOff, Goto,
     jobVars,
     procVars, outsideVars
<1>2. ASSUME NEW w \in Workers, RecoverOrphans(w) \/ NothingToClaim(w)
      PROVE  Keeps(v, j)'
  BY <1>2 DEF TypeOK, Busy, Keeps, RecoverOrphans, Orphaned, OrphanStatus,
     HandedOff, Goto, NothingToClaim, jobVars, procVars, outsideVars
<1>3. ASSUME NEW w \in Workers, NEW k \in Jobs, Claim(w, k)
      PROVE  Keeps(v, j)'
  BY <1>3 DEF TypeOK, Busy, Keeps, Claim, Head, Claimable, FirstStage,
     FirstStep, Move, jobVars, procVars, outsideVars
<1>4. ASSUME NEW w \in Workers, WorkerFail(w)
      PROVE  Keeps(v, j)'
  BY <1>4 DEF TypeOK, Busy, Keeps, WorkerFail, Failable, Owns, Mirrored,
     Move,
     Departed, Rest, jobVars, procVars, outsideVars
<1>5. ASSUME NEW w \in Workers, DeferUnstableSource(w)
      PROVE  Keeps(v, j)'
  BY <1>5 DEF TypeOK, Busy, Keeps, DeferUnstableSource, At, Owns, MayWait,
     Requeue, Released, Move, Rest, jobVars, procVars, outsideVars
<1>6. ASSUME NEW w \in Workers, SourceChanged(w) \/ SourceRecorded(w)
      PROVE  Keeps(v, j)'
  BY <1>6 DEF TypeOK, Busy, Keeps, SourceChanged, Owns, Move, Goto,
     SourceRecorded, jobVars, procVars, outsideVars
<1>7. ASSUME NEW w \in Workers, NEW k \in Jobs, SourceDuplicate(w, k)
      PROVE  Keeps(v, j)'
  BY <1>7 DEF TypeOK, Busy, Keeps, SourceDuplicate, Owns, Move, Goto,
     jobVars,
     procVars, outsideVars
<1>8. ASSUME NEW w \in Workers, StopBetweenStages(w) \/ GoOnBetweenStages(w)
      PROVE  Keeps(v, j)'
  BY <1>8 DEF TypeOK, Busy, Keeps, StopBetweenStages, Owns, StopAsked,
     CheckSteps, Move, Goto, GoOnBetweenStages, NextStep, jobVars, procVars,
     outsideVars
<1>9. ASSUME NEW w \in Workers, BackToQueued(w) \/ StartTranscribing(w)
             \/ TranscriptReady(w) \/ StartMinutes(w)
      PROVE  Keeps(v, j)'
  BY <1>9 DEF TypeOK, Busy, Keeps, BackToQueued, RecordStage, At, Owns, Move,
     Goto, StartTranscribing, TranscriptReady, StartMinutes, jobVars, procVars,
     outsideVars
<1>10. ASSUME NEW w \in Workers, DeferDispatch(w)
       PROVE  Keeps(v, j)'
  BY <1>10 DEF TypeOK, Busy, Keeps, DeferDispatch, At, Owns, Requeue,
     Released,
     Move, Rest, jobVars, procVars, outsideVars
<1>11. ASSUME NEW w \in Workers, ResumeMinutes(w) \/ SendToAgent(w)
       PROVE  Keeps(v, j)'
  BY <1>11 DEF TypeOK, Busy, Keeps, ResumeMinutes, At, Owns, Goto,
     SendToAgent,
     jobVars, procVars, outsideVars
<1>12. ASSUME NEW w \in Workers, RecordDispatched(w)
       PROVE  Keeps(v, j)'
  BY <1>12 DEF TypeOK, Busy, Keeps, RecordDispatched, Owns, Goto, Rest,
     jobVars, procVars, outsideVars
<1>13. ASSUME NEW w \in Workers, DropDispatchDebt(w)
       PROVE  Keeps(v, j)'
  BY <1>13 DEF TypeOK, Busy, Keeps, DropDispatchDebt, Rest, jobVars,
     procVars,
     outsideVars
<1>14. ASSUME NEW w \in Workers, KeepBooks(w)
       PROVE  Keeps(v, j)'
  BY <1>14 DEF TypeOK, Busy, Keeps, KeepBooks, Departed, Rest, jobVars,
     procVars, outsideVars
<1>15. ASSUME NEW w \in Workers, GiveUp(w)
       PROVE  Keeps(v, j)'
  BY <1>15 DEF TypeOK, Busy, Keeps, GiveUp, Departed, Rest, Goto, jobVars,
     procVars, outsideVars
<1>16. ASSUME NEW w \in Workers, Crash(w)
       PROVE  Keeps(v, j)'
  BY <1>16 DEF TypeOK, Busy, Keeps, Crash, jobVars, procVars, outsideVars
<1>17. ASSUME NEW w \in Workers, Restart(w)
       PROVE  Keeps(v, j)'
  BY <1>17 DEF TypeOK, Busy, Keeps, Restart, Goto, jobVars, procVars,
     outsideVars
<1>18. ASSUME NEW i \in Jobs, NEW h \in BOOLEAN, NEW s \in Active \cup
              {NoStage}, Enqueue(i, h, s)
       PROVE  Keeps(v, j)'
  BY <1>18 DEF TypeOK, Busy, Keeps, Enqueue, jobVars, procVars, outsideVars
<1>19. ASSUME NEW i \in Jobs, NEW s \in Active, Retry(i, s)
       PROVE  Keeps(v, j)'
  <2>1. attempt \in [Jobs -> Nat]
    BY AttemptsCounted
  <2>2. attempt' = [attempt EXCEPT ![i] = @ + 1]
    BY <1>19 DEF Retry
  <2>3. j # i
    BY <2>1, <2>2
  <2>4. worker'[j] = worker[j] /\ status'[j] = status[j]
    BY <1>19, <2>3 DEF TypeOK, Retry
  <2> QED
    BY <2>4 DEF Keeps
<1>20. ASSUME NEW i \in Jobs, NEW o, Withdraw(i, o)
       PROVE  Keeps(v, j)'
  BY <1>20 DEF TypeOK, Busy, Keeps, Withdraw, NotBegun, Move, jobVars,
     procVars, outsideVars
<1>21. ASSUME NEW i \in Jobs, StopAfterStage(i) \/ MarkDraftModified(i)
              \/ PublishBegin(i)
       PROVE  Keeps(v, j)'
  BY <1>21 DEF TypeOK, Busy, Keeps, StopAfterStage, UnderWay,
     MarkDraftModified, PublishBegin, jobVars, procVars, outsideVars
<1>22. ASSUME NEW i \in Jobs, NEW a \in Attempts, PublishCommit(i, a)
              \/ PublishAgain(i, a) \/ PublishWithdrawn(i, a)
              \/ PublishEnd(i, a)
       PROVE  Keeps(v, j)'
  BY <1>22 DEF TypeOK, Busy, Keeps, PublishCommit, AsValidated, PublishAgain,
     PublishWithdrawn, Move, PublishEnd, jobVars, procVars, outsideVars
<1>23. ASSUME NEW i \in Jobs, NEW a \in Attempts, CallbackBegin(i, a)
              \/ CallbackInvalid(i, a) \/ CallbackCommit(i, a)
              \/ CallbackStop(i, a) \/ CallbackEnd(i, a) \/ AgentExit(i, a)
       PROVE  Keeps(v, j)'
  BY <1>23 DEF TypeOK, Busy, Keeps, CallbackBegin, CallbackInvalid, Read,
     Move,
     CallbackCommit, CallbackStop, StopAsked, CallbackEnd, AgentExit, jobVars,
     procVars, outsideVars
<1>24. CASE UNCHANGED vars \/ TakePane \/ LeavePane
  BY <1>24 DEF Keeps, TakePane, LeavePane, vars, jobVars, procVars, outsideVars
<1> QED
  BY <1>1, <1>2, <1>3, <1>4, <1>5, <1>6, <1>7, <1>8, <1>9, <1>10, <1>11, <1>12,
     <1>13, <1>14, <1>15, <1>16, <1>17, <1>18, <1>19, <1>20, <1>21, <1>22,
     <1>23, <1>24 DEF Next, Round, Stage, Fault, Callback, User, Publish

(* A job that exists has an attempt.                                       *)
LEMMA BornStep ==
  ASSUME TypeOK, Rows, Born, Held, [Next]_vars, NEW j \in Jobs
  PROVE  status'[j] # "absent" => attempt'[j] # 0
<1>1. status[j] # "absent" => attempt[j] # 0
  BY DEF Born
<1>2. \A w \in Workers : Busy(w) => heldAttempt[w] # 0
  BY DEF Held
<1>3. status[j] = "absent" => ~stop[j]
  BY DEF Rows, Unborn
<1> USE RelayAssumption DEF Jobs, Attempts, Workers, Active, Finished,
   Stopped,
   Retryable, NoStage, NoJob, NoCall, Repairable, Running, Owing, SourceSteps,
   AdmitSteps, LaterSteps, AgentSteps
<1>4. ASSUME NEW w \in Workers, ReconcileHandoffs(w)
      PROVE  status'[j] # "absent" => attempt'[j] # 0
  BY <1>4, <1>1, <1>2, <1>3 DEF TypeOK, Busy, ReconcileHandoffs, HandedOff,
     Goto, jobVars, procVars, outsideVars
<1>5. ASSUME NEW w \in Workers, RecoverOrphans(w) \/ NothingToClaim(w)
      PROVE  status'[j] # "absent" => attempt'[j] # 0
  BY <1>5, <1>1, <1>2, <1>3 DEF TypeOK, Busy, RecoverOrphans, Orphaned,
     OrphanStatus, HandedOff, Goto, NothingToClaim, jobVars, procVars,
     outsideVars
<1>6. ASSUME NEW w \in Workers, NEW k \in Jobs, Claim(w, k)
      PROVE  status'[j] # "absent" => attempt'[j] # 0
  BY <1>6, <1>1, <1>2, <1>3 DEF TypeOK, Busy, Claim, Head, Claimable,
     FirstStage, FirstStep, Move, jobVars, procVars, outsideVars
<1>7. ASSUME NEW w \in Workers, WorkerFail(w)
      PROVE  status'[j] # "absent" => attempt'[j] # 0
  BY <1>7, <1>1, <1>2, <1>3 DEF TypeOK, Busy, WorkerFail, Failable, Owns,
     Mirrored, Move, Departed, Rest, jobVars, procVars, outsideVars
<1>8. ASSUME NEW w \in Workers, DeferUnstableSource(w) \/ DeferDispatch(w)
      PROVE  status'[j] # "absent" => attempt'[j] # 0
  BY <1>8, <1>1, <1>2, <1>3 DEF TypeOK, Busy, DeferUnstableSource, At, Owns,
     MayWait, Requeue, Released, Move, Rest, DeferDispatch, jobVars, procVars,
     outsideVars
<1>9. ASSUME NEW w \in Workers, SourceChanged(w) \/ SourceRecorded(w)
      PROVE  status'[j] # "absent" => attempt'[j] # 0
  BY <1>9, <1>1, <1>2, <1>3 DEF TypeOK, Busy, SourceChanged, Owns, Move,
     Goto,
     SourceRecorded, jobVars, procVars, outsideVars
<1>10. ASSUME NEW w \in Workers, NEW k \in Jobs, SourceDuplicate(w, k)
       PROVE  status'[j] # "absent" => attempt'[j] # 0
  BY <1>10, <1>1, <1>2, <1>3 DEF TypeOK, Busy, SourceDuplicate, Owns, Move,
     Goto, jobVars, procVars, outsideVars
<1>11. ASSUME NEW w \in Workers, StopBetweenStages(w) \/ GoOnBetweenStages(w)
       PROVE  status'[j] # "absent" => attempt'[j] # 0
  BY <1>11, <1>1, <1>2, <1>3 DEF TypeOK, Busy, StopBetweenStages, Owns,
     StopAsked, CheckSteps, Move, Goto, GoOnBetweenStages, NextStep, jobVars,
     procVars, outsideVars
<1>12. ASSUME NEW w \in Workers, BackToQueued(w) \/ StartTranscribing(w)
              \/ TranscriptReady(w) \/ StartMinutes(w)
       PROVE  status'[j] # "absent" => attempt'[j] # 0
  BY <1>12, <1>1, <1>2, <1>3 DEF TypeOK, Busy, BackToQueued, RecordStage, At,
     Owns, Move, Goto, StartTranscribing, TranscriptReady, StartMinutes,
     jobVars, procVars, outsideVars
<1>13. ASSUME NEW w \in Workers, ResumeMinutes(w) \/ SendToAgent(w)
              \/ DropDispatchDebt(w) \/ KeepBooks(w)
       PROVE  status'[j] # "absent" => attempt'[j] # 0
  BY <1>13, <1>1, <1>2, <1>3 DEF TypeOK, Busy, ResumeMinutes, At, Owns, Goto,
     SendToAgent, DropDispatchDebt, Rest, KeepBooks, Departed, jobVars,
     procVars, outsideVars
<1>14. ASSUME NEW w \in Workers, RecordDispatched(w)
       PROVE  status'[j] # "absent" => attempt'[j] # 0
  BY <1>14, <1>1, <1>2, <1>3 DEF TypeOK, Busy, RecordDispatched, Owns, Goto,
     Rest, jobVars, procVars, outsideVars
<1>15. ASSUME NEW w \in Workers, GiveUp(w) \/ Crash(w) \/ Restart(w)
       PROVE  status'[j] # "absent" => attempt'[j] # 0
  BY <1>15, <1>1, <1>2, <1>3 DEF TypeOK, Busy, GiveUp, Departed, Rest, Goto,
     Crash, Restart, jobVars, procVars, outsideVars
<1>16. ASSUME NEW i \in Jobs, NEW h \in BOOLEAN, NEW s \in Active \cup
              {NoStage}, Enqueue(i, h, s)
       PROVE  status'[j] # "absent" => attempt'[j] # 0
  BY <1>16, <1>1, <1>2, <1>3 DEF TypeOK, Busy, Enqueue, jobVars, procVars,
     outsideVars
<1>17. ASSUME NEW i \in Jobs, NEW s \in Active, Retry(i, s)
       PROVE  status'[j] # "absent" => attempt'[j] # 0
  <2>1. attempt[j] \in Nat
    BY AttemptsCounted
  <2>2. attempt'[i] = attempt[i] + 1 /\ attempt[i] \in Nat
    BY <1>17 DEF TypeOK, Retry
  <2>3. i # j => UNCHANGED <<attempt[j], status[j]>>
    BY <1>17 DEF TypeOK, Retry
  <2> QED
    BY <1>1, <2>1, <2>2, <2>3
<1>18. ASSUME NEW i \in Jobs, NEW o, Withdraw(i, o)
       PROVE  status'[j] # "absent" => attempt'[j] # 0
  BY <1>18, <1>1, <1>2, <1>3 DEF TypeOK, Busy, Withdraw, NotBegun, Move,
     jobVars, procVars, outsideVars
<1>19. ASSUME NEW i \in Jobs, StopAfterStage(i) \/ MarkDraftModified(i)
              \/ PublishBegin(i)
       PROVE  status'[j] # "absent" => attempt'[j] # 0
  BY <1>19, <1>1, <1>2, <1>3 DEF TypeOK, Busy, StopAfterStage, UnderWay,
     MarkDraftModified, PublishBegin, jobVars, procVars, outsideVars
<1>20. ASSUME NEW i \in Jobs, NEW a \in Attempts, PublishCommit(i, a)
              \/ PublishAgain(i, a) \/ PublishWithdrawn(i, a)
              \/ PublishEnd(i, a)
       PROVE  status'[j] # "absent" => attempt'[j] # 0
  BY <1>20, <1>1, <1>2, <1>3 DEF TypeOK, Busy, PublishCommit, AsValidated,
     PublishAgain, PublishWithdrawn, Move, PublishEnd, jobVars, procVars,
     outsideVars
<1>21. ASSUME NEW i \in Jobs, NEW a \in Attempts, CallbackBegin(i, a)
              \/ CallbackInvalid(i, a) \/ CallbackCommit(i, a)
              \/ CallbackStop(i, a) \/ CallbackEnd(i, a) \/ AgentExit(i, a)
       PROVE  status'[j] # "absent" => attempt'[j] # 0
  BY <1>21, <1>1, <1>2, <1>3 DEF TypeOK, Busy, CallbackBegin,
     CallbackInvalid,
     Read, Move, CallbackCommit, CallbackStop, StopAsked, CallbackEnd,
     AgentExit, jobVars, procVars, outsideVars
<1>22. CASE UNCHANGED vars \/ TakePane \/ LeavePane
  BY <1>1, <1>22 DEF TakePane, LeavePane, vars, jobVars
<1> QED
  BY <1>4, <1>5, <1>6, <1>7, <1>8, <1>9, <1>10, <1>11, <1>12, <1>13, <1>14,
     <1>15, <1>16, <1>17, <1>18, <1>19, <1>20, <1>21, <1>22 DEF Next, Round,
     Stage, Fault, Callback, User, Publish

(* Two processes never hold the same attempt, and whoever holds the        *)
(* current one is its worker until the attempt is over.                    *)
LEMMA HoldersStep ==
  Holders /\ Rows /\ TypeOK /\ TypeOK' /\ [Next]_vars => Holders'
<1> SUFFICES ASSUME Holders, Rows, TypeOK, TypeOK', [Next]_vars PROVE Holders'
  OBVIOUS
<1>1. Born'
  BY BornStep DEF Holders, Born
<1>2. ASSUME NEW v \in Workers, NEW k \in Jobs, Claim(v, k)
      PROVE  /\ held'[v] = k /\ heldAttempt'[v] = attempt[k]
             /\ worker'[k] = v /\ attempt[k] # 0 /\ UNCHANGED attempt
             /\ status[k] = "queued" /\ worker[k] = NoWorker
             /\ \A w \in Workers : w # v => ~\E i \in Jobs : Claim(w, i)
  <2>1. /\ held'[v] = k /\ heldAttempt'[v] = attempt[k] /\ worker'[k] = v
        /\ UNCHANGED attempt
        /\ status[k] = "queued" /\ worker[k] = NoWorker
    BY <1>2 DEF TypeOK, Claim, Head, Claimable
  <2>2. attempt[k] # 0
    BY <2>1 DEF Holders, Born
  <2>3. \A w \in Workers : w # v => held'[w] = held[w] /\ pc'[w] = pc[w]
    BY <1>2 DEF TypeOK, Claim
  <2>4. ASSUME NEW w \in Workers, w # v, NEW i \in Jobs, Claim(w, i)
        PROVE  FALSE
    <3>1. pc'[w] = FirstStep(FirstStage(i)) /\ pc[w] \in {"recovered", "idle"}
      BY <2>4 DEF TypeOK, Claim
    <3> QED BY <2>3, <2>4, <3>1 DEF FirstStep
  <2> QED BY <2>1, <2>2, <2>4
<1>3. Held'
  <2> SUFFICES ASSUME NEW v \in Workers, Busy(v)'
               PROVE  (/\ held[v] # NoJob /\ heldAttempt[v] # 0
                       /\ heldAttempt[v] <= attempt[held[v]]
                       /\ heldAttempt[v] = attempt[held[v]]
                            => Keeps(v, held[v]))'
    BY DEF Held
  <2>1. CASE \E k \in Jobs : Claim(v, k)
    <3>1. PICK k \in Jobs : Claim(v, k)
      BY <2>1
    <3>2. attempt[k] \in Nat /\ k # NoJob
      <4>1. attempt[k] \in Nat
        BY AttemptsCounted
      <4> QED BY <4>1, RelayAssumption DEF Jobs, NoJob
    <3>3. /\ held'[v] = k /\ heldAttempt'[v] = attempt'[k]
          /\ heldAttempt'[v] # 0
      BY <1>2, <3>1
    <3>4. worker'[k] = v /\ attempt'[k] = attempt[k]
      BY <1>2, <3>1
    <3> QED BY <3>2, <3>3, <3>4 DEF Keeps
  <2>2. CASE Busy(v) /\ UNCHANGED <<held[v], heldAttempt[v]>>
    <3> DEFINE j == held[v]
    <3>1. /\ j \in Jobs /\ heldAttempt[v] # 0
          /\ heldAttempt[v] <= attempt[j]
          /\ heldAttempt[v] = attempt[j] => Keeps(v, j)
      BY <2>2 DEF Holders, Held, TypeOK
    <3>2. attempt[j] \in Nat /\ attempt'[j] \in Nat /\ heldAttempt[v] \in Nat
      BY <3>1, RelayAssumption DEF TypeOK
    <3>3. attempt'[j] >= attempt[j]
      BY <3>1, AttemptGrows
    <3>4. attempt'[j] = attempt[j] /\ Keeps(v, j) => Keeps(v, j)'
      BY <2>2, <3>1, ClaimKept
    <3>5. heldAttempt[v] = attempt'[j] => Keeps(v, j)'
      BY <3>1, <3>2, <3>3, <3>4
    <3>6. Keeps(v, j)' => Keeps(v, held[v])'
      BY <2>2 DEF Keeps
    <3> QED BY <2>2, <3>1, <3>2, <3>3, <3>5, <3>6 DEF NoJob, Jobs
  <2> QED BY <2>1, <2>2, ClaimsStay
<1>4. OneHolder'
  <2> SUFFICES ASSUME NEW v \in Workers, NEW w \in Workers, v # w,
                      Busy(v)', Busy(w)', held'[v] = held'[w],
                      heldAttempt'[v] = heldAttempt'[w]
               PROVE  FALSE
    BY DEF OneHolder
  <2>1. ASSUME NEW x \in Workers, NEW y \in Workers, x # y, Busy(y)',
               NEW k \in Jobs, Claim(x, k),
               held'[x] = held'[y], heldAttempt'[x] = heldAttempt'[y]
        PROVE  FALSE
    <3>1. Busy(y) /\ UNCHANGED <<held[y], heldAttempt[y]>>
      BY <1>2, <2>1, ClaimsStay
    <3>2. held[y] = k /\ heldAttempt[y] = attempt[k]
      BY <1>2, <2>1, <3>1
    <3>3. Keeps(y, k)
      BY <3>1, <3>2 DEF Holders, Held
    <3> QED BY <1>2, <2>1, <3>3, RelayAssumption
            DEF Keeps, Retryable, Finished, Stopped
  <2>2. CASE \E k \in Jobs : Claim(v, k)
    BY <2>1, <2>2
  <2>3. CASE \E k \in Jobs : Claim(w, k)
    BY <2>1, <2>3
  <2>4. CASE /\ Busy(v) /\ UNCHANGED <<held[v], heldAttempt[v]>>
             /\ Busy(w) /\ UNCHANGED <<held[w], heldAttempt[w]>>
    BY <2>4 DEF Holders, OneHolder
  <2> QED BY <2>2, <2>3, <2>4, ClaimsStay
<1> QED BY <1>1, <1>3, <1>4 DEF Holders

----------------------------------------------------------------------------
(* What is in order stays so while only another attempt, or another job, is *)
(* moved.                                                                  *)
LEMMA MoveElsewhere ==
  ASSUME TypeOK, NEW v \in Workers, NEW j \in Jobs, NEW n \in Attempts,
         InOrder(v, j, n),
         NEW i \in Jobs, NEW s, Move(i, s),
         i = j => attempt[j] # n,
         i # j /\ worker[j] = v => worker'[j] = v,
         UNCHANGED <<agent, attempt, dispatched, startStage[v], pc[v]>>
  PROVE  InOrder(v, j, n)'
<1>1. CASE i = j
  <2>1. n > 1 /\ attStatus[j][n] = "interrupted" /\ agent[j][n] = "none"
    BY <1>1 DEF InOrder
  <2>2. attStatus'[j][n] = attStatus[j][n]
    BY <1>1 DEF TypeOK, Move
  <2> QED BY <2>1, <2>2 DEF InOrder
<1>2. CASE i # j
  <2>1. UNCHANGED <<status[j], attStatus[j]>>
    BY <1>2 DEF TypeOK, Move
  <2> QED BY <1>2, <2>1 DEF InOrder
<1> QED BY <1>1, <1>2

(* What is in order for a claim stays in order until the prompt is sent:   *)
(* the other processes hold other attempts, a callback comes only for an   *)
(* attempt an agent has seen, and the late stop of an older one leaves the *)
(* attempt interrupted.                                                    *)
LEMMA InOrderStep ==
  ASSUME TypeOK, Rows, Holders, Untouched, [Next]_vars,
         NEW v \in Workers, NEW j \in Jobs, NEW n \in Attempts,
         held[v] = j, heldAttempt[v] = n,
         Carrying(v), Carrying(v)', InOrder(v, j, n)
  PROVE  InOrder(v, j, n)'
<1> USE RelayAssumption DEF Jobs, Attempts, Workers, Active, Finished,
   Stopped,
   Retryable, NoStage, NoJob, NoCall, Repairable, Running, Owing, SourceSteps,
   AdmitSteps, LaterSteps, AgentSteps
<1>1. n <= attempt[j] /\ Busy(v)
  BY DEF Holders, Held, Busy, Carrying
<1>2. n = attempt[j] => attStatus[j][n] \in {status[j], "completed_unreviewed",
                                            "published"}
  BY DEF Rows, AttemptRows
<1>3. \A w \in Workers : w # v /\ Busy(w) =>
         /\ held[w] \in Jobs
         /\ ~(held[w] = j /\ heldAttempt[w] = n)
  BY <1>1 DEF Holders, Held, OneHolder, TypeOK
<1>4. \A i \in Jobs : Fresh(i)
  BY DEF Untouched
<1>5. ASSUME NEW w \in Workers, w # v, Busy(w), Owns(w), NEW s,
             Move(held[w], s),
             held[w] # j /\ worker[j] = v => worker'[j] = v,
             UNCHANGED <<agent, attempt, dispatched, startStage[v], pc[v]>>
      PROVE  InOrder(v, j, n)'
  <2>1. held[w] \in Jobs /\ (held[w] = j => attempt[j] # n)
    BY <1>3, <1>5 DEF Owns
  <2> QED BY <1>5, <2>1, MoveElsewhere
<1>6. ASSUME NEW step, NEW from, NEW to, NEW next,
             RecordStage(v, step, from, to, next), to \in Working(next),
             next # "source", from # "interrupted"
      PROVE  InOrder(v, j, n)'
  <2>1. /\ attempt[j] = n /\ worker[j] = v /\ ~dispatched[j]
        /\ agent[j][n] = "none"
    BY <1>6 DEF RecordStage, At, Owns, Mirrored, InOrder
  <2>2. /\ status'[j] = to /\ pc'[v] = next
        /\ UNCHANGED <<attempt, worker, dispatched, agent>>
    BY <1>6 DEF TypeOK, RecordStage, Move, Goto, outsideVars
  <2> QED BY <1>6, <2>1, <2>2 DEF InOrder
<1>7. \A step \in Running \ {"sent", "books"} :
         Working(step) \cap Retryable = {}
  BY DEF Working
<1>8. ASSUME NEW w \in Workers, ReconcileHandoffs(w)
      PROVE  InOrder(v, j, n)'
  BY <1>8, <1>2 DEF TypeOK, Carrying, Busy, InOrder, Working,
     ReconcileHandoffs, HandedOff, Goto, outsideVars
<1>9. ASSUME NEW w \in Workers, RecoverOrphans(w)
      PROVE  InOrder(v, j, n)'
  BY <1>9, <1>1, <1>3, <1>4 DEF TypeOK, Carrying, Busy, InOrder, Working,
     Fresh, RecoverOrphans, Orphaned, OrphanStatus, HandedOff, Goto, jobVars,
     procVars, outsideVars
<1>10. ASSUME NEW w \in Workers, NothingToClaim(w)
       PROVE  InOrder(v, j, n)'
  <2>1. w # v
    BY <1>10 DEF TypeOK, Carrying, NothingToClaim, Goto
  <2>2. /\ worker[j] = v => worker'[j] = v
        /\ UNCHANGED <<agent, attempt, dispatched, startStage[v], pc[v]>>
    BY <1>10, <2>1
       DEF TypeOK, NothingToClaim, Goto, jobVars, outsideVars
  <2>3. UNCHANGED <<status, attStatus>>
    BY <1>10 DEF NothingToClaim, jobVars
  <2> QED BY <2>2, <2>3 DEF InOrder
<1>11. ASSUME NEW w \in Workers, NEW k \in Jobs, Claim(w, k)
       PROVE  InOrder(v, j, n)'
  <2>1. w # v
    BY <1>11 DEF Claim, Carrying
  <2>2. Move(k, FirstStage(k)) /\ status[k] = "queued" /\ worker[k] = NoWorker
    BY <1>11 DEF Claim, Head, Claimable
  <2>3. k = j => attempt[j] # n
    BY <1>2, <2>2 DEF InOrder
  <2>4. /\ k # j /\ worker[j] = v => worker'[j] = v
        /\ UNCHANGED <<agent, attempt, dispatched, startStage[v], pc[v]>>
    BY <1>11, <2>1 DEF TypeOK, Claim, outsideVars
  <2> QED BY <2>2, <2>3, <2>4, MoveElsewhere
<1>12. ASSUME NEW w \in Workers, WorkerFail(w)
       PROVE  InOrder(v, j, n)'
  <2>1. w # v /\ Busy(w)
    BY <1>12 DEF TypeOK, Carrying, Busy, WorkerFail, Rest
  <2>2. /\ worker[j] = v => worker'[j] = v
        /\ UNCHANGED <<agent, attempt, dispatched, startStage[v], pc[v]>>
    BY <1>12, <2>1 DEF TypeOK, WorkerFail, Departed, Rest, outsideVars
  <2>3. CASE Failable(w)
    <3>1. Owns(w) /\ Move(held[w], "failed")
      BY <1>12, <2>3 DEF WorkerFail, Failable
    <3> QED BY <1>5, <2>1, <2>2, <3>1
  <2>4. CASE ~Failable(w)
    <3>1. UNCHANGED <<status, attStatus>>
      BY <1>12, <2>4 DEF WorkerFail
    <3> QED BY <2>2, <3>1 DEF InOrder
  <2> QED BY <2>3, <2>4
<1>13. ASSUME NEW w \in Workers, DeferUnstableSource(w)
       PROVE  InOrder(v, j, n)'
  <2>1. w # v
    BY <1>13 DEF TypeOK, Carrying, DeferUnstableSource, At, Requeue, Rest,
       Released
  <2>2. /\ Busy(w) /\ Owns(w)
        /\ Move(held[w], IF stop[held[w]] THEN "interrupted" ELSE "queued")
        /\ held[w] # j /\ worker[j] = v => worker'[j] = v
        /\ UNCHANGED <<agent, attempt, dispatched, startStage[v], pc[v]>>
    BY <1>13, <2>1 DEF TypeOK, Busy, DeferUnstableSource, At, Requeue, Rest,
       Released, outsideVars
  <2> QED BY <1>5, <2>1, <2>2
<1>14. ASSUME NEW w \in Workers, SourceChanged(w)
       PROVE  InOrder(v, j, n)'
  <2>1. w # v
    BY <1>14 DEF TypeOK, Carrying, SourceChanged, Goto
  <2>2. /\ Busy(w) /\ Owns(w) /\ Move(held[w], "failed")
        /\ held[w] # j /\ worker[j] = v => worker'[j] = v
        /\ UNCHANGED <<agent, attempt, dispatched, startStage[v], pc[v]>>
    BY <1>14, <2>1 DEF TypeOK, Busy, SourceChanged, Goto, outsideVars
  <2> QED BY <1>5, <2>1, <2>2
<1>15. ASSUME NEW w \in Workers, NEW k \in Jobs, SourceDuplicate(w, k)
       PROVE  InOrder(v, j, n)'
  <2>1. w # v
    BY <1>15 DEF TypeOK, Carrying, SourceDuplicate, Goto
  <2>2. /\ Busy(w) /\ Owns(w) /\ Move(held[w], "cancelled")
        /\ held[w] # j /\ worker[j] = v => worker'[j] = v
        /\ UNCHANGED <<agent, attempt, dispatched, startStage[v], pc[v]>>
    BY <1>15, <2>1 DEF TypeOK, Busy, SourceDuplicate, Goto, outsideVars
  <2> QED BY <1>5, <2>1, <2>2
<1>16. ASSUME NEW w \in Workers, SourceRecorded(w)
       PROVE  InOrder(v, j, n)'
  BY <1>16, <1>1, <1>3, <1>4 DEF TypeOK, Carrying, Busy, InOrder, Working,
     Fresh, SourceRecorded, Owns, Goto, jobVars, procVars, outsideVars
<1>17. ASSUME NEW w \in Workers, StopBetweenStages(w)
       PROVE  InOrder(v, j, n)'
  <2>1. w # v
    BY <1>17 DEF TypeOK, Carrying, StopBetweenStages, CheckSteps, Goto
  <2>2. /\ Busy(w) /\ Owns(w) /\ Move(held[w], "interrupted")
        /\ held[w] # j /\ worker[j] = v => worker'[j] = v
        /\ UNCHANGED <<agent, attempt, dispatched, startStage[v], pc[v]>>
    BY <1>17, <2>1 DEF TypeOK, Busy, StopBetweenStages, CheckSteps, Goto,
       outsideVars
  <2> QED BY <1>5, <2>1, <2>2
<1>18. ASSUME NEW w \in Workers, GoOnBetweenStages(w)
       PROVE  InOrder(v, j, n)'
  BY <1>18, <1>1, <1>3, <1>4 DEF TypeOK, Carrying, Busy, InOrder, Working,
     Fresh, GoOnBetweenStages, Owns, NextStep, CheckSteps, Goto, jobVars,
     procVars, outsideVars
<1>19. ASSUME NEW w \in Workers, BackToQueued(w)
       PROVE  InOrder(v, j, n)'
  <2>1. CASE w = v
    <3>1. RecordStage(v, "admit", "stabilizing", "queued",
                         "start_transcribing")
      BY <1>19, <2>1 DEF BackToQueued
    <3> QED BY <1>6, <3>1 DEF Working
  <2>2. CASE w # v
    <3>1. RecordStage(w, "admit", "stabilizing", "queued",
                         "start_transcribing")
      BY <1>19 DEF BackToQueued
    <3>2. Busy(w) /\ Owns(w)
      BY <3>1 DEF RecordStage, At, Busy
    <3>3. UNCHANGED <<worker, agent, attempt, dispatched, startStage[v],
                      pc[v]>>
      BY <2>2, <3>1 DEF TypeOK, RecordStage, Goto, outsideVars
    <3>4. PICK s : Move(held[w], s)
      BY <3>1 DEF RecordStage
    <3> QED BY <1>5, <2>2, <3>2, <3>3, <3>4
  <2> QED BY <2>1, <2>2
<1>20. ASSUME NEW w \in Workers, StartTranscribing(w)
       PROVE  InOrder(v, j, n)'
  <2>1. CASE w = v
    <3>1. RecordStage(v, "start_transcribing", "queued",
                         "transcribing", "transcribe")
      BY <1>20, <2>1 DEF StartTranscribing
    <3> QED BY <1>6, <3>1 DEF Working
  <2>2. CASE w # v
    <3>1. RecordStage(w, "start_transcribing", "queued",
                         "transcribing", "transcribe")
      BY <1>20 DEF StartTranscribing
    <3>2. Busy(w) /\ Owns(w)
      BY <3>1 DEF RecordStage, At, Busy
    <3>3. UNCHANGED <<worker, agent, attempt, dispatched, startStage[v],
                      pc[v]>>
      BY <2>2, <3>1 DEF TypeOK, RecordStage, Goto, outsideVars
    <3>4. PICK s : Move(held[w], s)
      BY <3>1 DEF RecordStage
    <3> QED BY <1>5, <2>2, <3>2, <3>3, <3>4
  <2> QED BY <2>1, <2>2
<1>21. ASSUME NEW w \in Workers, TranscriptReady(w)
       PROVE  InOrder(v, j, n)'
  <2>1. CASE w = v
    <3>1. RecordStage(v, "transcribe", "transcribing",
                         "transcript_ready", "check_transcribed")
      BY <1>21, <2>1 DEF TranscriptReady
    <3> QED BY <1>6, <3>1 DEF Working
  <2>2. CASE w # v
    <3>1. RecordStage(w, "transcribe", "transcribing",
                         "transcript_ready", "check_transcribed")
      BY <1>21 DEF TranscriptReady
    <3>2. Busy(w) /\ Owns(w)
      BY <3>1 DEF RecordStage, At, Busy
    <3>3. UNCHANGED <<worker, agent, attempt, dispatched, startStage[v],
                      pc[v]>>
      BY <2>2, <3>1 DEF TypeOK, RecordStage, Goto, outsideVars
    <3>4. PICK s : Move(held[w], s)
      BY <3>1 DEF RecordStage
    <3> QED BY <1>5, <2>2, <3>2, <3>3, <3>4
  <2> QED BY <2>1, <2>2
<1>22. ASSUME NEW w \in Workers, DeferDispatch(w)
       PROVE  InOrder(v, j, n)'
  <2>1. w # v
    BY <1>22 DEF TypeOK, Carrying, DeferDispatch, At, Requeue, Rest, Released
  <2>2. /\ Busy(w) /\ Owns(w)
        /\ Move(held[w], IF stop[held[w]] THEN "interrupted" ELSE "queued")
        /\ held[w] # j /\ worker[j] = v => worker'[j] = v
        /\ UNCHANGED <<agent, attempt, dispatched, startStage[v], pc[v]>>
    BY <1>22, <2>1 DEF TypeOK, Busy, DeferDispatch, At, Requeue, Rest,
       Released,
       outsideVars
  <2> QED BY <1>5, <2>1, <2>2
<1>23. ASSUME NEW w \in Workers, StartMinutes(w)
       PROVE  InOrder(v, j, n)'
  <2>1. CASE w = v
    <3>1. RecordStage(v, "prepare", "transcript_ready",
                         "minutes_generating", "handoff")
      BY <1>23, <2>1 DEF StartMinutes
    <3> QED BY <1>6, <3>1 DEF Working
  <2>2. CASE w # v
    <3>1. RecordStage(w, "prepare", "transcript_ready",
                         "minutes_generating", "handoff")
      BY <1>23 DEF StartMinutes
    <3>2. Busy(w) /\ Owns(w)
      BY <3>1 DEF RecordStage, At, Busy
    <3>3. UNCHANGED <<worker, agent, attempt, dispatched, startStage[v],
                      pc[v]>>
      BY <2>2, <3>1 DEF TypeOK, RecordStage, Goto, outsideVars
    <3>4. PICK s : Move(held[w], s)
      BY <3>1 DEF RecordStage
    <3> QED BY <1>5, <2>2, <3>2, <3>3, <3>4
  <2> QED BY <2>1, <2>2
<1>24. ASSUME NEW w \in Workers, ResumeMinutes(w)
       PROVE  InOrder(v, j, n)'
  BY <1>24, <1>1, <1>3, <1>4 DEF TypeOK, Carrying, Busy, InOrder, Working,
     Fresh, ResumeMinutes, At, Owns, Goto, jobVars, procVars, outsideVars
<1>25. ASSUME NEW w \in Workers, SendToAgent(w)
       PROVE  InOrder(v, j, n)'
  BY <1>25, <1>1, <1>3, <1>4 DEF TypeOK, Carrying, Busy, InOrder, Working,
     Fresh, SendToAgent, Goto, jobVars, procVars, outsideVars
<1>26. ASSUME NEW w \in Workers, RecordDispatched(w)
       PROVE  InOrder(v, j, n)'
  BY <1>26, <1>1, <1>3, <1>4 DEF TypeOK, Carrying, Busy, InOrder, Working,
     Fresh, RecordDispatched, Owns, Goto, Rest, jobVars, procVars, outsideVars
<1>27. ASSUME NEW w \in Workers, DropDispatchDebt(w)
       PROVE  InOrder(v, j, n)'
  <2>1. w # v
    BY <1>27 DEF TypeOK, Carrying, DropDispatchDebt, Rest
  <2>2. /\ worker[j] = v => worker'[j] = v
        /\ UNCHANGED <<agent, attempt, dispatched, startStage[v], pc[v]>>
    BY <1>27, <2>1
       DEF TypeOK, DropDispatchDebt, Rest, jobVars, outsideVars
  <2>3. UNCHANGED <<status, attStatus>>
    BY <1>27 DEF DropDispatchDebt, jobVars
  <2> QED BY <2>2, <2>3 DEF InOrder
<1>28. ASSUME NEW w \in Workers, KeepBooks(w)
       PROVE  InOrder(v, j, n)'
  <2>1. w # v
    BY <1>28 DEF TypeOK, Carrying, KeepBooks, Rest
  <2>2. /\ worker[j] = v => worker'[j] = v
        /\ UNCHANGED <<agent, attempt, dispatched, startStage[v], pc[v]>>
    BY <1>28, <2>1
       DEF TypeOK, KeepBooks, Departed, Rest, jobVars, outsideVars
  <2>3. UNCHANGED <<status, attStatus>>
    BY <1>28 DEF KeepBooks, jobVars
  <2> QED BY <2>2, <2>3 DEF InOrder
<1>29. ASSUME NEW w \in Workers, GiveUp(w)
       PROVE  InOrder(v, j, n)'
  <2>1. w # v
    BY <1>29 DEF TypeOK, Carrying, GiveUp, Rest, Goto
  <2>2. UNCHANGED <<startStage[v], pc[v]>>
    BY <1>29, <2>1 DEF TypeOK, GiveUp, Rest, Goto
  <2>3. UNCHANGED <<status, attStatus>>
    BY <1>29 DEF GiveUp
  <2>4. /\ worker[j] = v => worker'[j] = v
        /\ UNCHANGED <<agent, attempt, dispatched>>
    BY <1>29, <2>1 DEF TypeOK, GiveUp, Departed
  <2> QED BY <2>2, <2>3, <2>4 DEF InOrder
<1>30. ASSUME NEW w \in Workers, Crash(w) \/ Restart(w)
       PROVE  InOrder(v, j, n)'
  <2>1. w # v
    BY <1>30 DEF TypeOK, Carrying, Crash, Restart, Goto
  <2>2. UNCHANGED <<startStage[v], pc[v]>>
    BY <1>30, <2>1 DEF TypeOK, Crash, Restart, Goto
  <2>3. UNCHANGED <<status, attStatus>>
    BY <1>30 DEF Crash, Restart, jobVars
  <2>4. /\ worker[j] = v => worker'[j] = v
        /\ UNCHANGED <<agent, attempt, dispatched>>
    <3>1. CASE Crash(w)
      <4>1. worker' =
              [k \in Jobs |-> IF worker[k] = w THEN Gone ELSE worker[k]]
        BY <3>1 DEF Crash
      <4>2. worker[j] = v => worker'[j] = v
        BY <2>1, <4>1
      <4> QED BY <3>1, <4>2 DEF Crash
    <3>2. CASE Restart(w)
      BY <3>2 DEF Restart, jobVars, outsideVars
    <3> QED BY <1>30, <3>1, <3>2
  <2> QED BY <2>2, <2>3, <2>4 DEF InOrder
<1>31. ASSUME NEW i \in Jobs, NEW h \in BOOLEAN, NEW s \in Active \cup
              {NoStage}, Enqueue(i, h, s)
       PROVE  InOrder(v, j, n)'
  <2>1. i # j
    <3>1. attempt[i] = 0 \/ i # j
      BY <1>31 DEF Enqueue, Rows, Unborn
    <3> QED BY <1>1, <3>1
  <2> QED
    BY <1>31, <2>1 DEF TypeOK, Enqueue, InOrder, procVars, outsideVars
<1>32. ASSUME NEW i \in Jobs, NEW s \in Active, Retry(i, s)
       PROVE  InOrder(v, j, n)'
  <2>1. CASE i = j
    <3>1. agent[j][n] = "none" /\ n > 1 /\ attStatus[j][n] = "interrupted"
      BY <1>32, <1>7, <2>1 DEF InOrder, Retry, Carrying
    <3>2. attempt[j] \in Nat /\ n \in Nat
      BY AttemptsCounted DEF Attempts
    <3>3. attStatus'[j][n] = attStatus[j][n]
      <4>1. attempt[j] + 1 # n
        BY <1>1, <3>2
      <4> QED BY <1>32, <2>1, <4>1 DEF TypeOK, Retry
    <3>4. UNCHANGED agent
      BY <1>32 DEF Retry, outsideVars
    <3> QED BY <3>1, <3>3, <3>4 DEF InOrder
  <2>2. CASE i # j
    BY <1>32, <2>2 DEF TypeOK, Retry, InOrder, procVars, outsideVars
  <2> QED BY <2>1, <2>2
<1>33. ASSUME NEW i \in Jobs, NEW o, Withdraw(i, o)
       PROVE  InOrder(v, j, n)'
  <2>1. Move(i, o) /\ status[i] = "queued" /\ worker[i] = NoWorker
    BY <1>33 DEF Withdraw, NotBegun
  <2>2. i = j => attempt[j] # n
    BY <1>2, <2>1 DEF InOrder
  <2>3. UNCHANGED <<agent, attempt, worker, dispatched, pc, startStage>>
    BY <1>33 DEF Withdraw, procVars, outsideVars
  <2> QED BY <2>1, <2>2, <2>3, MoveElsewhere
<1>34. ASSUME NEW i \in Jobs, StopAfterStage(i) \/ MarkDraftModified(i)
              \/ PublishBegin(i)
       PROVE  InOrder(v, j, n)'
  BY <1>34, <1>1, <1>3, <1>4 DEF TypeOK, Carrying, Busy, InOrder, Working,
     Fresh, StopAfterStage, UnderWay, MarkDraftModified, PublishBegin, jobVars,
     procVars, outsideVars
<1>35. ASSUME NEW i \in Jobs, NEW a \in Attempts, PublishCommit(i, a)
       PROVE  InOrder(v, j, n)'
  BY <1>35, <1>2 DEF TypeOK, Carrying, InOrder, Working, PublishCommit,
     AsValidated, procVars
<1>36. ASSUME NEW i \in Jobs, NEW a \in Attempts, PublishAgain(i, a)
              \/ PublishEnd(i, a)
       PROVE  InOrder(v, j, n)'
  BY <1>36, <1>1, <1>3, <1>4 DEF TypeOK, Carrying, Busy, InOrder, Working,
     Fresh, PublishAgain, PublishEnd, jobVars, procVars, outsideVars
<1>37. ASSUME NEW i \in Jobs, NEW a \in Attempts, PublishWithdrawn(i, a)
       PROVE  InOrder(v, j, n)'
  <2>1. status[i] = "published" /\ Move(i, "failed")
    BY <1>37 DEF PublishWithdrawn
  <2>2. i = j => attempt[j] # n
    BY <1>2, <1>7, <2>1 DEF InOrder, Carrying
  <2>3. /\ i # j /\ worker[j] = v => worker'[j] = v
        /\ UNCHANGED <<agent, attempt, dispatched, startStage, pc>>
    BY <1>37 DEF TypeOK, PublishWithdrawn, procVars
  <2> QED BY <2>1, <2>2, <2>3, MoveElsewhere
<1>38. ASSUME NEW i \in Jobs, NEW a \in Attempts, CallbackBegin(i, a)
       PROVE  InOrder(v, j, n)'
  BY <1>38, <1>1, <1>3, <1>4 DEF TypeOK, Carrying, Busy, InOrder, Working,
     Fresh, CallbackBegin, jobVars, procVars, outsideVars
<1>39. ASSUME NEW i \in Jobs, NEW a \in Attempts, CallbackInvalid(i, a)
       PROVE  InOrder(v, j, n)'
  <2>1. agent[i][a] # "none" /\ attempt[i] = a
    BY <1>39, <1>4 DEF Fresh, CallbackInvalid
  <2>2. i = j => attempt[j] # n
    BY <2>1 DEF InOrder
  <2>3. Move(i, "failed")
    BY <1>39 DEF CallbackInvalid
  <2>4. UNCHANGED <<agent, attempt, worker, dispatched, pc, startStage>>
    BY <1>39 DEF CallbackInvalid, procVars
  <2> QED BY <2>2, <2>3, <2>4, MoveElsewhere
<1>40. ASSUME NEW i \in Jobs, NEW a \in Attempts, CallbackCommit(i, a)
       PROVE  InOrder(v, j, n)'
  <2>1. agent[i][a] # "none" /\ attempt[i] = a
    BY <1>40, <1>4 DEF Fresh, CallbackCommit
  <2>2. i = j => attempt[j] # n
    BY <2>1 DEF InOrder
  <2>3. Move(i, "completed_unreviewed")
    BY <1>40 DEF CallbackCommit
  <2>4. UNCHANGED <<agent, attempt, worker, dispatched, pc, startStage>>
    BY <1>40 DEF CallbackCommit, procVars
  <2> QED BY <2>2, <2>3, <2>4, MoveElsewhere
<1>41. ASSUME NEW i \in Jobs, NEW a \in Attempts, CallbackStop(i, a)
       PROVE  InOrder(v, j, n)'
  <2>1. Move(i, "interrupted")
    BY <1>41 DEF CallbackStop
  <2>2. UNCHANGED <<agent, attempt, worker, dispatched, pc, startStage>>
    BY <1>41 DEF CallbackStop, procVars
  <2>3. CASE i = j /\ attempt[j] = n
    <3>1. agent[j][a] # "none" /\ ~(a > attempt[j])
      BY <1>41, <1>4, <2>3 DEF Fresh, CallbackStop
    <3>2. agent[j][n] = "none" /\ a # n
      BY <3>1 DEF InOrder
    <3>3. n > 1
      BY <2>3, <3>1, <3>2
    <3>4. attStatus'[j][n] = "interrupted"
      BY <2>1, <2>3 DEF TypeOK, Move
    <3> QED BY <2>2, <3>2, <3>3, <3>4 DEF InOrder
  <2>4. CASE ~(i = j /\ attempt[j] = n)
    BY <2>1, <2>2, <2>4, MoveElsewhere
  <2> QED BY <2>3, <2>4
<1>42. ASSUME NEW i \in Jobs, NEW a \in Attempts, CallbackEnd(i, a)
       PROVE  InOrder(v, j, n)'
  BY <1>42, <1>1, <1>3, <1>4 DEF TypeOK, Carrying, Busy, InOrder, Working,
     Fresh, CallbackEnd, jobVars, procVars, outsideVars
<1>43. ASSUME NEW i \in Jobs, NEW a \in Attempts, AgentExit(i, a)
       PROVE  InOrder(v, j, n)'
  BY <1>43, <1>1, <1>3, <1>4 DEF TypeOK, Carrying, Busy, InOrder, Working,
     Fresh, AgentExit, jobVars, procVars, outsideVars
<1>44. CASE UNCHANGED vars \/ TakePane \/ LeavePane
  BY <1>44 DEF InOrder, TakePane, LeavePane, vars, jobVars, procVars,
     outsideVars
<1> QED
  BY <1>8, <1>9, <1>10, <1>11, <1>12, <1>13, <1>14, <1>15, <1>16, <1>17, <1>18,
     <1>19, <1>20, <1>21, <1>22, <1>23, <1>24, <1>25, <1>26, <1>27, <1>28,
     <1>29, <1>30, <1>31, <1>32, <1>33, <1>34, <1>35, <1>36, <1>37, <1>38,
     <1>39, <1>40, <1>41, <1>42, <1>43, <1>44 DEF Next, Round, Stage, Fault,
     Callback, User, Publish

LEMMA CarriedStep ==
  ASSUME TypeOK, Rows, Holders, Carried, Untouched, [Next]_vars
  PROVE  Carried'
<1> SUFFICES ASSUME NEW v \in Workers, Carrying(v)'
             PROVE  InOrder(v, held[v], heldAttempt[v])'
  BY DEF Carried
<1>1. Busy(v)'
  BY DEF Busy, Carrying
<1>2. CASE \E k \in Jobs : Claim(v, k)
  <2>1. PICK k \in Jobs : Claim(v, k)
    BY <1>2
  <2>2. /\ held'[v] = k /\ heldAttempt'[v] = attempt[k] /\ worker'[k] = v
        /\ status'[k] = FirstStage(k) /\ startStage'[v] = FirstStage(k)
        /\ pc'[v] = FirstStep(FirstStage(k))
        /\ UNCHANGED <<attempt, dispatched, agent>>
    BY <2>1 DEF TypeOK, Claim, Move, outsideVars
  <2>3. attempt[k] \in Attempts
    <3>1. status[k] = "queued" /\ attempt[k] \in 0..MaxAttempts
      BY <2>1 DEF Claim, Head, Claimable, TypeOK
    <3> QED BY <3>1, RelayAssumption DEF Holders, Born, Attempts
  <2>4. ~dispatched[k] /\ agent[k][attempt[k]] = "none"
    BY <2>1, <2>3 DEF Untouched, Fresh, Claim, Head, Claimable
  <2>5. FirstStage(k) \in Active
    BY DEF TypeOK, FirstStage, Active, NoStage
  <2>6. status'[k] \in Working(pc'[v])
    BY <2>2, <2>5 DEF FirstStep, Working, Active
  <2> QED BY <2>2, <2>4, <2>6 DEF InOrder
<1>3. CASE /\ Busy(v) /\ UNCHANGED <<held[v], heldAttempt[v]>>
           /\ Carrying(v)' => Carrying(v)
  <2> DEFINE j == held[v]
             n == heldAttempt[v]
  <2>1. j \in Jobs /\ n \in Attempts
    <3>1. /\ j \in Jobs \cup {NoJob} /\ n \in 0..MaxAttempts
          /\ j # NoJob /\ n # 0
      BY <1>3 DEF Holders, Held, TypeOK
    <3> QED BY <3>1, RelayAssumption DEF Attempts
  <2>2. InOrder(v, j, n)
    BY <1>3 DEF Carried
  <2>3. InOrder(v, j, n)'
    BY <1>3, <2>1, <2>2, InOrderStep
  <2> QED BY <1>3, <2>3 DEF InOrder
<1> QED BY <1>1, <1>2, <1>3, ClaimsStay

(* Only SendToAgent shows an attempt to an agent; what goes back to the    *)
(* queue, or comes new to it, has not been shown.                          *)
LEMMA FreshStep ==
  ASSUME TypeOK, Rows, Holders, Carried, [Next]_vars, NEW j \in Jobs, Fresh(j)
  PROVE  Fresh(j)'
<1> USE RelayAssumption DEF Jobs, Attempts, Workers, Active, Finished,
   Stopped,
   Retryable, NoStage, NoJob, NoCall, Repairable, Running, Owing, SourceSteps,
   AdmitSteps, LaterSteps, AgentSteps
<1>1. ASSUME NEW w \in Workers, Carrying(w)
      PROVE  /\ held[w] \in Jobs /\ heldAttempt[w] \in Attempts
             /\ heldAttempt[w] <= attempt[held[w]]
             /\ InOrder(w, held[w], heldAttempt[w])
  <2>1. Busy(w) /\ InOrder(w, held[w], heldAttempt[w])
    BY <1>1 DEF Carrying, Busy, Carried
  <2>2. /\ held[w] \in Jobs \cup {NoJob} /\ heldAttempt[w] \in 0..MaxAttempts
        /\ held[w] # NoJob /\ heldAttempt[w] # 0
        /\ heldAttempt[w] <= attempt[held[w]]
    BY <2>1 DEF Holders, Held, TypeOK
  <2> QED BY <2>1, <2>2
<1>2. attempt[j] \in Nat /\ (status[j] = "absent" => attempt[j] = 0)
  BY DEF TypeOK, Rows, Unborn
<1>3. \A n \in Attempts : n = attempt[j] => attStatus[j][n] \in
         {status[j], "completed_unreviewed", "published"}
  BY DEF Rows, AttemptRows
<1>4. ASSUME NEW w \in Workers, ReconcileHandoffs(w)
      PROVE  Fresh(j)'
  BY <1>4 DEF TypeOK, Fresh, ReconcileHandoffs, HandedOff, Goto, jobVars,
     procVars, outsideVars
<1>5. ASSUME NEW w \in Workers, RecoverOrphans(w)
      PROVE  Fresh(j)'
  BY <1>5 DEF TypeOK, Fresh, RecoverOrphans, Orphaned, OrphanStatus,
     HandedOff,
     Goto, jobVars, procVars, outsideVars
<1>6. ASSUME NEW w \in Workers, NothingToClaim(w)
      PROVE  Fresh(j)'
  BY <1>6 DEF TypeOK, Fresh, NothingToClaim, Goto, jobVars, procVars,
     outsideVars
<1>7. ASSUME NEW w \in Workers, NEW k \in Jobs, Claim(w, k)
      PROVE  Fresh(j)'
  BY <1>7 DEF TypeOK, Fresh, Claim, Head, Claimable, FirstStage, FirstStep,
     Move, jobVars, procVars, outsideVars
<1>8. ASSUME NEW w \in Workers, WorkerFail(w)
      PROVE  Fresh(j)'
  <2>1. status'[j] \in {status[j], "failed"}
    BY <1>8 DEF TypeOK, WorkerFail, Move
  <2>2. UNCHANGED <<attempt, dispatched, agent, callback>>
    BY <1>8 DEF WorkerFail, outsideVars
  <2> QED BY <2>1, <2>2 DEF Fresh
<1>9. ASSUME NEW w \in Workers, DeferUnstableSource(w)
      PROVE  Fresh(j)'
  <2>1. /\ Carrying(w) /\ Owns(w) /\ ~dispatched[held[w]]
        /\ UNCHANGED <<attempt, dispatched, agent, callback>>
    BY <1>9 DEF DeferUnstableSource, At, Requeue, Carrying, outsideVars
  <2>2. CASE held[w] = j
    <3>1. agent[j][attempt[j]] = "none" /\ ~dispatched[j]
      BY <1>1, <2>1, <2>2 DEF Owns, InOrder
    <3> QED BY <2>1, <3>1 DEF Fresh
  <2>3. CASE held[w] # j
    <3>1. status'[j] = status[j]
      BY <1>9, <2>3 DEF TypeOK, DeferUnstableSource, Requeue, Move
    <3> QED BY <2>1, <3>1 DEF Fresh
  <2> QED BY <2>2, <2>3
<1>10. ASSUME NEW w \in Workers, SourceChanged(w) \/ SourceRecorded(w)
       PROVE  Fresh(j)'
  BY <1>10 DEF TypeOK, Fresh, SourceChanged, Owns, Move, Goto,
     SourceRecorded,
     jobVars, procVars, outsideVars
<1>11. ASSUME NEW w \in Workers, NEW k \in Jobs, SourceDuplicate(w, k)
       PROVE  Fresh(j)'
  BY <1>11 DEF TypeOK, Fresh, SourceDuplicate, Owns, Move, Goto, jobVars,
     procVars, outsideVars
<1>12. ASSUME NEW w \in Workers, StopBetweenStages(w) \/ GoOnBetweenStages(w)
       PROVE  Fresh(j)'
  <2>1. CASE GoOnBetweenStages(w)
    BY <2>1 DEF Fresh, GoOnBetweenStages, jobVars, outsideVars
  <2>2. CASE StopBetweenStages(w)
    <3>1. UNCHANGED <<attempt, dispatched, agent, callback>>
      BY <2>2 DEF StopBetweenStages, outsideVars
    <3>2. status'[j] = status[j] \/ status'[j] = "interrupted"
      BY <2>2 DEF TypeOK, StopBetweenStages, Move
    <3> QED BY <3>1, <3>2 DEF Fresh
  <2> QED BY <1>12, <2>1, <2>2
<1>13. ASSUME NEW w \in Workers, BackToQueued(w)
       PROVE  Fresh(j)'
  <2>1. RecordStage(w, "admit", "stabilizing", "queued",
                  "start_transcribing")
    BY <1>13 DEF BackToQueued
  <2>2. UNCHANGED <<attempt, dispatched, agent, callback>>
    BY <2>1 DEF RecordStage, outsideVars
  <2>3. CASE held[w] = j
    <3>1. Carrying(w) /\ attempt[j] = heldAttempt[w]
          /\ attStatus[j][attempt[j]] = "stabilizing"
      BY <2>1, <2>3 DEF RecordStage, At, Owns, Mirrored, Carrying
    <3>2. agent[j][attempt[j]] = "none" /\ ~dispatched[j]
      BY <1>1, <2>3, <3>1 DEF InOrder
    <3> QED BY <2>2, <3>2 DEF Fresh
  <2>4. CASE held[w] # j
    <3>1. status'[j] = status[j]
      BY <2>1, <2>4 DEF TypeOK, RecordStage, Move
    <3> QED BY <2>2, <3>1 DEF Fresh
  <2> QED BY <2>3, <2>4
<1>14. ASSUME NEW w \in Workers, StartTranscribing(w) \/ TranscriptReady(w)
              \/ StartMinutes(w)
       PROVE  Fresh(j)'
  <2>1. ASSUME NEW step, NEW from, NEW to \in Active, NEW next,
               RecordStage(w, step, from, to, next)
        PROVE  Fresh(j)'
    <3>1. UNCHANGED <<attempt, dispatched, agent, callback>>
      BY <2>1 DEF RecordStage, outsideVars
    <3>2. status'[j] = status[j] \/ status'[j] = to
      BY <2>1 DEF TypeOK, RecordStage, Move
    <3> QED BY <3>1, <3>2 DEF Fresh, Active
  <2> QED BY <1>14, <2>1 DEF StartTranscribing, TranscriptReady, StartMinutes,
             Active
<1>15. ASSUME NEW w \in Workers, DeferDispatch(w)
       PROVE  Fresh(j)'
  <2>1. /\ Carrying(w) /\ Owns(w) /\ ~dispatched[held[w]]
        /\ UNCHANGED <<attempt, dispatched, agent, callback>>
    BY <1>15 DEF DeferDispatch, At, Requeue, Carrying, outsideVars
  <2>2. CASE held[w] = j
    <3>1. agent[j][attempt[j]] = "none" /\ ~dispatched[j]
      BY <1>1, <2>1, <2>2 DEF Owns, InOrder
    <3> QED BY <2>1, <3>1 DEF Fresh
  <2>3. CASE held[w] # j
    <3>1. status'[j] = status[j]
      BY <1>15, <2>3 DEF TypeOK, DeferDispatch, Requeue, Move
    <3> QED BY <2>1, <3>1 DEF Fresh
  <2> QED BY <2>2, <2>3
<1>16. ASSUME NEW w \in Workers, ResumeMinutes(w) \/ DropDispatchDebt(w)
              \/ KeepBooks(w)
       PROVE  Fresh(j)'
  BY <1>16 DEF TypeOK, Fresh, ResumeMinutes, At, Owns, Goto,
     DropDispatchDebt,
     Rest, KeepBooks, Departed, jobVars, procVars, outsideVars
<1>17. ASSUME NEW w \in Workers, SendToAgent(w)
       PROVE  Fresh(j)'
  <2>1. /\ held[w] \in Jobs /\ heldAttempt[w] \in Attempts
        /\ heldAttempt[w] <= attempt[held[w]]
        /\ InOrder(w, held[w], heldAttempt[w])
    BY <1>17, <1>1 DEF SendToAgent, Carrying
  <2>2. held[w] = j => ~(status[j] = "queued" /\ heldAttempt[w] = attempt[j])
    BY <1>17, <1>3, <2>1 DEF SendToAgent, InOrder, Working
  <2>3. UNCHANGED <<status, attempt, dispatched, callback>>
    BY <1>17 DEF SendToAgent, jobVars
  <2>4. \A n \in Attempts : agent'[j][n] =
           IF held[w] = j /\ heldAttempt[w] = n THEN "live" ELSE agent[j][n]
    BY <1>17, <2>1 DEF TypeOK, SendToAgent
  <2>5. \A n \in Attempts : n > attempt[j] =>
           ~(held[w] = j /\ heldAttempt[w] = n)
    BY <1>2, <2>1
  <2> QED BY <2>2, <2>3, <2>4, <2>5 DEF Fresh
<1>18. ASSUME NEW w \in Workers, RecordDispatched(w)
       PROVE  Fresh(j)'
  BY <1>18 DEF TypeOK, Fresh, RecordDispatched, Owns, Goto, Rest, jobVars,
     procVars, outsideVars
<1>19. ASSUME NEW w \in Workers, GiveUp(w) \/ Crash(w) \/ Restart(w)
       PROVE  Fresh(j)'
  BY <1>19 DEF TypeOK, Fresh, GiveUp, Departed, Rest, Goto, Crash, Restart,
     jobVars, procVars, outsideVars
<1>20. ASSUME NEW i \in Jobs, NEW h \in BOOLEAN, NEW s \in Active \cup
              {NoStage}, Enqueue(i, h, s)
       PROVE  Fresh(j)'
  <2>1. UNCHANGED <<dispatched, agent, callback>>
    BY <1>20 DEF Enqueue, outsideVars
  <2>2. CASE i = j
    <3>1. attempt[j] = 0 /\ attempt'[j] = 1 /\ ~dispatched[j]
      BY <1>20, <1>2, <2>2 DEF TypeOK, Enqueue, Fresh
    <3>2. \A n \in Attempts : n > attempt[j]
      BY <3>1
    <3> QED BY <2>1, <3>1, <3>2 DEF Fresh
  <2>3. CASE i # j
    <3>1. UNCHANGED <<status[j], attempt[j]>>
      BY <1>20, <2>3 DEF TypeOK, Enqueue
    <3> QED BY <2>1, <3>1 DEF Fresh
  <2> QED BY <2>2, <2>3
<1>21. ASSUME NEW i \in Jobs, NEW s \in Active, Retry(i, s)
       PROVE  Fresh(j)'
  <2>1. UNCHANGED <<agent, callback>>
    BY <1>21 DEF Retry, outsideVars
  <2>2. CASE i = j
    <3>1. attempt'[j] = attempt[j] + 1 /\ ~dispatched'[j]
      BY <1>21, <2>2 DEF TypeOK, Retry
    <3>2. \A n \in Attempts : n = attempt'[j] \/ n > attempt'[j]
             => n > attempt[j]
      BY <1>2, <3>1
    <3> QED BY <2>1, <3>1, <3>2 DEF Fresh
  <2>3. CASE i # j
    <3>1. UNCHANGED <<status[j], attempt[j], dispatched[j]>>
      BY <1>21, <2>3 DEF TypeOK, Retry
    <3> QED BY <2>1, <3>1 DEF Fresh
  <2> QED BY <2>2, <2>3
<1>22. ASSUME NEW i \in Jobs, NEW o, Withdraw(i, o)
       PROVE  Fresh(j)'
  BY <1>22 DEF TypeOK, Fresh, Withdraw, NotBegun, Move, jobVars, procVars,
     outsideVars
<1>23. ASSUME NEW i \in Jobs, StopAfterStage(i) \/ MarkDraftModified(i)
              \/ PublishBegin(i)
       PROVE  Fresh(j)'
  BY <1>23 DEF TypeOK, Fresh, StopAfterStage, UnderWay, MarkDraftModified,
     PublishBegin, jobVars, procVars, outsideVars
<1>24. ASSUME NEW i \in Jobs, NEW a \in Attempts, PublishCommit(i, a)
              \/ PublishAgain(i, a) \/ PublishWithdrawn(i, a)
              \/ PublishEnd(i, a)
       PROVE  Fresh(j)'
  BY <1>24 DEF TypeOK, Fresh, PublishCommit, AsValidated, PublishAgain,
     PublishWithdrawn, Move, PublishEnd, jobVars, procVars, outsideVars
<1>25. ASSUME NEW i \in Jobs, NEW a \in Attempts, CallbackBegin(i, a)
       PROVE  Fresh(j)'
  <2>1. UNCHANGED <<status, attempt, dispatched, agent>>
    BY <1>25 DEF CallbackBegin, jobVars
  <2>2. \A n \in Attempts : callback'[j][n] # callback[j][n]
           => i = j /\ n = a
    <3>1. PICK c : callback' = [callback EXCEPT ![i][a] = c]
      BY <1>25 DEF CallbackBegin
    <3> QED BY <3>1 DEF TypeOK
  <2>3. agent[i][a] # "none"
    BY <1>25 DEF CallbackBegin
  <2> QED BY <2>1, <2>2, <2>3 DEF Fresh
<1>26. ASSUME NEW i \in Jobs, NEW a \in Attempts, CallbackInvalid(i, a)
       PROVE  Fresh(j)'
  BY <1>26 DEF TypeOK, Fresh, CallbackInvalid, Read, Move, jobVars, procVars,
     outsideVars
<1>27. ASSUME NEW i \in Jobs, NEW a \in Attempts, CallbackCommit(i, a)
       PROVE  Fresh(j)'
  BY <1>27 DEF TypeOK, Fresh, CallbackCommit, Read, Move, jobVars, procVars,
     outsideVars
<1>28. ASSUME NEW i \in Jobs, NEW a \in Attempts, CallbackStop(i, a)
       PROVE  Fresh(j)'
  BY <1>28 DEF TypeOK, Fresh, CallbackStop, StopAsked, Move, jobVars,
     procVars,
     outsideVars
<1>29. ASSUME NEW i \in Jobs, NEW a \in Attempts, CallbackEnd(i, a)
       PROVE  Fresh(j)'
  BY <1>29 DEF TypeOK, Fresh, CallbackEnd, jobVars, procVars, outsideVars
<1>30. ASSUME NEW i \in Jobs, NEW a \in Attempts, AgentExit(i, a)
       PROVE  Fresh(j)'
  BY <1>30 DEF TypeOK, Fresh, AgentExit, jobVars, procVars, outsideVars
<1>31. CASE UNCHANGED vars \/ TakePane \/ LeavePane
  BY <1>31 DEF Fresh, TakePane, LeavePane, vars, jobVars, procVars, outsideVars
<1> QED
  BY <1>4, <1>5, <1>6, <1>7, <1>8, <1>9, <1>10, <1>11, <1>12, <1>13, <1>14,
     <1>15, <1>16, <1>17, <1>18, <1>19, <1>20, <1>21, <1>22, <1>23, <1>24,
     <1>25, <1>26, <1>27, <1>28, <1>29, <1>30, <1>31 DEF Next, Round, Stage,
     Fault, Callback, User, Publish

(* All of it is inductive, with the types and the rows of RelayJobsProofs.  *)
LEMMA ClaimsInvariant == Spec => []Claims
<1>1. Init => Claims
  <2>1. Init => /\ \A w \in Workers : ~Busy(w)
                /\ \A j \in Jobs : status[j] = "absent"
    BY DEF Init, Busy, Running, Owing, SourceSteps, AdmitSteps, LaterSteps,
       AgentSteps
  <2>2. Init => Untouched
    BY DEF Init, Untouched, Fresh
  <2> QED
    BY <2>1, <2>2 DEF Claims, Holders, Born, Held, OneHolder, Carried, Busy,
       Carrying
<1>2. Claims /\ Rows /\ TypeOK /\ TypeOK' /\ [Next]_vars => Claims'
  <2> SUFFICES ASSUME Claims, Rows, TypeOK, TypeOK', [Next]_vars PROVE Claims'
    OBVIOUS
  <2>1. Holders /\ Carried /\ Untouched
    BY DEF Claims
  <2>2. Holders'
    BY <2>1, HoldersStep
  <2>3. Carried'
    BY <2>1, CarriedStep
  <2>4. Untouched'
    BY <2>1, FreshStep DEF Untouched
  <2> QED BY <2>2, <2>3, <2>4 DEF Claims
<1> QED BY <1>1, <1>2, RowsInvariant, TypeCorrect, PTL DEF Spec

(* Until it has sent the prompt, a process holds the attempt it carries in *)
(* the stage it works on, whatever other processes, callbacks, retries and *)
(* the user do (process_controlled_claim never works on another's row).    *)
THEOREM ClaimHeld == Spec => []ClaimIsHeld
<1>1. Claims => ClaimIsHeld
  <2> SUFFICES ASSUME Claims, NEW w \in Workers, Carrying(w)
               PROVE  \/ Owns(w) /\ status[held[w]] \in Working(pc[w])
                      \/ /\ heldAttempt[w] > 1
                         /\ attStatus[held[w]][heldAttempt[w]] = "interrupted"
    BY DEF ClaimIsHeld, Carrying
  <2> QED BY DEF Claims, Carried, InOrder, Owns
<1> QED BY <1>1, ClaimsInvariant, PTL

(* The minutes agent is started at most once for an attempt: what          *)
(* dispatch_to_cc1 sends, no agent has seen.                               *)
THEOREM AgentOnce == Spec => AgentStartedOnce
<1> DEFINE Once == \A j \in Jobs, n \in Attempts :
                      agent[j][n] = "exited" => agent'[j][n] = "exited"
<1>1. Claims /\ TypeOK /\ [Next]_vars => [Once]_vars
  <2> SUFFICES ASSUME Claims, TypeOK, [Next]_vars PROVE Once
    OBVIOUS
  <2>1. ASSUME NEW w \in Workers, SendToAgent(w)
        PROVE  Once
    <3>1. agent[held[w]][heldAttempt[w]] = "none"
      BY <2>1 DEF SendToAgent, Claims, Carried, Carrying, InOrder, Running,
         AgentSteps
    <3> QED BY <2>1, <3>1 DEF SendToAgent, TypeOK
  <2>2. ASSUME NEW k \in Jobs, NEW a \in Attempts, AgentExit(k, a)
        PROVE  Once
    BY <2>2 DEF AgentExit, TypeOK
  <2>3. ASSUME NEW w \in Workers, Round(w) \/ Fault(w) \/ Restart(w)
        PROVE  UNCHANGED agent
    BY <2>3 DEF Round, Fault, outsideVars, ReconcileHandoffs, RecoverOrphans,
       NothingToClaim, Claim, GiveUp, Crash, Restart
  <2>4. ASSUME NEW w \in Workers, Stage(w), ~SendToAgent(w)
        PROVE  UNCHANGED agent
    BY <2>4 DEF Stage, outsideVars, WorkerFail, DeferUnstableSource, Requeue,
       SourceChanged, SourceDuplicate, SourceRecorded, StopBetweenStages,
       GoOnBetweenStages, BackToQueued, StartTranscribing, TranscriptReady,
       RecordStage, DeferDispatch, StartMinutes, ResumeMinutes,
       RecordDispatched, DropDispatchDebt, KeepBooks
  <2>5. ASSUME NEW k \in Jobs, User(k)
        PROVE  UNCHANGED agent
    BY <2>5 DEF User, outsideVars, Enqueue, Retry, Withdraw, StopAfterStage,
       MarkDraftModified, PublishBegin
  <2>6. ASSUME NEW k \in Jobs, NEW a \in Attempts,
               Callback(k, a) \/ Publish(k, a)
        PROVE  UNCHANGED agent
    BY <2>6 DEF Callback, Publish, CallbackBegin, CallbackInvalid,
       CallbackCommit, CallbackStop, CallbackEnd, PublishCommit, PublishAgain,
       PublishWithdrawn, PublishEnd
  <2>7. Once \/ UNCHANGED agent
    BY <2>1, <2>2, <2>3, <2>4, <2>5, <2>6
       DEF Next, TakePane, LeavePane, vars, outsideVars
  <2> QED BY <2>7
<1> QED BY <1>1, ClaimsInvariant, TypeCorrect, PTL DEF Spec, AgentStartedOnce

----------------------------------------------------------------------------
(* Only an attempted job is keyed, and a recording is keyed once.          *)
OneHome ==
    /\ \A j \in Jobs : keyed[j] => attempt[j] # 0
    /\ \A j, k \in Jobs :
          keyed[j] /\ keyed[k] /\ Recording[j] = Recording[k] => j = k

(* A duplicate has no keys of its own and no agent has seen its last       *)
(* attempt, so nothing moves it but the failure of its worker.             *)
Settled(j) ==
    dedupTo[j] # NoJob =>
        /\ status[j] \in {"cancelled", "failed"}
        /\ ~keyed[j]
        /\ \A n \in Attempts : n = attempt[j] => agent[j][n] = "none"
        /\ keyed[dedupTo[j]] /\ Recording[dedupTo[j]] = Recording[j]

Duplicates == OneHome /\ \A j \in Jobs : Settled(j)

(* Keys are given by relayctl's enqueue and by record_source_audio, which  *)
(* both look for the job that has them first, and never taken back.        *)
LEMMA KeysStep ==
  ASSUME TypeOK, Rows, Holders, OneHome, [Next]_vars
  PROVE  OneHome' /\ \A j \in Jobs : keyed[j] => keyed'[j]
<1> DEFINE Enqueued == \E j \in Jobs, h \in BOOLEAN,
                          s \in Active \cup {NoStage} : Enqueue(j, h, s)
           Recorded == \E w \in Workers : SourceRecorded(w)
<1>1. \A j \in Jobs : /\ attempt[j] \in Nat /\ attempt'[j] >= attempt[j]
                      /\ keyed[j] => attempt'[j] # 0
  <2> SUFFICES ASSUME NEW j \in Jobs
               PROVE  /\ attempt[j] \in Nat /\ attempt'[j] >= attempt[j]
                      /\ keyed[j] => attempt'[j] # 0
    OBVIOUS
  <2>1. attempt[j] \in Nat
    BY RelayAssumption DEF TypeOK
  <2> QED BY <2>1, AttemptGrows DEF OneHome
<1>2. CASE Enqueued
  <2>1. PICK i \in Jobs, h \in BOOLEAN, s \in Active \cup {NoStage} :
               Enqueue(i, h, s)
    BY <1>2
  <2>2. /\ \A j \in Jobs : keyed'[j] = IF j = i THEN h ELSE keyed[j]
        /\ h => \A k \in Jobs : keyed[k] => Recording[k] # Recording[i]
        /\ attempt'[i] = 1
    BY <2>1 DEF Enqueue, TypeOK
  <2>3. ~keyed[i]
    BY <2>1 DEF Enqueue, Rows, Unborn, OneHome
  <2> QED BY <1>1, <2>2, <2>3 DEF OneHome
<1>3. CASE Recorded
  <2>1. PICK w \in Workers : SourceRecorded(w)
    BY <1>3
  <2> DEFINE i == held[w]
  <2>2. i \in Jobs \cup {NoJob} /\ i # NoJob /\ attempt[i] # 0
    BY <2>1 DEF SourceRecorded, Owns, Holders, Held, Busy, Running,
       SourceSteps, TypeOK
  <2>3. /\ \A j \in Jobs : keyed'[j] = IF j = i THEN TRUE ELSE keyed[j]
        /\ \A k \in Jobs \ {i} : keyed[k] => Recording[k] # Recording[i]
        /\ UNCHANGED attempt
    BY <2>1, <2>2 DEF SourceRecorded, Twins, TypeOK
  <2> HIDE DEF i
  <2> QED BY <1>1, <2>2, <2>3 DEF OneHome
<1>4. CASE ~Enqueued /\ ~Recorded
  <2>1. ASSUME NEW w \in Workers, Round(w) \/ Fault(w) \/ Restart(w)
        PROVE  UNCHANGED keyed
    BY <2>1 DEF Round, Fault, jobVars, ReconcileHandoffs, RecoverOrphans,
       NothingToClaim, Claim, GiveUp, Crash, Restart
  <2>2. ASSUME NEW w \in Workers, Stage(w)
        PROVE  UNCHANGED keyed
    BY <1>4, <2>2 DEF Stage, jobVars, WorkerFail, DeferUnstableSource,
       Requeue, SourceChanged, SourceDuplicate, StopBetweenStages,
       GoOnBetweenStages, BackToQueued, StartTranscribing, TranscriptReady,
       RecordStage, DeferDispatch, StartMinutes, ResumeMinutes, SendToAgent,
       RecordDispatched, DropDispatchDebt, KeepBooks
  <2>3. ASSUME NEW k \in Jobs, User(k)
        PROVE  UNCHANGED keyed
    BY <1>4, <2>3 DEF User, jobVars, Active, NoStage, Retry, Withdraw,
       StopAfterStage, MarkDraftModified, PublishBegin
  <2>4. ASSUME NEW k \in Jobs, NEW a \in Attempts,
               AgentExit(k, a) \/ Callback(k, a) \/ Publish(k, a)
        PROVE  UNCHANGED keyed
    BY <2>4 DEF Callback, Publish, jobVars, AgentExit, CallbackBegin,
       CallbackInvalid, CallbackCommit, CallbackStop, CallbackEnd,
       PublishCommit, PublishAgain, PublishWithdrawn, PublishEnd
  <2>5. UNCHANGED keyed
    BY <2>1, <2>2, <2>3, <2>4 DEF Next, TakePane, LeavePane, vars, jobVars
  <2> QED BY <1>1, <2>5 DEF OneHome
<1> QED BY <1>2, <1>3, <1>4

(* A process that owns a row carries no duplicate: the row it works on is  *)
(* in a working stage, or was interrupted.                                 *)
LEMMA DuplicateNotCarried ==
  ASSUME TypeOK, Rows, Claims, NEW w \in Workers, Carrying(w),
         held[w] \in Jobs, heldAttempt[w] = attempt[held[w]]
  PROVE  /\ status[held[w]] \notin {"cancelled", "failed"}
         /\ agent[held[w]][heldAttempt[w]] = "none"
<1> DEFINE j == held[w]
           n == heldAttempt[w]
<1>1. InOrder(w, j, n)
  BY DEF Claims, Carried
<1>2. n \in Attempts
  <2>1. n \in 0..MaxAttempts /\ n # 0
    BY DEF Claims, Holders, Held, Busy, Carrying, TypeOK
  <2> QED BY <2>1, RelayAssumption DEF Attempts
<1>3. attStatus[j][n] \in {status[j], "completed_unreviewed", "published"}
  BY <1>2 DEF Rows, AttemptRows
<1>4. \A step \in Running \ {"sent", "books"} :
         Working(step) \cap {"cancelled", "failed"} = {}
  BY DEF Working, Running, SourceSteps, AdmitSteps, LaterSteps, AgentSteps
<1> QED BY <1>1, <1>3, <1>4 DEF InOrder, Carrying

(* A duplicate stays one.                                                  *)
LEMMA DuplicateStays ==
  ASSUME TypeOK, Rows, Claims, [Next]_vars, NEW j \in Jobs,
         dedupTo[j] # NoJob, Settled(j)
  PROVE  /\ status'[j] \in {"cancelled", "failed"}
         /\ UNCHANGED <<dedupTo[j], keyed[j], attempt[j]>>
         /\ \A n \in Attempts : n = attempt[j] => agent'[j][n] = "none"
<1> DEFINE Stays ==
             /\ status'[j] \in {"cancelled", "failed"}
             /\ UNCHANGED <<dedupTo[j], keyed[j], attempt[j]>>
             /\ \A n \in Attempts : n = attempt[j] => agent'[j][n] = "none"
<1> SUFFICES Stays
  OBVIOUS
<1> USE RelayAssumption DEF Jobs, Attempts, Workers, Active, Finished,
   Stopped,
   Retryable, NoStage, NoJob, NoCall, Repairable, Running, Owing, SourceSteps,
   AdmitSteps, LaterSteps, AgentSteps
<1>1. /\ status[j] \in {"cancelled", "failed"} /\ ~keyed[j]
      /\ \A n \in Attempts : n = attempt[j] => agent[j][n] = "none"
  BY DEF Settled
<1>2. ASSUME NEW w \in Workers, Carrying(w), held[w] = j
      PROVE  heldAttempt[w] # attempt[j]
  BY <1>1, <1>2, DuplicateNotCarried
<1>3. ASSUME NEW w \in Workers, Carrying(w), Owns(w)
      PROVE  held[w] # j
  BY <1>2, <1>3 DEF Owns
<1>4. Fresh(j)
  BY DEF Claims, Untouched
<1>5. ASSUME NEW w \in Workers, ReconcileHandoffs(w)
      PROVE  Stays
  BY <1>5, <1>1, <1>3, <1>4 DEF TypeOK, Carrying, Fresh, ReconcileHandoffs,
     HandedOff, Goto, jobVars, procVars, outsideVars
<1>6. ASSUME NEW w \in Workers, RecoverOrphans(w) \/ NothingToClaim(w)
      PROVE  Stays
  BY <1>6, <1>1, <1>3, <1>4 DEF TypeOK, Carrying, Fresh, RecoverOrphans,
     Orphaned, OrphanStatus, HandedOff, Goto, NothingToClaim, jobVars,
     procVars, outsideVars
<1>7. ASSUME NEW w \in Workers, NEW k \in Jobs, Claim(w, k)
      PROVE  Stays
  BY <1>7, <1>1, <1>3, <1>4 DEF TypeOK, Carrying, Fresh, Claim, Head,
     Claimable, FirstStage, FirstStep, Move, jobVars, procVars, outsideVars
<1>8. ASSUME NEW w \in Workers, WorkerFail(w)
      PROVE  Stays
  BY <1>8, <1>1, <1>3, <1>4 DEF TypeOK, Carrying, Fresh, WorkerFail,
     Failable,
     Owns, Mirrored, Move, Departed, Rest, jobVars, procVars, outsideVars
<1>9. ASSUME NEW w \in Workers, DeferUnstableSource(w) \/ DeferDispatch(w)
      PROVE  Stays
  BY <1>9, <1>1, <1>3, <1>4 DEF TypeOK, Carrying, Fresh, DeferUnstableSource,
     At, Owns, MayWait, Requeue, Released, Move, Rest, DeferDispatch, jobVars,
     procVars, outsideVars
<1>10. ASSUME NEW w \in Workers, SourceChanged(w) \/ SourceRecorded(w)
       PROVE  Stays
  BY <1>10, <1>1, <1>3, <1>4 DEF TypeOK, Carrying, Fresh, SourceChanged,
     Owns,
     Move, Goto, SourceRecorded, jobVars, procVars, outsideVars
<1>11. ASSUME NEW w \in Workers, NEW k \in Jobs, SourceDuplicate(w, k)
       PROVE  Stays
  BY <1>11, <1>1, <1>3, <1>4 DEF TypeOK, Carrying, Fresh, SourceDuplicate,
     Owns, Move, Goto, jobVars, procVars, outsideVars
<1>12. ASSUME NEW w \in Workers, StopBetweenStages(w) \/ GoOnBetweenStages(w)
       PROVE  Stays
  BY <1>12, <1>1, <1>3, <1>4 DEF TypeOK, Carrying, Fresh, StopBetweenStages,
     Owns, StopAsked, CheckSteps, Move, Goto, GoOnBetweenStages, NextStep,
     jobVars, procVars, outsideVars
<1>13. ASSUME NEW w \in Workers, BackToQueued(w) \/ StartTranscribing(w)
              \/ TranscriptReady(w) \/ StartMinutes(w)
       PROVE  Stays
  BY <1>13, <1>1, <1>3, <1>4 DEF TypeOK, Carrying, Fresh, BackToQueued,
     RecordStage, At, Owns, Move, Goto, StartTranscribing, TranscriptReady,
     StartMinutes, jobVars, procVars, outsideVars
<1>14. ASSUME NEW w \in Workers, ResumeMinutes(w) \/ DropDispatchDebt(w)
              \/ KeepBooks(w)
       PROVE  Stays
  BY <1>14, <1>1, <1>3, <1>4 DEF TypeOK, Carrying, Fresh, ResumeMinutes, At,
     Owns, Goto, DropDispatchDebt, Rest, KeepBooks, Departed, jobVars,
     procVars, outsideVars
<1>15. ASSUME NEW w \in Workers, SendToAgent(w)
       PROVE  Stays
  <2>1. UNCHANGED jobVars
    BY <1>15 DEF SendToAgent
  <2>2. held[w] = j => heldAttempt[w] # attempt[j]
    BY <1>15, <1>2 DEF SendToAgent, Carrying
  <2>3. \A n \in Attempts : n = attempt[j] => agent'[j][n] = agent[j][n]
    <3>1. CASE held[w] = j
      BY <1>15, <2>2, <3>1 DEF SendToAgent, TypeOK
    <3>2. CASE held[w] # j
      BY <1>15, <3>2 DEF SendToAgent, TypeOK
    <3> QED BY <3>1, <3>2
  <2> QED BY <1>1, <2>1, <2>3 DEF jobVars
<1>16. ASSUME NEW w \in Workers, RecordDispatched(w)
       PROVE  Stays
  BY <1>16, <1>1, <1>3, <1>4 DEF TypeOK, Carrying, Fresh, RecordDispatched,
     Owns, Goto, Rest, jobVars, procVars, outsideVars
<1>17. ASSUME NEW w \in Workers, GiveUp(w) \/ Crash(w) \/ Restart(w)
       PROVE  Stays
  BY <1>17, <1>1, <1>3, <1>4 DEF TypeOK, Carrying, Fresh, GiveUp, Departed,
     Rest, Goto, Crash, Restart, jobVars, procVars, outsideVars
<1>18. ASSUME NEW i \in Jobs, NEW h \in BOOLEAN, NEW s \in Active \cup
              {NoStage}, Enqueue(i, h, s)
       PROVE  Stays
  BY <1>18, <1>1, <1>3, <1>4 DEF TypeOK, Carrying, Fresh, Enqueue, jobVars,
     procVars, outsideVars
<1>19. ASSUME NEW i \in Jobs, NEW s \in Active, Retry(i, s)
       PROVE  Stays
  BY <1>19, <1>1, <1>3, <1>4 DEF TypeOK, Carrying, Fresh, Retry, jobVars,
     procVars, outsideVars
<1>20. ASSUME NEW i \in Jobs, NEW o, Withdraw(i, o)
       PROVE  Stays
  BY <1>20, <1>1, <1>3, <1>4 DEF TypeOK, Carrying, Fresh, Withdraw, NotBegun,
     Move, jobVars, procVars, outsideVars
<1>21. ASSUME NEW i \in Jobs, StopAfterStage(i) \/ MarkDraftModified(i)
              \/ PublishBegin(i)
       PROVE  Stays
  BY <1>21, <1>1, <1>3, <1>4 DEF TypeOK, Carrying, Fresh, StopAfterStage,
     UnderWay, MarkDraftModified, PublishBegin, jobVars, procVars, outsideVars
<1>22. ASSUME NEW i \in Jobs, NEW a \in Attempts, PublishCommit(i, a)
              \/ PublishAgain(i, a) \/ PublishWithdrawn(i, a)
              \/ PublishEnd(i, a)
       PROVE  Stays
  BY <1>22, <1>1, <1>3, <1>4 DEF TypeOK, Carrying, Fresh, PublishCommit,
     AsValidated, PublishAgain, PublishWithdrawn, Move, PublishEnd, jobVars,
     procVars, outsideVars
<1>23. ASSUME NEW i \in Jobs, NEW a \in Attempts, CallbackBegin(i, a)
              \/ CallbackInvalid(i, a) \/ CallbackCommit(i, a)
       PROVE  Stays
  BY <1>23, <1>1, <1>3, <1>4 DEF TypeOK, Carrying, Fresh, CallbackBegin,
     CallbackInvalid, Read, Move, CallbackCommit, jobVars, procVars,
     outsideVars
<1>24. ASSUME NEW i \in Jobs, NEW a \in Attempts, CallbackStop(i, a)
       PROVE  Stays
  BY <1>24, <1>1, <1>3, <1>4 DEF TypeOK, Carrying, Fresh, CallbackStop,
     StopAsked, Move, jobVars, procVars, outsideVars
<1>25. ASSUME NEW i \in Jobs, NEW a \in Attempts, CallbackEnd(i, a)
       PROVE  Stays
  BY <1>25, <1>1, <1>3, <1>4 DEF TypeOK, Carrying, Fresh, CallbackEnd,
     jobVars,
     procVars, outsideVars
<1>26. ASSUME NEW i \in Jobs, NEW a \in Attempts, AgentExit(i, a)
       PROVE  Stays
  BY <1>26, <1>1, <1>3, <1>4 DEF TypeOK, Carrying, Fresh, AgentExit, jobVars,
     procVars, outsideVars
<1>27. CASE UNCHANGED vars \/ TakePane \/ LeavePane
  BY <1>1, <1>27 DEF TakePane, LeavePane, vars, jobVars, procVars, outsideVars
<1> QED
  BY <1>5, <1>6, <1>7, <1>8, <1>9, <1>10, <1>11, <1>12, <1>13, <1>14, <1>15,
     <1>16, <1>17, <1>18, <1>19, <1>20, <1>21, <1>22, <1>23, <1>24, <1>25,
     <1>26, <1>27 DEF Next, Round, Stage, Fault, Callback, User, Publish

LEMMA DuplicatesStep ==
  ASSUME TypeOK, TypeOK', Rows, Claims, Duplicates, [Next]_vars
  PROVE  Duplicates'
<1>1. OneHome' /\ \A j \in Jobs : keyed[j] => keyed'[j]
  BY KeysStep DEF Duplicates, Claims
<1>2. ASSUME NEW j \in Jobs PROVE Settled(j)'
  <2>1. CASE dedupTo[j] # NoJob
    <3>1. /\ status'[j] \in {"cancelled", "failed"}
          /\ UNCHANGED <<dedupTo[j], keyed[j], attempt[j]>>
          /\ \A n \in Attempts : n = attempt[j] => agent'[j][n] = "none"
      BY <2>1, DuplicateStays DEF Duplicates
    <3>2. dedupTo[j] \in Jobs
      BY <2>1 DEF TypeOK, NoJob
    <3>3. Settled(j)
      BY DEF Duplicates
    <3> QED BY <1>1, <2>1, <3>1, <3>2, <3>3 DEF Settled
  <2>2. CASE /\ dedupTo[j] = NoJob
             /\ \E w \in Workers, k \in Jobs :
                   SourceDuplicate(w, k) /\ held[w] = j
    <3>1. PICK w \in Workers, k \in Jobs :
                 SourceDuplicate(w, k) /\ held[w] = j
      BY <2>2
    <3>2. /\ status'[j] = "cancelled" /\ dedupTo'[j] = k
          /\ k # j /\ keyed[k] /\ Recording[k] = Recording[j]
          /\ UNCHANGED <<keyed, attempt, agent>>
      BY <3>1 DEF SourceDuplicate, Move, Twins, TypeOK, outsideVars
    <3>3. ~keyed[j]
      BY <3>2 DEF Duplicates, OneHome
    <3>4. Carrying(w) /\ heldAttempt[w] = attempt[j]
      BY <3>1 DEF SourceDuplicate, Owns, Carrying, Running, SourceSteps
    <3>5. agent[j][attempt[j]] = "none"
      BY <3>1, <3>4, DuplicateNotCarried
    <3> QED BY <3>2, <3>3, <3>5 DEF Settled
  <2>3. CASE /\ dedupTo[j] = NoJob
             /\ ~\E w \in Workers, k \in Jobs :
                    SourceDuplicate(w, k) /\ held[w] = j
    <3>1. ASSUME NEW w \in Workers, Round(w) \/ Fault(w) \/ Restart(w)
          PROVE  UNCHANGED dedupTo
      BY <3>1 DEF Round, Fault, jobVars, ReconcileHandoffs, RecoverOrphans,
         NothingToClaim, Claim, GiveUp, Crash, Restart
    <3>2. ASSUME NEW w \in Workers, NEW k \in Jobs, SourceDuplicate(w, k)
          PROVE  UNCHANGED dedupTo[j]
      BY <2>3, <3>2 DEF SourceDuplicate, TypeOK
    <3>3. ASSUME NEW w \in Workers, Stage(w),
                 ~\E k \in Jobs : SourceDuplicate(w, k)
          PROVE  UNCHANGED dedupTo
      BY <3>3 DEF Stage, jobVars, WorkerFail, DeferUnstableSource, Requeue,
         SourceChanged, SourceRecorded, StopBetweenStages,
         GoOnBetweenStages, BackToQueued, StartTranscribing, TranscriptReady,
         RecordStage, DeferDispatch, StartMinutes, ResumeMinutes,
         SendToAgent, RecordDispatched, DropDispatchDebt, KeepBooks
    <3>4. ASSUME NEW k \in Jobs, User(k)
          PROVE  UNCHANGED dedupTo
      BY <3>4 DEF User, jobVars, Enqueue, Retry, Withdraw, StopAfterStage,
         MarkDraftModified, PublishBegin
    <3>5. ASSUME NEW k \in Jobs, NEW a \in Attempts,
                 AgentExit(k, a) \/ Callback(k, a) \/ Publish(k, a)
          PROVE  UNCHANGED dedupTo
      BY <3>5 DEF Callback, Publish, jobVars, AgentExit, CallbackBegin,
         CallbackInvalid, CallbackCommit, CallbackStop, CallbackEnd,
         PublishCommit, PublishAgain, PublishWithdrawn, PublishEnd
    <3>6. UNCHANGED dedupTo[j]
      BY <3>1, <3>2, <3>3, <3>4, <3>5
         DEF Next, TakePane, LeavePane, vars, jobVars
    <3> QED BY <2>3, <3>6 DEF Settled
  <2> QED BY <2>1, <2>2, <2>3
<1> QED BY <1>1, <1>2 DEF Duplicates

(* A duplicate points at the job that has its recording, for good: retry   *)
(* refuses it, and neither a process nor a callback moves it.  A recording *)
(* has one job.                                                            *)
THEOREM DuplicatesHome == Spec => []DuplicatesPointHome
<1>1. Init => Duplicates
  BY DEF Init, Duplicates, OneHome, Settled
<1>2. Duplicates /\ Claims /\ Rows /\ TypeOK /\ TypeOK' /\ [Next]_vars
        => Duplicates'
  BY DuplicatesStep
<1>3. Duplicates => DuplicatesPointHome
  <2> SUFFICES ASSUME Duplicates PROVE DuplicatesPointHome
    OBVIOUS
  <2>1. ASSUME NEW j \in Jobs, NEW k \in Jobs, dedupTo[j] = k
        PROVE  /\ status[j] \in {"cancelled", "failed"}
               /\ keyed[k] /\ dedupTo[k] = NoJob
               /\ Recording[k] = Recording[j]
    <3>1. k # NoJob
      BY RelayAssumption DEF Jobs, NoJob
    <3>2. Settled(j) /\ Settled(k)
      BY DEF Duplicates
    <3> QED BY <2>1, <3>1, <3>2 DEF Settled
  <2> QED BY <2>1 DEF DuplicatesPointHome, Duplicates, OneHome
<1> QED
  BY <1>1, <1>2, <1>3, ClaimsInvariant, RowsInvariant, TypeCorrect, PTL
     DEF Spec

=============================================================================
