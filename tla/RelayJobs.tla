----------------------------- MODULE RelayJobs -----------------------------
(***************************************************************************)
(* The job queue of meeting-relay: the rows `jobs` and `attempts` of       *)
(* relay_control.py, the worker loop of relay_watchdog.py that carries a   *)
(* claimed attempt through its stages, the `relayctl run-next` processes   *)
(* that do the same, the minutes agent and its completion callback, and    *)
(* the operations of the user and of the workbench.                        *)
(*                                                                         *)
(* Every operation of RelayControl is one BEGIN IMMEDIATE transaction, so  *)
(* it is one action here; an operation that validates files between two    *)
(* transactions (complete_minutes, mark_published) is several.  What a     *)
(* process does between two transactions (transcribing, hashing, tmux) is  *)
(* not visible in the database: `pc` says which transaction comes next.    *)
(*                                                                         *)
(* Left out: the contents of the archives (validation is a free outcome),  *)
(* archive promotion, the Whisper and index substates, heartbeats, and the *)
(* doorbell (a round of the loop may start at any time).                   *)
(***************************************************************************)
EXTENDS Integers

CONSTANTS
    NumJobs,               \* jobs are numbered in the order of creation
    MaxAttempts,           \* bound: retries per job
    Watchdog,              \* the control worker of the relay daemon
    Clis,                  \* processes running `relayctl run-next`
    NoWorker,              \* worker_id IS NULL
    Gone,                  \* the worker_id of a process that no longer exists
    Recording,             \* which recording the audio of a job is of
    MaxDispatchDeferrals,  \* defer_dispatch: times per attempt
    MaxStabilizeDeferrals, \* defer_unstable_source: times per attempt
    MaxFaults              \* bound: crashes of the daemon, and times a write
                           \* loses the database lock

Jobs     == 1..NumJobs
Attempts == 1..MaxAttempts
Workers  == {Watchdog} \cup Clis
NoJob    == 0

ASSUME RelayAssumption ==
    /\ NumJobs \in Nat \ {0} /\ MaxAttempts \in Nat \ {0}
    /\ MaxDispatchDeferrals \in Nat /\ MaxStabilizeDeferrals \in Nat
    /\ MaxFaults \in Nat
    /\ Watchdog \notin Clis
    /\ NoWorker \notin Workers /\ Gone \notin Workers /\ NoWorker # Gone

(* "absent" is no state of the program: the job has not been enqueued.     *)
Active    == {"stabilizing", "transcribing", "transcript_ready",
              "minutes_generating"}
Finished  == {"completed_unreviewed", "draft_modified", "published"}
Stopped   == {"failed", "cancelled", "interrupted"}
Statuses  == {"absent", "queued"} \cup Active \cup Finished \cup Stopped
Retryable == Finished \cup Stopped           \* RETRYABLE_JOB_STATES
NoStage   == "none"                          \* retry_stage IS NULL

(* failure_stage, as far as complete_minutes tells the values apart.       *)
Repairable == {"archive_validation", "codex_callback"}
FailStages == {"none", "stage"} \cup Repairable

VARIABLES
    (* table jobs *)
    status, attempt, worker, retryStage, stop, dispatched, failStage,
    keyed,          \* source_key and audio_sha256 are those of the stable file
    dedupTo, published,
    (* table attempts, and the deferral events of the current attempt *)
    attStatus, paneDefers, sourceDefers,
    (* processes that claim and run attempts *)
    pc, held, heldAttempt, startStage,
    (* minutes agents, and the callers of complete_minutes, mark_published *)
    agent, callback, publishing,
    paneTaken,      \* a person works in the agents' pane, or tmux is silent
    (* faults so far *)
    faults

jobVars     == <<status, attempt, worker, retryStage, stop, dispatched,
                 failStage, keyed, dedupTo, published, attStatus, paneDefers,
                 sourceDefers>>
procVars    == <<pc, held, heldAttempt, startStage>>
outsideVars == <<agent, callback, publishing, paneTaken, faults>>
vars        == <<jobVars, procVars, outsideVars>>

----------------------------------------------------------------------------
(* Where a process is: the transaction it will run next.                   *)

LoopSteps    == {"idle", "swept", "recovered", "down"}
SourceSteps  == {"source"}
AdmitSteps   == {"check_stable", "admit", "start_transcribing"}
LaterSteps   == {"transcribe", "check_transcribed", "check_reused", "prepare"}
AgentSteps   == {"handoff", "sent", "books"}
Running      == SourceSteps \cup AdmitSteps \cup LaterSteps \cup AgentSteps
Owing        == {"owes_dispatch", "owes_failure"}
Steps        == LoopSteps \cup Running \cup Owing

(* A call of complete_minutes or mark_published, by the attempt it is for:  *)
(* what it read before it validated the files, or that it has committed.   *)
NoCall    == "none"
Callbacks == {NoCall, "generated", "committed"} \cup Repairable
Publishes == {NoCall, "committed"} \cup Finished

TypeOK ==
    /\ status \in [Jobs -> Statuses]
    /\ attempt \in [Jobs -> 0..MaxAttempts]
    /\ worker \in [Jobs -> Workers \cup {NoWorker, Gone}]
    /\ retryStage \in [Jobs -> Active \cup {NoStage}]
    /\ stop \in [Jobs -> BOOLEAN]
    /\ dispatched \in [Jobs -> BOOLEAN]
    /\ failStage \in [Jobs -> FailStages]
    /\ keyed \in [Jobs -> BOOLEAN]
    /\ dedupTo \in [Jobs -> Jobs \cup {NoJob}]
    /\ published \in [Jobs -> 0..MaxAttempts]
    /\ attStatus \in [Jobs -> [Attempts -> Statuses]]
    /\ paneDefers \in [Jobs -> 0..MaxDispatchDeferrals]
    /\ sourceDefers \in [Jobs -> 0..MaxStabilizeDeferrals]
    /\ pc \in [Workers -> Steps]
    /\ held \in [Workers -> Jobs \cup {NoJob}]
    /\ heldAttempt \in [Workers -> 0..MaxAttempts]
    /\ startStage \in [Workers -> Active \cup {NoStage}]
    /\ faults \in 0..MaxFaults
    /\ agent \in [Jobs -> [Attempts -> {"none", "live", "exited"}]]
    /\ callback \in [Jobs -> [Attempts -> Callbacks]]
    /\ publishing \in [Jobs -> [Attempts -> Publishes]]
    /\ paneTaken \in BOOLEAN

Init ==
    /\ status = [j \in Jobs |-> "absent"]
    /\ attempt = [j \in Jobs |-> 0]
    /\ worker = [j \in Jobs |-> NoWorker]
    /\ retryStage = [j \in Jobs |-> NoStage]
    /\ stop = [j \in Jobs |-> FALSE]
    /\ dispatched = [j \in Jobs |-> FALSE]
    /\ failStage = [j \in Jobs |-> "none"]
    /\ keyed = [j \in Jobs |-> FALSE]
    /\ dedupTo = [j \in Jobs |-> NoJob]
    /\ published = [j \in Jobs |-> 0]
    /\ attStatus = [j \in Jobs |-> [n \in Attempts |-> "absent"]]
    /\ paneDefers = [j \in Jobs |-> 0]
    /\ sourceDefers = [j \in Jobs |-> 0]
    /\ pc = [w \in Workers |-> "idle"]
    /\ held = [w \in Workers |-> NoJob]
    /\ heldAttempt = [w \in Workers |-> 0]
    /\ startStage = [w \in Workers |-> NoStage]
    /\ faults = 0
    /\ agent = [j \in Jobs |-> [n \in Attempts |-> "none"]]
    /\ callback = [j \in Jobs |-> [n \in Attempts |-> NoCall]]
    /\ publishing = [j \in Jobs |-> [n \in Attempts |-> NoCall]]
    /\ paneTaken = FALSE

----------------------------------------------------------------------------
(* What the transactions share.                                            *)

(* Both tables change together; the attempt row is that of the current     *)
(* attempt.                                                                *)
Move(j, s) ==
    /\ status' = [status EXCEPT ![j] = s]
    /\ attStatus' = [attStatus EXCEPT ![j][attempt[j]] = s]

(* The compare-and-swap on the attempt row; when it fails the transaction  *)
(* is rolled back.                                                         *)
Mirrored(j) == attStatus[j][attempt[j]] = status[j]

(* _assert_claim_identity with both arguments.                             *)
Owns(w) == /\ attempt[held[w]] = heldAttempt[w]
           /\ worker[held[w]] = w

(* A run-next process ends with its claim: from then on its id is that of  *)
(* a dead process.  The daemon keeps its id from claim to claim.           *)
Departed(w, ids) ==
    IF w \in Clis THEN [j \in Jobs |-> IF ids[j] = w THEN Gone ELSE ids[j]]
                  ELSE ids

Rest(w) ==
    /\ pc' = [pc EXCEPT ![w] = "idle"]
    /\ held' = [held EXCEPT ![w] = NoJob]
    /\ heldAttempt' = [heldAttempt EXCEPT ![w] = 0]
    /\ startStage' = [startStage EXCEPT ![w] = NoStage]

Goto(w, step) ==
    /\ pc' = [pc EXCEPT ![w] = step]
    /\ UNCHANGED <<held, heldAttempt, startStage>>

(* _agent_pane_available: tmux shows a shell in the foreground of the pane. *)
PaneFree == /\ ~paneTaken
            /\ \A j \in Jobs, n \in Attempts : agent[j][n] # "live"

----------------------------------------------------------------------------
(* Creating a job.  The daemon enqueues without hashing the file, which    *)
(* may still be growing; relayctl hashes it, and finds the job that already *)
(* has this recording.                                                     *)

Enqueue(j, hashed, stage) ==
    /\ status[j] = "absent"
    /\ \A k \in Jobs : k < j => status[k] # "absent"
    /\ hashed => \A k \in Jobs : keyed[k] => Recording[k] # Recording[j]
    /\ stage # NoStage => hashed
    /\ status' = [status EXCEPT ![j] = "queued"]
    /\ attStatus' = [attStatus EXCEPT ![j][1] = "queued"]
    /\ attempt' = [attempt EXCEPT ![j] = 1]
    /\ retryStage' = [retryStage EXCEPT ![j] = stage]
    /\ keyed' = [keyed EXCEPT ![j] = hashed]
    /\ UNCHANGED <<worker, stop, dispatched, failStage, dedupTo, published,
                   paneDefers, sourceDefers, procVars, outsideVars>>

----------------------------------------------------------------------------
(* A round of the daemon's loop: run_control_worker_once.                  *)

Claimable(j)  == status[j] = "queued" /\ ~stop[j]
HandedOff(j)  == status[j] = "minutes_generating" /\ dispatched[j]

PendingWork ==
    \E j \in Jobs : \/ Claimable(j)
                     \/ HandedOff(j)
                     \/ (worker[j] # NoWorker /\ status[j] \in Active)

(* reconcile_codex_handoffs.  The grace period stands for the agent that   *)
(* was started a moment ago: the pane is seen free and the rows are closed *)
(* in one step.                                                            *)
ReconcileHandoffs(w) ==
    /\ w = Watchdog /\ pc[w] = "idle" /\ PendingWork /\ PaneFree
    /\ LET outcome(j) == IF stop[j] THEN "interrupted" ELSE "failed" IN
       /\ \A j \in Jobs : HandedOff(j) => Mirrored(j)
       /\ status' = [j \in Jobs |->
                       IF HandedOff(j) THEN outcome(j) ELSE status[j]]
       /\ attStatus' = [j \in Jobs |-> IF HandedOff(j)
                THEN [attStatus[j] EXCEPT ![attempt[j]] = outcome(j)]
                ELSE attStatus[j]]
       /\ failStage' = [j \in Jobs |-> IF HandedOff(j)
                THEN IF stop[j] THEN "none" ELSE "codex_callback"
                ELSE failStage[j]]
       /\ stop' = [j \in Jobs |-> stop[j] /\ ~HandedOff(j)]
       /\ worker' = [j \in Jobs |->
                       IF HandedOff(j) THEN NoWorker ELSE worker[j]]
    /\ Goto(w, "swept")
    /\ UNCHANGED <<attempt, retryStage, dispatched, keyed, dedupTo, published,
                   paneDefers, sourceDefers, outsideVars>>

(* Slip: only the worker's own claims, not those of dead processes.        *)
OrphanedOwnOnly(w, j) ==
    status[j] \in Active /\ worker[j] = w /\ ~HandedOff(j)

(* recover_orphaned_claims(idle_worker_id = own id).                       *)
Orphaned(w, j) ==
    /\ status[j] \in Active
    /\ worker[j] \in {w, Gone}
    /\ ~HandedOff(j)

(* Slip: an orphan goes back to the queue.                                 *)
OrphanStatusQueued == "queued"

OrphanStatus == "interrupted"

RecoverOrphans(w) ==
    /\ w = Watchdog /\ pc[w] = "swept"
    /\ \A j \in Jobs : Orphaned(w, j) => Mirrored(j)
    /\ status' = [j \in Jobs |->
                    IF Orphaned(w, j) THEN OrphanStatus ELSE status[j]]
    /\ attStatus' = [j \in Jobs |-> IF Orphaned(w, j)
             THEN [attStatus[j] EXCEPT ![attempt[j]] = OrphanStatus]
             ELSE attStatus[j]]
    /\ stop' = [j \in Jobs |-> stop[j] /\ ~Orphaned(w, j)]
    /\ worker' = [j \in Jobs |->
                    IF Orphaned(w, j) THEN NoWorker ELSE worker[j]]
    /\ Goto(w, "recovered")
    /\ UNCHANGED <<attempt, retryStage, dispatched, failStage, keyed, dedupTo,
                   published, paneDefers, sourceDefers, outsideVars>>

(* claim_next.  Attempts waiting for their audio file to stop growing go   *)
(* behind the others.                                                      *)
Before(j, k) ==
    IF (retryStage[j] = "stabilizing") = (retryStage[k] = "stabilizing")
    THEN j < k
    ELSE retryStage[k] = "stabilizing"

Head(j) == /\ Claimable(j)
           /\ \A k \in Jobs \ {j} : Claimable(k) => Before(j, k)

FirstStage(j) == IF retryStage[j] = NoStage THEN "transcribing"
                                            ELSE retryStage[j]

FirstStep(stage) == IF stage \in {"stabilizing", "transcribing"} THEN "source"
                    ELSE IF stage = "transcript_ready" THEN "check_reused"
                    ELSE "prepare"

NoneActive == \A k \in Jobs : status[k] \notin Active

(* The claim succeeds only on a row without a worker.                      *)
Claim(w, j) ==
    /\ pc[w] = IF w = Watchdog THEN "recovered" ELSE "idle"
    /\ NoneActive
    /\ Head(j) /\ worker[j] = NoWorker
    /\ Move(j, FirstStage(j))
    /\ worker' = [worker EXCEPT ![j] = w]
    /\ pc' = [pc EXCEPT ![w] = FirstStep(FirstStage(j))]
    /\ held' = [held EXCEPT ![w] = j]
    /\ heldAttempt' = [heldAttempt EXCEPT ![w] = attempt[j]]
    /\ startStage' = [startStage EXCEPT ![w] = FirstStage(j)]
    /\ UNCHANGED <<attempt, retryStage, stop, dispatched, failStage, keyed,
                   dedupTo, published, paneDefers, sourceDefers, outsideVars>>

(* claim_next returned None: the round ends.                               *)
NothingToClaim(w) ==
    /\ w = Watchdog /\ pc[w] = "recovered"
    /\ \/ ~NoneActive
       \/ \A j \in Jobs : Head(j) => worker[j] # NoWorker
    /\ Goto(w, "idle")
    /\ UNCHANGED <<jobVars, outsideVars>>

----------------------------------------------------------------------------
(* Carrying a claimed attempt: process_controlled_claim.  A step whose     *)
(* claim identity or status no longer fits raises; then only WorkerFail,   *)
(* the write of the exception handler, is left.                            *)

At(w, step, stages) ==
    /\ pc[w] = step
    /\ Owns(w) /\ status[held[w]] \in stages

(* RelayControl.fail, called with the claim's attempt and worker id but    *)
(* without an expected status, for a failed stage, a spent deferral limit, *)
(* a refused write or any exception.  A refused fail is only logged.       *)
Failable(w) == /\ Owns(w)
               /\ status[held[w]] # "published"
               /\ Mirrored(held[w])

WorkerFail(w) ==
    /\ pc[w] \in Running \cup {"owes_failure"}
    /\ IF Failable(w)
       THEN /\ Move(held[w], "failed")
            /\ failStage' = [failStage EXCEPT ![held[w]] = "stage"]
       ELSE UNCHANGED <<status, attStatus, failStage>>
    /\ worker' = Departed(w, worker)
    /\ Rest(w)
    /\ UNCHANGED <<attempt, retryStage, stop, dispatched, keyed, dedupTo,
                   published, paneDefers, sourceDefers, outsideVars>>

(* The write lock of the database outlasts the retries.  An ordinary write *)
(* lets the claim go; a failure, and the record of a dispatch, are owed    *)
(* and written before the next round of the daemon.  A run-next process    *)
(* ends without paying, as one that is killed does.                        *)
GiveUp(w) ==
    /\ pc[w] \in Running /\ faults < MaxFaults
    /\ \/ (w = Watchdog => pc[w] # "sent") /\ Rest(w)
       \/ w = Watchdog /\ Goto(w, "owes_failure")
       \/ w = Watchdog /\ pc[w] = "sent" /\ Goto(w, "owes_dispatch")
    /\ worker' = Departed(w, worker)
    /\ faults' = faults + 1
    /\ UNCHANGED <<status, attempt, retryStage, stop, dispatched, failStage,
                   keyed, dedupTo, published, attStatus, paneDefers,
                   sourceDefers, agent, callback, publishing, paneTaken>>

Released(j) == [worker EXCEPT ![j] = NoWorker]

(* _requeue_claim: the same attempt goes back to the queue, unless the     *)
(* user has asked it to stop.                                              *)
Requeue(w, stage) ==
    LET j == held[w] IN
    /\ ~dispatched[j] /\ Mirrored(j)
    /\ Move(j, IF stop[j] THEN "interrupted" ELSE "queued")
    /\ retryStage' = [retryStage EXCEPT ![j] = stage]
    /\ stop' = [stop EXCEPT ![j] = FALSE]
    /\ worker' = Released(j)
    /\ Rest(w)
    /\ UNCHANGED <<attempt, dispatched, failStage, keyed, dedupTo, published,
                   outsideVars>>

(* Slip: the deferral that is due is not counted.                          *)
MayWaitOnceMore(j) == sourceDefers[j] <= MaxStabilizeDeferrals

MayWait(j) == sourceDefers[j] < MaxStabilizeDeferrals

(* The audio file is still growing.                                        *)
DeferUnstableSource(w) ==
    LET j == held[w] IN
    /\ At(w, "source", {"stabilizing", "transcribing"})
    /\ MayWait(j)
    /\ Requeue(w, "stabilizing")
    /\ sourceDefers' = [sourceDefers EXCEPT ![j] =
                           IF stop[j] THEN @ ELSE @ + 1]
    /\ UNCHANGED paneDefers

(* Slip: also jobs whose file is not known to be stable.                   *)
TwinsUnkeyed(j) == {k \in Jobs \ {j} : status[k] # "absent"
                                      /\ Recording[k] = Recording[j]}

(* record_source_audio looks at the claim identity, not at the status.     *)
Twins(j) == {k \in Jobs \ {j} : keyed[k] /\ Recording[k] = Recording[j]}

SourceChanged(w) ==
    /\ pc[w] = "source" /\ Owns(w) /\ keyed[held[w]]
    /\ Move(held[w], "failed")
    /\ failStage' = [failStage EXCEPT ![held[w]] = "stage"]
    /\ Goto(w, "books")
    /\ UNCHANGED <<attempt, worker, retryStage, stop, dispatched, keyed,
                   dedupTo, published, paneDefers, sourceDefers, outsideVars>>

SourceDuplicate(w, k) ==
    /\ pc[w] = "source" /\ Owns(w)
    /\ k \in Twins(held[w]) /\ \A i \in Twins(held[w]) : k <= i
    /\ Move(held[w], "cancelled")
    /\ dedupTo' = [dedupTo EXCEPT ![held[w]] = k]
    /\ Goto(w, "books")
    /\ UNCHANGED <<attempt, worker, retryStage, stop, dispatched, failStage,
                   keyed, published, paneDefers, sourceDefers, outsideVars>>

SourceRecorded(w) ==
    /\ pc[w] = "source" /\ Owns(w) /\ Twins(held[w]) = {}
    /\ keyed' = [keyed EXCEPT ![held[w]] = TRUE]
    /\ Goto(w, IF startStage[w] = "stabilizing" THEN "check_stable"
                                                ELSE "transcribe")
    /\ UNCHANGED <<status, attempt, worker, retryStage, stop, dispatched,
                   failStage, dedupTo, published, attStatus, paneDefers,
                   sourceDefers, outsideVars>>

(* interrupt_if_stop_requested between two stages, and where the worker    *)
(* goes on when no stop was asked for.                                     *)
NextStep(step) == CASE step = "check_stable"      -> "admit"
                    [] step = "check_transcribed" -> "prepare"
                    [] step = "check_reused"      -> "prepare"

CheckSteps == {"check_stable", "check_transcribed", "check_reused"}

StopAsked(j) == stop[j] /\ status[j] \notin Stopped \cup {"published"}

StopBetweenStages(w) ==
    /\ pc[w] \in CheckSteps /\ Owns(w)
    /\ StopAsked(held[w]) /\ Mirrored(held[w])
    /\ Move(held[w], "interrupted")
    /\ stop' = [stop EXCEPT ![held[w]] = FALSE]
    /\ Goto(w, "books")
    /\ UNCHANGED <<attempt, worker, retryStage, dispatched, failStage, keyed,
                   dedupTo, published, paneDefers, sourceDefers, outsideVars>>

GoOnBetweenStages(w) ==
    /\ pc[w] \in CheckSteps /\ Owns(w) /\ ~StopAsked(held[w])
    /\ Goto(w, NextStep(pc[w]))
    /\ UNCHANGED <<jobVars, outsideVars>>

(* record_stage on an owned row: one transition of _ALLOWED_TRANSITIONS.   *)
RecordStage(w, step, from, to, next) ==
    /\ At(w, step, {from}) /\ Mirrored(held[w])
    /\ Move(held[w], to)
    /\ failStage' = [failStage EXCEPT ![held[w]] = "none"]
    /\ Goto(w, next)
    /\ UNCHANGED <<attempt, worker, retryStage, stop, dispatched, keyed,
                   dedupTo, published, paneDefers, sourceDefers, outsideVars>>

(* A stable file passes from stabilizing to transcribing in two            *)
(* transactions; in between the attempt is queued, and still owned.        *)
BackToQueued(w) ==
    RecordStage(w, "admit", "stabilizing", "queued", "start_transcribing")
StartTranscribing(w) ==
    RecordStage(w, "start_transcribing", "queued", "transcribing",
                "transcribe")
TranscriptReady(w) ==
    RecordStage(w, "transcribe", "transcribing", "transcript_ready",
                "check_transcribed")

(* The agent's pane is taken, by another agent or by the user.             *)
DeferDispatch(w) ==
    LET j == held[w] IN
    /\ At(w, "prepare", {"transcript_ready", "minutes_generating"})
    /\ ~PaneFree /\ paneDefers[j] < MaxDispatchDeferrals
    /\ Requeue(w, status[j])
    /\ paneDefers' = [paneDefers EXCEPT ![j] = IF stop[j] THEN @ ELSE @ + 1]
    /\ UNCHANGED sourceDefers

(* The minutes plan is recorded and the pane is free.                      *)
StartMinutes(w) ==
    /\ PaneFree
    /\ RecordStage(w, "prepare", "transcript_ready", "minutes_generating",
                   "handoff")

ResumeMinutes(w) ==
    /\ PaneFree
    /\ At(w, "prepare", {"minutes_generating"})
    /\ startStage[w] = "minutes_generating"
    /\ Goto(w, "handoff")
    /\ UNCHANGED <<jobVars, outsideVars>>

(* dispatch_to_cc1: the prompt is sent to the pane.  The database does not *)
(* know yet.                                                               *)
SendToAgent(w) ==
    /\ pc[w] = "handoff" /\ PaneFree
    /\ agent' = [agent EXCEPT ![held[w]][heldAttempt[w]] = "live"]
    /\ Goto(w, "sent")
    /\ UNCHANGED <<jobVars, callback, publishing, paneTaken, faults>>

(* record_codex_dispatched, at once or as a debt of the daemon.            *)
RecordDispatched(w) ==
    /\ pc[w] \in {"sent", "owes_dispatch"}
    /\ Owns(w) /\ status[held[w]] = "minutes_generating"
    /\ dispatched' = [dispatched EXCEPT ![held[w]] = TRUE]
    /\ IF pc[w] = "sent" THEN Goto(w, "books") ELSE Rest(w)
    /\ UNCHANGED <<status, attempt, worker, retryStage, stop, failStage,
                   keyed, dedupTo, published, attStatus, paneDefers,
                   sourceDefers, outsideVars>>

(* save_last_meeting, the notice to the user and mark_processed follow the *)
(* last transaction of a claim, inside the same exception handler.         *)
KeepBooks(w) ==
    /\ pc[w] = "books"
    /\ worker' = Departed(w, worker)
    /\ Rest(w)
    /\ UNCHANGED <<status, attempt, retryStage, stop, dispatched, failStage,
                   keyed, dedupTo, published, attStatus, paneDefers,
                   sourceDefers, outsideVars>>

(* _settle_pending_claims drops a debt that is refused.                    *)
DropDispatchDebt(w) ==
    /\ pc[w] = "owes_dispatch"
    /\ ~(Owns(w) /\ status[held[w]] = "minutes_generating")
    /\ Rest(w)
    /\ UNCHANGED <<jobVars, outsideVars>>

----------------------------------------------------------------------------
(* The daemon is killed, and started again by launchd with a new id.       *)
(* Agents go on in tmux.                                                   *)

Crash(w) ==
    /\ w = Watchdog /\ pc[w] # "down" /\ faults < MaxFaults
    /\ worker' = [j \in Jobs |-> IF worker[j] = w THEN Gone ELSE worker[j]]
    /\ pc' = [pc EXCEPT ![w] = "down"]
    /\ held' = [held EXCEPT ![w] = NoJob]
    /\ heldAttempt' = [heldAttempt EXCEPT ![w] = 0]
    /\ startStage' = [startStage EXCEPT ![w] = NoStage]
    /\ faults' = faults + 1
    /\ UNCHANGED <<status, attempt, retryStage, stop, dispatched, failStage,
                   keyed, dedupTo, published, attStatus, paneDefers,
                   sourceDefers, agent, callback, publishing, paneTaken>>

Restart(w) ==
    /\ w = Watchdog /\ pc[w] = "down"
    /\ Goto(w, "idle")
    /\ UNCHANGED <<jobVars, outsideVars>>

----------------------------------------------------------------------------
(* The minutes agent.  It has the pane until its process ends.             *)

AgentExit(j, a) ==
    /\ agent[j][a] = "live"
    /\ agent' = [agent EXCEPT ![j][a] = "exited"]
    /\ UNCHANGED <<jobVars, procVars, callback, publishing, paneTaken, faults>>

(* complete_minutes: the agent, or after it the user, reports an archive   *)
(* of attempt a.  First what is read before the files are validated.       *)
CallbackBegin(j, a) ==
    /\ agent[j][a] # "none" /\ callback[j][a] = NoCall
    /\ attempt[j] = a
    /\ \/ /\ status[j] = "minutes_generating"
          /\ callback' = [callback EXCEPT ![j][a] = "generated"]
       \/ /\ status[j] = "failed" /\ failStage[j] \in Repairable
          /\ callback' = [callback EXCEPT ![j][a] = failStage[j]]
    /\ UNCHANGED <<jobVars, procVars, agent, publishing, paneTaken, faults>>

Read(call) == IF call = "generated" THEN "minutes_generating"
              ELSE IF call = "committed" THEN "completed_unreviewed"
              ELSE "failed"

(* The archive is not valid, or is found changed after the commit: fail,   *)
(* with the attempt and the status expected.                               *)
CallbackInvalid(j, a) ==
    /\ callback[j][a] # NoCall
    /\ attempt[j] = a /\ status[j] = Read(callback[j][a]) /\ Mirrored(j)
    /\ Move(j, "failed")
    /\ failStage' = [failStage EXCEPT ![j] = "archive_validation"]
    /\ callback' = [callback EXCEPT ![j][a] = NoCall]
    /\ UNCHANGED <<attempt, worker, retryStage, stop, dispatched, keyed,
                   dedupTo, published, paneDefers, sourceDefers, procVars,
                   agent, publishing, paneTaken, faults>>

CallbackCommit(j, a) ==
    /\ callback[j][a] \notin {NoCall, "committed"}
    /\ attempt[j] = a /\ status[j] = Read(callback[j][a]) /\ Mirrored(j)
    /\ callback[j][a] \in Repairable => failStage[j] = callback[j][a]
    /\ Move(j, "completed_unreviewed")
    /\ retryStage' = [retryStage EXCEPT ![j] = NoStage]
    /\ failStage' = [failStage EXCEPT ![j] = "none"]
    /\ callback' = [callback EXCEPT ![j][a] = "committed"]
    /\ UNCHANGED <<attempt, worker, stop, dispatched, keyed, dedupTo,
                   published, paneDefers, sourceDefers, procVars, agent,
                   publishing, paneTaken, faults>>

(* The archive is promoted; then a stop the user asked for is carried out, *)
(* without a look at the attempt.                                          *)
CallbackStop(j, a) ==
    /\ callback[j][a] = "committed"
    /\ StopAsked(j) /\ Mirrored(j)
    /\ Move(j, "interrupted")
    /\ stop' = [stop EXCEPT ![j] = FALSE]
    /\ callback' = [callback EXCEPT ![j][a] = NoCall]
    /\ UNCHANGED <<attempt, worker, retryStage, dispatched, failStage, keyed,
                   dedupTo, published, paneDefers, sourceDefers, procVars,
                   agent, publishing, paneTaken, faults>>

(* The call returns, is refused, or is killed.                             *)
CallbackEnd(j, a) ==
    /\ callback[j][a] # NoCall
    /\ callback' = [callback EXCEPT ![j][a] = NoCall]
    /\ UNCHANGED <<jobVars, procVars, agent, publishing, paneTaken, faults>>

----------------------------------------------------------------------------
(* Somebody opens a session in the pane, or leaves it; or the calls of     *)
(* tmux and ps fail for a while, which the code takes the same way.        *)
TakePane ==
    /\ ~paneTaken /\ paneTaken' = TRUE
    /\ UNCHANGED <<jobVars, procVars, agent, callback, publishing, faults>>

LeavePane ==
    /\ paneTaken /\ paneTaken' = FALSE
    /\ UNCHANGED <<jobVars, procVars, agent, callback, publishing, faults>>

(* The user, through relayctl and the workbench.                           *)

Retry(j, stage) ==
    /\ status[j] \in Retryable /\ dedupTo[j] = NoJob
    /\ attempt[j] < MaxAttempts
    /\ status' = [status EXCEPT ![j] = "queued"]
    /\ attempt' = [attempt EXCEPT ![j] = @ + 1]
    /\ attStatus' = [attStatus EXCEPT ![j][attempt[j] + 1] = "queued"]
    /\ retryStage' = [retryStage EXCEPT ![j] = stage]
    /\ stop' = [stop EXCEPT ![j] = FALSE]
    /\ failStage' = [failStage EXCEPT ![j] = "none"]
    /\ worker' = [worker EXCEPT ![j] = NoWorker]
    /\ dispatched' = [dispatched EXCEPT ![j] = FALSE]
    /\ paneDefers' = [paneDefers EXCEPT ![j] = 0]
    /\ sourceDefers' = [sourceDefers EXCEPT ![j] = 0]
    /\ UNCHANGED <<keyed, dedupTo, published, procVars, outsideVars>>

(* Slip: what is in the queue is taken to be nobody's.                     *)
NotBegunInQueue(j) == status[j] = "queued"

NotBegun(j) == status[j] = "queued" /\ worker[j] = NoWorker

(* cancel, and stop_after_stage of an attempt that has not begun.          *)
Withdraw(j, outcome) ==
    /\ outcome \in {"cancelled", "interrupted"}
    /\ NotBegun(j) /\ Mirrored(j)
    /\ Move(j, outcome)
    /\ stop' = [stop EXCEPT ![j] = FALSE]
    /\ UNCHANGED <<attempt, worker, retryStage, dispatched, failStage, keyed,
                   dedupTo, published, paneDefers, sourceDefers, procVars,
                   outsideVars>>

(* Slip: a queued attempt is asked to stop like a running one.             *)
UnderWayOrQueued(j) == status[j] \in Active \cup {"queued"}

UnderWay(j) == status[j] \in Active

StopAfterStage(j) ==
    /\ UnderWay(j)
    /\ stop' = [stop EXCEPT ![j] = TRUE]
    /\ UNCHANGED <<status, attempt, worker, retryStage, dispatched, failStage,
                   keyed, dedupTo, published, attStatus, paneDefers,
                   sourceDefers, procVars, outsideVars>>

(* The attempt row keeps its status.                                       *)
MarkDraftModified(j) ==
    /\ status[j] \in {"completed_unreviewed", "published"}
    /\ status' = [status EXCEPT ![j] = "draft_modified"]
    /\ UNCHANGED <<attempt, worker, retryStage, stop, dispatched, failStage,
                   keyed, dedupTo, published, attStatus, paneDefers,
                   sourceDefers, procVars, outsideVars>>

(* mark_published: the manifest is validated and hashed without the write  *)
(* lock; a manifest is that of the attempt that was current then.          *)
PublishBegin(j) ==
    /\ status[j] \in Finished /\ publishing[j][attempt[j]] = NoCall
    /\ publishing' = [publishing EXCEPT ![j][attempt[j]] = status[j]]
    /\ UNCHANGED <<jobVars, procVars, agent, callback, paneTaken, faults>>

(* Slip: only the status is compared with what was validated.              *)
SameStatusAsValidated(j, a) == publishing[j][a] = status[j]

AsValidated(j, a) == publishing[j][a] = status[j] /\ attempt[j] = a

PublishCommit(j, a) ==
    /\ AsValidated(j, a)
    /\ status[j] \in {"completed_unreviewed", "draft_modified"}
    /\ status' = [status EXCEPT ![j] = "published"]
    /\ attStatus' = [attStatus EXCEPT ![j][a] = "published"]
    /\ published' = [published EXCEPT ![j] = a]
    /\ retryStage' = [retryStage EXCEPT ![j] = NoStage]
    /\ failStage' = [failStage EXCEPT ![j] = "none"]
    /\ publishing' = [publishing EXCEPT ![j][a] = "committed"]
    /\ UNCHANGED <<attempt, worker, stop, dispatched, keyed, dedupTo,
                   paneDefers, sourceDefers, procVars, agent, callback,
                   paneTaken, faults>>

(* The job is published already, with this very manifest.                  *)
PublishAgain(j, a) ==
    /\ publishing[j][a] \in Finished
    /\ status[j] = "published" /\ published[j] = a
    /\ publishing' = [publishing EXCEPT ![j][a] = "committed"]
    /\ UNCHANGED <<jobVars, procVars, agent, callback, paneTaken, faults>>

(* _record_post_publish_validation_failure: the published files are found  *)
(* changed after the commit.                                               *)
PublishWithdrawn(j, a) ==
    /\ publishing[j][a] = "committed"
    /\ attempt[j] = a /\ status[j] = "published" /\ published[j] = a
    /\ Move(j, "failed")
    /\ failStage' = [failStage EXCEPT ![j] = "stage"]
    /\ worker' = [worker EXCEPT ![j] = NoWorker]
    /\ publishing' = [publishing EXCEPT ![j][a] = NoCall]
    /\ UNCHANGED <<attempt, retryStage, stop, dispatched, keyed, dedupTo,
                   published, paneDefers, sourceDefers, procVars, agent,
                   callback, paneTaken, faults>>

(* The call returns, is refused, or is killed.                             *)
PublishEnd(j, a) ==
    /\ publishing[j][a] # NoCall
    /\ publishing' = [publishing EXCEPT ![j][a] = NoCall]
    /\ UNCHANGED <<jobVars, procVars, agent, callback, paneTaken, faults>>

----------------------------------------------------------------------------
Round(w) ==
    \/ ReconcileHandoffs(w) \/ RecoverOrphans(w) \/ NothingToClaim(w)
    \/ \E j \in Jobs : Claim(w, j)

Stage(w) ==
    \/ WorkerFail(w) \/ DeferUnstableSource(w) \/ SourceChanged(w)
    \/ \E k \in Jobs : SourceDuplicate(w, k)
    \/ SourceRecorded(w) \/ StopBetweenStages(w) \/ GoOnBetweenStages(w)
    \/ BackToQueued(w) \/ StartTranscribing(w) \/ TranscriptReady(w)
    \/ DeferDispatch(w) \/ StartMinutes(w) \/ ResumeMinutes(w)
    \/ SendToAgent(w) \/ RecordDispatched(w) \/ DropDispatchDebt(w)
    \/ KeepBooks(w)

Fault(w) == GiveUp(w) \/ Crash(w)

Callback(j, a) ==
    \/ CallbackBegin(j, a) \/ CallbackInvalid(j, a) \/ CallbackCommit(j, a)
    \/ CallbackStop(j, a) \/ CallbackEnd(j, a)

User(j) ==
    \/ Enqueue(j, FALSE, NoStage) \/ Enqueue(j, TRUE, NoStage)
    \/ Enqueue(j, TRUE, "minutes_generating")
    \/ \E stage \in Active : Retry(j, stage)
    \/ Withdraw(j, "cancelled") \/ Withdraw(j, "interrupted")
    \/ StopAfterStage(j) \/ MarkDraftModified(j) \/ PublishBegin(j)

Publish(j, a) ==
    \/ PublishCommit(j, a) \/ PublishAgain(j, a) \/ PublishWithdrawn(j, a)
    \/ PublishEnd(j, a)

Next ==
    \/ \E w \in Workers : Round(w) \/ Stage(w) \/ Fault(w) \/ Restart(w)
    \/ TakePane \/ LeavePane
    \/ \E j \in Jobs : User(j)
    \/ \E j \in Jobs, a \in Attempts :
          AgentExit(j, a) \/ Callback(j, a) \/ Publish(j, a)

Spec == Init /\ [][Next]_vars

(* The processes run, a daemon that died is started again (docs/install.md *)
(* has it resident), and an agent ends: it is run non-interactively and    *)
(* falls back to the shell by itself (dispatch_to_cc1).  Nothing is        *)
(* assumed of the user, not even that the pane is ever left, nor that a    *)
(* callback comes.                                                         *)
Fairness ==
    /\ \A w \in Workers : WF_vars(Stage(w))
    /\ WF_vars(Round(Watchdog)) /\ WF_vars(Restart(Watchdog))
    /\ \A j \in Jobs, a \in Attempts : WF_vars(AgentExit(j, a))

FairSpec == Spec /\ Fairness

----------------------------------------------------------------------------
(* Safety.                                                                 *)

(* The attempt row of the current attempt has the status of the job, so    *)
(* that no compare-and-swap on it can fail for ever; a draft the workbench *)
(* has edited is the one exception.  Attempts that were retried are closed, *)
(* and no row runs ahead of current_attempt.  (_transition, fail, retry,   *)
(* mark_draft_modified, mark_published change the two tables by hand.)     *)
AttemptRows ==
    \A j \in Jobs : \A n \in Attempts :
        /\ n < attempt[j] => attStatus[j][n] \in Retryable
        /\ n > attempt[j] => attStatus[j][n] = "absent"
        /\ n = attempt[j] =>
             \/ attStatus[j][n] = status[j]
             \/ /\ status[j] = "draft_modified"
                /\ attStatus[j][n] \in {"completed_unreviewed", "published"}

(* An attempt in the queue that nobody holds can be claimed: claim_next    *)
(* skips attempts with a stop request, which nobody would then clear.      *)
QueuedCanBeClaimed ==
    \A j \in Jobs :
        status[j] = "queued" /\ worker[j] = NoWorker => ~stop[j]

(* A published job is published with the archive of its current attempt,   *)
(* and no call for an older attempt that is still validating can change    *)
(* that (the snapshot mark_published compares before it commits).          *)
PublishedIsCurrent ==
    \A j \in Jobs : status[j] = "published" => published[j] = attempt[j]

(* Until its prompt is sent, a process carrying an attempt holds it, in    *)
(* the stage it is working on; the one way to lose it is the late stop of  *)
(* an older attempt's callback, which leaves the attempt interrupted.      *)
Working(step) ==
    CASE step = "source"             -> {"stabilizing", "transcribing"}
      [] step = "check_stable"       -> {"stabilizing"}
      [] step = "admit"              -> {"stabilizing"}
      [] step = "start_transcribing" -> {"queued"}
      [] step = "transcribe"         -> {"transcribing"}
      [] step = "check_transcribed"  -> {"transcript_ready"}
      [] step = "check_reused"       -> {"transcript_ready"}
      [] step = "prepare"            -> {"transcript_ready",
                                         "minutes_generating"}
      [] step = "handoff"            -> {"minutes_generating"}

ClaimIsHeld ==
    \A w \in Workers : pc[w] \in Running \ {"sent", "books"} =>
        \/ Owns(w) /\ status[held[w]] \in Working(pc[w])
        \/ /\ heldAttempt[w] > 1
           /\ attStatus[held[w]][heldAttempt[w]] = "interrupted"

(* A duplicate is cancelled for good, and points at the job that has its   *)
(* recording, which is itself no duplicate; a recording has one job.       *)
DuplicatesPointHome ==
    /\ \A j, k \in Jobs : dedupTo[j] = k =>
          /\ status[j] \in {"cancelled", "failed"}
          /\ keyed[k] /\ dedupTo[k] = NoJob
          /\ Recording[k] = Recording[j]
    /\ \A j, k \in Jobs :
          keyed[j] /\ keyed[k] /\ Recording[j] = Recording[k] => j = k

----------------------------------------------------------------------------
(* What a step may never do.                                               *)

(* The minutes agent is started at most once for an attempt, over crashes, *)
(* lost writes and deferrals: a second run would write into the archive of *)
(* the first (a claim that may have been sent is interrupted, not queued). *)
AgentStartedOnce ==
    [][\A j \in Jobs, n \in Attempts :
          agent[j][n] = "exited" => agent'[j][n] = "exited"]_vars

(* What is published is replaced only by a newer attempt.                  *)
PublishedOnlyAdvances ==
    [][\A j \in Jobs : published'[j] >= published[j]]_vars

----------------------------------------------------------------------------
(* Liveness.                                                               *)

(* No job stays in a working state: it ends, or goes back to the queue.    *)
ActiveEnds ==
    \A j \in Jobs : status[j] \in Active ~> status[j] \notin Active

(* A claim on a job that is still queued and that nobody carries: its      *)
(* process crashed, or lost the database lock, between                     *)
(* record_stage("queued") and the next stage.                              *)
LostInQueue(j) == /\ status[j] = "queued" /\ worker[j] # NoWorker
                  /\ \A w \in Workers : held[w] # j

(* Every queued attempt is eventually worked on or withdrawn, deferrals,   *)
(* the order of the queue and crashes included; only a claim lost in the   *)
(* queue may block it, which recover_orphaned_claims does not look for.    *)
QueuedIsServed ==
    \A j \in Jobs :
        status[j] = "queued" ~> \/ status[j] # "queued"
                               \/ \E k \in Jobs : LostInQueue(k)

(* Both: no job is left in the hands of a process that is gone, once the   *)
(* pane is left for good.  While somebody uses it each round of the daemon *)
(* ends before it serves anything, and moments in which it happens to be   *)
(* free are no help: the daemon looks when its timer tells it to.          *)
EveryJobMoves == <>[]~paneTaken => ActiveEnds /\ QueuedIsServed
=============================================================================
