----------------------------- MODULE QwenShadow -----------------------------
(***************************************************************************)
(* The shadow transcriptions of the workbench (qwen_shadow.py): runs asked *)
(* for by the user, taken one at a time by the loops of the services that  *)
(* share the database, under a lease that a heartbeat thread renews.       *)
(*                                                                         *)
(* A transaction is one step, the steps of run_once between transactions   *)
(* are steps of the owner, and the heartbeat thread of a run is an actor   *)
(* of its own.  Both leases of a run (its row, and the row "qwen_shadow"   *)
(* of runtime_leases) are written with the same time, so they run out      *)
(* together; a claim, a beat, a recovery or a crash may come in between.   *)
(* An owner is one QwenShadowService: its flight lock lets one run_once of *)
(* it go on, which is its pc, and a restarted service is a new owner.      *)
(***************************************************************************)
EXTENDS Naturals, FiniteSets

CONSTANTS
    Owners,           \* services; a restart is a new one
    Meetings,
    None,             \* no owner, no run
    MaxRuns,          \* bound: runs asked for
    MaxAudioChanges,  \* bound: times the audio of a meeting is replaced
    MaxCrashes,       \* bound: ends of a service
    MaxErrors,        \* bound: transactions that fail
    MaxStalls         \* bound: leases that run out under a working owner

(* Run ids, drawn in the order of created_at.                              *)
Runs == 1 .. MaxRuns

ASSUME QwenAssumption ==
    /\ None \notin Owners \cup Runs \cup Meetings
    /\ {MaxRuns, MaxAudioChanges, MaxCrashes, MaxErrors, MaxStalls} \subseteq Nat

VARIABLES
    runs,             \* asr_shadow_runs
    worker,           \* the row "qwen_shadow" of runtime_leases
    audio,            \* content of the recording of a meeting
    versions,         \* transcript versions of kind qwen_reference
    pc, current,      \* of an owner: where run_once is, and its run
    heard,            \* of an owner: the audio Qwen read
    beats,            \* heartbeat threads: <<owner, run>>
    leaseLost,        \* the event set by the heartbeat of the current run
    crashes, errors, stalls

rows   == <<runs, worker>>
local  == <<pc, current, heard>>
faults == <<crashes, errors, stalls>>
vars   == <<rows, audio, versions, local, beats, leaseLost, faults>>

Ended == {"ready", "failed", "unavailable"}
Leases == {"none", "live", "over"}
NoRun == [state |-> "none", meeting |-> None, audio |-> 0, owner |-> None, lease |-> "none"]
NoLease == [owner |-> None, run |-> None, lease |-> "none"]
Working == {"claimed", "reading", "read", "stopped", "parsed", "failing"}

Init ==
    /\ runs = [r \in Runs |-> NoRun]
    /\ worker = NoLease
    /\ audio = [m \in Meetings |-> 0]
    /\ versions = {}
    /\ pc = [o \in Owners |-> "idle"]
    /\ current = [o \in Owners |-> None]
    /\ heard = [o \in Owners |-> 0]
    /\ beats = {}
    /\ leaseLost = [o \in Owners |-> FALSE]
    /\ crashes = 0 /\ errors = 0 /\ stalls = 0

-----------------------------------------------------------------------------
(* Requests of the user, and the recording they are about.                 *)

Active(m) == {r \in Runs : runs[r].meeting = m /\ runs[r].state \in {"queued", "running"}}
NextId == {r \in Runs : runs[r].state = "none" /\ \A q \in 1 .. r - 1 : runs[q].state # "none"}

(* request and retry: an active run of the meeting is returned as it is.   *)
(* The recording was hashed, and the program looked for, before the        *)
(* transaction: the hash may be of what the recording was then.            *)
Request(m) ==
    /\ Active(m) = {}
    /\ \E r \in NextId, available \in BOOLEAN, hash \in 0 .. audio[m] :
        runs' = [runs EXCEPT ![r] =
            [NoRun EXCEPT !.state = IF available THEN "queued" ELSE "unavailable",
                          !.meeting = m, !.audio = hash]]
    /\ UNCHANGED <<worker, audio, versions, local, beats, leaseLost, faults>>

(* The recording is replaced by another one.                               *)
ChangeAudio(m) ==
    /\ audio[m] < MaxAudioChanges
    /\ audio' = [audio EXCEPT ![m] = @ + 1]
    /\ UNCHANGED <<rows, versions, local, beats, leaseLost, faults>>

-----------------------------------------------------------------------------
(* Leases.                                                                 *)

(* Mutant: only a run without any lease counts as an orphan.             *)
OrphanedByHand == {r \in Runs : runs[r].state = "running" /\ runs[r].lease = "none"}

Orphaned == {r \in Runs : runs[r].state = "running" /\ runs[r].lease # "live"}

Requeued(r) == [runs[r] EXCEPT !.state = "queued", !.owner = None, !.lease = "none"]

(* Whose lease the worker row mirrors: a run of its owner, not run out.    *)
HeldBy(w, table) ==
    \E r \in Runs : /\ r = w.run /\ table[r].state = "running"
                    /\ table[r].owner = w.owner /\ table[r].lease = "live"

(* recover_orphaned, by a service that starts or before it claims.         *)
Recovery ==
    LET table == [r \in Runs |-> IF r \in Orphaned THEN Requeued(r) ELSE runs[r]] IN
    /\ runs' = table
    /\ worker' = IF \/ worker.run \in Orphaned
                    \/ worker.lease = "over" /\ ~HeldBy(worker, table)
                 THEN NoLease ELSE worker

(* A lease runs out once its owner has gone or its beats have stopped, or  *)
(* (the machine slept, the database was locked) while it works.            *)
LeaseEnds(r) ==
    LET busy == \E o \in Owners : current[o] = r /\ runs[r].owner = o IN
    /\ \/ runs[r].lease = "live"
       \/ worker.run = r /\ worker.lease = "live"
    /\ stalls' = IF busy THEN stalls + 1 ELSE stalls
    /\ stalls' <= MaxStalls
    /\ runs' = [runs EXCEPT ![r].lease = IF @ = "live" THEN "over" ELSE @]
    /\ worker' = IF worker.run = r THEN [worker EXCEPT !.lease = "over"] ELSE worker
    /\ UNCHANGED <<audio, versions, local, beats, leaseLost, crashes, errors>>

Owned(o, r) == runs[r].state = "running" /\ runs[r].owner = o
WorkerIs(o, r) == worker.owner = o /\ worker.run = r

(* Its heartbeat has not been told to stop.                                *)
Watched(o, r) == current[o] = r /\ pc[o] \in {"reading", "read"}

(* One turn of _heartbeat_loop.  It renews a lease that has run out, if    *)
(* nobody recovered the run; it ends when the lease is lost, the transaction *)
(* fails or it was told to stop meanwhile.                                 *)
Beat(o, r) ==
    /\ <<o, r>> \in beats
    /\ \/ /\ Owned(o, r) /\ WorkerIs(o, r)
          /\ runs' = [runs EXCEPT ![r].lease = "live"]
          /\ worker' = [worker EXCEPT !.lease = "live"]
          /\ beats' = IF Watched(o, r) THEN beats ELSE beats \ {<<o, r>>}
          /\ UNCHANGED <<leaseLost, faults>>
       \/ /\ \/ ~(Owned(o, r) /\ WorkerIs(o, r)) /\ UNCHANGED errors
             \/ errors < MaxErrors /\ errors' = errors + 1
          /\ beats' = beats \ {<<o, r>>}
          /\ leaseLost' = IF current[o] = r THEN [leaseLost EXCEPT ![o] = TRUE]
                          ELSE leaseLost
          /\ UNCHANGED <<rows, crashes, stalls>>
    /\ UNCHANGED <<audio, versions, local>>

(* A thread that outlived the join of a stopped heartbeat ends.            *)
BeatStops(o, r) ==
    /\ <<o, r>> \in beats /\ ~Watched(o, r)
    /\ beats' = beats \ {<<o, r>>}
    /\ UNCHANGED <<rows, audio, versions, local, leaseLost, faults>>

-----------------------------------------------------------------------------
(* run_once of an owner.                                                   *)

Goto(o, step) == pc' = [pc EXCEPT ![o] = step]

(* lifespan does the same once when a service starts.                      *)
Recover(o) ==
    /\ pc[o] = "idle"
    /\ Recovery
    /\ Goto(o, "recovered")
    /\ UNCHANGED <<audio, versions, current, heard, beats, leaseLost, faults>>

(* While the relay transcribes (or cannot be asked) nothing is claimed.    *)
RelayBusy(o) ==
    /\ pc[o] = "recovered"
    /\ Goto(o, "idle")
    /\ UNCHANGED <<rows, audio, versions, current, heard, beats, leaseLost, faults>>

Queued == {r \in Runs : runs[r].state = "queued"}
Oldest == {r \in Queued : \A q \in Queued : r <= q}
Claimable == worker = NoLease /\ \A r \in Runs : runs[r].state # "running"

(* The relay transcribes nothing: _claim_next takes both leases of the     *)
(* oldest run in one transaction.                                          *)
Claim(o) ==
    /\ pc[o] = "recovered"
    /\ IF Claimable /\ Queued # {}
       THEN \E r \in Oldest :
            /\ runs' = [runs EXCEPT ![r].state = "running", ![r].owner = o, ![r].lease = "live"]
            /\ worker' = [owner |-> o, run |-> r, lease |-> "live"]
            /\ current' = [current EXCEPT ![o] = r]
            /\ Goto(o, "claimed")
       ELSE Goto(o, "idle") /\ UNCHANGED <<rows, current>>
    /\ UNCHANGED <<audio, versions, heard, beats, leaseLost, faults>>

(* Mutant: a failure always drops the worker row.                          *)
MarkedWorkerToo(o, state) ==
    /\ runs' = IF Owned(o, current[o])
               THEN [runs EXCEPT ![current[o]].state = state, ![current[o]].owner = None,
                                 ![current[o]].lease = "none"]
               ELSE runs
    /\ worker' = NoLease

(* _mark_failed, then the end of run_once; the guards leave a run that     *)
(* went to another owner alone.                                            *)
Marked(o, state) ==
    LET r == current[o] IN
    /\ runs' = IF Owned(o, r)
               THEN [runs EXCEPT ![r].state = state, ![r].owner = None, ![r].lease = "none"]
               ELSE runs
    /\ worker' = IF WorkerIs(o, r) THEN NoLease ELSE worker

Leave(o) ==
    /\ Goto(o, "idle")
    /\ current' = [current EXCEPT ![o] = None]
    /\ heard' = [heard EXCEPT ![o] = 0]
    /\ leaseLost' = [leaseLost EXCEPT ![o] = FALSE]

(* The program is missing when the claimed run is to start.                *)
Unavailable(o) ==
    /\ pc[o] = "claimed"
    /\ Marked(o, "unavailable")
    /\ Leave(o)
    /\ UNCHANGED <<audio, versions, beats, faults>>

(* The audio is hashed, and Qwen starts if it is what the user asked for.  *)
Check(o) ==
    LET r == current[o] IN
    /\ pc[o] = "claimed"
    /\ IF audio[runs[r].meeting] = runs[r].audio
       THEN Goto(o, "reading") /\ beats' = beats \cup {<<o, r>>}
       ELSE Goto(o, "failing") /\ UNCHANGED beats
    /\ UNCHANGED <<rows, audio, versions, current, heard, leaseLost, faults>>

(* Qwen reads the recording at some moment of the run.                     *)
Read(o) ==
    /\ pc[o] = "reading"
    /\ heard' = [heard EXCEPT ![o] = audio[runs[current[o]].meeting]]
    /\ Goto(o, "read")
    /\ UNCHANGED <<rows, audio, versions, current, beats, leaseLost, faults>>

(* Qwen ended or timed out: the audio is hashed again and the heartbeat    *)
(* stopped; a thread that does not end within the join goes on for a while.*)
Finish(o) ==
    /\ pc[o] = "read"
    /\ \/ beats' = beats \ {<<o, current[o]>>}
       \/ UNCHANGED beats
    /\ \/ Goto(o, "failing")
       \/ audio[runs[current[o]].meeting] = runs[current[o]].audio /\ Goto(o, "stopped")
    /\ UNCHANGED <<rows, audio, versions, current, heard, leaseLost, faults>>

(* The lease is looked at, then the result, which may be of no use.        *)
LookAtResult(o) ==
    /\ pc[o] = "stopped"
    /\ IF leaseLost[o] THEN Leave(o)
       ELSE UNCHANGED <<current, heard, leaseLost>> /\ (Goto(o, "parsed") \/ Goto(o, "failing"))
    /\ UNCHANGED <<rows, audio, versions, beats, faults>>

(* Mutant: the rows are not read again in the last transaction.            *)
NoLossSeen(o) == ~leaseLost[o]

StillOwner(o) ==
    LET r == current[o] IN
    /\ Owned(o, r) /\ runs[r].lease = "live"
    /\ WorkerIs(o, r) /\ worker.lease = "live"

Result(o) == [run |-> current[o], by |-> o, audio |-> heard[o]]

(* The version, its segments and the end of the run in one transaction.    *)
Publish(o) ==
    LET r == current[o] IN
    /\ pc[o] = "parsed"
    /\ StillOwner(o)
    /\ versions' = versions \cup {Result(o)}
    /\ runs' = [runs EXCEPT ![r].state = "ready", ![r].owner = None, ![r].lease = "none"]
    /\ worker' = NoLease
    /\ Leave(o)
    /\ UNCHANGED <<audio, beats, faults>>

(* The lease was lost: the run is left to whoever has it.                  *)
GiveUp(o) ==
    /\ pc[o] = "parsed"
    /\ ~StillOwner(o)
    /\ Leave(o)
    /\ UNCHANGED <<rows, audio, versions, beats, faults>>

PublishFails(o) ==
    /\ pc[o] = "parsed"
    /\ errors < MaxErrors /\ errors' = errors + 1
    /\ Goto(o, "failing")
    /\ UNCHANGED <<rows, audio, versions, current, heard, beats, leaseLost, crashes, stalls>>

MarkFailed(o) ==
    /\ pc[o] = "failing"
    /\ Marked(o, "failed")
    /\ Leave(o)
    /\ UNCHANGED <<audio, versions, beats, faults>>

(* The run stays "running" until its lease has run out.                    *)
MarkFails(o) ==
    /\ pc[o] \in {"claimed", "failing"}
    /\ errors < MaxErrors /\ errors' = errors + 1
    /\ Leave(o)
    /\ UNCHANGED <<rows, audio, versions, beats, crashes, stalls>>

(* The process ends, with its threads.                                     *)
Crash(o) ==
    /\ pc[o] # "gone"
    /\ crashes < MaxCrashes /\ crashes' = crashes + 1
    /\ Goto(o, "gone")
    /\ current' = [current EXCEPT ![o] = None]
    /\ heard' = [heard EXCEPT ![o] = 0]
    /\ leaseLost' = [leaseLost EXCEPT ![o] = FALSE]
    /\ beats' = {b \in beats : b[1] # o}
    /\ UNCHANGED <<rows, audio, versions, errors, stalls>>

-----------------------------------------------------------------------------
RunOnce(o) ==
    \/ Recover(o) \/ Claim(o) \/ Check(o) \/ Read(o)
    \/ Finish(o) \/ LookAtResult(o) \/ Publish(o) \/ GiveUp(o) \/ MarkFailed(o)

Next ==
    \/ \E o \in Owners :
        \/ RunOnce(o) \/ RelayBusy(o) \/ Unavailable(o)
        \/ PublishFails(o) \/ MarkFails(o) \/ Crash(o)
        \/ \E r \in Runs : Beat(o, r) \/ BeatStops(o, r)
    \/ \E m \in Meetings : Request(m) \/ ChangeAudio(m)
    \/ \E r \in Runs : LeaseEnds(r)

Spec == Init /\ [][Next]_vars

(* The loop of a service goes on; the relay is found idle again and again  *)
(* when it is asked; a lease nobody renews runs out.                       *)
FairSpec ==
    /\ Spec
    /\ \A o \in Owners : WF_vars(RunOnce(o)) /\ SF_vars(Claim(o))
    /\ \A r \in Runs : WF_vars(LeaseEnds(r))

-----------------------------------------------------------------------------
TypeOK ==
    /\ runs \in [Runs -> [state : {"none", "queued", "running"} \cup Ended,
                          meeting : Meetings \cup {None}, audio : 0 .. MaxAudioChanges,
                          owner : Owners \cup {None}, lease : Leases]]
    /\ worker \in [owner : Owners \cup {None}, run : Runs \cup {None}, lease : Leases]
    /\ audio \in [Meetings -> 0 .. MaxAudioChanges]
    /\ versions \subseteq [run : Runs, by : Owners, audio : 0 .. MaxAudioChanges]
    /\ pc \in [Owners -> {"idle", "recovered", "gone"} \cup Working]
    /\ current \in [Owners -> Runs \cup {None}]
    /\ \A o \in Owners : current[o] # None <=> pc[o] \in Working
    /\ heard \in [Owners -> 0 .. MaxAudioChanges]
    /\ beats \subseteq Owners \X Runs
    /\ leaseLost \in [Owners -> BOOLEAN]
    /\ crashes \in 0 .. MaxCrashes /\ errors \in 0 .. MaxErrors /\ stalls \in 0 .. MaxStalls

(* The two leases tell the same story through late beats, late failures    *)
(* and recoveries by another service: one run is running at most, and the  *)
(* worker row is there exactly while it is, with its owner and its time.   *)
(* (And every variable is of its type.)                                    *)
LeasesAgree ==
    /\ TypeOK
    /\ \A r \in Runs : runs[r].state = "running" =>
        worker = [owner |-> runs[r].owner, run |-> r, lease |-> runs[r].lease]
    /\ worker # NoLease => /\ worker.run \in Runs
                           /\ runs[worker.run].state = "running"

(* A run has a transcript exactly when it is ready, one only, and it is of *)
(* the recording the user asked for, however often the run changed hands   *)
(* and the recording was replaced meanwhile.                               *)
ReadyHasItsTranscript ==
    \A r \in Runs :
        LET made == {v \in versions : v.run = r} IN
        /\ runs[r].state = "ready" <=> made # {}
        /\ Cardinality(made) <= 1
        /\ \A v \in made : v.audio = runs[r].audio

(* Every run asked for ends, whatever crashes, fails or stalls a bounded   *)
(* number of times, as long as one service is left: no lease of a service  *)
(* that is gone, of a finished run or of a failed bookkeeping bars the     *)
(* queue for ever.                                                         *)
RequestsEnd ==
    \A r \in Runs : runs[r].state = "queued" ~> runs[r].state \in Ended
=============================================================================
