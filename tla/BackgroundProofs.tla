-------------------------- MODULE BackgroundProofs --------------------------
(***************************************************************************)
(* Theorems about what the workbench does in the background.               *)
(*                                                                         *)
(* QwenShadow, for every number of services, meetings and runs, and        *)
(* however often a service crashes, a transaction fails, a lease runs out  *)
(* under its owner or a recording is replaced.  Then Glossary, for every   *)
(* number of threads, terms, suggestions, spellings and passes.            *)
(***************************************************************************)
EXTENDS QwenShadow, Glossary, FiniteSetTheorems, TLAPS

RunRow == [state : {"none", "queued", "running"} \cup Ended,
           meeting : Meetings \cup {None}, audio : 0 .. MaxAudioChanges,
           owner : Owners \cup {None}, lease : Leases]
WorkerRow == [owner : Owners \cup {None}, run : Runs \cup {None},
              lease : Leases]

(* The rows of the database agree; the part of LeasesAgree they make up.   *)
Agree ==
    /\ \A r \in Runs : runs[r].state = "running" =>
        worker = [owner |-> runs[r].owner, run |-> r, lease |-> runs[r].lease]
    /\ worker # NoLease => /\ worker.run \in Runs
                           /\ runs[worker.run].state = "running"
RowsAgree ==
    /\ runs \in [Runs -> RunRow] /\ worker \in WorkerRow
    /\ Agree

(* A run that was asked for is of a meeting, and an owner's run was asked  *)
(* for.                                                                    *)
Asked ==
    /\ \A r \in Runs : runs[r].state # "none" => runs[r].meeting \in Meetings
    /\ \A o \in Owners : current[o] # None => runs[current[o]].state # "none"

(* What Qwen read lies between what was asked for and what the recording   *)
(* is now (its contents are numbered as they come); once the audio was     *)
(* hashed again and found unchanged, it is what was asked for.             *)
HeardAsked ==
    \A o \in Owners :
        LET row == runs[current[o]] IN
        /\ pc[o] = "reading" => row.audio <= audio[row.meeting]
        /\ pc[o] = "read" =>
              row.audio <= heard[o] /\ heard[o] <= audio[row.meeting]
        /\ pc[o] \in {"stopped", "parsed"} => heard[o] = row.audio

Transcripts ==
    /\ \A r \in Runs :
         runs[r].state = "ready" <=> \E v \in versions : v.run = r
    /\ \A v, w \in versions : v.run = w.run => v = w
    /\ \A v \in versions : v.audio = runs[v.run].audio

Inv == TypeOK /\ Agree /\ Asked /\ HeardAsked /\ Transcripts

-----------------------------------------------------------------------------
(* The rows, one kind of transaction at a time.  What a request said of    *)
(* its run stays as it is.                                                 *)

SameRequest(r) ==
    /\ runs[r].state # "none" =>
          /\ runs'[r].state # "none"
          /\ runs'[r].meeting = runs[r].meeting
          /\ runs'[r].audio = runs[r].audio
    /\ runs[r].state = "none" /\ runs'[r].state # "none" =>
          runs'[r].meeting \in Meetings
    /\ runs'[r].state = "ready" <=> runs[r].state = "ready"

RowsKept ==
    RowsAgree' /\ \A r \in Runs : SameRequest(r)

LEMMA RequestRows ==
  ASSUME TypeOK, Agree, NEW m \in Meetings, Request(m)
  PROVE  RowsKept
<1>1. PICK r \in NextId, available \in BOOLEAN, hash \in 0 .. audio[m] :
        runs' = [runs EXCEPT ![r] =
            [NoRun EXCEPT !.state = IF available THEN "queued"
                                    ELSE "unavailable",
                          !.meeting = m, !.audio = hash]]
  BY DEF Request
<1>2. r \in Runs /\ runs[r].state = "none" /\ worker' = worker
  BY DEF NextId, Request
<1> DEFINE row == [NoRun EXCEPT
                     !.state = IF available THEN "queued" ELSE "unavailable",
                     !.meeting = m, !.audio = hash]
<1>3. audio[m] \in 0 .. MaxAudioChanges
  BY DEF TypeOK
<1>4. hash \in 0 .. MaxAudioChanges
  BY <1>3, QwenAssumption
<1>5. row \in RunRow /\ row.state \in {"queued", "unavailable"}
      /\ row.meeting = m
  BY <1>4 DEF NoRun, RunRow, Ended, Leases
<1>6. runs' \in [Runs -> RunRow] /\ runs'[r] = row
      /\ \A q \in Runs : q # r => runs'[q] = runs[q]
  BY <1>1, <1>2, <1>5 DEF TypeOK, RunRow
<1>7. Agree'
  BY <1>2, <1>5, <1>6 DEF Agree
<1> HIDE DEF row
<1> QED BY <1>2, <1>5, <1>6, <1>7
        DEF RowsKept, RowsAgree, SameRequest, TypeOK, WorkerRow

LEMMA RecoveryRows ==
  ASSUME TypeOK, Agree, Recovery
  PROVE  RowsKept
<1> DEFINE table == [r \in Runs |-> IF r \in Orphaned THEN Requeued(r)
                                    ELSE runs[r]]
<1>1. runs' = table
      /\ worker' = IF \/ worker.run \in Orphaned
                      \/ worker.lease = "over" /\ ~HeldBy(worker, table)
                   THEN NoLease ELSE worker
  BY DEF Recovery
<1>2. ASSUME NEW r \in Runs
      PROVE  /\ runs'[r] \in RunRow
             /\ SameRequest(r)
             /\ r \in Orphaned => runs'[r].state = "queued"
             /\ r \notin Orphaned => runs'[r] = runs[r]
  <2>1. runs[r] \in RunRow
    BY DEF TypeOK, RunRow
  <2>2. CASE r \in Orphaned
    <3>1. runs'[r] = [runs[r] EXCEPT !.state = "queued", !.owner = None,
                                     !.lease = "none"]
          /\ runs[r].state = "running"
      BY <1>1, <2>2 DEF Requeued, Orphaned
    <3>2. "none" \in Leases
      BY DEF Leases
    <3>3. /\ runs'[r] \in RunRow /\ runs'[r].state = "queued"
          /\ runs'[r].meeting = runs[r].meeting
          /\ runs'[r].audio = runs[r].audio
      BY <2>1, <3>1, <3>2 DEF RunRow
    <3> QED BY <2>2, <3>1, <3>3 DEF SameRequest
  <2>3. CASE r \notin Orphaned
    BY <1>1, <2>1, <2>3 DEF SameRequest
  <2> QED BY <2>2, <2>3
<1>3. runs' \in [Runs -> RunRow]
  BY <1>1, <1>2
<1>4. NoLease \in WorkerRow
  BY DEF NoLease, WorkerRow, Leases
<1>5. worker' \in WorkerRow
  BY <1>1, <1>4 DEF TypeOK, WorkerRow
<1>6. ASSUME NEW r \in Runs, runs'[r].state = "running"
      PROVE  worker' = [owner |-> runs'[r].owner, run |-> r,
                        lease |-> runs'[r].lease]
  <2>1. r \notin Orphaned /\ runs'[r] = runs[r]
    BY <1>2, <1>6
  <2>2. runs[r].lease = "live"
    BY <1>6, <2>1 DEF Orphaned
  <2>3. worker = [owner |-> runs[r].owner, run |-> r, lease |-> runs[r].lease]
    BY <1>6, <2>1 DEF Agree
  <2>4. worker.run = r /\ worker.lease = "live"
    BY <2>2, <2>3
  <2> QED BY <1>1, <2>1, <2>3, <2>4
<1>7. ASSUME worker' # NoLease
      PROVE  worker'.run \in Runs /\ runs'[worker'.run].state = "running"
  <2>1. worker' = worker /\ worker.run \notin Orphaned
    BY <1>1, <1>7
  <2>2. worker.run \in Runs /\ runs[worker.run].state = "running"
    BY <1>7, <2>1 DEF Agree
  <2> QED BY <1>2, <2>1, <2>2
<1> QED BY <1>2, <1>3, <1>5, <1>6, <1>7 DEF RowsKept, RowsAgree, Agree

(* One row changes; no other run is running before or after.               *)
LEMMA ClaimRows ==
  ASSUME TypeOK, Agree, NEW o \in Owners, Claim(o)
  PROVE  RowsKept
<1>1. CASE UNCHANGED rows
  BY <1>1 DEF rows, RowsKept, RowsAgree, Agree, SameRequest, TypeOK, RunRow,
              WorkerRow
<1>2. ASSUME NEW r \in Oldest, Claimable,
             runs' = [runs EXCEPT ![r].state = "running", ![r].owner = o,
                                  ![r].lease = "live"],
             worker' = [owner |-> o, run |-> r, lease |-> "live"]
      PROVE  RowsKept
  <2>1. r \in Runs /\ runs[r].state = "queued"
        /\ \A q \in Runs : runs[q].state # "running"
    BY <1>2 DEF Oldest, Queued, Claimable
  <2>2. /\ \A q \in Runs : q # r => runs'[q] = runs[q]
        /\ runs'[r] = [runs[r] EXCEPT !.state = "running", !.owner = o,
                                      !.lease = "live"]
    BY <1>2, <2>1 DEF TypeOK
  <2>3. runs'[r] \in RunRow /\ runs'[r].state = "running"
        /\ runs'[r].owner = o /\ runs'[r].lease = "live" /\ SameRequest(r)
    <3>1. runs[r] \in RunRow /\ "live" \in Leases
      BY <2>1 DEF TypeOK, RunRow, Leases
    <3>2. /\ runs'[r] \in RunRow /\ runs'[r].state = "running"
          /\ runs'[r].owner = o /\ runs'[r].lease = "live"
          /\ runs'[r].meeting = runs[r].meeting
          /\ runs'[r].audio = runs[r].audio
      BY <2>2, <3>1 DEF RunRow
    <3> QED BY <2>1, <3>2 DEF SameRequest
  <2>4. runs' \in [Runs -> RunRow]
    BY <1>2, <2>1, <2>2, <2>3 DEF TypeOK, RunRow
  <2>5. worker' \in WorkerRow /\ worker'.run = r
    BY <1>2, <2>1 DEF WorkerRow, Leases
  <2>6. Agree'
    BY <1>2, <2>1, <2>2, <2>3, <2>5 DEF Agree
  <2> QED BY <2>2, <2>3, <2>4, <2>5, <2>6 DEF RowsKept, RowsAgree, SameRequest
<1> QED BY <1>1, <1>2 DEF Claim

LEMMA LeaseEndsRows ==
  ASSUME TypeOK, Agree, NEW r \in Runs, LeaseEnds(r)
  PROVE  RowsKept
<1>1. /\ \A q \in Runs : q # r => runs'[q] = runs[q]
      /\ runs'[r] = [runs[r] EXCEPT
                       !.lease = IF @ = "live" THEN "over" ELSE @]
      /\ worker' = IF worker.run = r THEN [worker EXCEPT !.lease = "over"]
                   ELSE worker
  BY DEF LeaseEnds, TypeOK
<1>2. runs'[r] \in RunRow /\ SameRequest(r) /\ runs'[r].state = runs[r].state
      /\ runs'[r].owner = runs[r].owner
      /\ runs'[r].lease = IF runs[r].lease = "live" THEN "over"
                          ELSE runs[r].lease
  BY <1>1 DEF TypeOK, RunRow, Leases, SameRequest
<1>3. runs' \in [Runs -> RunRow]
  BY <1>1, <1>2 DEF LeaseEnds, TypeOK, RunRow
<1>4. /\ worker' \in WorkerRow /\ worker'.run = worker.run
      /\ worker'.owner = worker.owner
      /\ worker.run # r => worker' = worker
      /\ worker.run = r => worker'.lease = "over"
  BY <1>1 DEF TypeOK, WorkerRow, Leases
<1>5. ASSUME NEW q \in Runs, runs'[q].state = "running"
      PROVE  worker' = [owner |-> runs'[q].owner, run |-> q,
                        lease |-> runs'[q].lease]
  <2>1. runs[q].state = "running"
    BY <1>1, <1>2, <1>5
  <2>2. worker = [owner |-> runs[q].owner, run |-> q, lease |-> runs[q].lease]
    BY <2>1 DEF Agree
  <2>3. CASE q = r
    <3>1. worker.run = r /\ worker.owner = runs[r].owner
          /\ worker.lease = runs[r].lease
      BY <2>2, <2>3
    <3>2. runs[r].lease = "live"
      BY <3>1 DEF LeaseEnds
    <3>3. worker'.owner = runs'[r].owner /\ worker'.run = r
          /\ worker'.lease = "over" /\ runs'[r].lease = "over"
      BY <1>2, <1>4, <3>1, <3>2
    <3> QED BY <1>4, <2>3, <3>3 DEF WorkerRow
  <2>4. CASE q # r
    BY <1>1, <1>4, <2>2, <2>4
  <2> QED BY <2>3, <2>4
<1>6. ASSUME worker' # NoLease
      PROVE  worker'.run \in Runs /\ runs'[worker'.run].state = "running"
  <2>1. worker # NoLease
    BY <1>4, <1>6, QwenAssumption DEF NoLease
  <2> QED BY <1>1, <1>2, <1>4, <2>1 DEF Agree
<1> QED BY <1>1, <1>2, <1>3, <1>4, <1>5, <1>6
        DEF RowsKept, RowsAgree, Agree, SameRequest

(* A beat renews what its owner still has, or writes nothing.              *)
LEMMA BeatRows ==
  ASSUME TypeOK, Agree, NEW o \in Owners, NEW r \in Runs, Beat(o, r)
  PROVE  RowsKept
<1>1. CASE UNCHANGED rows
  BY <1>1 DEF rows, RowsKept, RowsAgree, Agree, SameRequest, TypeOK, RunRow,
              WorkerRow
<1>2. ASSUME Owned(o, r), WorkerIs(o, r),
             runs' = [runs EXCEPT ![r].lease = "live"],
             worker' = [worker EXCEPT !.lease = "live"]
      PROVE  RowsKept
  <2>1. /\ \A q \in Runs : q # r => runs'[q] = runs[q]
        /\ runs'[r] = [runs[r] EXCEPT !.lease = "live"]
    BY <1>2 DEF TypeOK
  <2>2. runs'[r] \in RunRow /\ SameRequest(r) /\ runs'[r].state = "running"
        /\ runs'[r].owner = o /\ runs'[r].lease = "live"
    <3>1. runs[r] \in RunRow /\ "live" \in Leases
      BY DEF TypeOK, RunRow, Leases
    <3>2. runs[r].state = "running" /\ runs[r].owner = o
      BY <1>2 DEF Owned
    <3>3. /\ runs'[r] \in RunRow /\ runs'[r].state = runs[r].state
          /\ runs'[r].owner = runs[r].owner /\ runs'[r].lease = "live"
          /\ runs'[r].meeting = runs[r].meeting
          /\ runs'[r].audio = runs[r].audio
      BY <2>1, <3>1 DEF RunRow
    <3> QED BY <3>2, <3>3 DEF SameRequest
  <2>3. runs' \in [Runs -> RunRow]
    BY <1>2, <2>1, <2>2 DEF TypeOK, RunRow
  <2>4. worker' \in WorkerRow
        /\ worker' = [owner |-> o, run |-> r, lease |-> "live"]
    BY <1>2 DEF TypeOK, WorkerRow, Leases, WorkerIs
  <2>5. \A q \in Runs : runs[q].state = "running" => q = r
    BY <1>2 DEF Agree, WorkerIs
  <2>6. Agree'
    BY <2>1, <2>2, <2>4, <2>5 DEF Agree
  <2> QED BY <2>1, <2>2, <2>3, <2>4, <2>6 DEF RowsKept, RowsAgree, SameRequest
<1> QED BY <1>1, <1>2 DEF Beat

(* The end of a run: by its owner, and then the worker row is of that run. *)
Ends(o, r, state) ==
    /\ runs' = [runs EXCEPT ![r].state = state, ![r].owner = None,
                            ![r].lease = "none"]
    /\ worker' = NoLease

LEMMA EndsRows ==
  ASSUME TypeOK, Agree, NEW o \in Owners, NEW r \in Runs, Owned(o, r),
         NEW state \in Ended, Ends(o, r, state)
  PROVE  /\ RowsAgree'
         /\ \A q \in Runs : q # r => SameRequest(q)
         /\ runs'[r].state = state
         /\ runs'[r].meeting = runs[r].meeting
         /\ runs'[r].audio = runs[r].audio
<1>1. /\ \A q \in Runs : q # r => runs'[q] = runs[q]
      /\ runs'[r] = [runs[r] EXCEPT !.state = state, !.owner = None,
                                    !.lease = "none"]
  BY DEF Ends, TypeOK
<1>2. runs'[r] \in RunRow /\ runs'[r].state = state
      /\ runs'[r].meeting = runs[r].meeting /\ runs'[r].audio = runs[r].audio
  <2>1. runs[r] \in RunRow /\ "none" \in Leases
    BY DEF TypeOK, RunRow, Leases
  <2> QED BY <1>1, <2>1 DEF RunRow
<1>3. runs' \in [Runs -> RunRow]
  BY <1>1, <1>2 DEF Ends, TypeOK, RunRow
<1>4. \A q \in Runs : runs[q].state = "running" => q = r
  <2>1. worker.run = r
    BY DEF Agree, Owned
  <2> QED BY <2>1 DEF Agree
<1>5. worker' = NoLease /\ worker' \in WorkerRow
  BY DEF Ends, NoLease, WorkerRow, Leases
<1>6. Agree'
  BY <1>1, <1>2, <1>4, <1>5 DEF Agree, Ended
<1> QED BY <1>1, <1>2, <1>3, <1>5, <1>6 DEF RowsAgree, SameRequest

LEMMA MarkedRows ==
  ASSUME TypeOK, Agree, NEW o \in Owners, current[o] \in Runs,
         NEW state \in {"failed", "unavailable"}, Marked(o, state)
  PROVE  RowsKept
<1> DEFINE r == current[o]
<1>1. CASE Owned(o, r)
  <2>1. WorkerIs(o, r)
    BY <1>1 DEF Owned, WorkerIs, Agree
  <2>2. Ends(o, r, state)
    BY <1>1, <2>1 DEF Marked, Ends
  <2>3. state \in Ended
    BY DEF Ended
  <2>4. SameRequest(r)
    BY <1>1, <2>2, <2>3, EndsRows DEF SameRequest, Owned
  <2> QED BY <1>1, <2>2, <2>3, <2>4, EndsRows DEF RowsKept
<1>2. CASE ~Owned(o, r)
  <2>1. ~WorkerIs(o, r)
    <3> SUFFICES ASSUME WorkerIs(o, r) PROVE FALSE
      OBVIOUS
    <3>1. worker # NoLease
      BY QwenAssumption DEF WorkerIs, NoLease
    <3>2. runs[r].state = "running"
      BY <3>1 DEF Agree, WorkerIs
    <3>3. worker.owner = runs[r].owner
      BY <3>2 DEF Agree
    <3> QED BY <1>2, <3>2, <3>3 DEF Owned, WorkerIs
  <2>2. UNCHANGED rows
    BY <1>2, <2>1 DEF Marked, rows
  <2> QED BY <2>2 DEF rows, RowsKept, RowsAgree, Agree, SameRequest, TypeOK,
                      RunRow, WorkerRow
<1> QED BY <1>1, <1>2

LEMMA PublishRows ==
  ASSUME TypeOK, Agree, NEW o \in Owners, current[o] \in Runs, Publish(o)
  PROVE  /\ RowsAgree'
         /\ \A q \in Runs : q # current[o] => SameRequest(q)
         /\ runs[current[o]].state = "running"
         /\ runs'[current[o]].state = "ready"
         /\ runs'[current[o]].meeting = runs[current[o]].meeting
         /\ runs'[current[o]].audio = runs[current[o]].audio
<1>1. Owned(o, current[o]) /\ Ends(o, current[o], "ready") /\ "ready" \in Ended
  BY DEF Publish, StillOwner, Ends, Ended
<1> QED BY <1>1, EndsRows DEF Owned

(* Every step: the rows go on agreeing, runs keep what was asked for, and  *)
(* only a publication makes one ready.                                     *)
LEMMA RowsStep ==
  ASSUME TypeOK, Agree, [Next]_vars
  PROVE  /\ RowsAgree'
         /\ \A r \in Runs :
              /\ runs[r].state # "none" =>
                    /\ runs'[r].state # "none"
                    /\ runs'[r].meeting = runs[r].meeting
                    /\ runs'[r].audio = runs[r].audio
              /\ runs[r].state = "none" /\ runs'[r].state # "none" =>
                    runs'[r].meeting \in Meetings
         /\ (\A o \in Owners : ~Publish(o)) => RowsKept
<1>1. CASE UNCHANGED rows
  <2>1. RowsKept
    BY <1>1 DEF rows, RowsKept, RowsAgree, Agree, SameRequest, TypeOK, RunRow,
                WorkerRow
  <2> QED BY <2>1 DEF RowsKept, SameRequest
<1>2. CASE RowsKept
  BY <1>2 DEF RowsKept, SameRequest
<1>3. ASSUME NEW o \in Owners, pc[o] \in Working
      PROVE  current[o] \in Runs
  BY <1>3 DEF TypeOK
<1>4. ASSUME NEW o \in Owners, Publish(o)
      PROVE  /\ RowsAgree'
             /\ \A r \in Runs :
                  /\ runs[r].state # "none" =>
                        /\ runs'[r].state # "none"
                        /\ runs'[r].meeting = runs[r].meeting
                        /\ runs'[r].audio = runs[r].audio
                  /\ runs[r].state = "none" /\ runs'[r].state # "none" =>
                        runs'[r].meeting \in Meetings
  <2>1. current[o] \in Runs
    BY <1>3, <1>4 DEF Publish, Working
  <2> QED BY <1>4, <2>1, PublishRows DEF SameRequest
<1>5. ASSUME NEW o \in Owners, Recover(o) \/ Claim(o)
      PROVE  RowsKept
  BY <1>5, RecoveryRows, ClaimRows DEF Recover
<1>6. ASSUME NEW o \in Owners, Unavailable(o) \/ MarkFailed(o)
      PROVE  RowsKept
  <2>1. current[o] \in Runs
    BY <1>3, <1>6 DEF Unavailable, MarkFailed, Working
  <2>2. Marked(o, "unavailable") \/ Marked(o, "failed")
    BY <1>6 DEF Unavailable, MarkFailed
  <2> QED BY <2>1, <2>2, MarkedRows
<1>7. ASSUME NEW o \in Owners,
             \/ RelayBusy(o) \/ Check(o) \/ Read(o) \/ Finish(o)
             \/ LookAtResult(o) \/ GiveUp(o) \/ PublishFails(o)
             \/ MarkFails(o) \/ Crash(o)
      PROVE  UNCHANGED rows
  BY <1>7 DEF RelayBusy, Check, Read, Finish, LookAtResult, GiveUp,
              PublishFails, MarkFails, Crash, rows
<1>8. ASSUME NEW o \in Owners, NEW r \in Runs, Beat(o, r)
      PROVE  RowsKept
  BY <1>8, BeatRows
<1>9. ASSUME NEW o \in Owners, NEW r \in Runs, BeatStops(o, r)
      PROVE  UNCHANGED rows
  BY <1>9 DEF BeatStops, rows
<1>10. ASSUME NEW m \in Meetings, Request(m)
       PROVE  RowsKept
  BY <1>10, RequestRows
<1>11. ASSUME NEW m \in Meetings, ChangeAudio(m)
       PROVE  UNCHANGED rows
  BY <1>11 DEF ChangeAudio
<1>12. ASSUME NEW r \in Runs, LeaseEnds(r)
       PROVE  RowsKept
  BY <1>12, LeaseEndsRows
<1>13. CASE UNCHANGED vars
  BY <1>1, <1>13 DEF vars
<1>14. CASE \E o \in Owners : Publish(o)
  BY <1>4, <1>14
<1>15. CASE \A o \in Owners : ~Publish(o)
  BY <1>1, <1>2, <1>5, <1>6, <1>7, <1>8, <1>9, <1>10, <1>11, <1>12, <1>13,
     <1>15 DEF Next, RunOnce
<1> QED BY <1>14, <1>15

-----------------------------------------------------------------------------
(* Types of what is not in the rows.                                       *)

LocalTyped ==
    /\ pc \in [Owners -> {"idle", "recovered", "gone"} \cup Working]
    /\ current \in [Owners -> Runs \cup {None}]
    /\ \A o \in Owners : current[o] # None <=> pc[o] \in Working
    /\ heard \in [Owners -> 0 .. MaxAudioChanges]
    /\ leaseLost \in [Owners -> BOOLEAN]

LEMMA MovedOn ==
  ASSUME LocalTyped, NEW o \in Owners, pc[o] \in Working,
         UNCHANGED <<current, heard, leaseLost>>,
         NEW step \in Working, Goto(o, step)
  PROVE  LocalTyped'
BY DEF LocalTyped, Goto

LEMMA Moved ==
  ASSUME LocalTyped, NEW o \in Owners, pc[o] \in {"idle", "recovered"},
         UNCHANGED <<current, heard, leaseLost>>,
         NEW step \in {"idle", "recovered"}, Goto(o, step)
  PROVE  LocalTyped'
BY DEF LocalTyped, Goto, Working

LEMMA Left ==
  ASSUME LocalTyped, NEW o \in Owners, Leave(o)
  PROVE  LocalTyped'
<1>1. 0 \in 0 .. MaxAudioChanges
  BY QwenAssumption
<1>2. \A p \in Owners : p # o => pc'[p] = pc[p] /\ current'[p] = current[p]
  BY DEF LocalTyped, Leave, Goto
<1>3. pc'[o] = "idle" /\ current'[o] = None
  BY DEF LocalTyped, Leave, Goto
<1>4. \A p \in Owners : current'[p] # None <=> pc'[p] \in Working
  BY <1>2, <1>3 DEF LocalTyped, Working
<1> QED BY <1>1, <1>4 DEF LocalTyped, Leave, Goto

LEMMA LocalStep ==
  ASSUME TypeOK, Asked, [Next]_vars
  PROVE  LocalTyped'
<1>0. {"claimed", "reading", "read", "stopped", "parsed", "failing"}
        \subseteq Working
  BY DEF Working
<1>1. LocalTyped
  BY DEF TypeOK, LocalTyped
<1>2. 0 \in 0 .. MaxAudioChanges /\ None \notin Runs
  BY QwenAssumption
<1>3. CASE UNCHANGED <<local, leaseLost>>
  BY <1>1, <1>3 DEF local, LocalTyped
<1>4. ASSUME NEW o \in Owners, RunOnce(o)
      PROVE  LocalTyped'
  <2>1. CASE Recover(o)
    BY <1>1, <2>1, Moved DEF Recover
  <2>2. CASE Claim(o)
    <3>1. CASE ~(Claimable /\ Queued # {})
      BY <1>1, <2>2, <3>1, Moved DEF Claim
    <3>2. ASSUME NEW r \in Oldest, current' = [current EXCEPT ![o] = r],
                 Goto(o, "claimed")
          PROVE  LocalTyped'
      <4>1. r \in Runs
        BY DEF Oldest, Queued
      <4> QED BY <1>1, <1>2, <2>2, <3>2, <4>1
              DEF Claim, LocalTyped, Goto, Working
    <3>3. CASE Claimable /\ Queued # {}
      <4>1. PICK r \in Oldest :
              current' = [current EXCEPT ![o] = r] /\ Goto(o, "claimed")
        BY <2>2, <3>3 DEF Claim
      <4> QED BY <3>2, <4>1
    <3> QED BY <3>1, <3>3
  <2>3. CASE Check(o)
    <3>1. /\ Goto(o, "reading") \/ Goto(o, "failing")
          /\ pc[o] = "claimed" /\ UNCHANGED <<current, heard, leaseLost>>
      BY <2>3 DEF Check
    <3> QED BY <1>0, <1>1, <3>1, MovedOn
  <2>4. CASE Read(o)
    <3>1. heard' \in [Owners -> 0 .. MaxAudioChanges]
      <4>1. current[o] \in Runs
        BY <2>4 DEF Read, TypeOK, Working
      <4>2. runs[current[o]].meeting \in Meetings
        BY <2>4, <4>1 DEF Read, Asked, TypeOK
      <4> QED BY <2>4, <4>2 DEF Read, TypeOK
    <3>2. /\ pc' = [pc EXCEPT ![o] = "read"] /\ pc[o] = "reading"
          /\ UNCHANGED <<current, leaseLost>>
      BY <2>4 DEF Read, Goto
    <3> QED BY <1>0, <1>1, <3>1, <3>2 DEF LocalTyped
  <2>5. CASE Finish(o)
    <3>1. /\ Goto(o, "stopped") \/ Goto(o, "failing")
          /\ pc[o] = "read" /\ UNCHANGED <<current, heard, leaseLost>>
      BY <2>5 DEF Finish
    <3> QED BY <1>0, <1>1, <3>1, MovedOn
  <2>6. CASE LookAtResult(o)
    <3>1. CASE Leave(o)
      BY <1>1, <3>1, Left
    <3>2. CASE /\ Goto(o, "parsed") \/ Goto(o, "failing")
               /\ UNCHANGED <<current, heard, leaseLost>>
      <4>1. pc[o] = "stopped"
        BY <2>6 DEF LookAtResult
      <4> QED BY <1>0, <1>1, <3>2, <4>1, MovedOn
    <3> QED BY <2>6, <3>1, <3>2 DEF LookAtResult
  <2>7. CASE Publish(o) \/ GiveUp(o) \/ MarkFailed(o)
    BY <1>1, <2>7, Left DEF Publish, GiveUp, MarkFailed
  <2> QED BY <1>4, <2>1, <2>2, <2>3, <2>4, <2>5, <2>6, <2>7 DEF RunOnce
<1>5. ASSUME NEW o \in Owners,
             \/ RelayBusy(o) \/ Unavailable(o) \/ PublishFails(o)
             \/ MarkFails(o)
      PROVE  LocalTyped'
  <2>1. CASE RelayBusy(o)
    BY <1>1, <2>1, Moved DEF RelayBusy
  <2>2. CASE PublishFails(o)
    <3>1. /\ Goto(o, "failing") /\ pc[o] = "parsed"
          /\ UNCHANGED <<current, heard, leaseLost>>
      BY <2>2 DEF PublishFails
    <3> QED BY <1>0, <1>1, <3>1, MovedOn
  <2>3. CASE Unavailable(o) \/ MarkFails(o)
    BY <1>1, <2>3, Left DEF Unavailable, MarkFails
  <2> QED BY <1>5, <2>1, <2>2, <2>3
<1>6. ASSUME NEW o \in Owners, Crash(o)
      PROVE  LocalTyped'
  <2>1. \A p \in Owners : p # o => pc'[p] = pc[p] /\ current'[p] = current[p]
    BY <1>1, <1>6 DEF LocalTyped, Crash, Goto
  <2>2. pc'[o] = "gone" /\ current'[o] = None
    BY <1>1, <1>6 DEF LocalTyped, Crash, Goto
  <2>3. \A p \in Owners : current'[p] # None <=> pc'[p] \in Working
    BY <1>1, <2>1, <2>2 DEF LocalTyped, Working
  <2> QED BY <1>1, <1>2, <1>6, <2>3 DEF LocalTyped, Crash, Goto
<1>7. ASSUME NEW o \in Owners, NEW r \in Runs, Beat(o, r)
      PROVE  LocalTyped'
  BY <1>1, <1>7 DEF Beat, local, LocalTyped
<1>8. ASSUME NEW o \in Owners, NEW r \in Runs, BeatStops(o, r)
      PROVE  LocalTyped'
  BY <1>3, <1>8 DEF BeatStops
<1>9. ASSUME NEW m \in Meetings, Request(m) \/ ChangeAudio(m)
      PROVE  LocalTyped'
  BY <1>3, <1>9 DEF Request, ChangeAudio
<1>10. ASSUME NEW r \in Runs, LeaseEnds(r)
       PROVE  LocalTyped'
  BY <1>3, <1>10 DEF LeaseEnds
<1>11. CASE UNCHANGED vars
  BY <1>3, <1>11 DEF vars
<1> QED BY <1>4, <1>5, <1>6, <1>7, <1>8, <1>9, <1>10, <1>11 DEF Next

(* The audio, the versions, the heartbeats and the bounds.                 *)
LEMMA RestStep ==
  ASSUME TypeOK, [Next]_vars
  PROVE  /\ audio' \in [Meetings -> 0 .. MaxAudioChanges]
         /\ \A m \in Meetings : audio[m] <= audio'[m]
         /\ versions' \subseteq
              [run : Runs, by : Owners, audio : 0 .. MaxAudioChanges]
         /\ beats' \subseteq Owners \X Runs
         /\ crashes' \in 0 .. MaxCrashes /\ errors' \in 0 .. MaxErrors
         /\ stalls' \in 0 .. MaxStalls
<1> DEFINE Audio == /\ audio' \in [Meetings -> 0 .. MaxAudioChanges]
                    /\ \A m \in Meetings : audio[m] <= audio'[m]
           Versions ==
             versions' \subseteq
               [run : Runs, by : Owners, audio : 0 .. MaxAudioChanges]
           Beats == beats' \subseteq Owners \X Runs
           Faults == /\ crashes' \in 0 .. MaxCrashes
                     /\ errors' \in 0 .. MaxErrors
                     /\ stalls' \in 0 .. MaxStalls
<1> USE QwenAssumption
<1>1. ASSUME audio' = audio
      PROVE  Audio
  <2>1. \A m \in Meetings : audio[m] \in 0 .. MaxAudioChanges
    BY DEF TypeOK
  <2>2. \A m \in Meetings : audio'[m] = audio[m] /\ audio[m] \in Int
    BY <1>1, <2>1
  <2> QED BY <1>1, <2>2 DEF TypeOK
<1>2. ASSUME UNCHANGED faults
      PROVE  Faults
  BY <1>2 DEF TypeOK, faults
<1>3. ASSUME beats' \subseteq beats
      PROVE  Beats
  BY <1>3 DEF TypeOK
<1>4. ASSUME versions' = versions
      PROVE  Versions
  BY <1>4 DEF TypeOK
<1>5. ASSUME NEW o \in Owners, RunOnce(o)
      PROVE  Audio /\ Versions /\ Beats /\ Faults
  <2>1. audio' = audio /\ UNCHANGED faults
    BY <1>5 DEF RunOnce, Recover, Claim, Check, Read, Finish, LookAtResult,
                Publish, GiveUp, MarkFailed
  <2>2. CASE Check(o)
    <3>1. current[o] \in Runs
      BY <2>2 DEF Check, TypeOK, Working
    <3> QED BY <1>1, <1>2, <1>4, <2>1, <2>2, <3>1 DEF Check, TypeOK
  <2>3. CASE Publish(o)
    <3>1. current[o] \in Runs /\ heard[o] \in 0 .. MaxAudioChanges
      BY <2>3 DEF Publish, TypeOK, Working
    <3> QED BY <1>1, <1>2, <1>3, <2>1, <2>3, <3>1 DEF Publish, Result, TypeOK
  <2>4. CASE ~Check(o) /\ ~Publish(o)
    <3>1. beats' \subseteq beats /\ versions' = versions
      BY <1>5, <2>4
         DEF RunOnce, Recover, Claim, Read, Finish, LookAtResult, GiveUp,
             MarkFailed
    <3> QED BY <1>1, <1>2, <1>3, <1>4, <2>1, <3>1
  <2> QED BY <2>2, <2>3, <2>4
<1>6. ASSUME NEW o \in Owners, RelayBusy(o) \/ Unavailable(o)
      PROVE  Audio /\ Versions /\ Beats /\ Faults
  BY <1>1, <1>2, <1>3, <1>4, <1>6 DEF RelayBusy, Unavailable
<1>7. ASSUME NEW o \in Owners, PublishFails(o) \/ MarkFails(o)
      PROVE  Audio /\ Versions /\ Beats /\ Faults
  BY <1>1, <1>3, <1>4, <1>7 DEF PublishFails, MarkFails, TypeOK
<1>8. ASSUME NEW o \in Owners, Crash(o)
      PROVE  Audio /\ Versions /\ Beats /\ Faults
  BY <1>1, <1>3, <1>4, <1>8 DEF Crash, TypeOK
<1>9. ASSUME NEW o \in Owners, NEW r \in Runs, Beat(o, r)
      PROVE  Audio /\ Versions /\ Beats /\ Faults
  <2>1. beats' \subseteq beats
    BY <1>9 DEF Beat
  <2>2. Faults
    BY <1>9 DEF Beat, faults, TypeOK
  <2> QED BY <1>1, <1>3, <1>4, <1>9, <2>1, <2>2 DEF Beat
<1>10. ASSUME NEW o \in Owners, NEW r \in Runs, BeatStops(o, r)
       PROVE  Audio /\ Versions /\ Beats /\ Faults
  BY <1>1, <1>2, <1>3, <1>4, <1>10 DEF BeatStops
<1>11. ASSUME NEW m \in Meetings, Request(m)
       PROVE  Audio /\ Versions /\ Beats /\ Faults
  BY <1>1, <1>2, <1>3, <1>4, <1>11 DEF Request
<1>12. ASSUME NEW m \in Meetings, ChangeAudio(m)
       PROVE  Audio /\ Versions /\ Beats /\ Faults
  <2>1. Audio
    BY <1>12 DEF ChangeAudio, TypeOK
  <2> QED BY <1>2, <1>3, <1>4, <1>12, <2>1 DEF ChangeAudio
<1>13. ASSUME NEW r \in Runs, LeaseEnds(r)
       PROVE  Audio /\ Versions /\ Beats /\ Faults
  <2>1. Faults
    BY <1>13 DEF LeaseEnds, TypeOK
  <2> QED BY <1>1, <1>3, <1>4, <1>13, <2>1 DEF LeaseEnds
<1>14. CASE UNCHANGED vars
  BY <1>1, <1>2, <1>3, <1>4, <1>14 DEF vars
<1> QED BY <1>5, <1>6, <1>7, <1>8, <1>9, <1>10, <1>11, <1>12, <1>13, <1>14
        DEF Next

LEMMA TypeStep ==
  ASSUME TypeOK, Agree, Asked, [Next]_vars
  PROVE  TypeOK' /\ Agree'
BY RowsStep, LocalStep, RestStep
   DEF RowsAgree, RunRow, WorkerRow, LocalTyped, TypeOK

-----------------------------------------------------------------------------
(* Runs and their requests.                                                *)

(* A service gets a new run by a claim only, and that one is running then. *)
LEMMA CurrentStep ==
  ASSUME TypeOK, [Next]_vars, NEW o \in Owners, current'[o] # current[o]
  PROVE  \/ current'[o] = None
         \/ pc'[o] = "claimed" /\ runs[current'[o]].state = "queued"
            /\ current'[o] \in Runs
<1> USE DEF TypeOK
<1>1. ASSUME NEW p \in Owners, RunOnce(p)
      PROVE  \/ current'[o] = None
             \/ pc'[o] = "claimed" /\ runs[current'[o]].state = "queued"
                /\ current'[o] \in Runs
  <2>1. CASE Recover(p) \/ Check(p) \/ Read(p) \/ Finish(p)
    BY <2>1 DEF Recover, Check, Read, Finish
  <2>2. CASE Claim(p)
    <3>1. PICK r \in Oldest :
            current' = [current EXCEPT ![p] = r] /\ Goto(p, "claimed")
      BY <2>2 DEF Claim
    <3>2. r \in Runs /\ runs[r].state = "queued"
      BY DEF Oldest, Queued
    <3> QED BY <3>1, <3>2 DEF Goto
  <2>3. CASE LookAtResult(p) \/ Publish(p) \/ GiveUp(p) \/ MarkFailed(p)
    BY <2>3 DEF LookAtResult, Publish, GiveUp, MarkFailed, Leave
  <2> QED BY <1>1, <2>1, <2>2, <2>3 DEF RunOnce
<1>2. ASSUME NEW p \in Owners,
             \/ RelayBusy(p) \/ Unavailable(p) \/ PublishFails(p)
             \/ MarkFails(p) \/ Crash(p)
      PROVE  current'[o] = None
  BY <1>2 DEF RelayBusy, Unavailable, PublishFails, MarkFails, Crash, Leave
<1>3. ASSUME NEW p \in Owners, NEW r \in Runs, Beat(p, r) \/ BeatStops(p, r)
      PROVE  FALSE
  BY <1>3 DEF Beat, BeatStops, local
<1>4. ASSUME NEW m \in Meetings, Request(m) \/ ChangeAudio(m)
      PROVE  FALSE
  BY <1>4 DEF Request, ChangeAudio, local
<1>5. ASSUME NEW r \in Runs, LeaseEnds(r)
      PROVE  FALSE
  BY <1>5 DEF LeaseEnds, local
<1>6. CASE UNCHANGED vars
  BY <1>6 DEF vars, local
<1> QED BY <1>1, <1>2, <1>3, <1>4, <1>5, <1>6 DEF Next

LEMMA AskedStep ==
  ASSUME TypeOK, Agree, Asked, [Next]_vars
  PROVE  Asked'
<1>1. ASSUME NEW r \in Runs, runs'[r].state # "none"
      PROVE  runs'[r].meeting \in Meetings
  BY <1>1, RowsStep DEF Asked
<1>2. ASSUME NEW o \in Owners, current'[o] # None
      PROVE  runs'[current'[o]].state # "none"
  <2>1. current'[o] \in Runs /\ runs[current'[o]].state # "none"
    <3>1. CASE current'[o] = current[o]
      BY <1>2, <3>1 DEF Asked, TypeOK
    <3>2. CASE current'[o] # current[o]
      BY <1>2, <3>2, CurrentStep
    <3> QED BY <3>1, <3>2
  <2> QED BY <2>1, RowsStep
<1> QED BY <1>1, <1>2 DEF Asked

(* What a service hears, it hears while it reads.                          *)
LEMMA PlaceStep ==
  ASSUME TypeOK, [Next]_vars, NEW o \in Owners,
         pc'[o] \in {"reading", "read", "stopped", "parsed"}
  PROVE  /\ current'[o] = current[o]
         /\ \/ pc'[o] = pc[o] /\ heard'[o] = heard[o]
            \/ pc'[o] = "reading" /\ Check(o)
            \/ pc'[o] = "read" /\ Read(o)
            \/ pc'[o] = "stopped" /\ Finish(o)
            \/ pc'[o] = "parsed" /\ pc[o] = "stopped" /\ heard'[o] = heard[o]
<1> DEFINE Goal ==
        /\ current'[o] = current[o]
        /\ \/ pc'[o] = pc[o] /\ heard'[o] = heard[o]
           \/ pc'[o] = "reading" /\ Check(o)
           \/ pc'[o] = "read" /\ Read(o)
           \/ pc'[o] = "stopped" /\ Finish(o)
           \/ pc'[o] = "parsed" /\ pc[o] = "stopped" /\ heard'[o] = heard[o]
<1> USE DEF TypeOK
<1>1. CASE UNCHANGED local
  BY <1>1 DEF local
<1>2. ASSUME NEW p \in Owners, RunOnce(p)
      PROVE  Goal
  <2>1. CASE Recover(p)
    BY <2>1 DEF Recover, Goto
  <2>2. CASE Claim(p)
    <3>1. p # o
      BY <2>2 DEF Claim, Goto
    <3> QED BY <2>2, <3>1 DEF Claim, Goto
  <2>3. CASE Check(p)
    BY <2>3 DEF Check, Goto
  <2>4. CASE Read(p)
    BY <2>4 DEF Read, Goto
  <2>5. CASE Finish(p)
    BY <2>5 DEF Finish, Goto
  <2>6. CASE LookAtResult(p)
    <3>1. CASE p # o
      BY <2>6, <3>1 DEF LookAtResult, Leave, Goto
    <3>2. CASE p = o
      BY <2>6, <3>2 DEF LookAtResult, Leave, Goto
    <3> QED BY <3>1, <3>2
  <2>7. CASE Publish(p) \/ GiveUp(p) \/ MarkFailed(p)
    BY <2>7 DEF Publish, GiveUp, MarkFailed, Leave, Goto
  <2> QED BY <1>2, <2>1, <2>2, <2>3, <2>4, <2>5, <2>6, <2>7 DEF RunOnce
<1>3. ASSUME NEW p \in Owners,
             \/ RelayBusy(p) \/ Unavailable(p) \/ PublishFails(p)
             \/ MarkFails(p) \/ Crash(p)
      PROVE  Goal
  BY <1>3
     DEF RelayBusy, Unavailable, PublishFails, MarkFails, Crash, Leave, Goto
<1>4. ASSUME NEW p \in Owners, NEW r \in Runs, Beat(p, r) \/ BeatStops(p, r)
      PROVE  UNCHANGED local
  BY <1>4 DEF Beat, BeatStops
<1>5. ASSUME NEW m \in Meetings, Request(m) \/ ChangeAudio(m)
      PROVE  UNCHANGED local
  BY <1>5 DEF Request, ChangeAudio
<1>6. ASSUME NEW r \in Runs, LeaseEnds(r)
      PROVE  UNCHANGED local
  BY <1>6 DEF LeaseEnds
<1>7. CASE UNCHANGED vars
  BY <1>1, <1>7 DEF vars
<1> QED BY <1>1, <1>2, <1>3, <1>4, <1>5, <1>6, <1>7 DEF Next

LEMMA HeardStep ==
  ASSUME TypeOK, Agree, Asked, HeardAsked, [Next]_vars
  PROVE  HeardAsked'
<1> SUFFICES ASSUME NEW o \in Owners,
                    pc'[o] \in {"reading", "read", "stopped", "parsed"}
             PROVE  LET row == runs'[current'[o]] IN
                    /\ pc'[o] = "reading" => row.audio <= audio'[row.meeting]
                    /\ pc'[o] = "read" =>
                          /\ row.audio <= heard'[o]
                          /\ heard'[o] <= audio'[row.meeting]
                    /\ pc'[o] \in {"stopped", "parsed"} =>
                          heard'[o] = row.audio
  BY DEF HeardAsked
<1> DEFINE r == current[o]
           m == runs[r].meeting
<1>1. TypeOK' /\ Asked'
  BY TypeStep, AskedStep
<1>2. current'[o] = r /\ r \in Runs
  <2>1. current'[o] = r
    BY PlaceStep
  <2>2. current'[o] \in Runs
    BY LocalStep DEF LocalTyped, Working
  <2> QED BY <2>1, <2>2
<1>3. runs[r].state # "none" /\ m \in Meetings
  <2>1. r # None
    BY <1>2, QwenAssumption
  <2> QED BY <1>2, <2>1 DEF Asked
<1>4. runs'[r].meeting = m /\ runs'[r].audio = runs[r].audio
  BY <1>2, <1>3, RowsStep
<1>5. /\ audio[m] \in Nat /\ audio'[m] \in Nat /\ audio[m] <= audio'[m]
      /\ runs[r].audio \in Nat /\ heard[o] \in Nat /\ heard'[o] \in Nat
  <2>1. audio[m] \in 0 .. MaxAudioChanges /\ heard[o] \in 0 .. MaxAudioChanges
    BY <1>3 DEF TypeOK
  <2>2. audio'[m] \in 0 .. MaxAudioChanges
        /\ heard'[o] \in 0 .. MaxAudioChanges
    BY <1>1, <1>3 DEF TypeOK
  <2>3. runs[r].audio \in 0 .. MaxAudioChanges
    BY <1>2 DEF TypeOK
  <2>4. audio[m] <= audio'[m]
    BY <1>3, RestStep
  <2> QED BY <2>1, <2>2, <2>3, <2>4
<1>6. CASE pc'[o] = pc[o] /\ heard'[o] = heard[o]
  BY <1>2, <1>4, <1>5, <1>6 DEF HeardAsked
<1>7. CASE pc'[o] = "reading" /\ Check(o)
  <2>1. audio[m] = runs[r].audio
    BY <1>7, <1>2 DEF Check, Goto, TypeOK
  <2> QED BY <1>2, <1>4, <1>5, <1>7, <2>1
<1>8. CASE pc'[o] = "read" /\ Read(o)
  <2>1. heard'[o] = audio[m] /\ runs[r].audio <= audio[m]
    BY <1>8 DEF Read, HeardAsked, TypeOK
  <2> QED BY <1>2, <1>4, <1>5, <1>8, <2>1
<1>9. CASE pc'[o] = "stopped" /\ Finish(o)
  <2>1. audio[m] = runs[r].audio /\ heard'[o] = heard[o]
    BY <1>9 DEF Finish, Goto, TypeOK
  <2>2. runs[r].audio <= heard[o] /\ heard[o] <= audio[m]
    BY <1>9 DEF Finish, HeardAsked
  <2> QED BY <1>2, <1>4, <1>5, <1>9, <2>1, <2>2
<1>10. CASE pc'[o] = "parsed" /\ pc[o] = "stopped" /\ heard'[o] = heard[o]
  BY <1>2, <1>4, <1>10 DEF HeardAsked
<1> QED BY <1>6, <1>7, <1>8, <1>9, <1>10, PlaceStep

-----------------------------------------------------------------------------
(* Transcripts: only the owner of a running run publishes, once, and what  *)
(* it heard is what was asked for.                                         *)

LEMMA VersionsStep ==
  ASSUME [Next]_vars, \A o \in Owners : ~Publish(o)
  PROVE  versions' = versions
<1>1. ASSUME NEW o \in Owners, RunOnce(o)
      PROVE  versions' = versions
  BY <1>1 DEF RunOnce, Recover, Claim, Check, Read, Finish, LookAtResult,
              GiveUp, MarkFailed
<1>2. ASSUME NEW o \in Owners,
             \/ RelayBusy(o) \/ Unavailable(o) \/ PublishFails(o)
             \/ MarkFails(o) \/ Crash(o)
      PROVE  versions' = versions
  BY <1>2 DEF RelayBusy, Unavailable, PublishFails, MarkFails, Crash
<1>3. ASSUME NEW o \in Owners, NEW r \in Runs, Beat(o, r) \/ BeatStops(o, r)
      PROVE  versions' = versions
  BY <1>3 DEF Beat, BeatStops
<1>4. ASSUME NEW m \in Meetings, Request(m) \/ ChangeAudio(m)
      PROVE  versions' = versions
  BY <1>4 DEF Request, ChangeAudio
<1>5. ASSUME NEW r \in Runs, LeaseEnds(r)
      PROVE  versions' = versions
  BY <1>5 DEF LeaseEnds
<1>6. CASE UNCHANGED vars
  BY <1>6 DEF vars
<1> QED BY <1>1, <1>2, <1>3, <1>4, <1>5, <1>6 DEF Next

LEMMA TranscriptsStep ==
  ASSUME TypeOK, Agree, HeardAsked, Transcripts, [Next]_vars
  PROVE  Transcripts'
<1>0. \A v \in versions : v.run \in Runs
  BY DEF TypeOK
<1>1. CASE \A o \in Owners : ~Publish(o)
  <2>1. versions' = versions /\ RowsKept
    BY <1>1, VersionsStep, RowsStep
  <2>2. \A r \in Runs : runs'[r].state = "ready" <=> runs[r].state = "ready"
    BY <2>1 DEF RowsKept, SameRequest
  <2>3. ASSUME NEW v \in versions
        PROVE  v.audio = runs'[v.run].audio
    <3>1. runs[v.run].state = "ready" /\ v.run \in Runs
      BY <1>0 DEF Transcripts
    <3>2. runs'[v.run].audio = runs[v.run].audio
      BY <3>1, RowsStep
    <3> QED BY <3>2 DEF Transcripts
  <2> QED BY <2>1, <2>2, <2>3 DEF Transcripts
<1>2. ASSUME NEW o \in Owners, Publish(o)
      PROVE  Transcripts'
  <2> DEFINE r == current[o]
             new == Result(o)
  <2>1. r \in Runs /\ pc[o] = "parsed" /\ versions' = versions \cup {new}
    BY <1>2 DEF Publish, TypeOK, Working
  <2>2. new.run = r /\ new.audio = runs[r].audio
    BY <2>1 DEF Result, HeardAsked
  <2>3. /\ \A q \in Runs : q # r => SameRequest(q)
        /\ runs[r].state = "running" /\ runs'[r].state = "ready"
        /\ runs'[r].audio = runs[r].audio
    BY <1>2, <2>1, PublishRows
  <2>4. \A v \in versions : v.run # r
    BY <2>1, <2>3 DEF Transcripts
  <2>5. ASSUME NEW q \in Runs
        PROVE  runs'[q].state = "ready" <=> \E v \in versions' : v.run = q
    BY <2>1, <2>2, <2>3, <2>4, <2>5 DEF Transcripts, SameRequest
  <2>6. \A v, w \in versions' : v.run = w.run => v = w
    BY <2>1, <2>2, <2>4 DEF Transcripts
  <2>7. ASSUME NEW v \in versions'
        PROVE  v.audio = runs'[v.run].audio
    <3>1. CASE v = new
      BY <2>2, <2>3, <3>1
    <3>2. CASE v \in versions
      <4>1. runs[v.run].state = "ready" /\ v.run \in Runs /\ v.run # r
        BY <1>0, <2>4, <3>2 DEF Transcripts
      <4>2. runs'[v.run].audio = runs[v.run].audio
        BY <2>3, <4>1 DEF SameRequest
      <4> QED BY <3>2, <4>2 DEF Transcripts
    <3> QED BY <2>1, <3>1, <3>2
  <2> QED BY <2>5, <2>6, <2>7 DEF Transcripts
<1> QED BY <1>1, <1>2

-----------------------------------------------------------------------------
LEMMA InvInit == Init => Inv
<1> SUFFICES ASSUME Init PROVE Inv
  OBVIOUS
<1>1. 0 \in 0 .. MaxAudioChanges /\ 0 \in 0 .. MaxCrashes
      /\ 0 \in 0 .. MaxErrors /\ 0 \in 0 .. MaxStalls
  BY QwenAssumption
<1>2. NoRun \in RunRow /\ NoLease \in WorkerRow
  BY <1>1 DEF NoRun, NoLease, RunRow, WorkerRow, Leases
<1>3. TypeOK
  BY <1>1, <1>2 DEF Init, TypeOK, RunRow, WorkerRow, Working
<1>4. \A r \in Runs : runs[r].state = "none"
  BY DEF Init, NoRun
<1>5. Agree /\ Asked
  BY <1>4 DEF Init, Agree, Asked
<1>6. HeardAsked
  BY DEF Init, HeardAsked
<1>7. Transcripts
  BY <1>4 DEF Init, Transcripts
<1> QED BY <1>3, <1>5, <1>6, <1>7 DEF Inv

LEMMA InvStep == Inv /\ [Next]_vars => Inv'
BY TypeStep, AskedStep, HeardStep, TranscriptsStep DEF Inv

(* The inductive invariant of the shadow runs, all of it.                  *)
THEOREM ShadowInvariant == Spec => []Inv
BY InvInit, InvStep, PTL DEF Spec

(* The two leases agree: one run at most is running in the database, and   *)
(* the worker row is there exactly while it is, with its owner and its     *)
(* time, whatever late beats, late failures and recoveries by other        *)
(* services do (_claim_next, _heartbeat_loop, _mark_failed,                *)
(* recover_orphaned); and every variable keeps its type.                   *)
THEOREM ShadowLeases == Spec => []LeasesAgree
<1>1. Inv => LeasesAgree
  BY DEF Inv, Agree, LeasesAgree
<1> QED BY <1>1, ShadowInvariant, PTL

(* A ready run has one transcript, of the recording the user asked for,    *)
(* and no other run has one, however often the run changed hands and the   *)
(* recording was replaced (run_once, _publish).                            *)
THEOREM ShadowTranscripts == Spec => []ReadyHasItsTranscript
<1>1. ASSUME Inv, NEW r \in Runs
      PROVE  LET made == {v \in versions : v.run = r} IN
             /\ runs[r].state = "ready" <=> made # {}
             /\ Cardinality(made) <= 1
             /\ \A v \in made : v.audio = runs[r].audio
  <2> DEFINE made == {v \in versions : v.run = r}
  <2>1. runs[r].state = "ready" <=> made # {}
    BY <1>1 DEF Inv, Transcripts
  <2>2. \A v \in made : v.audio = runs[r].audio
    BY <1>1 DEF Inv, Transcripts
  <2>3. CASE made = {}
    BY <2>1, <2>2, <2>3, FS_EmptySet
  <2>4. CASE made # {}
    <3>1. PICK v \in made : TRUE
      BY <2>4
    <3>2. made = {v}
      BY <1>1, <3>1 DEF Inv, Transcripts
    <3>3. Cardinality(made) = 1
      BY <3>2, FS_Singleton
    <3> QED BY <2>1, <2>2, <3>3
  <2> QED BY <2>3, <2>4
<1>2. Inv => ReadyHasItsTranscript
  BY <1>1 DEF ReadyHasItsTranscript
<1> QED BY <1>2, ShadowInvariant, PTL

-----------------------------------------------------------------------------
(***************************************************************************)
(* The dictionary: its snapshot, and the undo of an accepted word.         *)
(***************************************************************************)
(* The terms: rows, no two of them of one text, none changed in future.    *)
TermsGood ==
    /\ ops \in Nat /\ terms \in Seq(TermRow \cup {Null})
    /\ \A i \in Live : terms[i].upd <= ops
    /\ \A i, j \in Live : terms[i].text = terms[j].text => i = j

SuggGood ==
    /\ sugg = [p \in Pairs |-> sugg[p]]
    /\ \A p \in Pairs : sugg[p].st \in {"none", "pending", "confirmed", "rejected"}

PassGood ==
    /\ pass = [pc |-> pass.pc, sig |-> pass.sig, rows |-> pass.rows]
    /\ pass.pc = "write" => \A r \in DOMAIN pass.rows : pass.rows[r] \in {"pending", "dropped"}

ThreadRow == {Idle, Query} \cup [pc : {"replace"}, shows : 0 .. version]
    \cup [pc : {"merge"}, id : Nat, aliases : SUBSET Words, also : SUBSET Words]

(* The dictionary as it is now has been written to the file, or a thread   *)
(* will write it.                                                          *)
Rewritten ==
    \/ newest = version
    \/ \E w \in Threads : \/ thread[w].pc = "query"
                          \/ thread[w].pc = "replace" /\ thread[w].shows = version
FileGood ==
    /\ thread \in [Threads -> ThreadRow]
    /\ version \in Nat /\ snap \in 0 .. newest /\ newest \in 0 .. version
    /\ Rewritten

(* What an answer says of its undo: as long as the term has the stamp the  *)
(* answer left, it has the spellings it had before and those added.        *)
UndoRow == [created : BOOLEAN, aliases : SUBSET Words, upd : Nat, was : SUBSET Words]
CandRow == [st : {"none", "pending", "dropped", "accepted", "rejected"}, term : Nat,
            undo : UndoRow \cup {Null}, at : Nat]
LiveIn(ts) == {i \in DOMAIN ts : ts[i] # Null}
Traceable(k, n, ts) ==
    LET u == k.undo IN
    /\ u \in UndoRow /\ u.upd <= n
    /\ ~u.created /\ u.aliases # {} =>
        /\ u.was \cap u.aliases = {}
        /\ k.term \in LiveIn(ts) /\ ts[k.term].upd = u.upd =>
            ts[k.term].aliases = u.was \cup u.aliases
RowGood(k, n, ts) ==
    /\ k \in CandRow /\ k.at <= n
    /\ k.st \in {"accepted", "rejected"} <=> k.at # 0
    /\ k.st = "accepted" => Traceable(k, n, ts)
SameAnswer(k, l) ==
    k.st = "accepted" /\ l.st = "accepted" /\ k.at = l.at => k.term = l.term /\ k.undo = l.undo
CandGood ==
    /\ cand = [r \in Rows |-> cand[r]]
    /\ \A r \in Rows : RowGood(cand[r], ops, terms)
    /\ \A r, q \in Rows : SameAnswer(cand[r], cand[q])

DictInv == TermsGood /\ SuggGood /\ PassGood /\ FileGood /\ CandGood

-----------------------------------------------------------------------------
(* The tables of terms an operation may leave.                             *)

TsGood(ts) ==
    /\ ts \in Seq(TermRow \cup {Null})
    /\ \A i \in LiveIn(ts) : ts[i].upd <= Now
    /\ \A i, j \in LiveIn(ts) : ts[i].text = ts[j].text => i = j
    /\ \A i \in LiveIn(ts) : (i \in Live /\ ts[i] = terms[i]) \/ ts[i].upd = Now

LEMMA TsSame ==
  ASSUME TermsGood
  PROVE  TsGood(terms)
<1>1. \A i \in Live : terms[i] \in TermRow /\ terms[i].upd <= ops /\ ops \in Nat
  BY DEF TermsGood, Live
<1>2. \A i \in Live : terms[i].upd <= Now
  BY <1>1 DEF Now, TermRow
<1>3. LiveIn(terms) = Live
  BY DEF LiveIn, Live
<1> QED BY <1>2, <1>3 DEF TermsGood, TsGood

LEMMA TsAppended ==
  ASSUME TermsGood, NEW t \in TermRow, t.upd = Now, \A i \in Live : terms[i].text # t.text
  PROVE  TsGood(Append(terms, t))
<1> DEFINE ts == Append(terms, t)
<1>1. terms \in Seq(TermRow \cup {Null}) /\ ops \in Nat
  BY DEF TermsGood
<1>2. /\ ts \in Seq(TermRow \cup {Null}) /\ Len(ts) = Len(terms) + 1 /\ Len(terms) \in Nat
      /\ DOMAIN terms = 1 .. Len(terms) /\ DOMAIN ts = 1 .. Len(ts)
      /\ \A i \in DOMAIN terms : i \in DOMAIN ts /\ ts[i] = terms[i]
      /\ ts[Len(terms) + 1] = t
  BY <1>1
<1> HIDE DEF ts
<1>3. \A i \in LiveIn(ts) : (i \in Live /\ ts[i] = terms[i]) \/ i = Len(terms) + 1
  BY <1>2 DEF LiveIn, Live
<1>4. \A i \in LiveIn(ts) : ts[i].upd <= Now
  <2> TAKE i \in LiveIn(ts)
  <2>1. CASE i = Len(terms) + 1
    BY <1>1, <1>2, <2>1 DEF Now
  <2>2. CASE i \in Live /\ ts[i] = terms[i]
    <3>1. terms[i].upd <= ops /\ terms[i] \in TermRow
      BY <1>1, <2>2 DEF TermsGood, Live
    <3> QED BY <1>1, <2>2, <3>1 DEF Now, TermRow
  <2> QED BY <1>3, <2>1, <2>2
<1>5. \A i, j \in LiveIn(ts) : ts[i].text = ts[j].text => i = j
  BY <1>2, <1>3 DEF TermsGood
<1> QED BY <1>2, <1>3, <1>4, <1>5 DEF TsGood, ts

LEMMA TsPut ==
  ASSUME TermsGood, NEW i \in Live, NEW t \in TermRow, t.upd = Now,
         \A j \in Live \ {i} : terms[j].text # t.text
  PROVE  TsGood([terms EXCEPT ![i] = t])
<1> DEFINE ts == [terms EXCEPT ![i] = t]
<1>1. terms \in Seq(TermRow \cup {Null}) /\ ops \in Nat /\ i \in DOMAIN terms
  BY DEF TermsGood, Live
<1>2. /\ ts \in Seq(TermRow \cup {Null}) /\ DOMAIN ts = DOMAIN terms
      /\ \A j \in DOMAIN terms : ts[j] = IF j = i THEN t ELSE terms[j]
  BY <1>1
<1> HIDE DEF ts
<1>3. \A j \in LiveIn(ts) : j = i \/ (j \in Live \ {i} /\ ts[j] = terms[j])
  BY <1>2 DEF LiveIn, Live
<1>4. \A j \in LiveIn(ts) : ts[j].upd <= Now
  <2> TAKE j \in LiveIn(ts)
  <2>1. CASE j = i
    BY <1>1, <1>2, <2>1 DEF Now
  <2>2. CASE j \in Live /\ ts[j] = terms[j]
    <3>1. terms[j].upd <= ops /\ terms[j] \in TermRow
      BY <1>1, <2>2 DEF TermsGood, Live
    <3> QED BY <1>1, <2>2, <3>1 DEF Now, TermRow
  <2> QED BY <1>3, <2>1, <2>2
<1>5. \A j, k \in LiveIn(ts) : ts[j].text = ts[k].text => j = k
  BY <1>1, <1>2, <1>3 DEF TermsGood
<1> QED BY <1>1, <1>2, <1>3, <1>4, <1>5 DEF TsGood, ts

LEMMA TsRemoved ==
  ASSUME TermsGood, NEW i \in Live
  PROVE  TsGood(Removed(terms, i))
<1> DEFINE ts == [terms EXCEPT ![i] = Null]
<1>1. terms \in Seq(TermRow \cup {Null}) /\ ops \in Nat /\ i \in DOMAIN terms
  BY DEF TermsGood, Live
<1>2. /\ ts \in Seq(TermRow \cup {Null}) /\ DOMAIN ts = DOMAIN terms
      /\ \A j \in DOMAIN terms : ts[j] = IF j = i THEN Null ELSE terms[j]
  BY <1>1
<1> HIDE DEF ts
<1>3. \A j \in LiveIn(ts) : j \in Live /\ ts[j] = terms[j]
  BY <1>2 DEF LiveIn, Live
<1>4. \A j \in LiveIn(ts) : ts[j].upd <= Now
  <2> TAKE j \in LiveIn(ts)
  <2>1. terms[j].upd <= ops /\ terms[j] \in TermRow
    BY <1>1, <1>3 DEF TermsGood, Live
  <2> QED BY <1>1, <1>3, <2>1 DEF Now, TermRow
<1>5. \A j, k \in LiveIn(ts) : ts[j].text = ts[k].text => j = k
  BY <1>3 DEF TermsGood
<1> QED BY <1>1, <1>2, <1>3, <1>4, <1>5 DEF TsGood, ts, Removed

(* The term i with other spellings.                                        *)
Respelled(i, as) == [terms[i] EXCEPT !.aliases = as, !.upd = Now]

LEMMA TsRespelled ==
  ASSUME TermsGood, NEW i \in Live, NEW as \in SUBSET Words
  PROVE  /\ TsGood(AliasesOf(terms, i, as))
         /\ AliasesOf(terms, i, as) = [terms EXCEPT ![i] = Respelled(i, as)]
         /\ Respelled(i, as) \in TermRow
         /\ Respelled(i, as).aliases = as /\ Respelled(i, as).upd = Now
<1>1. terms[i] \in TermRow /\ i \in DOMAIN terms /\ Now \in Nat
      /\ terms \in Seq(TermRow \cup {Null})
  BY DEF TermsGood, Live, Now
<1>2. Respelled(i, as) \in TermRow
      /\ Respelled(i, as).aliases = as /\ Respelled(i, as).upd = Now
      /\ Respelled(i, as).text = terms[i].text
  BY <1>1 DEF Respelled, TermRow
<1>3. AliasesOf(terms, i, as) = [terms EXCEPT ![i] = Respelled(i, as)]
  BY <1>1 DEF AliasesOf, Respelled, TermRow
<1>4. \A j \in Live \ {i} : terms[j].text # Respelled(i, as).text
  BY <1>2 DEF TermsGood
<1> QED BY <1>2, <1>3, <1>4, TsPut

(* A word has at most one term.                                            *)
LEMMA TermOfWord ==
  ASSUME TermsGood, NEW word
  PROVE  /\ IdOf(word) \in Nat
         /\ IdOf(word) # 0 => IdOf(word) \in Live /\ terms[IdOf(word)].text = word
         /\ IdOf(word) = 0 => \A i \in Live : terms[i].text # word
<1>1. Live \subseteq Nat \ {0}
  BY DEF TermsGood, Live
<1>2. CASE WithText(word) = {}
  <2>1. IdOf(word) = Max({0})
    BY <1>2 DEF IdOf
  <2>2. Max({0}) = 0
    BY DEF Max
  <2> QED BY <1>2, <2>1, <2>2 DEF WithText
<1>3. ASSUME NEW i \in WithText(word)
      PROVE  IdOf(word) = i
  <2>1. i \in Live /\ terms[i].text = word /\ i \in Nat \ {0}
    BY <1>1, <1>3 DEF WithText
  <2>2. WithText(word) = {i}
    BY <1>3, <2>1 DEF TermsGood, WithText
  <2>3. {0} \cup {i} = {0, i}
    OBVIOUS
  <2>4. Max({0, i}) = i
    <3> DEFINE P(x) == x \in {0, i} /\ \A y \in {0, i} : x >= y
    <3>1. P(i)
      BY <2>1
    <3>2. \A x : P(x) => x = i
      BY <2>1
    <3> QED BY <3>1, <3>2 DEF Max
  <2> QED BY <2>2, <2>3, <2>4 DEF IdOf
<1> QED BY <1>1, <1>2, <1>3 DEF WithText

-----------------------------------------------------------------------------
(* A transaction that leaves the terms "ts".                               *)

LiveAgain(ts) ==
  /\ terms' = ts /\ Live' = LiveIn(ts)

LEMMA CommittedTerms ==
  ASSUME TermsGood, NEW w, NEW ts, NEW rewrite, Commit(w, ts, rewrite), TsGood(ts)
  PROVE  TermsGood' /\ LiveAgain(ts) /\ ops' = Now
<1>1. ops' = Now /\ terms' = ts
  BY DEF Commit
<1>2. Live' = LiveIn(ts)
  BY <1>1 DEF Live, LiveIn
<1>3. ops \in Nat /\ Now \in Nat
  BY DEF TermsGood, Now
<1> QED BY <1>1, <1>2, <1>3 DEF TsGood, TermsGood, LiveAgain

LEMMA CommittedFile ==
  ASSUME FileGood, NEW w \in Threads, thread[w].pc \in {"idle", "merge"},
         NEW ts, NEW rewrite \in BOOLEAN, Commit(w, ts, rewrite), ~rewrite => ts = terms
  PROVE  FileGood'
<1>1. /\ thread' = [thread EXCEPT ![w] = IF rewrite THEN Query ELSE Idle]
      /\ version' = IF Content(ts) = Content(terms) THEN version ELSE version + 1
      /\ snap' = snap /\ newest' = newest
  BY DEF Commit
<1>2. /\ version' \in Nat /\ version' >= version /\ snap' \in 0 .. newest'
      /\ newest' \in 0 .. version' /\ (~rewrite => version' = version)
  BY <1>1 DEF FileGood
<1>3. \A v \in Threads : thread[v] \in ThreadRow'
  <2>1. 0 .. version \subseteq 0 .. version'
    BY <1>2 DEF FileGood
  <2>2. ThreadRow \subseteq ThreadRow'
    BY <2>1 DEF ThreadRow, Idle, Query, Words
  <2> QED BY <2>2 DEF FileGood
<1>4. /\ DOMAIN thread = Threads
      /\ thread' \in [Threads -> ThreadRow']
  BY <1>1, <1>3 DEF FileGood, ThreadRow
<1>5. Rewritten'
  <2>1. CASE rewrite
    <3>1. thread'[w].pc = "query"
      BY <1>1, <1>4, <2>1 DEF Query
    <3> QED BY <3>1 DEF Rewritten
  <2>2. CASE ~rewrite
    <3>1. version' = version /\ newest' = newest
      BY <1>1, <1>2, <2>2
    <3>2. \A v \in Threads : thread[v].pc \in {"query", "replace"} => thread'[v] = thread[v]
      BY <1>1, <1>4
    <3> QED BY <3>1, <3>2 DEF FileGood, Rewritten
  <2> QED BY <2>1, <2>2
<1> QED BY <1>2, <1>4, <1>5 DEF FileGood

(* What a row says of its undo stays true of the terms a transaction       *)
(* leaves: what it changed has a new stamp.                                *)
LEMMA RowStays ==
  ASSUME TermsGood, NEW ts, TsGood(ts), NEW k, RowGood(k, ops, terms)
  PROVE  RowGood(k, Now, ts)
<1>1. ops \in Nat /\ Now = ops + 1 /\ Live = LiveIn(terms)
  BY DEF TermsGood, Now, Live, LiveIn
<1>2. k \in CandRow /\ k.at <= Now
  BY <1>1 DEF RowGood, CandRow
<1>3. ASSUME k.st = "accepted"
      PROVE  Traceable(k, Now, ts)
  <2> DEFINE u == k.undo  i == k.term
  <2>1. u \in UndoRow /\ u.upd <= ops /\ u.upd \in Nat /\ i \in Nat
    BY <1>2, <1>3 DEF RowGood, Traceable, UndoRow, CandRow
  <2>2. u.upd <= Now
    BY <1>1, <2>1
  <2>3. ASSUME ~u.created, u.aliases # {}
        PROVE  /\ u.was \cap u.aliases = {}
               /\ i \in LiveIn(ts) /\ ts[i].upd = u.upd => ts[i].aliases = u.was \cup u.aliases
    <3>1. /\ u.was \cap u.aliases = {}
          /\ i \in Live /\ terms[i].upd = u.upd => terms[i].aliases = u.was \cup u.aliases
      BY <1>1, <1>3, <2>3 DEF RowGood, Traceable
    <3>2. i \in LiveIn(ts) => (i \in Live /\ ts[i] = terms[i]) \/ ts[i].upd = Now
      BY DEF TsGood
    <3> QED BY <1>1, <2>1, <3>1, <3>2
  <2> QED BY <2>1, <2>2, <2>3 DEF Traceable
<1> QED BY <1>2, <1>3 DEF RowGood

(* A transaction of thread w that keeps the terms good, and writes the     *)
(* file unless it leaves them as they were.                                *)
Writes(w, ts) ==
    /\ thread[w].pc \in {"idle", "merge"} /\ TsGood(ts)
    /\ \E rewrite \in BOOLEAN : Commit(w, ts, rewrite) /\ (~rewrite => ts = terms)
Transaction(w) == \E ts : Writes(w, ts)

LEMMA IdleThread ==
  ASSUME NEW w, Free(w)
  PROVE  thread[w].pc \in {"idle", "merge"}
BY DEF Free, Idle

LEMMA TermCreated ==
  ASSUME TermsGood, NEW w \in Threads, CreateTerm(w)
  PROVE  Transaction(w)
<1>1. PICK word \in Words, as \in SUBSET Wrongs, p \in {Project, Public} :
        /\ Free(w) /\ ~Duplicate(0, word)
        /\ Commit(w, Append(terms, NewTerm(word, as, {}, p, FALSE)), TRUE)
  BY DEF CreateTerm
<1> DEFINE t == NewTerm(word, as, {}, p, FALSE)
<1>2. t \in TermRow /\ t.upd = Now /\ t.text = word
  <2>1. Now \in Nat
    BY DEF TermsGood, Now
  <2>2. as \in SUBSET Words
    BY DEF Words
  <2> QED BY <2>1, <2>2 DEF NewTerm, TermRow
<1>3. 0 \notin Live
  BY DEF TermsGood, Live
<1>4. \A i \in Live : terms[i].text # t.text
  BY <1>1, <1>2, <1>3 DEF Duplicate
<1> HIDE DEF t
<1>5. TsGood(Append(terms, t))
  BY <1>2, <1>4, TsAppended
<1> QED BY <1>1, <1>5, IdleThread DEF Transaction, Writes, t

LEMMA TermUpdated ==
  ASSUME TermsGood, NEW w \in Threads, UpdateTerm(w)
  PROVE  Transaction(w)
<1>1. PICK i \in Live : \E x \in Edits(terms[i]) :
        /\ Free(w) /\ Checked(i, x)
        /\ Commit(w, [terms EXCEPT ![i] = [x EXCEPT !.upd = Now]], TRUE)
  BY DEF UpdateTerm
<1>2. PICK x \in Edits(terms[i]) :
        /\ Free(w) /\ Checked(i, x)
        /\ Commit(w, [terms EXCEPT ![i] = [x EXCEPT !.upd = Now]], TRUE)
  BY <1>1
<1>3. terms[i] \in TermRow /\ ops \in Nat
  BY DEF TermsGood, Live
<1>4. x \in TermRow
  <2>1. CASE \E y \in Words : x = [terms[i] EXCEPT !.text = y]
    BY <1>3, <2>1 DEF TermRow
  <2>2. CASE \E as \in SUBSET Wrongs : x = [terms[i] EXCEPT !.aliases = as]
    <3>1. SUBSET Wrongs \subseteq SUBSET Words
      BY DEF Words
    <3> QED BY <1>3, <2>2, <3>1 DEF TermRow
  <2>3. CASE \E s \in {{}} \cup {{y} : y \in Words} :
               x = [terms[i] EXCEPT !.also = s \ {terms[i].text}]
    <3>1. \A s \in {{}} \cup {{y} : y \in Words} : s \ {terms[i].text} \in SUBSET Words
      OBVIOUS
    <3> QED BY <1>3, <2>3, <3>1 DEF TermRow
  <2>4. CASE \E p \in {Project, Public} : x = [terms[i] EXCEPT !.proj = p]
    BY <1>3, <2>4 DEF TermRow
  <2> QED BY <2>1, <2>2, <2>3, <2>4 DEF Edits
<1> DEFINE t == [x EXCEPT !.upd = Now]
<1>5. t \in TermRow /\ t.upd = Now /\ t.text = x.text
  BY <1>3, <1>4 DEF TermRow, Now
<1>6. \A j \in Live \ {i} : terms[j].text # t.text
  BY <1>2, <1>5 DEF Checked, Duplicate
<1> HIDE DEF t
<1>7. TsGood([terms EXCEPT ![i] = t])
  BY <1>5, <1>6, TsPut
<1> QED BY <1>2, <1>7, IdleThread DEF Transaction, Writes, t

LEMMA TermMerged ==
  ASSUME TermsGood, FileGood, NEW w \in Threads, MergeIntoTerm(w)
  PROVE  Transaction(w)
<1> DEFINE m == thread[w]
<1>1. m.pc = "merge" /\ m \in ThreadRow
  BY DEF MergeIntoTerm, FileGood
<1>2. m.aliases \in SUBSET Words /\ m.also \in SUBSET Words
  BY <1>1 DEF ThreadRow, Idle, Query
<1>3. CASE Commit(w, terms, FALSE)
  BY <1>1, <1>3, TsSame DEF Transaction, Writes
<1>4. CASE m.id \in Live /\ \E p \in {terms[m.id].proj, Public} :
             Commit(w, [terms EXCEPT ![m.id] = Merged(terms[m.id], m, p)], TRUE)
  <2> DEFINE i == m.id
  <2>1. PICK p \in {terms[i].proj, Public} :
          Commit(w, [terms EXCEPT ![i] = Merged(terms[i], m, p)], TRUE)
    BY <1>4
  <2> DEFINE t == Merged(terms[i], m, p)
  <2>2. i \in Live /\ terms[i] \in TermRow /\ Now \in Nat
    BY <1>4 DEF TermsGood, Live, Now
  <2>3. m.also \ {terms[i].text} \in SUBSET Words /\ p \in {Project, Public}
    BY <1>2, <2>1, <2>2 DEF TermRow
  <2>4. t \in TermRow /\ t.upd = Now /\ t.text = terms[i].text
    BY <1>2, <2>2, <2>3 DEF Merged, TermRow
  <2>5. \A j \in Live \ {i} : terms[j].text # t.text
    BY <2>2, <2>4 DEF TermsGood
  <2> HIDE DEF t, i
  <2>6. TsGood([terms EXCEPT ![i] = t])
    BY <2>2, <2>4, <2>5, TsPut
  <2> QED BY <1>1, <2>1, <2>6 DEF Transaction, Writes, t, i
<1> QED BY <1>1, <1>3, <1>4 DEF MergeIntoTerm

LEMMA TermDeleted ==
  ASSUME TermsGood, NEW w \in Threads, DeleteTerm(w)
  PROVE  Transaction(w)
<1>1. PICK i \in Live : Free(w) /\ Commit(w, Removed(terms, i), TRUE)
  BY DEF DeleteTerm
<1>2. TsGood(Removed(terms, i))
  BY TsRemoved
<1> QED BY <1>1, <1>2, IdleThread DEF Transaction, Writes

LEMMA SuggestionConfirmed ==
  ASSUME TermsGood, NEW w \in Threads, ConfirmSuggestion(w)
  PROVE  Transaction(w)
<1> DEFINE new(p, q) == NewTerm(p[2], {p[1]}, {},
                            IF IdOf(p[2]) = 0 THEN q ELSE terms[IdOf(p[2])].proj, TRUE)
<1>1. PICK p \in Pairs, q \in {Project, Public} :
        /\ Free(w)
        /\ IF IdOf(p[2]) = 0 THEN Commit(w, Append(terms, new(p, q)), TRUE)
           ELSE \/ Commit(w, terms, TRUE)
                \/ Commit(w, AliasesOf(terms, IdOf(p[2]),
                               terms[IdOf(p[2])].aliases \cup {p[1]}), TRUE)
  BY DEF ConfirmSuggestion
<1>2. p[1] \in Words /\ p[2] \in Words
  BY GlossaryAssumption
<1> DEFINE i == IdOf(p[2])
<1>3. thread[w].pc \in {"idle", "merge"}
  BY <1>1, IdleThread
<1>4. CASE i = 0
  <2> DEFINE t == new(p, q)
  <2>1. t \in TermRow /\ t.upd = Now /\ t.text = p[2]
    BY <1>2, <1>4 DEF TermsGood, NewTerm, TermRow, Now
  <2>2. \A j \in Live : terms[j].text # t.text
    BY <1>4, <2>1, TermOfWord
  <2>3. Commit(w, Append(terms, t), TRUE)
    BY <1>1, <1>4
  <2> HIDE DEF t
  <2>4. TsGood(Append(terms, t))
    BY <2>1, <2>2, TsAppended
  <2> QED BY <1>3, <2>3, <2>4 DEF Transaction, Writes
<1>5. CASE i # 0 /\ Commit(w, terms, TRUE)
  BY <1>3, <1>5, TsSame DEF Transaction, Writes
<1>6. CASE i # 0 /\ Commit(w, AliasesOf(terms, i, terms[i].aliases \cup {p[1]}), TRUE)
  <2>1. i \in Live
    BY <1>6, TermOfWord
  <2>2. terms[i] \in TermRow
    BY <2>1 DEF TermsGood, Live
  <2>3. terms[i].aliases \cup {p[1]} \in SUBSET Words
    BY <1>2, <2>2 DEF TermRow
  <2> DEFINE as == terms[i].aliases \cup {p[1]}
  <2> HIDE DEF i, as
  <2>4. TsGood(AliasesOf(terms, i, as))
    BY <2>1, <2>3, TsRespelled DEF as
  <2> QED BY <1>3, <1>6, <2>4 DEF Transaction, Writes, as
<1> QED BY <1>1, <1>4, <1>5, <1>6

LEMMA SuggestionUnconfirmed ==
  ASSUME TermsGood, NEW w \in Threads, UndoConfirmSuggestion(w)
  PROVE  Transaction(w)
<1>1. PICK p \in Pairs :
        /\ Free(w)
        /\ Commit(w, IF sugg[p].term \in Live /\ sugg[p].wrong # Null
                       THEN TakenBack(sugg[p].term, sugg[p].wrong) ELSE terms, TRUE)
  BY DEF UndoConfirmSuggestion
<1> DEFINE i == sugg[p].term  word == sugg[p].wrong  left == terms[i].aliases \ {word}
<1>2. thread[w].pc \in {"idle", "merge"}
  BY <1>1, IdleThread
<1>3. CASE Commit(w, terms, TRUE)
  BY <1>2, <1>3, TsSame DEF Transaction, Writes
<1>4. CASE i \in Live /\ Commit(w, TakenBack(i, word), TRUE)
  <2>1. terms[i] \in TermRow
    BY <1>4 DEF TermsGood, Live
  <2>2. left \in SUBSET Words
    BY <2>1 DEF TermRow
  <2>3. TakenBack(i, word) \in {Removed(terms, i), AliasesOf(terms, i, left)}
    BY DEF TakenBack
  <2> HIDE DEF left, i, word
  <2>4. TsGood(TakenBack(i, word))
    BY <1>4, <2>2, <2>3, TsRemoved, TsRespelled
  <2> QED BY <1>2, <1>4, <2>4 DEF Transaction, Writes
<1> QED BY <1>1, <1>3, <1>4

-----------------------------------------------------------------------------
(* Answers to the word found, and their undo.                              *)

(* The rows a transaction that leaves the terms "ts" does not answer.     *)
LEMMA RowsUnanswered ==
  ASSUME TermsGood, CandGood, NEW w \in Threads, NEW ts, Writes(w, ts), cand' = cand
  PROVE  CandGood'
<1>1. PICK rewrite \in BOOLEAN : Commit(w, ts, rewrite) /\ TsGood(ts)
  BY DEF Writes
<1>2. ops' = Now /\ terms' = ts
  BY <1>1 DEF Commit
<1>3. \A r \in Rows : RowGood(cand[r], Now, ts)
  <2> TAKE r \in Rows
  <2>1. RowGood(cand[r], ops, terms)
    BY DEF CandGood
  <2> QED BY <1>1, <2>1, RowStays
<1> QED BY <1>2, <1>3 DEF CandGood, Rows, Base

(* The rows an answer leaves: those it is not about, and those that carry  *)
(* it, with one undo.                                                      *)
LEMMA RowsAnswered ==
  ASSUME TermsGood, CandGood, NEW w \in Threads, NEW ts, Writes(w, ts),
         NEW rs, NEW refused, NEW i \in Nat, NEW u,
         Answer(rs, refused, i, u), u \in UndoRow, u.upd <= Now,
         ~u.created /\ u.aliases # {} =>
            /\ u.was \cap u.aliases = {}
            /\ i \in LiveIn(ts) /\ ts[i].upd = u.upd => ts[i].aliases = u.was \cup u.aliases
  PROVE  CandGood'
<1>1. PICK rewrite \in BOOLEAN : Commit(w, ts, rewrite) /\ TsGood(ts)
  BY DEF Writes
<1>2. ops' = Now /\ terms' = ts /\ ops \in Nat /\ Now = ops + 1
  BY <1>1 DEF Commit, TermsGood, Now
<1> DEFINE answer(r) == [st |-> IF r \in refused THEN "rejected" ELSE "accepted",
                         term |-> i, undo |-> u, at |-> Now]
<1>3. cand' = [r \in Rows |-> IF r \notin rs THEN cand[r] ELSE answer(r)]
  BY DEF Answer
<1>4. \A r \in Rows : cand'[r] = IF r \notin rs THEN cand[r] ELSE answer(r)
  BY <1>3
<1>5. ASSUME NEW r
      PROVE  /\ RowGood(answer(r), Now, ts)
             /\ answer(r).at = Now /\ answer(r).term = i /\ answer(r).undo = u
  <2> DEFINE k == answer(r)
  <2>1. /\ k.st \in {"accepted", "rejected"} /\ k.at = Now /\ k.term = i /\ k.undo = u
        /\ k \in CandRow
    BY <1>2 DEF CandRow
  <2>2. Traceable(k, Now, ts)
    BY <2>1 DEF Traceable
  <2> HIDE DEF k
  <2>3. RowGood(k, Now, ts)
    BY <1>2, <2>1, <2>2 DEF RowGood
  <2> QED BY <2>1, <2>3 DEF k
<1> HIDE DEF answer
<1>6. ASSUME NEW r \in Rows
      PROVE  /\ RowGood(cand[r], Now, ts)
             /\ cand[r].at # Now
  <2>1. RowGood(cand[r], ops, terms)
    BY DEF CandGood
  <2>2. cand[r].at \in Nat /\ cand[r].at <= ops
    BY <2>1 DEF RowGood, CandRow
  <2> QED BY <1>1, <1>2, <2>1, <2>2, RowStays
<1>7. \A r \in Rows : RowGood(cand'[r], ops', terms')
  BY <1>2, <1>4, <1>5, <1>6
<1>8. \A r, q \in Rows : SameAnswer(cand'[r], cand'[q])
  <2> TAKE r, q \in Rows
  <2>1. SameAnswer(cand[r], cand[q])
    BY DEF CandGood
  <2> QED BY <1>4, <1>5, <1>6, <2>1 DEF SameAnswer
<1>9. cand' = [r \in Rows |-> cand'[r]]
  BY <1>3
<1> QED BY <1>7, <1>8, <1>9 DEF CandGood, Rows, Base

LEMMA KnownAccepted ==
  ASSUME TermsGood, CandGood, NEW w \in Threads, Free(w), NEW rs \in SUBSET Rows,
         NEW refused \in SUBSET Wrongs,
         IdOf(Term) # 0, AcceptKnown(w, IdOf(Term), rs, refused)
  PROVE  Transaction(w) /\ CandGood'
<1> DEFINE i == IdOf(Term)
           added == {x \in rs \ (refused \cup {Base}) : ~WrongTaken(x, i)} \ terms[i].aliases
           ts == IF added = {} THEN terms ELSE AliasesOf(terms, i, terms[i].aliases \cup added)
           u == UndoOf(FALSE, added, IF added = {} THEN terms[i].upd ELSE Now,
                         terms[i].aliases)
<1>1. Commit(w, ts, ~Already(rs, added)) /\ Answer(rs, refused, i, u)
  BY DEF AcceptKnown
<1>2. i \in Live /\ i \in Nat
  BY TermOfWord
<1>3. terms[i] \in TermRow /\ terms[i].upd <= ops /\ ops \in Nat /\ Now = ops + 1
  BY <1>2 DEF TermsGood, Live, Now
<1>4. /\ added \in SUBSET Words /\ terms[i].aliases \in SUBSET Words /\ terms[i].upd \in Nat
      /\ terms[i].aliases \cap added = {}
  <2>1. rs \ (refused \cup {Base}) \subseteq Words
    BY DEF Rows, Words
  <2> QED BY <1>3, <2>1 DEF TermRow
<1>5. /\ u \in UndoRow /\ u.upd <= Now /\ ~u.created
      /\ u.aliases = added /\ u.was = terms[i].aliases
  BY <1>3, <1>4 DEF UndoOf, UndoRow
<1>6. ts = terms \/ (added # {} /\ ts = AliasesOf(terms, i, terms[i].aliases \cup added))
  OBVIOUS
<1>7. Already(rs, added) => ts = terms
  BY DEF Already
<1> HIDE DEF i, added, ts, u
<1>8. terms[i].aliases \cup added \in SUBSET Words
  BY <1>4
<1>9. TsGood(ts)
  BY <1>2, <1>6, <1>8, TsSame, TsRespelled
<1>10. u.aliases # {} => ts[i].aliases = terms[i].aliases \cup added
  <2> HAVE u.aliases # {}
  <2>1. ts = AliasesOf(terms, i, terms[i].aliases \cup added)
    BY <1>5, <1>6 DEF ts
  <2>2. ts = [terms EXCEPT ![i] = Respelled(i, terms[i].aliases \cup added)]
    BY <1>2, <1>8, <2>1, TsRespelled
  <2>3. ts[i].aliases = terms[i].aliases \cup added
    BY <1>2, <1>8, <2>2, TsRespelled DEF Live
  <2> QED BY <2>3
<1>11. Writes(w, ts)
  <2>1. ~(~Already(rs, added)) => ts = terms
    BY <1>7
  <2>2. (~Already(rs, added)) \in BOOLEAN
    BY DEF Already
  <2> QED BY <1>1, <1>9, <2>1, <2>2, IdleThread DEF Writes
<1>12. CandGood'
  BY <1>1, <1>2, <1>4, <1>5, <1>10, <1>11, RowsAnswered
<1> QED BY <1>11, <1>12 DEF Transaction

LEMMA NewAccepted ==
  ASSUME TermsGood, CandGood, NEW w \in Threads, Free(w), NEW rs \in SUBSET Rows,
         NEW refused \in SUBSET Wrongs,
         IdOf(Term) = 0, AcceptNew(w, rs, refused)
  PROVE  Transaction(w) /\ CandGood'
<1> DEFINE usable == {x \in rs \ (refused \cup {Base}) : ~WrongTaken(x, 0)}
           t == NewTerm(Term, usable, {}, Project, FALSE)
           ts == Append(terms, t)
           u == UndoOf(TRUE, usable, Now, {})
<1>1. Commit(w, ts, TRUE) /\ Answer(rs, refused, Len(terms) + 1, u)
  BY DEF AcceptNew
<1>2. usable \in SUBSET Words
  BY DEF Rows, Words
<1>3. Now \in Nat /\ Len(terms) + 1 \in Nat
  BY DEF TermsGood, Now
<1>4. t \in TermRow /\ t.upd = Now /\ t.text = Term
  BY <1>2, <1>3 DEF NewTerm, TermRow, Words
<1>5. \A j \in Live : terms[j].text # t.text
  BY <1>4, TermOfWord
<1>6. u \in UndoRow /\ u.upd <= Now /\ u.created
  BY <1>2, <1>3 DEF UndoOf, UndoRow
<1> HIDE DEF t, u, usable
<1>7. TsGood(ts)
  BY <1>4, <1>5, TsAppended
<1> HIDE DEF ts
<1>8. Writes(w, ts)
  BY <1>1, <1>7, IdleThread DEF Writes
<1>9. CandGood'
  BY <1>1, <1>3, <1>6, <1>8, RowsAnswered
<1> QED BY <1>8, <1>9 DEF Transaction

LEMMA AcceptStep ==
  ASSUME TermsGood, CandGood, NEW w \in Threads, Accept(w)
  PROVE  Transaction(w) /\ CandGood'
<1>1. PICK refused \in SUBSET Wrongs, only \in Rows :
        /\ Free(w)
        /\ IF IdOf(Term) # 0
           THEN AcceptKnown(w, IdOf(Term), PendingRows(only), refused)
           ELSE AcceptNew(w, PendingRows(only), refused)
  BY DEF Accept
<1>2. PendingRows(only) \in SUBSET Rows
  BY DEF PendingRows
<1> QED BY <1>1, <1>2, KnownAccepted, NewAccepted

LEMMA RejectStep ==
  ASSUME TermsGood, CandGood, NEW w \in Threads, Reject(w)
  PROVE  Transaction(w) /\ CandGood'
<1> DEFINE u == UndoOf(FALSE, {}, 0, {})  rs == PendingRows(Null)
<1>1. Free(w) /\ Commit(w, terms, FALSE) /\ Answer(rs, rs, 0, u)
  BY DEF Reject
<1>2. Writes(w, terms)
  BY <1>1, TsSame, IdleThread DEF Writes
<1>3. u \in UndoRow /\ u.upd = 0 /\ u.aliases = {}
  BY DEF UndoOf, UndoRow
<1> HIDE DEF u, rs
<1>4. u.upd <= Now
  <2>1. Now \in Nat
    BY DEF TermsGood, Now
  <2> QED BY <1>3, <2>1
<1>5. CandGood'
  BY <1>1, <1>2, <1>3, <1>4, RowsAnswered
<1> QED BY <1>2, <1>5 DEF Transaction

(* The undo of the last answer: its rows all carry one undo, and the term *)
(* it acts on has the stamp it left.                                       *)
LEMMA UndoCommits ==
  ASSUME TermsGood, CandGood, NEW w \in Threads, Undo(w)
  PROVE  Transaction(w) /\ CandGood'
<1> DEFINE gone == {r \in LastRows : cand[r].st = "accepted" /\ cand[r].term \in Live
                                         /\ (cand[r].undo.created \/ cand[r].undo.aliases # {})}
           r == CHOOSE x \in gone : TRUE
           i == cand[r].term
           left == terms[i].aliases \ cand[r].undo.aliases
<1>1. Free(w) /\ thread[w].pc \in {"idle", "merge"}
  BY IdleThread DEF Undo
<1>2. IF gone = {} THEN Commit(w, terms, FALSE)
      ELSE Commit(w, TermUndone(i, cand[r].undo), TRUE)
  BY DEF Undo
<1>3. \E ts : Writes(w, ts)
  <2>1. CASE gone = {}
    BY <1>1, <1>2, <2>1, TsSame DEF Writes
  <2>2. CASE gone # {}
    <3>1. r \in gone
      BY <2>2
    <3>2. i \in Live
      BY <3>1
    <3>3. terms[i] \in TermRow
      BY <3>2 DEF TermsGood, Live
    <3>4. left \in SUBSET Words
      BY <3>3 DEF TermRow
    <3>5. TermUndone(i, cand[r].undo) \in {Removed(terms, i), AliasesOf(terms, i, left)}
      BY DEF TermUndone
    <3> HIDE DEF left, r, i, gone
    <3>6. TsGood(TermUndone(i, cand[r].undo))
      BY <3>2, <3>4, <3>5, TsRemoved, TsRespelled
    <3> QED BY <1>1, <1>2, <2>2, <3>6 DEF Writes
  <2> QED BY <2>1, <2>2
<1>4. PICK ts : Writes(w, ts)
  BY <1>3
<1>5. TsGood(ts) /\ ops' = Now /\ terms' = ts
  BY <1>4 DEF Writes, Commit
<1>6. cand' = [q \in Rows |-> IF q \in LastRows THEN Unanswered("pending") ELSE cand[q]]
  BY DEF Undo
<1>7. RowGood(Unanswered("pending"), Now, ts)
  <2>1. Now \in Nat
    BY DEF TermsGood, Now
  <2>2. Unanswered("pending") \in CandRow
    BY DEF Unanswered, CandRow
  <2> QED BY <2>1, <2>2 DEF Unanswered, RowGood
<1>8. \A q \in Rows : RowGood(cand'[q], ops', terms')
  <2> TAKE q \in Rows
  <2>1. RowGood(cand[q], ops, terms)
    BY DEF CandGood
  <2>2. RowGood(cand[q], Now, ts)
    BY <1>5, <2>1, RowStays
  <2> QED BY <1>5, <1>6, <1>7, <2>2
<1>9. \A q, s \in Rows : SameAnswer(cand'[q], cand'[s])
  <2>1. Unanswered("pending").st = "pending"
    BY DEF Unanswered
  <2> QED BY <1>6, <2>1 DEF CandGood, SameAnswer
<1>10. cand' = [q \in Rows |-> cand'[q]]
  BY <1>6
<1>11. CandGood'
  BY <1>8, <1>9, <1>10 DEF CandGood, Rows, Base
<1> QED BY <1>3, <1>11 DEF Transaction

(* Rows that a pass, or the forgetting of deleted terms, gives another     *)
(* status keep their answer.                                               *)
LEMMA RowsRestated ==
  ASSUME CandGood, TermsGood, UNCHANGED <<ops, terms>>,
         cand' = [r \in Rows |-> cand'[r]],
         \A r \in Rows : \/ cand'[r] = cand[r]
                           \/ /\ cand[r].st \in {"none", "pending", "dropped"}
                              /\ \E st \in {"pending", "dropped"} : cand'[r] = [cand[r] EXCEPT !.st = st]
                           \/ /\ cand[r].st \in {"accepted", "rejected"}
                              /\ cand'[r] = [cand[r] EXCEPT !.st = "rejected", !.undo = Null]
  PROVE  CandGood'
<1>1. ASSUME NEW r \in Rows
      PROVE  /\ RowGood(cand'[r], ops, terms)
             /\ cand'[r].st = "accepted" => cand'[r] = cand[r]
  <2>1. RowGood(cand[r], ops, terms) /\ cand[r] \in CandRow
    BY DEF CandGood, RowGood
  <2>2. CASE cand'[r] = cand[r]
    BY <2>1, <2>2
  <2>3. ASSUME cand[r].st \in {"none", "pending", "dropped"}, NEW st \in {"pending", "dropped"},
               cand'[r] = [cand[r] EXCEPT !.st = st]
        PROVE  RowGood(cand'[r], ops, terms) /\ cand'[r].st # "accepted"
    <3>1. /\ cand'[r] \in CandRow /\ cand'[r].st = st /\ cand'[r].at = cand[r].at
      BY <2>1, <2>3 DEF CandRow
    <3> QED BY <2>1, <2>3, <3>1 DEF RowGood
  <2>4. CASE /\ cand[r].st \in {"accepted", "rejected"}
             /\ cand'[r] = [cand[r] EXCEPT !.st = "rejected", !.undo = Null]
    <3>1. /\ cand'[r] \in CandRow /\ cand'[r].st = "rejected" /\ cand'[r].at = cand[r].at
      BY <2>1, <2>4 DEF CandRow
    <3> QED BY <2>1, <2>4, <3>1 DEF RowGood
  <2> QED BY <2>2, <2>3, <2>4
<1>2. ASSUME NEW r \in Rows, NEW q \in Rows
      PROVE  SameAnswer(cand'[r], cand'[q])
  <2>1. cand'[r].st = "accepted" => cand'[r] = cand[r]
    BY <1>1
  <2>2. cand'[q].st = "accepted" => cand'[q] = cand[q]
    BY <1>1
  <2>3. SameAnswer(cand[r], cand[q])
    BY DEF CandGood
  <2> QED BY ONLY <2>1, <2>2, <2>3 DEF SameAnswer
<1> QED BY <1>1, <1>2 DEF CandGood, Rows, Base

LEMMA PassBegins ==
  ASSUME TermsGood, CandGood, PassGood, BeginPass
  PROVE  CandGood' /\ PassGood'
<1>1. /\ cand' = [r \in Rows |->
          IF cand[r].st = "accepted" /\ cand[r].term # 0 /\ cand[r].term \notin Live
          THEN [cand[r] EXCEPT !.st = "rejected", !.undo = Null] ELSE cand[r]]
      /\ UNCHANGED <<ops, terms>>
  BY DEF BeginPass, ForgetDeletedTerms, bounds
<1>2. CandGood'
  BY <1>1, RowsRestated
<1>3. PassGood'
  BY DEF BeginPass, NoPass, PassGood
<1> QED BY <1>2, <1>3

LEMMA PassComputes ==
  ASSUME PassGood, Compute
  PROVE  PassGood'
<1>1. PICK found \in Findable, st \in {"pending", "dropped"} :
        pass' = [pass EXCEPT !.pc = "write", !.rows = [r \in found |-> st]]
  BY DEF Compute
<1>2. /\ pass'.pc = "write" /\ pass'.rows = [r \in found |-> st]
      /\ pass' = [pc |-> pass'.pc, sig |-> pass'.sig, rows |-> pass'.rows]
  BY <1>1 DEF PassGood
<1> QED BY <1>2 DEF PassGood

LEMMA PassWrites ==
  ASSUME TermsGood, CandGood, PassGood, WritePass
  PROVE  CandGood' /\ PassGood'
<1>1. /\ pass.pc = "write" /\ pass' = NoPass
      /\ cand' = [r \in Rows |-> [cand[r] EXCEPT !.st = Upserted(r)]]
      /\ UNCHANGED <<ops, terms>>
  BY DEF WritePass, bounds
<1>2. ASSUME NEW r \in Rows
      PROVE  \/ cand'[r] = cand[r]
             \/ /\ cand[r].st \in {"none", "pending", "dropped"}
                /\ \E st \in {"pending", "dropped"} : cand'[r] = [cand[r] EXCEPT !.st = st]
  <2>1. cand[r] \in CandRow /\ cand'[r] = [cand[r] EXCEPT !.st = Upserted(r)]
    BY <1>1 DEF CandGood, RowGood
  <2>2. \/ Upserted(r) = cand[r].st
        \/ /\ cand[r].st \in {"none", "pending", "dropped"}
           /\ Upserted(r) \in {"pending", "dropped"}
    BY <1>1 DEF Upserted, PassGood
  <2>3. CASE Upserted(r) = cand[r].st
    BY <2>1, <2>3 DEF CandRow
  <2> QED BY <2>1, <2>2, <2>3
<1>3. CandGood'
  BY <1>1, <1>2, RowsRestated
<1>4. PassGood'
  BY <1>1 DEF NoPass, PassGood
<1> QED BY <1>3, <1>4

-----------------------------------------------------------------------------
(* Every step.                                                             *)

LEMMA DictInit == GlossaryInit => DictInv
<1> SUFFICES ASSUME GlossaryInit PROVE DictInv
  OBVIOUS
<1>1. terms = <<>> /\ ops = 0 /\ DOMAIN terms = {}
  BY DEF GlossaryInit
<1>2. TermsGood
  BY <1>1 DEF TermsGood, Live
<1>3. SuggGood
  BY DEF GlossaryInit, SuggGood
<1>4. PassGood
  BY DEF GlossaryInit, NoPass, PassGood
<1>5. FileGood
  BY DEF GlossaryInit, FileGood, Rewritten, ThreadRow
<1>6. Unanswered("none") \in CandRow
  BY DEF Unanswered, CandRow
<1>7. RowGood(Unanswered("none"), 0, terms)
  BY <1>6 DEF RowGood, Unanswered
<1>8. SameAnswer(Unanswered("none"), Unanswered("none"))
  BY DEF SameAnswer, Unanswered
<1>9. cand = [r \in Rows |-> Unanswered("none")]
  BY DEF GlossaryInit
<1>10. CandGood
  BY <1>1, <1>7, <1>8, <1>9 DEF CandGood
<1> QED BY <1>2, <1>3, <1>4, <1>5, <1>10 DEF DictInv

LEMMA TransactionKeeps ==
  ASSUME TermsGood, PassGood, FileGood, NEW w \in Threads, Transaction(w)
  PROVE  TermsGood' /\ PassGood' /\ FileGood'
<1>1. PICK ts : Writes(w, ts)
  BY DEF Transaction
<1>2. PICK rewrite \in BOOLEAN : Commit(w, ts, rewrite) /\ (~rewrite => ts = terms)
  BY <1>1 DEF Writes
<1>3. TermsGood'
  BY <1>1, <1>2, CommittedTerms DEF Writes
<1>4. FileGood'
  BY <1>1, <1>2, CommittedFile DEF Writes
<1>5. PassGood'
  BY <1>2 DEF Commit, PassGood
<1> QED BY <1>3, <1>4, <1>5

LEMMA SuggestionSet ==
  ASSUME SuggGood, NEW p \in Pairs, NEW st \in {"none", "pending", "confirmed", "rejected"},
         NEW i, NEW word, sugg' = Suggestion(p, st, i, word)
  PROVE  SuggGood'
BY DEF SuggGood, Suggestion

(* The transactions of threads.                                            *)
LEMMA TransactionStep ==
  ASSUME DictInv, NEW w \in Threads,
         \/ CreateTerm(w) \/ UpdateTerm(w) \/ MergeIntoTerm(w) \/ DeleteTerm(w)
         \/ ConfirmSuggestion(w) \/ UndoConfirmSuggestion(w)
         \/ Accept(w) \/ Reject(w) \/ Undo(w)
  PROVE  DictInv'
<1> USE DEF DictInv
<1>1. Transaction(w)
  BY TermCreated, TermUpdated, TermMerged, TermDeleted, SuggestionConfirmed,
     SuggestionUnconfirmed, AcceptStep, RejectStep, UndoCommits
<1>2. TermsGood' /\ PassGood' /\ FileGood'
  BY <1>1, TransactionKeeps
<1>3. CandGood'
  <2>1. CASE Accept(w) \/ Reject(w) \/ Undo(w)
    BY <2>1, AcceptStep, RejectStep, UndoCommits
  <2>2. CASE cand' = cand
    BY <1>1, <2>2, RowsUnanswered DEF Transaction
  <2> QED BY <2>1, <2>2 DEF CreateTerm, UpdateTerm, MergeIntoTerm, DeleteTerm,
                            ConfirmSuggestion, UndoConfirmSuggestion
<1>4. SuggGood'
  <2>1. CASE sugg' = sugg
    BY <2>1 DEF SuggGood
  <2>2. CASE ConfirmSuggestion(w) \/ UndoConfirmSuggestion(w)
    <3>1. \E p \in Pairs, st \in {"pending", "confirmed"} : \E i, word :
            sugg' = Suggestion(p, st, i, word)
      BY <2>2 DEF ConfirmSuggestion, UndoConfirmSuggestion
    <3> QED BY <3>1, SuggestionSet
  <2> QED BY <2>1, <2>2 DEF CreateTerm, UpdateTerm, MergeIntoTerm, DeleteTerm,
                            Accept, Reject, Undo
<1> QED BY <1>2, <1>3, <1>4

(* What else threads do: a term read, the dictionary read, the file        *)
(* written.                                                                *)
LEMMA ThreadStep ==
  ASSUME DictInv, NEW w \in Threads,
         ReadForMerge(w) \/ ReadDictionary(w) \/ ReplaceFile(w)
  PROVE  DictInv'
<1>1. UNCHANGED <<terms, sugg, cand, pass, version, ops>>
  BY DEF ReadForMerge, ReadDictionary, ReplaceFile, db, files, bounds
<1>2. TermsGood' /\ SuggGood' /\ PassGood' /\ CandGood'
  BY <1>1 DEF DictInv, TermsGood, SuggGood, PassGood, CandGood, Live
<1>3. FileGood'
  <2> USE DEF DictInv
  <2>1. CASE ReadForMerge(w)
    <3>1. PICK i \in Live, a \in Wrongs :
            /\ Free(w)
            /\ thread' = [thread EXCEPT ![w] =
                 [pc |-> "merge", id |-> i, aliases |-> terms[i].aliases \cup {a},
                  also |-> terms[i].also]]
            /\ UNCHANGED <<snap, newest>>
      BY <2>1 DEF ReadForMerge, files
    <3>2. terms[i] \in TermRow /\ i \in Nat
      BY DEF TermsGood, Live
    <3>3. terms[i].aliases \cup {a} \in SUBSET Words /\ terms[i].also \in SUBSET Words
      BY <3>2 DEF TermRow, Words
    <3>4. thread' \in [Threads -> ThreadRow]
      BY <3>1, <3>2, <3>3 DEF FileGood, ThreadRow
    <3>5. Rewritten'
      BY <1>1, <3>1 DEF FileGood, Rewritten, Free, Idle
    <3>6. ThreadRow' = ThreadRow /\ version' = version
      BY <1>1 DEF ThreadRow, Idle, Query, Words
    <3> QED BY <3>1, <3>4, <3>5, <3>6 DEF FileGood
  <2>2. CASE ReadDictionary(w)
    <3>1. /\ thread' = [thread EXCEPT ![w] = [pc |-> "replace", shows |-> version]]
          /\ UNCHANGED <<snap, newest>>
      BY <2>2 DEF ReadDictionary, files
    <3>2. thread' \in [Threads -> ThreadRow]
      BY <3>1 DEF FileGood, ThreadRow
    <3>3. thread'[w].pc = "replace" /\ thread'[w].shows = version
      BY <3>1 DEF FileGood
    <3>4. Rewritten'
      BY <1>1, <3>3 DEF Rewritten
    <3> QED BY <1>1, <3>1, <3>2, <3>4 DEF FileGood, ThreadRow
  <2>3. CASE ReplaceFile(w)
    <3>1. /\ thread[w].pc = "replace"
          /\ snap' = thread[w].shows /\ newest' = Max({newest, snap'})
          /\ thread' = [thread EXCEPT ![w] = Idle]
      BY <2>3 DEF ReplaceFile
    <3>2. thread[w].shows \in 0 .. version
      BY <3>1 DEF FileGood, ThreadRow, Idle, Query
    <3>3. newest' = IF newest >= snap' THEN newest ELSE snap'
      <4> DEFINE P(x) == x \in {newest, snap'} /\ \A y \in {newest, snap'} : x >= y
                 top == IF newest >= snap' THEN newest ELSE snap'
      <4>1. newest \in Int /\ snap' \in Int
        BY <3>1, <3>2 DEF FileGood
      <4>2. P(top) /\ \A x : P(x) => x = top
        BY <4>1
      <4> QED BY <3>1, <4>2 DEF Max
    <3>4. thread' \in [Threads -> ThreadRow]
      BY <3>1 DEF FileGood, ThreadRow
    <3>5. Rewritten'
      <4>1. CASE newest = version
        BY <1>1, <3>1, <3>2, <3>3, <4>1 DEF FileGood, Rewritten
      <4>2. CASE thread[w].shows = version
        BY <1>1, <3>1, <3>2, <3>3, <4>2 DEF FileGood, Rewritten
      <4>3. ASSUME NEW v \in Threads, v # w,
                   thread[v].pc = "query" \/ (thread[v].pc = "replace" /\ thread[v].shows = version)
            PROVE  Rewritten'
        <5>1. thread'[v] = thread[v]
          BY <3>1, <4>3 DEF FileGood
        <5> QED BY <1>1, <4>3, <5>1 DEF Rewritten
      <4> QED BY <3>1, <4>1, <4>2, <4>3 DEF FileGood, Rewritten
    <3>6. ThreadRow' = ThreadRow /\ version' = version
      BY <1>1 DEF ThreadRow, Idle, Query, Words
    <3>7. snap' \in 0 .. newest' /\ newest' \in 0 .. version
      BY <3>1, <3>2, <3>3 DEF FileGood
    <3> QED BY <3>4, <3>5, <3>6, <3>7 DEF FileGood
  <2> QED BY <2>1, <2>2, <2>3
<1> QED BY <1>2, <1>3 DEF DictInv

LEMMA OtherStep ==
  ASSUME DictInv,
         \/ AddSuggestion \/ RejectSuggestion \/ RestoreSuggestion
         \/ BeginPass \/ Compute \/ AbandonPass \/ WritePass \/ Restart
  PROVE  DictInv'
<1> USE DEF DictInv
<1>1. terms' = terms /\ ops' = ops /\ TermsGood'
  BY DEF AddSuggestion, RejectSuggestion, RestoreSuggestion, OnlySuggestions, BeginPass,
         Compute, AbandonPass, WritePass, Restart, db, bounds, TermsGood, Live
<1>2. SuggGood'
  <2>1. CASE sugg' = sugg
    BY <2>1 DEF SuggGood
  <2>2. CASE AddSuggestion \/ RejectSuggestion \/ RestoreSuggestion
    <3>1. \E p \in Pairs, st \in {"pending", "rejected"} : sugg' = Suggestion(p, st, 0, Null)
      BY <2>2 DEF AddSuggestion, RejectSuggestion, RestoreSuggestion
    <3> QED BY <3>1, SuggestionSet
  <2> QED BY <2>1, <2>2 DEF BeginPass, Compute, AbandonPass, WritePass, Restart, db
<1>3. PassGood'
  <2>1. CASE pass' = pass \/ pass' = NoPass
    BY <2>1 DEF PassGood, NoPass
  <2> QED BY <2>1, PassBegins, PassComputes
          DEF AddSuggestion, RejectSuggestion, RestoreSuggestion, OnlySuggestions,
              AbandonPass, WritePass, Restart
<1>4. CandGood'
  <2>1. CASE cand' = cand
    BY <1>1, <2>1 DEF CandGood
  <2> QED BY <2>1, PassBegins, PassWrites
          DEF AddSuggestion, RejectSuggestion, RestoreSuggestion, OnlySuggestions,
              Compute, AbandonPass, Restart, db
<1>5. FileGood'
  <2>1. CASE UNCHANGED <<thread, version, snap, newest>>
    BY <2>1 DEF FileGood, ThreadRow, Rewritten
  <2>2. CASE Restart
    <3>1. PICK w \in Threads : thread' = [v \in Threads |-> IF v = w THEN Query ELSE Idle]
      BY <2>2 DEF Restart
    <3>2. UNCHANGED <<version, snap, newest>>
      BY <2>2 DEF Restart, files
    <3>3. thread'[w].pc = "query" /\ thread' \in [Threads -> ThreadRow]
      BY <3>1 DEF ThreadRow, Query
    <3> QED BY <3>2, <3>3 DEF FileGood, ThreadRow, Rewritten
  <2> QED BY <2>1, <2>2
          DEF AddSuggestion, RejectSuggestion, RestoreSuggestion, OnlySuggestions,
              BeginPass, Compute, AbandonPass, WritePass, files
<1> QED BY <1>1, <1>2, <1>3, <1>4, <1>5

LEMMA DictStep ==
  DictInv /\ [GlossaryNext]_glossaryVars => DictInv'
<1> SUFFICES ASSUME DictInv, [GlossaryNext]_glossaryVars PROVE DictInv'
  OBVIOUS
<1>1. CASE UNCHANGED glossaryVars
  BY <1>1 DEF glossaryVars, db, files, bounds, DictInv, TermsGood, SuggGood, PassGood, FileGood,
              CandGood, Live, ThreadRow, Rewritten
<1>2. CASE GlossaryNext
  BY <1>2, TransactionStep, ThreadStep, OtherStep DEF GlossaryNext
<1> QED BY <1>1, <1>2

(* The inductive invariant of the dictionary, all of it.                   *)
THEOREM DictInvariant == GlossarySpec => []DictInv
BY DictInit, DictStep, PTL DEF GlossarySpec

(* Once no thread has a file to write and no older file replaced a newer   *)
(* one, the snapshot is the dictionary (rewrite_snapshot).                 *)
THEOREM SnapshotCurrent == GlossarySpec => []SnapshotIsCurrent
<1>1. DictInv => SnapshotIsCurrent
  <2> SUFFICES ASSUME DictInv PROVE SnapshotIsCurrent
    OBVIOUS
  <2>1. \A i \in Live : terms[i] \in TermRow
    BY DEF DictInv, TermsGood, Live
  <2>2. \A r \in Rows : RowGood(cand[r], ops, terms)
    BY DEF DictInv, CandGood
  <2>3. \A r \in Rows :
          /\ cand[r].st \in {"none", "pending", "dropped", "accepted", "rejected"}
          /\ Answered(r) <=> cand[r].at # 0
    BY <2>2 DEF RowGood, CandRow, Answered
  <2>4. GlossaryTypeOK
    BY <2>1, <2>3 DEF GlossaryTypeOK, DictInv, TermsGood, SuggGood
  <2>5. Quiet /\ snap = newest => snap = version
    BY DEF Quiet, DictInv, FileGood, Rewritten
  <2> QED BY <2>4, <2>5 DEF SnapshotIsCurrent
<1> QED BY <1>1, DictInvariant, PTL

(* The undo of an accepted word leaves its term as it was before the       *)
(* answer: gone if the answer made it, else with the spellings it had      *)
(* (undo in glossary_mining.py), whatever other threads did to the term.   *)
GivesBack ==
    \A r \in Rows : cand[r].st = "accepted" /\ cand'[r].st = "pending" => GivenBack(r)

LEMMA UndoStep ==
  ASSUME DictInv, NEW w \in Threads, Undo(w)
  PROVE  GivesBack
<1> DEFINE gone == {r \in LastRows : cand[r].st = "accepted" /\ cand[r].term \in Live
                                         /\ (cand[r].undo.created \/ cand[r].undo.aliases # {})}
           q == CHOOSE x \in gone : TRUE
<1>1. /\ gone # {} => /\ Unchanged(cand[q].term, cand[q].undo)
                      /\ terms' = TermUndone(cand[q].term, cand[q].undo)
      /\ cand' = [r \in Rows |-> IF r \in LastRows THEN Unanswered("pending") ELSE cand[r]]
  BY DEF Undo, Commit
<1> SUFFICES ASSUME NEW r \in Rows, cand[r].st = "accepted", cand'[r].st = "pending",
                    cand[r].term \in Live, cand[r].undo.created \/ cand[r].undo.aliases # {}
             PROVE  IF cand[r].undo.created THEN terms'[cand[r].term] = Null
                    ELSE /\ terms'[cand[r].term] # Null
                         /\ terms'[cand[r].term].aliases = cand[r].undo.was
  BY DEF GivesBack, GivenBack
<1> DEFINE i == cand[r].term  u == cand[r].undo
<1>2. r \in gone
  BY <1>1
<1>3. q \in gone
  BY <1>2
<1>4. q \in Rows /\ cand[q].at = cand[r].at /\ cand[q].st = "accepted"
  BY <1>2, <1>3 DEF LastRows
<1>5. cand[q].term = i /\ cand[q].undo = u
  BY <1>4 DEF DictInv, CandGood, SameAnswer
<1> HIDE DEF q
<1>6. terms[i].upd = u.upd /\ terms' = TermUndone(i, u)
  BY <1>1, <1>2, <1>5 DEF Unchanged
<1>7. i \in Live /\ terms[i] \in TermRow /\ i \in DOMAIN terms /\ Live = LiveIn(terms)
  BY DEF DictInv, TermsGood, Live, LiveIn
<1>8. Traceable(cand[r], ops, terms)
  BY DEF DictInv, CandGood, RowGood
<1>9. CASE u.created
  BY <1>6, <1>7, <1>9 DEF TermUndone, Removed, DictInv, TermsGood
<1>10. CASE ~u.created
  <2> DEFINE left == terms[i].aliases \ u.aliases
  <2>1. /\ u.was \cap u.aliases = {} /\ terms[i].aliases = u.was \cup u.aliases
    BY <1>6, <1>7, <1>8, <1>10 DEF Traceable
  <2>2. left = u.was
    BY <2>1
  <2>3. left \in SUBSET Words
    BY <1>7 DEF TermRow
  <2>4. terms' = AliasesOf(terms, i, left)
    BY <1>6, <1>10 DEF TermUndone
  <2>5. TermsGood
    BY DEF DictInv
  <2> HIDE DEF left, i, u
  <2>6. terms' = [terms EXCEPT ![i] = Respelled(i, left)]
        /\ Respelled(i, left) \in TermRow /\ Respelled(i, left).aliases = left
    BY <1>7, <2>3, <2>4, <2>5, TsRespelled
  <2>7. terms'[i] \in TermRow /\ terms'[i].aliases = left
    BY <1>7, <2>6
  <2> QED BY <1>10, <2>2, <2>7, GlossaryAssumption DEF i, u
<1> QED BY <1>9, <1>10

LEMMA OtherAnswersStay ==
  ASSUME DictInv, [GlossaryNext]_glossaryVars, ~\E w \in Threads : Undo(w)
  PROVE  GivesBack
<1> USE DEF DictInv
<1>1. CASE cand' = cand
  BY <1>1 DEF GivesBack
<1>2. ASSUME NEW w \in Threads, Accept(w) \/ Reject(w)
      PROVE  GivesBack
  <2>1. \E rs, refused, i, u : Answer(rs, refused, i, u)
    BY <1>2 DEF Accept, AcceptKnown, AcceptNew, Reject
  <2>2. PICK rs, refused, i, u : Answer(rs, refused, i, u)
    BY <2>1
  <2>3. \A r \in Rows : cand'[r] = cand[r] \/ cand'[r].st \in {"rejected", "accepted"}
    BY <2>2 DEF Answer
  <2> QED BY <2>3 DEF GivesBack
<1>3. CASE BeginPass
  <2>1. \A r \in Rows : cand'[r] = IF cand[r].st = "accepted" /\ cand[r].term # 0 /\ cand[r].term \notin Live
          THEN [cand[r] EXCEPT !.st = "rejected", !.undo = Null] ELSE cand[r]
    BY <1>3 DEF BeginPass, ForgetDeletedTerms
  <2>2. \A r \in Rows : cand[r] \in CandRow
    BY DEF CandGood, RowGood
  <2>3. \A r \in Rows : cand'[r] = cand[r] \/ cand'[r].st = "rejected"
    BY <2>1, <2>2 DEF CandRow
  <2> QED BY <2>3 DEF GivesBack
<1>4. CASE WritePass
  <2>1. \A r \in Rows : cand'[r] = [cand[r] EXCEPT !.st = Upserted(r)]
    BY <1>4 DEF WritePass
  <2>2. \A r \in Rows : cand[r].st = "accepted" => Upserted(r) = "accepted"
    BY DEF Upserted
  <2>3. \A r \in Rows : cand[r] \in CandRow
    BY DEF CandGood, RowGood
  <2>4. \A r \in Rows : cand[r].st = "accepted" => cand'[r].st = "accepted"
    BY <2>1, <2>2, <2>3 DEF CandRow
  <2> QED BY <2>4 DEF GivesBack
<1> QED BY <1>1, <1>2, <1>3, <1>4
        DEF GlossaryNext, glossaryVars, db, CreateTerm, UpdateTerm, ReadForMerge, MergeIntoTerm,
            DeleteTerm, ConfirmSuggestion, UndoConfirmSuggestion, ReadDictionary,
            ReplaceFile, AddSuggestion, RejectSuggestion, RestoreSuggestion,
            OnlySuggestions, Compute, AbandonPass, Restart

THEOREM UndosGiveBack == GlossarySpec => UndoGivesBack
<1>1. DictInv /\ [GlossaryNext]_glossaryVars => [GivesBack]_glossaryVars
  BY UndoStep, OtherAnswersStay
<1>2. ASSUME [GivesBack]_glossaryVars
      PROVE  [\A r \in Rows :
                cand[r].st = "accepted" /\ cand'[r].st = "pending" => GivenBack(r)]_glossaryVars
  BY <1>2 DEF GivesBack
<1> QED BY <1>1, <1>2, DictInvariant, PTL DEF GlossarySpec, UndoGivesBack

=============================================================================
