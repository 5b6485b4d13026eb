--------------------------- MODULE UploadSessions ---------------------------
(***************************************************************************)
(* Uploads of recordings to the workbench (uploads.py), from the first     *)
(* chunk to the job in the relay: a directory per upload with metadata,    *)
(* parts and, once the recording is installed, a receipt; the requests     *)
(* that complete an upload (main.py, complete_upload), and the scan loop   *)
(* that queues what a request left behind (enqueue_pending_uploads).       *)
(*                                                                         *)
(* What happens under the locks of quota and session is one step; a step   *)
(* named Cut is the same work, interrupted by the end of the process.  An  *)
(* upload takes one unit of the quota.  The relay is external: it knows a  *)
(* recording by its content and keeps the hotwords of its job.             *)
(***************************************************************************)
EXTENDS Naturals, FiniteSets

CONSTANTS
    Uploads,          \* upload ids; each is drawn once
    Parts,            \* chunks of an upload
    Requests,         \* complete requests that may run at the same time
    Scan,             \* the scan loop
    Gone,             \* an owner whose process has ended
    Recordings,
    Recording,        \* Recording[u]: what is recorded in the file of u
    HotwordLists, NoHotwords,
    Hotwords,         \* Hotwords[u]: what the user gave with u
    None,             \* no job, no owner, no upload
    Quota,            \* max_incomplete_upload_bytes
    MaxCrashes        \* bound: ends of the process

Processes == Requests \cup {Scan}
Owners    == Processes \cup {Gone}

ASSUME UploadAssumption ==
    /\ Parts # {}
    /\ Scan \notin Requests /\ Gone \notin Processes
    /\ Recording \in [Uploads -> Recordings]
    /\ NoHotwords \in HotwordLists
    /\ Hotwords \in [Uploads -> HotwordLists]
    /\ None \notin Uploads \cup Owners \cup HotwordLists
    /\ Quota \in Nat /\ MaxCrashes \in Nat

VARIABLES
    session,          \* the directory of an upload, with its metadata
    parts,            \* the chunks stored there
    installed,        \* the recording is in the uploads directory
    receipt,          \* the status in receipt.json
    owner, leaseOver, \* enqueue_owner, and whether its lease has run out
    old,              \* the last change is older than the sessions' TTL
    pc, target, todo, \* processes; todo is the list the scan goes through
    jobs,             \* relay: the hotwords of the job of a recording
    crashes

dirVars   == <<session, parts, installed>>
leaseVars == <<receipt, owner, leaseOver>>
procVars  == <<pc, target, todo>>
vars == <<dirVars, leaseVars, old, procVars, jobs, crashes>>

Receipts == {"none", "saved_pending_enqueue", "enqueueing", "queued"}
Waiting  == {"saved_pending_enqueue", "enqueueing"}
Steps    == {"idle", "claim", "enqueue", "mark", "release"}

(* Type correctness; an owner is on the receipt exactly while the upload   *)
(* is being enqueued, and a receipt has a recording and a session.         *)
TypeOK ==
    /\ session \in [Uploads -> {"unused", "open", "removed"}]
    /\ parts \in [Uploads -> SUBSET Parts]
    /\ installed \in [Uploads -> BOOLEAN]
    /\ receipt \in [Uploads -> Receipts]
    /\ owner \in [Uploads -> Owners \cup {None}]
    /\ leaseOver \in [Uploads -> BOOLEAN]
    /\ old \in [Uploads -> BOOLEAN]
    /\ pc \in [Processes -> Steps]
    /\ target \in [Processes -> Uploads \cup {None}]
    /\ todo \subseteq Uploads
    /\ jobs \in [Recordings -> HotwordLists \cup {None}]
    /\ crashes \in 0..MaxCrashes
    /\ \A u \in Uploads :
         /\ owner[u] # None <=> receipt[u] = "enqueueing"
         /\ receipt[u] # "none" => installed[u] /\ session[u] = "open"

Init ==
    /\ session = [u \in Uploads |-> "unused"]
    /\ parts = [u \in Uploads |-> {}]
    /\ installed = [u \in Uploads |-> FALSE]
    /\ receipt = [u \in Uploads |-> "none"]
    /\ owner = [u \in Uploads |-> None]
    /\ leaseOver = [u \in Uploads |-> FALSE]
    /\ old = [u \in Uploads |-> FALSE]
    /\ pc = [p \in Processes |-> "idle"]
    /\ target = [p \in Processes |-> None]
    /\ todo = {}
    /\ jobs = [r \in Recordings |-> None]
    /\ crashes = 0

----------------------------------------------------------------------------
(* Sessions and their removal.                                             *)

Open(u) == session[u] = "open"

(* _cleanup_expired_locked: what is too old, unless it waits for the relay.*)
ExpiredButOwned == {u \in Uploads : Open(u) /\ old[u]
                                    /\ receipt[u] # "saved_pending_enqueue"}
Expired == {u \in Uploads : Open(u) /\ old[u] /\ receipt[u] \notin Waiting}

Remove(gone) ==
    /\ parts' = [u \in Uploads |-> IF u \in gone THEN {} ELSE parts[u]]
    /\ receipt' = [u \in Uploads |-> IF u \in gone THEN "none" ELSE receipt[u]]
    /\ owner' = [u \in Uploads |-> IF u \in gone THEN None ELSE owner[u]]
    /\ UNCHANGED <<installed, leaseOver, todo, jobs>>

(* _reserved_incomplete_bytes, of the sessions that are left.              *)
ReservedByParts(gone) == {u \in Uploads \ gone : Open(u) /\ parts[u] # {}}
Reserved(gone) == {u \in Uploads \ gone : Open(u) /\ receipt[u] = "none"}

(* start: cleanup_expired, then the quota, then the directory.             *)
Start(u) ==
    /\ session[u] = "unused"
    /\ Cardinality(Reserved(Expired)) + 1 <= Quota
    /\ session' = [v \in Uploads |-> IF v = u THEN "open"
                     ELSE IF v \in Expired THEN "removed" ELSE session[v]]
    /\ Remove(Expired)
    /\ UNCHANGED <<old, pc, target, crashes>>

Cleanup ==
    /\ Expired # {}
    /\ session' = [u \in Uploads |->
                     IF u \in Expired THEN "removed" ELSE session[u]]
    /\ Remove(Expired)
    /\ UNCHANGED <<old, pc, target, crashes>>

Cancel(u) ==
    /\ Open(u) /\ receipt[u] = "none"
    /\ session' = [session EXCEPT ![u] = "removed"]
    /\ Remove({u})
    /\ UNCHANGED <<old, pc, target, crashes>>

(* write_chunk does not look at the receipt: a chunk that is sent again    *)
(* may come when the upload is complete.                                   *)
WriteChunk(u, i) ==
    /\ Open(u)
    /\ parts' = [parts EXCEPT ![u] = @ \cup {i}]
    /\ old' = [old EXCEPT ![u] = FALSE]
    /\ UNCHANGED <<session, installed, leaseVars, procVars, jobs, crashes>>

(* Time passes.                                                            *)
Age(u) ==
    /\ Open(u) /\ ~old[u]
    /\ old' = [old EXCEPT ![u] = TRUE]
    /\ UNCHANGED <<dirVars, leaseVars, procVars, jobs, crashes>>

LeaseEnds(u) ==
    /\ receipt[u] = "enqueueing" /\ ~leaseOver[u]
    /\ leaseOver' = [leaseOver EXCEPT ![u] = TRUE]
    /\ UNCHANGED <<dirVars, receipt, owner, old, procVars, jobs, crashes>>

----------------------------------------------------------------------------
(* complete: the recording is installed, then the receipt is written, then *)
(* the parts are removed.  A repeated call goes on where the first one     *)
(* was interrupted.                                                        *)

Installable(u) == installed[u] \/ parts[u] = Parts

Complete(r, u) ==
    /\ pc[r] = "idle" /\ Open(u)
    /\ receipt[u] = "none" => Installable(u)
    /\ installed' = [installed EXCEPT ![u] = TRUE]
    /\ receipt' = [receipt EXCEPT ![u] =
                     IF @ = "none" THEN "saved_pending_enqueue" ELSE @]
    /\ parts' = [parts EXCEPT ![u] = {}]
    /\ pc' = [pc EXCEPT ![r] = "claim"]
    /\ target' = [target EXCEPT ![r] = u]
    /\ UNCHANGED <<session, owner, leaseOver, old, todo, jobs, crashes>>

(* The end of the process takes every request and the scan with it; the    *)
(* owner of a receipt is then nobody.                                      *)
ProcessEnds ==
    /\ crashes < MaxCrashes
    /\ crashes' = crashes + 1
    /\ pc' = [p \in Processes |-> "idle"]
    /\ target' = [p \in Processes |-> None]
    /\ todo' = {}
    /\ owner' = [u \in Uploads |-> IF owner[u] = None THEN None ELSE Gone]

Crash == ProcessEnds /\ UNCHANGED <<dirVars, receipt, leaseOver, old, jobs>>

CutComplete(u) ==
    /\ Open(u) /\ receipt[u] = "none" /\ Installable(u)
    /\ ProcessEnds
    /\ installed' = [installed EXCEPT ![u] = TRUE]
    /\ receipt' \in {receipt,
                     [receipt EXCEPT ![u] = "saved_pending_enqueue"]}
    /\ UNCHANGED <<session, parts, leaseOver, old, jobs>>

(* rmtree removes files one by one, the metadata perhaps last.             *)
CutRemoval(u) ==
    /\ u \in Expired \/ (Open(u) /\ receipt[u] = "none")
    /\ ProcessEnds
    /\ receipt' \in {receipt, [receipt EXCEPT ![u] = "none"]}
    /\ \E left \in SUBSET parts[u] : parts' = [parts EXCEPT ![u] = left]
    /\ UNCHANGED <<session, installed, leaseOver, old, jobs>>

----------------------------------------------------------------------------
(* Queueing, by a request or by the scan.                                  *)

Goto(p, step) == pc' = [pc EXCEPT ![p] = step]

(* claim_enqueue: a receipt that is queued, or in the hands of another     *)
(* whose lease runs, leaves nothing to do.                                 *)
ClaimableUnowned(u) == Open(u) /\ receipt[u] = "saved_pending_enqueue"
Claimable(u) ==
    /\ Open(u)
    /\ \/ receipt[u] = "saved_pending_enqueue"
       \/ receipt[u] = "enqueueing" /\ leaseOver[u]

TakeUp(p, u) ==
    /\ Claimable(u)
    /\ receipt' = [receipt EXCEPT ![u] = "enqueueing"]
    /\ owner' = [owner EXCEPT ![u] = p]
    /\ leaseOver' = [leaseOver EXCEPT ![u] = FALSE]
    /\ Goto(p, "enqueue")
    /\ target' = [target EXCEPT ![p] = u]
    /\ UNCHANGED <<dirVars, old, jobs, crashes>>

Pass(p, u) ==
    /\ ~Claimable(u)
    /\ Goto(p, "idle")
    /\ target' = [target EXCEPT ![p] = None]
    /\ UNCHANGED <<dirVars, leaseVars, old, jobs, crashes>>

Claim(r) ==
    /\ r # Scan /\ pc[r] = "claim"
    /\ TakeUp(r, target[r]) \/ Pass(r, target[r])
    /\ UNCHANGED todo

(* pending(), and one round through what it returned.                      *)
ListPending ==
    /\ pc[Scan] = "idle" /\ todo = {}
    /\ \E u \in Uploads : receipt[u] \in Waiting
    /\ todo' = {u \in Uploads : receipt[u] \in Waiting}
    /\ UNCHANGED <<dirVars, leaseVars, old, pc, target, jobs, crashes>>

ScanClaim(u) ==
    /\ pc[Scan] = "idle" /\ u \in todo
    /\ TakeUp(Scan, u) \/ Pass(Scan, u)
    /\ todo' = todo \ {u}

(* relayctl enqueue: idempotent for the content of the file, but the job   *)
(* that is there keeps its hotwords.                                       *)
Conflicting(u) ==
    /\ jobs[Recording[u]] # None
    /\ Hotwords[u] \notin {NoHotwords, jobs[Recording[u]]}

WithJob(u) == [jobs EXCEPT ![Recording[u]] =
                 IF @ = None THEN Hotwords[u] ELSE @]

RelayEnqueues(p) ==
    /\ pc[p] = "enqueue" /\ ~Conflicting(target[p])
    /\ jobs' = WithJob(target[p])
    /\ Goto(p, "mark")
    /\ UNCHANGED <<dirVars, leaseVars, old, target, todo, crashes>>

(* RelayUnavailable: refused, out of reach, or too late after all.         *)
RelayFailsUnseen(p) ==
    /\ pc[p] = "enqueue"
    /\ Goto(p, "mark")
    /\ UNCHANGED <<dirVars, leaseVars, old, target, todo, jobs, crashes>>
RelayFails(p) ==
    /\ pc[p] = "enqueue"
    /\ \/ jobs' = jobs
       \/ ~Conflicting(target[p]) /\ jobs' = WithJob(target[p])
    /\ Goto(p, "release")
    /\ UNCHANGED <<dirVars, leaseVars, old, target, todo, crashes>>

Owns(p, u) == receipt[u] = "enqueueing" /\ owner[u] = p

Done(p) ==
    /\ Goto(p, "idle")
    /\ target' = [target EXCEPT ![p] = None]

(* mark_enqueued.  A request whose lease went to somebody else ends with   *)
(* an error; the scan releases first, which then changes nothing.          *)
MarkEnqueued(p) ==
    /\ pc[p] = "mark" /\ Owns(p, target[p])
    /\ receipt' = [receipt EXCEPT ![target[p]] = "queued"]
    /\ owner' = [owner EXCEPT ![target[p]] = None]
    /\ Done(p)
    /\ UNCHANGED <<dirVars, leaseOver, old, todo, jobs, crashes>>

MarkRefused(p) ==
    /\ pc[p] = "mark" /\ ~Owns(p, target[p])
    /\ IF p = Scan /\ receipt[target[p]] # "queued"
       THEN Goto(p, "release") /\ UNCHANGED target
       ELSE Done(p)
    /\ UNCHANGED <<dirVars, leaseVars, old, todo, jobs, crashes>>

(* release_enqueue: by its owner only.                                     *)
Release(p) ==
    /\ pc[p] = "release"
    /\ IF Owns(p, target[p])
       THEN /\ receipt' = [receipt EXCEPT
                             ![target[p]] = "saved_pending_enqueue"]
            /\ owner' = [owner EXCEPT ![target[p]] = None]
       ELSE UNCHANGED <<receipt, owner>>
    /\ Done(p)
    /\ UNCHANGED <<dirVars, leaseOver, old, todo, jobs, crashes>>

----------------------------------------------------------------------------
Goon(p) == \/ Claim(p) \/ RelayEnqueues(p) \/ RelayFails(p)
           \/ MarkEnqueued(p) \/ MarkRefused(p) \/ Release(p)
ScanStep == ListPending \/ \E u \in Uploads : ScanClaim(u)

Next ==
    \/ \E u \in Uploads :
         \/ Start(u) \/ Cancel(u) \/ Age(u) \/ LeaseEnds(u)
         \/ CutComplete(u) \/ CutRemoval(u)
         \/ \E i \in Parts : WriteChunk(u, i)
         \/ \E r \in Requests : Complete(r, u)
    \/ \E p \in Processes : Goon(p)
    \/ ScanStep \/ Cleanup \/ Crash

Spec == Init /\ [][Next]_vars

(* The loop and the threads go on, time passes, and a relay that is asked  *)
(* again and again answers at last and in time: a call of relayctl is cut  *)
(* off after 30 seconds, and the lease of 60 is seldom lost meanwhile.     *)
(* Nothing is assumed of users.                                            *)
Fairness ==
    /\ \A p \in Processes : WF_vars(Goon(p))
    /\ SF_vars(\E p \in Processes : RelayEnqueues(p) /\ Owns(p, target[p]))
    /\ SF_vars(\E p \in Processes : MarkEnqueued(p))
    /\ WF_vars(ListPending)
    /\ \A u \in Uploads : WF_vars(ScanClaim(u)) /\ WF_vars(LeaseEnds(u))

FairSpec == Spec /\ Fairness

----------------------------------------------------------------------------
(* The quota holds for the uploads whose recording is not installed yet,   *)
(* with cleaning, cancelling and crashes in between (start counts under    *)
(* the lock that complete, cancel and the cleaner take as well).  (And     *)
(* every variable is of its type.)                                         *)
QuotaKept ==
    /\ TypeOK
    /\ Cardinality({u \in Uploads : Open(u) /\ ~installed[u]}) <= Quota

(* A recording the user was told is saved keeps its session until it is    *)
(* queued, and one that is queued stays so until the session is removed:   *)
(* no crash, late answer, lost lease or cleaner takes it back              *)
(* (cleanup_expired, claim_enqueue, mark_enqueued, release_enqueue).       *)
SavedIsKept ==
    [][\A u \in Uploads :
         /\ receipt[u] \in Waiting => receipt'[u] # "none"
         /\ receipt[u] = "queued" => receipt'[u] \in {"queued", "none"}]_vars

(* What a receipt calls queued, the relay has.  (mark_enqueued writes the  *)
(* receipt after the relay answered, perhaps for another owner.)           *)
QueuedHasJob ==
    \A u \in Uploads :
        receipt[u] = "queued" => jobs[Recording[u]] # None

(* A saved recording becomes a job, whoever crashed or lost a lease on the *)
(* way (enqueue_pending_uploads takes it up in every round); but the relay *)
(* never takes it with other hotwords than a job of the recording has.     *)
SavedIsQueued ==
    \A u \in Uploads : receipt[u] \in Waiting
                       ~> (receipt[u] \notin Waiting \/ Conflicting(u))
=============================================================================
