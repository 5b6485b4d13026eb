# TLA+ models of meeting-stack

meeting-stack turns recordings of meetings into minutes and tasks. A recording
arrives in an inbox, the *relay* transcribes it and has an agent write the
minutes, and the *workbench* imports the minutes, extracts draft tasks,
announces both in a group chat, and publishes what the user has corrected. This
directory holds TLA+ modules of the parts where several actors change the same
rows and files, the TLC configurations that check them on small instances, and
proofs that hold for instances of any size.

Paths below are relative to `src/`; `RC` is `relay/quickstart/relay_control.py`,
`WD` is `relay/quickstart/relay_watchdog.py` and `B/` is
`workbench/backend/meeting_workbench/`.

| module | models | runs | proofs |
|---|---|---|---|
| `RelayJobs` | job queue, worker loop, agent, callback (section 2) | `relay_one_job`, `relay_queue` | `RelayJobsProofs` |
| `RelayArchive` | promotion of finished archives (3) | `archive` | `RelayArchiveProofs` |
| `TaskExtraction` | extraction batches and chat cards (4) | `extraction_batches`, `extraction_served` | `TaskExtractionProofs` |
| `UploadSessions` | resumable uploads (5) | `uploads` | `UploadSessionsProofs` |
| `Publication`, `PublishJournal` | publishing in one step, and how it is done (6) | `publish` | `MinutesProofs` |
| `ExternalChanges` | import of changed files beside drafts (7) | `external` | `ExternalChangesProofs` |
| `QwenShadow` | shadow transcriptions, two leases (8) | `qwen` | `BackgroundProofs` |
| `RequirementLinks` | tasks, requirements, candidates, undo (9) | `requirements` | `RequirementLinksProofs` |
| `Glossary` | dictionary, mined words, snapshot file (10) | `glossary` | `BackgroundProofs` |
| `LinksLoop` | the background worker of the language model (11) | `links` | `MinutesProofs` |

An `MC...` module only gives a run its names, its small constants and its
symmetry. `PROJECT.json` maps every definition to its lines of code.

## 1. Inventory

| part | state | operations | hard because |
|---|---|---|---|
| **job queue** (`RC`, `WD`, `relayctl`) | SQLite tables `jobs`, `attempts` | enqueue, claim, deferrals, stage moves, fail, retry, cancel, stop, recovery of orphans, completion callback, edits, publication | daemon, `run-next` processes, agents, users and the workbench all write; crashes; lost database locks; validation outside the write lock |
| **archive promotion** (`RC` 1553–2380) | directories, promotion journal | promote, resume, acknowledge, clear up | several directories, one journal, crashes between the moves |
| Whisper channel, index state (`RC` 3782, `WD` 1812) | columns of `attempts` | record, retry, release | retries with an owner of its own |
| doorbell, heartbeat, health (`WD` 2436) | a socket, a thread, a row | ring, wait | a bell between look and wait |
| Voice Memos bridge, precheck | files | copy, inspect | external timing |
| **extraction and chat cards** (`B/tasks.py`, `B/notify.py`, the scan loop of `B/main.py`) | tables `task_extractions`, `notifications`, drafts | seed, claim, extract, fail, recover, extract again, post a card, note it | the scan and user requests share batches; the chat confirms late or never; restarts; phases of a scan act on what earlier phases changed |
| **task review, requirements, candidates, merges** (`B/tasks.py`, `B/requirements.py`, `B/requirement_candidates.py`, `B/requirement_merges.py`, `B/project_linking.py`) | tables `tasks`, `requirements`, candidates, merges | confirm, edit, done, expire, merge, drop, move, each with its undo | an undo meets what was done after it; pointers across tables |
| **upload sessions** (`B/uploads.py`) | a directory per upload | start, write, complete, enqueue, cancel, clean up | crash between file and receipt; leases; quota |
| **Qwen shadow runs** (`B/qwen_shadow.py`) | `runtime_leases`, run rows | request, claim, heartbeat, publish | two leases shared by several processes |
| **import** (`B/importer.py`) | versions of transcript and minutes, conflicts | scan, save, roll back, answer | a scan is several transactions; saves and answers fall between them |
| **publication** (`B/service.py`) | directories, journal, rows, conflicts | publish, undo, recover | files and rows in one operation |
| **glossary** (`B/glossary.py`, `B/glossary_mining.py`) | terms, suggestions, candidates, a snapshot file | edit, answer, undo, mine, rewrite | the file is written outside the transaction; a pass computes outside one |
| **links loop** (`B/links_llm.py`, `B/loose_mentions.py`, `B/decisions.py`, `B/decision_pairs.py`) | two work tables, a daily count | claim, call, settle, split, retry, ingest | one call a tick, edits and moves during the call |
| card listener (`workbench/card_listener.py`) | a file of seen ids | poll, handle, remember | at-least-once events |
| ask registry (`B/asks.py`), scan pacing (`B/scan_pacing.py`) | memory | slots, charge and refund; back-off | several paths give the same thing back |
| materials, relations, graph, search | tables, indexes | one transaction per user action; rebuilding of indexes | little: SQLite's writer lock orders them |
| transcription, card layout, frontend, command line | — | computation and presentation | — |

The parts in bold are modelled, in whole or in part; `PROJECT.json` says which
operations are and, under `hazards`, where the code is hard to test.

How the parts interact: the workbench calls `relayctl` (upload, retry, stop,
publication) and scans the archive the relay writes; the relay never calls the
workbench. In the workbench one scan loop, one links worker, one mining pass and
any number of request threads share the database; the chat is a subprocess
(`lark-cli`) that may hang, fail or succeed without telling. The models meet at
these calls: `UploadSessions` has of the relay the two answers of
`relay.enqueue` that `RelayJobs` models in full; `RelayJobs` has of an archive
whether it was complete, `RelayArchive` where it is; `ExternalChanges` has a
publication as one step, which is what `PublishJournal` is shown to implement.

What makes each part correct: the queue gives one recording one job, loses none,
and lets nobody work on a claim he lost; an attempt gets one agent; a
publication never goes back. A promotion is all or nothing. Extraction runs a
batch once and ends every batch; a card reaches the chat, and once. An upload
that was saved becomes a job. A shadow run that lost its lease publishes
nothing. Publishing is one step. A draft survives the import. What a task hangs
on exists, and undo gives back what there was.

## 2. RelayJobs

**State.** `status`, `attempt`, `worker`, `stop`, `retryStage`, `dispatched`,
`failStage`, `keyed`, `dedupTo` and `published` are the columns of `jobs` that
guards read; `attStatus`, `paneDefers` and `sourceDefers` those of `attempts`.
A job that is `absent` has not been enqueued. Of each process, `pc` names the
next transaction and `held`, `heldAttempt`, `startStage` are what
`process_controlled_claim` keeps in local variables. `agent`, `callback` and
`publishing` are the agent of an attempt, the completion callback and the
`mark_published` call that may be under way for it; a call remembers what it
validated against. `paneTaken`: a person works in the tmux pane of the agents,
or `tmux` and `ps` do not answer; a round of the daemon then ends before it
looks at any job (`WD` 2421), and a dispatch is put off (`WD` 2256).

**Grain.** Every method of `RelayControl` that writes is one `BEGIN IMMEDIATE`
transaction and so is one action. Two methods validate files between two
transactions (`complete_minutes`, `mark_published`): each is several actions
(`CallbackBegin`, `CallbackInvalid`, `CallbackCommit`, `CallbackStop`,
`CallbackEnd`; `PublishBegin`, `PublishCommit`, ...), and every other actor may
act in between. Work that the database does not see (transcribing, hashing,
tmux) is the time between two actions.

| actions | code |
|---|---|
| `Enqueue` | `RelayControl.enqueue`, from the daemon (file not hashed) and from `relayctl` |
| `ReconcileHandoffs`, `RecoverOrphans`, `Claim`, `NothingToClaim` | a round of `run_control_worker_once`; `run-next` does the last two |
| `DeferUnstableSource`, `SourceChanged`, `SourceDuplicate`, `SourceRecorded`, `BackToQueued`, `StartTranscribing`, `TranscriptReady`, `DeferDispatch`, `StartMinutes`, `ResumeMinutes`, `SendToAgent`, `RecordDispatched`, `KeepBooks`, `StopBetweenStages`, `GoOnBetweenStages` | the stages of `process_controlled_claim` |
| `WorkerFail`, `GiveUp`, `DropDispatchDebt`, `Crash`, `Restart` | its exception handlers, `_settle_pending_claims`, the end of the process |
| `AgentExit`, `Callback...` | the agent in its pane and `complete_minutes` |
| `TakePane`, `LeavePane` | what `_agent_pane_available` sees of people and of `tmux` |
| `Retry`, `Withdraw`, `StopAfterStage`, `MarkDraftModified`, `Publish...` | the operations of users and of the workbench |

A process that ends leaves its name on the rows it claimed. The model writes
`Gone` there at once (`Departed`): what `_worker_process_is_alive` would find
out from pid and start time when somebody asks.

**Runs.**

* `relay_one_job`: one job over two attempts, the daemon and one `run-next`
  process, one deferral of the dispatch, late callbacks and publications of an
  attempt that was retried meanwhile. `TypeOK` (which carries the limits of the
  deferrals, compared before they are incremented), `AttemptRows` (job and
  attempt rows agree, so that no compare-and-swap can fail for ever),
  `QueuedCanBeClaimed`, `PublishedIsCurrent`, `ClaimIsHeld` (who works on an
  attempt holds it, or lost it to a stop by an old callback). Two attempts are
  needed and enough for a late call of an old attempt to meet a newer one.
* `relay_queue`: two files of one recording, one attempt each, one wait for a
  growing file, one fault (`MaxFaults`: the end of a process, a lost lock, an
  exception). `DuplicatesPointHome`, `AgentStartedOnce`, and under fairness
  `EveryJobMoves`: once the agents' pane is left for good, no job stays in a
  working state, and the queue is served unless a claim was lost in it
  (`LostInQueue`, see section 13). That people leave the pane is a premise of the
  property, not fairness. It is not enough that the pane is free again and again:
  then every round of the daemon may fall into a time when it is taken.

**Fairness** (`FairSpec`): a process goes on with its stages, the daemon's loop
runs and is started again when it died (`docs/install.md` keeps it resident),
and an agent ends: it runs non-interactively and falls back to the shell by
itself (`dispatch_to_cc1`, `WD` 1334; an agent that hangs blocks the relay).
Nothing is assumed of users, not even that they leave the pane, of `run-next`
processes starting, or of the callback: an agent may end without one
(`reconcile_codex_handoffs` is there for that).

**Bounds.** `MaxAttempts` (retries) and `MaxFaults` bound the instance; the
deferral limits are constants of the code, taken small. Faults are in
`relay_queue` only; the proofs are free of all of these bounds.

## 3. RelayArchive

**State.** `status`, `attempt`, `archiveDir`, `publishedDir`, `failureNoted` are
the row of one job; `dir` is what is at each place (a visible name or the
hidden directory of an attempt), `recovered` the drafts set aside, `journal` the
promotion journal of each attempt, `promoting` the holder of the archive lock,
`receipt` a `mark_published` call under way. A directory is known by the attempt
it is of and by whether it was published.

**Grain.** A promotion is one step per write of the journal and per move
(`Prepare`, `MoveOld`, `OldMoved`, `Retarget`, `Install`, `NewInstalled`,
`UpdateRow`, `DropJournal`, and `Collide` where the names clash); it may fail
(`Fail`) or the process end (`Crash`) between any two. `CompleteMinutes` and
`Retry` are transactions of the relay that take no archive lock, and so fall in
between; a publication is `PublishInPlace` or `PublishFromHidden`, then
`ValidateReceipt` and `CommitReceipt`, `RefuseReceipt` or `ClearSource`.

**Run** `archive`: `NoAttemptLost` (a completed attempt is somewhere:
hidden, visible or set aside), `RowFindsArchive` (the row leads to the
directory, or a promotion can be taken up), `PublishedStays` (what is published
is never moved or replaced), `PromotionEnds`. Two attempts, two crashes and one error;
four names, because suffixes are drawn until one is free (`NameLeft`). Fairness:
`Promote`, `Receive`, `ClearPublished`, which the daemon retries each round.
Left out: the older layer of visible drafts, fixtures that stay hidden, clean-up
of local audio.

## 4. TaskExtraction

**State.** `version` and `kind` are the current minutes of a meeting; `rows` is
`task_extractions`, a batch being named by its meeting and its number there
(AUTOINCREMENT never reuses an id, so the model never reuses a number);
`drafts` is the batch whose tasks are the drafts of a meeting. `at` and `job`
say where the scan and each request are; `todo`, `held`, `cards`, `card` are the
local lists of a scan. `minutesPosts` and `draftPosts` count what the chat
really got, `minutesSent` and `draftSent` are the ledger. `stale` is set when
ten minutes have passed since the claim (`ClaimAges`), whoever has the batch: a
dead executor, a call that takes long, or a scan that is still busy with other
batches of its round. `overrun` is observed only: the batches that `Recover` took
back while somebody still had them (`Carried`).

**Grain.** A step is one transaction, one call of the language model or one post
to the chat. The scan goes through its phases in the order of the code: glossary
check (`CheckMinutes`), `Recover`, `Seed`, minutes cards (`SelectMinutes`,
`MinutesPosted` / `MinutesUnconfirmed`, `MinutesNoted`), `Select`, `Claim`,
`StartBatch`, and for each batch `Extracted`, `Unavailable` or `ScanFails`, then
its card (`DraftPosted`, `DraftNoted`, `DraftUnconfirmed`). A request is
`AskAgain`, `Accepted` or `Refused`, and the same call and card. `ScanAborts`,
`RequestAborts` and `Restart` may come between any two steps. Minutes change by
`Import`, `SaveDraft` and `Publish`.

**Runs.**

* `extraction_batches`: an upgraded installation, one version of the minutes, three
  batches, one request with or without a supplement, calls of any length, cards
  that are lost or not confirmed, one restart or exception anywhere.
  `OneRunPerBatch` (with the types and the unique index), `DraftCardOnce`. Both
  hold over slow calls and long rounds, but for a batch that the scan took back
  while a request was still calling the model for it (`overrun`, section 13): the
  two may then call for it at a time, it may wait with its tries used up, and its
  card may come twice. Even then it is the scan and a request that meet, never two
  requests, and the meeting has one batch per version and supplement. Three
  batches are the old one that seeding skips, one that a request puts in its place
  and one that the scan seeds beside it.
* `extraction_served`: an upgraded installation, three versions of the minutes,
  edits, the glossary check and slow calls, without requests. `RunningEnds`, `PendingServed` (a batch of current minutes is done
  or given up, with a key), `MinutesCardArrives`.

**Fairness.** The scan loop and the threads of requests go on; time passes; and
a minutes card that is tried again and again arrives at last (strong fairness of
`MinutesPosted`: the code retries it each round for ever, and a chat that never
answers again defeats any program). Users, keys and imports are not fair.

## 5. UploadSessions

**State.** `session`, `parts`, `installed`, `receipt`, `owner`, `leaseOver`,
`old` are an upload's directory and its JSON files; `pc`, `target`, `todo` are
the requests and the scan; `jobs` is what the relay knows of a recording.

**Grain.** What is done under the quota and session locks is one step; `CutComplete`
and `CutRemoval` are the same work interrupted, since a crash may fall between
the installed file and its receipt. Queuing is `Claim` or `ScanClaim`, the call
of `relayctl` (`RelayEnqueues`, `RelayFails`, `RelayFailsUnseen`: the job may
be made without an answer) and `MarkEnqueued`, `MarkRefused` or `Release`; the lease
may end between any two.

**Run** `uploads`: `QuotaKept`, `QueuedHasJob` (a receipt that says queued has a
job in the relay), `SavedIsKept` (nothing removes a saved recording that is not
queued), `SavedIsQueued` (it is queued at last, except where the relay refuses
it, `Conflicting`, section 13). Two uploads of one recording with hotwords of
their own, one part, one request beside the scan, one crash. Fairness: processes
go on; the relay at last answers an owner within its lease (its call is cut at
30 s, the lease is 60 s) and he gets to note it.

## 6. Publication and PublishJournal

**Abstract.** `Publication` is what a user is promised: the archive shows a
publication, which takes effect in one step and holds the draft of that instant.

**State.** `PublishJournal` has the directory at the archive path, the hidden
`work` and `backup` directories of each publication and its journal, what the
database says (`published`, `committed`, `flag`), and of the holder of the
archive lock the procedure (`pc`), the publication (`tok`) and the moves it has
still to make (`plan`). The three ways of installing (exchange, staged renames,
first installation) are three plans; undoing, recovery and clearing up are plans
as well, chosen from what is found (`Rollback`, `Resolutions`).

**Run** `publish`: two publications, one edit of the draft and of the archive,
two crashes and two errors anywhere, also within undoing and recovery.
`PublishesAtOnce` is the refinement: `Promised!Spec` under the mapping in which
the archive shows what the row calls published. `QuietIsPublished` (when nothing
is under way and no journal is left, the archive is the published one),
`RestoredOrFlagged` (a recovery restores what the database tells of, or flags),
`ServesAgain`. Two publications are needed for a journal of an earlier one to be
found by the recovery of a later one. Fairness: whoever holds the lock goes on,
and a stopped workbench starts again. Left out: legacy journals, the phase (only
checked to be known), other kinds of conflicts, three renames in place of the
exchange on systems without one.

## 7. ExternalChanges

**State.** `disk` is the files of one meeting, `rows`, `home`, `sig`, `ver`,
`cur`, `con` its rows; `scan` and `answer` are the running scan and the answer
to a conflict, with what they read before. Two are observed only: `cut`, a source
acknowledged by a scan that did not get to take it in, and `over` of a scan and
of the conflict it opens, that an answer replaced drafts while the scan ran.

**Grain.** `Look` is the scan's read of files and row and its choice of branch;
what it then does is a list of transactions (`Index`, `Sign`, `StoreTranscript`,
`ImportMinutes`, `OpenConflict`, ...), between which `SaveDraft`, `EditSegments`,
`Rollback`, and the answers (`CheckSource`, `KeepDraft`, `ReplaceDraft`) fall.
The archive lock keeps `Publish`, `WhisperArrives` and `Promote` out of a scan.

**Run** `external`: `DraftsKept` (an import never replaces a draft that was
there when the scan looked), `UpToDate` (an acknowledged source is shown or was
declined), `ChangesNoticed` (a change is taken in or put before the user).
`MaxEvents` 3, shared by edits of files, drafts, rollbacks, Whisper's files,
promotions, new minutes and scans cut off; `MaxAnswers` 2. Fairness: the scan,
every 15 s; nothing makes a user answer. Three events do not reach the
exception `over` makes (section 13): it needs a draft, two edits of the file and
a roll-back. With four, and `over` left out of `cut`, TLC finds `UpToDate`
violated in 33 steps; with four and `over` it holds (22.7 million states without
Whisper's files and promotions, more than a run here spends), and it is proved for
any number of events and answers (section 12).

## 8. QwenShadow

**State.** `runs` is `asr_shadow_runs`, `worker` the row of `runtime_leases`,
`versions` the transcripts made; of each service `pc`, `current`, `heard`,
`leaseLost`; `beats` are its heartbeat threads.

**Grain.** A transaction is a step: `Recover`, `Claim`, `Read`, `Check`,
`Publish`, `MarkFailed`; a heartbeat (`Beat`, `BeatStops`) is an actor of its
own. Both leases of a run are written with one time and so run out together
(`LeaseEnds`).

**Run** `qwen`: two services on one database, two runs, one crash, error, stall
and changed recording each. `LeasesAgree`, `ReadyHasItsTranscript` (a ready run
has exactly one transcript, of the recording it was asked for, and no other run
has one), `RequestsEnd`. Fairness: services go on and leases run out; a claim that
becomes possible again and again is made.

## 9. RequirementLinks

**State.** `pool` is the database: tasks, requirements, candidates, merges, the
project of the meeting, and four observed sets (`opened`, `lapsed`, `astray`,
`strayed`: what no step reads and some property tells of, section 13).
An operator named by a participle (`Merged`, `Unmerged`, `Dropped`, ...) is the
database after an operation, `May...` its condition; an action is the one under
the other, since each is one transaction. This is also what lets `UndoRestores`
compose an operation with its undo in every reachable state. `TypeOK` gives the
columns of each row (`TaskRow`, `ReqRow`, `CandRow`, `MergeRow`, `MoveRow`).

**Run** `requirements`: all operations and undos in any order on one task, one
candidate and three requirements in two projects. `LinksAgree`, `PointersLive`,
`ReopenedIsSettled` (a requirement a merge reopened is closed again by the undo
of the last one; exempt are the records that the code loses, which `lapsed` and
`astray` name), `UndoRestores`. Three requirements are needed for a merge
into what is merged in turn; `MaxOps` 3, beside any number of undos. Requirements and projects are
interchangeable (`SYMMETRY`). Left out: undo windows (an undo may always still
come), names, folders, sources, priorities, decisions, merging projects.

## 10. Glossary

**State.** `terms`, `sugg`, `cand` are the tables, `pass` the mining pass with
what it read, `thread` what each request thread has still to do, `snap` the
version of the dictionary the snapshot file shows.

**Grain.** A request is one transaction and then, outside of it,
`ReadDictionary` and `ReplaceFile`. A pass is `BeginPass`, `Compute`,
`WritePass` or `AbandonPass` (the signature changed).

**Run** `glossary`: one mined word with two misheard spellings, one suggestion,
two threads, four writes and one hand edit or restart. `SnapshotIsCurrent` (once all
threads are done the file shows the dictionary as it is, except after the race
of section 13), `UndoGivesBack` (undoing an accepted word leaves the term as it
was). No liveness. Spellings and threads are
interchangeable.

## 11. LinksLoop

**State.** `ext` and `scan` are the work tables `mention_extractions` and
`decision_scan`, `w` the worker's current job, `hold` and `used` its pause and
the calls of the day; `sent`, `compared`, `missed` are observed only.

**Grain.** A tick (`Tick`) is recovery, seeding, planning and a claim, then the
call and its outcome (`PartAnswered`, `PartCutOff`, `PairAnswered`, `BadReply`,
`CallError`, `ProcessDies`); publications, edits, moves and user retries fall between.

**Run** `links`: two meetings, one with a transcript, two projects.
`PairsCompared` (finished means compared with every meeting of the project, but
`missed`, section 13; compared means planned and answered, since how many
decisions a call takes and which resemble each other is left out), `PartsCoverText` (every part counted as done was sent, in whatever layout; a
finished transcript whole, up to the last part allowed), `WorkEnds`. Six lines and four part limits make a text split and split again.
Fairness: the worker ticks, days pass, back-offs end, keys are set at last,
meetings are ingested, claims age, retries fall due.

## 12. What is proved

The theorems hold for every value of the constants: any number of jobs,
attempts, processes, uploads, publications, runs, versions, crashes and faults.
They assume what the modules' ASSUMEs say of the constants: bounds are naturals,
names that must differ do. `PROJECT.json` lists the theorems; every invariant a
theorem states is also checked by a run, and so was each inductive invariant
before it was proved (as an invariant of the run of its module).

| module of proofs | theorem | states |
|---|---|---|
| `RelayJobsProofs` | `TypeCorrect`, `TablesAgree`, `PublishedCurrent`, `QueueClaimable` | `TypeOK`, `AttemptRows`, `PublishedIsCurrent`, `QueuedCanBeClaimed` |
| | `PublicationAdvances` | `PublishedOnlyAdvances`, an action property |
| | `ClaimHeld`, `AgentOnce`, `DuplicatesHome` | `ClaimIsHeld`, `AgentStartedOnce` (action), `DuplicatesPointHome` |
| `RelayArchiveProofs` | `AttemptsKept`, `RowFinds`, `PublishedRemain` | `NoAttemptLost`, `RowFindsArchive`, `PublishedStays` (action) |
| `TaskExtractionProofs` | `BatchesOnce`, `DraftCardsOnce` | `OneRunPerBatch`, `DraftCardOnce` |
| `UploadSessionsProofs` | `QuotaHolds`, `QueuedInRelay`, `SavedStays` | `QuotaKept`, `QueuedHasJob`, `SavedIsKept` (action) |
| `MinutesProofs` | `QuietPublished`, `Restored`, `PublishesOnce` | `QuietIsPublished`, `RestoredOrFlagged` (action), `PublishesAtOnce` (the refinement) |
| | `PartsAreCovered`, `PairsAreCompared` | `PartsCoverText`, `PairsCompared` |
| `ExternalChangesProofs` | `DraftsStay`, `ShownUpToDate` | `DraftsKept` (action), `UpToDate` |
| `BackgroundProofs` | `ShadowLeases`, `ShadowTranscripts` | `LeasesAgree`, `ReadyHasItsTranscript` |
| | `SnapshotCurrent`, `UndosGiveBack` | `SnapshotIsCurrent`, `UndoGivesBack` (action) |
| `RequirementLinksProofs` | `LinksAgreed`, `PointersLiving`, `UndosRestore` | `LinksAgree`, `PointersLive`, `UndoRestores` |
| | `ReopenedSettled` | `ReopenedIsSettled` |

None of these is inductive as it stands. The arguments:

* **RelayJobs, the tables.** `Rows` joins the three invariants with `Unborn` (a
  job that was not enqueued has no stop request and no publication) and
  `PublishedBefore` (a publication belongs to an attempt not newer than the
  current one). The moves that could break `PublishedIsCurrent` are those of a
  call that validated earlier: `PublishCommit` compares status and attempt again
  (`AsValidated`), and this is the fact the proof uses.
* **RelayJobs, the claims.** `Holders`: who has a claim, or still owes a write
  about one, holds an attempt that is the row's or an older one, and nobody else
  holds it. `Carried`: an attempt its process has not yet sent has no agent, and
  the row is at the stage where the process is, unless the attempt was
  interrupted (`InOrder`). `Untouched`: no agent has seen an attempt that waits
  or is still to come (`Fresh`). `ClaimHeld` and `AgentOnce` follow from these.
  `DuplicatesHome` needs that one job keeps a recording (`OneHome`) and that a
  duplicate has no keys and no agent, so nothing moves it but the failure of its
  worker (`Settled`).
* **RelayArchive.** A promotion acts only for the newest attempt that has a
  journal (`InTurn`), and while it or the row still needs the journal nobody
  else makes or removes visible drafts. So once the older ones are set aside the
  target is the only visible draft (`Installing`), and the row is turned to it
  with the directory in place (`RowPoints`).
* **TaskExtraction.** Who carries a batch, in which list, and that nobody else
  does (`Carriers`); rows are inserted in order (`Fresh`), so that a request's
  batch is nobody's; `TriesLeft`. A scan that recovers carries nothing itself, so
  that only a batch of a request can be overrun; of such a batch each part says
  what is left: it was inserted, and the second to carry it is the scan.
* **UploadSessions.** Whoever calls the relay aims at a saved upload
  (`Aimed`), and the relay never takes a job back. That the open
  sessions are finitely many is part of the invariant, since nothing bounds the
  set of upload ids; a start counts all unfinished ones before it reserves.
* **PublishJournal.** The moves still planned fit the directories as they are
  (`Fits`: as an installation, backwards, or clearing up), so none overwrites or
  drops anything but the directory of the publication at hand. What the
  journal of an earlier publication tells of need not be known: recovery looks at
  the directories, and the moves it chooses fit whatever it found. `Recoverable`
  says that the content published last is in place or within reach of recovery;
  with it every step maps to a step of `Publication` or a stutter, the commit to
  `Publish`.
* **ExternalChanges, the drafts.** A number that is kept names a version
  (`Numbered`); a scan that imports has judged, from what it saw, that there is no
  draft (`Judged`), so a draft that gives way was saved after it looked.
* **ExternalChanges, what is shown.** `Sound` has ten parts. A disk that somebody
  remembers is the disk of an earlier time (`Earlier`: every change makes a text
  never seen, or adds Whisper's files, or moves the directory), so a source that
  equals the disk now is the one the running scan looked at (`Newest`), and an
  answer under way is to the open conflict (`Paired`). What a conflict says of
  such a source is true of the versions (`Offers`, `Captures`), and stays so
  because a version that is not a draft keeps its text (`Firmer`). What the other
  branches have done so far is `Imports`, `Lates`, `Keeps`, in the order of their
  transactions (`Planned`). Then `Acknowledged`: the words of an acknowledged
  source are kept in a version no draft can rewrite, and are shown, or there is
  a draft that the running scan will not overwrite. `UpToDate` speaks of idle
  moments only; the moments between transactions need all of this. Each step
  keeps the parts it does not touch by a lemma per part (`OffersKept`,
  `CapturesKept`, ...).
* **QwenShadow.** The two rows agree after every transaction (`Agree`), and what
  a service heard lies between the audio asked for and the one there now
  (`HeardAsked`); the check before publishing closes the gap.
* **RequirementLinks.** The invariant (`Good`) is stated of the tables, not of
  the variable, so that each operation is a lemma about the tables it leaves:
  every row keeps to its columns, a task hangs on a requirement that is there
  and has its project unless it was moved away (`GoodTask`), a merge leads from a
  requirement that is gone to one that is there (`GoodMerge`), a candidate that
  waits is as it was made (`GoodCand`). A merge and its undo are taken table by
  table (`MergedTables`, `UnsettledTables`). `UndoRestores` composes an operation
  with its undo in any state the invariant allows, and follows each row there and
  back (`TaskBack`, `CandsBack`, `MergesBack`, `SettledBack`). It rests on the
  clock being ahead of every stamp, so that nothing happened "later" than what is
  undone, and on NULL being no note of an undo (`NullAssumption`), so that a row
  that carries none is not taken for one that does.
* **RequirementLinks, what is reopened.** Nothing about the requirement itself says
  that its record is still somewhere: `settle_reopen` gives it to a later merge,
  a merge of the requirement takes the candidate that has it along and its undo
  brings it back, and each of these may be undone in any order. `Settling` says
  where it is. A requirement's last changes are in order, and no stamp of a merge
  is a change of two requirements (`TurnsGood`; for one merged away, of the row it
  will come back with). A record is of such a stamp, and not newer than what it
  goes back to (`RecordsGood`). Merges chained to one another are nested and
  lead to the same place (`ChainsGood`); those that took a candidate along since
  it was merged form one chain (`TakersGood`, unless it went astray), so that it is
  known whose record it has (`Owns`). And each stamp of a merge that is among a
  requirement's last changes and has not lapsed is in a record of it (`Kept`).
  A merge of requirements and its undo are taken as a change of the chains
  (`MergesOn`, `MergesOff`), of the candidates, and of the records, one lemma
  each. The proof found that the property did not hold as first stated, beyond
  the bounds of the run: section 13, Requirements, has the two sequences.

* **Glossary.** `DictInv` has five parts. `Rewritten`: the dictionary as it
  is now has been written to the file, or some thread has read it and will write
  it, or is still to read; every operation that skips the rewrite must be shown
  to have changed no entry (`Content`). `Traceable`: as long as a term has the stamp an answer left
  it with, its spellings are those it had before and those the answer added;
  every write that leaves a term alone keeps its stamp, and every other one gives
  it one no answer has (`TsGood`, stated of the table an operation leaves).
  `SameAnswer`: rows accepted at one time are of one term and carry one undo. `UndosGiveBack` follows for the step of `Undo`; no
  other step turns an accepted row back to pending (`OtherAnswersStay`). That
  no row equals NULL is assumed (`GlossaryAssumption`).
* **LinksLoop, the parts.** `Mentions`: a row that goes on has a layout of its
  number of parts, and the parts it counts as done were sent (`ExtGood`); the
  worker's call is for the row as it is, in that layout (`CallGood`), which no
  edit, new transcript, claim of somebody else or retry changes while the row is
  running. A number of parts written back must lead to the same layout
  (`LeadsBack`, `LayoutStays`), and a split may count a finer part as done only if
  it lies within what was sent (`CoverIs`, `WithinIs`). That the packing leaves no
  line out (`PackIs`) is by induction over the lines, for every text, limit and
  overlap: the library's induction theorems take an operator as a parameter,
  which the provers cannot instantiate, so it is said of sets of numbers
  (`NatSet`) and rests on `<` being well-founded; the recursive functions of the
  model are shown to exist first (`SumsExist`, `PartsExist`).
* **LinksLoop, the comparisons.** `Pairs`: any two rows done are compared or missed
  (`PairsGood`), and the plan of the worker knows of every other row that is done
  (`Planned`), although it was read before the claim, the call and the write. An
  import between them never makes a row done: it leaves one done, with the same
  decisions in the same project, or queues it again or closes it without any
  (`SameDone`); and it turns the version, by which the worker sees at the end that
  the decisions it planned with are the ones there (`ScanGood`).

Lemmas state once what the helpers do: compare-and-swaps (`MoveRows`), plans
that go on (`PlansGoOn`, `InstallationGoesOn`), the sequence of stored versions
(`StoredFile`), the least free name (`LeastNumber`), row moves (`RowMovesKeeps`), tables in which some rows are
replaced (`SomePut`, `HungRows`, `CandsMoved`).

**Only model-checked:**

* All liveness: `EveryJobMoves`, `PromotionEnds`, `RunningEnds`,
  `PendingServed`, `MinutesCardArrives`, `SavedIsQueued`, `ServesAgain`,
  `ChangesNoticed`, `RequestsEnd`, `WorkEnds`. Fairness and ENABLED are out of
  the prover's reach.

## 13. Where code and documentation part

None of these has a run of its own; the properties except or allow them, by the
name given, and the models contain them.

**Relay.**

* A claim let go between `queued` and `transcribing` is taken back by nobody,
  though `WD` 2349 says the next round does: `recover_orphaned_claims` looks at
  active states only. As the head of the queue it blocks the jobs behind it
  (`LostInQueue`).
* A job that waited for its file passes through `queued` on its way to
  `transcribing`; a `run-next` that looks in between finds no active job, and
  two jobs are worked on at a time.
* An exception after the prompt was sent fails the attempt whose agent is at
  work (`WorkerFail` at `books`; `WD` 2335 says it may not). The end of an old
  callback carries out a stop that was asked of a newer attempt
  (`CallbackStop`; the second disjunct of `ClaimIsHeld`).

**Extraction.**

* After a re-extraction with a supplement, seeding finds no row with the empty
  supplement and queues the same minutes again; the result replaces the drafts
  the user asked for. A slow request for older minutes replaces newer drafts.
* After ten minutes `B/tasks.py` 2117 takes a batch for one that a crash left
  behind, while the client's time-out bounds each read only (`B/llm.py` 5): the
  batch of a request that is still calling is put back and may run beside it, be
  left pending with its tries used up, and have its card posted twice (`overrun`).
* A draft card that failed is never sent again, though `B/tasks.py` 2553 says
  the next round does.
* A task card may come before the card of its minutes; minutes whose post was
  not confirmed are posted again; the scan may work on a meeting beside a
  re-extraction of it; an empty table is taken for a first run also on a fresh
  installation, and a re-extraction before the first scan has the whole old
  backlog queued; when the glossary check saves a corrected draft before the
  first scan, the minutes are neither announced nor extracted.

**Uploads.** An upload whose recording has a job with other hotwords is refused
by `relay.enqueue` for ever (`RC` 3382) and tried again each round
(`Conflicting`). A late `write_chunk` after completion stores parts outside of
the quota. An installed file whose session ends before its receipt remains.

**Publication.** A crash that cuts the removal of a work directory leaves one
without a manifest: `uncommitted_state_ambiguous` at every start, and publishing
stays blocked (`B/main.py` 3578). `_finish_publish_recovery` removes the journal
before it closes the conflict. Hand edits made between the copy and the exchange
are swapped out and deleted. A failed undo leaves uncommitted content unflagged
until the next start. With the archive root missing, recovery returns at once
(`B/service.py` 1268) and the journals wait for another start; the models have
the root in place.

**Import.** A draft saved after the scan has looked is replaced by the import
(the exception of `DraftsKept`), contrary to `workbench/README.md` 351 and 440.
A scan cut off between `source_signature` and the versions is not made up for
(`cut`). Files indexed while they are edited, and then moved or joined by
Whisper's, are signed and never imported (`cut`). A conflict left open when a
Whisper refresh signs over it can be accepted but not declined any more
(`B/main.py` 3606). `keep_draft` after the draft was given up acknowledges a
source that is not shown. An answer takes no archive lock (`B/main.py` 3559): if
it lands while a capture is on its way that has already judged a version to be
unchanged (`B/importer.py` 1932), the conflict the capture opens does not name
that version, and accepting it acknowledges a source whose words are not what is
shown (`over`). `publish` overwrites external edits made after the
last scan.

**Requirements.** `project_linking.undo_reassign` takes a task's project back
although it meanwhile hangs on a requirement of the new project, against the
invariant of `B/tasks.py` 366 (`strayed`). `settle_reopen` (`B/requirements.py`
576) says that the last undo closes a reopened requirement, in whatever order
the undos come, and `unmerge_candidate` (`B/requirement_candidates.py` 1230) that
a requirement goes back once all that came in is undone. It does not always:

* Of two merges that reopened one requirement, the undo of one may leave it open
  (`lapsed`).
* A candidate has room for one record: handed another (`B/requirements.py` 617),
  it loses its own. Requirements r and m are done; x is merged into m and
  reopens it; c is merged into r and reopens it; r is merged into m and takes c
  along; x is undone and hands m's record to c, in place of r's; after r is undone
  in turn, nobody has the record r was reopened with (`lapsed`).
* The undo of a merge takes back every candidate it had taken along and finds
  merged where it led, though it was merged there anew since
  (`B/requirement_merges.py` 508). Candidate c is merged into r1, r1 into r2; c is
  undone, r2 set to done, c merged into r2 anew, which reopens it; r1 is undone and
  c moves back to it. Nothing is merged into r2 any more, which stays open, and
  the undo of c looks at r1 (`astray`).

**Glossary.** Two concurrent `rewrite_snapshot` calls may leave an older
snapshot over a newer one until the next rewrite (`snap = newest`).
`confirm_suggestion` can add as an alias a word that is in the same term's
`also` (`B/glossary.py` 717, against the docstring at 164). Spellings left
pending by an `only_wrong` answer are dropped by the next pass
(`B/glossary_mining.py` 2192 says they stay). `merge_into_term` reads outside
its transaction. Undoing the second of two partial answers stamps the term, so
the first cannot be undone.

**Links loop.** A meeting moved away and back between two rounds, while another's
comparison is planned, is never compared with it (`missed`). Failing again
overwrites the note that a part was dropped, which `B/loose_mentions.py` 97 says
stays. A meeting whose call always raises is released without counting and
claimed first again. A refund after midnight is taken off the new day's count
(`B/links_llm.py` 247 says it is not).

**Ask registry** (not modelled). Expiry is lazy; the docstring of `B/asks.py` 10
says that slot and lock are given up at once.

## 14. Not modelled, and why

Contents of archives, transcripts, minutes and prompts: validation and model
calls are free outcomes. The parts of section 1 that are not bold: planned
below, or computation and presentation without concurrent state, or parts whose
only concurrency is SQLite's writer lock. `PROJECT.json` gives the reason of
each, and each section above what it leaves out.

## 15. Plan

1. The card listener (`workbench/card_listener.py`): events at least once, ids
   remembered after handling. The Whisper channel of the relay (`RC` 3782):
   retries with an owner of its own, beside the job. Scan pacing and the
   re-driving of stalled minutes (`B/main.py` 3293).
2. Proofs: every invariant and action property that a run checks has its theorem,
   and what is left to the runs is liveness (section 12). Next are the theorems
   of the components of item 1.
