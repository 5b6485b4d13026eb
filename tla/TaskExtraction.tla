--------------------------- MODULE TaskExtraction ---------------------------
(***************************************************************************)
(* How the workbench turns minutes into draft tasks and into the cards of  *)
(* the group chat: the table task_extractions of tasks.py, the part of the *)
(* scan loop that works on it, the requests of users who extract again,    *)
(* and the ledger `notifications` of notify.py.                            *)
(*                                                                         *)
(* A batch (a row of task_extractions) is the pair of its meeting and of   *)
(* its number among the rows inserted for that meeting: AUTOINCREMENT      *)
(* never gives an id twice.  A step is one transaction, one call of the    *)
(* model or one post to the chat.  Left out: the texts, the requirement    *)
(* candidates extracted beside the tasks, the drafts people have touched   *)
(* (no extraction changes them), and the continuation cards of long        *)
(* minutes.                                                                *)
(***************************************************************************)
EXTENDS Naturals, FiniteSets

CONSTANTS
    Meetings,
    Old,              \* meetings with minutes from before the table existed
    Requests,         \* requests re_extract that may run at the same time
    Scan,             \* the scan loop
    Supplements,      \* what users write beside a re-extraction ...
    Plain,            \* ... and the empty supplement
    NoRow,
    MaxAttempts,      \* MAX_EXTRACTION_ATTEMPTS
    BatchLimit,       \* extract_pending: max_batches
    Notifier,         \* a chat is configured
    Checkup,          \* the glossary check has a dictionary to check by
    Edits,            \* users save, roll back and publish minutes
    MaxVersions,      \* bound: minutes versions of a meeting
    MaxRows,          \* bound: batches of a meeting
    MaxFaults         \* bound: restarts, and phases lost to an exception

Executors == Requests \cup {Scan}
Ids       == Meetings \X (1..MaxRows)
Minutes   == Meetings \X (1..MaxVersions)

ASSUME ExtractionAssumption ==
    /\ Old \subseteq Meetings
    /\ Scan \notin Requests /\ NoRow \notin Ids
    /\ Plain \in Supplements
    /\ MaxAttempts \in Nat \ {0} /\ BatchLimit \in Nat \ {0}
    /\ {Notifier, Checkup, Edits} \subseteq BOOLEAN
    /\ MaxVersions \in Nat \ {0} /\ MaxRows \in Nat \ {0}
    /\ MaxFaults \in Nat

(* Minutes that the model wrote or that came with an archive are extracted *)
(* from; minutes that people or the glossary check edited are not.         *)
RelinkKinds == {"generated", "imported"}
Kinds       == RelinkKinds \cup {"none", "draft", "published_edit"}

(* "absent": not inserted yet; "deleted": the row is gone.                 *)
Statuses == {"absent", "pending", "running", "done", "failed", "skipped",
             "deleted"}

VARIABLES
    version, kind,    \* of the current minutes of a meeting
    checked,          \* the version the glossary check saw last
    rows, last,       \* task_extractions, and the rows inserted so far
    drafts,           \* the batch whose tasks are the drafts of a meeting
    key,              \* there is an API key
    at, job,          \* where an executor is, and the batch it works on
    ask,              \* what a request was asked
    todo, held,       \* scan: batches selected, and those claimed
    cards, card,      \* scan: minutes selected for a card, and the one posted
    minutesPosts, minutesSent,   \* cards in the chat, and in the ledger
    draftPosts, draftSent,
    faults,
    overrun           \* history: batches taken back while still carried

minutesVars == <<version, kind, checked>>
tableVars   == <<rows, last, drafts>>
scanVars    == <<todo, held, cards, card>>
execVars    == <<at, job, ask, scanVars>>
chatVars    == <<minutesPosts, minutesSent, draftPosts, draftSent>>
pastVars    == <<faults, overrun>>
vars == <<minutesVars, tableVars, key, execVars, chatVars, pastVars>>

Rows == [version: 0..MaxVersions, supplement: Supplements,
         status: Statuses, tries: Nat, stale: BOOLEAN]
Row(v, s, st) == [version |-> v, supplement |-> s, status |-> st,
                  tries |-> 0, stale |-> FALSE]
Deleted       == Row(0, Plain, "deleted")

NoAsk == <<>>
ScanSteps    == {"rest", "checkup", "recover", "seed", "select_minutes",
                 "notify", "note_minutes", "select", "claim", "work"}
RequestSteps == {"idle", "asked"}
CallSteps    == {"call", "card", "note"}

(* A row that was inserted and not deleted.                                *)
Live(r) == rows[r].status \notin {"absent", "deleted"}

TypeOK ==
    /\ version \in [Meetings -> 0..MaxVersions]
    /\ kind \in [Meetings -> Kinds]
    /\ checked \in [Meetings -> 0..MaxVersions]
    /\ rows \in [Ids -> Rows]
    /\ last \in [Meetings -> 0..MaxRows]
    /\ drafts \in [Meetings -> 0..MaxRows]
    /\ key \in BOOLEAN
    /\ at \in [Executors -> ScanSteps \cup RequestSteps \cup CallSteps]
    /\ at[Scan] \in ScanSteps \cup CallSteps
    /\ job \in [Executors -> Ids \cup {NoRow}]
    /\ ask \in [Requests -> {NoAsk} \cup
                  [meeting: Meetings, version: 0..MaxVersions,
                   supplement: Supplements]]
    /\ todo \subseteq Ids /\ held \subseteq Ids
    /\ cards \subseteq Minutes /\ card \in Minutes \cup {NoRow}
    /\ minutesPosts \in [Minutes -> 0..2] /\ minutesSent \subseteq Minutes
    /\ draftPosts \in [Ids -> 0..2] /\ draftSent \subseteq Ids
    /\ faults \in 0..MaxFaults
    /\ overrun \subseteq Ids

Init ==
    /\ version = [m \in Meetings |-> IF m \in Old THEN 1 ELSE 0]
    /\ kind = [m \in Meetings |-> IF m \in Old THEN "imported" ELSE "none"]
    /\ checked = version
    /\ rows = [r \in Ids |-> Row(0, Plain, "absent")]
    /\ last = [m \in Meetings |-> 0]
    /\ drafts = [m \in Meetings |-> 0]
    /\ key = TRUE
    /\ at = [e \in Executors |-> IF e = Scan THEN "rest" ELSE "idle"]
    /\ job = [e \in Executors |-> NoRow]
    /\ ask = [q \in Requests |-> NoAsk]
    /\ todo = {} /\ held = {} /\ cards = {} /\ card = NoRow
    /\ minutesPosts = [c \in Minutes |-> 0] /\ minutesSent = {}
    /\ draftPosts = [r \in Ids |-> 0] /\ draftSent = {}
    /\ faults = 0
    /\ overrun = {}

----------------------------------------------------------------------------
(* Minutes versions: the importer, the users, and the glossary check.      *)

NewVersion(m, k) ==
    /\ version[m] < MaxVersions
    /\ version' = [version EXCEPT ![m] = @ + 1]
    /\ kind' = [kind EXCEPT ![m] = k]

(* A scan imports minutes.  They become current unless the current ones    *)
(* are a draft, which an import never replaces.                            *)
Import(m) ==
    /\ kind[m] # "draft"
    /\ \E k \in RelinkKinds : NewVersion(m, k)
    /\ UNCHANGED <<checked, tableVars, key, execVars, chatVars, pastVars>>

(* Saving and rolling back both add a draft version.                       *)
SaveDraft(m) ==
    /\ Edits /\ version[m] > 0
    /\ NewVersion(m, "draft")
    /\ UNCHANGED <<checked, tableVars, key, execVars, chatVars, pastVars>>

Publish(m) ==
    /\ Edits /\ version[m] > 0
    /\ kind' = [kind EXCEPT ![m] = "published_edit"]
    /\ UNCHANGED <<version, checked, tableVars, key, execVars, chatVars,
                   pastVars>>

(* Somebody installs or removes the file with the API key.                 *)
SetKey ==
    /\ key' = ~key
    /\ UNCHANGED <<minutesVars, tableVars, execVars, chatVars, pastVars>>

----------------------------------------------------------------------------
(* The scan loop, up to the extraction.                                    *)

ScanGoes(s, t) == at[Scan] = s /\ at' = [at EXCEPT ![Scan] = t]

StartRound ==
    /\ ScanGoes("rest", "checkup")
    /\ UNCHANGED <<minutesVars, tableVars, key, job, ask, scanVars, chatVars,
                   pastVars>>

(* The glossary check of minutes it has not seen.  The first time it finds *)
(* terms miswritten in minutes as generated, it saves a corrected draft.   *)
CheckMinutes(m) ==
    /\ Checkup /\ at[Scan] = "checkup" /\ version[m] # checked[m]
    /\ \/ /\ checked' = [checked EXCEPT ![m] = version[m]]
          /\ UNCHANGED <<version, kind>>
       \/ /\ kind[m] = "generated"
          /\ NewVersion(m, "draft")
          /\ checked' = [checked EXCEPT ![m] = version[m] + 1]
    /\ UNCHANGED <<tableVars, key, execVars, chatVars, pastVars>>

(* The batch of a round may be full, and a failing check is logged: the    *)
(* phase ends with or without a look at every meeting.                     *)
EndCheckup ==
    /\ ScanGoes("checkup", "recover")
    /\ UNCHANGED <<minutesVars, tableVars, key, job, ask, scanVars, chatVars,
                   pastVars>>

(* Slips: the age of the claim is not looked at; it is compared the wrong   *)
(* way round.                                                              *)
StalledAnyAge(r) == rows[r].status = "running"
StalledYoung(r)  == rows[r].status = "running" /\ ~rows[r].stale

(* _recover_stalled_extractions                                            *)
Stalled(r) == rows[r].status = "running" /\ rows[r].stale

(* Somebody has the batch in hand.                                         *)
Carried(r) == r \in held \/ \E e \in Executors : at[e] = "call" /\ job[e] = r

Recover ==
    /\ ScanGoes("recover", "seed")
    /\ rows' = [r \in Ids |-> IF Stalled(r)
                              THEN [rows[r] EXCEPT !.status = "pending",
                                                   !.stale = FALSE]
                              ELSE rows[r]]
    /\ overrun' = overrun \cup {r \in Ids : /\ Carried(r) /\ rows[r].stale
                                            /\ rows[r].status = "running"}
    /\ UNCHANGED <<minutesVars, last, drafts, key, job, ask, scanVars,
                   chatVars, faults>>

(* _seed_extractions: with an empty table, every meeting that has minutes  *)
(* gets a row that is skipped; otherwise INSERT OR IGNORE of a pending row *)
(* for the current minutes of every meeting, if their kind is extracted.   *)
TableEmpty == \A r \in Ids : ~Live(r)
Seeded(m)  == \E r \in Ids : /\ r[1] = m /\ Live(r)
                             /\ rows[r].version = version[m]
                             /\ rows[r].supplement = Plain
ToSeed     == {m \in Meetings : kind[m] \in RelinkKinds /\ ~Seeded(m)}
Backlog    == {m \in Meetings : version[m] > 0}

InsertFor(ms, st) ==
    /\ last' = [m \in Meetings |-> IF m \in ms THEN last[m] + 1 ELSE last[m]]
    /\ rows' = [r \in Ids |-> IF r[1] \in ms /\ r[2] = last[r[1]] + 1
                              THEN Row(version[r[1]], Plain, st)
                              ELSE rows[r]]

Seed ==
    /\ ScanGoes("seed", "select_minutes")
    /\ IF TableEmpty
       THEN InsertFor({m \in Backlog : last[m] < MaxRows}, "skipped")
       ELSE InsertFor({m \in ToSeed : last[m] < MaxRows}, "pending")
    /\ UNCHANGED <<minutesVars, drafts, key, job, ask, scanVars, chatVars,
                   pastVars>>

----------------------------------------------------------------------------
(* Cards of generated minutes: _notify_minutes_ready and minutes_ready.    *)

Posted(posts, c) == [posts EXCEPT ![c] = IF @ = 2 THEN 2 ELSE @ + 1]

CardDue(c) ==
    /\ c[2] = version[c[1]] /\ kind[c[1]] = "generated"
    /\ \E r \in Ids : /\ r[1] = c[1] /\ rows[r].version = c[2] /\ Live(r)
                      /\ rows[r].status # "skipped"
    /\ c \notin minutesSent

SelectMinutes ==
    /\ ScanGoes("select_minutes", "notify")
    /\ cards' = {c \in Minutes : Notifier /\ CardDue(c)}
    /\ UNCHANGED <<minutesVars, tableVars, key, job, ask, todo, held, card,
                   chatVars, pastVars>>

(* The card is in the chat, and the ledger is written next.                *)
MinutesPosted(c) ==
    /\ c \in cards /\ ScanGoes("notify", "note_minutes")
    /\ minutesPosts' = Posted(minutesPosts, c)
    /\ cards' = cards \ {c} /\ card' = c
    /\ UNCHANGED <<minutesVars, tableVars, key, job, ask, todo, held,
                   minutesSent, draftPosts, draftSent, pastVars>>

(* Slip: the ledger is not written.                                        *)
MinutesNotNoted ==
    /\ ScanGoes("note_minutes", "notify")
    /\ card' = NoRow
    /\ UNCHANGED <<minutesVars, tableVars, key, job, ask, todo, held, cards,
                   chatVars, pastVars>>

MinutesNoted ==
    /\ ScanGoes("note_minutes", "notify")
    /\ minutesSent' = minutesSent \cup {card} /\ card' = NoRow
    /\ UNCHANGED <<minutesVars, tableVars, key, job, ask, todo, held, cards,
                   minutesPosts, draftPosts, draftSent, pastVars>>

(* The post fails, or no answer to it comes in time; the ledger stays.     *)
MinutesUnconfirmed(c) ==
    /\ c \in cards /\ at[Scan] = "notify"
    /\ cards' = cards \ {c}
    /\ minutesPosts' \in {minutesPosts, Posted(minutesPosts, c)}
    /\ UNCHANGED <<minutesVars, tableVars, key, at, job, ask, todo, held, card,
                   minutesSent, draftPosts, draftSent, pastVars>>

EndNotify ==
    /\ cards = {} /\ ScanGoes("notify", "select")
    /\ UNCHANGED <<minutesVars, tableVars, key, job, ask, scanVars, chatVars,
                   pastVars>>

----------------------------------------------------------------------------
(* extract_pending: select the batches of the round, claim each of them,   *)
(* then work on those claimed.                                             *)

Eligible(r) == /\ rows[r].status = "pending" /\ rows[r].tries < MaxAttempts
               /\ rows[r].version = version[r[1]]

Select ==
    /\ key /\ ScanGoes("select", "claim")
    /\ todo' \in {S \in SUBSET {r \in Ids : Eligible(r)} :
                    \/ Cardinality(S) = BatchLimit
                    \/ /\ Cardinality(S) < BatchLimit
                       /\ \A r \in Ids : Eligible(r) => r \in S}
    /\ UNCHANGED <<minutesVars, tableVars, key, job, ask, held, cards, card,
                   chatVars, pastVars>>

SelectWithoutKey ==
    /\ ~key /\ ScanGoes("select", "rest")
    /\ UNCHANGED <<minutesVars, tableVars, key, job, ask, scanVars, chatVars,
                   pastVars>>

Claimed(r) == [rows EXCEPT ![r].status = "running", ![r].stale = FALSE]

(* UPDATE ... WHERE status='pending'                                       *)
Claim(r) ==
    /\ at[Scan] = "claim" /\ r \in todo
    /\ todo' = todo \ {r}
    /\ IF rows[r].status = "pending"
       THEN rows' = Claimed(r) /\ held' = held \cup {r}
       ELSE UNCHANGED <<rows, held>>
    /\ UNCHANGED <<minutesVars, last, drafts, key, at, job, ask, cards, card,
                   chatVars, pastVars>>

EndClaims ==
    /\ todo = {} /\ ScanGoes("claim", "work")
    /\ UNCHANGED <<minutesVars, tableVars, key, job, ask, scanVars, chatVars,
                   pastVars>>

(* The batch is read again: it is skipped if its row has been deleted.     *)
StartBatch(r) ==
    /\ at[Scan] = "work" /\ r \in held
    /\ held' = held \ {r}
    /\ IF Live(r)
       THEN /\ at' = [at EXCEPT ![Scan] = "call"]
            /\ job' = [job EXCEPT ![Scan] = r]
       ELSE UNCHANGED <<at, job>>
    /\ UNCHANGED <<minutesVars, tableVars, key, ask, todo, cards, card,
                   chatVars, pastVars>>

EndRound ==
    /\ held = {} /\ ScanGoes("work", "rest")
    /\ UNCHANGED <<minutesVars, tableVars, key, job, ask, scanVars, chatVars,
                   pastVars>>

----------------------------------------------------------------------------
(* re_extract: a user extracts the current minutes of a meeting again.     *)

AskAgain(q, m, s) ==
    /\ at[q] = "idle" /\ version[m] > 0 /\ last[m] < MaxRows
    /\ at' = [at EXCEPT ![q] = "asked"]
    /\ ask' = [ask EXCEPT ![q] = [meeting |-> m, version |-> version[m],
                                  supplement |-> s]]
    /\ UNCHANGED <<minutesVars, tableVars, key, job, scanVars, chatVars,
                   pastVars>>

(* The meeting is being extracted, as far as the age of the claim tells.   *)
Busy(m) == \E r \in Ids : /\ r[1] = m /\ rows[r].status = "running"
                          /\ ~rows[r].stale

Superseded(m, v) == {r \in Ids : r[1] = m /\ Live(r) /\ rows[r].version = v}

Refused(q) ==
    /\ at[q] = "asked" /\ Busy(ask[q].meeting)
    /\ at' = [at EXCEPT ![q] = "idle"] /\ ask' = [ask EXCEPT ![q] = NoAsk]
    /\ UNCHANGED <<minutesVars, tableVars, key, job, scanVars, chatVars,
                   pastVars>>

(* The rows of these minutes are deleted, and a running one is inserted.   *)
NewBatchWaiting == "pending"   \* Slip: a batch like any other.
NewBatchStatus == "running"

Accepted(q) ==
    LET m == ask[q].meeting  r == <<m, last[m] + 1>> IN
    /\ at[q] = "asked" /\ ~Busy(m) /\ last[m] < MaxRows
    /\ rows' = [x \in Ids |->
                  IF x = r THEN Row(ask[q].version, ask[q].supplement,
                                    NewBatchStatus)
                  ELSE IF x \in Superseded(m, ask[q].version) THEN Deleted
                  ELSE rows[x]]
    /\ last' = [last EXCEPT ![m] = @ + 1]
    /\ job' = [job EXCEPT ![q] = r]
    /\ at' = [at EXCEPT ![q] = "call"] /\ ask' = [ask EXCEPT ![q] = NoAsk]
    /\ UNCHANGED <<minutesVars, drafts, key, scanVars, chatVars, pastVars>>

----------------------------------------------------------------------------
(* The call of the model, and what becomes of the batch: _extract_one and  *)
(* the handlers of its two callers.  An UPDATE of a deleted row is void.   *)

Home(e) == IF e = Scan THEN "work" ELSE "idle"

Goes(e, s, t) == at[e] = s /\ at' = [at EXCEPT ![e] = t]
Ends(e, s)    == Goes(e, s, Home(e)) /\ job' = [job EXCEPT ![e] = NoRow]

Update(r, row) == rows' = IF Live(r) THEN [rows EXCEPT ![r] = row] ELSE rows

(* The answer is stored: its tasks replace the drafts of the meeting, an   *)
(* empty list withdraws them, and a malformed one leaves them.             *)
Extracted(e) ==
    LET r == job[e] IN
    /\ key /\ at[e] = "call"
    /\ Update(r, [rows[r] EXCEPT !.status = "done", !.tries = @ + 1,
                                 !.stale = FALSE])
    /\ \/ /\ drafts' = [drafts EXCEPT ![r[1]] = r[2]]
          /\ IF Notifier THEN Goes(e, "call", "card") /\ UNCHANGED job
                         ELSE Ends(e, "call")
       \/ /\ drafts' \in {drafts, [drafts EXCEPT ![r[1]] = 0]}
          /\ Ends(e, "call")
    /\ UNCHANGED <<minutesVars, last, key, ask, scanVars, chatVars, pastVars>>

(* LLMUnavailable: the key has gone.                                       *)
Unavailable(e) ==
    LET r == job[e] IN
    /\ ~key /\ Ends(e, "call")
    /\ Update(r, [rows[r] EXCEPT !.status = "pending", !.stale = FALSE])
    /\ UNCHANGED <<minutesVars, last, drafts, key, ask, scanVars, chatVars,
                   pastVars>>

(* Slip: one try too many.                                                 *)
AfterFailureOnceMore(row) ==
    [row EXCEPT !.tries = @ + 1,
                !.status = IF row.tries + 1 > MaxAttempts
                           THEN "failed" ELSE "pending",
                !.stale = FALSE]

AfterFailure(row) ==
    [row EXCEPT !.tries = @ + 1,
                !.status = IF row.tries + 1 >= MaxAttempts
                           THEN "failed" ELSE "pending",
                !.stale = FALSE]

ScanFails ==
    LET r == job[Scan] IN
    /\ Ends(Scan, "call") /\ Update(r, AfterFailure(rows[r]))
    /\ UNCHANGED <<minutesVars, last, drafts, key, ask, scanVars, chatVars,
                   pastVars>>

RequestFails(q) ==
    LET r == job[q] IN
    /\ Ends(q, "call")
    /\ Update(r, [rows[r] EXCEPT !.status = "failed", !.stale = FALSE])
    /\ UNCHANGED <<minutesVars, last, drafts, key, ask, scanVars, chatVars,
                   pastVars>>

(* The card of the new drafts: task_draft.  A failure is swallowed.        *)
DraftPosted(e) ==
    /\ Goes(e, "card", "note") /\ job[e] \notin draftSent
    /\ draftPosts' = Posted(draftPosts, job[e])
    /\ UNCHANGED <<minutesVars, tableVars, key, job, ask, scanVars,
                   minutesPosts, minutesSent, draftSent, pastVars>>

DraftNoted(e) ==
    /\ Ends(e, "note")
    /\ draftSent' = draftSent \cup {job[e]}
    /\ UNCHANGED <<minutesVars, tableVars, key, ask, scanVars, minutesPosts,
                   minutesSent, draftPosts, pastVars>>

DraftUnconfirmed(e) ==
    /\ Ends(e, "card")
    /\ \/ UNCHANGED draftPosts
       \/ /\ job[e] \notin draftSent
          /\ draftPosts' = Posted(draftPosts, job[e])
    /\ UNCHANGED <<minutesVars, tableVars, key, ask, scanVars, minutesPosts,
                   minutesSent, draftSent, pastVars>>

----------------------------------------------------------------------------
(* Time, exceptions and restarts.                                          *)

(* Ten minutes have passed since a batch was claimed: its executor died,   *)
(* the scan has batches of the same round before it, or the call is slow   *)
(* (the client bounds each read of the answer, not the call).              *)
ClaimAges(r) ==
    /\ rows[r].status = "running" /\ ~rows[r].stale
    /\ rows' = [rows EXCEPT ![r].stale = TRUE]
    /\ UNCHANGED <<minutesVars, last, drafts, key, execVars, chatVars,
                   pastVars>>

Fault == faults < MaxFaults /\ faults' = faults + 1 /\ UNCHANGED overrun

(* An exception leaves extract_pending: the batches claimed stay running.  *)
ScanAborts ==
    /\ Fault /\ at[Scan] \notin {"rest", "checkup"}
    /\ at' = [at EXCEPT ![Scan] = "rest"]
    /\ job' = [job EXCEPT ![Scan] = NoRow]
    /\ todo' = {} /\ held' = {} /\ cards' = {} /\ card' = NoRow
    /\ UNCHANGED <<minutesVars, tableVars, key, ask, chatVars>>

(* So does one that leaves a request.                                      *)
RequestAborts(q) ==
    /\ Fault /\ at[q] # "idle"
    /\ at' = [at EXCEPT ![q] = "idle"] /\ job' = [job EXCEPT ![q] = NoRow]
    /\ ask' = [ask EXCEPT ![q] = NoAsk]
    /\ UNCHANGED <<minutesVars, tableVars, key, scanVars, chatVars>>

Restart ==
    /\ Fault
    /\ at' = [e \in Executors |-> IF e = Scan THEN "rest" ELSE "idle"]
    /\ job' = [e \in Executors |-> NoRow] /\ ask' = [q \in Requests |-> NoAsk]
    /\ todo' = {} /\ held' = {} /\ cards' = {} /\ card' = NoRow
    /\ UNCHANGED <<minutesVars, tableVars, key, chatVars>>

----------------------------------------------------------------------------
Finishes(e) == \/ Extracted(e) \/ Unavailable(e)
               \/ DraftPosted(e) \/ DraftNoted(e) \/ DraftUnconfirmed(e)

ScanStep ==
    \/ StartRound \/ EndCheckup \/ Recover \/ Seed
    \/ \E m \in Meetings : CheckMinutes(m)
    \/ SelectMinutes \/ MinutesNoted \/ EndNotify
    \/ \E c \in Minutes : MinutesPosted(c) \/ MinutesUnconfirmed(c)
    \/ Select \/ SelectWithoutKey \/ EndClaims \/ EndRound
    \/ \E r \in Ids : Claim(r) \/ StartBatch(r)
    \/ Finishes(Scan) \/ ScanFails

RequestStep(q) == Refused(q) \/ Accepted(q) \/ Finishes(q) \/ RequestFails(q)

Next ==
    \/ \E m \in Meetings : Import(m) \/ SaveDraft(m) \/ Publish(m)
    \/ SetKey
    \/ ScanStep
    \/ \E q \in Requests, m \in Meetings, s \in Supplements : AskAgain(q, m, s)
    \/ \E q \in Requests : RequestStep(q) \/ RequestAborts(q)
    \/ \E r \in Ids : ClaimAges(r)
    \/ ScanAborts \/ Restart

(* The loop and the requests go on, time passes, and a card that is tried  *)
(* again and again arrives at last.                                        *)
Fairness ==
    /\ WF_vars(ScanStep)
    /\ \A q \in Requests : WF_vars(RequestStep(q))
    /\ \A r \in Ids : WF_vars(ClaimAges(r))
    /\ \A c \in Minutes : SF_vars(MinutesPosted(c))

Spec == Init /\ [][Next]_vars /\ Fairness

----------------------------------------------------------------------------
(* Properties.                                                             *)

(* A batch is carried by one executor: the claim of the scan, the row that *)
(* re_extract inserts as running and the age of claims keep the scan and   *)
(* the requests off each other's batches, over restarts too.  The one gap  *)
(* is the age: when a request calls the model for longer than the stall    *)
(* threshold, the scan takes its batch back (overrun) and may run it       *)
(* beside the request; two requests never meet on a batch.                 *)
(* There is one batch of a meeting per version and supplement              *)
(* (idx_extraction_unique), and no way back to pending (a failure, a key   *)
(* that has gone, a recovery) leaves one that has used up its tries, which *)
(* would never be selected, unless it was overrun.                         *)
OneRunPerBatch ==
    /\ TypeOK
    /\ \A e, f \in Executors :
           e # f /\ at[e] = "call" /\ at[f] = "call" /\ job[e] = job[f]
           => job[e] \in overrun /\ Scan \in {e, f}
    /\ \A r, q \in Ids : /\ r # q /\ r[1] = q[1] /\ Live(r) /\ Live(q)
                         => \/ rows[r].version # rows[q].version
                            \/ rows[r].supplement # rows[q].supplement
    /\ \A r \in Ids : rows[r].status = "pending"
                      => rows[r].tries < MaxAttempts \/ r \in overrun

(* The chat gets the drafts of a batch at most once, over restarts, slow   *)
(* calls and posts that are not confirmed, unless the batch was taken back *)
(* while a request was still calling the model for it.                     *)
DraftCardOnce == \A r \in Ids : draftPosts[r] <= 1 \/ r \in overrun

(* A batch that is running, whatever became of its executor, ends or goes  *)
(* back to the queue.                                                      *)
RunningEnds ==
    \A r \in Ids : rows[r].status = "running" ~> rows[r].status # "running"

(* With a key in place, a batch of current minutes is done or given up.    *)
PendingServed ==
    <>[]key => \A r \in Ids :
        Eligible(r) ~> \/ rows[r].status \in {"done", "failed", "deleted"}
                       \/ rows[r].version # version[r[1]]

(* A card that is due reaches the chat and the ledger, unless the minutes  *)
(* are edited or replaced first.                                           *)
MinutesCardArrives ==
    \A c \in Minutes :
        CardDue(c) ~> \/ c \in minutesSent
                      \/ kind[c[1]] # "generated" \/ version[c[1]] # c[2]
=============================================================================
