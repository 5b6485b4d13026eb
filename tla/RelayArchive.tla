---------------------------- MODULE RelayArchive ----------------------------
(***************************************************************************)
(* What becomes of the archive directory of one relay job: an attempt      *)
(* completes in a hidden directory, a promotion with a journal of its own  *)
(* moves it to a visible one and older drafts out of the way, the          *)
(* workbench publishes it, and a receipt tells the relay.  A retry starts  *)
(* the next attempt at any time.                                           *)
(*                                                                         *)
(* The archive lock excludes promotions, publications and the clearing of  *)
(* drafts from each other, but neither retries nor the receipt.  Left out: *)
(* the older layer of visible directories and fixtures that stay hidden.   *)
(***************************************************************************)
EXTENDS Naturals, FiniteSets, FiniteSetsExt

CONSTANTS Names,         \* how many visible names a job has to choose from
          NoDir,         \* no directory
          MaxAttempts, MaxCrashes, MaxErrors    \* bounds of the checked behaviours

ASSUME BoundsAreNaturals ==
    {Names, MaxAttempts, MaxCrashes, MaxErrors} \subseteq Nat /\ MaxAttempts > 0
ASSUME NoDirIsNone == NoDir \notin [attempt : Nat, published : BOOLEAN]

VARIABLES
    status,        \* queued (until the next attempt completes), pending or published
    attempt,       \* the job's current attempt
    archiveDir,    \* where its row says the archive is
    publishedDir,  \* the last published one, 0 for none
    failureNoted,  \* failure_stage = pending_archive
    dir,           \* what is at each place
    recovered,     \* the drafts set aside, by the attempt they are of
    journal,       \* the promotion journal of each attempt
    promoting,     \* the attempt of the promotion that has the archive lock, 0 for none
    receipt,       \* a receipt on its way
    crashes, errors

row == <<status, attempt, archiveDir, publishedDir, failureNoted>>
counters == <<crashes, errors>>
vars == <<row, dir, recovered, journal, promoting, receipt, counters>>

Attempts == 1..MaxAttempts
Visible == 1..Names
Hidden(a) == Names + a                 \* the directory the agent of an attempt writes
Places == Visible \cup {Hidden(a) : a \in Attempts}

Draft(a) == [attempt |-> a, published |-> FALSE]
Published(a) == [attempt |-> a, published |-> TRUE]
NoJournal == [state |-> "none"]
NoReceipt == [state |-> "none"]

IsDir(p) == p \in Places /\ dir[p] # NoDir

Init ==
    /\ status = "queued"
    /\ attempt = 1
    /\ archiveDir = 0
    /\ publishedDir = 0
    /\ failureNoted = FALSE
    /\ dir = [p \in Places |-> NoDir]
    /\ recovered = {}
    /\ journal = [a \in Attempts |-> NoJournal]
    /\ promoting = 0
    /\ receipt = NoReceipt
    /\ crashes = 0
    /\ errors = 0

-----------------------------------------------------------------------------
(* The job.                                                                *)

\* The agent's directory is validated and the attempt completed.
CompleteMinutes ==
    /\ status = "queued"
    /\ status' = "pending"
    /\ archiveDir' = Hidden(attempt)
    /\ dir' = [dir EXCEPT ![Hidden(attempt)] = Draft(attempt)]
    /\ UNCHANGED <<attempt, publishedDir, failureNoted, recovered, journal, promoting, receipt,
                   counters>>

Retry ==
    /\ status \in {"pending", "published"}
    /\ attempt < MaxAttempts
    /\ status' = "queued"
    /\ attempt' = attempt + 1
    /\ failureNoted' = FALSE
    /\ UNCHANGED <<archiveDir, publishedDir, dir, recovered, journal, promoting, receipt, counters>>

-----------------------------------------------------------------------------
(* Promotion, under the archive lock.                                      *)

LockFree == promoting = 0

\* Mutant: what was published is told by its receipt alone.
VisibleUnacknowledged ==
    {p \in Visible : dir[p] # NoDir /\ p # publishedDir}

\* Drafts of the job that can be seen in the archive.
VisibleDrafts ==
    {p \in Visible : dir[p] # NoDir /\ ~dir[p].published /\ p # publishedDir}

Suits(p, a) == dir[p] = NoDir \/ (dir[p] = Draft(a) /\ p # publishedDir)
SelectTarget(a) == Min({p \in Visible : Suits(p, a)})

\* The code goes on to the suffixes -2, -3, ... : Names bounds how far.
NameLeft(a) == \E p \in Visible : Suits(p, a)

InPlace == archiveDir \in Visible /\ IsDir(archiveDir) /\ dir[archiveDir].attempt = attempt

\* The row points at a visible draft, or at a directory published in place
\* whose receipt has not come: nothing is to be moved.
AlreadyVisible ==
    /\ LockFree /\ status = "pending"
    /\ InPlace
    /\ dir[archiveDir].published => journal[attempt] # NoJournal
    /\ journal' = [journal EXCEPT ![attempt] = NoJournal]
    /\ failureNoted' = FALSE
    /\ UNCHANGED <<status, attempt, archiveDir, publishedDir, dir, recovered, promoting, receipt,
                   counters>>

\* The draft is hidden still, or already moved to its one visible place.
Source == Hidden(attempt)
Installed == {p \in VisibleDrafts : dir[p].attempt = attempt}
\* Mutant: a promotion is not taken up once the directory has moved.
PromotableHidden ==
    /\ LockFree /\ status = "pending"
    /\ archiveDir = Source
    /\ dir[Source] = Draft(attempt)

Promotable ==
    /\ LockFree /\ status = "pending"
    /\ archiveDir = Source
    /\ \/ journal[attempt] # NoJournal
       \/ dir[Source] = Draft(attempt)
       \/ dir[Source] = NoDir /\ Cardinality(Installed) = 1

Prepare ==
    /\ Promotable
    /\ promoting' = attempt
    /\ IF journal[attempt] # NoJournal THEN UNCHANGED journal
       ELSE /\ IsDir(Source) => NameLeft(attempt)
            /\ LET target == IF IsDir(Source) THEN SelectTarget(attempt)
                             ELSE CHOOSE p \in Installed : TRUE
               IN  journal' = [journal EXCEPT ![attempt] =
                                   [state |-> "prepared", target |-> target]]
    /\ UNCHANGED <<row, dir, recovered, receipt, counters>>

At(state) == promoting # 0 /\ journal[promoting].state = state
Target == journal[promoting].target
Note(state) == journal' = [journal EXCEPT ![promoting].state = state]

\* Mutant: drafts of earlier attempts stay.
InTheWayOfThisAttempt == {p \in VisibleDrafts : dir[p].attempt = promoting /\ p # Target}

\* Older drafts of the job, and copies of this one elsewhere, are set aside.
InTheWay == {p \in VisibleDrafts : ~(dir[p].attempt = promoting /\ p = Target)}

\* Mutant: drafts out of the way are removed.
Discard(p) ==
    /\ UNCHANGED recovered
    /\ dir' = [dir EXCEPT ![p] = NoDir]

SetAside(p) ==
    /\ recovered' = recovered \cup {dir[p].attempt}
    /\ dir' = [dir EXCEPT ![p] = NoDir]

MoveOld ==
    /\ At("prepared")
    /\ \E p \in InTheWay : SetAside(p)
    /\ UNCHANGED <<row, journal, promoting, receipt, counters>>

OldMoved ==
    /\ At("prepared") /\ InTheWay = {}
    /\ Note("old_moved")
    /\ UNCHANGED <<row, dir, recovered, promoting, receipt, counters>>

Ours(p) == dir[p] # NoDir /\ dir[p].attempt = promoting

\* The name was taken by something else meanwhile.
Retarget ==
    /\ At("old_moved") /\ IsDir(Hidden(promoting))
    /\ dir[Target] # NoDir /\ ~Ours(Target)
    /\ NameLeft(promoting)
    /\ journal' = [journal EXCEPT ![promoting].target = SelectTarget(promoting)]
    /\ UNCHANGED <<row, dir, recovered, promoting, receipt, counters>>

Install ==
    /\ At("old_moved") /\ IsDir(Hidden(promoting))
    /\ \/ /\ dir[Target] = NoDir
          /\ dir' = [dir EXCEPT ![Hidden(promoting)] = NoDir,
                                ![Target] = dir[Hidden(promoting)]]
          /\ UNCHANGED recovered
       \/ Ours(Target) /\ SetAside(Hidden(promoting))
    /\ UNCHANGED <<row, journal, promoting, receipt, counters>>

NewInstalled ==
    /\ At("old_moved") /\ ~IsDir(Hidden(promoting)) /\ Ours(Target)
    /\ Note("new_installed")
    /\ UNCHANGED <<row, dir, recovered, promoting, receipt, counters>>

\* The row is turned to the new place, unless it changed in the meantime.
RowAsExpected ==
    \/ archiveDir = Target
    \/ attempt = promoting /\ status = "pending" /\ archiveDir = Hidden(promoting)

UpdateRow ==
    /\ At("new_installed") /\ RowAsExpected
    /\ archiveDir' = Target
    /\ failureNoted' = (failureNoted /\ ~(attempt = promoting /\ status = "pending"))
    /\ Note("db_committed")
    /\ UNCHANGED <<status, attempt, publishedDir, dir, recovered, promoting, receipt, counters>>

DropJournal ==
    /\ At("db_committed")
    /\ journal' = [journal EXCEPT ![promoting] = NoJournal]
    /\ promoting' = 0
    /\ UNCHANGED <<row, dir, recovered, receipt, counters>>

-----------------------------------------------------------------------------
(* Failures of a promotion.  The lock goes, the journal stays.             *)

NoteFailure == failureNoted' = (failureNoted \/ (attempt = promoting /\ status = "pending"))

\* The row changed under the promotion, or the target is not what was put there.
Conflicts ==
    \/ At("new_installed") /\ ~RowAsExpected
    \/ At("old_moved") /\ ~IsDir(Hidden(promoting)) /\ ~Ours(Target)

Collide ==
    /\ Conflicts
    /\ NoteFailure
    /\ promoting' = 0
    /\ UNCHANGED <<status, attempt, archiveDir, publishedDir, dir, recovered, journal, receipt,
                   counters>>

Fail ==
    /\ promoting # 0 /\ errors < MaxErrors
    /\ NoteFailure
    /\ promoting' = 0
    /\ errors' = errors + 1
    /\ UNCHANGED <<status, attempt, archiveDir, publishedDir, dir, recovered, journal, receipt,
                   crashes>>

Crash ==
    /\ crashes < MaxCrashes
    /\ promoting # 0 \/ receipt # NoReceipt
    /\ promoting' = 0
    /\ receipt' = NoReceipt
    /\ crashes' = crashes + 1
    /\ UNCHANGED <<row, dir, recovered, journal, errors>>

-----------------------------------------------------------------------------
(* The workbench publishes, and its receipt reaches the relay.             *)

\* A visible draft becomes the published archive at the same place.
PublishInPlace ==
    /\ LockFree
    /\ \E p \in VisibleDrafts : dir' = [dir EXCEPT ![p] = Published(dir[p].attempt)]
    /\ UNCHANGED <<row, recovered, journal, promoting, receipt, counters>>

\* A draft known by its hidden directory is copied to a new archive.
PublishFromHidden ==
    /\ LockFree
    /\ \E a \in Attempts, p \in Visible :
          /\ IsDir(Hidden(a))
          /\ dir[p] = NoDir
          /\ \A q \in Visible : dir[q] # Published(a)
          /\ dir' = [dir EXCEPT ![p] = Published(a)]
    /\ UNCHANGED <<row, recovered, journal, promoting, receipt, counters>>

\* mark_published validates the manifest against the row as it is now ...
ValidateReceipt ==
    /\ receipt = NoReceipt
    /\ status = "pending"
    /\ \E p \in Visible :
          /\ dir[p] = Published(attempt)
          /\ receipt' = [state |-> "validated", at |-> p, attempt |-> attempt, from |-> archiveDir]
    /\ UNCHANGED <<row, dir, recovered, journal, promoting, counters>>

RowUnchanged == status = "pending" /\ attempt = receipt.attempt /\ archiveDir = receipt.from

\* ... and commits if that row has not changed.
CommitReceipt ==
    /\ receipt.state = "validated"
    /\ RowUnchanged
    /\ status' = "published"
    /\ archiveDir' = receipt.at
    /\ publishedDir' = receipt.at
    /\ failureNoted' = FALSE
    /\ receipt' = [receipt EXCEPT !.state = "committed"]
    /\ UNCHANGED <<attempt, dir, recovered, journal, promoting, counters>>

RefuseReceipt ==
    /\ receipt.state = "validated" /\ ~RowUnchanged
    /\ receipt' = NoReceipt
    /\ UNCHANGED <<row, dir, recovered, journal, promoting, counters>>

\* A draft of this attempt that was visible elsewhere is set aside.
ClearSource ==
    /\ receipt.state = "committed" /\ LockFree
    /\ IF receipt.from \in Visible /\ receipt.from # publishedDir
             /\ dir[receipt.from] = Draft(receipt.attempt)
       THEN SetAside(receipt.from)
       ELSE UNCHANGED <<dir, recovered>>
    /\ receipt' = NoReceipt
    /\ UNCHANGED <<row, journal, promoting, counters>>

\* The next round does so for whatever a receipt left behind.
ClearPublished ==
    /\ LockFree /\ status = "published"
    /\ \E p \in Installed : SetAside(p)
    /\ UNCHANGED <<row, journal, promoting, receipt, counters>>

-----------------------------------------------------------------------------
Promote == \/ AlreadyVisible \/ Prepare \/ MoveOld \/ OldMoved \/ Retarget
           \/ Install \/ NewInstalled \/ UpdateRow \/ DropJournal \/ Collide
Receive == CommitReceipt \/ RefuseReceipt \/ ClearSource

Next == \/ CompleteMinutes \/ Retry
        \/ Promote \/ Fail \/ Crash
        \/ PublishInPlace \/ PublishFromHidden \/ ValidateReceipt
        \/ Receive \/ ClearPublished

Spec == Init /\ [][Next]_vars

\* The watchdog reconciles the archives every few minutes.
FairSpec == Spec /\ WF_vars(Promote) /\ WF_vars(Receive) /\ WF_vars(ClearPublished)

-----------------------------------------------------------------------------
TypeOK ==
    /\ status \in {"queued", "pending", "published"}
    /\ attempt \in Attempts
    /\ archiveDir \in Places \cup {0} /\ publishedDir \in Visible \cup {0}
    /\ failureNoted \in BOOLEAN
    /\ dir \in [Places -> {NoDir} \cup [attempt : Attempts, published : BOOLEAN]]
    /\ recovered \subseteq Attempts
    /\ journal \in [Attempts -> {NoJournal} \cup
           [state : {"prepared", "old_moved", "new_installed", "db_committed"}, target : Visible]]
    /\ promoting \in Attempts \cup {0}
    /\ promoting # 0 => journal[promoting] # NoJournal
    /\ \/ receipt = NoReceipt
       \/ receipt \in [state : {"validated", "committed"}, at : Visible, attempt : Attempts,
                       from : Places]
    /\ crashes \in 0..MaxCrashes /\ errors \in 0..MaxErrors

\* Whatever a promotion, a retry and a receipt do at the same time, the
\* directory of a publication is never moved away or made a draft again.
PublishedStays ==
    [][\A p \in Visible : IsDir(p) /\ dir[p].published => dir'[p] = dir[p]]_vars

\* No completed attempt is lost: its directory is at some place or set aside.
\* (And every variable is of its type.)
NoAttemptLost ==
    /\ TypeOK
    /\ \A a \in Attempts :
          a < attempt \/ (a = attempt /\ status # "queued") =>
              a \in recovered \/ \E p \in Places : IsDir(p) /\ dir[p].attempt = a

\* Between promotions the row of a completed attempt finds its directory in
\* place, or a promotion can take it up from where it was left; and a draft in
\* place is the only one to be seen.
RowFindsArchive ==
    status = "pending" /\ LockFree =>
        /\ InPlace \/ Promotable
        /\ InPlace /\ journal[attempt] = NoJournal => VisibleDrafts \subseteq {archiveDir}

\* A completed attempt becomes visible with no failure noted, is published or
\* retried, whatever failed or crashed on the way.
PromotionEnds ==
    status = "pending" ~> (InPlace /\ ~failureNoted) \/ status # "pending"
=============================================================================
