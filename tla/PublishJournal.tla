--------------------------- MODULE PublishJournal ---------------------------
(***************************************************************************)
(* Publishing a meeting: service.py builds the new archive directory       *)
(* beside the old one, notes in a journal what it is about to do, puts the *)
(* new directory in place inside the database transaction that records the *)
(* publication, and clears up.  A failure undoes the moves, a crash is     *)
(* resolved from the journal at the next start.                            *)
(*                                                                         *)
(* A directory is told apart by the publication it was made for (the       *)
(* publish_token of its manifest).  The archive lock makes publications    *)
(* and recovery one sequential process; users edit drafts and files beside *)
(* it.  The phase in the journal is left out: recovery only checks that it *)
(* is a known one.                                                         *)
(***************************************************************************)
EXTENDS Naturals, Sequences, FiniteSets

CONSTANTS Tokens,      \* publications
          Old,         \* the archive directory from before the first one
          NoDir,       \* no directory
          Torn,        \* a directory whose removal was cut short: no manifest
          NoToken,
          MaxEdits, MaxCrashes, MaxErrors    \* bounds of the checked behaviours

ASSUME NamesAreDistinct ==
    /\ Cardinality({Old, NoDir, Torn, NoToken}) = 4
    /\ {Old, NoDir, Torn, NoToken} \cap Tokens = {}
ASSUME BoundsAreNaturals == {MaxEdits, MaxCrashes, MaxErrors} \subseteq Nat

VARIABLES
    draft,      \* version of the draft in the database
    edited,     \* directories somebody edited by hand since they were prepared
    published,  \* the directory the meeting's row calls published
    committed,  \* publications with a publish_files_committed event
    flag,       \* the open conflicts of the meeting: kind -> publication
    archive,    \* the directory at the formal archive path
    work, backup,  \* the hidden directories of each publication
    journal,    \* the strategy its journal notes, or "none"
    snapshot,   \* the draft each publication was prepared from, 0 for none
    swaps,      \* whether the file system can exchange two directories
    pc, tok,    \* what the holder of the archive lock does, for which publication
    plan,       \* and the moves it is still to make
    todo,       \* journals the running recovery has still to look at
    crashes, errors

disk == <<archive, work, backup, journal>>
db == <<published, committed, flag>>
counters == <<crashes, errors>>
vars == <<draft, edited, db, disk, snapshot, swaps, pc, tok, plan, todo, counters>>

Kinds == {"publish_recovery", "publish_post_commit"}
Dirs == Tokens \cup {Old, NoDir, Torn}
Moves == {"swap", "stage", "archive_to_backup", "archive_to_work", "backup_to_archive",
          "work_to_archive", "commit", "drop_work", "drop_backup", "drop_journal", "close_flags"}

Flagged == \E k \in Kinds : flag[k] # NoToken

Init ==
    /\ draft = 1
    /\ edited = {}
    /\ archive \in {Old, NoDir}
    /\ published = archive
    /\ committed = {}
    /\ flag = [k \in Kinds |-> NoToken]
    /\ work = [t \in Tokens |-> NoDir]
    /\ backup = [t \in Tokens |-> NoDir]
    /\ journal = [t \in Tokens |-> "none"]
    /\ snapshot = [t \in Tokens |-> 0]
    /\ swaps \in BOOLEAN
    /\ pc = "idle"
    /\ tok = NoToken
    /\ plan = <<>>
    /\ todo = {}
    /\ crashes = 0
    /\ errors = 0

-----------------------------------------------------------------------------
(* The users.                                                              *)

InTransaction == pc = "publishing"

\* A draft is saved; not while the publication's transaction holds the
\* database (BEGIN IMMEDIATE).
EditDraft ==
    /\ draft <= MaxEdits
    /\ ~InTransaction
    /\ draft' = draft + 1
    /\ UNCHANGED <<edited, db, disk, snapshot, swaps, pc, tok, plan, todo, counters>>

\* Somebody edits a file of the published directory.
EditArchive ==
    /\ archive \in Tokens \ edited
    /\ edited' = edited \cup {archive}
    /\ UNCHANGED <<draft, db, disk, snapshot, swaps, pc, tok, plan, todo, counters>>

-----------------------------------------------------------------------------
(* A publication.                                                          *)

\* The draft is read and the new directory built beside the archive: a copy
\* of it with the new files, or a new one for a meeting without an archive.
Begin(t) ==
    /\ pc = "idle" /\ ~Flagged
    /\ snapshot[t] = 0
    /\ archive = NoDir <=> published = NoDir
    /\ work' = [work EXCEPT ![t] = t]
    /\ snapshot' = [snapshot EXCEPT ![t] = draft]
    /\ tok' = t
    /\ pc' = "prepared"
    /\ UNCHANGED <<draft, edited, db, archive, backup, journal, swaps, plan, todo, counters>>

\* What the journal notes before anything is moved.
Strategy == IF archive = NoDir THEN "install" ELSE "rename_swap"

WriteJournal ==
    /\ pc = "prepared"
    /\ journal' = [journal EXCEPT ![tok] = Strategy]
    /\ pc' = "journalled"
    /\ UNCHANGED <<draft, edited, db, archive, work, backup, snapshot, swaps, tok, plan, todo,
                   counters>>

\* Mutant: the draft is not compared again in the transaction.
SnapshotUnchecked == ~Flagged

SnapshotCurrent == draft = snapshot[tok] /\ ~Flagged

\* How the new directory gets into place.
Installation ==
    IF archive = NoDir THEN <<"work_to_archive">>
    ELSE IF swaps THEN <<"swap">>
    ELSE <<"stage", "archive_to_backup", "work_to_archive">>

OpenTransaction ==
    /\ pc = "journalled"
    /\ SnapshotCurrent
    /\ plan' = Append(Installation, "commit")
    /\ pc' = "publishing"
    /\ UNCHANGED <<draft, edited, db, disk, snapshot, swaps, tok, todo, counters>>

-----------------------------------------------------------------------------
(* The moves, each of which a crash or an error may prevent.               *)

Doing(move) == plan # <<>> /\ Head(plan) = move /\ plan' = Tail(plan)
Aside == UNCHANGED <<draft, edited, snapshot, swaps, tok, todo, counters>>
SameProcedure == Aside /\ UNCHANGED <<db, pc>>

Swap ==
    /\ Doing("swap")
    /\ archive' = work[tok]
    /\ work' = [work EXCEPT ![tok] = archive]
    /\ UNCHANGED <<backup, journal>> /\ SameProcedure

\* The exchange is not supported (exFAT): the journal is turned over.
Stage ==
    /\ Doing("stage")
    /\ journal' = [journal EXCEPT ![tok] = "staged"]
    /\ UNCHANGED <<archive, work, backup>> /\ SameProcedure

ArchiveToBackup ==
    /\ Doing("archive_to_backup")
    /\ backup' = [backup EXCEPT ![tok] = archive]
    /\ archive' = NoDir
    /\ UNCHANGED <<work, journal>> /\ SameProcedure

WorkToArchive ==
    /\ Doing("work_to_archive")
    /\ archive' = work[tok]
    /\ work' = [work EXCEPT ![tok] = NoDir]
    /\ UNCHANGED <<backup, journal>> /\ SameProcedure

ArchiveToWork ==
    /\ Doing("archive_to_work")
    /\ work' = [work EXCEPT ![tok] = archive]
    /\ archive' = NoDir
    /\ UNCHANGED <<backup, journal>> /\ SameProcedure

BackupToArchive ==
    /\ Doing("backup_to_archive")
    /\ archive' = backup[tok]
    /\ backup' = [backup EXCEPT ![tok] = NoDir]
    /\ UNCHANGED <<work, journal>> /\ SameProcedure

DropWork ==
    /\ Doing("drop_work")
    /\ work' = [work EXCEPT ![tok] = NoDir]
    /\ UNCHANGED <<archive, backup, journal>> /\ SameProcedure

DropBackup ==
    /\ Doing("drop_backup")
    /\ backup' = [backup EXCEPT ![tok] = NoDir]
    /\ UNCHANGED <<archive, work, journal>> /\ SameProcedure

DropJournal ==
    /\ Doing("drop_journal")
    /\ journal' = [journal EXCEPT ![tok] = "none"]
    /\ UNCHANGED <<archive, work, backup>> /\ SameProcedure

\* The installed files are as prepared, the event and the row are written.
Commit ==
    /\ Doing("commit")
    /\ archive \notin edited
    /\ published' = tok
    /\ committed' = committed \cup {tok}
    /\ pc' = "committed"
    /\ UNCHANGED <<flag, disk>> /\ Aside

\* Recovery has removed the journal; its conflicts are closed.
CloseFlags ==
    /\ Doing("close_flags")
    /\ flag' = [k \in Kinds |-> IF flag[k] = tok THEN NoToken ELSE flag[k]]
    /\ UNCHANGED <<published, committed, disk, pc>> /\ Aside

\* After the commit the files are looked at once more: if they changed, what
\* would be needed to recover stays and the meeting is flagged.
Recheck ==
    /\ pc = "committed"
    /\ \/ /\ archive \notin edited
          /\ plan' = <<"drop_work", "drop_backup", "drop_journal">>
          /\ pc' = "clearing"
          /\ UNCHANGED flag
       \/ /\ archive \in edited
          /\ flag' = [flag EXCEPT !["publish_post_commit"] = tok]
          /\ pc' = "idle"
          /\ UNCHANGED plan
    /\ UNCHANGED <<published, committed, disk>> /\ Aside

Done ==
    /\ pc \in {"undoing", "clearing"} /\ plan = <<>>
    /\ pc' = "idle"
    /\ UNCHANGED <<draft, edited, db, disk, snapshot, swaps, tok, plan, todo, counters>>

-----------------------------------------------------------------------------
(* Failures.                                                               *)

\* A removal that is cut short may have taken the manifest already.
Interrupted ==
    /\ \/ UNCHANGED work
       \/ /\ plan # <<>> /\ Head(plan) = "drop_work" /\ work[tok] # NoDir
          /\ work' = [work EXCEPT ![tok] = Torn]
    /\ UNCHANGED <<archive, backup, journal>>

\* Mutant: a completed exchange is not noted as one.
RollbackStagedOnly ==
    IF backup[tok] # NoDir
    THEN IF archive = NoDir THEN <<"backup_to_archive">>
         ELSE <<"archive_to_work", "backup_to_archive">>
    ELSE <<>>

\* The moves that put the old directory back.
Rollback ==
    IF backup[tok] # NoDir
    THEN IF archive = NoDir THEN <<"backup_to_archive">>
         ELSE <<"archive_to_work", "backup_to_archive">>
    ELSE IF archive # tok THEN <<>>
    ELSE IF journal[tok] = "install" THEN <<"archive_to_work">> ELSE <<"swap">>

Undo ==
    /\ plan' = Rollback \o <<"drop_work", "drop_journal">>
    /\ pc' = "undoing"

\* The draft, or the installed files, changed meanwhile: nothing is published.
Refuse ==
    /\ \/ pc = "journalled" /\ ~SnapshotCurrent
       \/ pc = "publishing" /\ plan = <<"commit">> /\ archive \in edited
    /\ Undo
    /\ UNCHANGED <<draft, edited, db, disk, snapshot, swaps, tok, todo, counters>>

\* An exception before the commit undoes the moves.
Fail ==
    /\ errors < MaxErrors
    /\ pc \in {"prepared", "journalled", "publishing"}
    /\ Undo
    /\ errors' = errors + 1
    /\ UNCHANGED <<draft, edited, db, disk, snapshot, swaps, tok, todo, crashes>>

\* An exception of the undoing or the clearing ends the request with the
\* journal left where it is.
FailAgain ==
    /\ errors < MaxErrors
    /\ pc \in {"undoing", "clearing"} /\ plan # <<>>
    /\ Interrupted
    /\ plan' = <<>>
    /\ pc' = "idle"
    /\ errors' = errors + 1
    /\ UNCHANGED <<draft, edited, db, snapshot, swaps, tok, todo, crashes>>

Crash ==
    /\ crashes < MaxCrashes
    /\ pc # "down"
    /\ Interrupted
    /\ pc' = "down"
    /\ plan' = <<>>
    /\ todo' = {}
    /\ crashes' = crashes + 1
    /\ UNCHANGED <<draft, edited, db, snapshot, swaps, tok, errors>>

-----------------------------------------------------------------------------
(* Recovery, before the service answers again.                             *)

Restart ==
    /\ pc = "down"
    /\ pc' = "recovering"
    /\ todo' = {t \in Tokens : journal[t] # "none"}
    /\ plan' = <<>>
    /\ UNCHANGED <<draft, edited, db, disk, snapshot, swaps, tok, counters>>

Finish == <<"drop_journal", "close_flags">>

\* What recovery does about the journal of a publication that was not
\* committed: a sequence of moves, or FALSE when it cannot tell.
ArchiveNew(t) == archive = t
WorkNew(t) == work[t] = t
Untouched(t) == archive # NoDir /\ ~ArchiveNew(t)

Resolutions(t) ==
    LET staged == journal[t] = "staged" \/ backup[t] # NoDir
        swapped == ~staged /\ journal[t] = "rename_swap"
        install == ~staged /\ journal[t] = "install"
        noBackup == backup[t] = NoDir
        noWork == work[t] = NoDir
        discard == <<"drop_work">>
    IN  {r \in {
          [when |-> staged /\ ~noBackup /\ ArchiveNew(t) /\ noWork,
           moves |-> <<"archive_to_work", "backup_to_archive", "drop_work">>],
          [when |-> staged /\ ~noBackup /\ archive = NoDir /\ WorkNew(t),
           moves |-> <<"backup_to_archive", "drop_work">>],
          [when |-> staged /\ noBackup /\ Untouched(t) /\ WorkNew(t), moves |-> discard],
          [when |-> staged /\ noBackup /\ Untouched(t) /\ noWork, moves |-> <<>>],
          [when |-> swapped /\ ArchiveNew(t) /\ ~noWork /\ ~WorkNew(t),
           moves |-> <<"swap", "drop_work">>],
          [when |-> swapped /\ Untouched(t) /\ WorkNew(t), moves |-> discard],
          [when |-> swapped /\ Untouched(t) /\ noWork, moves |-> <<>>],
          [when |-> install /\ archive = NoDir /\ WorkNew(t), moves |-> discard],
          [when |-> install /\ ArchiveNew(t) /\ noWork,
           moves |-> <<"archive_to_work", "drop_work">>],
          [when |-> install /\ archive = NoDir /\ noWork, moves |-> <<>>]} : r.when}

\* Mutant: a journal stays on the list of the start that examined it.
ExamineAgain(t) == pc = "recovering" /\ plan = <<>> /\ t \in todo
                   /\ tok' = t /\ todo' = todo

Examine(t) == pc = "recovering" /\ plan = <<>> /\ t \in todo
              /\ tok' = t /\ todo' = todo \ {t}
Elsewhere == UNCHANGED <<draft, edited, published, committed, disk, snapshot, swaps, pc, counters>>

RollBack(t) ==
    /\ Examine(t)
    /\ t \notin committed
    /\ \E r \in Resolutions(t) : plan' = r.moves \o Finish
    /\ UNCHANGED flag /\ Elsewhere

\* Only clearing up was left to do.
CleanUp(t) ==
    /\ Examine(t)
    /\ t \in committed /\ ArchiveNew(t) /\ t \notin edited
    /\ plan' = <<"drop_work", "drop_backup">> \o Finish
    /\ UNCHANGED flag /\ Elsewhere

\* Recovery cannot tell: everything stays as it is and the meeting is flagged.
Ambiguous(t) ==
    IF t \in committed THEN ~ArchiveNew(t) \/ t \in edited ELSE Resolutions(t) = {}

\* Mutant: an ambiguous journal is passed over in silence.
FlagItNot(t) ==
    /\ Examine(t)
    /\ Ambiguous(t)
    /\ UNCHANGED flag
    /\ UNCHANGED plan /\ Elsewhere

FlagIt(t) ==
    /\ Examine(t)
    /\ Ambiguous(t)
    /\ flag' = [flag EXCEPT !["publish_recovery"] = t]
    /\ UNCHANGED plan /\ Elsewhere

\* A move of the recovery fails: the meeting is flagged and the start given up.
RecoveryFails ==
    /\ errors < MaxErrors
    /\ pc = "recovering" /\ plan # <<>> /\ Head(plan) # "close_flags"
    /\ Interrupted
    /\ flag' = [flag EXCEPT !["publish_recovery"] = tok]
    /\ plan' = <<>> /\ todo' = {}
    /\ pc' = "down"
    /\ errors' = errors + 1
    /\ UNCHANGED <<draft, edited, published, committed, snapshot, swaps, tok, crashes>>

Serve ==
    /\ pc = "recovering" /\ todo = {} /\ plan = <<>>
    /\ pc' = "idle"
    /\ UNCHANGED <<draft, edited, db, disk, snapshot, swaps, tok, plan, todo, counters>>

-----------------------------------------------------------------------------
Move == \/ Swap \/ Stage \/ ArchiveToBackup \/ WorkToArchive \/ ArchiveToWork
        \/ BackupToArchive \/ DropWork \/ DropBackup \/ DropJournal \/ Commit \/ CloseFlags
Recover == Restart \/ Serve \/ \E t \in Tokens : RollBack(t) \/ CleanUp(t) \/ FlagIt(t)
Proceed == WriteJournal \/ OpenTransaction \/ Refuse \/ Move \/ Recheck \/ Done \/ Recover

Next == \/ EditDraft \/ EditArchive
        \/ \E t \in Tokens : Begin(t)
        \/ Proceed
        \/ Fail \/ FailAgain \/ Crash \/ RecoveryFails

Spec == Init /\ [][Next]_vars

\* A publication that has begun, and a start of the service, run on.
FairSpec == Spec /\ WF_vars(Proceed)

-----------------------------------------------------------------------------
TypeOK ==
    /\ draft \in 1..(MaxEdits + 1)
    /\ edited \subseteq Tokens
    /\ published \in committed \cup {Old, NoDir}
    /\ committed \subseteq Tokens
    /\ flag \in [Kinds -> Tokens \cup {NoToken}]
    /\ archive \in Dirs
    /\ work \in [Tokens -> Dirs] /\ backup \in [Tokens -> Dirs]
    /\ journal \in [Tokens -> {"none", "install", "rename_swap", "staged"}]
    /\ snapshot \in [Tokens -> 0..(MaxEdits + 1)]
    /\ swaps \in BOOLEAN
    /\ pc \in {"idle", "prepared", "journalled", "publishing", "committed", "undoing",
               "clearing", "recovering", "down"}
    /\ tok \in Tokens \cup {NoToken}
    /\ plan \in Seq(Moves)
    /\ todo \subseteq {t \in Tokens : journal[t] # "none"}
    /\ crashes \in 0..MaxCrashes /\ errors \in 0..MaxErrors

\* The directory last published: in place, or set aside under the journal of
\* a publication that did not get to its commit.
Recoverable(dir) ==
    \/ archive = dir
    \/ \E t \in Tokens \ committed : journal[t] # "none" /\ dir \in {work[t], backup[t]}

Lost == "lost"
Promised == INSTANCE Publication WITH
    Nothing <- NoDir,
    shown   <- IF Recoverable(published) THEN published ELSE Lost,
    holds   <- [t \in Tokens |-> IF t \in committed THEN snapshot[t] ELSE 0]

\* However the moves are cut and undone, publishing is one step: the content
\* last published stays in place or in reach of the recovery until the next
\* publication is committed, and that one holds the draft of that moment.
PublishesAtOnce == Promised!Spec

\* When nothing is under way and no journal is left, the archive shows the
\* publication the database tells of.  (And every variable is of its type.)
QuietIsPublished ==
    /\ TypeOK
    /\ pc = "idle" /\ (\A t \in Tokens : journal[t] = "none") => archive = published

\* A recovery that ends has put in place what the database tells of, or has
\* flagged the meeting, which then cannot be published over.
RestoredOrFlagged ==
    [][pc = "recovering" /\ pc' = "idle" => archive = published \/ Flagged]_vars

\* The service comes back after every crash.
ServesAgain == pc = "down" ~> pc = "idle"
=============================================================================
