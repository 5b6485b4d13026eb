------------------------- MODULE RelayArchiveProofs -------------------------
(***************************************************************************)
(* No attempt of a job is lost, its row always leads to its directory, and *)
(* what is published stays, for any number of names, attempts, crashes and *)
(* errors.                                                                 *)
(*                                                                         *)
(* The argument: a promotion acts only for the newest attempt that has a   *)
(* journal, and while it or the row still needs the journal nobody else    *)
(* makes or removes visible drafts.  So once the older ones are set aside  *)
(* the target is the only visible draft, and the row is turned to it with  *)
(* the attempt's directory in place.                                       *)
(***************************************************************************)
EXTENDS RelayArchive, WellFoundedInduction, TLAPS

-----------------------------------------------------------------------------
(* The inductive invariant.                                                *)

\* A hidden directory holds nothing but the draft of its own attempt.
HiddenOwn == \A a \in Attempts : dir[Hidden(a)] \in {NoDir, Draft(a)}

\* Promotions take their turn: a journal is of an attempt that completed, and
\* while one is promoted none has a journal that is newer.
InTurn ==
    /\ promoting <= attempt
    /\ status = "queued" => promoting # attempt
    /\ \A c \in Attempts : journal[c] # NoJournal =>
          /\ c < attempt \/ (c = attempt /\ status # "queued")
          /\ promoting # 0 => c <= promoting

\* The promotion of an attempt runs, or can be taken up again.
Live(b) == promoting = b \/ (attempt = b /\ status = "pending")

\* After the older drafts are set aside no draft is visible but at the target;
\* after the installation the attempt's directory is there.
Moved == {"old_moved", "new_installed", "db_committed"}
Installing ==
    \A b \in Attempts : Live(b) /\ journal[b].state \in Moved =>
        /\ \A p \in VisibleDrafts : p = journal[b].target /\ dir[p].attempt = b
        /\ journal[b].state # "old_moved" =>
              dir[journal[b].target] # NoDir /\ dir[journal[b].target].attempt = b

\* The row of a completed attempt is still at the hidden directory, which is
\* there unless a journal tells what became of it; or it is at a visible one,
\* which is in place, is the only visible draft and has no promotion to come.
RowPoints ==
    status = "pending" =>
        /\ \/ archiveDir = Hidden(attempt) /\ journal[attempt].state # "db_committed"
           \/ archiveDir \in Visible
        /\ archiveDir = Hidden(attempt) /\ journal[attempt] = NoJournal =>
              dir[archiveDir] = Draft(attempt)
        /\ archiveDir \in Visible =>
              /\ InPlace
              /\ VisibleDrafts \subseteq {archiveDir}
              /\ promoting \in {0, attempt}
              /\ \/ journal[attempt] = NoJournal /\ promoting = 0
                 \/ journal[attempt] = [state |-> "db_committed", target |-> archiveDir]

\* A receipt, and what it left in the row, name a published directory.
Receipts ==
    /\ publishedDir # 0 => dir[publishedDir] # NoDir /\ dir[publishedDir].published
    /\ receipt # NoReceipt =>
          /\ dir[receipt.at] = Published(receipt.attempt)
          /\ receipt.attempt <= attempt
    /\ receipt.state = "committed" => receipt.attempt < attempt \/ status = "published"

Kept == \A a \in Attempts :
            a < attempt \/ (a = attempt /\ status # "queued") =>
                a \in recovered \/ \E p \in Places : IsDir(p) /\ dir[p].attempt = a

Inv == TypeOK /\ HiddenOwn /\ InTurn /\ Installing /\ RowPoints /\ Receipts /\ Kept

-----------------------------------------------------------------------------
(* Places and what is at them.                                             *)

Directories == [attempt : Attempts, published : BOOLEAN]
JournalStates == {"prepared", "old_moved", "new_installed", "db_committed"}

LEMMA PlacesApart ==
  /\ Visible \subseteq Places /\ 0 \notin Places
  /\ \A a \in Attempts : Hidden(a) \in Places /\ Hidden(a) \notin Visible
  /\ \A a, b \in Attempts : Hidden(a) = Hidden(b) => a = b
BY BoundsAreNaturals DEF Visible, Places, Hidden, Attempts

\* A directory is a draft or published, and of one attempt.
LEMMA Directory ==
  /\ \A a \in Attempts : /\ Draft(a) \in Directories /\ Published(a) \in Directories
                         /\ Draft(a).attempt = a /\ ~Draft(a).published
                         /\ Published(a).attempt = a /\ Published(a).published
  /\ NoDir \notin Directories
<1>1. Attempts \subseteq Nat
  BY BoundsAreNaturals DEF Attempts
<1>2. NoDir \notin Directories
  BY <1>1, NoDirIsNone DEF Directories
<1> QED  BY <1>2 DEF Directories, Draft, Published

LEMMA PlaceTyped ==
  ASSUME TypeOK, NEW p \in Places
  PROVE  /\ dir[p] \in {NoDir} \cup Directories
         /\ dir[p] # NoDir => /\ dir[p].attempt \in Attempts
                              /\ dir[p].published \in BOOLEAN
                              /\ ~dir[p].published => dir[p] = Draft(dir[p].attempt)
<1>1. dir[p] \in {NoDir} \cup Directories
  BY DEF TypeOK, Directories
<1> QED  BY <1>1 DEF Directories, Draft

\* A set of numbers has a least one.
LEMMA LeastNumber ==
  ASSUME NEW S, S \subseteq Nat, S # {}
  PROVE  \E x \in S : \A y \in S : x <= y
<1> DEFINE R == {ss \in Nat \X Nat : ss[1] < ss[2]}
<1>1. IsWellFoundedOn(R, Nat)
  BY NatLessThanWellFounded, Zenon DEF OpToRel
<1>2. \E x \in S : \A y \in S : ~ (<<y, x>> \in R)
  BY <1>1, WFMin
<1>3. PICK x \in S : \A y \in S : ~ (<<y, x>> \in R)
  BY <1>2
<1>4. ASSUME NEW y \in S
      PROVE  x <= y
  <2>1. x \in Nat /\ y \in Nat
    BY <1>4
  <2>2. y < x => <<y, x>> \in R
    BY <2>1
  <2> QED  BY <1>3, <1>4, <2>1, <2>2
<1> QED  BY <1>4

\* A name that is left can be chosen.
LEMMA TargetSuits ==
  ASSUME NEW a \in Attempts, NameLeft(a)
  PROVE  SelectTarget(a) \in Visible /\ Suits(SelectTarget(a), a)
<1> DEFINE S == {p \in Visible : Suits(p, a)}
<1>1. S \subseteq Nat /\ S # {}
  BY DEF Visible, NameLeft
<1>2. \E x \in S : \A y \in S : x <= y
  BY <1>1, LeastNumber
<1> QED  BY <1>2 DEF SelectTarget, Min

-----------------------------------------------------------------------------
(* Types.                                                                  *)

LEMMA Asides ==
  ASSUME TypeOK, NEW p \in Places, dir[p] # NoDir, SetAside(p)
  PROVE  /\ dir' \in [Places -> {NoDir} \cup Directories]
         /\ recovered' \subseteq Attempts
BY PlaceTyped DEF TypeOK, SetAside, Directories

LEMMA DraftsArePlaces ==
  ASSUME NEW p \in VisibleDrafts
  PROVE  p \in Visible /\ p \in Places /\ dir[p] # NoDir /\ ~dir[p].published
BY PlacesApart DEF VisibleDrafts

\* A journal that is there says where its directory goes.
LEMMA JournalTyped ==
  ASSUME TypeOK, NEW a \in Attempts
  PROVE  /\ journal[a] = NoJournal <=> journal[a].state = "none"
         /\ journal[a] # NoJournal =>
               /\ journal[a].state \in JournalStates
               /\ journal[a].target \in Visible
               /\ journal[a] = [state |-> journal[a].state, target |-> journal[a].target]
BY DEF TypeOK, NoJournal, JournalStates

LEMMA PromotingTyped ==
  ASSUME TypeOK, promoting # 0
  PROVE  /\ promoting \in Attempts /\ journal[promoting] # NoJournal
         /\ Target \in Visible /\ Target \in Places
BY PlacesApart, JournalTyped DEF TypeOK, Target

LEMMA Noted ==
  ASSUME TypeOK, NEW s \in JournalStates, promoting # 0, Note(s)
  PROVE  /\ journal' = [journal EXCEPT ![promoting] = [state |-> s, target |-> Target]]
         /\ journal' \in [Attempts -> {NoJournal} \cup
                                      [state : JournalStates, target : Visible]]
         /\ journal'[promoting] # NoJournal
<1>1. /\ promoting \in Attempts
      /\ journal[promoting] \in [state : JournalStates, target : Visible]
  BY PromotingTyped DEF TypeOK, JournalStates
<1>2. journal' = [journal EXCEPT ![promoting] = [state |-> s, target |-> Target]]
  <2>1. [journal[promoting] EXCEPT !.state = s] = [state |-> s, target |-> Target]
    BY <1>1 DEF Target
  <2> QED  BY <1>1, <2>1 DEF Note
<1>3. [state |-> s, target |-> Target] \in [state : JournalStates, target : Visible]
  BY <1>1 DEF Target
<1>4. journal'[promoting] = [state |-> s, target |-> Target]
  BY <1>1, <1>2 DEF TypeOK
<1> QED  BY <1>1, <1>2, <1>3, <1>4 DEF TypeOK, JournalStates, NoJournal

LEMMA TypesKept ==
  ASSUME Inv, Next
  PROVE  TypeOK'
<1> USE DEF Inv
<1>1. CASE CompleteMinutes
  BY <1>1, PlacesApart, Directory, PlaceTyped
  DEF CompleteMinutes, TypeOK, counters, Directories
<1>2. CASE Retry
  <2>1. attempt + 1 \in Attempts
    BY <1>2, BoundsAreNaturals DEF Retry, TypeOK, Attempts
  <2> QED  BY <1>2, <2>1 DEF Retry, TypeOK, counters
<1>3. CASE AlreadyVisible
  BY <1>3 DEF AlreadyVisible, TypeOK, counters, LockFree
<1>4. CASE Prepare
  <2>1. journal' \in [Attempts -> {NoJournal} \cup
                                  [state : JournalStates, target : Visible]]
        /\ journal'[attempt] # NoJournal
    <3>1. CASE journal[attempt] # NoJournal
      BY <1>4, <3>1 DEF Prepare, TypeOK, JournalStates
    <3>2. CASE journal[attempt] = NoJournal
      <4>1. /\ archiveDir = Hidden(attempt) /\ status = "pending"
            /\ attempt \in Attempts
        BY <1>4 DEF Prepare, Promotable, Source, TypeOK
      <4>2. dir[Source] = Draft(attempt) /\ IsDir(Source)
        BY <4>1, <3>2, PlacesApart, Directory DEF RowPoints, Source, IsDir
      <4>3. SelectTarget(attempt) \in Visible
        BY <1>4, <3>2, <4>1, <4>2, TargetSuits DEF Prepare
      <4>4. journal' = [journal EXCEPT ![attempt] =
                           [state |-> "prepared", target |-> SelectTarget(attempt)]]
        BY <1>4, <3>2, <4>2 DEF Prepare
      <4> QED  BY <4>1, <4>3, <4>4 DEF TypeOK, JournalStates, NoJournal
    <3> QED  BY <3>1, <3>2
  <2> QED  BY <1>4, <2>1 DEF Prepare, TypeOK, row, counters, JournalStates
<1>5. CASE MoveOld
  <2>1. PICK p \in InTheWay : SetAside(p)
    BY <1>5 DEF MoveOld
  <2>2. p \in Places /\ dir[p] # NoDir
    BY <2>1, DraftsArePlaces DEF InTheWay
  <2> QED
    BY <1>5, <2>1, <2>2, Asides DEF MoveOld, TypeOK, row, counters, Directories
<1>6. CASE OldMoved
  BY <1>6, Noted
  DEF OldMoved, At, TypeOK, row, counters, JournalStates
<1>7. CASE Retarget
  <2>1. promoting \in Attempts /\ SelectTarget(promoting) \in Visible
    BY <1>7, PromotingTyped, TargetSuits DEF Retarget, At
  <2>2. /\ journal' \in [Attempts -> {NoJournal} \cup
                                     [state : JournalStates, target : Visible]]
        /\ journal'[promoting] # NoJournal
    BY <1>7, <2>1, PromotingTyped, JournalTyped
    DEF Retarget, At, TypeOK, JournalStates, NoJournal
  <2> QED  BY <1>7, <2>2 DEF Retarget, TypeOK, row, counters, JournalStates
<1>8. CASE Install
  <2>1. /\ promoting \in Attempts /\ Target \in Places
        /\ Hidden(promoting) \in Places /\ dir[Hidden(promoting)] # NoDir
    BY <1>8, PromotingTyped, PlacesApart DEF Install, At, IsDir
  <2>2. CASE Ours(Target) /\ SetAside(Hidden(promoting))
    BY <1>8, <2>1, <2>2, Asides DEF Install, TypeOK, row, counters, Directories
  <2>3. CASE /\ dir[Target] = NoDir
             /\ dir' = [dir EXCEPT ![Hidden(promoting)] = NoDir,
                                   ![Target] = dir[Hidden(promoting)]]
             /\ UNCHANGED recovered
    BY <1>8, <2>1, <2>3, PlaceTyped
    DEF Install, TypeOK, row, counters, Directories
  <2> QED  BY <1>8, <2>2, <2>3 DEF Install
<1>9. CASE NewInstalled
  BY <1>9, Noted
  DEF NewInstalled, At, TypeOK, row, counters, JournalStates
<1>10. CASE UpdateRow
  <2>1. Target \in Places /\ failureNoted' \in BOOLEAN
    BY <1>10, PromotingTyped DEF UpdateRow, At, TypeOK
  <2> QED
    BY <1>10, <2>1, Noted DEF UpdateRow, At, TypeOK, counters, JournalStates
<1>11. CASE DropJournal
  BY <1>11 DEF DropJournal, At, TypeOK, row, counters
<1>12. CASE Collide \/ Fail
  <2>1. failureNoted' \in BOOLEAN
    <3>1. failureNoted' = (failureNoted \/ (attempt = promoting /\ status = "pending"))
      BY <1>12 DEF Collide, Fail, NoteFailure
    <3> QED  BY <3>1
  <2>2. errors' \in 0 .. MaxErrors
    BY <1>12, BoundsAreNaturals DEF Collide, Fail, TypeOK, counters
  <2>3. CASE Collide
    BY <2>1, <2>2, <2>3 DEF Collide, TypeOK, counters
  <2>4. CASE Fail
    BY <2>1, <2>2, <2>4 DEF Fail, TypeOK
  <2> QED  BY <1>12, <2>3, <2>4
<1>13. CASE Crash
  BY <1>13, BoundsAreNaturals DEF Crash, TypeOK, row
<1>14. CASE PublishInPlace
  <2>1. PICK p \in VisibleDrafts :
            dir' = [dir EXCEPT ![p] = Published(dir[p].attempt)]
    BY <1>14 DEF PublishInPlace
  <2>2. p \in Places /\ dir[p].attempt \in Attempts
    BY <2>1, DraftsArePlaces, PlaceTyped
  <2> QED
    BY <1>14, <2>1, <2>2, Directory
    DEF PublishInPlace, TypeOK, row, counters, Directories
<1>15. CASE PublishFromHidden
  BY <1>15, PlacesApart, Directory
  DEF PublishFromHidden, TypeOK, row, counters, Directories
<1>16. CASE ValidateReceipt
  <2>1. archiveDir \in Places /\ attempt \in Attempts
    BY <1>16, PlacesApart DEF ValidateReceipt, TypeOK, RowPoints
  <2>2. PICK p \in Visible :
            receipt' = [state |-> "validated", at |-> p, attempt |-> attempt,
                        from |-> archiveDir]
    BY <1>16 DEF ValidateReceipt
  <2>3. receipt' \in [state : {"validated", "committed"}, at : Visible,
                      attempt : Attempts, from : Places]
    BY <2>1, <2>2
  <2>4. UNCHANGED <<row, dir, recovered, journal, promoting, counters>>
    BY <1>16 DEF ValidateReceipt
  <2> QED  BY <2>3, <2>4 DEF TypeOK, row, counters
<1>17. CASE CommitReceipt
  <2>1. receipt \in [state : {"validated", "committed"}, at : Visible,
                     attempt : Attempts, from : Places]
    BY <1>17 DEF CommitReceipt, TypeOK, NoReceipt
  <2>2. receipt' \in [state : {"validated", "committed"}, at : Visible,
                      attempt : Attempts, from : Places]
    BY <1>17, <2>1 DEF CommitReceipt
  <2> QED  BY <1>17, <2>1, <2>2, PlacesApart DEF CommitReceipt, TypeOK, counters
<1>18. CASE RefuseReceipt
  BY <1>18 DEF RefuseReceipt, TypeOK, row, counters
<1>19. CASE ClearSource
  <2>1. CASE SetAside(receipt.from) /\ dir[receipt.from] = Draft(receipt.attempt)
             /\ receipt.from \in Visible
    <3>1. receipt.from \in Places /\ dir[receipt.from] # NoDir
      BY <1>19, <2>1, PlacesApart, Directory DEF ClearSource, TypeOK, NoReceipt
    <3> QED
      BY <1>19, <2>1, <3>1, Asides
      DEF ClearSource, TypeOK, row, counters, Directories
  <2>2. CASE UNCHANGED <<dir, recovered>>
    BY <1>19, <2>2 DEF ClearSource, TypeOK, row, counters
  <2> QED  BY <1>19, <2>1, <2>2 DEF ClearSource
<1>20. CASE ClearPublished
  <2>1. PICK p \in Installed : SetAside(p)
    BY <1>20 DEF ClearPublished
  <2>2. p \in Places /\ dir[p] # NoDir
    BY <2>1, DraftsArePlaces DEF Installed
  <2> QED
    BY <1>20, <2>1, <2>2, Asides
    DEF ClearPublished, TypeOK, row, counters, Directories
<1> QED
  BY <1>1, <1>2, <1>3, <1>4, <1>5, <1>6, <1>7, <1>8, <1>9, <1>10, <1>11,
     <1>12, <1>13, <1>14, <1>15, <1>16, <1>17, <1>18, <1>19, <1>20
  DEF Next, Promote, Receive

-----------------------------------------------------------------------------
(* What an action does to the directories.                                 *)

\* Only an installation makes a draft visible: every other step leaves those
\* that stay visible as they were.
LEMMA DraftsFewer ==
  ASSUME Inv, Next, ~Install
  PROVE  \A p \in VisibleDrafts' : p \in VisibleDrafts /\ dir'[p] = dir[p]
<1> USE DEF Inv
<1>1. CASE UNCHANGED <<dir, publishedDir>>
  BY <1>1 DEF VisibleDrafts
<1>2. CASE CompleteMinutes
  BY <1>2, PlacesApart DEF CompleteMinutes, VisibleDrafts, TypeOK
<1>3. CASE UNCHANGED publishedDir /\ \E p \in Places : SetAside(p)
  BY <1>3, PlacesApart DEF SetAside, VisibleDrafts, TypeOK
<1>4. CASE PublishInPlace
  BY <1>4, PlacesApart, Directory, DraftsArePlaces, PlaceTyped
  DEF PublishInPlace, VisibleDrafts, TypeOK, row
<1>5. CASE PublishFromHidden
  BY <1>5, PlacesApart, Directory
  DEF PublishFromHidden, VisibleDrafts, TypeOK, row
<1>6. CASE CommitReceipt
  <2>1. dir' = dir
    BY <1>6 DEF CommitReceipt
  <2>2. ASSUME NEW p \in Visible, ~dir[p].published
        PROVE  p # publishedDir
    BY <2>2, PlacesApart DEF Receipts
  <2> QED  BY <2>1, <2>2 DEF VisibleDrafts
<1>7. MoveOld => \E p \in Places : SetAside(p)
  BY DraftsArePlaces DEF MoveOld, InTheWay
<1>8. ClearPublished => \E p \in Places : SetAside(p)
  BY DraftsArePlaces DEF ClearPublished, Installed
<1>9. ClearSource => UNCHANGED dir \/ \E p \in Places : SetAside(p)
  BY PlacesApart DEF ClearSource
<1> QED
  BY <1>1, <1>2, <1>3, <1>4, <1>5, <1>6, <1>7, <1>8, <1>9
  DEF Next, Promote, Receive, Retry, AlreadyVisible, Prepare, MoveOld,
      OldMoved, Retarget, NewInstalled, UpdateRow, DropJournal, Collide, Fail,
      Crash, ValidateReceipt, RefuseReceipt, ClearSource, ClearPublished, row

LEMMA HiddenOwnKept ==
  ASSUME Inv, Next
  PROVE  HiddenOwn'
<1> USE DEF Inv
<1>1. CASE UNCHANGED dir
  BY <1>1 DEF HiddenOwn
<1>2. CASE CompleteMinutes
  BY <1>2, PlacesApart DEF CompleteMinutes, HiddenOwn, TypeOK
<1>3. CASE \E p \in Places : SetAside(p)
  BY <1>3, PlacesApart DEF SetAside, HiddenOwn, TypeOK
<1>4. CASE PublishInPlace
  BY <1>4, PlacesApart, DraftsArePlaces DEF PublishInPlace, HiddenOwn, TypeOK
<1>5. CASE PublishFromHidden
  BY <1>5, PlacesApart DEF PublishFromHidden, HiddenOwn, TypeOK
<1>6. CASE Install /\ dir' = [dir EXCEPT ![Hidden(promoting)] = NoDir,
                                         ![Target] = dir[Hidden(promoting)]]
  BY <1>6, PlacesApart, PromotingTyped DEF Install, At, HiddenOwn, TypeOK
<1>7. Install => \/ \E p \in Places : SetAside(p)
                 \/ dir' = [dir EXCEPT ![Hidden(promoting)] = NoDir,
                                       ![Target] = dir[Hidden(promoting)]]
  BY DEF Install, IsDir
<1>8. MoveOld => \E p \in Places : SetAside(p)
  BY DraftsArePlaces DEF MoveOld, InTheWay
<1>9. ClearPublished => \E p \in Places : SetAside(p)
  BY DraftsArePlaces DEF ClearPublished, Installed
<1>10. ClearSource => UNCHANGED dir \/ \E p \in Places : SetAside(p)
  BY PlacesApart DEF ClearSource
<1> QED
  BY <1>1, <1>2, <1>3, <1>4, <1>5, <1>6, <1>7, <1>8, <1>9, <1>10
  DEF Next, Promote, Receive, Retry, AlreadyVisible, Prepare,
      OldMoved, Retarget, NewInstalled, UpdateRow, DropJournal, Collide, Fail,
      Crash, ValidateReceipt, CommitReceipt, RefuseReceipt

\* A completed attempt stays in some place, or is set aside.
LEMMA KeptStep ==
  ASSUME Inv, Next
  PROVE  Kept'
<1> USE DEF Inv
<1> DEFINE Somewhere(a) == a \in recovered \/ \E p \in Places : IsDir(p) /\ dir[p].attempt = a
<1>1. ASSUME NEW a \in Attempts, Somewhere(a), UNCHANGED <<dir, recovered>>
      PROVE  Somewhere(a)'
  BY <1>1 DEF IsDir
<1>2. ASSUME NEW a \in Attempts, Somewhere(a), NEW q \in Places, dir[q] # NoDir, SetAside(q)
      PROVE  Somewhere(a)'
  BY <1>2 DEF SetAside, IsDir, TypeOK
<1>3. ASSUME NEW a \in Attempts, Somewhere(a), CompleteMinutes
      PROVE  Somewhere(a)'
  BY <1>3, PlacesApart, Directory DEF CompleteMinutes, IsDir, TypeOK, HiddenOwn
<1>4. ASSUME NEW a \in Attempts, Somewhere(a), PublishInPlace
      PROVE  Somewhere(a)'
  BY <1>4, DraftsArePlaces, PlaceTyped, Directory DEF PublishInPlace, IsDir, TypeOK
<1>5. ASSUME NEW a \in Attempts, Somewhere(a), PublishFromHidden
      PROVE  Somewhere(a)'
  BY <1>5, PlacesApart, Directory DEF PublishFromHidden, IsDir, TypeOK
<1>6. ASSUME NEW a \in Attempts, Somewhere(a), Install
      PROVE  Somewhere(a)'
  BY <1>6, PlacesApart, PromotingTyped DEF Install, At, SetAside, IsDir, TypeOK
<1>7. MoveOld \/ ClearPublished \/ ClearSource =>
        UNCHANGED <<dir, recovered>> \/ \E q \in Places : dir[q] # NoDir /\ SetAside(q)
  BY DraftsArePlaces, PlacesApart, Directory
  DEF MoveOld, InTheWay, ClearPublished, Installed, ClearSource, TypeOK, NoReceipt
<1>8. ASSUME NEW a \in Attempts, Somewhere(a)
      PROVE  Somewhere(a)'
  BY <1>1, <1>2, <1>3, <1>4, <1>5, <1>6, <1>7, <1>8
  DEF Next, Promote, Receive, Retry, AlreadyVisible, Prepare, OldMoved, Retarget,
      NewInstalled, UpdateRow, DropJournal, Collide, Fail, Crash, ValidateReceipt,
      CommitReceipt, RefuseReceipt
<1>9. ASSUME NEW a \in Attempts, a = attempt, CompleteMinutes
      PROVE  Somewhere(a)'
  BY <1>9, PlacesApart, Directory DEF CompleteMinutes, IsDir, TypeOK
<1>10. ASSUME NEW a \in Attempts,
              a < attempt' \/ (a = attempt' /\ status' # "queued")
       PROVE  \/ a < attempt \/ (a = attempt /\ status # "queued")
              \/ CompleteMinutes /\ a = attempt
  <2>1. CASE Retry
    BY <1>10, <2>1 DEF Retry, TypeOK, Attempts
  <2>2. CASE ~Retry
    <3>1. attempt' = attempt /\ (status' # "queued" => CompleteMinutes \/ status # "queued")
      BY <2>2
      DEF Next, Promote, Receive, CompleteMinutes, AlreadyVisible, Prepare, MoveOld,
          OldMoved, Retarget, Install, NewInstalled, UpdateRow, DropJournal, Collide,
          Fail, Crash, PublishInPlace, PublishFromHidden, ValidateReceipt,
          CommitReceipt, RefuseReceipt, ClearSource, ClearPublished, RowUnchanged, row
    <3> QED  BY <1>10, <3>1
  <2> QED  BY <2>1, <2>2
<1>11. ASSUME NEW a \in Attempts,
              a < attempt' \/ (a = attempt' /\ status' # "queued")
       PROVE  Somewhere(a)'
  <2>1. CASE CompleteMinutes /\ a = attempt
    BY <1>9, <2>1
  <2>2. CASE a < attempt \/ (a = attempt /\ status # "queued")
    <3>1. Somewhere(a)
      BY <1>11, <2>2 DEF Kept
    <3> QED  BY <1>8, <1>11, <3>1
  <2> QED  BY <1>10, <1>11, <2>1, <2>2
<1> QED  BY <1>11 DEF Kept

\* What is published stays at its place.
LEMMA PublishedKept ==
  ASSUME Inv, Next, NEW p \in Visible, dir[p] # NoDir, dir[p].published
  PROVE  dir'[p] = dir[p]
<1> USE DEF Inv
<1>1. CASE UNCHANGED dir
  BY <1>1
<1>2. CASE CompleteMinutes
  BY <1>2, PlacesApart DEF CompleteMinutes, TypeOK
<1>3. CASE Install
  BY <1>3, PlacesApart, PromotingTyped DEF Install, At, SetAside, IsDir, TypeOK
<1>4. CASE PublishInPlace
  BY <1>4, PlacesApart, DraftsArePlaces DEF PublishInPlace, TypeOK
<1>5. CASE PublishFromHidden
  BY <1>5, PlacesApart DEF PublishFromHidden, TypeOK
<1>6. CASE \E q \in Places : SetAside(q) /\ ~dir[q].published
  BY <1>6, PlacesApart DEF SetAside, TypeOK
<1>7. MoveOld \/ ClearPublished \/ ClearSource =>
        UNCHANGED dir \/ \E q \in Places : SetAside(q) /\ ~dir[q].published
  BY DraftsArePlaces, PlacesApart, Directory
  DEF MoveOld, InTheWay, ClearPublished, Installed, ClearSource, TypeOK, NoReceipt
<1> QED
  BY <1>1, <1>2, <1>3, <1>4, <1>5, <1>6, <1>7
  DEF Next, Promote, Receive, Retry, AlreadyVisible, Prepare, OldMoved, Retarget,
      NewInstalled, UpdateRow, DropJournal, Collide, Fail, Crash, ValidateReceipt,
      CommitReceipt, RefuseReceipt

LEMMA ReceiptsKept ==
  ASSUME Inv, Next
  PROVE  Receipts'
<1> USE DEF Inv
<1>1. attempt \in Nat /\ (attempt' = attempt \/ (attempt' = attempt + 1 /\ Retry))
  BY DEF Next, Promote, Receive, CompleteMinutes, Retry, AlreadyVisible, Prepare,
      MoveOld, OldMoved, Retarget, Install, NewInstalled, UpdateRow, DropJournal,
      Collide, Fail, Crash, PublishInPlace, PublishFromHidden, ValidateReceipt,
      CommitReceipt, RefuseReceipt, ClearSource, ClearPublished, row, TypeOK, Attempts
<1>2. receipt # NoReceipt =>
         /\ receipt.at \in Visible /\ receipt.attempt \in Attempts
         /\ dir[receipt.at] = Published(receipt.attempt)
         /\ dir'[receipt.at] = Published(receipt.attempt)
  BY PublishedKept, Directory DEF Receipts, TypeOK
<1>3. publishedDir # 0 => dir'[publishedDir] # NoDir /\ dir'[publishedDir].published
  BY PublishedKept DEF Receipts, TypeOK
<1>4. CASE ValidateReceipt
  BY <1>1, <1>3, <1>4
  DEF ValidateReceipt, Receipts, row, NoReceipt
<1>5. CASE CommitReceipt
  BY <1>1, <1>2, <1>5, Directory DEF CommitReceipt, Receipts, NoReceipt, RowUnchanged
<1>6. CASE RefuseReceipt \/ ClearSource \/ Crash
  BY <1>3, <1>6 DEF RefuseReceipt, ClearSource, Crash, Receipts, NoReceipt, row
<1>7. CASE Retry
  BY <1>1, <1>2, <1>3, <1>7 DEF Retry, Receipts, TypeOK, NoReceipt, Attempts
<1>8. CASE UNCHANGED <<receipt, publishedDir, attempt>> /\ (status = "published" => status' = status)
  BY <1>2, <1>3, <1>8 DEF Receipts
<1> QED
  BY <1>4, <1>5, <1>6, <1>7, <1>8
  DEF Next, Promote, Receive, CompleteMinutes, AlreadyVisible, Prepare, MoveOld,
      OldMoved, Retarget, Install, NewInstalled, UpdateRow, DropJournal, Collide,
      Fail, PublishInPlace, PublishFromHidden, ClearPublished, row

LEMMA InTurnKept ==
  ASSUME Inv, Next
  PROVE  InTurn'
<1> USE DEF Inv
<1>1. attempt \in Nat /\ promoting \in Nat /\ Attempts \subseteq Nat
  BY BoundsAreNaturals DEF TypeOK, Attempts
<1>2. CASE CompleteMinutes
  BY <1>1, <1>2 DEF CompleteMinutes, InTurn, TypeOK
<1>3. CASE Retry
  BY <1>1, <1>3 DEF Retry, InTurn
<1>4. CASE AlreadyVisible
  BY <1>1, <1>4 DEF AlreadyVisible, InTurn, TypeOK
<1>5. CASE Prepare
  <2>1. \A c \in Attempts : c # attempt => journal'[c] = journal[c]
    BY <1>5 DEF Prepare, TypeOK
  <2>2. promoting' = attempt /\ UNCHANGED row /\ status = "pending"
    BY <1>5 DEF Prepare, Promotable
  <2> QED  BY <1>1, <2>1, <2>2 DEF InTurn, row
<1>6. CASE OldMoved \/ Retarget \/ NewInstalled \/ UpdateRow
  <2>1. \A c \in Attempts : journal'[c] # NoJournal => journal[c] # NoJournal
    BY <1>6, PromotingTyped
    DEF OldMoved, Retarget, NewInstalled, UpdateRow, At, Note, TypeOK
  <2>2. UNCHANGED <<promoting, status, attempt>>
    BY <1>6 DEF OldMoved, Retarget, NewInstalled, UpdateRow, row
  <2> QED  BY <1>1, <2>1, <2>2 DEF InTurn
<1>7. CASE DropJournal
  BY <1>1, <1>7 DEF DropJournal, InTurn, TypeOK, row
<1>8. CASE CommitReceipt
  BY <1>1, <1>8 DEF CommitReceipt, RowUnchanged, InTurn
<1>9. CASE /\ UNCHANGED <<journal, status, attempt>>
           /\ promoting' \in {0, promoting}
  BY <1>1, <1>9 DEF InTurn
<1> QED
  BY <1>2, <1>3, <1>4, <1>5, <1>6, <1>7, <1>8, <1>9
  DEF Next, Promote, Receive, MoveOld, Install, Collide, Fail, Crash,
      PublishInPlace, PublishFromHidden, ValidateReceipt, RefuseReceipt, ClearSource,
      ClearPublished, row

\* While a promotion runs only its own attempt's journal can be live.
LEMMA OneLive ==
  ASSUME TypeOK, InTurn, promoting # 0,
         NEW b \in Attempts, Live(b), journal[b] # NoJournal
  PROVE  b = promoting
BY BoundsAreNaturals DEF TypeOK, InTurn, Live, Attempts

\* A visible directory of the current attempt, or of any while a promotion has
\* the lock, is moved by nobody but that promotion.
LEMMA PlaceStays ==
  ASSUME Inv, Next, ~MoveOld, ~Install,
         NEW t \in Visible, dir[t] # NoDir,
         promoting # 0 \/ (status = "pending" /\ dir[t].attempt = attempt)
  PROVE  dir'[t] # NoDir /\ dir'[t].attempt = dir[t].attempt
<1> USE DEF Inv
<1>1. t \in Places
  BY PlacesApart
<1>2. CASE UNCHANGED dir
  BY <1>2
<1>3. CASE CompleteMinutes
  BY <1>1, <1>3, PlacesApart DEF CompleteMinutes, TypeOK
<1>4. CASE PublishInPlace
  BY <1>1, <1>4, PlacesApart, DraftsArePlaces, PlaceTyped, Directory
  DEF PublishInPlace, TypeOK
<1>5. CASE PublishFromHidden
  BY <1>1, <1>5, PlacesApart DEF PublishFromHidden, TypeOK
<1>6. ~ClearPublished
  BY DEF ClearPublished, LockFree
<1>7. CASE ClearSource
  <2>1. status = "pending" /\ receipt.attempt < attempt /\ dir[t].attempt = attempt
    BY <1>7 DEF ClearSource, LockFree, Receipts
  <2>2. attempt \in Nat /\ receipt.attempt \in Attempts
    BY <1>7, BoundsAreNaturals DEF ClearSource, TypeOK, Attempts, NoReceipt
  <2>3. CASE SetAside(receipt.from) /\ dir[receipt.from] = Draft(receipt.attempt)
    <3>1. receipt.attempt # attempt
      BY <2>1, <2>2
    <3>2. dir[receipt.from].attempt # attempt
      BY <2>2, <2>3, <3>1, Directory
    <3> QED  BY <1>1, <2>1, <2>3, <3>2 DEF SetAside, TypeOK
  <2>4. CASE UNCHANGED dir
    BY <2>4
  <2> QED  BY <1>7, <2>3, <2>4 DEF ClearSource
<1> QED
  BY <1>2, <1>3, <1>4, <1>5, <1>6, <1>7
  DEF Next, Promote, Receive, Retry, AlreadyVisible, Prepare, OldMoved, Retarget,
      NewInstalled, UpdateRow, DropJournal, Collide, Fail, Crash, ValidateReceipt,
      CommitReceipt, RefuseReceipt

LEMMA TargetStays ==
  ASSUME Inv, Next, NEW b \in Attempts, Live(b),
         journal[b].state \in {"new_installed", "db_committed"}
  PROVE  LET t == journal[b].target IN dir'[t] # NoDir /\ dir'[t].attempt = b
<1> USE DEF Inv
<1>1. /\ journal[b].target \in Visible /\ dir[journal[b].target] # NoDir
      /\ dir[journal[b].target].attempt = b /\ journal[b] # NoJournal
  BY JournalTyped DEF Installing, Moved, NoJournal
<1>2. promoting # 0 => b = promoting
  BY <1>1, OneLive
<1>3. ~MoveOld /\ ~Install
  BY <1>2 DEF MoveOld, Install, At
<1>4. promoting # 0 \/ (status = "pending" /\ b = attempt)
  BY BoundsAreNaturals DEF Live, Attempts
<1> QED  BY <1>1, <1>3, <1>4, PlaceStays

LEMMA InstallingKept ==
  ASSUME Inv, Next
  PROVE  Installing'
<1> USE DEF Inv
<1> SUFFICES ASSUME NEW b \in Attempts, Live(b)', journal'[b].state \in Moved
             PROVE  /\ \A p \in VisibleDrafts' : p = journal'[b].target /\ dir'[p].attempt = b
                    /\ journal'[b].state # "old_moved" =>
                          /\ dir'[journal'[b].target] # NoDir
                          /\ dir'[journal'[b].target].attempt = b
  BY DEF Installing
<1>0. Install => promoting # 0 /\ UNCHANGED <<status, attempt, journal, promoting>>
  BY DEF Install, At, row
<1>1. Moved \subseteq JournalStates /\ "none" \notin Moved /\ "prepared" \notin Moved
  BY DEF Moved, JournalStates
<1>2. CASE journal'[b] = journal[b] /\ Live(b) /\ ~Install
  <2>1. /\ \A p \in VisibleDrafts : p = journal[b].target /\ dir[p].attempt = b
        /\ journal[b].state \in Moved
    BY <1>2 DEF Installing
  <2>2. journal[b].state # "old_moved" => journal[b].state \in {"new_installed", "db_committed"}
    BY <2>1 DEF Moved
  <2> QED  BY <1>2, <2>1, <2>2, DraftsFewer, TargetStays
<1>3. CASE Install
  <2>1. /\ promoting # 0 /\ promoting \in Attempts /\ UNCHANGED <<journal, promoting, row>>
        /\ journal[promoting].state = "old_moved" /\ Target \in Visible
    BY <1>3, PromotingTyped DEF Install, At
  <2>2. b = promoting /\ Live(b) /\ journal'[b] = journal[b]
    <3>1. Live(b) /\ journal[b] # NoJournal
      BY <1>1, <2>1, JournalTyped DEF Live, row
    <3> QED  BY <2>1, <3>1, OneLive
  <2>3. \A p \in VisibleDrafts : p = Target /\ dir[p].attempt = b
    BY <2>1, <2>2 DEF Installing, Moved, Target
  <2>4. dir[Hidden(b)] = Draft(b)
    BY <1>3, <2>2 DEF Install, IsDir, HiddenOwn
  <2>5. \A p \in VisibleDrafts' : p = Target \/ p \in VisibleDrafts
    BY <1>3, <2>1, <2>2, PlacesApart
    DEF Install, SetAside, VisibleDrafts, TypeOK, row
  <2>6. \A p \in VisibleDrafts' : p = Target /\ dir'[p].attempt = b
    <3>1. CASE dir' = [dir EXCEPT ![Hidden(promoting)] = NoDir,
                                  ![Target] = dir[Hidden(promoting)]]
      <4>1. dir'[Target] = Draft(b)
        BY <2>1, <2>2, <2>4, <3>1, PlacesApart DEF TypeOK
      <4> QED  BY <2>2, <2>3, <2>5, <4>1, Directory
    <3>2. CASE Ours(Target) /\ SetAside(Hidden(promoting))
      <4>1. dir'[Target] = dir[Target] /\ dir[Target].attempt = b
        BY <2>1, <2>2, <3>2, PlacesApart DEF Ours, SetAside, TypeOK
      <4> QED  BY <2>2, <2>3, <2>5, <4>1
    <3> QED  BY <1>3, <3>1, <3>2 DEF Install
  <2> QED  BY <2>1, <2>2, <2>6 DEF Target
<1>4. CASE CompleteMinutes
  <2>1. journal[b].state \in Moved => journal[b] # NoJournal
    BY <1>1 DEF NoJournal
  <2>2. journal' = journal /\ status = "queued" /\ status' # status
    BY <1>4 DEF CompleteMinutes
  <2>3. Live(b)
    <3>1. promoting' = promoting /\ attempt' = attempt
      BY <1>4 DEF CompleteMinutes
    <3>2. b # attempt
      BY <2>1, <2>2, BoundsAreNaturals DEF InTurn, Attempts
    <3> QED  BY <3>1, <3>2 DEF Live
  <2> QED  BY <1>0, <1>2, <2>2, <2>3
<1>5. CASE Retry \/ CommitReceipt
  <2>1. status' # status /\ UNCHANGED <<journal, promoting>> /\ status' # "pending"
    BY <1>5 DEF Retry, CommitReceipt, RowUnchanged
  <2>2. Live(b)
    BY <2>1 DEF Live
  <2> QED  BY <1>0, <1>2, <2>1, <2>2
<1>6. CASE AlreadyVisible \/ DropJournal
  <2>1. \E c \in Attempts : journal' = [journal EXCEPT ![c] = NoJournal]
    BY <1>6 DEF AlreadyVisible, DropJournal, At, TypeOK
  <2>2. journal'[b] = journal[b]
    BY <1>1, <2>1 DEF TypeOK, NoJournal
  <2>3. Live(b) /\ ~Install
    BY <1>0, <1>1, <1>6, <2>2, BoundsAreNaturals
    DEF AlreadyVisible, DropJournal, LockFree, Live, row, At, Attempts, NoJournal, TypeOK
  <2> QED  BY <1>2, <2>2, <2>3
<1>7. CASE Prepare
  <2>1. attempt \in Attempts /\ status = "pending" /\ promoting = 0
        /\ promoting' = attempt /\ UNCHANGED row
    BY <1>7 DEF Prepare, Promotable, LockFree, TypeOK
  <2>2. Live(b)
    BY <2>1 DEF Live, row
  <2>3. journal'[b] = journal[b] \/ journal'[b].state = "prepared"
    BY <1>7, <2>1 DEF Prepare, TypeOK
  <2> QED  BY <1>0, <1>1, <1>2, <2>1, <2>2, <2>3
<1>8. CASE OldMoved \/ Retarget \/ NewInstalled \/ UpdateRow
  <2>1. /\ promoting # 0 /\ promoting \in Attempts /\ Target \in Visible
        /\ UNCHANGED <<promoting, status, attempt, dir, publishedDir>>
        /\ VisibleDrafts' = VisibleDrafts
    BY <1>8, PromotingTyped
    DEF OldMoved, Retarget, NewInstalled, UpdateRow, At, row, VisibleDrafts
  <2>2. Live(b)
    BY <2>1 DEF Live
  <2>3. CASE b # promoting
    <3>1. journal'[b] = journal[b]
      BY <1>8, <2>3 DEF OldMoved, Retarget, NewInstalled, UpdateRow, Note, TypeOK
    <3> QED  BY <1>2, <1>3, <2>2, <3>1
  <2>4. CASE b = promoting /\ OldMoved
    <3>1. \A p \in VisibleDrafts : p = Target /\ dir[p].attempt = b
      BY <2>4 DEF OldMoved, InTheWay
    <3>2. journal'[b] = [state |-> "old_moved", target |-> Target]
      BY <2>1, <2>4, Noted DEF OldMoved, JournalStates, TypeOK
    <3> QED  BY <2>1, <3>1, <3>2
  <2>5. CASE b = promoting /\ Retarget
    <3>1. journal[b].state = "old_moved" /\ dir[Target] # NoDir /\ dir[Target].attempt # b
      BY <2>5 DEF Retarget, At, Ours
    <3>2. VisibleDrafts = {}
      BY <2>2, <2>5, <3>1 DEF Installing, Moved, Target
    <3>3. journal'[b].state = "old_moved"
      BY <2>1, <2>5, <3>1, JournalTyped DEF Retarget, TypeOK, NoJournal
    <3> QED  BY <2>1, <3>2, <3>3
  <2>6. CASE b = promoting /\ (NewInstalled \/ UpdateRow)
    <3>1. /\ journal[b].state \in {"old_moved", "new_installed"}
          /\ dir[Target] # NoDir /\ dir[Target].attempt = b
      BY <2>2, <2>6 DEF NewInstalled, UpdateRow, At, Ours, Installing, Moved, Target
    <3>2. \A p \in VisibleDrafts : p = Target /\ dir[p].attempt = b
      BY <2>2, <2>6, <3>1 DEF Installing, Moved, Target
    <3>3. journal'[b].target = Target
      BY <2>1, <2>6, Noted DEF NewInstalled, UpdateRow, JournalStates, TypeOK
    <3> QED  BY <2>1, <3>1, <3>2, <3>3
  <2> QED  BY <1>8, <2>3, <2>4, <2>5, <2>6
<1>9. CASE UNCHANGED <<journal, status, attempt>> /\ promoting' \in {0, promoting}
  BY <1>2, <1>3, <1>9, BoundsAreNaturals DEF Live, Attempts
<1> QED
  BY <1>3, <1>4, <1>5, <1>6, <1>7, <1>8, <1>9
  DEF Next, Promote, Receive, MoveOld, Collide, Fail, Crash, PublishInPlace,
      PublishFromHidden, ValidateReceipt, RefuseReceipt, ClearSource, ClearPublished, row

-----------------------------------------------------------------------------
(* Where the row points.                                                   *)

\* The draft in a hidden directory that no journal is of stays there.
LEMMA HiddenStays ==
  ASSUME Inv, Next, status = "pending", dir[Hidden(attempt)] = Draft(attempt),
         journal[attempt] = NoJournal
  PROVE  dir'[Hidden(attempt)] = Draft(attempt)
<1> USE DEF Inv
<1>1. attempt \in Attempts
  BY DEF TypeOK
<1>2. Live(attempt) /\ (promoting # 0 => promoting # attempt)
  BY DEF Live, TypeOK
<1>3. CASE UNCHANGED dir
  BY <1>3
<1>4. CASE \E q \in Visible : SetAside(q)
  BY <1>1, <1>4, PlacesApart DEF SetAside, TypeOK
<1>5. CASE Install
  BY <1>1, <1>2, <1>5, PlacesApart, PromotingTyped DEF Install, At, SetAside, TypeOK
<1>6. CASE PublishInPlace \/ PublishFromHidden
  BY <1>1, <1>6, PlacesApart, DraftsArePlaces DEF PublishInPlace, PublishFromHidden, TypeOK
<1>7. CASE MoveOld \/ ClearPublished \/ ClearSource
  BY <1>3, <1>4, <1>7, DraftsArePlaces
  DEF MoveOld, InTheWay, ClearPublished, Installed, ClearSource
<1>8. ~CompleteMinutes
  BY DEF CompleteMinutes
<1> QED
  BY <1>3, <1>5, <1>6, <1>7, <1>8
  DEF Next, Promote, Receive, Retry, AlreadyVisible, Prepare, OldMoved, Retarget,
      NewInstalled, UpdateRow, DropJournal, Collide, Fail, Crash, ValidateReceipt,
      CommitReceipt, RefuseReceipt

LEMMA RowPointsKept ==
  ASSUME Inv, Next
  PROVE  RowPoints'
<1> USE DEF Inv
<1>1. CASE CompleteMinutes
  <2>1. /\ status = "queued" /\ attempt' = attempt /\ attempt \in Attempts
        /\ archiveDir' = Hidden(attempt) /\ UNCHANGED journal
        /\ dir'[Hidden(attempt)] = Draft(attempt)
    BY <1>1, PlacesApart DEF CompleteMinutes, TypeOK
  <2>2. journal[attempt] = NoJournal
    BY <2>1, BoundsAreNaturals DEF InTurn, Attempts
  <2> QED  BY <2>1, <2>2, PlacesApart DEF RowPoints, NoJournal
<1>2. ASSUME ~CompleteMinutes, status' = "pending"
      PROVE  status = "pending" /\ attempt' = attempt /\ publishedDir' = publishedDir
             /\ (~UpdateRow => archiveDir' = archiveDir)
  BY <1>2
  DEF Next, Promote, Receive, Retry, AlreadyVisible, Prepare, MoveOld, OldMoved,
      Retarget, Install, NewInstalled, UpdateRow, DropJournal, Collide, Fail, Crash,
      PublishInPlace, PublishFromHidden, ValidateReceipt, CommitReceipt, RefuseReceipt,
      ClearSource, ClearPublished, row
<1>3. ASSUME ~CompleteMinutes, status' = "pending", archiveDir \in Visible
      PROVE  RowPoints'
  <2>1. /\ status = "pending" /\ attempt' = attempt /\ publishedDir' = publishedDir
        /\ attempt \in Attempts /\ InPlace /\ VisibleDrafts \subseteq {archiveDir}
        /\ promoting \in {0, attempt}
        /\ \/ journal[attempt] = NoJournal /\ promoting = 0
           \/ journal[attempt] = [state |-> "db_committed", target |-> archiveDir]
    BY <1>2, <1>3 DEF RowPoints, TypeOK
  <2>2. /\ ~MoveOld /\ ~OldMoved /\ ~Retarget /\ ~Install /\ ~NewInstalled /\ ~UpdateRow
        /\ ~Prepare
    BY <1>3, <2>1, PlacesApart
    DEF MoveOld, OldMoved, Retarget, Install, NewInstalled, UpdateRow, At, Prepare,
        Promotable, Source
  <2>3. archiveDir' = archiveDir
    BY <1>2, <1>3, <2>2
  <2>4. InPlace'
    BY <2>1, <2>2, <2>3, PlaceStays, PlacesApart DEF InPlace, IsDir
  <2>5. VisibleDrafts' \subseteq {archiveDir}
    BY <2>1, <2>2, DraftsFewer
  <2>6. /\ promoting' \in {0, attempt}
        /\ \/ journal'[attempt] = NoJournal /\ promoting' = 0
           \/ journal'[attempt] = [state |-> "db_committed", target |-> archiveDir]
    <3>1. CASE AlreadyVisible
      BY <2>1, <3>1 DEF AlreadyVisible, LockFree, TypeOK
    <3>2. CASE DropJournal
      BY <2>1, <3>2 DEF DropJournal, At, TypeOK
    <3>3. CASE UNCHANGED journal /\ promoting' \in {0, promoting}
      BY <2>1, <3>3
    <3> QED
      BY <1>3, <2>2, <3>1, <3>2, <3>3
      DEF Next, Promote, Receive, Retry, Collide, Fail, Crash, PublishInPlace,
          PublishFromHidden, ValidateReceipt, CommitReceipt, RefuseReceipt, ClearSource,
          ClearPublished
  <2> QED  BY <1>3, <2>1, <2>3, <2>4, <2>5, <2>6, PlacesApart DEF RowPoints
<1>4. ASSUME ~CompleteMinutes, status' = "pending", archiveDir = Hidden(attempt),
             journal[attempt].state # "db_committed"
      PROVE  RowPoints'
  <2>1. /\ status = "pending" /\ attempt' = attempt /\ publishedDir' = publishedDir
        /\ attempt \in Attempts /\ archiveDir \notin Visible
    BY <1>2, <1>4, PlacesApart DEF TypeOK
  <2>2. CASE UpdateRow
    <3>1. /\ promoting \in Attempts /\ promoting # 0 /\ Target \in Visible
          /\ journal[promoting].state = "new_installed" /\ UNCHANGED <<promoting, dir>>
          /\ archiveDir' = Target
      BY <2>2, PromotingTyped DEF UpdateRow, At
    <3>2. attempt = promoting
      BY <2>1, <2>2, <3>1 DEF UpdateRow, RowAsExpected
    <3>3. /\ dir[Target] # NoDir /\ dir[Target].attempt = attempt
          /\ VisibleDrafts \subseteq {Target}
      BY <3>1, <3>2 DEF Installing, Moved, Live, Target
    <3>4. journal'[attempt] = [state |-> "db_committed", target |-> Target]
      BY <2>1, <2>2, <3>1, <3>2, Noted DEF UpdateRow, JournalStates, TypeOK
    <3>5. InPlace' /\ VisibleDrafts' = VisibleDrafts
      BY <2>1, <3>1, <3>3, PlacesApart DEF InPlace, IsDir, VisibleDrafts
    <3> QED  BY <2>1, <3>1, <3>2, <3>3, <3>4, <3>5, PlacesApart DEF RowPoints
  <2>3. CASE ~UpdateRow
    <3>1. archiveDir' = archiveDir
      BY <1>2, <1>4, <2>3
    <3>2. journal'[attempt].state # "db_committed"
      <4>1. CASE journal'[attempt] = journal[attempt] \/ journal'[attempt] = NoJournal
        BY <1>4, <4>1 DEF NoJournal
      <4>2. CASE Prepare
        BY <1>4, <2>1, <4>2 DEF Prepare, TypeOK
      <4>3. CASE OldMoved \/ NewInstalled
        BY <1>4, <2>1, <4>3, PromotingTyped, Noted
        DEF OldMoved, NewInstalled, At, JournalStates, TypeOK, Note
      <4>4. CASE Retarget
        BY <1>4, <2>1, <4>4, PromotingTyped, JournalTyped DEF Retarget, At, TypeOK
      <4>5. CASE AlreadyVisible \/ DropJournal
        BY <1>4, <2>1, <4>5, PromotingTyped
        DEF AlreadyVisible, DropJournal, At, TypeOK, NoJournal
      <4> QED
        BY <1>4, <2>3, <4>1, <4>2, <4>3, <4>4, <4>5
        DEF Next, Promote, Receive, Retry, MoveOld, Install, Collide, Fail, Crash,
            PublishInPlace, PublishFromHidden, ValidateReceipt, CommitReceipt,
            RefuseReceipt, ClearSource, ClearPublished
    <3>3. ASSUME journal'[attempt] = NoJournal
          PROVE  journal[attempt] = NoJournal
      <4>1. ~AlreadyVisible
        BY <2>1 DEF AlreadyVisible, InPlace
      <4>2. CASE DropJournal
        BY <1>4, <2>1, <3>3, <4>2, PromotingTyped DEF DropJournal, At, TypeOK
      <4>3. CASE Prepare \/ OldMoved \/ Retarget \/ NewInstalled
        BY <2>1, <3>3, <4>3, PromotingTyped, JournalTyped, Noted
        DEF Prepare, OldMoved, Retarget, NewInstalled, At, Note, TypeOK, JournalStates,
            NoJournal
      <4> QED
        BY <1>4, <2>3, <3>3, <4>1, <4>2, <4>3
        DEF Next, Promote, Receive, Retry, MoveOld, Install, Collide, Fail, Crash,
            PublishInPlace, PublishFromHidden, ValidateReceipt, CommitReceipt,
            RefuseReceipt, ClearSource, ClearPublished
    <3>4. journal'[attempt] = NoJournal => dir'[Hidden(attempt)] = Draft(attempt)
      BY <1>4, <2>1, <3>3, HiddenStays DEF RowPoints
    <3> QED  BY <1>4, <2>1, <3>1, <3>2, <3>4 DEF RowPoints
  <2> QED  BY <2>2, <2>3
<1> QED
  BY <1>1, <1>2, <1>3, <1>4 DEF RowPoints

-----------------------------------------------------------------------------
(* The theorems.                                                           *)

LEMMA InitInv ==
  ASSUME Init
  PROVE  Inv
<1>1. 1 \in Attempts /\ Attempts \subseteq Nat
  BY BoundsAreNaturals DEF Attempts
<1>2. TypeOK
  <2>1. /\ dir \in [Places -> {NoDir} \cup [attempt : Attempts, published : BOOLEAN]]
        /\ journal \in [Attempts -> {NoJournal} \cup
               [state : {"prepared", "old_moved", "new_installed", "db_committed"},
                target : Visible]]
    BY DEF Init
  <2>2. crashes \in 0 .. MaxCrashes /\ errors \in 0 .. MaxErrors
    BY BoundsAreNaturals DEF Init
  <2> QED  BY <1>1, <2>1, <2>2 DEF Init, TypeOK
<1>3. HiddenOwn
  BY PlacesApart DEF Init, HiddenOwn
<1>4. InTurn
  BY DEF Init, InTurn
<1>5. Installing /\ RowPoints /\ Receipts
  BY DEF Init, Installing, Moved, RowPoints, Receipts, NoJournal, NoReceipt
<1>6. Kept
  BY <1>1 DEF Init, Kept, Attempts
<1> QED  BY <1>2, <1>3, <1>4, <1>5, <1>6 DEF Inv

LEMMA NextInv ==
  ASSUME Inv, [Next]_vars
  PROVE  Inv'
<1>1. CASE Next
  BY <1>1, TypesKept, HiddenOwnKept, InTurnKept, InstallingKept, RowPointsKept,
     ReceiptsKept, KeptStep DEF Inv
<1>2. CASE UNCHANGED vars
  <2>1. TypeOK'
    BY <1>2 DEF Inv, TypeOK, vars, row, counters
  <2>2. HiddenOwn' /\ InTurn' /\ Receipts' /\ Kept'
    BY <1>2 DEF Inv, HiddenOwn, InTurn, Receipts, Kept, IsDir, vars, row
  <2>3. Installing' /\ RowPoints'
    BY <1>2
    DEF Inv, Installing, Live, VisibleDrafts, RowPoints, InPlace, IsDir, vars, row
  <2> QED  BY <2>1, <2>2, <2>3 DEF Inv
<1> QED  BY <1>1, <1>2

\* Whatever promotions, retries, publications, receipts, failures and crashes
\* do between each other, the invariant holds for any number of them.
THEOREM ArchiveInvariant == Spec => []Inv
<1>1. Init => Inv
  BY InitInv
<1>2. Inv /\ [Next]_vars => Inv'
  BY NextInv
<1> QED  BY <1>1, <1>2, PTL DEF Spec

\* No completed attempt is lost: each step of promotion and clean-up that takes
\* a directory from its place puts it at another or sets it aside.
THEOREM AttemptsKept == Spec => []NoAttemptLost
<1>1. Inv => NoAttemptLost
  BY DEF Inv, Kept, NoAttemptLost
<1> QED  BY <1>1, ArchiveInvariant, PTL

\* When no promotion runs, the row of a completed attempt is at the attempt's
\* directory or a promotion can be taken up from where it was left, and a draft
\* that is in place is the only one to be seen.
THEOREM RowFinds == Spec => []RowFindsArchive
<1>1. ASSUME Inv
      PROVE  RowFindsArchive
  <2> USE <1>1 DEF Inv
  <2>1. SUFFICES ASSUME status = "pending", LockFree
                 PROVE  /\ InPlace \/ Promotable
                        /\ InPlace /\ journal[attempt] = NoJournal =>
                              VisibleDrafts \subseteq {archiveDir}
    BY DEF RowFindsArchive
  <2>2. InPlace \/ Promotable
    BY <2>1 DEF RowPoints, Promotable, Source
  <2>3. InPlace => VisibleDrafts \subseteq {archiveDir}
    BY <2>1 DEF RowPoints, InPlace
  <2> QED  BY <2>2, <2>3
<1>2. Inv => RowFindsArchive
  BY <1>1
<1> QED  BY <1>2, ArchiveInvariant, PTL

\* The directory of a publication is never moved away, replaced or made a draft
\* again, by a promotion, a clean-up or another publication.
THEOREM PublishedRemain == Spec => PublishedStays
<1> DEFINE A == \A p \in Visible : IsDir(p) /\ dir[p].published => dir'[p] = dir[p]
<1>1. Inv /\ [Next]_vars => [A]_vars
  BY PublishedKept DEF IsDir
<1> QED  BY <1>1, ArchiveInvariant, PTL DEF Spec, PublishedStays
=============================================================================
