--------------------------- MODULE MinutesProofs ---------------------------
(***************************************************************************)
(* Theorems about minutes: how they are published, and how the worker      *)
(* reads what they decide and compares it.                                 *)
(*                                                                         *)
(* PublishJournal.  Publishing with directories, a journal, failures and   *)
(* restarts implements publishing in one step, for any number of           *)
(* publications, edits, crashes and errors.  The argument: the moves that  *)
(* are still planned fit the directories as they are (Fits), so none of    *)
(* them overwrites or drops anything but the directory of the publication  *)
(* at hand.  What a journal of an earlier publication tells about need not *)
(* be known: recovery looks at the directories and leaves alone what it    *)
(* cannot tell, and the moves it chooses fit whatever it found.            *)
(*                                                                         *)
(* LinksLoop.  Transcripts are sent whole and decisions are compared, for  *)
(* any meetings, transcripts, limits and number of events.  The argument:  *)
(* the parts of a transcript leave no line out in any layout (PackIs), a   *)
(* row keeps to one layout until it is split, and what it counts as done   *)
(* was sent (ExtGood); and the plan of a comparison knows of every row     *)
(* done, or of the move that hid it (Planned).                             *)
(***************************************************************************)
EXTENDS PublishJournal, LinksLoop, SequenceTheorems, FiniteSetTheorems,
        WellFoundedInduction, TLAPS

-----------------------------------------------------------------------------
(* The inductive invariant.                                                *)

\* A directory is set aside only under a journal that says so.
BackupsNoted == \A t \in Tokens : backup[t] # NoDir => journal[t] = "staged"

\* A new meeting knows no publication and no other way of installing one.
NewMeeting ==
    published = NoDir =>
        committed = {} /\ \A t \in Tokens : journal[t] \in {"none", "install"}

\* A journal, and a commit, is of a publication that was prepared.
Prepared == \A t \in Tokens : snapshot[t] = 0 => journal[t] = "none" /\ t \notin committed

\* A start has its list of journals, without the one at hand.
Listed ==
    /\ pc # "recovering" => todo = {}
    /\ pc = "recovering" /\ plan # <<>> => tok \in Tokens \ todo

\* The moves that install the new directory.
Installing ==
    LET noBackup == backup[tok] = NoDir IN
    \/ /\ plan = <<"work_to_archive", "commit">>
       /\ archive = NoDir /\ work[tok] = tok
       /\ journal[tok] = IF noBackup THEN "install" ELSE "staged"
    \/ /\ plan \in {<<"swap", "commit">>,
                    <<"stage", "archive_to_backup", "work_to_archive", "commit">>}
       /\ archive # NoDir /\ work[tok] = tok /\ noBackup
       /\ journal[tok] = "rename_swap"
    \/ /\ plan = <<"archive_to_backup", "work_to_archive", "commit">>
       /\ archive # NoDir /\ work[tok] = tok /\ noBackup
       /\ journal[tok] = "staged"
    \/ /\ plan = <<"commit">>
       /\ archive = tok
       /\ \/ journal[tok] = "install" /\ work[tok] = NoDir /\ noBackup
          \/ journal[tok] = "rename_swap" /\ noBackup
          \/ journal[tok] = "staged" /\ work[tok] = NoDir /\ ~noBackup

Publishing ==
    /\ pc \in {"prepared", "journalled", "publishing"} =>
          tok \in Tokens \ committed /\ snapshot[tok] # 0
    /\ pc \in {"prepared", "journalled"} => work[tok] = tok /\ backup[tok] = NoDir
    /\ pc = "prepared" => journal[tok] = "none" /\ (archive = NoDir <=> published = NoDir)
    /\ pc = "journalled" => journal[tok] = Strategy
    /\ pc = "publishing" => plan # <<>> /\ draft = snapshot[tok]
    /\ pc \in {"committed", "clearing"} => tok \in committed

\* The moves that put the old directory back, for a request or for a start.
Backwards(end) ==
    LET noBackup == backup[tok] = NoDir
        noWork == work[tok] = NoDir
        noInstall == journal[tok] = "install" => archive = NoDir
    IN  \/ /\ plan = <<"archive_to_work", "backup_to_archive", "drop_work">> \o end
           /\ archive = tok /\ noWork /\ ~noBackup
        \/ /\ plan = <<"backup_to_archive", "drop_work">> \o end
           /\ archive = NoDir /\ work[tok] = tok /\ ~noBackup
        \/ /\ plan = <<"archive_to_work", "drop_work">> \o end
           /\ archive = tok /\ noWork /\ noBackup
        \/ /\ plan = <<"swap", "drop_work">> \o end
           /\ archive = tok /\ noBackup /\ journal[tok] # "install"
        \/ /\ plan = <<"drop_work">> \o end
           /\ work[tok] = tok /\ noBackup /\ noInstall
        \/ /\ plan = end
           /\ noWork /\ noBackup /\ noInstall

\* The moves that clear up after a commit.
Clearing(end) ==
    \/ plan = <<"drop_work", "drop_backup">> \o end
    \/ plan = <<"drop_backup">> \o end
    \/ plan = end /\ backup[tok] = NoDir

\* What is still planned fits what there is.
End == IF pc = "recovering" THEN Finish ELSE <<"drop_journal">>

Fits ==
    plan # <<>> =>
       \/ pc = "publishing" /\ Installing
       \/ pc \in {"undoing", "recovering"} /\ tok \in Tokens \ committed /\ Backwards(End)
       \/ pc \in {"clearing", "recovering"} /\ tok \in committed /\ Clearing(End)
       \/ pc = "recovering" /\ plan = <<"close_flags">> /\ journal[tok] = "none"

\* A start flags the meeting for every journal it passes over.
Noticed ==
    LET last == flag["publish_recovery"] IN
    pc = "recovering" =>
        \A t \in Tokens \ todo : journal[t] # "none" /\ (plan # <<>> => t # tok) =>
            last \notin todo \cup {NoToken} /\ (plan # <<>> => last # tok)

Inv == /\ TypeOK /\ BackupsNoted /\ NewMeeting /\ Prepared /\ Listed
       /\ Publishing /\ Fits /\ Noticed /\ Recoverable(published)

-----------------------------------------------------------------------------
(* Sequences of moves.                                                     *)

\* A plan that begins with a move.
LEMMA FirstMove ==
  ASSUME NEW m \in Moves, NEW s \in Seq(Moves)
  PROVE  /\ <<m>> \o s \in Seq(Moves) /\ <<m>> \o s # <<>>
         /\ Head(<<m>> \o s) = m /\ Tail(<<m>> \o s) = s
OBVIOUS

\* Two moves before a plan are one before the other.
LEMMA TwoMoves ==
  ASSUME NEW m \in Moves, NEW n \in Moves, NEW s \in Seq(Moves)
  PROVE  <<m, n>> \o s = <<m>> \o (<<n>> \o s)
<1> DEFINE a == <<m, n>>
           b == <<m>> \o <<n>>
<1>1. a \in Seq(Moves) /\ Len(a) = 2 /\ a[1] = m /\ a[2] = n
  OBVIOUS
<1>2. b \in Seq(Moves) /\ Len(b) = 2 /\ b[1] = m /\ b[2] = n
  OBVIOUS
<1>3. a = b
  <2> HIDE DEF a, b
  <2>1. \A i \in 1 .. Len(a) : a[i] = b[i]
    BY <1>1, <1>2
  <2> QED  BY <1>1, <1>2, <2>1, SeqEqual
<1>4. <<m>> \in Seq(Moves) /\ <<n>> \in Seq(Moves)
  OBVIOUS
<1> QED  BY <1>3, <1>4, ConcatAssociative

\* And so are three.
LEMMA ThreeMoves ==
  ASSUME NEW l \in Moves, NEW m \in Moves, NEW n \in Moves, NEW s \in Seq(Moves)
  PROVE  <<l, m, n>> \o s = <<l>> \o (<<m, n>> \o s)
<1>1. <<l, m, n>> = <<l>> \o <<m, n>> /\ <<m, n>> \in Seq(Moves) /\ <<l>> \in Seq(Moves)
  OBVIOUS
<1> QED  BY <1>1, ConcatAssociative

\* How the plans that lead back, and those that clear up, go on.
LEMMA PlansGoOn ==
  ASSUME NEW end \in Seq(Moves)
  PROVE  LET back == <<"backup_to_archive", "drop_work">> \o end
             drop == <<"drop_work">> \o end
         IN  /\ {back, drop} \subseteq Seq(Moves) \ {<<>>}
             /\ LET p == <<"archive_to_work", "backup_to_archive", "drop_work">> \o end
                IN  p \in Seq(Moves) \ {<<>>} /\ Head(p) = "archive_to_work" /\ Tail(p) = back
             /\ LET p == <<"archive_to_work", "drop_work">> \o end
                IN  p \in Seq(Moves) \ {<<>>} /\ Head(p) = "archive_to_work" /\ Tail(p) = drop
             /\ LET p == <<"swap", "drop_work">> \o end
                IN  p \in Seq(Moves) \ {<<>>} /\ Head(p) = "swap" /\ Tail(p) = drop
             /\ Head(back) = "backup_to_archive" /\ Tail(back) = drop
             /\ Head(drop) = "drop_work" /\ Tail(drop) = end
             /\ LET p == <<"drop_work", "drop_backup">> \o end
                IN  p \in Seq(Moves) \ {<<>>} /\ Head(p) = "drop_work"
                    /\ Tail(p) = <<"drop_backup">> \o end
             /\ LET p == <<"drop_backup">> \o end
                IN  p \in Seq(Moves) \ {<<>>} /\ Head(p) = "drop_backup" /\ Tail(p) = end
<1> DEFINE D == <<"drop_work">> \o end
           C == <<"drop_backup">> \o end
           B == <<"backup_to_archive", "drop_work">> \o end
<1>1. {"archive_to_work", "backup_to_archive", "drop_work", "drop_backup", "swap"}
         \subseteq Moves
  BY DEF Moves
<1>2. D \in Seq(Moves) \ {<<>>} /\ Head(D) = "drop_work" /\ Tail(D) = end
  BY <1>1, FirstMove
<1>3. C \in Seq(Moves) \ {<<>>} /\ Head(C) = "drop_backup" /\ Tail(C) = end
  BY <1>1, FirstMove
<1>4. B \in Seq(Moves) \ {<<>>} /\ Head(B) = "backup_to_archive" /\ Tail(B) = D
  BY <1>1, <1>2, FirstMove, TwoMoves
<1>5. LET p == <<"archive_to_work", "drop_work">> \o end
      IN  p \in Seq(Moves) \ {<<>>} /\ Head(p) = "archive_to_work" /\ Tail(p) = D
  BY <1>1, <1>2, FirstMove, TwoMoves
<1>6. LET p == <<"swap", "drop_work">> \o end
      IN  p \in Seq(Moves) \ {<<>>} /\ Head(p) = "swap" /\ Tail(p) = D
  BY <1>1, <1>2, FirstMove, TwoMoves
<1>7. LET p == <<"drop_work", "drop_backup">> \o end
      IN  p \in Seq(Moves) \ {<<>>} /\ Head(p) = "drop_work" /\ Tail(p) = C
  BY <1>1, <1>3, FirstMove, TwoMoves
<1>8. LET p == <<"archive_to_work", "backup_to_archive", "drop_work">> \o end
      IN  p \in Seq(Moves) \ {<<>>} /\ Head(p) = "archive_to_work" /\ Tail(p) = B
  BY <1>1, <1>4, FirstMove, ThreeMoves
<1> HIDE DEF B, C, D
<1> QED  BY <1>2, <1>3, <1>4, <1>5, <1>6, <1>7, <1>8 DEF B, C, D

\* What both the undoing of a request and a recovery end with.
LEMMA EndsGoOn ==
  /\ Finish \in Seq(Moves) \ {<<>>}
  /\ Head(Finish) = "drop_journal" /\ Tail(Finish) = <<"close_flags">>
  /\ Head(<<"drop_journal">>) = "drop_journal" /\ Tail(<<"drop_journal">>) = <<>>
  /\ Head(<<"close_flags">>) = "close_flags" /\ Tail(<<"close_flags">>) = <<>>
  /\ {<<"drop_journal">>, <<"close_flags">>} \subseteq Seq(Moves) \ {<<>>}
BY DEF Finish, Moves

\* Every plan of undoing, clearing and recovery is made of moves.
LEMMA PlansAreMoves ==
  ASSUME NEW end \in {<<"drop_journal">>, Finish}
  PROVE  /\ <<>> \in Seq(Moves) /\ end \in Seq(Moves) \ {<<>>}
         /\ <<"drop_work">> \o end \in Seq(Moves) \ {<<>>}
         /\ <<"backup_to_archive", "drop_work">> \o end \in Seq(Moves) \ {<<>>}
         /\ <<"archive_to_work", "backup_to_archive", "drop_work">> \o end \in Seq(Moves) \ {<<>>}
         /\ <<"archive_to_work", "drop_work">> \o end \in Seq(Moves) \ {<<>>}
         /\ <<"swap", "drop_work">> \o end \in Seq(Moves) \ {<<>>}
         /\ <<"drop_work", "drop_backup">> \o end \in Seq(Moves) \ {<<>>}
<1>1. end \in Seq(Moves) \ {<<>>}
  BY EndsGoOn
<1> QED  BY <1>1, PlansGoOn

\* How the plans that install go on.
LEMMA InstallationGoesOn ==
  LET last == <<"work_to_archive", "commit">>
      staged == <<"archive_to_backup", "work_to_archive", "commit">>
      stage == <<"stage", "archive_to_backup", "work_to_archive", "commit">>
      swap == <<"swap", "commit">>
      commit == <<"commit">>
  IN  /\ {last, staged, stage, swap, commit} \subseteq Seq(Moves) \ {<<>>}
      /\ Head(last) = "work_to_archive" /\ Tail(last) = commit
      /\ Head(staged) = "archive_to_backup" /\ Tail(staged) = last
      /\ Head(stage) = "stage" /\ Tail(stage) = staged
      /\ Head(swap) = "swap" /\ Tail(swap) = commit
      /\ Head(commit) = "commit" /\ Tail(commit) = <<>>
BY DEF Moves

\* The plans the model composes.
LEMMA InstallationPlans ==
  /\ Append(<<"work_to_archive">>, "commit") = <<"work_to_archive", "commit">>
  /\ Append(<<"swap">>, "commit") = <<"swap", "commit">>
  /\ Append(<<"stage", "archive_to_backup", "work_to_archive">>, "commit")
        = <<"stage", "archive_to_backup", "work_to_archive", "commit">>
<1>1. ASSUME NEW m \in Moves, NEW n \in Moves
      PROVE  Append(<<m>>, n) = <<m, n>>
  <2> DEFINE a == Append(<<m>>, n)
             b == <<m, n>>
  <2>1. a \in Seq(Moves) /\ Len(a) = 2 /\ a[1] = m /\ a[2] = n
    OBVIOUS
  <2>2. b \in Seq(Moves) /\ Len(b) = 2 /\ b[1] = m /\ b[2] = n
    OBVIOUS
  <2> HIDE DEF a, b
  <2>3. \A i \in 1 .. Len(a) : a[i] = b[i]
    BY <2>1, <2>2
  <2>4. a = b
    BY <2>1, <2>2, <2>3, SeqEqual
  <2> QED  BY <2>4 DEF a, b
<1>2. ASSUME NEW k \in Moves, NEW l \in Moves, NEW m \in Moves, NEW n \in Moves
      PROVE  Append(<<k, l, m>>, n) = <<k, l, m, n>>
  <2> DEFINE a == Append(<<k, l, m>>, n)
             b == <<k, l, m, n>>
  <2>1. a \in Seq(Moves) /\ Len(a) = 4 /\ a[1] = k /\ a[2] = l /\ a[3] = m /\ a[4] = n
    OBVIOUS
  <2>2. b \in Seq(Moves) /\ Len(b) = 4 /\ b[1] = k /\ b[2] = l /\ b[3] = m /\ b[4] = n
    OBVIOUS
  <2> HIDE DEF a, b
  <2>3. \A i \in 1 .. Len(a) : a[i] = b[i]
    BY <2>1, <2>2
  <2>4. a = b
    BY <2>1, <2>2, <2>3, SeqEqual
  <2> QED  BY <2>4 DEF a, b
<1>3. {"work_to_archive", "swap", "stage", "archive_to_backup", "commit"} \subseteq Moves
  BY DEF Moves
<1> QED  BY <1>1, <1>2, <1>3

\* The plans the model composes, as Backwards and Clearing name them.
LEMMA RollbackPlans ==
  LET end == <<"drop_journal">>
      rest == <<"drop_work", "drop_journal">>
  IN  /\ <<>> \o rest = <<"drop_work">> \o end
      /\ <<"backup_to_archive">> \o rest = <<"backup_to_archive", "drop_work">> \o end
      /\ <<"archive_to_work">> \o rest = <<"archive_to_work", "drop_work">> \o end
      /\ <<"swap">> \o rest = <<"swap", "drop_work">> \o end
      /\ <<"archive_to_work", "backup_to_archive">> \o rest
            = <<"archive_to_work", "backup_to_archive", "drop_work">> \o end
      /\ <<"drop_work", "drop_backup", "drop_journal">> = <<"drop_work", "drop_backup">> \o end
<1>1. {"archive_to_work", "backup_to_archive", "drop_work", "drop_backup", "swap",
       "drop_journal"} \subseteq Moves
  BY DEF Moves
<1>2. ASSUME NEW m \in Moves
      PROVE  <<m>> \in Seq(Moves) /\ <<m>> \o <<>> = <<m>>
  OBVIOUS
<1>3. ASSUME NEW m \in Moves, NEW n \in Moves
      PROVE  <<m, n>> = <<m>> \o <<n>> /\ <<m, n>> \in Seq(Moves)
  <2>1. <<m, n>> \o <<>> = <<m>> \o (<<n>> \o <<>>)
    BY TwoMoves, EmptySeq
  <2>2. <<m, n>> \in Seq(Moves)
    OBVIOUS
  <2> QED  BY <1>2, <2>1, <2>2, ConcatEmptySeq
<1>4. ASSUME NEW l \in Moves, NEW m \in Moves, NEW n \in Moves
      PROVE  <<l, m, n>> = <<l>> \o <<m, n>>
  OBVIOUS
<1> DEFINE end == <<"drop_journal">>
           rest == <<"drop_work", "drop_journal">>
<1>5. end \in Seq(Moves) /\ rest \in Seq(Moves) /\ rest = <<"drop_work">> \o end
  BY <1>1, <1>2, <1>3
<1>6. <<"archive_to_work", "backup_to_archive">> \o rest
         = <<"archive_to_work", "backup_to_archive", "drop_work">> \o end
  <2>1. <<"archive_to_work", "backup_to_archive">> \o rest
           = <<"archive_to_work">> \o (<<"backup_to_archive">> \o rest)
    BY <1>1, <1>5, TwoMoves
  <2>2. <<"backup_to_archive">> \o rest = <<"backup_to_archive", "drop_work">> \o end
    BY <1>1, <1>5, TwoMoves
  <2>3. <<"archive_to_work", "backup_to_archive", "drop_work">> \o end
           = <<"archive_to_work">> \o (<<"backup_to_archive", "drop_work">> \o end)
    <3>1. "archive_to_work" \in Moves /\ "backup_to_archive" \in Moves
          /\ "drop_work" \in Moves /\ end \in Seq(Moves)
      BY <1>1, <1>5
    <3> HIDE DEF end
    <3> QED  BY <3>1, ThreeMoves, Zenon
  <2> HIDE DEF rest, end
  <2> QED  BY <2>1, <2>2, <2>3
<1>7. <<"drop_work", "drop_backup", "drop_journal">> = <<"drop_work", "drop_backup">> \o end
  BY <1>1, <1>3, <1>4, <1>5, TwoMoves
<1>8. <<>> \o rest = <<"drop_work">> \o end
  BY <1>5, ConcatEmptySeq
<1>9. <<"backup_to_archive">> \o rest = <<"backup_to_archive", "drop_work">> \o end
  BY <1>1, <1>5, TwoMoves
<1>10. <<"archive_to_work">> \o rest = <<"archive_to_work", "drop_work">> \o end
  BY <1>1, <1>5, TwoMoves
<1>11. <<"swap">> \o rest = <<"swap", "drop_work">> \o end
  BY <1>1, <1>5, TwoMoves
<1> QED  BY <1>6, <1>7, <1>8, <1>9, <1>10, <1>11

\* What is planned, by its first move.
GoesBack(end) ==
  /\ plan \in Seq(Moves) \ {<<>>}
  /\ Head(plan) \in {"archive_to_work", "backup_to_archive", "swap", "drop_work",
                     "drop_journal"}
  /\ Head(plan) = "archive_to_work" =>
        (/\ archive = tok /\ work[tok] = NoDir
         /\ \/ (backup[tok] # NoDir
                 /\ Tail(plan) = <<"backup_to_archive", "drop_work">> \o end)
            \/ (backup[tok] = NoDir /\ Tail(plan) = <<"drop_work">> \o end))
  /\ Head(plan) = "backup_to_archive" =>
        (/\ archive = NoDir /\ work[tok] = tok /\ backup[tok] # NoDir
         /\ Tail(plan) = <<"drop_work">> \o end)
  /\ Head(plan) = "swap" =>
        (/\ archive = tok /\ backup[tok] = NoDir /\ journal[tok] # "install"
         /\ Tail(plan) = <<"drop_work">> \o end)
  /\ Head(plan) = "drop_work" =>
        (/\ work[tok] = tok /\ backup[tok] = NoDir
         /\ (journal[tok] = "install" => archive = NoDir)
         /\ Tail(plan) = end)
  /\ Head(plan) = "drop_journal" =>
        (/\ work[tok] = NoDir /\ backup[tok] = NoDir
         /\ (journal[tok] = "install" => archive = NoDir)
         /\ Tail(plan) = Tail(end))

LEMMA GoingBack ==
  ASSUME NEW end \in {<<"drop_journal">>, Finish}, Backwards(end)
  PROVE  GoesBack(end)
<1> DEFINE back == <<"backup_to_archive", "drop_work">> \o end
           drop == <<"drop_work">> \o end
           undo == <<"archive_to_work", "backup_to_archive", "drop_work">> \o end
           take == <<"archive_to_work", "drop_work">> \o end
           swap == <<"swap", "drop_work">> \o end
<1>1. end \in Seq(Moves) \ {<<>>} /\ Head(end) = "drop_journal"
  BY EndsGoOn
<1>2. /\ {back, drop, undo, take, swap} \subseteq Seq(Moves) \ {<<>>}
      /\ Head(undo) = "archive_to_work" /\ Tail(undo) = back
      /\ Head(take) = "archive_to_work" /\ Tail(take) = drop
      /\ Head(swap) = "swap" /\ Tail(swap) = drop
      /\ Head(back) = "backup_to_archive" /\ Tail(back) = drop
      /\ Head(drop) = "drop_work" /\ Tail(drop) = end
  BY <1>1, PlansGoOn
<1>3. \/ plan = undo /\ archive = tok /\ work[tok] = NoDir /\ backup[tok] # NoDir
      \/ plan = back /\ archive = NoDir /\ work[tok] = tok /\ backup[tok] # NoDir
      \/ plan = take /\ archive = tok /\ work[tok] = NoDir /\ backup[tok] = NoDir
      \/ plan = swap /\ archive = tok /\ backup[tok] = NoDir /\ journal[tok] # "install"
      \/ /\ plan = drop /\ work[tok] = tok /\ backup[tok] = NoDir
         /\ (journal[tok] = "install" => archive = NoDir)
      \/ /\ plan = end /\ work[tok] = NoDir /\ backup[tok] = NoDir
         /\ (journal[tok] = "install" => archive = NoDir)
  BY DEF Backwards
<1>4. SUFFICES
        /\ plan \in Seq(Moves) \ {<<>>}
        /\ \/ (/\ Head(plan) = "archive_to_work" /\ archive = tok /\ work[tok] = NoDir
               /\ backup[tok] # NoDir /\ Tail(plan) = back)
           \/ (/\ Head(plan) = "archive_to_work" /\ archive = tok /\ work[tok] = NoDir
               /\ backup[tok] = NoDir /\ Tail(plan) = drop)
           \/ (/\ Head(plan) = "backup_to_archive" /\ archive = NoDir /\ work[tok] = tok
               /\ backup[tok] # NoDir /\ Tail(plan) = drop)
           \/ (/\ Head(plan) = "swap" /\ archive = tok /\ backup[tok] = NoDir
               /\ journal[tok] # "install" /\ Tail(plan) = drop)
           \/ (/\ Head(plan) = "drop_work" /\ work[tok] = tok /\ backup[tok] = NoDir
               /\ (journal[tok] = "install" => archive = NoDir) /\ Tail(plan) = end)
           \/ (/\ Head(plan) = "drop_journal" /\ work[tok] = NoDir /\ backup[tok] = NoDir
               /\ (journal[tok] = "install" => archive = NoDir) /\ Tail(plan) = Tail(end))
  BY Zenon DEF GoesBack
<1> HIDE DEF back, drop, undo, take, swap
<1> QED  BY <1>1, <1>2, <1>3

ClearsUp(end) ==
  /\ plan \in Seq(Moves) \ {<<>>}
  /\ Head(plan) \in {"drop_work", "drop_backup", "drop_journal"}
  /\ Head(plan) = "drop_work" => Tail(plan) = <<"drop_backup">> \o end
  /\ Head(plan) = "drop_backup" => Tail(plan) = end
  /\ Head(plan) = "drop_journal" => (backup[tok] = NoDir /\ Tail(plan) = Tail(end))

\* The same for clearing up.
LEMMA ClearingUp ==
  ASSUME NEW end \in {<<"drop_journal">>, Finish}, Clearing(end)
  PROVE  ClearsUp(end)
<1> DEFINE both == <<"drop_work", "drop_backup">> \o end
           one == <<"drop_backup">> \o end
<1>1. end \in Seq(Moves) \ {<<>>} /\ Head(end) = "drop_journal"
  BY EndsGoOn
<1>2. /\ {both, one} \subseteq Seq(Moves) \ {<<>>}
      /\ Head(both) = "drop_work" /\ Tail(both) = one
      /\ Head(one) = "drop_backup" /\ Tail(one) = end
  BY <1>1, PlansGoOn
<1>3. plan = both \/ plan = one \/ (plan = end /\ backup[tok] = NoDir)
  BY DEF Clearing
<1>4. SUFFICES
        /\ plan \in Seq(Moves) \ {<<>>}
        /\ \/ Head(plan) = "drop_work" /\ Tail(plan) = one
           \/ Head(plan) = "drop_backup" /\ Tail(plan) = end
           \/ Head(plan) = "drop_journal" /\ backup[tok] = NoDir /\ Tail(plan) = Tail(end)
  BY DEF ClearsUp
<1> HIDE DEF both, one
<1> QED  BY <1>1, <1>2, <1>3
-----------------------------------------------------------------------------
(* What the steps need to know of the state before them.                   *)

\* A publication is none of the other names of directories.
LEMMA NamesApart == NoDir \notin Tokens /\ Old \notin Tokens /\ Torn \notin Tokens
                        /\ NoToken \notin Tokens
BY NamesAreDistinct

\* The directory that counts as published, as the publication at hand sees it.
Kept(dir) ==
    \/ archive = dir
    \/ tok \notin committed /\ journal[tok] # "none" /\ dir \in {work[tok], backup[tok]}

\* What a move leaves of the published directory decides for the whole state.
LEMMA StaysRecoverable ==
  ASSUME Recoverable(published), tok' = tok, UNCHANGED <<published, committed>>,
         \A t \in Tokens \ {tok} :
            work'[t] = work[t] /\ backup'[t] = backup[t] /\ journal'[t] = journal[t],
         tok \in Tokens, Kept(published) => Kept(published)',
         archive = published => Kept(published)'
  PROVE  Recoverable(published)'
<1>1. CASE Kept(published)
  BY <1>1 DEF Kept, Recoverable
<1>2. CASE ~Kept(published)
  BY <1>2 DEF Kept, Recoverable
<1> QED  BY <1>1, <1>2

\* A step that touches neither directories, journals nor publications.
LEMMA SameDisk ==
  ASSUME Inv, UNCHANGED <<published, committed, disk, snapshot>>
  PROVE  BackupsNoted' /\ NewMeeting' /\ Prepared' /\ Recoverable(published)'
<1> USE DEF disk
<1>1. BackupsNoted'
  BY DEF Inv, BackupsNoted
<1>2. NewMeeting'
  BY DEF Inv, NewMeeting
<1>3. Prepared'
  BY DEF Inv, Prepared
<1>4. Recoverable(published)'
  BY DEF Inv, Recoverable
<1> QED  BY <1>1, <1>2, <1>3, <1>4

\* Where the holder of the lock is when it makes a move.
LEMMA Moving ==
  ASSUME Inv, plan # <<>>
  PROVE  /\ tok \in Tokens /\ plan \in Seq(Moves)
         /\ \/ pc = "publishing" /\ Installing /\ tok \notin committed
            \/ pc \in {"undoing", "recovering"} /\ tok \notin committed /\ GoesBack(End)
            \/ pc \in {"clearing", "recovering"} /\ tok \in committed /\ ClearsUp(End)
            \/ pc = "recovering" /\ plan = <<"close_flags">> /\ journal[tok] = "none"
<1>1. plan \in Seq(Moves) /\ committed \subseteq Tokens
  BY DEF Inv, TypeOK
<1>2. pc = "publishing" => tok \in Tokens \ committed
  BY DEF Inv, Publishing
<1>3. pc = "recovering" => tok \in Tokens
  BY DEF Inv, Listed
<1>4. End \in {<<"drop_journal">>, Finish}
  BY DEF End
<1>5. Backwards(End) => GoesBack(End)
  BY <1>4, GoingBack
<1>6. Clearing(End) => ClearsUp(End)
  BY <1>4, ClearingUp
<1> QED  BY <1>1, <1>2, <1>3, <1>5, <1>6 DEF Inv, Fits

\* The heads of the moves that install.
LEMMA Installs ==
  ASSUME Installing
  PROVE  /\ Head(plan) \in {"work_to_archive", "swap", "stage", "archive_to_backup", "commit"}
         /\ Head(plan) = "work_to_archive" =>
               (/\ Tail(plan) = <<"commit">> /\ archive = NoDir /\ work[tok] = tok
                /\ journal[tok] = IF backup[tok] = NoDir THEN "install" ELSE "staged")
         /\ Head(plan) = "swap" =>
               (/\ Tail(plan) = <<"commit">> /\ archive # NoDir /\ work[tok] = tok
                /\ backup[tok] = NoDir /\ journal[tok] = "rename_swap")
         /\ Head(plan) = "stage" =>
               (/\ Tail(plan) = <<"archive_to_backup", "work_to_archive", "commit">>
                /\ archive # NoDir /\ work[tok] = tok
                /\ backup[tok] = NoDir /\ journal[tok] = "rename_swap")
         /\ Head(plan) = "archive_to_backup" =>
               (/\ Tail(plan) = <<"work_to_archive", "commit">>
                /\ archive # NoDir /\ work[tok] = tok
                /\ backup[tok] = NoDir /\ journal[tok] = "staged")
         /\ Head(plan) = "commit" =>
               (/\ Tail(plan) = <<>> /\ plan = <<"commit">> /\ archive = tok
                /\ journal[tok] # "none")
<1> DEFINE last == <<"work_to_archive", "commit">>
           staged == <<"archive_to_backup", "work_to_archive", "commit">>
           stage == <<"stage", "archive_to_backup", "work_to_archive", "commit">>
           swap == <<"swap", "commit">>
           commit == <<"commit">>
<1>1. /\ Head(last) = "work_to_archive" /\ Tail(last) = commit
      /\ Head(staged) = "archive_to_backup" /\ Tail(staged) = last
      /\ Head(stage) = "stage" /\ Tail(stage) = staged
      /\ Head(swap) = "swap" /\ Tail(swap) = commit
      /\ Head(commit) = "commit" /\ Tail(commit) = <<>>
  BY InstallationGoesOn
<1>2. CASE plan = last
  <2>1. archive = NoDir /\ work[tok] = tok
        /\ journal[tok] = IF backup[tok] = NoDir THEN "install" ELSE "staged"
    BY <1>1, <1>2 DEF Installing
  <2> QED  BY <1>1, <1>2, <2>1
<1>3. CASE plan = staged
  <2>1. archive # NoDir /\ work[tok] = tok /\ backup[tok] = NoDir /\ journal[tok] = "staged"
    BY <1>1, <1>3 DEF Installing
  <2> QED  BY <1>1, <1>3, <2>1
<1>4. CASE plan = stage \/ plan = swap
  <2>1. archive # NoDir /\ work[tok] = tok /\ backup[tok] = NoDir
        /\ journal[tok] = "rename_swap"
    BY <1>1, <1>4 DEF Installing
  <2> QED  BY <1>1, <1>4, <2>1
<1>5. CASE plan = commit
  <2>1. archive = tok /\ journal[tok] # "none"
    BY <1>1, <1>5 DEF Installing
  <2> QED  BY <1>1, <1>5, <2>1
<1> QED  BY <1>2, <1>3, <1>4, <1>5 DEF Installing
\* A plan of recovery is over only when it has closed the flags.
LEMMA MovesLeft ==
  /\ <<"drop_work">> \o End # <<>> /\ <<"backup_to_archive", "drop_work">> \o End # <<>>
  /\ <<"drop_backup">> \o End # <<>> /\ End # <<>> /\ <<"commit">> # <<>>
  /\ pc = "recovering" => Tail(End) = <<"close_flags">> /\ Tail(End) # <<>>
  /\ pc # "recovering" => Tail(End) = <<>>
<1>1. End \in Seq(Moves) \ {<<>>}
  BY EndsGoOn DEF End
<1>2. <<"drop_work">> \o End # <<>> /\ <<"backup_to_archive", "drop_work">> \o End # <<>>
      /\ <<"drop_backup">> \o End # <<>>
  BY <1>1, PlansGoOn
<1>3. /\ pc = "recovering" => Tail(End) = <<"close_flags">> /\ Tail(End) # <<>>
      /\ pc # "recovering" => Tail(End) = <<>>
  BY EndsGoOn DEF End
<1> QED  BY <1>1, <1>2, <1>3

-----------------------------------------------------------------------------
(* The moves.                                                              *)

Others == \A t \in Tokens \ {tok} :
             work'[t] = work[t] /\ backup'[t] = backup[t] /\ journal'[t] = journal[t]

\* What is left to show of a move: its types, what it plans next, and that the
\* published directory is still there.
LEMMA MoveKeeps ==
  ASSUME Inv, SameProcedure, plan # <<>>, plan' = Tail(plan),
         archive' \in Dirs, work' \in [Tokens -> Dirs], backup' \in [Tokens -> Dirs],
         journal' \in [Tokens -> {"none", "install", "rename_swap", "staged"}],
         Others,
         backup'[tok] # NoDir => journal'[tok] = "staged",
         published = NoDir => journal'[tok] \in {"none", "install"},
         journal[tok] = "none" => journal'[tok] = "none",
         pc \in {"publishing", "recovering"} => plan' # <<>>,
         Fits',
         Kept(published) => Kept(published)', archive = published => Kept(published)'
  PROVE  Inv'
<1> USE DEF SameProcedure, Aside, db, counters
<1>1. /\ tok \in Tokens /\ plan \in Seq(Moves)
      /\ pc \in {"publishing", "undoing", "clearing", "recovering"}
  BY Moving
<1>2. todo' \subseteq {t \in Tokens : journal'[t] # "none"}
  <2>1. \A t \in todo : t # tok
    BY <1>1 DEF Inv, Listed
  <2> QED  BY <2>1 DEF Inv, TypeOK, Others
<1>3. plan' \in Seq(Moves)
  BY <1>1
<1>4. TypeOK'
  BY <1>2, <1>3 DEF Inv, TypeOK
<1>5. BackupsNoted'
  BY <1>1 DEF Inv, BackupsNoted, Others
<1>6. NewMeeting'
  BY <1>1 DEF Inv, NewMeeting, Others
<1>7. Prepared'
  BY <1>1 DEF Inv, Prepared, Others
<1>8. Listed'
  BY <1>1 DEF Inv, Listed
<1>9. Publishing'
  BY <1>1 DEF Inv, Publishing
<1>10. Noticed'
  BY <1>1 DEF Inv, Noticed, Others
<1>11. Recoverable(published)'
  BY <1>1, StaysRecoverable DEF Inv, Others
<1> QED  BY <1>4, <1>5, <1>6, <1>7, <1>8, <1>9, <1>10, <1>11 DEF Inv

\* What a publication that is not committed replaces is not what is published.
LEMMA NotPublished ==
  ASSUME Inv, tok \in Tokens, tok \notin committed
  PROVE  published # tok
BY NamesApart DEF Inv, TypeOK

\* The exchange, forwards or backwards.
LEMMA SwapStep ==
  ASSUME Inv, Swap
  PROVE  Inv'
<1> USE DEF Swap, Doing, SameProcedure, Aside, db, counters
<1>1. plan # <<>> /\ Head(plan) = "swap" /\ plan' = Tail(plan)
  OBVIOUS
<1>2. /\ tok \in Tokens \ committed /\ backup[tok] = NoDir
      /\ journal[tok] \notin {"install", "none"} \/ archive = tok
      /\ \/ /\ pc = "publishing" /\ plan' = <<"commit">>
            /\ work[tok] = tok /\ journal[tok] = "rename_swap"
         \/ /\ pc \in {"undoing", "recovering"} /\ plan' = <<"drop_work">> \o End
            /\ archive = tok /\ journal[tok] # "install"
  BY <1>1, Moving, Installs, EndsGoOn DEF GoesBack, ClearsUp, Inv, TypeOK
<1>3. /\ archive \in Dirs /\ work \in [Tokens -> Dirs] /\ backup \in [Tokens -> Dirs]
      /\ journal \in [Tokens -> {"none", "install", "rename_swap", "staged"}]
  BY DEF Inv, TypeOK
<1>4. /\ archive' \in Dirs /\ work' \in [Tokens -> Dirs]
      /\ archive' = work[tok] /\ work'[tok] = archive /\ Others
  BY <1>2, <1>3 DEF Others
<1>5. Fits'
  <2>1. End' = End
    BY DEF End
  <2>2. CASE pc = "publishing"
    <3>1. Installing'
      BY <1>2, <1>4, <2>2 DEF Installing
    <3> QED  BY <2>2, <3>1 DEF Fits
  <2>3. CASE pc # "publishing"
    <3>1. Backwards(End)'
      BY <1>2, <1>4, <2>1, <2>3 DEF Backwards
    <3> QED  BY <1>2, <2>3, <3>1 DEF Fits
  <2> QED  BY <2>2, <2>3
<1>6. published # tok
  BY <1>2, NotPublished
<1>7. Kept(published) => Kept(published)'
  BY <1>2, <1>4, <1>6 DEF Kept
<1>8. archive = published => Kept(published)'
  BY <1>2, <1>4, <1>6 DEF Kept
<1>9. (published = NoDir => journal[tok] \in {"none", "install"})
      /\ (backup[tok] # NoDir => journal[tok] = "staged")
  BY <1>2 DEF Inv, NewMeeting
<1>10. pc \in {"publishing", "recovering"} => plan' # <<>>
  BY <1>2, MovesLeft
<1> QED  BY <1>1, <1>3, <1>4, <1>5, <1>7, <1>8, <1>9, <1>10, MoveKeeps
\* The journal is turned over to the staged installation.
LEMMA StageStep ==
  ASSUME Inv, Stage
  PROVE  Inv'
<1> USE DEF Stage, Doing, SameProcedure, Aside, db, counters
<1>1. plan # <<>> /\ Head(plan) = "stage" /\ plan' = Tail(plan)
  OBVIOUS
<1>2. /\ pc = "publishing" /\ tok \in Tokens \ committed
      /\ plan' = <<"archive_to_backup", "work_to_archive", "commit">>
      /\ archive # NoDir /\ work[tok] = tok /\ backup[tok] = NoDir
      /\ journal[tok] = "rename_swap"
  BY <1>1, Moving, Installs, EndsGoOn DEF GoesBack, ClearsUp
<1>3. /\ archive \in Dirs /\ work \in [Tokens -> Dirs] /\ backup \in [Tokens -> Dirs]
      /\ journal \in [Tokens -> {"none", "install", "rename_swap", "staged"}]
      /\ NoDir \in Dirs
  BY DEF Inv, TypeOK, Dirs
<1>4. /\ archive' \in Dirs /\ work' \in [Tokens -> Dirs] /\ backup' \in [Tokens -> Dirs]
      /\ journal' \in [Tokens -> {"none", "install", "rename_swap", "staged"}]
      /\ Others
      /\ journal'[tok] = "staged"
  BY <1>2, <1>3 DEF Others
<1>5. Fits'
  <2>1. Installing'
    BY <1>2, <1>4 DEF Installing
  <2> QED  BY <1>2, <2>1 DEF Fits
<1>6. tok \notin committed => published # tok
  BY <1>2, NotPublished
<1>7. /\ published = NoDir => journal[tok] \in {"none", "install"}
      /\ backup[tok] # NoDir => journal[tok] = "staged"
  BY <1>2 DEF Inv, NewMeeting, BackupsNoted
<1>8. Kept(published) => Kept(published)'
  BY <1>2, <1>4, <1>6, <1>7 DEF Kept
<1>9. archive = published => Kept(published)'
  BY <1>2, <1>4, <1>6, <1>7 DEF Kept
<1>10. pc \in {"publishing", "recovering"} => plan' # <<>>
  BY <1>2, MovesLeft
<1>11. /\ published = NoDir => journal'[tok] \in {"none", "install"}
       /\ backup'[tok] # NoDir => journal'[tok] = "staged"
       /\ journal[tok] = "none" => journal'[tok] = "none"
  BY <1>2, <1>4, <1>7
<1> QED  BY <1>1, <1>4, <1>5, <1>8, <1>9, <1>10, <1>11, MoveKeeps

\* The old directory is set aside, under a journal that says so.
LEMMA ArchiveToBackupStep ==
  ASSUME Inv, ArchiveToBackup
  PROVE  Inv'
<1> USE DEF ArchiveToBackup, Doing, SameProcedure, Aside, db, counters
<1>1. plan # <<>> /\ Head(plan) = "archive_to_backup" /\ plan' = Tail(plan)
  OBVIOUS
<1>2. /\ pc = "publishing" /\ tok \in Tokens \ committed
      /\ plan' = <<"work_to_archive", "commit">>
      /\ archive # NoDir /\ work[tok] = tok /\ backup[tok] = NoDir
      /\ journal[tok] = "staged"
  BY <1>1, Moving, Installs, EndsGoOn DEF GoesBack, ClearsUp
<1>3. /\ archive \in Dirs /\ work \in [Tokens -> Dirs] /\ backup \in [Tokens -> Dirs]
      /\ journal \in [Tokens -> {"none", "install", "rename_swap", "staged"}]
      /\ NoDir \in Dirs
  BY DEF Inv, TypeOK, Dirs
<1>4. /\ archive' \in Dirs /\ work' \in [Tokens -> Dirs] /\ backup' \in [Tokens -> Dirs]
      /\ journal' \in [Tokens -> {"none", "install", "rename_swap", "staged"}]
      /\ Others
      /\ archive' = NoDir /\ backup'[tok] = archive
  BY <1>2, <1>3 DEF Others
<1>5. Fits'
  <2>1. Installing'
    BY <1>2, <1>4 DEF Installing
  <2> QED  BY <1>2, <2>1 DEF Fits
<1>6. tok \notin committed => published # tok
  BY <1>2, NotPublished
<1>7. /\ published = NoDir => journal[tok] \in {"none", "install"}
      /\ backup[tok] # NoDir => journal[tok] = "staged"
  BY <1>2 DEF Inv, NewMeeting, BackupsNoted
<1>8. Kept(published) => Kept(published)'
  BY <1>2, <1>4, <1>6, <1>7 DEF Kept
<1>9. archive = published => Kept(published)'
  BY <1>2, <1>4, <1>6, <1>7 DEF Kept
<1>10. pc \in {"publishing", "recovering"} => plan' # <<>>
  BY <1>2, MovesLeft
<1>11. /\ published = NoDir => journal'[tok] \in {"none", "install"}
       /\ backup'[tok] # NoDir => journal'[tok] = "staged"
       /\ journal[tok] = "none" => journal'[tok] = "none"
  BY <1>2, <1>4, <1>7
<1> QED  BY <1>1, <1>4, <1>5, <1>8, <1>9, <1>10, <1>11, MoveKeeps

\* The new directory is put in place.
LEMMA WorkToArchiveStep ==
  ASSUME Inv, WorkToArchive
  PROVE  Inv'
<1> USE DEF WorkToArchive, Doing, SameProcedure, Aside, db, counters
<1>1. plan # <<>> /\ Head(plan) = "work_to_archive" /\ plan' = Tail(plan)
  OBVIOUS
<1>2. /\ pc = "publishing" /\ tok \in Tokens \ committed
      /\ plan' = <<"commit">>
      /\ archive = NoDir /\ work[tok] = tok
      /\ journal[tok] = IF backup[tok] = NoDir THEN "install" ELSE "staged"
  BY <1>1, Moving, Installs, EndsGoOn DEF GoesBack, ClearsUp
<1>3. /\ archive \in Dirs /\ work \in [Tokens -> Dirs] /\ backup \in [Tokens -> Dirs]
      /\ journal \in [Tokens -> {"none", "install", "rename_swap", "staged"}]
      /\ NoDir \in Dirs
  BY DEF Inv, TypeOK, Dirs
<1>4. /\ archive' \in Dirs /\ work' \in [Tokens -> Dirs] /\ backup' \in [Tokens -> Dirs]
      /\ journal' \in [Tokens -> {"none", "install", "rename_swap", "staged"}]
      /\ Others
      /\ archive' = tok /\ work'[tok] = NoDir
  BY <1>2, <1>3 DEF Others
<1>5. Fits'
  <2>1. Installing'
    BY <1>2, <1>4 DEF Installing
  <2> QED  BY <1>2, <2>1 DEF Fits
<1>6. tok \notin committed => published # tok
  BY <1>2, NotPublished
<1>7. /\ published = NoDir => journal[tok] \in {"none", "install"}
      /\ backup[tok] # NoDir => journal[tok] = "staged"
  BY <1>2 DEF Inv, NewMeeting, BackupsNoted
<1>8. Kept(published) => Kept(published)'
  BY <1>2, <1>4, <1>6, <1>7 DEF Kept
<1>9. archive = published => Kept(published)'
  BY <1>2, <1>4, <1>6, <1>7 DEF Kept
<1>10. pc \in {"publishing", "recovering"} => plan' # <<>>
  BY <1>2, MovesLeft
<1>11. /\ published = NoDir => journal'[tok] \in {"none", "install"}
       /\ backup'[tok] # NoDir => journal'[tok] = "staged"
       /\ journal[tok] = "none" => journal'[tok] = "none"
  BY <1>2, <1>4, <1>7
<1> QED  BY <1>1, <1>4, <1>5, <1>8, <1>9, <1>10, <1>11, MoveKeeps

\* The new directory is taken out of the archive again.
LEMMA ArchiveToWorkStep ==
  ASSUME Inv, ArchiveToWork
  PROVE  Inv'
<1> USE DEF ArchiveToWork, Doing, SameProcedure, Aside, db, counters
<1>1. plan # <<>> /\ Head(plan) = "archive_to_work" /\ plan' = Tail(plan)
  OBVIOUS
<1>2. /\ pc \in {"undoing", "recovering"} /\ tok \in Tokens \ committed
      /\ archive = tok /\ work[tok] = NoDir
      /\ \/ (backup[tok] # NoDir
              /\ plan' = <<"backup_to_archive", "drop_work">> \o End)
         \/ (backup[tok] = NoDir /\ plan' = <<"drop_work">> \o End)
  BY <1>1, Moving, Installs, EndsGoOn DEF GoesBack, ClearsUp
<1>3. /\ archive \in Dirs /\ work \in [Tokens -> Dirs] /\ backup \in [Tokens -> Dirs]
      /\ journal \in [Tokens -> {"none", "install", "rename_swap", "staged"}]
      /\ NoDir \in Dirs
  BY DEF Inv, TypeOK, Dirs
<1>4. /\ archive' \in Dirs /\ work' \in [Tokens -> Dirs] /\ backup' \in [Tokens -> Dirs]
      /\ journal' \in [Tokens -> {"none", "install", "rename_swap", "staged"}]
      /\ Others
      /\ archive' = NoDir /\ work'[tok] = tok
  BY <1>2, <1>3 DEF Others
<1>5. Fits'
  <2>1. End' = End
    BY DEF End
  <2>2. Backwards(End)'
    BY <1>2, <1>4, <2>1 DEF Backwards
  <2> QED  BY <1>2, <2>2 DEF Fits
<1>6. tok \notin committed => published # tok
  BY <1>2, NotPublished
<1>7. /\ published = NoDir => journal[tok] \in {"none", "install"}
      /\ backup[tok] # NoDir => journal[tok] = "staged"
  BY <1>2 DEF Inv, NewMeeting, BackupsNoted
<1>8. Kept(published) => Kept(published)'
  BY <1>2, <1>4, <1>6, <1>7 DEF Kept
<1>9. archive = published => Kept(published)'
  BY <1>2, <1>4, <1>6, <1>7 DEF Kept
<1>10. pc \in {"publishing", "recovering"} => plan' # <<>>
  BY <1>2, MovesLeft
<1>11. /\ published = NoDir => journal'[tok] \in {"none", "install"}
       /\ backup'[tok] # NoDir => journal'[tok] = "staged"
       /\ journal[tok] = "none" => journal'[tok] = "none"
  BY <1>2, <1>4, <1>7
<1> QED  BY <1>1, <1>4, <1>5, <1>8, <1>9, <1>10, <1>11, MoveKeeps

\* The old directory comes back.
LEMMA BackupToArchiveStep ==
  ASSUME Inv, BackupToArchive
  PROVE  Inv'
<1> USE DEF BackupToArchive, Doing, SameProcedure, Aside, db, counters
<1>1. plan # <<>> /\ Head(plan) = "backup_to_archive" /\ plan' = Tail(plan)
  OBVIOUS
<1>2. /\ pc \in {"undoing", "recovering"} /\ tok \in Tokens \ committed
      /\ archive = NoDir /\ work[tok] = tok /\ backup[tok] # NoDir
      /\ plan' = <<"drop_work">> \o End
  BY <1>1, Moving, Installs, EndsGoOn DEF GoesBack, ClearsUp
<1>3. /\ archive \in Dirs /\ work \in [Tokens -> Dirs] /\ backup \in [Tokens -> Dirs]
      /\ journal \in [Tokens -> {"none", "install", "rename_swap", "staged"}]
      /\ NoDir \in Dirs
  BY DEF Inv, TypeOK, Dirs
<1>4. /\ archive' \in Dirs /\ work' \in [Tokens -> Dirs] /\ backup' \in [Tokens -> Dirs]
      /\ journal' \in [Tokens -> {"none", "install", "rename_swap", "staged"}]
      /\ Others
      /\ archive' = backup[tok] /\ backup'[tok] = NoDir
  BY <1>2, <1>3 DEF Others
<1>5. Fits'
  <2>1. End' = End
    BY DEF End
  <2>2. Backwards(End)'
    BY <1>2, <1>4, <2>1 DEF Backwards, Inv, BackupsNoted
  <2> QED  BY <1>2, <2>2 DEF Fits
<1>6. tok \notin committed => published # tok
  BY <1>2, NotPublished
<1>7. /\ published = NoDir => journal[tok] \in {"none", "install"}
      /\ backup[tok] # NoDir => journal[tok] = "staged"
  BY <1>2 DEF Inv, NewMeeting, BackupsNoted
<1>8. Kept(published) => Kept(published)'
  BY <1>2, <1>4, <1>6, <1>7 DEF Kept
<1>9. archive = published => Kept(published)'
  BY <1>2, <1>4, <1>6, <1>7 DEF Kept
<1>10. pc \in {"publishing", "recovering"} => plan' # <<>>
  BY <1>2, MovesLeft
<1>11. /\ published = NoDir => journal'[tok] \in {"none", "install"}
       /\ backup'[tok] # NoDir => journal'[tok] = "staged"
       /\ journal[tok] = "none" => journal'[tok] = "none"
  BY <1>2, <1>4, <1>7
<1> QED  BY <1>1, <1>4, <1>5, <1>8, <1>9, <1>10, <1>11, MoveKeeps

\* Only a directory that is not published is dropped.
LEMMA DropWorkStep ==
  ASSUME Inv, DropWork
  PROVE  Inv'
<1> USE DEF DropWork, Doing, SameProcedure, Aside, db, counters
<1>1. plan # <<>> /\ Head(plan) = "drop_work" /\ plan' = Tail(plan)
  OBVIOUS
<1>2. /\ tok \in Tokens
      /\ \/ /\ pc \in {"undoing", "recovering"} /\ tok \notin committed
            /\ work[tok] = tok /\ backup[tok] = NoDir /\ plan' = End
            /\ (journal[tok] = "install" => archive = NoDir)
         \/ /\ pc \in {"clearing", "recovering"} /\ tok \in committed
            /\ plan' = <<"drop_backup">> \o End
  BY <1>1, Moving, Installs, EndsGoOn DEF GoesBack, ClearsUp
<1>3. /\ archive \in Dirs /\ work \in [Tokens -> Dirs] /\ backup \in [Tokens -> Dirs]
      /\ journal \in [Tokens -> {"none", "install", "rename_swap", "staged"}]
      /\ NoDir \in Dirs
  BY DEF Inv, TypeOK, Dirs
<1>4. /\ archive' \in Dirs /\ work' \in [Tokens -> Dirs] /\ backup' \in [Tokens -> Dirs]
      /\ journal' \in [Tokens -> {"none", "install", "rename_swap", "staged"}]
      /\ Others
      /\ work'[tok] = NoDir
  BY <1>2, <1>3 DEF Others
<1>5. Fits'
  <2>1. End' = End
    BY DEF End
  <2>2. CASE tok \in committed
    <3>1. Clearing(End)'
      BY <1>2, <1>4, <2>1, <2>2 DEF Clearing
    <3> QED  BY <1>2, <2>2, <3>1 DEF Fits
  <2>3. CASE tok \notin committed
    <3>1. Backwards(End)'
      BY <1>2, <1>4, <2>1, <2>3 DEF Backwards
    <3> QED  BY <1>2, <2>3, <3>1 DEF Fits
  <2> QED  BY <2>2, <2>3
<1>6. tok \notin committed => published # tok
  BY <1>2, NotPublished
<1>7. /\ published = NoDir => journal[tok] \in {"none", "install"}
      /\ backup[tok] # NoDir => journal[tok] = "staged"
  BY <1>2 DEF Inv, NewMeeting, BackupsNoted
<1>8. Kept(published) => Kept(published)'
  BY <1>2, <1>4, <1>6, <1>7 DEF Kept
<1>9. archive = published => Kept(published)'
  BY <1>2, <1>4, <1>6, <1>7 DEF Kept
<1>10. pc \in {"publishing", "recovering"} => plan' # <<>>
  BY <1>2, MovesLeft
<1>11. /\ published = NoDir => journal'[tok] \in {"none", "install"}
       /\ backup'[tok] # NoDir => journal'[tok] = "staged"
       /\ journal[tok] = "none" => journal'[tok] = "none"
  BY <1>2, <1>4, <1>7
<1> QED  BY <1>1, <1>4, <1>5, <1>8, <1>9, <1>10, <1>11, MoveKeeps

\* The backup of a committed publication is dropped.
LEMMA DropBackupStep ==
  ASSUME Inv, DropBackup
  PROVE  Inv'
<1> USE DEF DropBackup, Doing, SameProcedure, Aside, db, counters
<1>1. plan # <<>> /\ Head(plan) = "drop_backup" /\ plan' = Tail(plan)
  OBVIOUS
<1>2. /\ tok \in committed /\ tok \in Tokens
      /\ pc \in {"clearing", "recovering"} /\ plan' = End
  BY <1>1, Moving, Installs, EndsGoOn DEF GoesBack, ClearsUp
<1>3. /\ archive \in Dirs /\ work \in [Tokens -> Dirs] /\ backup \in [Tokens -> Dirs]
      /\ journal \in [Tokens -> {"none", "install", "rename_swap", "staged"}]
      /\ NoDir \in Dirs
  BY DEF Inv, TypeOK, Dirs
<1>4. /\ archive' \in Dirs /\ work' \in [Tokens -> Dirs] /\ backup' \in [Tokens -> Dirs]
      /\ journal' \in [Tokens -> {"none", "install", "rename_swap", "staged"}]
      /\ Others
      /\ backup'[tok] = NoDir
  BY <1>2, <1>3 DEF Others
<1>5. Fits'
  <2>1. End' = End
    BY DEF End
  <2>2. Clearing(End)'
    BY <1>2, <1>4, <2>1 DEF Clearing
  <2> QED  BY <1>2, <2>2 DEF Fits
<1>6. tok \notin committed => published # tok
  BY <1>2, NotPublished
<1>7. /\ published = NoDir => journal[tok] \in {"none", "install"}
      /\ backup[tok] # NoDir => journal[tok] = "staged"
  BY <1>2 DEF Inv, NewMeeting, BackupsNoted
<1>8. Kept(published) => Kept(published)'
  BY <1>2, <1>4, <1>6, <1>7 DEF Kept
<1>9. archive = published => Kept(published)'
  BY <1>2, <1>4, <1>6, <1>7 DEF Kept
<1>10. pc \in {"publishing", "recovering"} => plan' # <<>>
  BY <1>2, MovesLeft
<1>11. /\ published = NoDir => journal'[tok] \in {"none", "install"}
       /\ backup'[tok] # NoDir => journal'[tok] = "staged"
       /\ journal[tok] = "none" => journal'[tok] = "none"
  BY <1>2, <1>4, <1>7
<1> QED  BY <1>1, <1>4, <1>5, <1>8, <1>9, <1>10, <1>11, MoveKeeps

\* A journal is dropped when it has no directories left.
LEMMA DropJournalStep ==
  ASSUME Inv, DropJournal
  PROVE  Inv'
<1> USE DEF DropJournal, Doing, SameProcedure, Aside, db, counters
<1>1. plan # <<>> /\ Head(plan) = "drop_journal" /\ plan' = Tail(plan)
  OBVIOUS
<1>2. /\ tok \in Tokens
      /\ pc \in {"undoing", "clearing", "recovering"}
      /\ backup[tok] = NoDir /\ plan' = Tail(End)
      /\ tok \notin committed =>
            (work[tok] = NoDir /\ (journal[tok] = "install" => archive = NoDir))
  BY <1>1, Moving, Installs, EndsGoOn DEF GoesBack, ClearsUp
<1>3. /\ archive \in Dirs /\ work \in [Tokens -> Dirs] /\ backup \in [Tokens -> Dirs]
      /\ journal \in [Tokens -> {"none", "install", "rename_swap", "staged"}]
      /\ NoDir \in Dirs
  BY DEF Inv, TypeOK, Dirs
<1>4. /\ archive' \in Dirs /\ work' \in [Tokens -> Dirs] /\ backup' \in [Tokens -> Dirs]
      /\ journal' \in [Tokens -> {"none", "install", "rename_swap", "staged"}]
      /\ Others
      /\ journal'[tok] = "none"
  BY <1>2, <1>3 DEF Others
<1>5. Fits'
  <2>1. CASE pc = "recovering"
    BY <1>2, <1>4, <2>1, MovesLeft DEF Fits
  <2>2. CASE pc # "recovering"
    BY <1>2, <2>2, MovesLeft DEF Fits
  <2> QED  BY <2>1, <2>2
<1>6. tok \notin committed => published # tok
  BY <1>2, NotPublished
<1>7. /\ published = NoDir => journal[tok] \in {"none", "install"}
      /\ backup[tok] # NoDir => journal[tok] = "staged"
  BY <1>2 DEF Inv, NewMeeting, BackupsNoted
<1>8. Kept(published) => Kept(published)'
  BY <1>2, <1>4, <1>6, <1>7 DEF Kept
<1>9. archive = published => Kept(published)'
  BY <1>2, <1>4, <1>6, <1>7 DEF Kept
<1>10. pc \in {"publishing", "recovering"} => plan' # <<>>
  BY <1>2, MovesLeft
<1>11. /\ published = NoDir => journal'[tok] \in {"none", "install"}
       /\ backup'[tok] # NoDir => journal'[tok] = "staged"
       /\ journal[tok] = "none" => journal'[tok] = "none"
  BY <1>2, <1>4, <1>7
<1> QED  BY <1>1, <1>4, <1>5, <1>8, <1>9, <1>10, <1>11, MoveKeeps
\* The flags of a resolved journal are closed.
LEMMA CloseFlagsStep ==
  ASSUME Inv, CloseFlags
  PROVE  Inv'
<1> USE DEF CloseFlags, Doing, Aside, disk, counters
<1>1. /\ pc = "recovering" /\ tok \in Tokens /\ journal[tok] = "none" /\ plan # <<>>
      /\ plan = <<"close_flags">> /\ plan' = <<>>
  BY Moving, Installs, EndsGoOn DEF GoesBack, ClearsUp
<1>2. flag \in [Kinds -> Tokens \cup {NoToken}]
  BY DEF Inv, TypeOK
<1>3. flag' \in [Kinds -> Tokens \cup {NoToken}]
      /\ (flag["publish_recovery"] # tok
             => flag'["publish_recovery"] = flag["publish_recovery"])
  BY <1>2 DEF Kinds
<1>4. TypeOK'
  BY <1>1, <1>3 DEF Inv, TypeOK
<1>5. BackupsNoted' /\ NewMeeting' /\ Prepared' /\ Recoverable(published)'
  BY SameDisk DEF Inv, db
<1>6. Listed' /\ Publishing' /\ Fits'
  BY <1>1 DEF Inv, Listed, Publishing, Fits
<1>7. Noticed'
  BY <1>1, <1>3 DEF Inv, Noticed
<1> QED  BY <1>4, <1>5, <1>6, <1>7 DEF Inv

\* The commit finds its own directory in the archive.
LEMMA CommitStep ==
  ASSUME Inv, Commit
  PROVE  Inv'
<1> USE DEF Commit, Doing, Aside, disk, counters
<1>1. /\ pc = "publishing" /\ tok \in Tokens \ committed /\ archive = tok
      /\ plan = <<"commit">> /\ plan' = <<>>
  BY Moving, Installs, EndsGoOn DEF GoesBack, ClearsUp
<1>2. published' # NoDir
  BY <1>1, NamesApart
<1>3. TypeOK'
  BY <1>1 DEF Inv, TypeOK
<1>4. BackupsNoted' /\ NewMeeting'
  BY <1>2 DEF Inv, BackupsNoted, NewMeeting
<1>5. Prepared'
  BY <1>1 DEF Inv, Publishing, Prepared
<1>6. Listed' /\ Publishing' /\ Fits' /\ Noticed'
  BY <1>1 DEF Inv, Listed, Publishing, Fits, Noticed
<1>7. Recoverable(published)'
  BY <1>1 DEF Recoverable
<1> QED  BY <1>3, <1>4, <1>5, <1>6, <1>7 DEF Inv

-----------------------------------------------------------------------------
(* The users and the request around the moves.                             *)

\* The users disturb nothing the journal relies on.
LEMMA UserStep ==
  ASSUME Inv, EditDraft \/ EditArchive
  PROVE  Inv'
<1> USE DEF EditDraft, EditArchive, db, disk, counters, InTransaction
<1>1. TypeOK'
  <2>1. draft' \in 1 .. MaxEdits + 1
    BY BoundsAreNaturals DEF Inv, TypeOK
  <2>2. edited' \subseteq Tokens
    BY DEF Inv, TypeOK
  <2> QED  BY <2>1, <2>2 DEF Inv, TypeOK
<1>2. BackupsNoted' /\ NewMeeting' /\ Prepared' /\ Recoverable(published)'
  BY SameDisk DEF Inv
<1>3. Listed' /\ Publishing' /\ Noticed'
  BY DEF Inv, Listed, Publishing, Noticed, Strategy
<1>4. Fits'
  BY DEF Inv, Fits, Installing, Backwards, Clearing, End
<1> QED  BY <1>1, <1>2, <1>3, <1>4 DEF Inv

\* A publication begins with names nothing else uses.
LEMMA BeginStep ==
  ASSUME Inv, NEW t \in Tokens, Begin(t)
  PROVE  Inv'
<1> USE DEF Begin, db, counters
<1>1. plan = <<>>
  BY DEF Inv, Fits
<1>2. journal[t] = "none" /\ t \notin committed /\ backup[t] = NoDir /\ draft # 0
  BY DEF Inv, Prepared, BackupsNoted, TypeOK
<1>3. /\ work' \in [Tokens -> Dirs] /\ work'[t] = t
      /\ \A u \in Tokens \ {t} : work'[u] = work[u]
  BY DEF Inv, TypeOK, Dirs
<1>4. /\ snapshot' \in [Tokens -> 0 .. MaxEdits + 1] /\ snapshot'[t] = draft
      /\ \A u \in Tokens \ {t} : snapshot'[u] = snapshot[u]
  BY DEF Inv, TypeOK
<1>5. TypeOK'
  BY <1>1, <1>3, <1>4 DEF Inv, TypeOK
<1>6. BackupsNoted' /\ NewMeeting'
  BY DEF Inv, BackupsNoted, NewMeeting
<1>7. Prepared'
  BY <1>2, <1>4 DEF Inv, Prepared
<1>8. Listed' /\ Fits' /\ Noticed'
  BY <1>1 DEF Inv, Listed, Fits, Noticed
<1>9. Publishing'
  BY <1>2, <1>3, <1>4 DEF Inv, Publishing
<1>10. Recoverable(published)'
  BY <1>2, <1>3 DEF Inv, Recoverable
<1> QED  BY <1>5, <1>6, <1>7, <1>8, <1>9, <1>10 DEF Inv

\* The journal is written before anything is moved.
LEMMA WriteJournalStep ==
  ASSUME Inv, WriteJournal
  PROVE  Inv'
<1> USE DEF WriteJournal, db, counters
<1>1. plan = <<>>
  BY DEF Inv, Fits
<1>2. tok \in Tokens \ committed /\ snapshot[tok] # 0 /\ work[tok] = tok /\ backup[tok] = NoDir
      /\ journal[tok] = "none" /\ (archive = NoDir <=> published = NoDir)
  BY DEF Inv, Publishing
<1>3. /\ journal' \in [Tokens -> {"none", "install", "rename_swap", "staged"}]
      /\ journal'[tok] = Strategy
      /\ \A u \in Tokens \ {tok} : journal'[u] = journal[u]
  BY <1>2 DEF Inv, TypeOK, Strategy
<1>4. todo = {}
  BY DEF Inv, Listed
<1>5. TypeOK'
  BY <1>3, <1>4 DEF Inv, TypeOK
<1>6. BackupsNoted'
  BY <1>2, <1>3 DEF Inv, BackupsNoted
<1>7. NewMeeting'
  BY <1>2, <1>3 DEF Inv, NewMeeting, Strategy
<1>8. Prepared'
  BY <1>2, <1>3 DEF Inv, Prepared
<1>9. Listed' /\ Fits' /\ Noticed'
  BY <1>1, <1>4 DEF Inv, Listed, Fits, Noticed
<1>10. Publishing'
  BY <1>2, <1>3 DEF Inv, Publishing, Strategy
<1>11. Recoverable(published)'
  BY <1>2, <1>3 DEF Inv, Recoverable, Strategy
<1> QED  BY <1>5, <1>6, <1>7, <1>8, <1>9, <1>10, <1>11 DEF Inv

\* The transaction sees the draft that was prepared.
LEMMA OpenTransactionStep ==
  ASSUME Inv, OpenTransaction
  PROVE  Inv'
<1> USE DEF OpenTransaction, disk, db, counters
<1>1. tok \in Tokens \ committed /\ snapshot[tok] # 0 /\ work[tok] = tok /\ backup[tok] = NoDir
      /\ journal[tok] = Strategy
  BY DEF Inv, Publishing
<1>2. \/ archive = NoDir /\ plan' = <<"work_to_archive", "commit">>
      \/ /\ archive # NoDir
         /\ plan' \in {<<"swap", "commit">>,
                       <<"stage", "archive_to_backup", "work_to_archive", "commit">>}
  BY InstallationPlans DEF Installation
<1>3. plan' \in Seq(Moves) \ {<<>>}
  BY <1>2, InstallationGoesOn
<1>4. TypeOK'
  BY <1>3 DEF Inv, TypeOK
<1>5. BackupsNoted' /\ NewMeeting' /\ Prepared' /\ Recoverable(published)'
  BY SameDisk DEF Inv
<1>6. Listed' /\ Noticed'
  BY DEF Inv, Listed, Noticed
<1>7. Publishing'
  BY <1>1, <1>3 DEF Inv, Publishing, SnapshotCurrent
<1>8. Installing'
  BY <1>1, <1>2 DEF Installing, Strategy
<1> QED  BY <1>4, <1>5, <1>6, <1>7, <1>8 DEF Inv, Fits

\* After the commit it is cleared up, or flagged.
LEMMA RecheckStep ==
  ASSUME Inv, Recheck
  PROVE  Inv'
<1> USE DEF Recheck, Aside, disk, counters
<1>1. tok \in committed /\ committed \subseteq Tokens
  BY DEF Inv, TypeOK, Publishing
<1>2. flag' \in [Kinds -> Tokens \cup {NoToken}]
  BY <1>1 DEF Inv, TypeOK
<1>3. plan = <<>>
  BY DEF Inv, Fits
<1>4. \/ plan' = <<>>
      \/ pc' = "clearing" /\ plan' = <<"drop_work", "drop_backup">> \o <<"drop_journal">>
  BY <1>3, RollbackPlans
<1>5. plan' \in Seq(Moves)
  BY <1>4, PlansAreMoves
<1>6. TypeOK'
  BY <1>2, <1>5 DEF Inv, TypeOK
<1>7. BackupsNoted' /\ NewMeeting' /\ Prepared' /\ Recoverable(published)'
  BY SameDisk DEF Inv
<1>8. Listed' /\ Noticed' /\ Publishing'
  BY <1>1 DEF Inv, Listed, Noticed, Publishing
<1>9. Fits'
  BY <1>1, <1>4 DEF Fits, End, Clearing
<1> QED  BY <1>6, <1>7, <1>8, <1>9 DEF Inv

\* A request ends.
LEMMA DoneStep ==
  ASSUME Inv, Done
  PROVE  Inv'
<1> USE DEF Done, disk, db, counters
<1>1. TypeOK'
  BY DEF Inv, TypeOK
<1>2. BackupsNoted' /\ NewMeeting' /\ Prepared' /\ Recoverable(published)'
  BY SameDisk DEF Inv
<1>3. Listed' /\ Noticed' /\ Publishing' /\ Fits'
  BY DEF Inv, Listed, Noticed, Publishing, Fits
<1> QED  BY <1>1, <1>2, <1>3 DEF Inv
-----------------------------------------------------------------------------
(* Failures.                                                               *)

\* What undoes a publication fits the directories, wherever it stopped.
LEMMA UndoFits ==
  ASSUME Inv, Undo, UNCHANGED <<published, committed, disk, tok>>,
         pc \in {"prepared", "journalled", "publishing"}
  PROVE  /\ tok \in Tokens \ committed
         /\ plan' \in Seq(Moves)
         /\ Backwards(<<"drop_journal">>)'
<1> USE DEF Undo, disk
<1> DEFINE end == <<"drop_journal">>
           rest == <<"drop_work", "drop_journal">>
<1>1. tok \in Tokens \ committed
  BY DEF Inv, Publishing
<1>2. \/ /\ backup[tok] # NoDir /\ archive = NoDir /\ work[tok] = tok
         /\ plan' = <<"backup_to_archive">> \o rest
      \/ /\ backup[tok] # NoDir /\ archive = tok /\ work[tok] = NoDir
         /\ plan' = <<"archive_to_work", "backup_to_archive">> \o rest
      \/ /\ backup[tok] = NoDir /\ archive # tok /\ work[tok] = tok
         /\ (journal[tok] = "install" => archive = NoDir)
         /\ plan' = <<>> \o rest
      \/ /\ backup[tok] = NoDir /\ archive = tok /\ journal[tok] = "install"
         /\ work[tok] = NoDir
         /\ plan' = <<"archive_to_work">> \o rest
      \/ /\ backup[tok] = NoDir /\ archive = tok /\ journal[tok] # "install"
         /\ plan' = <<"swap">> \o rest
  <2>1. CASE pc \in {"prepared", "journalled"}
    <3>1. work[tok] = tok /\ backup[tok] = NoDir
          /\ (journal[tok] = "install" => archive = NoDir)
      BY <2>1 DEF Inv, Publishing, Strategy
    <3> QED  BY <1>1, <3>1, NamesApart DEF Rollback
  <2>2. CASE pc = "publishing"
    <3>1. Installing
      BY <2>2 DEF Inv, Publishing, Fits
    <3>2. \/ /\ archive = NoDir /\ work[tok] = tok
             /\ (backup[tok] = NoDir => journal[tok] = "install")
          \/ archive # NoDir /\ work[tok] = tok /\ backup[tok] = NoDir
             /\ journal[tok] # "install"
          \/ archive = tok /\ journal[tok] = "install" /\ work[tok] = NoDir
             /\ backup[tok] = NoDir
          \/ archive = tok /\ journal[tok] # "install" /\ backup[tok] = NoDir
          \/ archive = tok /\ work[tok] = NoDir /\ backup[tok] # NoDir
      BY <3>1 DEF Installing
    <3> QED  BY <1>1, <3>2, NamesApart DEF Rollback
  <2> QED  BY <2>1, <2>2
<1>3. /\ <<>> \o rest = <<"drop_work">> \o end
      /\ <<"backup_to_archive">> \o rest = <<"backup_to_archive", "drop_work">> \o end
      /\ <<"archive_to_work">> \o rest = <<"archive_to_work", "drop_work">> \o end
      /\ <<"swap">> \o rest = <<"swap", "drop_work">> \o end
      /\ <<"archive_to_work", "backup_to_archive">> \o rest
            = <<"archive_to_work", "backup_to_archive", "drop_work">> \o end
  BY RollbackPlans
<1>4. Backwards(end)'
  BY <1>2, <1>3 DEF Backwards
<1>5. plan' \in Seq(Moves)
  BY <1>2, <1>3, PlansAreMoves
<1> QED  BY <1>1, <1>4, <1>5

\* Refusing and failing undo the moves.
LEMMA UndoStep ==
  ASSUME Inv, Refuse \/ Fail
  PROVE  Inv'
<1> USE DEF Refuse, Fail, db, disk, counters
<1>1. /\ pc \in {"prepared", "journalled", "publishing"} /\ pc' = "undoing"
      /\ UNCHANGED <<published, committed, disk, tok>> /\ Undo
  BY DEF Undo
<1>2. tok \in Tokens \ committed /\ plan' \in Seq(Moves) /\ Backwards(<<"drop_journal">>)'
  BY <1>1, UndoFits
<1>3. errors' \in 0 .. MaxErrors
  BY BoundsAreNaturals DEF Inv, TypeOK
<1>4. TypeOK'
  BY <1>1, <1>2, <1>3 DEF Inv, TypeOK
<1>5. BackupsNoted' /\ NewMeeting' /\ Prepared' /\ Recoverable(published)'
  BY SameDisk DEF Inv
<1>6. Listed' /\ Noticed' /\ Publishing'
  BY <1>1 DEF Inv, Listed, Noticed, Publishing
<1>7. Fits'
  BY <1>1, <1>2 DEF Fits, End
<1> QED  BY <1>4, <1>5, <1>6, <1>7 DEF Inv

\* A removal that is cut short takes nothing that is published.
LEMMA CutShort ==
  ASSUME Inv, Interrupted, UNCHANGED <<published, committed, snapshot, tok>>
  PROVE  /\ work' \in [Tokens -> Dirs]
         /\ BackupsNoted' /\ NewMeeting' /\ Prepared' /\ Recoverable(published)'
<1> USE DEF Interrupted
<1>1. work' \in [Tokens -> Dirs]
  BY DEF Inv, TypeOK, Dirs
<1>2. BackupsNoted' /\ NewMeeting' /\ Prepared'
  BY DEF Inv, BackupsNoted, NewMeeting, Prepared
<1>3. CASE UNCHANGED work
  BY <1>1, <1>3, SameDisk DEF disk
<1>4. CASE plan # <<>> /\ Head(plan) = "drop_work"
  <2>1. tok \in Tokens /\ (tok \notin committed => work[tok] = tok /\ backup[tok] = NoDir)
    BY <1>4, Moving, Installs, EndsGoOn DEF GoesBack, ClearsUp
  <2>2. tok \notin committed => published # tok
    BY <2>1, NotPublished
  <2>3. Kept(published) => Kept(published)'
    BY <2>1, <2>2 DEF Kept
  <2>4. archive = published => Kept(published)'
    BY DEF Kept
  <2>5. \A t \in Tokens \ {tok} : work'[t] = work[t]
    BY DEF Inv, TypeOK
  <2>6. Recoverable(published)'
    BY <2>1, <2>3, <2>4, <2>5, StaysRecoverable DEF Inv
  <2> QED  BY <1>1, <1>2, <2>6
<1> QED  BY <1>1, <1>2, <1>3, <1>4

\* Crashes and second failures leave everything where it is.
LEMMA BreakStep ==
  ASSUME Inv, FailAgain \/ Crash \/ RecoveryFails
  PROVE  Inv'
<1> USE DEF FailAgain, Crash, RecoveryFails, db, disk, counters
<1>1. /\ pc' \in {"idle", "down"} /\ plan' = <<>> /\ todo' = {}
      /\ Interrupted /\ UNCHANGED <<published, committed, snapshot, tok>>
  BY DEF Inv, Listed
<1>2. work' \in [Tokens -> Dirs]
      /\ BackupsNoted' /\ NewMeeting' /\ Prepared' /\ Recoverable(published)'
  BY <1>1, CutShort
<1>3. errors' \in 0 .. MaxErrors /\ crashes' \in 0 .. MaxCrashes
  BY BoundsAreNaturals DEF Inv, TypeOK
<1>4. flag' \in [Kinds -> Tokens \cup {NoToken}]
  BY DEF Inv, TypeOK
<1>5. TypeOK'
  BY <1>1, <1>2, <1>3, <1>4 DEF Inv, TypeOK, Interrupted
<1>6. Listed' /\ Noticed' /\ Publishing' /\ Fits'
  BY <1>1 DEF Listed, Noticed, Publishing, Fits
<1> QED  BY <1>2, <1>5, <1>6 DEF Inv
-----------------------------------------------------------------------------
(* Recovery.                                                               *)

\* A start lists the journals.
LEMMA RestartStep ==
  ASSUME Inv, Restart
  PROVE  Inv'
<1> USE DEF Restart, db, disk, counters
<1>1. TypeOK'
  BY DEF Inv, TypeOK
<1>2. BackupsNoted' /\ NewMeeting' /\ Prepared' /\ Recoverable(published)'
  BY SameDisk DEF Inv
<1>3. Listed' /\ Noticed' /\ Publishing' /\ Fits'
  BY DEF Listed, Noticed, Publishing, Fits
<1> QED  BY <1>1, <1>2, <1>3 DEF Inv

\* A start that is through serves again.
LEMMA ServeStep ==
  ASSUME Inv, Serve
  PROVE  Inv'
<1> USE DEF Serve, db, disk, counters
<1>1. TypeOK'
  BY DEF Inv, TypeOK
<1>2. BackupsNoted' /\ NewMeeting' /\ Prepared' /\ Recoverable(published)'
  BY SameDisk DEF Inv
<1>3. Listed' /\ Noticed' /\ Publishing' /\ Fits'
  BY DEF Inv, Listed, Noticed, Publishing, Fits
<1> QED  BY <1>1, <1>2, <1>3 DEF Inv

\* The moves recovery chooses fit the directories it looked at.
LEMMA ResolutionsFit ==
  ASSUME NEW t \in Tokens, NEW r \in Resolutions(t),
         plan' = r.moves \o Finish, tok' = t, UNCHANGED disk
  PROVE  plan' \in Seq(Moves) \ {<<>>} /\ Backwards(Finish)'
<1> USE DEF disk
<1>1. \/ /\ r.moves = <<"archive_to_work", "backup_to_archive", "drop_work">>
         /\ backup[t] # NoDir /\ archive = t /\ work[t] = NoDir
      \/ /\ r.moves = <<"backup_to_archive", "drop_work">>
         /\ backup[t] # NoDir /\ archive = NoDir /\ work[t] = t
      \/ /\ r.moves = <<"swap", "drop_work">>
         /\ archive = t /\ backup[t] = NoDir /\ journal[t] = "rename_swap"
      \/ /\ r.moves = <<"archive_to_work", "drop_work">>
         /\ archive = t /\ work[t] = NoDir /\ backup[t] = NoDir
      \/ /\ r.moves = <<"drop_work">>
         /\ work[t] = t /\ backup[t] = NoDir /\ (journal[t] = "install" => archive = NoDir)
      \/ /\ r.moves = <<>>
         /\ work[t] = NoDir /\ backup[t] = NoDir
         /\ (journal[t] = "install" => archive = NoDir)
  <2> DEFINE staged == journal[t] = "staged" \/ backup[t] # NoDir
             swapped == ~staged /\ journal[t] = "rename_swap"
             install == ~staged /\ journal[t] = "install"
             noBackup == backup[t] = NoDir
             noWork == work[t] = NoDir
             rule(c, m) == r = [when |-> c, moves |-> m]
  <2>1. \/ rule(staged /\ ~noBackup /\ ArchiveNew(t) /\ noWork,
                <<"archive_to_work", "backup_to_archive", "drop_work">>)
        \/ rule(staged /\ ~noBackup /\ archive = NoDir /\ WorkNew(t),
                <<"backup_to_archive", "drop_work">>)
        \/ rule(staged /\ noBackup /\ Untouched(t) /\ WorkNew(t), <<"drop_work">>)
        \/ rule(staged /\ noBackup /\ Untouched(t) /\ noWork, <<>>)
        \/ rule(swapped /\ ArchiveNew(t) /\ ~noWork /\ ~WorkNew(t), <<"swap", "drop_work">>)
        \/ rule(swapped /\ Untouched(t) /\ WorkNew(t), <<"drop_work">>)
        \/ rule(swapped /\ Untouched(t) /\ noWork, <<>>)
        \/ rule(install /\ archive = NoDir /\ WorkNew(t), <<"drop_work">>)
        \/ rule(install /\ ArchiveNew(t) /\ noWork, <<"archive_to_work", "drop_work">>)
        \/ rule(install /\ archive = NoDir /\ noWork, <<>>)
    BY DEF Resolutions
  <2>2. r.when
    BY DEF Resolutions
  <2>3. ASSUME NEW c, NEW m, rule(c, m)
        PROVE  c /\ r.moves = m
    BY <2>2, <2>3
  <2> HIDE DEF rule
  <2>4. \/ /\ staged /\ ~noBackup /\ ArchiveNew(t) /\ noWork
           /\ r.moves = <<"archive_to_work", "backup_to_archive", "drop_work">>
        \/ /\ staged /\ ~noBackup /\ archive = NoDir /\ WorkNew(t)
           /\ r.moves = <<"backup_to_archive", "drop_work">>
        \/ (staged \/ swapped) /\ noBackup /\ WorkNew(t) /\ r.moves = <<"drop_work">>
        \/ (staged \/ swapped) /\ noBackup /\ noWork /\ r.moves = <<>>
        \/ swapped /\ ArchiveNew(t) /\ r.moves = <<"swap", "drop_work">>
        \/ install /\ archive = NoDir /\ WorkNew(t) /\ r.moves = <<"drop_work">>
        \/ install /\ ArchiveNew(t) /\ noWork /\ r.moves = <<"archive_to_work", "drop_work">>
        \/ install /\ archive = NoDir /\ noWork /\ r.moves = <<>>
    BY <2>1, <2>3
  <2> QED  BY <2>4 DEF ArchiveNew, WorkNew
<1>2. <<>> \o Finish = Finish
  BY EndsGoOn
<1>3. Backwards(Finish)'
  BY <1>1, <1>2 DEF Backwards
<1>4. plan' \in Seq(Moves) \ {<<>>}
  BY <1>1, <1>2, PlansAreMoves
<1> QED  BY <1>3, <1>4

\* What is left to show of looking at a journal.
LEMMA ExamineStep ==
  ASSUME Inv, NEW t \in Tokens, Examine(t), Elsewhere,
         flag' \in [Kinds -> Tokens \cup {NoToken}],
         plan' \in Seq(Moves), Fits', Noticed'
  PROVE  Inv'
<1> USE DEF Examine, Elsewhere, counters
<1>1. TypeOK'
  BY DEF Inv, TypeOK, disk
<1>2. BackupsNoted' /\ NewMeeting' /\ Prepared' /\ Recoverable(published)'
  BY SameDisk DEF Inv
<1>3. Listed' /\ Publishing'
  BY DEF Inv, Listed, Publishing
<1> QED  BY <1>1, <1>2, <1>3 DEF Inv

\* An uncommitted publication is rolled back.
LEMMA RollBackStep ==
  ASSUME Inv, NEW t \in Tokens, RollBack(t)
  PROVE  Inv'
<1> USE DEF RollBack, Examine, Elsewhere, counters
<1>1. plan' \in Seq(Moves) \ {<<>>} /\ Backwards(Finish)'
  BY ResolutionsFit
<1>2. Fits'
  BY <1>1 DEF Fits, End
<1>3. Noticed'
  BY <1>1 DEF Inv, Noticed, disk
<1>4. flag' \in [Kinds -> Tokens \cup {NoToken}]
  BY DEF Inv, TypeOK
<1> QED  BY <1>1, <1>2, <1>3, <1>4, ExamineStep

\* A committed one is cleared up.
LEMMA CleanUpStep ==
  ASSUME Inv, NEW t \in Tokens, CleanUp(t)
  PROVE  Inv'
<1> USE DEF CleanUp, Examine, Elsewhere, counters
<1>1. plan' \in Seq(Moves) \ {<<>>}
  BY PlansAreMoves
<1>2. Clearing(Finish)'
  BY DEF Clearing
<1>3. Fits'
  BY <1>1, <1>2 DEF Fits, End
<1>4. Noticed'
  BY <1>1 DEF Inv, Noticed, disk
<1>5. flag' \in [Kinds -> Tokens \cup {NoToken}]
  BY DEF Inv, TypeOK
<1> QED  BY <1>1, <1>3, <1>4, <1>5, ExamineStep

\* What cannot be told is flagged.
LEMMA FlagItStep ==
  ASSUME Inv, NEW t \in Tokens, FlagIt(t)
  PROVE  Inv'
<1> USE DEF FlagIt, Examine, Elsewhere, counters
<1>1. plan' = <<>> /\ plan' \in Seq(Moves)
  OBVIOUS
<1>2. flag' \in [Kinds -> Tokens \cup {NoToken}] /\ flag'["publish_recovery"] = t
  BY DEF Inv, TypeOK, Kinds
<1>3. Fits'
  BY <1>1 DEF Fits
<1>4. Noticed'
  BY <1>1, <1>2, NamesApart DEF Noticed
<1> QED  BY <1>1, <1>2, <1>3, <1>4, ExamineStep

-----------------------------------------------------------------------------
(* The theorems.                                                           *)

\* The invariant holds of every behaviour.
LEMMA InvHolds == Spec => []Inv
<1>1. Init => Inv
  <2> SUFFICES ASSUME Init PROVE Inv
    OBVIOUS
  <2> USE DEF Init
  <2>1. TypeOK
    BY BoundsAreNaturals DEF TypeOK, Dirs, Kinds
  <2>2. BackupsNoted /\ NewMeeting /\ Prepared
    BY DEF BackupsNoted, NewMeeting, Prepared
  <2>3. Listed /\ Publishing /\ Fits /\ Noticed /\ Recoverable(published)
    BY DEF Listed, Publishing, Fits, Noticed, Recoverable
  <2> QED  BY <2>1, <2>2, <2>3 DEF Inv
<1>2. Inv /\ [Next]_vars => Inv'
  <2> SUFFICES ASSUME Inv, [Next]_vars PROVE Inv'
    OBVIOUS
  <2>1. CASE UNCHANGED vars
    <3> USE <2>1 DEF vars, db, disk, counters
    <3>1. TypeOK'
      BY DEF Inv, TypeOK
    <3>2. BackupsNoted' /\ NewMeeting' /\ Prepared' /\ Recoverable(published)'
      BY SameDisk DEF Inv
    <3>3. Listed' /\ Publishing' /\ Noticed'
      BY DEF Inv, Listed, Publishing, Noticed, Strategy
    <3>4. Fits'
      BY DEF Inv, Fits, Installing, Backwards, Clearing, End
    <3> QED  BY <3>1, <3>2, <3>3, <3>4 DEF Inv
  <2>2. CASE EditDraft \/ EditArchive
    BY <2>2, UserStep
  <2>3. CASE \E t \in Tokens : Begin(t)
    BY <2>3, BeginStep
  <2>4. CASE WriteJournal \/ OpenTransaction \/ Refuse \/ Recheck \/ Done
    BY <2>4, WriteJournalStep, OpenTransactionStep, UndoStep, RecheckStep, DoneStep
  <2>5. CASE Move
    BY <2>5, SwapStep, StageStep, ArchiveToBackupStep, WorkToArchiveStep, ArchiveToWorkStep,
       BackupToArchiveStep, DropWorkStep, DropBackupStep, DropJournalStep, CommitStep,
       CloseFlagsStep DEF Move
  <2>6. CASE Recover
    BY <2>6, RestartStep, ServeStep, RollBackStep, CleanUpStep, FlagItStep DEF Recover
  <2>7. CASE Fail \/ FailAgain \/ Crash \/ RecoveryFails
    BY <2>7, UndoStep, BreakStep
  <2> QED  BY <2>1, <2>2, <2>3, <2>4, <2>5, <2>6, <2>7 DEF Next, Proceed
<1> QED  BY <1>1, <1>2, PTL DEF Spec
\* Every variable is of its type, and when nothing is under way and no journal
\* is left the archive shows the publication the database tells of.
THEOREM QuietPublished == Spec => []QuietIsPublished
<1>1. Inv => QuietIsPublished
  BY DEF Inv, QuietIsPublished, Recoverable
<1> QED  BY <1>1, InvHolds, PTL

\* A recovery that ends has put in place what the database tells of, or has
\* flagged the meeting: every journal it passed over left the flag of
\* publish_recovery open, and without a journal nothing was out of place.
THEOREM Restored == Spec => RestoredOrFlagged
<1>1. Inv /\ [Next]_vars =>
         [pc = "recovering" /\ pc' = "idle" => archive = published \/ Flagged]_vars
  <2> SUFFICES ASSUME Inv, Next, pc = "recovering", pc' = "idle"
               PROVE  archive = published \/ Flagged
    OBVIOUS
  <2>1. Serve
    <3>1. ~Move
      BY DEF Move, Swap, Stage, ArchiveToBackup, WorkToArchive, ArchiveToWork, BackupToArchive,
         DropWork, DropBackup, DropJournal, Commit, CloseFlags, SameProcedure
    <3>2. ~EditDraft /\ ~EditArchive /\ ~\E t \in Tokens : Begin(t)
      BY DEF EditDraft, EditArchive, Begin
    <3>3. ~WriteJournal /\ ~OpenTransaction /\ ~Refuse /\ ~Recheck /\ ~Done
      BY DEF WriteJournal, OpenTransaction, Refuse, Recheck, Done
    <3>4. ~Restart /\ ~Fail /\ ~FailAgain /\ ~Crash /\ ~RecoveryFails
      BY DEF Restart, Fail, FailAgain, Crash, RecoveryFails
    <3>5. ~\E t \in Tokens : RollBack(t) \/ CleanUp(t) \/ FlagIt(t)
      BY DEF RollBack, CleanUp, FlagIt, Elsewhere
    <3> QED  BY <3>1, <3>2, <3>3, <3>4, <3>5 DEF Next, Proceed, Recover
  <2>2. SUFFICES ASSUME archive # published
                 PROVE  Flagged
    OBVIOUS
  <2>3. PICK t \in Tokens : journal[t] # "none"
    BY <2>2 DEF Inv, Recoverable
  <2>4. flag["publish_recovery"] # NoToken
    BY <2>1, <2>3 DEF Inv, Noticed, Serve
  <2> QED  BY <2>4 DEF Flagged, Kinds
<1> QED  BY <1>1, InvHolds, PTL DEF Spec, RestoredOrFlagged

\* However its moves are cut, undone and resolved, publishing is one step: the
\* content last published stays in place or in reach of recovery until the
\* next publication is committed, and that one holds the draft of the moment.
THEOREM PublishesOnce == Spec => PublishesAtOnce
<1> DEFINE shown == IF Recoverable(published) THEN published ELSE Lost
           holds == [t \in Tokens |-> IF t \in committed THEN snapshot[t] ELSE 0]
<1>1. Init => Promised!Init
  <2> SUFFICES ASSUME Init PROVE Promised!Init
    OBVIOUS
  <2>1. Recoverable(published) /\ published \notin Tokens
    BY NamesApart DEF Init, Recoverable
  <2>2. holds = [t \in Tokens |-> 0]
    BY DEF Init
  <2> QED  BY <2>1, <2>2 DEF Init, Promised!Init
<1>2. Inv /\ Inv' /\ [Next]_vars => [Promised!Next]_Promised!vars
  <2> SUFFICES ASSUME Inv, Inv', [Next]_vars
               PROVE  Promised!Next \/ UNCHANGED Promised!vars
    OBVIOUS
  <2>1. shown = published /\ shown' = published'
    BY DEF Inv
  <2>2. CASE EditDraft
    BY <2>1, <2>2 DEF EditDraft, db, Promised!Next, Promised!Edit
  <2>3. CASE Commit
    <3>1. plan # <<>> /\ Head(plan) = "commit"
      BY <2>3 DEF Commit, Doing
    <3>2. pc = "publishing" /\ tok \in Tokens \ committed
      BY <3>1, Moving, Installs, EndsGoOn DEF GoesBack, ClearsUp
    <3>3. draft = snapshot[tok]
      BY <3>2 DEF Inv, Publishing
    <3>4. holds[tok] = 0 /\ shown' = tok
      BY <2>1, <2>3, <3>2 DEF Commit
    <3>5. holds' = [holds EXCEPT ![tok] = draft] /\ draft' = draft
      BY <2>3, <3>2, <3>3 DEF Commit, Aside
    <3> QED  BY <3>2, <3>4, <3>5 DEF Promised!Next, Promised!Publish
  <2>4. CASE \E t \in Tokens : Begin(t)
    <3>1. PICK t \in Tokens : Begin(t)
      BY <2>4
    <3>2. t \notin committed
      BY <3>1 DEF Inv, Prepared, Begin
    <3>3. \A u \in Tokens \ {t} : snapshot'[u] = snapshot[u]
      BY <3>1 DEF Begin, Inv, TypeOK
    <3>4. holds' = holds /\ shown' = shown /\ draft' = draft
      BY <2>1, <3>1, <3>2, <3>3 DEF Begin, db
    <3> QED  BY <3>4 DEF Promised!vars
  <2>5. CASE UNCHANGED <<draft, published, committed, snapshot>>
    <3>1. holds' = holds /\ shown' = shown /\ draft' = draft
      BY <2>1, <2>5
    <3> QED  BY <3>1 DEF Promised!vars
  <2>6. [Next]_vars => \/ EditDraft \/ Commit \/ (\E t \in Tokens : Begin(t))
                       \/ UNCHANGED <<draft, published, committed, snapshot>>
    <3>1. Move => Commit \/ UNCHANGED <<draft, published, committed, snapshot>>
      BY DEF Move, Swap, Stage, ArchiveToBackup, WorkToArchive, ArchiveToWork, BackupToArchive,
         DropWork, DropBackup, DropJournal, CloseFlags, SameProcedure, Aside, db
    <3>2. EditArchive \/ WriteJournal \/ OpenTransaction \/ Refuse \/ Recheck \/ Done
             => UNCHANGED <<draft, published, committed, snapshot>>
      BY DEF EditArchive, WriteJournal, OpenTransaction, Refuse, Recheck, Done, Aside, db
    <3>3. Recover => UNCHANGED <<draft, published, committed, snapshot>>
      BY DEF Recover, Restart, Serve, RollBack, CleanUp, FlagIt, Elsewhere, db
    <3>4. Fail \/ FailAgain \/ Crash \/ RecoveryFails
             => UNCHANGED <<draft, published, committed, snapshot>>
      BY DEF Fail, FailAgain, Crash, RecoveryFails, db
    <3>5. UNCHANGED vars => UNCHANGED <<draft, published, committed, snapshot>>
      BY DEF vars, db
    <3> QED  BY <3>1, <3>2, <3>3, <3>4, <3>5 DEF Next, Proceed
  <2> QED  BY <2>2, <2>3, <2>4, <2>5, <2>6
<1> QED  BY <1>1, <1>2, InvHolds, PTL DEF Spec, PublishesAtOnce, Promised!Spec

-----------------------------------------------------------------------------
(* The links loop: what holds of its rows and of its worker.               *)

\* A transcript, or none.
Text == Texts \cup {<<>>}

(* The parts of a transcript of n lines: they begin with the first line,   *)
(* leave none out, and none ends before the one it follows.                *)
PartsOf(ranges, n) ==
    /\ ranges \in Seq(Nat \X Nat) /\ (ranges # <<>> => ranges[1][1] = 1)
    /\ \A i \in 1 .. Len(ranges) : ranges[i][2] \in ranges[i][1] .. n /\ ranges[i][1] > 0
    /\ \A i \in 1 .. Len(ranges) - 1 : ranges[i + 1][1] <= ranges[i][2] + 1 /\ ranges[i][2] <= ranges[i + 1][2]

ExtRow == [state : {"pending", "running", "done", "failed"}, version : Nat, text : Text,
           parts : 1 .. MaxParts, done : Nat, attempts : Nat, old : BOOLEAN]
(* A row that goes on has a layout of its number of parts; what it counts  *)
(* as done was sent, and all of it once it is done.                        *)
ExtGood(row, lines) ==
    /\ row \in ExtRow /\ row.done <= row.parts
    /\ row.old => row.state = "running"
    /\ row.state # "done" => row.text = <<>> \/ Steps(row.text, row.parts) # {}
    /\ \A i \in DOMAIN Layout(row.text, row.parts) :
          i <= row.done \/ row.state = "done" =>
              Lines(Layout(row.text, row.parts)[i]) \subseteq lines
(* The worker's call is for the row as it is.                              *)
CallGood ==
    w.at \in {"claimed", "mention"} =>
        /\ w.m \in Meetings /\ ExtGood(ext[w.m], sent[w.m])
        /\ ext[w.m].state = "running" /\ ~ext[w.m].old
        /\ w.at = "mention" => /\ ext[w.m].text # <<>>
                               /\ w.ranges = Layout(ext[w.m].text, ext[w.m].parts)
                               /\ ext[w.m].done < Len(w.ranges)
Mentions ==
    /\ script \in [Meetings -> Seq(Text) \ {<<>>}]
    /\ ext = [m \in Meetings |-> ext[m]] /\ sent = [m \in Meetings |-> sent[m]]
    /\ \A m \in Meetings : ext[m] # None => ExtGood(ext[m], sent[m])
    /\ CallGood

ScanRow == [version : Nat, project : Projects \cup {None}, section : Nat,
            pair : {"idle", "pending", "running", "done", "failed"},
            attempts : 0 .. MaxAttempts, wait : BOOLEAN, old : BOOLEAN]
ScanGood(row, now) ==
    /\ row \in ScanRow
    /\ row.pair \in {"pending", "running"} => row.attempts < MaxAttempts
    /\ row.old => row.pair = "running"
    /\ row.version <= now[1]
    /\ row.version = now[1] => row.section = now[2]
    /\ row.version = 0 => row.section = 0 /\ row.project = None
IsDone(m) == scan[m].pair = "done" /\ scan[m].section # 0 /\ scan[m].project # None
(* The rows done are compared with each other.                             *)
PairsGood ==
    \A m, o \in Meetings :
        m # o /\ IsDone(m) /\ IsDone(o) /\ scan[m].project = scan[o].project =>
            \/ {<<m, scan[m].section>>, <<o, scan[o].section>>} \in compared
            \/ {m, o} \in missed
(* The worker's plan is of every row done, as it is now.                   *)
PairJob ==
    [at : {"row"}, m : Meetings, version : Nat, project : Projects \cup {None}, may : BOOLEAN]
    \cup [at : {"plan", "pairs"}, m : Meetings, version : Nat, project : Projects \cup {None},
          may : BOOLEAN, live : Nat, others : SUBSET (Meetings \X Nat)]
Planned ==
    /\ scan[w.m].version = w.version => scan[w.m].section = w.live
    /\ \A o \in Meetings \ {w.m} :
          IsDone(o) /\ scan[o].project = w.project /\ w.live # 0 =>
              {w.m, o} \in missed \/ <<o, scan[o].section>> \in w.others
    /\ \A d \in w.others : d[1] # w.m /\ (IsDone(d[1]) => scan[d[1]].section = d[2])
PlanGood ==
    w.at \in {"row", "plan", "pairs"} =>
        /\ w \in PairJob /\ w.version <= scan[w.m].version
        /\ w.at # "row" => Planned
        /\ w.at = "pairs" => ~scan[w.m].old
        /\ w.at # "pairs" /\ w.may => used < DailyCalls
Pairs ==
    /\ project \in [Meetings -> Projects \cup {None}] /\ minutes \in [Meetings -> (Nat \ {0}) \X Nat]
    /\ scan = [m \in Meetings |-> scan[m]]
    /\ \A m \in Meetings : ScanGood(scan[m], minutes[m])
    /\ hold \in {"none", "paused", "backoff"} /\ used \in 0 .. DailyCalls
    /\ events \in 0 .. MaxEvents
    /\ PairsGood /\ PlanGood
LinksInv == Mentions /\ Pairs

-----------------------------------------------------------------------------
(* Numbers: induction, said of sets, and the least and the greatest.       *)

LEMMA NatSet ==
  ASSUME NEW S, 0 \in S, \A n \in Nat : n \in S => n + 1 \in S
  PROVE  Nat \subseteq S
<1> DEFINE T == Nat \ S  R == OpToRel(<, Nat)
<1> SUFFICES ASSUME T # {} PROVE FALSE
  OBVIOUS
<1>1. IsWellFoundedOn(R, Nat)
  BY NatLessThanWellFounded
<1>2. PICK x \in T : \A y \in T : ~(<<y, x>> \in R)
  <2> HIDE DEF R
  <2>1. T \subseteq Nat
    OBVIOUS
  <2> HIDE DEF T
  <2> QED BY <1>1, <2>1, WFMin
<1>3. x \in Nat /\ x # 0 /\ x \notin S
  BY <1>2
<1>4. x - 1 \in Nat /\ (x - 1) + 1 = x /\ x - 1 < x
  BY <1>3
<1>5. x - 1 \in T
  BY <1>3, <1>4
<1>6. <<x - 1, x>> \in R
  BY <1>3, <1>4 DEF OpToRel
<1> QED BY <1>2, <1>5, <1>6

LEMMA LeastNat ==
  ASSUME NEW S \in SUBSET Nat, S # {}
  PROVE  \E x \in S : \A y \in S : x <= y
<1> DEFINE R == OpToRel(<, Nat)
<1>1. IsWellFoundedOn(R, Nat)
  BY NatLessThanWellFounded
<1>2. PICK x \in S : \A y \in S : ~(<<y, x>> \in R)
  <2> HIDE DEF R
  <2> QED BY <1>1, WFMin
<1>3. \A y \in S : ~(y < x)
  BY <1>2 DEF OpToRel
<1> HIDE DEF R
<1> QED BY <1>3

LEMMA GreatestNat ==
  ASSUME NEW n \in Nat, NEW S \in SUBSET (0 .. n), S # {}
  PROVE  \E x \in S : \A y \in S : y <= x
<1> DEFINE T == {n - y : y \in S}
<1>1. T \in SUBSET Nat /\ T # {}
  <2>1. \A y \in S : n - y \in Nat
    OBVIOUS
  <2>2. PICK y \in S : TRUE
    OBVIOUS
  <2>3. n - y \in T
    OBVIOUS
  <2> QED BY <2>1, <2>3
<1>2. PICK t \in T : \A u \in T : t <= u
  <2> HIDE DEF T
  <2> QED BY <1>1, LeastNat
<1>3. PICK x \in S : t = n - x
  BY <1>2
<1>4. \A y \in S : n - y \in T
  OBVIOUS
<1>5. \A y \in S : n - x <= n - y
  BY <1>2, <1>3, <1>4
<1>6. \A y \in S : y <= x
  BY <1>5
<1> QED BY <1>6

LEMMA MinIs ==
  ASSUME NEW S \in SUBSET Nat, S # {}
  PROVE  Min(S) \in S /\ \A y \in S : Min(S) <= y
BY LeastNat DEF Min

LEMMA MaxIs ==
  ASSUME NEW n \in Nat, NEW S \in SUBSET (0 .. n), S # {}
  PROVE  Max(S) \in S /\ \A y \in S : y <= Max(S)
<1>1. \E x \in S : \A y \in S : x >= y
  BY GreatestNat
<1> QED BY <1>1 DEF Max

LEMMA LesserIs ==
  ASSUME NEW a \in Nat, NEW b \in Nat
  PROVE  Lesser(a, b) = IF a <= b THEN a ELSE b
<1>1. {a, b} \in SUBSET Nat /\ {a, b} # {}
  OBVIOUS
<1>2. Lesser(a, b) \in {a, b} /\ \A y \in {a, b} : Lesser(a, b) <= y
  BY <1>1, MinIs DEF Lesser
<1> QED BY <1>2

(* A set of numbers that has every lesser one is a beginning.              *)
LEMMA BeginningIs ==
  ASSUME NEW n \in Nat, NEW S \in SUBSET (1 .. n),
         \A i \in 1 .. n, j \in S : i <= j => i \in S
  PROVE  Cardinality(S) \in 0 .. n /\ S = 1 .. Cardinality(S)
<1>1. CASE S = {}
  BY <1>1, FS_EmptySet
<1>2. CASE S # {}
  <2>1. PICK c \in S : \A y \in S : y <= c
    <3>1. S \in SUBSET (0 .. n)
      OBVIOUS
    <3> QED BY <1>2, <3>1, GreatestNat
  <2>2. S = 1 .. c
    <3>1. \A y \in S : y \in 1 .. c
      BY <2>1
    <3>2. \A y \in 1 .. c : y \in 1 .. n /\ y <= c
      BY <2>1
    <3> QED BY <2>1, <3>1, <3>2
  <2>3. Cardinality(1 .. c) = c
    BY <2>1, FS_Interval
  <2> QED BY <2>1, <2>2, <2>3
<1> QED BY <1>1, <1>2

-----------------------------------------------------------------------------
(* The prefix sums of a text, and that longer stretches are no shorter.    *)

LEMMA SumsExist ==
  ASSUME NEW text \in Seq(Nat)
  PROVE  \E f : f = [i \in 0 .. Len(text) |-> IF i = 0 THEN 0 ELSE f[i - 1] + text[i]]
<1> DEFINE S == {k \in Nat :
               \E f : f = [i \in 0 .. k |-> IF i = 0 THEN 0 ELSE f[i - 1] + text[i]]}
<1>1. 0 \in S
  <2> DEFINE f == [i \in 0 .. 0 |-> 0]
  <2>1. f = [i \in 0 .. 0 |-> IF i = 0 THEN 0 ELSE f[i - 1] + text[i]]
    OBVIOUS
  <2> QED BY <2>1
<1>2. ASSUME NEW k \in Nat, k \in S PROVE k + 1 \in S
  <2>1. PICK f : f = [i \in 0 .. k |-> IF i = 0 THEN 0 ELSE f[i - 1] + text[i]]
    BY <1>2
  <2> DEFINE g == [i \in 0 .. k + 1 |-> IF i = 0 THEN 0 ELSE f[i - 1] + text[i]]
  <2>2. \A i \in 0 .. k : g[i] = f[i]
    BY <2>1
  <2>3. \A i \in 0 .. k + 1 : g[i] = IF i = 0 THEN 0 ELSE g[i - 1] + text[i]
    <3> TAKE i \in 0 .. k + 1
    <3>1. CASE i = 0
      BY <3>1
    <3>2. CASE i # 0
      <4>1. i - 1 \in 0 .. k /\ g[i] = f[i - 1] + text[i]
        BY <3>2
      <4> QED BY <2>2, <3>2, <4>1
    <3> QED BY <3>1, <3>2
  <2>4. g = [i \in 0 .. k + 1 |-> IF i = 0 THEN 0 ELSE g[i - 1] + text[i]]
    BY <2>3
  <2> HIDE DEF g
  <2>5. \E h : h = [i \in 0 .. k + 1 |-> IF i = 0 THEN 0 ELSE h[i - 1] + text[i]]
    BY <2>4
  <2>6. k + 1 \in Nat
    OBVIOUS
  <2> QED BY <2>5, <2>6, Zenon
<1>3. Nat \subseteq S
  <2> HIDE DEF S
  <2> QED BY <1>1, <1>2, NatSet
<1> QED BY <1>3

LEMMA SumsAre ==
  ASSUME NEW text \in Seq(Nat)
  PROVE  /\ \A i \in 0 .. Len(text) : Sums(text)[i] \in Nat
         /\ \A i \in 1 .. Len(text) : Sums(text)[i] = Sums(text)[i - 1] + text[i]
<1> DEFINE n == Len(text)
<1>1. Sums(text) = [i \in 0 .. n |-> IF i = 0 THEN 0 ELSE Sums(text)[i - 1] + text[i]]
  BY SumsExist, Zenon DEF Sums
<1>2. \A i \in 0 .. n : Sums(text)[i] = IF i = 0 THEN 0 ELSE Sums(text)[i - 1] + text[i]
  BY <1>1
<1> DEFINE S == {k \in Nat : k <= n => Sums(text)[k] \in Nat}
<1>3. 0 \in S
  BY <1>2
<1>4. ASSUME NEW k \in Nat, k \in S PROVE k + 1 \in S
  <2>1. CASE k + 1 <= n
    <3>1. Sums(text)[k + 1] = Sums(text)[k] + text[k + 1]
      BY <1>2, <2>1
    <3>2. Sums(text)[k] \in Nat /\ text[k + 1] \in Nat
      BY <1>4, <2>1
    <3> QED BY <3>1, <3>2
  <2> QED BY <2>1
<1>5. Nat \subseteq S
  <2> HIDE DEF S
  <2> QED BY <1>3, <1>4, NatSet
<1> QED BY <1>2, <1>5

LEMMA SumsGrow ==
  ASSUME NEW text \in Seq(Nat), NEW i \in 0 .. Len(text), NEW j \in i .. Len(text)
  PROVE  Sums(text)[i] <= Sums(text)[j]
<1> DEFINE S == {k \in Nat : i + k <= Len(text) => Sums(text)[i] <= Sums(text)[i + k]}
<1>1. 0 \in S
  BY SumsAre
<1>2. ASSUME NEW k \in Nat, k \in S PROVE k + 1 \in S
  <2>1. CASE i + (k + 1) <= Len(text)
    <3>1. /\ Sums(text)[i + (k + 1)] = Sums(text)[i + k] + text[i + (k + 1)]
          /\ text[i + (k + 1)] \in Nat /\ Sums(text)[i] \in Nat /\ Sums(text)[i + k] \in Nat
      <4>1. i + (k + 1) \in 1 .. Len(text) /\ (i + (k + 1)) - 1 = i + k /\ i + k \in 0 .. Len(text)
        BY <2>1
      <4> QED BY <4>1, SumsAre
    <3>2. Sums(text)[i] <= Sums(text)[i + k]
      BY <1>2, <2>1
    <3> QED BY <3>1, <3>2
  <2> QED BY <2>1
<1>3. Nat \subseteq S
  <2> HIDE DEF S
  <2> QED BY <1>1, <1>2, NatSet
<1>4. j - i \in Nat /\ i + (j - i) = j
  OBVIOUS
<1>5. j - i \in S
  BY <1>3, <1>4
<1> QED BY <1>4, <1>5

LEMMA SizeShrinks ==
  ASSUME NEW text \in Seq(Nat), NEW s \in 1 .. Len(text), NEW t \in s .. Len(text),
         NEW e \in t .. Len(text)
  PROVE  /\ Size(text, t, e) \in Int /\ Size(text, s, e) \in Int
         /\ Size(text, t, e) <= Size(text, s, e)
<1>1. Sums(text)[s - 1] <= Sums(text)[t - 1]
  BY SumsGrow
<1>2. /\ Sums(text)[s - 1] \in Nat /\ Sums(text)[t - 1] \in Nat
      /\ Sums(text)[e] \in Nat
  BY SumsAre
<1> QED BY <1>1, <1>2 DEF Size

LEMMA PartEndIs ==
  ASSUME NEW text \in Seq(Nat), NEW limit, NEW s \in 1 .. Len(text)
  PROVE  LET end == PartEnd(text, limit, s) IN
         /\ end \in s .. Len(text)
         /\ end = s \/ Size(text, s, end) <= limit
         /\ \A e \in s .. Len(text) : Size(text, s, e) <= limit => e <= end
<1> DEFINE S == {e \in s .. Len(text) : e = s \/ Size(text, s, e) <= limit}
<1>1. S \in SUBSET (0 .. Len(text)) /\ S # {} /\ Len(text) \in Nat
  <2>1. s \in S
    OBVIOUS
  <2> QED BY <2>1
<1>2. Max(S) \in S /\ \A e \in S : e <= Max(S)
  <2> HIDE DEF S
  <2> QED BY <1>1, MaxIs
<1> QED BY <1>2 DEF PartEnd

-----------------------------------------------------------------------------
(* The parts of a transcript.                                              *)

LEMMA NextStartIs ==
  ASSUME NEW s \in Nat \ {0}, NEW e \in Nat, s <= e
  PROVE  NextStart(s, e) \in s + 1 .. e + 1
<1> DEFINE l == Lesser(Overlap, (e - s + 2) \div 2)
<1>1. (e - s + 2) \div 2 \in Nat /\ (e - s + 2) \div 2 <= e - s + 2
  OBVIOUS
<1>2. l \in Nat /\ l <= e - s + 2
  BY <1>1, LesserIs, LinksAssumption
<1> DEFINE S == {s + 1, e + 1 - l}
<1>3. S \in SUBSET (0 .. e + 1) /\ S # {} /\ e + 1 \in Nat
  BY <1>2
<1>4. Max(S) \in S /\ \A y \in S : y <= Max(S)
  <2> HIDE DEF S
  <2> QED BY <1>3, MaxIs
<1> HIDE DEF l
<1>5. Max(S) <= e + 1 /\ s + 1 <= Max(S) /\ Max(S) \in Nat
  BY <1>3, <1>4
<1> QED BY <1>5 DEF NextStart, l

(* Parts that begin with line s, the first of them lines s to e.           *)
Onward(ranges, s, e, n) ==
    /\ ranges \in Seq(Nat \X Nat) /\ ranges # <<>> /\ ranges[1] = <<s, e>>
    /\ \A i \in 1 .. Len(ranges) : ranges[i][2] \in ranges[i][1] .. n /\ ranges[i][1] > 0
    /\ \A i \in 1 .. Len(ranges) - 1 : /\ ranges[i + 1][1] <= ranges[i][2] + 1
                                       /\ ranges[i][2] <= ranges[i + 1][2]

(* Where each part ends, and where the next begins.                        *)
Steady(end, next, n) ==
    /\ end \in [1 .. n -> 1 .. n]
    /\ \A s \in 1 .. n :
          /\ s <= end[s]
          /\ end[s] # n => /\ next[s] \in s + 1 .. n /\ next[s] <= end[s] + 1
                           /\ end[s] <= end[next[s]]

(* What "from" is of itself.                                               *)
FromEach(f, end, next, n) ==
    [s \in 1 .. n |-> <<<<s, end[s]>>>> \o (IF end[s] = n THEN <<>> ELSE f[next[s]])]

LEMMA PartsExist ==
  ASSUME NEW n \in Nat, NEW end, NEW next, Steady(end, next, n)
  PROVE  \E f : f = FromEach(f, end, next, n)
<1> DEFINE D(k) == {s \in 1 .. n : n - s < k}
           Rest(f, s) == <<<<s, end[s]>>>> \o (IF end[s] = n THEN <<>> ELSE f[next[s]])
           S == {k \in Nat : \E f : f = [s \in D(k) |-> Rest(f, s)]}
<1>1. 0 \in S
  <2> DEFINE f == [s \in D(0) |-> <<>>]
  <2>1. D(0) = {}
    OBVIOUS
  <2>2. f = [s \in D(0) |-> Rest(f, s)]
    BY <2>1
  <2> HIDE DEF f, Rest, D
  <2> QED BY <2>2
<1>2. ASSUME NEW k \in Nat, k \in S PROVE k + 1 \in S
  <2> HIDE DEF D
  <2>1. PICK f : f = [s \in D(k) |-> Rest(f, s)]
    BY <1>2
  <2> DEFINE g == [s \in D(k + 1) |-> Rest(f, s)]
  <2>2. ASSUME NEW s \in D(k + 1) PROVE Rest(f, s) = Rest(g, s)
    <3>1. CASE end[s] = n
      BY <3>1
    <3>2. CASE end[s] # n
      <4>1. next[s] \in D(k) /\ next[s] \in D(k + 1)
        <5>1. s \in 1 .. n /\ n - s < k + 1
          BY <2>2 DEF D
        <5>2. next[s] \in s + 1 .. n
          BY <3>2, <5>1 DEF Steady
        <5>3. next[s] \in 1 .. n /\ n - next[s] < k /\ n - next[s] < k + 1
          BY <5>1, <5>2
        <5> HIDE DEF Rest
        <5> QED BY <5>3 DEF D
      <4>2. f[next[s]] = Rest(f, next[s]) /\ g[next[s]] = Rest(f, next[s])
        <5> HIDE DEF Rest
        <5> QED BY <2>1, <4>1
      <4>3. f[next[s]] = g[next[s]]
        BY <4>2
      <4> HIDE DEF g
      <4> QED BY <4>3
    <3> QED BY <3>1, <3>2
  <2>3. g = [s \in D(k + 1) |-> Rest(g, s)]
    <3> HIDE DEF Rest
    <3> QED BY <2>2
  <2> HIDE DEF g, Rest
  <2>4. \E h : h = [s \in D(k + 1) |-> Rest(h, s)]
    BY <2>3
  <2>5. k + 1 \in Nat
    OBVIOUS
  <2> QED BY <2>4, <2>5, Zenon
<1>3. n \in S
  <2> HIDE DEF S
  <2> QED BY <1>1, <1>2, NatSet
<1>4. D(n) = 1 .. n
  OBVIOUS
<1>5. PICK f : f = [s \in D(n) |-> Rest(f, s)]
  BY <1>3
<1>6. FromEach(f, end, next, n) = [s \in 1 .. n |-> Rest(f, s)]
  BY DEF FromEach
<1> HIDE DEF D, Rest
<1> QED BY <1>4, <1>5, <1>6

LEMMA Prefixed ==
  ASSUME NEW S, NEW first \in S, NEW rest \in Seq(S)
  PROVE  /\ <<first>> \o rest \in Seq(S) /\ Len(<<first>> \o rest) = 1 + Len(rest)
         /\ (<<first>> \o rest)[1] = first
         /\ \A i \in 1 .. Len(rest) : (<<first>> \o rest)[i + 1] = rest[i]
<1> DEFINE one == <<first>>
<1>1. one \in Seq(S) /\ Len(one) = 1 /\ one[1] = first
  OBVIOUS
<1> HIDE DEF one
<1>2. /\ one \o rest \in Seq(S) /\ Len(one \o rest) = Len(one) + Len(rest)
      /\ \A i \in 1 .. Len(one) + Len(rest) :
            (one \o rest)[i] = IF i <= Len(one) THEN one[i] ELSE rest[i - Len(one)]
  BY <1>1, ConcatProperties, Zenon
<1>3. Len(rest) \in Nat
  OBVIOUS
<1> DEFINE all == one \o rest
<1>4. all = one \o rest
  OBVIOUS
<1> HIDE DEF all
<1>5. /\ Len(all) = 1 + Len(rest) /\ all[1] = first
      /\ \A i \in 1 .. Len(rest) : all[i + 1] = rest[i]
  <2>1. \A i \in 1 .. 1 + Len(rest) : all[i] = IF i <= 1 THEN one[i] ELSE rest[i - 1]
    BY <1>1, <1>2, <1>4
  <2>2. all[1] = first
    BY <1>1, <1>3, <2>1
  <2>3. ASSUME NEW i \in 1 .. Len(rest) PROVE all[i + 1] = rest[i]
    <3>1. i + 1 \in 1 .. 1 + Len(rest) /\ ~(i + 1 <= 1) /\ (i + 1) - 1 = i
      BY <1>3
    <3> QED BY <2>1, <3>1
  <2> QED BY <1>1, <1>2, <1>4, <2>2, <2>3
<1> QED BY <1>2, <1>4, <1>5 DEF one

LEMMA OnwardLast ==
  ASSUME NEW n \in Nat, NEW s \in 1 .. n, NEW e \in s .. n
  PROVE  Onward(<<<<s, e>>>>, s, e, n)
<1> DEFINE first == <<s, e>>  one == <<first>>
<1>1. first \in Nat \X Nat /\ first[1] = s /\ first[2] = e /\ first = <<s, e>>
  OBVIOUS
<1> HIDE DEF first
<1>2. one \in Seq(Nat \X Nat) /\ Len(one) = 1 /\ one[1] = first /\ one # <<>>
  BY <1>1
<1>3. one = <<<<s, e>>>>
  BY <1>1
<1> HIDE DEF one
<1>4. \A i \in 1 .. Len(one) : one[i] = first
  BY <1>2
<1>5. 1 .. Len(one) - 1 = {}
  BY <1>2
<1>6. e \in s .. n /\ s > 0
  OBVIOUS
<1>7. Onward(one, s, e, n)
  BY <1>1, <1>2, <1>4, <1>5, <1>6 DEF Onward
<1> QED BY <1>3, <1>7

LEMMA OnwardFirst ==
  ASSUME NEW n \in Nat, NEW s \in 1 .. n, NEW e \in s .. n, NEW t \in Nat, NEW u \in Nat,
         NEW rest, Onward(rest, t, u, n), t <= e + 1, e <= u
  PROVE  Onward(<<<<s, e>>>> \o rest, s, e, n)
<1> DEFINE first == <<s, e>>  all == <<first>> \o rest
<1>1. first \in Nat \X Nat /\ first[1] = s /\ first[2] = e /\ first = <<s, e>>
  OBVIOUS
<1>2. all = <<<<s, e>>>> \o rest
  OBVIOUS
<1> HIDE DEF first
<1>3. /\ rest \in Seq(Nat \X Nat) /\ rest # <<>> /\ rest[1] = <<t, u>>
      /\ \A i \in 1 .. Len(rest) : rest[i][2] \in rest[i][1] .. n /\ rest[i][1] > 0
      /\ \A i \in 1 .. Len(rest) - 1 : /\ rest[i + 1][1] <= rest[i][2] + 1
                                       /\ rest[i][2] <= rest[i + 1][2]
  BY DEF Onward
<1>4. /\ all \in Seq(Nat \X Nat) /\ Len(all) = 1 + Len(rest) /\ all[1] = first
      /\ \A i \in 1 .. Len(rest) : all[i + 1] = rest[i]
  <2> DEFINE T == Nat \X Nat
  <2>1. first \in T /\ rest \in Seq(T)
    BY <1>1, <1>3
  <2> HIDE DEF T
  <2>2. /\ <<first>> \o rest \in Seq(T) /\ Len(<<first>> \o rest) = 1 + Len(rest)
        /\ (<<first>> \o rest)[1] = first
        /\ \A i \in 1 .. Len(rest) : (<<first>> \o rest)[i + 1] = rest[i]
    BY <2>1, Prefixed
  <2> QED BY <2>2, Zenon DEF T
<1>5. Len(rest) \in Nat \ {0}
  BY <1>3
<1> HIDE DEF all
<1>11. Len(all) = 1 + Len(rest)
  BY <1>4
<1>6. \A i \in 1 .. Len(all) : i = 1 \/ (i - 1 \in 1 .. Len(rest) /\ all[i] = rest[i - 1])
  <2> SUFFICES ASSUME NEW i \in 1 .. Len(all), i # 1
               PROVE  i - 1 \in 1 .. Len(rest) /\ all[i] = rest[i - 1]
    OBVIOUS
  <2>1. i - 1 \in 1 .. Len(rest) /\ (i - 1) + 1 = i
    BY <1>5, <1>11
  <2> QED BY <1>4, <2>1
<1>7. ASSUME NEW i \in 1 .. Len(all)
      PROVE  all[i][2] \in all[i][1] .. n /\ all[i][1] > 0
  <2>1. CASE i = 1
    BY <1>1, <1>4, <2>1
  <2>2. CASE i # 1
    BY <1>3, <1>6, <2>2
  <2> QED BY <2>1, <2>2
<1>8. ASSUME NEW i \in 1 .. Len(all) - 1
      PROVE  all[i + 1][1] <= all[i][2] + 1 /\ all[i][2] <= all[i + 1][2]
  <2>1. i \in 1 .. Len(rest) /\ i \in 1 .. Len(all)
    BY <1>4, <1>5
  <2>2. all[i + 1] = rest[i]
    BY <1>4, <2>1
  <2>3. CASE i = 1
    <3>1. all[i] = first
      BY <1>4, <2>3
    <3>2. rest[i] = <<t, u>>
      BY <1>3, <2>3
    <3> QED BY <1>1, <2>2, <3>1, <3>2
  <2>4. CASE i # 1
    <3>1. i - 1 \in 1 .. Len(rest) /\ all[i] = rest[i - 1]
      BY <1>6, <2>1, <2>4
    <3>2. i - 1 \in 1 .. Len(rest) - 1 /\ (i - 1) + 1 = i
      BY <1>5, <2>1, <3>1
    <3>3. rest[(i - 1) + 1][1] <= rest[i - 1][2] + 1 /\ rest[i - 1][2] <= rest[(i - 1) + 1][2]
      BY <1>3, <3>2
    <3> QED BY <2>2, <3>1, <3>2, <3>3
  <2> QED BY <2>3, <2>4
<1>9. all # <<>> /\ all[1] = <<s, e>>
  BY <1>1, <1>4, <1>5
<1>10. Onward(all, s, e, n)
  BY <1>4, <1>7, <1>8, <1>9 DEF Onward
<1> QED BY <1>2, <1>10

LEMMA OnwardIs ==
  ASSUME NEW n \in Nat, NEW end, NEW next, Steady(end, next, n),
         NEW f, f = FromEach(f, end, next, n)
  PROVE  \A s \in 1 .. n : Onward(f[s], s, end[s], n)
<1> DEFINE S == {k \in Nat : \A s \in 1 .. n : n - s < k => Onward(f[s], s, end[s], n)}
<1>1. 0 \in S
  OBVIOUS
<1>2. ASSUME NEW k \in Nat, k \in S PROVE k + 1 \in S
  <2> SUFFICES ASSUME NEW s \in 1 .. n, n - s < k + 1
               PROVE  Onward(f[s], s, end[s], n)
    OBVIOUS
  <2>1. end[s] \in s .. n
    BY DEF Steady
  <2>2. CASE end[s] = n
    <3>1. f[s] = <<<<s, end[s]>>>>
      <4>1. f[s] = <<<<s, end[s]>>>> \o <<>>
        BY <2>2 DEF FromEach
      <4>2. <<<<s, end[s]>>>> \in Seq(Nat \X Nat)
        BY <2>1
      <4> QED BY <4>1, <4>2, ConcatEmptySeq, Zenon
    <3> QED BY <2>1, <3>1, OnwardLast
  <2>3. CASE end[s] # n
    <3>1. next[s] \in s + 1 .. n /\ next[s] <= end[s] + 1 /\ end[s] <= end[next[s]]
      BY <2>3 DEF Steady
    <3>2. next[s] \in 1 .. n /\ n - next[s] < k /\ next[s] \in Nat
      BY <3>1
    <3>3. Onward(f[next[s]], next[s], end[next[s]], n)
      BY <1>2, <3>2
    <3>4. f[s] = <<<<s, end[s]>>>> \o f[next[s]]
      BY <2>3 DEF FromEach
    <3>5. end[next[s]] \in Nat
      BY <3>2 DEF Steady
    <3>6. Onward(<<<<s, end[s]>>>> \o f[next[s]], s, end[s], n)
      BY <2>1, <3>1, <3>2, <3>3, <3>5, OnwardFirst, Zenon
    <3> QED BY <3>4, <3>6
  <2> QED BY <2>2, <2>3
<1>3. n \in S
  <2> HIDE DEF S
  <2> QED BY <1>1, <1>2, NatSet
<1>4. \A s \in 1 .. n : n - s < n
  OBVIOUS
<1> QED BY <1>3, <1>4

LEMMA PackIs ==
  ASSUME NEW text \in Seq(Nat), NEW limit \in Nat
  PROVE  PartsOf(Pack(text, limit), Len(text)) /\ (text # <<>> => Pack(text, limit) # <<>>)
<1> DEFINE n == Len(text)
           end == [s \in 1 .. n |-> PartEnd(text, limit, s)]
           next == [s \in 1 .. n |-> NextStart(s, end[s])]
<1>1. n \in Nat /\ \A s \in 1 .. n : end[s] \in s .. n
  BY PartEndIs
<1>2. Steady(end, next, n)
  <2>1. end \in [1 .. n -> 1 .. n]
    BY <1>1
  <2>2. ASSUME NEW s \in 1 .. n
        PROVE  /\ s <= end[s]
               /\ end[s] # n => /\ next[s] \in s + 1 .. n /\ next[s] <= end[s] + 1
                                /\ end[s] <= end[next[s]]
    <3>1. end[s] \in s .. n /\ s \in Nat \ {0}
      BY <1>1
    <3>2. next[s] \in s + 1 .. end[s] + 1
      <4> HIDE DEF end
      <4>1. next[s] = NextStart(s, end[s]) /\ end[s] \in Nat /\ s <= end[s]
        BY <3>1
      <4> HIDE DEF next
      <4> QED BY <3>1, <4>1, NextStartIs
    <3> HIDE DEF next
    <3>3. ASSUME end[s] # n PROVE next[s] \in s + 1 .. n /\ end[s] <= end[next[s]]
      <4>1. next[s] \in s + 1 .. n
        BY <3>1, <3>2, <3>3
      <4>2. end[next[s]] \in next[s] .. n
        BY <1>1, <4>1
      <4>3. CASE next[s] = end[s] + 1
        <5> HIDE DEF end
        <5> QED BY <3>1, <4>1, <4>2, <4>3
      <4>4. CASE next[s] \in s + 1 .. end[s]
        <5>1. Size(text, s, end[s]) <= limit
          BY <3>1, <4>4, PartEndIs
        <5>2. Size(text, next[s], end[s]) <= limit
          <6>1. s \in 1 .. Len(text) /\ next[s] \in s .. Len(text) /\ end[s] \in next[s] .. Len(text)
            BY <3>1, <4>1, <4>4
          <6> HIDE DEF end
          <6>2. /\ Size(text, next[s], end[s]) \in Int /\ Size(text, s, end[s]) \in Int
                /\ Size(text, next[s], end[s]) <= Size(text, s, end[s])
            BY <6>1, SizeShrinks
          <6> QED BY <5>1, <6>2
        <5>3. next[s] \in 1 .. n /\ end[s] \in next[s] .. n
          BY <3>1, <4>1, <4>4
        <5>4. end[s] <= PartEnd(text, limit, next[s])
          <6> HIDE DEF end
          <6> QED BY <5>2, <5>3, PartEndIs
        <5>5. end[next[s]] = PartEnd(text, limit, next[s])
          BY <5>3
        <5> HIDE DEF end
        <5> QED BY <4>1, <5>4, <5>5
      <4>5. next[s] \in s + 1 .. end[s] \/ next[s] = end[s] + 1
        <5> HIDE DEF end
        <5> QED BY <3>1, <3>2
      <4> QED BY <4>1, <4>3, <4>4, <4>5
    <3> QED BY <3>1, <3>2, <3>3
  <2> HIDE DEF end, next
  <2> QED BY <2>1, <2>2 DEF Steady
<1> DEFINE from == CHOOSE g : g = [s \in 1 .. n |->
             <<<<s, PartEnd(text, limit, s)>>>> \o
             (IF PartEnd(text, limit, s) = n THEN <<>>
              ELSE g[NextStart(s, PartEnd(text, limit, s))])]
<1>3. from = CHOOSE g : g = FromEach(g, end, next, n)
  <2>1. \A g : FromEach(g, end, next, n) = [s \in 1 .. n |->
             <<<<s, PartEnd(text, limit, s)>>>> \o
             (IF PartEnd(text, limit, s) = n THEN <<>>
              ELSE g[NextStart(s, PartEnd(text, limit, s))])]
    BY DEF FromEach
  <2> QED BY <2>1
<1>4. from = FromEach(from, end, next, n)
  <2> HIDE DEF from, end, next, n
  <2>1. \E g : g = FromEach(g, end, next, n)
    BY <1>1, <1>2, PartsExist
  <2> QED BY <1>3, <2>1
<1>5. Pack(text, limit) = IF text = <<>> THEN <<>> ELSE from[1]
  BY DEF Pack
<1>6. CASE text = <<>>
  BY <1>5, <1>6 DEF PartsOf
<1>7. CASE text # <<>>
  <2>1. 1 \in 1 .. n
    BY <1>7
  <2>2. Onward(from[1], 1, end[1], n)
    <3> HIDE DEF from, end, next
    <3> QED BY <1>1, <1>2, <1>4, <2>1, OnwardIs
  <2>3. Pack(text, limit) = from[1]
    BY <1>5, <1>7
  <2> HIDE DEF from, end
  <2> QED BY <2>2, <2>3 DEF Onward, PartsOf
<1> QED BY <1>6, <1>7

LEMMA TextIs ==
  ASSUME NEW text \in Text
  PROVE  text \in Seq(Nat) /\ Len(text) \in Nat /\ (text # <<>> => Len(text) # 0)
<1>1. CASE text = <<>>
  BY <1>1
<1>2. CASE text \in Texts
  <2>1. text \in Seq(Nat \ {0}) /\ Nat \ {0} \subseteq Nat
    BY <1>2, LinksAssumption
  <2>2. text \in Seq(Nat)
    BY <2>1, SeqMonotonic
  <2> QED BY <2>2
<1> QED BY <1>1, <1>2 DEF Text

LEMMA RangesIs ==
  ASSUME NEW text \in Text, NEW i \in DOMAIN Limits
  PROVE  /\ Ranges[text][i] = Pack(text, Limits[i])
         /\ PartsOf(Ranges[text][i], Len(text))
         /\ text # <<>> => Ranges[text][i] # <<>>
<1>1. Limits[i] \in Nat
  BY LinksAssumption
<1>2. Ranges[text][i] = Pack(text, Limits[i])
  BY DEF Ranges, Text
<1> QED BY <1>1, <1>2, TextIs, PackIs

LEMMA SentIs ==
  ASSUME NEW n \in Nat, NEW ranges, PartsOf(ranges, n)
  PROVE  /\ PartsOf(Sent(ranges), n)
         /\ Len(Sent(ranges)) = IF MaxParts <= Len(ranges) THEN MaxParts ELSE Len(ranges)
         /\ Len(ranges) <= MaxParts => Sent(ranges) = ranges
         /\ ranges # <<>> => Sent(ranges) # <<>>
<1> DEFINE k == Lesser(MaxParts, Len(ranges))  sent2 == Sent(ranges)
<1>1. ranges \in Seq(Nat \X Nat) /\ Len(ranges) \in Nat /\ MaxParts \in Nat \ {0}
  BY LinksAssumption DEF PartsOf
<1>2. k = IF MaxParts <= Len(ranges) THEN MaxParts ELSE Len(ranges)
  BY <1>1, LesserIs
<1>3. k \in 0 .. Len(ranges)
  BY <1>1, <1>2
<1>4. sent2 = SubSeq(ranges, 1, k)
  BY DEF Sent
<1> HIDE DEF k, sent2
<1>5. /\ sent2 \in Seq(Nat \X Nat) /\ Len(sent2) = k
      /\ \A i \in 1 .. k : sent2[i] = ranges[i]
  <2>1. \A i \in 1 .. k : ranges[i] \in Nat \X Nat
    BY <1>1, <1>3
  <2> DEFINE T == Nat \X Nat
  <2> HIDE DEF T
  <2>2. /\ SubSeq(ranges, 1, k) \in Seq(T)
        /\ Len(SubSeq(ranges, 1, k)) = IF 1 <= k THEN k - 1 + 1 ELSE 0
        /\ \A i \in 1 .. k - 1 + 1 : SubSeq(ranges, 1, k)[i] = ranges[1 + i - 1]
    <3>1. 1 \in Int /\ k \in Int /\ \A i \in 1 .. k : ranges[i] \in T
      BY <1>3, <2>1 DEF T
    <3> QED BY <3>1, SubSeqProperties
  <2>3. k - 1 + 1 = k /\ (~(1 <= k) => k = 0) /\ \A i \in 1 .. k : 1 + i - 1 = i
    BY <1>3
  <2> QED BY <1>4, <2>2, <2>3 DEF T
<1>6. PartsOf(sent2, n)
  <2>1. \A i \in 1 .. k : i \in 1 .. Len(ranges)
    BY <1>1, <1>3
  <2>2. \A i \in 1 .. k - 1 : i \in 1 .. k /\ i + 1 \in 1 .. k /\ i \in 1 .. Len(ranges) - 1
    BY <1>1, <1>3
  <2>3. sent2 # <<>> => 1 \in 1 .. k /\ ranges # <<>>
    BY <1>1, <1>3, <1>5
  <2> QED BY <1>5, <2>1, <2>2, <2>3 DEF PartsOf
<1>7. Len(ranges) <= MaxParts => sent2 = ranges
  <2> SUFFICES ASSUME Len(ranges) <= MaxParts PROVE sent2 = ranges
    OBVIOUS
  <2>1. k = Len(ranges)
    BY <1>1, <1>2
  <2> QED BY <1>1, <1>5, <2>1, SeqEqual
<1>8. ranges # <<>> => sent2 # <<>>
  <2> SUFFICES ASSUME ranges # <<>> PROVE sent2 # <<>>
    OBVIOUS
  <2>1. k # 0
    BY <1>1, <1>2
  <2> QED BY <1>5, <2>1
<1> QED BY <1>2, <1>5, <1>6, <1>7, <1>8 DEF sent2

LEMMA StepsIs ==
  ASSUME NEW text \in Text, NEW k \in Nat, Steps(text, k) # {}
  PROVE  /\ Min(Steps(text, k)) \in DOMAIN Limits
         /\ Len(Ranges[text][Min(Steps(text, k))]) >= k
         /\ \A i \in Steps(text, k) : Min(Steps(text, k)) <= i
<1>1. Steps(text, k) \in SUBSET Nat
  <2>1. DOMAIN Limits \subseteq Nat
    BY LinksAssumption
  <2> QED BY <2>1 DEF Steps
<1>2. Min(Steps(text, k)) \in Steps(text, k) /\ \A i \in Steps(text, k) : Min(Steps(text, k)) <= i
  BY <1>1, MinIs
<1> QED BY <1>2 DEF Steps

LEMMA LayoutIs ==
  ASSUME NEW text \in Text, NEW k \in Nat
  PROVE  /\ PartsOf(Layout(text, k), Len(text))
         /\ Len(Layout(text, k)) <= MaxParts
         /\ text # <<>> => Layout(text, k) # <<>>
<1> DEFINE i == IF Steps(text, k) = {} THEN Len(Limits) ELSE Min(Steps(text, k))
           ranges == Ranges[text][i]
<1>1. i \in DOMAIN Limits
  <2>1. CASE Steps(text, k) = {}
    BY <2>1, LinksAssumption
  <2>2. CASE Steps(text, k) # {}
    BY <2>2, StepsIs
  <2> QED BY <2>1, <2>2
<1>2. Layout(text, k) = Sent(ranges)
  BY DEF Layout
<1> HIDE DEF i
<1>3. PartsOf(ranges, Len(text)) /\ (text # <<>> => ranges # <<>>) /\ Len(text) \in Nat
  BY <1>1, RangesIs, TextIs
<1> HIDE DEF ranges
<1>4. Len(ranges) \in Nat /\ MaxParts \in Nat
  BY <1>3, LinksAssumption DEF PartsOf
<1> QED BY <1>2, <1>3, <1>4, SentIs

(* The number of parts of a layout leads back to it.                       *)
LEMMA LeadsBack ==
  ASSUME NEW text \in Text, NEW k \in Nat, Steps(text, k) # {}, NEW n \in Nat, k <= n,
         n <= Len(Ranges[text][Min(Steps(text, k))])
  PROVE  Steps(text, n) # {} /\ Min(Steps(text, n)) = Min(Steps(text, k))
<1> DEFINE i == Min(Steps(text, k))  j == Min(Steps(text, n))
<1>1. i \in DOMAIN Limits /\ \A o \in Steps(text, k) : i <= o
  BY StepsIs
<1>2. i \in Steps(text, n)
  <2>1. Len(Ranges[text][i]) \in Nat
    BY <1>1, RangesIs DEF PartsOf
  <2> QED BY <1>1, <2>1 DEF Steps
<1>3. j \in DOMAIN Limits /\ Len(Ranges[text][j]) >= n /\ \A o \in Steps(text, n) : j <= o
  BY <1>2, StepsIs
<1>4. j \in Steps(text, k)
  <2>1. Len(Ranges[text][j]) \in Nat
    BY <1>3, RangesIs DEF PartsOf
  <2> HIDE DEF j
  <2>2. Len(Ranges[text][j]) >= k
    BY <1>3, <2>1
  <2> QED BY <1>3, <2>2 DEF Steps
<1>5. i <= j /\ j <= i
  BY <1>1, <1>2, <1>3, <1>4
<1>d. DOMAIN Limits \subseteq Nat
  BY LinksAssumption
<1> HIDE DEF i, j
<1>6. i \in Nat /\ j \in Nat
  BY <1>1, <1>3, <1>d
<1>7. i = j
  BY <1>5, <1>6
<1> QED BY <1>2, <1>7 DEF i, j

LEMMA LayoutStays ==
  ASSUME NEW text \in Text, NEW k \in 1 .. MaxParts, Steps(text, k) # {}
  PROVE  LET n == Len(Layout(text, k)) IN
         n \in Nat /\ k <= n /\ Steps(text, n) # {} /\ Layout(text, n) = Layout(text, k)
<1> DEFINE i == Min(Steps(text, k))  n == Len(Layout(text, k))  ranges == Ranges[text][i]
<1>1. i \in DOMAIN Limits /\ Len(ranges) >= k /\ k \in Nat /\ MaxParts \in Nat
  BY StepsIs, LinksAssumption
<1>2. PartsOf(ranges, Len(text)) /\ Len(text) \in Nat
  BY <1>1, RangesIs, TextIs
<1>3. Layout(text, k) = Sent(ranges)
  BY DEF Layout
<1>4. n = IF MaxParts <= Len(ranges) THEN MaxParts ELSE Len(ranges)
  <2> HIDE DEF ranges
  <2> QED BY <1>2, <1>3, SentIs
<1>5. n \in Nat /\ k <= n /\ n <= Len(ranges)
  <2>1. Len(ranges) \in Nat
    BY <1>2 DEF PartsOf
  <2> HIDE DEF ranges, n
  <2> QED BY <1>1, <1>4, <2>1
<1>6. Steps(text, n) # {} /\ Min(Steps(text, n)) = i
  <2> HIDE DEF n
  <2> QED BY <1>1, <1>5, LeadsBack
<1>7. Layout(text, n) = Sent(ranges)
  <2> HIDE DEF n
  <2> QED BY <1>6 DEF Layout
<1> QED BY <1>3, <1>5, <1>6, <1>7

LEMMA FinerIs ==
  ASSUME NEW text \in Text, NEW k \in Nat, Finer(text, k) # <<>>
  PROVE  LET ranges == Finer(text, k) IN
         /\ PartsOf(ranges, Len(text)) /\ Len(ranges) \in 1 .. MaxParts
         /\ Steps(text, Len(ranges)) # {} /\ Layout(text, Len(ranges)) = ranges
<1> DEFINE i == Min(Steps(text, k + 1))  ranges == Ranges[text][i]  n == Len(ranges)
<1>1. Steps(text, k + 1) # {} /\ n <= MaxParts /\ Finer(text, k) = ranges
  BY DEF Finer
<1>2. i \in DOMAIN Limits /\ n >= k + 1 /\ k + 1 \in Nat
  BY <1>1, StepsIs
<1>3. PartsOf(ranges, Len(text)) /\ Len(text) \in Nat
  BY <1>2, RangesIs, TextIs
<1>4. n \in Nat /\ MaxParts \in Nat
  BY <1>3, LinksAssumption DEF PartsOf
<1>5. n \in 1 .. MaxParts /\ k + 1 <= n
  <2> HIDE DEF n
  <2> QED BY <1>1, <1>2, <1>4
<1>6. Steps(text, n) # {} /\ Min(Steps(text, n)) = i
  <2>1. n <= Len(Ranges[text][Min(Steps(text, k + 1))])
    BY <1>4
  <2> HIDE DEF n
  <2> QED BY <1>1, <1>2, <1>4, <1>5, <2>1, LeadsBack
<1>7. Layout(text, n) = Sent(ranges)
  <2> HIDE DEF n
  <2> QED BY <1>6 DEF Layout
<1>8. Sent(ranges) = ranges
  <2> HIDE DEF ranges
  <2> QED BY <1>1, <1>3, SentIs
<1> HIDE DEF ranges, i
<1> QED BY <1>1, <1>3, <1>5, <1>6, <1>7, <1>8

-----------------------------------------------------------------------------
(* What the parts cover.                                                   *)

LEMMA PartsWithin ==
  ASSUME NEW n \in Nat, NEW ranges, PartsOf(ranges, n), NEW i \in DOMAIN ranges
  PROVE  Lines(ranges[i]) \subseteq 1 .. n
<1>1. i \in 1 .. Len(ranges) /\ ranges[i][2] \in ranges[i][1] .. n /\ ranges[i][1] > 0
  BY DEF PartsOf
<1>2. ranges[i][1] \in Nat
  BY <1>1 DEF PartsOf
<1> QED BY <1>1, <1>2 DEF Lines

(* The first parts cover every line up to the end of the last of them.     *)
LEMMA CoverIs ==
  ASSUME NEW n \in Nat, NEW ranges, PartsOf(ranges, n), NEW done \in 0 .. Len(ranges),
         NEW lines, \A i \in 1 .. done : Lines(ranges[i]) \subseteq lines
  PROVE  1 .. (IF done = 0 THEN 0 ELSE ranges[done][2]) \subseteq lines
<1> DEFINE upto(k) == IF k = 0 THEN 0 ELSE ranges[k][2]
           S == {k \in Nat : k <= done => 1 .. upto(k) \subseteq lines}
<1>0. Len(ranges) \in Nat /\ done \in Nat /\ done <= Len(ranges)
  BY DEF PartsOf
<1>t. \A i \in 1 .. Len(ranges) : ranges[i][1] \in Nat /\ ranges[i][2] \in Nat
  BY DEF PartsOf
<1>1. 0 \in S
  OBVIOUS
<1>2. ASSUME NEW k \in Nat, k \in S PROVE k + 1 \in S
  <2> SUFFICES ASSUME k + 1 <= done PROVE 1 .. upto(k + 1) \subseteq lines
    OBVIOUS
  <2>1. 1 .. upto(k) \subseteq lines
    BY <1>2, <1>0
  <2>2. k + 1 \in 1 .. done /\ k + 1 \in 1 .. Len(ranges) /\ k + 1 # 0
    BY <1>0
  <2>3. ranges[k + 1][1] .. ranges[k + 1][2] \subseteq lines
    BY <2>2 DEF Lines
  <2>4. upto(k) \in Nat /\ ranges[k + 1][1] <= upto(k) + 1
    <3>1. CASE k = 0
      <4>1. ranges # <<>>
        BY <2>2
      <4>2. ranges[1][1] = 1
        BY <4>1 DEF PartsOf
      <4> QED BY <3>1, <4>2
    <3>2. CASE k # 0
      <4>1. k \in 1 .. Len(ranges) - 1
        BY <3>2, <2>2, <1>0
      <4>2. ranges[k + 1][1] <= ranges[k][2] + 1
        BY <4>1 DEF PartsOf
      <4>3. k \in 1 .. Len(ranges)
        BY <4>1, <1>0
      <4> QED BY <3>2, <4>2, <4>3, <1>t
    <3> QED BY <3>1, <3>2
  <2>5. upto(k + 1) = ranges[k + 1][2]
    BY <2>2
  <2>6. ASSUME NEW l \in 1 .. upto(k + 1) PROVE l \in lines
    <3>0. ranges[k + 1][1] \in Nat /\ ranges[k + 1][2] \in Nat
      BY <2>2, <1>t
    <3>1. CASE l <= upto(k)
      BY <3>1, <2>1, <2>4
    <3>2. CASE ~(l <= upto(k))
      <4> HIDE DEF upto
      <4>1. l \in Nat /\ l >= ranges[k + 1][1] /\ l <= ranges[k + 1][2]
        BY <3>2, <3>0, <2>4, <2>5
      <4> QED BY <4>1, <2>3, <3>0
    <3> QED BY <3>1, <3>2
  <2> QED BY <2>6
<1>3. Nat \subseteq S
  <2> HIDE DEF S
  <2> QED BY <1>1, <1>2, NatSet
<1>4. done \in S
  BY <1>0, <1>3
<1> QED BY <1>4

(* The last lines of the parts never go back.                              *)
LEMMA EndsGrow ==
  ASSUME NEW n \in Nat, NEW ranges, PartsOf(ranges, n)
  PROVE  \A i, j \in 1 .. Len(ranges) : i <= j => ranges[i][2] <= ranges[j][2]
<1>0. Len(ranges) \in Nat /\ \A i \in 1 .. Len(ranges) : ranges[i][2] \in Nat
  BY DEF PartsOf
<1> SUFFICES ASSUME NEW i \in 1 .. Len(ranges)
             PROVE  \A j \in 1 .. Len(ranges) : i <= j => ranges[i][2] <= ranges[j][2]
  OBVIOUS
<1> DEFINE S == {k \in Nat : i + k <= Len(ranges) => ranges[i][2] <= ranges[i + k][2]}
<1>1. 0 \in S
  BY <1>0
<1>2. ASSUME NEW k \in Nat, k \in S PROVE k + 1 \in S
  <2> SUFFICES ASSUME i + (k + 1) <= Len(ranges) PROVE ranges[i][2] <= ranges[i + (k + 1)][2]
    OBVIOUS
  <2>1. i + k \in 1 .. Len(ranges) - 1 /\ i + k <= Len(ranges) /\ i + (k + 1) = (i + k) + 1
    BY <1>0
  <2>2. ranges[i][2] <= ranges[i + k][2]
    BY <1>2, <2>1
  <2>3. ranges[i + k][2] <= ranges[(i + k) + 1][2]
    BY <2>1 DEF PartsOf
  <2>4. i + k \in 1 .. Len(ranges) /\ (i + k) + 1 \in 1 .. Len(ranges)
    BY <2>1, <1>0
  <2>5. ranges[i][2] \in Nat /\ ranges[i + k][2] \in Nat /\ ranges[(i + k) + 1][2] \in Nat
    BY <2>4, <1>0
  <2> DEFINE a == ranges[i][2]  b == ranges[i + k][2]  c == ranges[(i + k) + 1][2]
  <2>6. a <= c
    <3>1. a \in Nat /\ b \in Nat /\ c \in Nat /\ a <= b /\ b <= c
      BY <2>2, <2>3, <2>5
    <3> HIDE DEF a, b, c
    <3> QED BY <3>1
  <2> QED BY <2>1, <2>6
<1>3. Nat \subseteq S
  <2> HIDE DEF S
  <2> QED BY <1>1, <1>2, NatSet
<1>4. ASSUME NEW j \in 1 .. Len(ranges), i <= j PROVE ranges[i][2] <= ranges[j][2]
  <2>1. j - i \in S /\ i + (j - i) = j /\ j <= Len(ranges)
    BY <1>0, <1>3, <1>4
  <2> QED BY <2>1
<1> QED BY <1>4

(* The parts that end within the first lines are the first parts.          *)
LEMMA WithinIs ==
  ASSUME NEW n \in Nat, NEW ranges, PartsOf(ranges, n), NEW upto \in Nat
  PROVE  /\ EndWithin(ranges, upto) \in 0 .. Len(ranges)
         /\ \A i \in 1 .. EndWithin(ranges, upto) : ranges[i][2] <= upto
<1> DEFINE S == {i \in DOMAIN ranges : ranges[i][2] <= upto}
<1>1. Len(ranges) \in Nat /\ DOMAIN ranges = 1 .. Len(ranges)
      /\ \A i \in 1 .. Len(ranges) : ranges[i][2] \in Nat
  BY DEF PartsOf
<1>2. S \in SUBSET (1 .. Len(ranges))
  BY <1>1
<1>3. ASSUME NEW i \in 1 .. Len(ranges), NEW j \in S, i <= j PROVE i \in S
  <2>1. j \in 1 .. Len(ranges) /\ ranges[j][2] <= upto
    BY <1>1
  <2>2. ranges[i][2] <= ranges[j][2]
    BY <1>3, <2>1, EndsGrow
  <2> QED BY <1>1, <2>1, <2>2
<1>4. Cardinality(S) \in 0 .. Len(ranges) /\ S = 1 .. Cardinality(S)
  <2> HIDE DEF S
  <2> QED BY <1>1, <1>2, <1>3, BeginningIs
<1>5. EndWithin(ranges, upto) = Cardinality(S)
  BY DEF EndWithin
<1> HIDE DEF S
<1>6. \A i \in S : ranges[i][2] <= upto
  BY DEF S
<1> QED BY <1>4, <1>5, <1>6

(* A row that begins goes by the coarsest layout.                          *)
LEMMA FirstSteps ==
  ASSUME NEW text \in Text, text # <<>>
  PROVE  LET parts == Max({1, Len(SplitParts(text))}) IN
         parts \in 1 .. MaxParts /\ Steps(text, parts) # {}
<1> DEFINE ranges == Ranges[text][1]  n == Len(SplitParts(text))
<1>0. MaxParts \in Nat \ {0} /\ 1 \in DOMAIN Limits
  BY LinksAssumption
<1>1. PartsOf(ranges, Len(text)) /\ ranges # <<>> /\ Len(text) \in Nat
  BY <1>0, RangesIs, TextIs
<1>2. Len(ranges) \in Nat \ {0}
  BY <1>1 DEF PartsOf
<1>3. SplitParts(text) = Sent(ranges)
  BY DEF SplitParts
<1> HIDE DEF ranges
<1>4. n = IF MaxParts <= Len(ranges) THEN MaxParts ELSE Len(ranges)
  BY <1>1, <1>3, SentIs
<1>5. n \in 1 .. MaxParts /\ n <= Len(ranges)
  BY <1>0, <1>2, <1>4
<1>6. Max({1, n}) = n
  <2> DEFINE S == {1, n}
  <2>1. S \in SUBSET (0 .. n) /\ S # {} /\ n \in Nat /\ n \in S
    BY <1>5, <1>0
  <2>2. Max(S) \in S /\ \A y \in S : y <= Max(S)
    <3> HIDE DEF S
    <3> QED BY <2>1, MaxIs
  <2>3. Max(S) >= n /\ Max(S) <= n
    BY <2>1, <2>2, <1>5
  <2> QED BY <2>1, <2>2, <2>3
<1>7. 1 \in Steps(text, n)
  BY <1>0, <1>5 DEF Steps, ranges
<1> HIDE DEF n
<1> QED BY <1>5, <1>6, <1>7 DEF n

-----------------------------------------------------------------------------
(* Transcripts sent part by part.                                          *)

LEMMA MentionsInit == LinksInit => Mentions
<1> SUFFICES ASSUME LinksInit PROVE Mentions
  OBVIOUS
<1>1. PICK text \in [Spoken -> Texts] :
        script = [m \in Meetings |-> <<IF m \in Spoken THEN text[m] ELSE <<>> >>]
  BY DEF LinksInit
<1>2. \A m \in Meetings : (IF m \in Spoken THEN text[m] ELSE <<>>) \in Text
  BY DEF Text
<1>3. \A t \in Text : <<t>> \in Seq(Text) /\ <<t>> # <<>>
  OBVIOUS
<1>4. script \in [Meetings -> Seq(Text) \ {<<>>}]
  BY <1>1, <1>2, <1>3
<1> QED BY <1>4 DEF LinksInit, Mentions, CallGood, Idle

\* A step that leaves the rows alone, and takes up no call for them.
LEMMA MentionsKept ==
  ASSUME Mentions, UNCHANGED <<script, ext, sent>>,
         w' = w \/ w'.at \notin {"claimed", "mention"}
  PROVE  Mentions'
<1>1. CallGood'
  BY DEF Mentions, CallGood
<1> QED BY <1>1 DEF Mentions

\* A row is written, and no call is under way after it.
LEMMA RowWritten ==
  ASSUME Mentions, NEW m \in Meetings, NEW row, NEW lines, ext' = [ext EXCEPT ![m] = row],
         sent' = [sent EXCEPT ![m] = lines], script' = script,
         ExtGood(row, lines), CallGood'
  PROVE  Mentions'
<1>1. ext' = [o \in Meetings |-> ext'[o]] /\ sent' = [o \in Meetings |-> sent'[o]]
  BY DEF Mentions
<1>2. ext'[m] = row /\ sent'[m] = lines
      /\ \A o \in Meetings \ {m} : ext'[o] = ext[o] /\ sent'[o] = sent[o]
  BY DEF Mentions
<1>3. \A o \in Meetings : ext'[o] # None => ExtGood(ext'[o], sent'[o])
  BY <1>2 DEF Mentions
<1> HIDE DEF ExtGood
<1>4. \A o \in Meetings : ext[o]' # None => ExtGood(ext[o]', sent[o]')
  BY <1>3
<1> QED BY <1>1, <1>4 DEF Mentions

LEMMA RowWrittenOnly ==
  ASSUME Mentions, NEW m \in Meetings, NEW row, ext' = [ext EXCEPT ![m] = row],
         UNCHANGED <<script, sent>>, ExtGood(row, sent[m]), CallGood'
  PROVE  Mentions'
<1>1. sent' = [sent EXCEPT ![m] = sent[m]]
  BY DEF Mentions
<1> QED BY <1>1, RowWritten

LEMMA NewIsGood ==
  ASSUME Mentions, NEW m \in Meetings, script[m][Len(script[m])] # <<>>, NEW lines
  PROVE  ExtGood(NewExtraction(m), lines) /\ NewExtraction(m).text = script[m][Len(script[m])]
         /\ NewExtraction(m).done = 0
<1> DEFINE text == script[m][Len(script[m])]  row == NewExtraction(m)
<1>1. text \in Text /\ Len(script[m]) \in Nat
  BY DEF Mentions
<1>2. Max({1, Len(SplitParts(text))}) \in 1 .. MaxParts
      /\ Steps(text, Max({1, Len(SplitParts(text))})) # {}
  BY <1>1, FirstSteps
<1>3. MaxParts \in Nat
  BY LinksAssumption
<1>4. row = [state |-> "pending", version |-> Len(script[m]), text |-> text,
             parts |-> Max({1, Len(SplitParts(text))}), done |-> 0, attempts |-> 0, old |-> FALSE]
  BY DEF NewExtraction
<1> HIDE DEF text, row
<1>5. row \in ExtRow /\ row.done = 0 /\ row.state = "pending" /\ row.old = FALSE
      /\ row.text = text /\ Steps(row.text, row.parts) # {} /\ row.parts \in 1 .. MaxParts
  BY <1>1, <1>2, <1>3, <1>4 DEF ExtRow
<1>6. \A i \in DOMAIN Layout(row.text, row.parts) : i > 0 /\ i \in Nat
  <2>1. row.text \in Text /\ row.parts \in Nat
    BY <1>5, <1>1, <1>3
  <2>2. PartsOf(Layout(row.text, row.parts), Len(row.text))
    BY <2>1, LayoutIs
  <2> QED BY <2>2 DEF PartsOf
<1>7. row.parts \in Nat
  BY <1>5, <1>3
<1>8. ExtGood(row, lines)
  BY <1>5, <1>6, <1>7 DEF ExtGood
<1> QED BY <1>5, <1>8 DEF text, row

(* Another state of a row that goes on.                                    *)
LEMMA StateIsGood ==
  ASSUME NEW row, NEW lines, ExtGood(row, lines), row.state # "done",
         NEW other \in ExtRow, other.text = row.text, other.parts = row.parts,
         other.done = row.done, other.state # "done", other.old => other.state = "running"
  PROVE  ExtGood(other, lines)
BY DEF ExtGood

LEMMA IdleCall == w' = Idle => CallGood'
BY DEF CallGood, Idle

LEMMA EditTextMentions == ASSUME Mentions, NEW m \in Meetings, EditText(m) PROVE Mentions'
<1>1. PICK t \in Texts \cup {<<>>} : script' = [script EXCEPT ![m][Len(script[m])] = t]
  BY DEF EditText
<1>2. script[m] \in Seq(Text) /\ script[m] # <<>> /\ Len(script[m]) \in Nat \ {0}
  BY DEF Mentions
<1>3. [script[m] EXCEPT ![Len(script[m])] = t] \in Seq(Text) \ {<<>>}
  BY <1>2 DEF Text
<1>4. script' = [script EXCEPT ![m] = [script[m] EXCEPT ![Len(script[m])] = t]]
  BY <1>1
<1>5. script' \in [Meetings -> Seq(Text) \ {<<>>}]
  BY <1>3, <1>4 DEF Mentions
<1>6. UNCHANGED <<ext, sent, w>>
  BY DEF EditText, loop, observed
<1>7. CallGood'
  BY <1>6 DEF Mentions, CallGood
<1> QED BY <1>5, <1>6, <1>7 DEF Mentions

LEMMA NewTranscriptMentions ==
  ASSUME Mentions, NEW m \in Meetings, NewTranscript(m) PROVE Mentions'
<1>1. PICK t \in Texts : script' = [script EXCEPT ![m] = Append(@, t)]
  BY DEF NewTranscript
<1>2. Append(script[m], t) \in Seq(Text) \ {<<>>}
  BY DEF Mentions, Text
<1>5. script' \in [Meetings -> Seq(Text) \ {<<>>}]
  BY <1>1, <1>2 DEF Mentions
<1>6. UNCHANGED <<ext, sent, w>>
  BY DEF NewTranscript, loop, observed
<1>7. CallGood'
  BY <1>6 DEF Mentions, CallGood
<1> QED BY <1>5, <1>6, <1>7 DEF Mentions

LEMMA RecoverClaimsMentions == ASSUME Mentions, RecoverClaims PROVE Mentions'
<1>1. w' = Idle /\ UNCHANGED <<script, sent>>
      /\ ext' = [m \in Meetings |-> IF ext[m] # None /\ ext[m].old
                   THEN [ext[m] EXCEPT !.state = "pending", !.old = FALSE] ELSE ext[m]]
  BY DEF RecoverClaims, loop, meetings, observed
<1>2. ASSUME NEW m \in Meetings, ext'[m] # None PROVE ExtGood(ext'[m], sent[m])
  <2>1. CASE ext[m] # None /\ ext[m].old
    <3>1. ExtGood(ext[m], sent[m])
      BY <2>1 DEF Mentions
    <3>2. ext[m] \in ExtRow /\ ext[m].state = "running"
      BY <2>1, <3>1 DEF ExtGood
    <3> DEFINE row == [ext[m] EXCEPT !.state = "pending", !.old = FALSE]
    <3>3. row \in ExtRow /\ row.text = ext[m].text /\ row.parts = ext[m].parts
          /\ row.done = ext[m].done /\ row.state = "pending" /\ ~row.old
      BY <3>2 DEF ExtRow
    <3>4. ExtGood(row, sent[m])
      <4> HIDE DEF row
      <4> QED BY <3>1, <3>2, <3>3, StateIsGood
    <3> QED BY <1>1, <2>1, <3>4
  <2>2. CASE ~(ext[m] # None /\ ext[m].old)
    BY <1>1, <1>2, <2>2 DEF Mentions
  <2> QED BY <2>1, <2>2
<1>3. ext' = [m \in Meetings |-> ext'[m]]
  BY <1>1
<1>4. CallGood'
  BY <1>1, IdleCall
<1> HIDE DEF ExtGood
<1> QED BY <1>1, <1>2, <1>3, <1>4 DEF Mentions

LEMMA SeedMentionsMentions == ASSUME Mentions, SeedMentions PROVE Mentions'
<1> DEFINE due == {m \in Spoken : project[m] # None /\ ext[m] = None
                                    /\ script[m][Len(script[m])] # <<>>}
<1>1. w' = Idle /\ UNCHANGED <<script, sent>>
      /\ ext' = [m \in Meetings |-> IF m \in due THEN NewExtraction(m) ELSE ext[m]]
  BY DEF SeedMentions, loop, meetings, observed
<1>2. ASSUME NEW m \in Meetings, ext'[m] # None PROVE ExtGood(ext'[m], sent[m])
  <2>1. CASE m \in due
    BY <1>1, <2>1, NewIsGood
  <2>2. CASE m \notin due
    BY <1>1, <1>2, <2>2 DEF Mentions
  <2> QED BY <2>1, <2>2
<1>3. ext' = [m \in Meetings |-> ext'[m]]
  BY <1>1
<1>4. CallGood'
  BY <1>1, IdleCall
<1> QED BY <1>1, <1>2, <1>3, <1>4 DEF Mentions

LEMMA ClaimMentionMentions ==
  ASSUME Mentions, NEW m \in Meetings, ClaimMention(m) PROVE Mentions'
<1> DEFINE row == [ext[m] EXCEPT !.state = "running"]
<1>1. ext' = [ext EXCEPT ![m] = row] /\ UNCHANGED <<script, sent>>
      /\ w' = [at |-> "claimed", m |-> m] /\ ext[m] # None /\ ext[m].state = "pending"
  BY DEF ClaimMention, DueMention, meetings, observed
<1>2. ExtGood(ext[m], sent[m])
  BY <1>1 DEF Mentions
<1>3. ext[m] \in ExtRow /\ ~ext[m].old
  BY <1>1, <1>2 DEF ExtGood, ExtRow
<1>4. row \in ExtRow /\ row.text = ext[m].text /\ row.parts = ext[m].parts
      /\ row.done = ext[m].done /\ row.state = "running" /\ ~row.old
  BY <1>3 DEF ExtRow
<1> HIDE DEF row
<1>5. ExtGood(row, sent[m])
  BY <1>1, <1>2, <1>4, StateIsGood
<1>6. ext'[m] = row /\ sent'[m] = sent[m]
  BY <1>1 DEF Mentions
<1>7. CallGood'
  BY <1>1, <1>4, <1>5, <1>6 DEF CallGood
<1> QED BY <1>1, <1>5, <1>7, RowWrittenOnly

LEMMA CallRow ==
  ASSUME Mentions, w.at \in {"claimed", "mention"}
  PROVE  /\ w.m \in Meetings /\ ExtGood(ext[w.m], sent[w.m]) /\ ext[w.m] \in ExtRow
         /\ ext[w.m].state = "running" /\ ~ext[w.m].old
BY DEF Mentions, CallGood, ExtGood

(* A part beyond the last ends the transcript; every part of it was sent.  *)
LEMMA FinishedIsGood ==
  ASSUME NEW row, NEW lines, ExtGood(row, lines), row.state # "done", row.text # <<>>,
         row.done >= Len(Layout(row.text, row.parts)), ~row.old
  PROVE  ExtGood([row EXCEPT !.state = "done", !.parts = Len(Layout(row.text, row.parts)),
                             !.done = Len(Layout(row.text, row.parts))], lines)
<1> DEFINE n == Len(Layout(row.text, row.parts))
           other == [row EXCEPT !.state = "done", !.parts = n, !.done = n]
<1>1. row \in ExtRow /\ row.done <= row.parts /\ Steps(row.text, row.parts) # {}
      /\ row.text \in Text /\ row.parts \in 1 .. MaxParts /\ MaxParts \in Nat /\ row.done \in Nat
  BY LinksAssumption DEF ExtGood, ExtRow
<1>2. n \in Nat /\ row.parts <= n /\ Layout(row.text, n) = Layout(row.text, row.parts)
  BY <1>1, LayoutStays
<1>3. n = row.parts /\ n = row.done
  BY <1>1, <1>2
<1>4. other \in ExtRow /\ other.text = row.text /\ other.parts = n /\ other.done = n
      /\ other.state = "done" /\ ~other.old
  BY <1>1, <1>2, <1>3 DEF ExtRow
<1>5. PartsOf(Layout(row.text, row.parts), Len(row.text))
  BY <1>1, LayoutIs
<1>6. \A i \in DOMAIN Layout(row.text, row.parts) : i <= row.done
  BY <1>3, <1>5 DEF PartsOf
<1>7. \A i \in DOMAIN Layout(row.text, row.parts) :
         Lines(Layout(row.text, row.parts)[i]) \subseteq lines
  BY <1>6 DEF ExtGood
<1>8. ExtGood(other, lines)
  <2> HIDE DEF other
  <2> QED BY <1>2, <1>3, <1>4, <1>7 DEF ExtGood
<1> QED BY <1>8

LEMMA RowIn ==
  ASSUME NEW row \in ExtRow, NEW attempts \in Nat,
         NEW state \in {"pending", "running", "failed"}
  PROVE  LET other == [row EXCEPT !.state = state, !.attempts = attempts] IN
         /\ other \in ExtRow /\ other.text = row.text /\ other.parts = row.parts
         /\ other.done = row.done /\ other.old = row.old /\ other.state = state
BY DEF ExtRow

LEMMA ReadPartMentions == ASSUME Mentions, ReadPart PROVE Mentions'
<1> DEFINE m == w.m
           text == script[m][Len(script[m])]
           changed == script[m][ext[m].version] # ext[m].text \/ ext[m].text = <<>>
           new == [NewExtraction(m) EXCEPT !.state = "running", !.attempts = ext[m].attempts]
           row == IF changed THEN new ELSE ext[m]
           ranges == Layout(row.text, row.parts)
           over == [row EXCEPT !.state = "done", !.parts = Len(ranges), !.done = Len(ranges)]
           empty == [ext[m] EXCEPT !.state = "done"]
<1>0. w.at = "claimed" /\ m \in Meetings /\ UNCHANGED script
  BY CallRow DEF ReadPart, meetings
<1>1. ExtGood(ext[m], sent[m]) /\ ext[m] \in ExtRow /\ ext[m].state = "running" /\ ~ext[m].old
  BY <1>0, CallRow
<1>2. IF changed /\ row.text = <<>> THEN FinishEmpty(m)
      ELSE IF row.done >= Len(ranges)
      THEN ext' = [ext EXCEPT ![m] = over] /\ w' = Idle /\ UNCHANGED sent
      ELSE /\ ext' = [ext EXCEPT ![m] = row]
           /\ sent' = IF changed THEN [sent EXCEPT ![m] = {}] ELSE sent
           /\ w' = [at |-> "mention", m |-> m, ranges |-> ranges]
  BY DEF ReadPart, EndWith
<1>3. CASE changed /\ row.text = <<>>
  <2>1. ext' = [ext EXCEPT ![m] = empty] /\ sent' = [sent EXCEPT ![m] = 1 .. Len(ext[m].text)]
        /\ w' = Idle
    BY <1>2, <1>3 DEF FinishEmpty, EndWith
  <2>2. empty \in ExtRow /\ empty.text = ext[m].text /\ empty.parts = ext[m].parts
        /\ empty.done = ext[m].done /\ empty.state = "done" /\ ~empty.old
    BY <1>1 DEF ExtRow
  <2>3. ext[m].text \in Text /\ ext[m].parts \in Nat
    BY <1>1, LinksAssumption DEF ExtRow
  <2> HIDE DEF empty
  <2>4. \A i \in DOMAIN Layout(ext[m].text, ext[m].parts) :
           Lines(Layout(ext[m].text, ext[m].parts)[i]) \subseteq 1 .. Len(ext[m].text)
    BY <2>3, LayoutIs, PartsWithin, TextIs
  <2>5. ExtGood(empty, 1 .. Len(ext[m].text))
    BY <1>1, <2>2, <2>4 DEF ExtGood
  <2> QED BY <1>0, <2>1, <2>5, IdleCall, RowWritten
<1>4. CASE ~(changed /\ row.text = <<>>) /\ changed
  <2>1. new.text = NewExtraction(m).text /\ NewExtraction(m).text = text
        /\ NewExtraction(m) = [state |-> "pending", version |-> Len(script[m]), text |-> text,
             parts |-> Max({1, Len(SplitParts(text))}), done |-> 0, attempts |-> 0, old |-> FALSE]
    BY DEF NewExtraction
  <2>2. text # <<>>
    BY <1>4, <2>1
  <2>3. \A lines : ExtGood(NewExtraction(m), lines)
    BY <1>0, <2>2, NewIsGood
  <2>4. NewExtraction(m) \in ExtRow
    BY <2>3 DEF ExtGood
  <2>5. new \in ExtRow /\ new.text = text /\ new.parts = NewExtraction(m).parts
        /\ new.done = 0 /\ NewExtraction(m).done = 0 /\ new.state = "running" /\ ~new.old
        /\ NewExtraction(m).state = "pending"
    <3>1. NewExtraction(m).done = 0 /\ NewExtraction(m).state = "pending"
          /\ NewExtraction(m).old = FALSE
      BY <2>1
    <3>2. ext[m].attempts \in Nat
      BY <1>1 DEF ExtRow
    <3> QED BY <2>1, <2>4, <3>1, <3>2, RowIn
  <2>6. row = new
    BY <1>4
  <2>7. \A lines : ExtGood(new, lines)
    <3> HIDE DEF new
    <3> QED BY <2>1, <2>3, <2>5, StateIsGood
  <2>8. new.text \in Text /\ new.parts \in Nat /\ new.text # <<>>
    <3> HIDE DEF new, text
    <3> QED BY <2>2, <2>5, LinksAssumption DEF ExtRow
  <2>9. Len(ranges) \in Nat /\ Len(ranges) > 0
    <3> HIDE DEF new
    <3>1. PartsOf(ranges, Len(new.text)) /\ ranges # <<>>
      BY <2>6, <2>8, LayoutIs
    <3> HIDE DEF ranges
    <3> QED BY <3>1 DEF PartsOf
  <2>10. /\ ext' = [ext EXCEPT ![m] = new] /\ sent' = [sent EXCEPT ![m] = {}]
         /\ w' = [at |-> "mention", m |-> m, ranges |-> ranges]
    <3>1. row.done = 0
      BY <2>5, <2>6
    <3> HIDE DEF row, ranges, new, over
    <3> QED BY <1>2, <1>4, <2>6, <2>9, <3>1
  <2>11. CallGood'
    <3>1. ext'[m] = new /\ sent'[m] = {}
      BY <1>0, <2>10 DEF Mentions
    <3>2. w'.at = "mention" /\ w'.m = m /\ w'.ranges = Layout(new.text, new.parts)
      BY <2>6, <2>10
    <3>3. new.state = "running" /\ ~new.old /\ new.text # <<>> /\ new.done < Len(w'.ranges)
      BY <2>2, <2>5, <2>6, <2>9, <3>2
    <3> HIDE DEF new, m
    <3> QED BY <1>0, <2>7, <3>1, <3>2, <3>3 DEF CallGood
  <2> HIDE DEF new
  <2> QED BY <1>0, <2>7, <2>10, <2>11, RowWritten
<1>5. CASE ~changed
  <2>1. row = ext[m] /\ ext[m].text # <<>>
    BY <1>5
  <2>2. CASE row.done >= Len(ranges)
    <3>1. ext' = [ext EXCEPT ![m] = over] /\ w' = Idle /\ UNCHANGED sent
      BY <1>2, <1>5, <2>2
    <3>2. ExtGood(over, sent[m])
      <4>1. row.state = "running" /\ row.text # <<>> /\ ~row.old /\ ExtGood(row, sent[m])
        BY <1>1, <2>1
      <4> HIDE DEF row
      <4> QED BY <2>2, <4>1, FinishedIsGood
    <3> HIDE DEF over
    <3> QED BY <1>0, <3>1, <3>2, IdleCall, RowWrittenOnly
  <2>3. CASE ~(row.done >= Len(ranges))
    <3>1. ext' = [ext EXCEPT ![m] = ext[m]] /\ w' = [at |-> "mention", m |-> m, ranges |-> ranges]
          /\ UNCHANGED sent
      BY <1>2, <1>5, <2>1, <2>3
    <3>2. ext'[m] = ext[m] /\ sent'[m] = sent[m]
      BY <1>0, <3>1 DEF Mentions
    <3>3. ext[m].text \in Text /\ ext[m].parts \in Nat /\ ext[m].done \in Nat
      BY <1>1, LinksAssumption DEF ExtRow
    <3>4. Len(ranges) \in Nat
      BY <2>1, <3>3, LayoutIs DEF PartsOf
    <3>5. w'.at = "mention" /\ w'.m = m /\ w'.ranges = Layout(ext[m].text, ext[m].parts)
          /\ ext[m].done < Len(w'.ranges)
      <4>1. ranges = Layout(ext[m].text, ext[m].parts) /\ row.done = ext[m].done
        BY <2>1
      <4>2. w'.at = "mention" /\ w'.m = m /\ w'.ranges = ranges
        BY <3>1
      <4> HIDE DEF m, ranges, row
      <4> QED BY <2>3, <3>3, <3>4, <4>1, <4>2
    <3>6. CallGood'
      <4> HIDE DEF m
      <4> QED BY <1>0, <1>1, <2>1, <3>2, <3>5 DEF CallGood
    <3> QED BY <1>0, <1>1, <3>1, <3>6, RowWrittenOnly
  <2> QED BY <2>2, <2>3
<1> QED BY <1>3, <1>4, <1>5

(* One more part of the transcript was sent.                               *)
LEMMA AdvancedIsGood ==
  ASSUME Mentions, w.at = "mention"
  PROVE  ExtGood(Advanced(w.m, Len(w.ranges)), sent[w.m] \cup Lines(Part))
<1> DEFINE m == w.m  row == ext[m]  n == Len(w.ranges)  other == Advanced(m, n)
           lines == sent[m] \cup Lines(Part)
<1>1. m \in Meetings /\ ExtGood(row, sent[m]) /\ row \in ExtRow /\ row.state = "running"
      /\ ~row.old
  BY CallRow
<1>2. row.text # <<>> /\ w.ranges = Layout(row.text, row.parts) /\ row.done < n
  BY DEF Mentions, CallGood
<1>3. row.text \in Text /\ row.parts \in 1 .. MaxParts /\ row.done \in Nat /\ MaxParts \in Nat
      /\ row.done <= row.parts /\ Steps(row.text, row.parts) # {}
  BY <1>1, <1>2, LinksAssumption DEF ExtRow, ExtGood
<1>4. n \in Nat /\ row.parts <= n /\ Steps(row.text, n) # {} /\ Layout(row.text, n) = w.ranges
  BY <1>2, <1>3, LayoutStays
<1>5. n <= MaxParts /\ DOMAIN w.ranges = 1 .. n
  BY <1>2, <1>3, LayoutIs DEF PartsOf
<1>6. Lesser(row.done + 1, n) = row.done + 1
  BY <1>2, <1>3, <1>4, LesserIs
<1>7. other = [row EXCEPT !.state = IF row.done + 1 >= n THEN "done" ELSE "pending",
                          !.parts = n, !.done = row.done + 1]
  BY <1>6 DEF Advanced
<1>8. other \in ExtRow /\ other.text = row.text /\ other.parts = n /\ other.done = row.done + 1
      /\ ~other.old /\ other.state = (IF row.done + 1 >= n THEN "done" ELSE "pending")
  <2>1. n \in 1 .. MaxParts /\ row.done + 1 \in Nat
    BY <1>2, <1>3, <1>4, <1>5
  <2> HIDE DEF n, m, row, other
  <2> QED BY <1>1, <1>7, <2>1 DEF ExtRow
<1>9. \A i \in 1 .. row.done : Lines(w.ranges[i]) \subseteq sent[m]
  <2>1. \A i \in 1 .. row.done : i \in DOMAIN Layout(row.text, row.parts) /\ i <= row.done
    BY <1>2, <1>3, <1>4, <1>5
  <2> HIDE DEF m, row
  <2> QED BY <1>1, <1>2, <2>1 DEF ExtGood
<1>10. Part = w.ranges[row.done + 1]
  BY DEF Part
<1>11. ASSUME NEW i \in DOMAIN w.ranges, i <= other.done \/ other.state = "done"
       PROVE  Lines(w.ranges[i]) \subseteq lines
  <2>1. i \in 1 .. n /\ i <= row.done + 1
    <3> HIDE DEF n, m, row, other
    <3> QED BY <1>2, <1>3, <1>4, <1>5, <1>8, <1>11
  <2>2. i \in 1 .. row.done \/ i = row.done + 1
    <3> HIDE DEF n, m, row, other
    <3> QED BY <1>3, <1>4, <2>1
  <2> HIDE DEF m, row
  <2> QED BY <1>9, <1>10, <2>2
<1>12. other.done <= other.parts
  <2> HIDE DEF n, m, row, other
  <2> QED BY <1>2, <1>3, <1>4, <1>8
<1> HIDE DEF n, m, row, other, lines
<1>13. ExtGood(other, lines)
  BY <1>4, <1>8, <1>11, <1>12 DEF ExtGood
<1> QED BY <1>13 DEF n, m, row, other, lines

LEMMA AnsweredMentions ==
  ASSUME Mentions, w.at = "mention", script' = script, w' = Idle,
         EndWith(w.m, Advanced(w.m, Len(w.ranges))), Answered
  PROVE  Mentions'
<1>1. w.m \in Meetings
  BY CallRow
<1>2. sent' = [sent EXCEPT ![w.m] = sent[w.m] \cup Lines(Part)]
  BY DEF Answered
<1>3. ext' = [ext EXCEPT ![w.m] = Advanced(w.m, Len(w.ranges))]
  BY DEF EndWith
<1> QED BY <1>1, <1>2, <1>3, AdvancedIsGood, IdleCall, RowWritten

(* What lies within the lines that were sent counts in the finer layout.   *)
LEMMA SplitMentions ==
  ASSUME Mentions, w.at = "mention", script' = script, w' = Idle, UNCHANGED sent,
         Finer(ext[w.m].text, Len(w.ranges)) # <<>>,
         Split(w.m, w.ranges, Finer(ext[w.m].text, Len(w.ranges)))
  PROVE  Mentions'
<1> DEFINE m == w.m  row == ext[m]  finer == Finer(row.text, Len(w.ranges))  k == Len(finer)
           upto == IF row.done = 0 THEN 0 ELSE w.ranges[row.done][2]
           other == [row EXCEPT !.state = "pending", !.parts = k,
                                !.done = EndWithin(finer, upto)]
<1>1. m \in Meetings /\ ExtGood(row, sent[m]) /\ row \in ExtRow /\ row.state = "running"
      /\ ~row.old
  BY CallRow
<1>2. row.text # <<>> /\ w.ranges = Layout(row.text, row.parts) /\ row.done < Len(w.ranges)
  BY DEF Mentions, CallGood
<1>3. row.text \in Text /\ row.parts \in Nat /\ row.done \in Nat
  BY <1>1, LinksAssumption DEF ExtRow
<1>4. PartsOf(w.ranges, Len(row.text)) /\ Len(w.ranges) \in Nat /\ Len(row.text) \in Nat
  <2>1. PartsOf(w.ranges, Len(row.text)) /\ Len(row.text) \in Nat
    BY <1>2, <1>3, LayoutIs, TextIs
  <2> QED BY <2>1 DEF PartsOf
<1>5. PartsOf(finer, Len(row.text)) /\ k \in 1 .. MaxParts /\ Steps(row.text, k) # {}
      /\ Layout(row.text, k) = finer
  BY <1>3, <1>4, FinerIs
<1>6. row.done \in 0 .. Len(w.ranges)
  <2> HIDE DEF row
  <2> QED BY <1>2, <1>3, <1>4
<1>7. \A i \in 1 .. row.done : Lines(w.ranges[i]) \subseteq sent[m]
  <2>1. DOMAIN w.ranges = 1 .. Len(w.ranges)
    BY <1>4 DEF PartsOf
  <2> HIDE DEF m, row
  <2>2. \A i \in 1 .. row.done : i \in DOMAIN Layout(row.text, row.parts) /\ i <= row.done
    BY <1>2, <1>4, <1>6, <2>1
  <2> QED BY <1>1, <1>2, <2>2 DEF ExtGood
<1>8. 1 .. upto \subseteq sent[m]
  <2> HIDE DEF m, row
  <2> QED BY <1>4, <1>6, <1>7, CoverIs
<1>9. upto \in Nat
  <2>1. row.done # 0 => row.done \in 1 .. Len(w.ranges)
    <3> HIDE DEF row
    <3> QED BY <1>4, <1>6
  <2> HIDE DEF row
  <2> QED BY <1>4, <2>1 DEF PartsOf
<1> HIDE DEF upto
<1>10. EndWithin(finer, upto) \in 0 .. k
       /\ \A i \in 1 .. EndWithin(finer, upto) : finer[i][2] <= upto
  <2> HIDE DEF m, row, finer
  <2> QED BY <1>4, <1>5, <1>9, WithinIs
<1>11. ASSUME NEW i \in DOMAIN finer, i <= EndWithin(finer, upto)
       PROVE  Lines(finer[i]) \subseteq sent[m]
  <2>1. DOMAIN finer = 1 .. k /\ k \in Nat
    <3> HIDE DEF finer
    <3> QED BY <1>5 DEF PartsOf
  <2>2. i \in 1 .. k /\ i \in 1 .. EndWithin(finer, upto)
    <3> HIDE DEF finer, k
    <3> QED BY <1>10, <1>11, <2>1
  <2>3. finer[i][2] <= upto /\ finer[i][1] \in Nat /\ finer[i][1] > 0 /\ finer[i][2] \in Nat
    <3> HIDE DEF finer
    <3> QED BY <1>5, <1>10, <2>1, <2>2 DEF PartsOf
  <2>4. finer[i][1] .. finer[i][2] \subseteq 1 .. upto
    <3> HIDE DEF finer
    <3> QED BY <1>9, <2>3
  <2> QED BY <1>8, <2>4 DEF Lines
<1>12. other \in ExtRow /\ other.text = row.text /\ other.parts = k /\ ~other.old
       /\ other.done = EndWithin(finer, upto) /\ other.state = "pending"
  <2>1. EndWithin(finer, upto) \in Nat
    BY <1>10
  <2> HIDE DEF m, row, k, finer
  <2> QED BY <1>1, <1>5, <2>1 DEF ExtRow
<1>13. other.done <= other.parts
  <2>1. k \in Nat
    BY <1>5, LinksAssumption
  <2> HIDE DEF m, row, k, finer, other
  <2> QED BY <1>10, <1>12, <2>1
<1>14. ext' = [ext EXCEPT ![m] = other]
  BY DEF Split, EndWith, upto
<1> HIDE DEF row, k, finer, other
<1>15. ExtGood(other, sent[m])
  BY <1>5, <1>11, <1>12, <1>13 DEF ExtGood
<1> HIDE DEF m
<1> QED BY <1>1, <1>14, <1>15, IdleCall, RowWrittenOnly

LEMMA PartAnsweredMentions == ASSUME Mentions, PartAnswered PROVE Mentions'
BY AnsweredMentions DEF PartAnswered, meetings

LEMMA PartCutOffMentions == ASSUME Mentions, PartCutOff PROVE Mentions'
<1>1. w.at = "mention" /\ script' = script /\ w' = Idle
  BY DEF PartCutOff, meetings
<1> QED BY <1>1, AnsweredMentions, SplitMentions DEF PartCutOff

LEMMA FailedIsGood ==
  ASSUME NEW row, NEW lines, ExtGood(row, lines), row.state = "running", ~row.old
  PROVE  ExtGood(FailedExtraction(row), lines)
<1> DEFINE state == IF row.attempts + 1 >= MaxAttempts THEN "failed" ELSE "pending"
           other == [row EXCEPT !.state = state, !.attempts = row.attempts + 1]
<1>1. row \in ExtRow
  BY DEF ExtGood
<1>3. FailedExtraction(row) = other
  BY DEF FailedExtraction, AfterFailure
<1>4. state \in {"failed", "pending"}
  OBVIOUS
<1> HIDE DEF state
<1>2. other \in ExtRow /\ other.text = row.text /\ other.parts = row.parts
      /\ other.done = row.done /\ other.state = state /\ ~other.old
  <2> DEFINE n == row.attempts + 1
  <2>1. n \in Nat /\ ~row.old
    BY <1>1 DEF ExtRow
  <2>2. other = [row EXCEPT !.state = state, !.attempts = n]
    OBVIOUS
  <2> HIDE DEF n, other
  <2> QED BY <1>1, <1>4, <2>1, <2>2 DEF ExtRow
<1> HIDE DEF other
<1> QED BY <1>2, <1>3, <1>4, StateIsGood

LEMMA BadReplyMentions == ASSUME Mentions, BadReply PROVE Mentions'
<1>1. w.at \in {"mention", "pairs"} /\ FailWork /\ w' = Idle /\ UNCHANGED <<script, sent>>
  BY DEF BadReply, meetings, observed
<1>2. CASE w.at = "mention"
  <2>1. ext' = [ext EXCEPT ![w.m] = FailedExtraction(ext[w.m])]
    BY <1>1, <1>2 DEF FailWork, EndWith
  <2>2. w.m \in Meetings /\ ExtGood(FailedExtraction(ext[w.m]), sent[w.m])
    BY <1>2, CallRow, FailedIsGood
  <2> QED BY <1>1, <2>1, <2>2, IdleCall, RowWrittenOnly
<1>3. CASE w.at # "mention"
  <2>1. UNCHANGED ext
    BY <1>1, <1>3 DEF FailWork
  <2> QED BY <1>1, <2>1, MentionsKept DEF Idle
<1> QED BY <1>2, <1>3

LEMMA CallErrorMentions == ASSUME Mentions, CallError PROVE Mentions'
<1>1. w.at \in {"mention", "pairs"} /\ Release /\ w' = Idle /\ UNCHANGED <<script, sent>>
  BY DEF CallError, meetings, observed
<1>2. CASE w.at = "mention"
  <2> DEFINE row == ext[w.m]  other == [row EXCEPT !.state = "pending"]
  <2>1. ext' = [ext EXCEPT ![w.m] = other]
    BY <1>1, <1>2 DEF Release, EndWith
  <2>2. w.m \in Meetings /\ ExtGood(row, sent[w.m]) /\ row \in ExtRow /\ ~row.old
        /\ row.state = "running"
    BY <1>2, CallRow
  <2>3. other \in ExtRow /\ other.text = row.text /\ other.parts = row.parts
        /\ other.done = row.done /\ other.state = "pending" /\ ~other.old
    BY <2>2 DEF ExtRow
  <2> HIDE DEF row, other
  <2>4. ExtGood(other, sent[w.m])
    BY <2>2, <2>3, StateIsGood
  <2> QED BY <1>1, <2>1, <2>2, <2>4, IdleCall, RowWrittenOnly
<1>3. CASE w.at # "mention"
  <2>1. UNCHANGED ext
    BY <1>1, <1>3 DEF Release
  <2> QED BY <1>1, <2>1, MentionsKept DEF Idle
<1> QED BY <1>2, <1>3

LEMMA ClaimAgesMentions ==
  ASSUME Mentions, NEW m \in Meetings, ClaimAges(m) PROVE Mentions'
<1>1. HeldByDead(m) /\ UNCHANGED <<script, sent, w>>
  BY DEF ClaimAges, meetings, observed, loop
<1>2. CASE UNCHANGED ext
  BY <1>1, <1>2, MentionsKept
<1>3. CASE /\ ext[m] # None /\ ext[m].state = "running" /\ ~ext[m].old
           /\ ext' = [ext EXCEPT ![m].old = TRUE]
  <2> DEFINE row == ext[m]  other == [row EXCEPT !.old = TRUE]
  <2>1. ext' = [ext EXCEPT ![m] = other]
    BY <1>3
  <2>2. ExtGood(row, sent[m]) /\ row \in ExtRow /\ row.state = "running"
    BY <1>3 DEF Mentions, ExtGood
  <2>3. other \in ExtRow /\ other.text = row.text /\ other.parts = row.parts
        /\ other.done = row.done /\ other.state = "running"
    BY <2>2 DEF ExtRow
  <2>4. CallGood'
    <3> HIDE DEF other
    <3>1. ASSUME w.at \in {"claimed", "mention"}
          PROVE  w.m # m /\ ext'[w.m] = ext[w.m]
      BY <1>1, <2>1, <3>1, CallRow DEF HeldByDead, Mentions
    <3> QED BY <1>1, <3>1 DEF Mentions, CallGood
  <2> HIDE DEF row, other
  <2>5. ExtGood(other, sent[m])
    BY <2>2, <2>3, StateIsGood
  <2> QED BY <1>1, <2>1, <2>4, <2>5, RowWrittenOnly
<1> QED BY <1>2, <1>3 DEF ClaimAges

LEMMA RetryLinksMentions == ASSUME Mentions, RetryLinks PROVE Mentions'
<1>1. UNCHANGED <<script, sent, w>>
      /\ ext' = [m \in Meetings |-> IF ext[m] # None /\ ext[m].state = "failed"
                   THEN [ext[m] EXCEPT !.state = "pending", !.attempts = 0] ELSE ext[m]]
  BY DEF RetryLinks, loop, meetings, observed
<1>2. ASSUME NEW m \in Meetings, ext'[m] # None PROVE ExtGood(ext'[m], sent[m])
  <2>1. CASE ext[m] # None /\ ext[m].state = "failed"
    <3>1. ExtGood(ext[m], sent[m])
      BY <2>1 DEF Mentions
    <3>2. ext[m] \in ExtRow /\ ~ext[m].old
      BY <2>1, <3>1 DEF ExtGood, ExtRow
    <3> DEFINE row == [ext[m] EXCEPT !.state = "pending", !.attempts = 0]
    <3>3. row \in ExtRow /\ row.text = ext[m].text /\ row.parts = ext[m].parts
          /\ row.done = ext[m].done /\ row.state = "pending" /\ ~row.old
      BY <3>2 DEF ExtRow
    <3>4. ExtGood(row, sent[m])
      <4> HIDE DEF row
      <4> QED BY <2>1, <3>1, <3>3, StateIsGood
    <3> QED BY <1>1, <2>1, <3>4
  <2>2. CASE ~(ext[m] # None /\ ext[m].state = "failed")
    BY <1>1, <1>2, <2>2 DEF Mentions
  <2> QED BY <2>1, <2>2
<1>3. ext' = [m \in Meetings |-> ext'[m]]
  BY <1>1
<1>4. CallGood'
  <2>1. ASSUME w.at \in {"claimed", "mention"} PROVE ext'[w.m] = ext[w.m] /\ w.m \in Meetings
    BY <1>1, <2>1, CallRow
  <2> QED BY <1>1, <2>1 DEF Mentions, CallGood
<1> HIDE DEF ExtGood
<1> QED BY <1>1, <1>2, <1>3, <1>4 DEF Mentions

LEMMA ResolveMentions == ASSUME Mentions, NEW m \in Meetings, Resolve(m) PROVE Mentions'
<1> DEFINE fresh == NewExtraction(m)  row == ext[m]
           found == [row EXCEPT !.version = fresh.version, !.text = fresh.text]
           text == script[m][Len(script[m])]
<1>1. row # None /\ row.state = "done" /\ fresh.text # <<>> /\ UNCHANGED <<script, w>>
  BY DEF Resolve, meetings, loop
<1>2. \/ ext' = [ext EXCEPT ![m] = fresh] /\ sent' = [sent EXCEPT ![m] = {}]
      \/ /\ ext' = [ext EXCEPT ![m] = found]
         /\ sent' = [sent EXCEPT ![m] = 1 .. Len(fresh.text)]
  BY DEF Resolve, EndWith
<1>3. ExtGood(row, sent[m]) /\ row \in ExtRow
  BY <1>1 DEF Mentions, ExtGood
<1>4. CallGood'
  <2>1. ASSUME w.at \in {"claimed", "mention"}
        PROVE  ext'[w.m] = ext[w.m] /\ sent'[w.m] = sent[w.m] /\ w.m # m
    <3>1. w.m # m
      BY <1>1, <2>1, CallRow
    <3> HIDE DEF fresh, found
    <3> QED BY <1>2, <2>1, <3>1, CallRow DEF Mentions
  <2> QED BY <1>1, <2>1 DEF Mentions, CallGood
<1>5. fresh.text = text /\ fresh.version = Len(script[m]) /\ fresh.version \in Nat /\ text \in Text
  <2>1. text \in Text /\ Len(script[m]) \in Nat
    BY DEF Mentions
  <2> QED BY <2>1 DEF NewExtraction
<1>6. \A lines : ExtGood(fresh, lines)
  BY <1>1, <1>5, NewIsGood
<1> HIDE DEF fresh
<1>7. found \in ExtRow /\ found.text = text /\ found.parts = row.parts /\ found.state = "done"
      /\ found.done = row.done /\ ~found.old
  <2>1. ~row.old /\ row.state = "done"
    BY <1>1, <1>3 DEF ExtGood, ExtRow
  <2> HIDE DEF text, row
  <2> QED BY <1>3, <1>5, <2>1 DEF ExtRow
<1>8. ExtGood(found, 1 .. Len(text))
  <2>1. row.parts \in Nat /\ row.done <= row.parts
    BY <1>3, LinksAssumption DEF ExtRow, ExtGood
  <2> HIDE DEF found, text, row
  <2>2. \A i \in DOMAIN Layout(text, row.parts) :
           Lines(Layout(text, row.parts)[i]) \subseteq 1 .. Len(text)
    BY <1>5, <2>1, LayoutIs, PartsWithin, TextIs
  <2> QED BY <1>7, <2>1, <2>2 DEF ExtGood
<1> HIDE DEF found, text, row
<1> QED BY <1>1, <1>2, <1>4, <1>5, <1>6, <1>8, RowWritten

LEMMA MentionsNext == ASSUME LinksInv, [LinksNext]_linksVars PROVE Mentions'
<1> USE DEF LinksInv
<1>1. CASE UNCHANGED linksVars
  BY <1>1, MentionsKept DEF linksVars, meetings, loop, observed
<1>2. CASE LinksNext
  <2>1. ASSUME NEW m \in Meetings,
               Publish(m) \/ MoveMeeting(m) \/ Ingest(m) \/ RetryDue(m)
        PROVE  Mentions'
    BY <2>1, MentionsKept DEF Publish, MoveMeeting, Ingest, RetryDue, meetings, loop, observed
  <2>2. ASSUME NEW m \in Meetings,
               EditText(m) \/ NewTranscript(m) \/ ClaimAges(m) \/ Resolve(m) \/ ClaimMention(m)
        PROVE  Mentions'
    BY <2>2, EditTextMentions, NewTranscriptMentions, ClaimAgesMentions, ResolveMentions,
       ClaimMentionMentions
  <2>3. ASSUME NEW m \in Meetings, LookPair(m) PROVE Mentions'
    BY <2>3, MentionsKept DEF LookPair, meetings, observed
  <2>4. CASE NextDay \/ BackoffEnds \/ KeyChanges
    BY <2>4, MentionsKept DEF NextDay, BackoffEnds, KeyChanges, meetings, observed
  <2>5. CASE PlanPair \/ ClosePair \/ PairAnswered \/ ProcessDies
    BY <2>5, MentionsKept DEF PlanPair, ClosePair, PairAnswered, ProcessDies, meetings, observed, Idle
  <2>6. CASE ClaimPair
    <3>1. UNCHANGED <<script, ext, sent>> /\ (w' = [w EXCEPT !.at = "pairs"] \/ w' = Idle)
          /\ w.at = "plan"
      BY <2>6 DEF ClaimPair, meetings, observed
    <3>2. w \in PairJob
      BY <3>1 DEF Pairs, PlanGood
    <3>3. w'.at \in {"pairs", "idle"}
      BY <3>1, <3>2 DEF PairJob, Idle
    <3> QED BY <3>1, <3>3, MentionsKept
  <2> QED BY <1>2, <2>1, <2>2, <2>3, <2>4, <2>5, <2>6, RecoverClaimsMentions,
             SeedMentionsMentions, ReadPartMentions, PartAnsweredMentions, PartCutOffMentions,
             BadReplyMentions, CallErrorMentions, RetryLinksMentions DEF LinksNext, Tick
<1> QED BY <1>1, <1>2

-----------------------------------------------------------------------------
(* Decisions compared.                                                     *)

LEMMA Numbers ==
  /\ MaxAttempts \in Nat \ {0} /\ DailyCalls \in Nat \ {0} /\ MaxEvents \in Nat
  /\ Home \in Projects /\ Sections \subseteq Nat
BY LinksAssumption

LEMMA PairsInit == LinksInit => Pairs
<1> SUFFICES ASSUME LinksInit PROVE Pairs
  OBVIOUS
<1>1. /\ project = [m \in Meetings |-> Home] /\ minutes = [m \in Meetings |-> <<1, 1>>]
      /\ scan = [m \in Meetings |-> Unscanned] /\ w = Idle /\ hold = "none" /\ used = 0
      /\ events = 0
  BY DEF LinksInit
<1>2. project \in [Meetings -> Projects \cup {None}] /\ minutes \in [Meetings -> (Nat \ {0}) \X Nat]
  BY <1>1, Numbers
<1>3. \A m \in Meetings : ScanGood(scan[m], minutes[m]) /\ scan[m].pair = "idle"
  <2>1. Unscanned \in ScanRow
    BY Numbers DEF Unscanned, ScanRow
  <2>2. \A m \in Meetings : scan[m] = Unscanned /\ minutes[m] = <<1, 1>>
    BY <1>1
  <2>3. ScanGood(Unscanned, <<1, 1>>)
    BY <2>1 DEF ScanGood, Unscanned
  <2> QED BY <2>2, <2>3 DEF Unscanned
<1>4. PairsGood
  BY <1>3 DEF PairsGood, IsDone
<1>5. PlanGood
  BY <1>1 DEF PlanGood, Idle
<1>6. used \in 0 .. DailyCalls /\ events \in 0 .. MaxEvents
  BY <1>1, Numbers
<1> QED BY <1>1, <1>2, <1>3, <1>4, <1>5, <1>6 DEF Pairs

\* Happenings are counted.
LEMMA Counted == ASSUME Pairs, Happens PROVE events' \in 0 .. MaxEvents
BY Numbers DEF Pairs, Happens

\* A step that leaves the ledger and the comparisons alone, and plans none.
LEMMA PairsKept ==
  ASSUME Pairs, UNCHANGED <<minutes, scan, compared, missed>>,
         project' \in [Meetings -> Projects \cup {None}],
         hold' \in {"none", "paused", "backoff"}, used' \in 0 .. DailyCalls,
         events' \in 0 .. MaxEvents,
         (w' = w /\ used' <= used) \/ w'.at \notin {"row", "plan", "pairs"}
  PROVE  Pairs'
<1>1. PairsGood'
  BY DEF Pairs, PairsGood, IsDone
<1>2. PlanGood'
  <2>1. CASE w' = w /\ used' <= used
    <3>1. w.at \in {"row", "plan", "pairs"} /\ w.at # "pairs" /\ w.may => used' < DailyCalls
      BY <2>1, Numbers DEF Pairs, PlanGood
    <3> QED BY <2>1, <3>1 DEF Pairs, PlanGood, Planned, IsDone
  <2> QED BY <2>1 DEF PlanGood
<1> HIDE DEF ScanGood
<1> QED BY <1>1, <1>2 DEF Pairs

(* No row is done that was not, with other decisions or in another project.*)
SameDone ==
    \A m \in Meetings :
        IsDone(m)' => IsDone(m) /\ scan[m].section = scan'[m].section
                                /\ scan[m].project = scan'[m].project

\* Rows of the ledger change, none becomes done, and a plan under way stays good.
LEMMA RowsChange ==
  ASSUME Pairs, UNCHANGED <<project, minutes, compared, missed>>,
         scan' = [m \in Meetings |-> scan'[m]],
         \A m \in Meetings : ScanGood(scan'[m], minutes[m]), SameDone,
         \A m \in Meetings : /\ scan'[m].version = scan[m].version
                             /\ scan'[m].section = scan[m].section
                             /\ w.at = "pairs" /\ w.m = m => ~scan'[m].old,
         hold' \in {"none", "paused", "backoff"}, used' \in 0 .. DailyCalls,
         events' \in 0 .. MaxEvents,
         (w' = w /\ used' <= used) \/ w'.at \notin {"row", "plan", "pairs"}
  PROVE  Pairs'
<1>1. PairsGood'
  BY DEF Pairs, PairsGood, SameDone
<1>2. PlanGood'
  <2>1. CASE w' = w /\ used' <= used /\ w.at \in {"row", "plan", "pairs"}
    <3>1. w \in PairJob /\ w.m \in Meetings /\ w.version <= scan[w.m].version
      BY <2>1 DEF Pairs, PlanGood, PairJob
    <3>2. w.at # "pairs" /\ w.may => used' < DailyCalls
      BY <2>1, Numbers DEF Pairs, PlanGood
    <3>3. w.at # "row" => Planned'
      <4> SUFFICES ASSUME w.at # "row" PROVE Planned'
        OBVIOUS
      <4>1. Planned
        BY <2>1 DEF Pairs, PlanGood
      <4>2. w.others \subseteq Meetings \X Nat
        BY <2>1, <3>1 DEF PairJob
      <4>3. \A d \in w.others : d[1] \in Meetings
        BY <4>2
      <4> QED BY <2>1, <3>1, <4>1, <4>3 DEF Planned, SameDone
    <3> QED BY <2>1, <3>1, <3>2, <3>3 DEF PlanGood
  <2> QED BY <2>1 DEF PlanGood
<1> HIDE DEF ScanGood, SameDone
<1> QED BY <1>1, <1>2 DEF Pairs

LEMMA PublishPairs == ASSUME Pairs, NEW m \in Meetings, Publish(m) PROVE Pairs'
<1>1. PICK s \in Sections : minutes' = [minutes EXCEPT ![m] = <<@[1] + 1, s>>]
  BY DEF Publish
<1>2. UNCHANGED <<project, scan, w, hold, used, compared, missed>> /\ events' \in 0 .. MaxEvents
  BY Counted DEF Publish, loop, observed
<1>3. minutes[m] \in (Nat \ {0}) \X Nat /\ s \in Nat
  BY Numbers DEF Pairs
<1>4. minutes' \in [Meetings -> (Nat \ {0}) \X Nat]
  BY <1>1, <1>3 DEF Pairs
<1>5. ASSUME NEW o \in Meetings PROVE ScanGood(scan[o], minutes'[o])
  <2>1. CASE o = m
    <3>1. minutes'[o] = <<minutes[m][1] + 1, s>> /\ ScanGood(scan[o], minutes[o])
      BY <1>1, <2>1 DEF Pairs
    <3>2. scan[o].version \in Nat
      BY <3>1 DEF ScanGood, ScanRow
    <3> QED BY <1>3, <2>1, <3>1, <3>2 DEF ScanGood
  <2>2. CASE o # m
    BY <1>1, <2>2 DEF Pairs
  <2> QED BY <2>1, <2>2
<1>6. PairsGood' /\ PlanGood'
  BY <1>2 DEF Pairs, PairsGood, PlanGood, Planned, IsDone
<1> HIDE DEF ScanGood
<1> QED BY <1>2, <1>4, <1>5, <1>6 DEF Pairs

LEMMA IngestPairs == ASSUME Pairs, NEW m \in Meetings, Ingest(m) PROVE Pairs'
<1> DEFINE was == scan[m]
           now == minutes[m]
           material == was.section # now[2]
           queued == (material \/ Moved(m)) /\ project[m] # None /\ now[2] # 0
           row == [was EXCEPT !.version = now[1], !.project = project[m], !.section = now[2]]
           again == [row EXCEPT !.pair = "pending", !.attempts = 0, !.wait = FALSE, !.old = FALSE]
           other == IF queued THEN again ELSE row
<1>1. scan' = [scan EXCEPT ![m] = other]
      /\ compared' = (IF material THEN {c \in compared : \A d \in c : d[1] # m} ELSE compared)
  BY DEF Ingest
<1>2. UNCHANGED <<project, minutes, w, hold, used, missed, events>>
  BY DEF Ingest, meetings, loop
<1>3. now[1] \in Nat \ {0} /\ now[2] \in Nat /\ project[m] \in Projects \cup {None}
      /\ ScanGood(was, now) /\ was \in ScanRow /\ was.version \in Nat
  BY DEF Pairs, ScanGood, ScanRow
<1>4. row \in ScanRow /\ row.version = now[1] /\ row.project = project[m] /\ row.section = now[2]
      /\ row.pair = was.pair /\ row.attempts = was.attempts /\ row.old = was.old
  <2> HIDE DEF was, now
  <2> QED BY <1>3 DEF ScanRow
<1>5. again \in ScanRow /\ again.version = now[1] /\ again.project = project[m]
      /\ again.section = now[2] /\ again.pair = "pending" /\ again.attempts = 0 /\ ~again.old
  <2>1. 0 \in 0 .. MaxAttempts
    BY Numbers
  <2> HIDE DEF row, now
  <2> QED BY <1>4, <2>1 DEF ScanRow
<1>6. ScanGood(row, now) /\ ScanGood(again, now)
  <2> HIDE DEF row, again, was, now
  <2> QED BY <1>3, <1>4, <1>5, Numbers DEF ScanGood
<1>7. scan'[m] = other /\ \A o \in Meetings \ {m} : scan'[o] = scan[o]
  BY <1>1 DEF Pairs
<1>8. \A o \in Meetings : ScanGood(scan'[o], minutes'[o])
  <2> HIDE DEF row, again
  <2> QED BY <1>2, <1>6, <1>7 DEF Pairs
<1>9. scan' = [o \in Meetings |-> scan'[o]]
  BY <1>1 DEF Pairs
\* Done after it means that nothing changed.
<1>10. IsDone(m)' => IsDone(m) /\ ~material /\ project[m] = was.project
  <2> SUFFICES ASSUME IsDone(m)' PROVE IsDone(m) /\ ~material /\ project[m] = was.project
    OBVIOUS
  <2>1. other.pair = "done" /\ other.section # 0 /\ other.project # None
    BY <1>7 DEF IsDone
  <2>2. ~queued
    BY <1>5, <2>1
  <2>3. row.pair = "done" /\ now[2] # 0 /\ project[m] # None
    BY <1>4, <2>1, <2>2
  <2>4. ~material /\ ~Moved(m)
    BY <2>2, <2>3
  <2>5. was.version # 0
    <3> HIDE DEF now
    <3> QED BY <1>3, <2>3, <2>4 DEF ScanGood
  <2> QED BY <1>4, <2>3, <2>4, <2>5 DEF Moved, IsDone
<1>11. SameDone
  <2>1. other.section = now[2] /\ other.project = project[m]
    BY <1>4, <1>5
  <2> HIDE DEF other
  <2>2. IsDone(m)' => IsDone(m) /\ scan[m].section = scan'[m].section
                                /\ scan[m].project = scan'[m].project
    BY <1>7, <1>10, <2>1
  <2>3. \A o \in Meetings \ {m} :
           IsDone(o)' => IsDone(o) /\ scan[o].section = scan'[o].section
                                   /\ scan[o].project = scan'[o].project
    BY <1>7 DEF IsDone
  <2> QED BY <2>2, <2>3 DEF SameDone
<1> HIDE DEF row, again
<1>12. PairsGood'
  <2> SUFFICES ASSUME NEW x \in Meetings, NEW y \in Meetings, x # y, IsDone(x)', IsDone(y)',
                      scan'[x].project = scan'[y].project
               PROVE  \/ {<<x, scan'[x].section>>, <<y, scan'[y].section>>} \in compared'
                      \/ {x, y} \in missed'
    BY DEF PairsGood
  <2>1. /\ IsDone(x) /\ scan[x].section = scan'[x].section /\ scan[x].project = scan'[x].project
        /\ IsDone(y) /\ scan[y].section = scan'[y].section /\ scan[y].project = scan'[y].project
    BY <1>11 DEF SameDone
  <2>2. \/ {<<x, scan'[x].section>>, <<y, scan'[y].section>>} \in compared
        \/ {x, y} \in missed
    BY <2>1 DEF Pairs, PairsGood
  <2>3. material => x # m /\ y # m
    BY <1>10
  <2> DEFINE c == {<<x, scan'[x].section>>, <<y, scan'[y].section>>}
  <2>4. \A d \in c : d[1] \in {x, y}
    OBVIOUS
  <2>5. c \in compared => c \in compared'
    <3> HIDE DEF c, material
    <3> QED BY <1>1, <2>3, <2>4
  <2> QED BY <1>2, <2>2, <2>5
<1>13. PlanGood'
  <2> SUFFICES ASSUME w.at \in {"row", "plan", "pairs"}
               PROVE  /\ w \in PairJob /\ w.version <= scan'[w.m].version
                      /\ w.at # "row" => Planned'
                      /\ w.at = "pairs" => ~scan'[w.m].old
                      /\ w.at # "pairs" /\ w.may => used < DailyCalls
    BY <1>2 DEF PlanGood
  <2>1. w \in PairJob /\ w.m \in Meetings /\ w.version \in Nat /\ w.version <= scan[w.m].version
        /\ (w.at = "pairs" => ~scan[w.m].old) /\ (w.at # "pairs" /\ w.may => used < DailyCalls)
    BY DEF Pairs, PlanGood, PairJob
  <2>2. was.version <= now[1] /\ (was.version = now[1] => was.section = now[2])
    BY <1>3 DEF ScanGood
  <2>3. other.version = now[1] /\ other.section = now[2] /\ (other.old => was.old)
    BY <1>4, <1>5
  <2> HIDE DEF other, queued
  <2>4. w.version <= scan'[w.m].version
    <3> HIDE DEF was, now
    <3>1. CASE w.m = m
      BY <1>3, <1>7, <2>1, <2>2, <2>3, <3>1 DEF was
    <3> QED BY <1>7, <2>1, <3>1
  <2>5. w.at = "pairs" => ~scan'[w.m].old
    BY <1>7, <2>1, <2>3
  <2>6. w.at # "row" => Planned'
    <3> SUFFICES ASSUME w.at # "row" PROVE Planned'
      OBVIOUS
    <3>1. Planned /\ w.others \subseteq Meetings \X Nat
      BY <2>1 DEF Pairs, PlanGood, PairJob
    <3>2. scan'[w.m].version = w.version => scan'[w.m].section = w.live
      <4>1. CASE w.m = m
        <5> SUFFICES ASSUME now[1] = w.version PROVE now[2] = w.live
          BY <1>7, <2>3, <4>1
        <5>1. was.version = w.version
          <6> HIDE DEF was, now
          <6> QED BY <1>3, <2>1, <2>2, <4>1 DEF was
        <5> QED BY <2>2, <3>1, <4>1, <5>1 DEF Planned
      <4> QED BY <1>7, <2>1, <3>1, <4>1 DEF Planned
    <3>3. \A d \in w.others : d[1] \in Meetings
      BY <3>1
    <3> QED BY <1>2, <1>11, <3>1, <3>2, <3>3 DEF Planned, SameDone
  <2> QED BY <2>1, <2>4, <2>5, <2>6
<1> HIDE DEF ScanGood
<1> QED BY <1>2, <1>8, <1>9, <1>12, <1>13 DEF Pairs

LEMMA LookPairPairs == ASSUME Pairs, NEW m \in Meetings, LookPair(m) PROVE Pairs'
<1>1. UNCHANGED <<project, minutes, scan, hold, used, events, compared, missed>>
      /\ w' = [at |-> "row", m |-> m, version |-> scan[m].version, project |-> scan[m].project,
               may |-> Open]
  BY DEF LookPair, meetings, observed
<1>2. scan[m].version \in Nat /\ scan[m].project \in Projects \cup {None}
  BY DEF Pairs, ScanGood, ScanRow
<1>3. Open \in BOOLEAN /\ (Open => used < DailyCalls)
  BY DEF Open
<1>4. w' \in PairJob /\ w'.at = "row" /\ w'.m = m /\ w'.version = scan[m].version /\ w'.may = Open
  <2> HIDE DEF Open
  <2> QED BY <1>1, <1>2, <1>3 DEF PairJob
<1>5. PlanGood'
  BY <1>1, <1>2, <1>3, <1>4 DEF PlanGood
<1>6. PairsGood'
  BY <1>1 DEF Pairs, PairsGood, IsDone
<1> HIDE DEF ScanGood
<1> QED BY <1>1, <1>5, <1>6 DEF Pairs

LEMMA PlanPairPairs == ASSUME Pairs, PlanPair PROVE Pairs'
<1> DEFINE m == w.m
           others == IF project[m] = None \/ scan[m].section = 0 THEN {} ELSE ComparedMeetings(m)
           away == {o \in Meetings \ {m} : scan[o].project = w.project
                                             /\ {project[o], project[m]} # {w.project}}
           asks == {<<o, scan[o].section>> : o \in others}
<1>1. UNCHANGED <<project, minutes, scan, hold, used, events, compared>> /\ w.at = "row"
      /\ w' = [at |-> "plan", m |-> m, version |-> w.version, project |-> w.project, may |-> w.may,
               live |-> scan[m].section, others |-> asks]
      /\ missed' = missed \cup {{m, o} : o \in away}
  BY DEF PlanPair, meetings
<1>2. w \in [at : {"row"}, m : Meetings, version : Nat, project : Projects \cup {None}, may : BOOLEAN]
      /\ w.version <= scan[m].version /\ (w.may => used < DailyCalls)
  <2>1. w \in PairJob
    BY <1>1 DEF Pairs, PlanGood
  <2> QED BY <1>1, <2>1 DEF Pairs, PlanGood, PairJob
<1>3. m \in Meetings /\ \A o \in Meetings : scan[o].section \in Nat
  BY <1>2 DEF Pairs, ScanGood, ScanRow
<1>4. others \subseteq Meetings \ {m}
  BY DEF ComparedMeetings
<1>5. asks \in SUBSET (Meetings \X Nat)
  BY <1>3, <1>4
<1>6. w' \in PairJob /\ w'.at = "plan" /\ w'.m = m /\ w'.version = w.version /\ w'.may = w.may
      /\ w'.others = asks /\ w'.live = scan[m].section /\ w'.project = w.project
  <2> HIDE DEF asks
  <2> QED BY <1>1, <1>2, <1>3, <1>5 DEF PairJob
<1>7. ASSUME NEW o \in Meetings \ {m}, IsDone(o), scan[o].project = w.project, scan[m].section # 0
      PROVE  {m, o} \in missed' \/ <<o, scan[o].section>> \in asks
  <2>1. CASE o \in away
    BY <1>1, <2>1
  <2>2. CASE o \notin away
    <3>1. {project[o], project[m]} = {w.project} /\ w.project # None
      BY <1>7, <2>2 DEF IsDone
    <3>2. project[o] = project[m] /\ project[m] # None
      BY <3>1
    <3>3. o \in others
      BY <1>7, <3>2 DEF ComparedMeetings, IsDone
    <3> QED BY <3>3
  <2> QED BY <2>1, <2>2
<1>8. \A d \in asks : d[1] # m /\ scan[d[1]].section = d[2]
  BY <1>4
<1>9. Planned'
  <2> HIDE DEF m, asks
  <2> QED BY <1>1, <1>6, <1>7, <1>8 DEF Planned, IsDone
<1>10. PlanGood'
  BY <1>1, <1>2, <1>6, <1>9 DEF PlanGood
<1>11. PairsGood'
  BY <1>1 DEF Pairs, PairsGood, IsDone
<1> HIDE DEF ScanGood
<1> QED BY <1>1, <1>10, <1>11 DEF Pairs

LEMMA PlanIs ==
  ASSUME Pairs, w.at \in {"plan", "pairs"}
  PROVE  /\ w.m \in Meetings /\ w \in PairJob /\ w.others \subseteq Meetings \X Nat /\ Planned
         /\ ScanGood(scan[w.m], minutes[w.m]) /\ scan[w.m] \in ScanRow
         /\ w.at = "pairs" => ~scan[w.m].old
         /\ w.at = "plan" /\ w.may => used < DailyCalls
BY DEF Pairs, PlanGood, PairJob, ScanGood

\* A row whose plan has become the truth is done.
LEMMA FinishedRow ==
  ASSUME Pairs, w.at \in {"plan", "pairs"}, scan' = Finished(w.m), ~scan[w.m].old,
         UNCHANGED <<project, minutes, hold, used, events>>, w' = Idle, PairsGood'
  PROVE  Pairs'
<1> DEFINE m == w.m  other == [scan[m] EXCEPT !.pair = "done", !.attempts = 0, !.wait = FALSE]
<1>1. m \in Meetings /\ ScanGood(scan[m], minutes[m]) /\ scan[m] \in ScanRow
  BY PlanIs
<1>2. scan' = [scan EXCEPT ![m] = other]
  BY DEF Finished
<1>3. ScanGood(other, minutes[m])
  <2>1. 0 \in 0 .. MaxAttempts
    BY Numbers
  <2>2. other \in ScanRow /\ other.version = scan[m].version /\ other.section = scan[m].section
        /\ other.project = scan[m].project /\ other.pair = "done" /\ other.old = scan[m].old
    <3> HIDE DEF m
    <3> QED BY <1>1, <2>1 DEF ScanRow
  <2> HIDE DEF other
  <2> QED BY <1>1, <2>2 DEF ScanGood
<1> HIDE DEF other
<1>4. \A o \in Meetings : ScanGood(scan'[o], minutes[o])
  BY <1>1, <1>2, <1>3 DEF Pairs
<1>5. scan' = [o \in Meetings |-> scan'[o]]
  BY <1>2 DEF Pairs
<1>6. PlanGood'
  BY DEF PlanGood, Idle
<1> HIDE DEF ScanGood
<1> QED BY <1>4, <1>5, <1>6 DEF Pairs

LEMMA FinishedDone ==
  ASSUME Pairs, w.at \in {"plan", "pairs"}, scan' = Finished(w.m),
         scan[w.m].version = w.version, scan[w.m].project = w.project,
         NEW o \in Meetings
  PROVE  /\ scan'[o].section = scan[o].section /\ scan'[o].project = scan[o].project
         /\ o # w.m /\ IsDone(o)' => IsDone(o)
         /\ o = w.m /\ IsDone(o)' => /\ w.live # 0 /\ scan[o].section = w.live
                                     /\ scan[o].project = w.project
<1>1. w.m \in Meetings /\ Planned /\ scan[w.m] \in ScanRow
  BY PlanIs
<1>2. /\ scan' = [scan EXCEPT ![w.m] = [scan[w.m] EXCEPT !.pair = "done", !.attempts = 0,
                                                         !.wait = FALSE]]
  BY DEF Finished
<1>3. scan'[o].section = scan[o].section /\ scan'[o].project = scan[o].project
      /\ (o # w.m => scan'[o] = scan[o])
  BY <1>1, <1>2 DEF Pairs, ScanRow
<1>4. scan[w.m].section = w.live
  BY <1>1 DEF Planned
<1> QED BY <1>3, <1>4 DEF IsDone

LEMMA ClosePairPairs == ASSUME Pairs, ClosePair PROVE Pairs'
<1>1. /\ w.at = "plan" /\ w.others = {} /\ w' = Idle
      /\ UNCHANGED <<project, minutes, hold, used, events, compared, missed>>
      /\ scan' = IF RowUnchanged THEN Finished(w.m) ELSE scan
  BY DEF ClosePair, meetings, observed
<1>2. CASE ~RowUnchanged
  <2>1. scan' = scan /\ w'.at \notin {"row", "plan", "pairs"}
    BY <1>1, <1>2 DEF Idle
  <2>2. project' \in [Meetings -> Projects \cup {None}] /\ hold' \in {"none", "paused", "backoff"}
        /\ used' \in 0 .. DailyCalls /\ events' \in 0 .. MaxEvents
    BY <1>1 DEF Pairs
  <2> QED BY <1>1, <2>1, <2>2, PairsKept
<1>3. CASE RowUnchanged
  <2>1. scan[w.m].pair = "pending" /\ scan[w.m].version = w.version /\ scan[w.m].project = w.project
        /\ scan' = Finished(w.m)
    BY <1>1, <1>3 DEF RowUnchanged
  <2>2. Planned /\ ~scan[w.m].old
    BY <1>1, <2>1, PlanIs DEF ScanGood, ScanRow
  <2>3. \A o \in Meetings :
           /\ scan'[o].section = scan[o].section /\ scan'[o].project = scan[o].project
           /\ o # w.m /\ IsDone(o)' => IsDone(o)
           /\ o = w.m /\ IsDone(o)' => /\ w.live # 0 /\ scan[o].project = w.project
    BY <1>1, <2>1, FinishedDone
  <2>4. PairsGood'
    <3> SUFFICES ASSUME NEW x \in Meetings, NEW y \in Meetings, x # y, IsDone(x)', IsDone(y)',
                        scan'[x].project = scan'[y].project
                 PROVE  \/ {<<x, scan'[x].section>>, <<y, scan'[y].section>>} \in compared'
                        \/ {x, y} \in missed'
      BY DEF PairsGood
    <3>1. CASE x # w.m /\ y # w.m
      <4>1. IsDone(x) /\ IsDone(y) /\ scan[x].project = scan[y].project
        BY <2>3, <3>1
      <4>2. {<<x, scan[x].section>>, <<y, scan[y].section>>} \in compared \/ {x, y} \in missed
        BY <4>1 DEF Pairs, PairsGood
      <4> QED BY <1>1, <2>3, <4>2
    <3>2. ASSUME NEW k \in Meetings, NEW o \in Meetings, k = w.m, o # k, IsDone(o)', IsDone(k)',
                 scan'[o].project = scan'[k].project
          PROVE  {k, o} \in missed
      <4>1. IsDone(o) /\ scan[o].project = w.project /\ w.live # 0
        BY <2>3, <3>2
      <4> QED BY <1>1, <2>2, <3>2, <4>1 DEF Planned
    <3>3. CASE x = w.m
      BY <1>1, <3>2, <3>3
    <3>4. CASE y = w.m
      <4>1. {x, y} = {y, x}
        OBVIOUS
      <4> QED BY <1>1, <3>2, <3>4, <4>1
    <3> QED BY <3>1, <3>3, <3>4
  <2> QED BY <1>1, <2>1, <2>2, <2>4, FinishedRow
<1> QED BY <1>2, <1>3

LEMMA ClaimPairPairs == ASSUME Pairs, ClaimPair PROVE Pairs'
<1>1. w.at = "plan" /\ UNCHANGED <<project, minutes, hold, events, compared, missed>>
  BY DEF ClaimPair, meetings, observed
<1>2. project' \in [Meetings -> Projects \cup {None}] /\ hold' \in {"none", "paused", "backoff"}
      /\ events' \in 0 .. MaxEvents
  BY <1>1 DEF Pairs
<1>3. CASE ~(w.may /\ RowUnchanged)
  <2>1. w' = Idle /\ UNCHANGED <<scan, used>>
    BY <1>3 DEF ClaimPair
  <2>2. used' \in 0 .. DailyCalls /\ w'.at \notin {"row", "plan", "pairs"}
    BY <2>1 DEF Pairs, Idle
  <2> QED BY <1>1, <1>2, <2>1, <2>2, PairsKept
<1>4. CASE w.may /\ RowUnchanged
  <2> DEFINE m == w.m  other == [scan[m] EXCEPT !.pair = "running"]
  <2>1. scan' = [scan EXCEPT ![m] = other] /\ used' = used + 1 /\ w' = [w EXCEPT !.at = "pairs"]
        /\ scan[m].pair = "pending"
    BY <1>4 DEF ClaimPair, RowUnchanged
  <2>2. m \in Meetings /\ w \in PairJob /\ Planned /\ ScanGood(scan[m], minutes[m])
        /\ scan[m] \in ScanRow /\ used < DailyCalls /\ w.version <= scan[m].version
        /\ w.others \subseteq Meetings \X Nat
    BY <1>1, <1>4, PlanIs DEF Pairs, PlanGood
  <2>3. other \in ScanRow /\ other.version = scan[m].version /\ other.section = scan[m].section
        /\ other.project = scan[m].project /\ other.pair = "running"
        /\ other.old = scan[m].old /\ other.attempts = scan[m].attempts
    <3> HIDE DEF m
    <3> QED BY <2>2 DEF ScanRow
  <2>4. ~other.old /\ ScanGood(other, minutes[m])
    <3> HIDE DEF m, other
    <3> QED BY <2>1, <2>2, <2>3 DEF ScanGood, ScanRow
  <2>5. used' \in 0 .. DailyCalls
    BY <2>1, <2>2, Numbers DEF Pairs
  <2>6. w' \in PairJob /\ w'.at = "pairs" /\ w'.m = m /\ w'.version = w.version
        /\ w'.project = w.project /\ w'.live = w.live /\ w'.others = w.others
    <3>1. w \in [at : {"plan", "pairs"}, m : Meetings, version : Nat, project : Projects \cup {None},
                 may : BOOLEAN, live : Nat, others : SUBSET (Meetings \X Nat)]
      BY <1>1, <2>2 DEF PairJob
    <3> QED BY <2>1, <3>1 DEF PairJob
  <2> HIDE DEF other
  <2>7. scan'[m] = other /\ \A o \in Meetings \ {m} : scan'[o] = scan[o]
    BY <2>1, <2>2 DEF Pairs
  <2>8. \A o \in Meetings : ScanGood(scan'[o], minutes[o])
    BY <2>4, <2>7 DEF Pairs
  <2>9. scan' = [o \in Meetings |-> scan'[o]]
    BY <2>1 DEF Pairs
  <2>10. SameDone
    BY <2>3, <2>7 DEF SameDone, IsDone
  <2>11. PairsGood'
    BY <1>1, <2>10 DEF Pairs, PairsGood, SameDone
  <2>12. Planned'
    <3>1. \A d \in w.others : d[1] \in Meetings
      BY <2>2
    <3>2. scan'[m].version = w.version => scan'[m].section = w.live
      BY <2>2, <2>3, <2>7 DEF Planned
    <3> QED BY <1>1, <2>2, <2>6, <2>10, <3>1, <3>2 DEF Planned, SameDone
  <2>13. PlanGood'
    BY <2>2, <2>3, <2>4, <2>6, <2>7, <2>12 DEF PlanGood
  <2> HIDE DEF ScanGood
  <2> QED BY <1>1, <1>2, <2>5, <2>8, <2>9, <2>11, <2>13 DEF Pairs
<1> QED BY <1>3, <1>4

\* The row of a comparison goes back to be compared again, or has failed.
LEMMA RowReturned ==
  ASSUME Pairs, w.at = "pairs", scan[w.m].pair = "running", NEW row \in ScanRow,
         scan' = [scan EXCEPT ![w.m] = row], row.version = scan[w.m].version,
         row.section = scan[w.m].section, row.project = scan[w.m].project, ~row.old,
         (row.pair = "pending" /\ row.attempts < MaxAttempts) \/ row.pair = "failed",
         UNCHANGED <<project, minutes, compared, missed>>, w' = Idle,
         hold' \in {"none", "paused", "backoff"}, used' \in 0 .. DailyCalls,
         events' \in 0 .. MaxEvents
  PROVE  Pairs'
<1>1. w.m \in Meetings /\ ScanGood(scan[w.m], minutes[w.m])
  BY PlanIs
<1>2. ScanGood(row, minutes[w.m])
  BY <1>1 DEF ScanGood
<1>3. scan'[w.m] = row /\ \A o \in Meetings \ {w.m} : scan'[o] = scan[o]
  BY <1>1 DEF Pairs
<1>4. scan' = [o \in Meetings |-> scan'[o]]
  BY DEF Pairs
<1>5. \A o \in Meetings : ScanGood(scan'[o], minutes[o])
  BY <1>2, <1>3 DEF Pairs
<1>6. SameDone
  <2>1. \A o \in Meetings : o = w.m => scan'[o].pair # "done"
    BY <1>3
  <2> QED BY <1>3, <2>1 DEF SameDone, IsDone
<1>7. \A o \in Meetings : scan'[o].version = scan[o].version /\ scan'[o].section = scan[o].section
                          /\ (w.at = "pairs" /\ w.m = o => ~scan'[o].old)
  BY <1>3
<1>8. w'.at \notin {"row", "plan", "pairs"}
  BY DEF Idle
<1> QED BY <1>4, <1>5, <1>6, <1>7, <1>8, RowsChange

LEMMA RunningRow ==
  ASSUME Pairs, w.at = "pairs", scan[w.m].pair = "running"
  PROVE  scan[w.m] \in ScanRow /\ ~scan[w.m].old /\ scan[w.m].attempts < MaxAttempts
         /\ scan[w.m].attempts \in Nat
BY PlanIs, Numbers DEF ScanGood, ScanRow

LEMMA PendingRow ==
  ASSUME Pairs, w.at = "pairs", scan[w.m].pair = "running",
         scan' = [scan EXCEPT ![w.m].pair = "pending"],
         UNCHANGED <<project, minutes, compared, missed>>, w' = Idle,
         hold' \in {"none", "paused", "backoff"}, used' \in 0 .. DailyCalls,
         events' \in 0 .. MaxEvents
  PROVE  Pairs'
<1> DEFINE row == [scan[w.m] EXCEPT !.pair = "pending"]
<1>1. scan[w.m] \in ScanRow /\ ~scan[w.m].old /\ scan[w.m].attempts < MaxAttempts
  BY RunningRow
<1>2. row \in ScanRow /\ row.version = scan[w.m].version /\ row.section = scan[w.m].section
      /\ row.project = scan[w.m].project /\ ~row.old /\ row.pair = "pending"
      /\ row.attempts < MaxAttempts
  BY <1>1 DEF ScanRow
<1>3. scan' = [scan EXCEPT ![w.m] = row]
  OBVIOUS
<1> HIDE DEF row
<1> QED BY <1>2, <1>3, RowReturned

LEMMA PairAnsweredPairs == ASSUME Pairs, PairAnswered PROVE Pairs'
<1> DEFINE unchanged == /\ scan[w.m].version = w.version /\ minutes[w.m][1] = w.version
                        /\ scan[w.m].project = w.project /\ project[w.m] = w.project
           gone == {{w.m, o[1]} : o \in w.others}
<1>1. w.at = "pairs" /\ w' = Idle /\ UNCHANGED <<project, minutes, hold, used, events>>
      /\ (IF StillClaimed
          THEN scan' = IF unchanged THEN Finished(w.m) ELSE [scan EXCEPT ![w.m].pair = "pending"]
          ELSE scan' = scan)
      /\ compared' = (IF StillClaimed /\ unchanged THEN compared \cup Asked ELSE compared)
      /\ missed' = (IF StillClaimed /\ unchanged THEN missed \ gone ELSE missed)
  BY DEF PairAnswered, meetings
<1>2. project' \in [Meetings -> Projects \cup {None}] /\ hold' \in {"none", "paused", "backoff"}
      /\ used' \in 0 .. DailyCalls /\ events' \in 0 .. MaxEvents
  BY <1>1 DEF Pairs
<1>3. CASE ~StillClaimed
  <2>1. w'.at \notin {"row", "plan", "pairs"} /\ scan' = scan /\ compared' = compared
        /\ missed' = missed
    BY <1>1, <1>3 DEF Idle
  <2> QED BY <1>1, <1>2, <2>1, PairsKept
<1>4. CASE StillClaimed /\ ~unchanged
  <2>1. compared' = compared /\ missed' = missed /\ scan[w.m].pair = "running"
        /\ scan' = [scan EXCEPT ![w.m].pair = "pending"]
    BY <1>1, <1>4 DEF StillClaimed
  <2> QED BY <1>1, <1>2, <2>1, PendingRow
<1>5. CASE StillClaimed /\ unchanged
  <2>1. scan' = Finished(w.m) /\ compared' = compared \cup Asked /\ missed' = missed \ gone
        /\ scan[w.m].version = w.version /\ scan[w.m].project = w.project
    BY <1>1, <1>5
  <2>2. Planned /\ ~scan[w.m].old /\ w.others \subseteq Meetings \X Nat
    BY <1>1, PlanIs
  <2>3. \A o \in Meetings :
           /\ scan'[o].section = scan[o].section /\ scan'[o].project = scan[o].project
           /\ o # w.m /\ IsDone(o)' => IsDone(o)
           /\ o = w.m /\ IsDone(o)' => /\ w.live # 0 /\ scan[o].section = w.live
                                       /\ scan[o].project = w.project
    BY <1>1, <2>1, FinishedDone
  <2>4. PairsGood'
    <3> SUFFICES ASSUME NEW x \in Meetings, NEW y \in Meetings, x # y, IsDone(x)', IsDone(y)',
                        scan'[x].project = scan'[y].project
                 PROVE  \/ {<<x, scan'[x].section>>, <<y, scan'[y].section>>} \in compared'
                        \/ {x, y} \in missed'
      BY DEF PairsGood
    <3>1. CASE x # w.m /\ y # w.m
      <4>1. IsDone(x) /\ IsDone(y) /\ scan[x].project = scan[y].project
        BY <2>3, <3>1
      <4>2. {<<x, scan[x].section>>, <<y, scan[y].section>>} \in compared \/ {x, y} \in missed
        BY <4>1 DEF Pairs, PairsGood
      <4>3. {x, y} \notin gone
        BY <3>1
      <4> QED BY <2>1, <2>3, <4>2, <4>3
    <3>2. ASSUME NEW k \in Meetings, NEW o \in Meetings, k = w.m, o # k, IsDone(o)', IsDone(k)',
                 scan'[o].project = scan'[k].project
          PROVE  \/ {<<k, scan'[k].section>>, <<o, scan'[o].section>>} \in compared'
                 \/ {k, o} \in missed'
      <4>1. IsDone(o) /\ scan[o].project = w.project /\ w.live # 0 /\ scan[k].section = w.live
            /\ scan'[k].section = w.live /\ scan'[o].section = scan[o].section
        BY <2>3, <3>2
      <4>2. CASE <<o, scan[o].section>> \in w.others
        <5>1. {<<k, w.live>>, <<o, scan[o].section>>} \in Asked
          BY <3>2, <4>2 DEF Asked
        <5> QED BY <2>1, <4>1, <5>1
      <4>3. CASE <<o, scan[o].section>> \notin w.others
        <5>1. {k, o} \in missed
          BY <2>2, <3>2, <4>1, <4>3 DEF Planned
        <5>2. ASSUME NEW d \in w.others, {k, o} = {w.m, d[1]} PROVE FALSE
          <6>1. d \in Meetings \X Nat /\ d = <<d[1], d[2]>>
            BY <2>2
          <6>2. d[1] = o
            BY <3>2, <5>2
          <6>3. scan[o].section = d[2]
            BY <2>2, <4>1, <6>2 DEF Planned
          <6> QED BY <4>3, <6>1, <6>2, <6>3
        <5> QED BY <2>1, <5>1, <5>2
      <4> QED BY <4>2, <4>3
    <3>3. CASE x = w.m
      BY <3>2, <3>3
    <3>4. CASE y = w.m
      <4>1. {x, y} = {y, x}
            /\ {<<x, scan'[x].section>>, <<y, scan'[y].section>>} =
                 {<<y, scan'[y].section>>, <<x, scan'[x].section>>}
        OBVIOUS
      <4> QED BY <3>2, <3>4, <4>1
    <3> QED BY <3>1, <3>3, <3>4
  <2> QED BY <1>1, <2>1, <2>2, <2>4, FinishedRow
<1> QED BY <1>3, <1>4, <1>5

LEMMA LessUsed == ASSUME Pairs PROVE Max({0, used - 1}) \in 0 .. DailyCalls
<1> DEFINE S == {0, used - 1}
<1>1. used \in 0 .. DailyCalls /\ DailyCalls \in Nat
  BY Numbers DEF Pairs
<1>2. CASE used = 0
  <2>1. \A y \in S : 0 >= y
    BY <1>2
  <2>2. \E x \in S : \A y \in S : x >= y
    BY <2>1
  <2>3. Max(S) \in S /\ \A y \in S : Max(S) >= y
    <3> HIDE DEF S
    <3> QED BY <2>2 DEF Max
  <2>4. Max(S) = 0
    BY <1>2, <2>3
  <2> QED BY <1>1, <2>4
<1>3. CASE used # 0
  <2>1. S \in SUBSET (0 .. DailyCalls) /\ S # {}
    BY <1>1, <1>3
  <2>2. Max(S) \in S
    <3> HIDE DEF S
    <3> QED BY <1>1, <2>1, MaxIs
  <2> QED BY <2>1, <2>2
<1> QED BY <1>2, <1>3

LEMMA BadReplyPairs == ASSUME Pairs, BadReply PROVE Pairs'
<1>1. w.at \in {"mention", "pairs"} /\ FailWork /\ w' = Idle
      /\ UNCHANGED <<project, minutes, hold, used, compared, missed>> /\ events' \in 0 .. MaxEvents
  BY Counted DEF BadReply, meetings, observed
<1>2. project' \in [Meetings -> Projects \cup {None}] /\ hold' \in {"none", "paused", "backoff"}
      /\ used' \in 0 .. DailyCalls /\ w'.at \notin {"row", "plan", "pairs"}
  BY <1>1 DEF Pairs, Idle
<1>3. CASE w.at = "mention" \/ ~StillClaimed
  <2>1. scan' = scan
    BY <1>1, <1>3 DEF FailWork
  <2> QED BY <1>1, <1>2, <2>1, PairsKept
<1>4. CASE w.at = "pairs" /\ StillClaimed
  <2> DEFINE was == scan[w.m]  n == was.attempts + 1
             wait == n < MaxAttempts
             pair == IF n >= MaxAttempts THEN "failed" ELSE "pending"
             row == [was EXCEPT !.attempts = n, !.pair = pair, !.wait = wait]
  <2>1. was.pair = "running"
    BY <1>4 DEF StillClaimed
  <2>2. was \in ScanRow /\ ~was.old /\ was.attempts < MaxAttempts /\ was.attempts \in Nat
    BY <1>4, <2>1, RunningRow
  <2>3. scan' = [scan EXCEPT ![w.m] = row]
    BY <1>1, <1>4 DEF FailWork, FailedPair, AfterFailure
  <2>4. n \in 0 .. MaxAttempts /\ wait \in BOOLEAN /\ pair \in {"pending", "failed"}
        /\ (pair = "pending" => n < MaxAttempts)
    <3> HIDE DEF was
    <3> QED BY <2>2, Numbers
  <2> HIDE DEF n, wait, pair
  <2>5. row \in ScanRow /\ row.version = was.version /\ row.section = was.section
        /\ row.project = was.project /\ row.old = was.old /\ row.pair = pair /\ row.attempts = n
    <3> HIDE DEF was
    <3> QED BY <2>2, <2>4 DEF ScanRow
  <2> HIDE DEF row
  <2> QED BY <1>1, <1>2, <1>4, <2>1, <2>2, <2>3, <2>4, <2>5, RowReturned
<1> QED BY <1>1, <1>3, <1>4

LEMMA CallErrorPairs == ASSUME Pairs, CallError PROVE Pairs'
<1>1. w.at \in {"mention", "pairs"} /\ Release /\ w' = Idle
      /\ UNCHANGED <<project, minutes, compared, missed>> /\ events' \in 0 .. MaxEvents
  BY Counted DEF CallError, meetings, observed
<1>2. project' \in [Meetings -> Projects \cup {None}] /\ hold' \in {"none", "paused", "backoff"}
      /\ used' \in 0 .. DailyCalls /\ w'.at \notin {"row", "plan", "pairs"}
  BY <1>1, LessUsed DEF CallError, Pairs, Idle
<1>3. CASE w.at = "mention" \/ ~StillClaimed
  <2>1. scan' = scan
    BY <1>1, <1>3 DEF Release
  <2> QED BY <1>1, <1>2, <2>1, PairsKept
<1>4. CASE w.at = "pairs" /\ StillClaimed
  <2>1. scan' = [scan EXCEPT ![w.m].pair = "pending"] /\ scan[w.m].pair = "running"
    BY <1>1, <1>4 DEF Release, StillClaimed
  <2> QED BY <1>1, <1>2, <1>4, <2>1, PendingRow
<1> QED BY <1>1, <1>3, <1>4

(* Steps that write one or more rows and leave the worker alone.           *)

LEMMA RowIsGood == ASSUME Pairs, NEW m \in Meetings
                   PROVE  ScanGood(scan[m], minutes[m]) /\ scan[m] \in ScanRow
BY DEF Pairs, ScanGood

LEMMA RecoverClaimsPairs == ASSUME Pairs, RecoverClaims PROVE Pairs'
<1>1. w = Idle /\ UNCHANGED <<project, minutes, w, hold, used, events, compared, missed>>
      /\ scan' = [m \in Meetings |-> IF scan[m].old
                    THEN [scan[m] EXCEPT !.pair = "pending", !.old = FALSE] ELSE scan[m]]
  BY DEF RecoverClaims, meetings, loop, observed
<1>2. ASSUME NEW m \in Meetings
      PROVE  /\ ScanGood(scan'[m], minutes[m]) /\ scan'[m].version = scan[m].version
             /\ scan'[m].section = scan[m].section
             /\ scan'[m] = scan[m] \/ scan'[m].pair = "pending"
  <2>1. CASE scan[m].old
    <3> DEFINE row == [scan[m] EXCEPT !.pair = "pending", !.old = FALSE]
    <3>1. scan'[m] = row
      BY <1>1, <2>1
    <3>2. row \in ScanRow /\ row.pair = "pending" /\ ~row.old /\ row.version = scan[m].version
          /\ row.section = scan[m].section /\ row.project = scan[m].project
          /\ row.attempts = scan[m].attempts
      BY RowIsGood DEF ScanRow
    <3>3. ScanGood(row, minutes[m])
      <4> HIDE DEF row
      <4> QED BY <2>1, <3>2, RowIsGood DEF ScanGood
    <3> QED BY <3>1, <3>2, <3>3
  <2>2. CASE ~scan[m].old
    BY <1>1, <2>2, RowIsGood
  <2> QED BY <2>1, <2>2
<1>3. SameDone
  BY <1>2 DEF SameDone, IsDone
<1>4. scan' = [m \in Meetings |-> scan'[m]]
  BY <1>1
<1>5. w.at # "pairs" /\ w'.at \notin {"row", "plan", "pairs"}
  BY <1>1 DEF Idle
<1>6. hold' \in {"none", "paused", "backoff"} /\ used' \in 0 .. DailyCalls
      /\ events' \in 0 .. MaxEvents
  BY <1>1 DEF Pairs
<1> QED BY <1>1, <1>2, <1>3, <1>4, <1>5, <1>6, RowsChange

LEMMA RetryLinksPairs == ASSUME Pairs, RetryLinks PROVE Pairs'
<1>1. UNCHANGED <<project, minutes, w, used, events, compared, missed>> /\ hold' = "none"
      /\ scan' = [m \in Meetings |-> IF scan[m].pair = "failed"
                    THEN [scan[m] EXCEPT !.pair = "pending", !.attempts = 0, !.wait = FALSE]
                    ELSE scan[m]]
  BY DEF RetryLinks, meetings, observed
<1>2. ASSUME NEW m \in Meetings
      PROVE  /\ ScanGood(scan'[m], minutes[m]) /\ scan'[m].version = scan[m].version
             /\ scan'[m].section = scan[m].section /\ scan'[m].old = scan[m].old
             /\ scan'[m] = scan[m] \/ scan'[m].pair = "pending"
  <2>1. CASE scan[m].pair = "failed"
    <3> DEFINE row == [scan[m] EXCEPT !.pair = "pending", !.attempts = 0, !.wait = FALSE]
    <3>1. scan'[m] = row
      BY <1>1, <2>1
    <3>2. 0 \in 0 .. MaxAttempts /\ 0 < MaxAttempts
      BY Numbers
    <3>3. row \in ScanRow /\ row.pair = "pending" /\ row.old = scan[m].old
          /\ row.version = scan[m].version /\ row.section = scan[m].section
          /\ row.project = scan[m].project /\ row.attempts = 0
      BY <3>2, RowIsGood DEF ScanRow
    <3>4. ScanGood(row, minutes[m])
      <4> HIDE DEF row
      <4> QED BY <2>1, <3>2, <3>3, RowIsGood DEF ScanGood
    <3> QED BY <3>1, <3>3, <3>4
  <2>2. CASE scan[m].pair # "failed"
    BY <1>1, <2>2, RowIsGood
  <2> QED BY <2>1, <2>2
<1>3. SameDone
  BY <1>2 DEF SameDone, IsDone
<1>4. scan' = [m \in Meetings |-> scan'[m]]
  BY <1>1
<1>5. \A m \in Meetings : w.at = "pairs" /\ w.m = m => ~scan'[m].old
  BY <1>2 DEF Pairs, PlanGood
<1>6. hold' \in {"none", "paused", "backoff"} /\ used' \in 0 .. DailyCalls /\ used' <= used
      /\ events' \in 0 .. MaxEvents
  <2>1. used \in 0 .. DailyCalls /\ DailyCalls \in Nat /\ events \in 0 .. MaxEvents
    BY Numbers DEF Pairs
  <2>2. hold' = "none" /\ used' = used /\ events' = events
    BY <1>1
  <2> QED BY <2>1, <2>2
<1> QED BY <1>1, <1>2, <1>3, <1>4, <1>5, <1>6, RowsChange

LEMMA RetryDuePairs == ASSUME Pairs, NEW m \in Meetings, RetryDue(m) PROVE Pairs'
<1> DEFINE row == [scan[m] EXCEPT !.wait = FALSE]
<1>1. UNCHANGED <<project, minutes, w, hold, used, events, compared, missed>>
      /\ scan' = [scan EXCEPT ![m] = row]
  BY DEF RetryDue, meetings, loop, observed
<1>2. row \in ScanRow /\ row.pair = scan[m].pair /\ row.old = scan[m].old
      /\ row.version = scan[m].version /\ row.section = scan[m].section
      /\ row.project = scan[m].project /\ row.attempts = scan[m].attempts
  BY RowIsGood DEF ScanRow
<1> HIDE DEF row
<1>3. ScanGood(row, minutes[m])
  BY <1>2, RowIsGood DEF ScanGood
<1>4. scan'[m] = row /\ \A o \in Meetings \ {m} : scan'[o] = scan[o]
  BY <1>1 DEF Pairs
<1>5. \A o \in Meetings : /\ ScanGood(scan'[o], minutes[o])
                          /\ scan'[o].version = scan[o].version
                          /\ scan'[o].section = scan[o].section
                          /\ scan'[o].old = scan[o].old
  BY <1>2, <1>3, <1>4, RowIsGood
<1>6. SameDone
  BY <1>2, <1>4 DEF SameDone, IsDone
<1>7. scan' = [o \in Meetings |-> scan'[o]]
  BY <1>1 DEF Pairs
<1>8. \A o \in Meetings : w.at = "pairs" /\ w.m = o => ~scan'[o].old
  BY <1>5 DEF Pairs, PlanGood
<1>9. hold' \in {"none", "paused", "backoff"} /\ used' \in 0 .. DailyCalls /\ used' <= used
      /\ events' \in 0 .. MaxEvents
  BY <1>1, Numbers DEF Pairs
<1> QED BY <1>1, <1>5, <1>6, <1>7, <1>8, <1>9, RowsChange

LEMMA ClaimAgesPairs == ASSUME Pairs, NEW m \in Meetings, ClaimAges(m) PROVE Pairs'
<1>1. UNCHANGED <<project, minutes, w, hold, used, events, compared, missed>> /\ HeldByDead(m)
  BY DEF ClaimAges, meetings, loop, observed
<1>2. hold' \in {"none", "paused", "backoff"} /\ used' \in 0 .. DailyCalls /\ used' <= used
      /\ events' \in 0 .. MaxEvents /\ project' \in [Meetings -> Projects \cup {None}]
  BY <1>1, Numbers DEF Pairs
<1>3. CASE scan' = scan
  BY <1>1, <1>2, <1>3, PairsKept
<1>4. CASE scan[m].pair = "running" /\ scan' = [scan EXCEPT ![m].old = TRUE]
  <2> DEFINE row == [scan[m] EXCEPT !.old = TRUE]
  <2>1. scan' = [scan EXCEPT ![m] = row]
    BY <1>4
  <2>2. row \in ScanRow /\ row.pair = "running"
        /\ row.version = scan[m].version /\ row.section = scan[m].section
        /\ row.project = scan[m].project /\ row.attempts = scan[m].attempts
    BY <1>4, RowIsGood DEF ScanRow
  <2> HIDE DEF row
  <2>3. ScanGood(row, minutes[m])
    BY <1>4, <2>2, RowIsGood DEF ScanGood
  <2>4. scan'[m] = row /\ \A o \in Meetings \ {m} : scan'[o] = scan[o]
    BY <2>1 DEF Pairs
  <2>5. \A o \in Meetings : /\ ScanGood(scan'[o], minutes[o])
                            /\ scan'[o].version = scan[o].version
                            /\ scan'[o].section = scan[o].section
    BY <2>2, <2>3, <2>4, RowIsGood
  <2>6. SameDone
    BY <2>2, <2>4 DEF SameDone, IsDone
  <2>7. scan' = [o \in Meetings |-> scan'[o]]
    BY <2>1 DEF Pairs
  <2>8. \A o \in Meetings : w.at = "pairs" /\ w.m = o => ~scan'[o].old
    BY <1>1, <2>4 DEF Pairs, PlanGood, HeldByDead
  <2> QED BY <1>1, <1>2, <2>5, <2>6, <2>7, <2>8, RowsChange
<1> QED BY <1>3, <1>4 DEF ClaimAges

LEMMA PairsNext == ASSUME Pairs, [LinksNext]_linksVars PROVE Pairs'
<1>0. /\ project \in [Meetings -> Projects \cup {None}] /\ hold \in {"none", "paused", "backoff"}
      /\ used \in 0 .. DailyCalls /\ events \in 0 .. MaxEvents /\ DailyCalls \in Nat
      /\ used <= used
  BY Numbers DEF Pairs
<1>1. CASE UNCHANGED linksVars
  BY <1>0, <1>1, PairsKept DEF linksVars, meetings, loop, observed
<1>2. CASE LinksNext
  <2>1. ASSUME NEW m \in Meetings, MoveMeeting(m) PROVE Pairs'
    <3>1. UNCHANGED <<minutes, scan, compared, missed, w, hold, used>>
          /\ events' \in 0 .. MaxEvents
      BY <2>1, Counted DEF MoveMeeting, loop, observed
    <3>2. project' \in [Meetings -> Projects \cup {None}]
      BY <1>0, <2>1 DEF MoveMeeting
    <3> QED BY <1>0, <3>1, <3>2, PairsKept
  <2>2. ASSUME NEW m \in Meetings, EditText(m) \/ NewTranscript(m) PROVE Pairs'
    <3>1. UNCHANGED <<project, minutes, scan, compared, missed, w, hold, used>>
          /\ events' \in 0 .. MaxEvents
      BY <2>2, Counted DEF EditText, NewTranscript, loop, observed
    <3> QED BY <1>0, <3>1, PairsKept
  <2>3. ASSUME NEW m \in Meetings, Resolve(m) PROVE Pairs'
    <3>1. UNCHANGED <<project, minutes, scan, compared, missed, w, hold, used, events>>
      BY <2>3 DEF Resolve, meetings, loop
    <3> QED BY <1>0, <3>1, PairsKept
  <2>4. ASSUME NEW m \in Meetings, ClaimMention(m) PROVE Pairs'
    <3>1. UNCHANGED <<project, minutes, scan, compared, missed, hold, events>>
          /\ used' = used + 1 /\ used < DailyCalls /\ w' = [at |-> "claimed", m |-> m]
      BY <2>4 DEF ClaimMention, Open, meetings, observed
    <3>2. used' \in 0 .. DailyCalls /\ w'.at \notin {"row", "plan", "pairs"}
      BY <1>0, <3>1
    <3> QED BY <1>0, <3>1, <3>2, PairsKept
  <2>5. CASE SeedMentions
    <3>1. UNCHANGED <<project, minutes, scan, compared, missed, w, hold, used, events>>
      BY <2>5 DEF SeedMentions, meetings, loop, observed
    <3> QED BY <1>0, <3>1, PairsKept
  <2>6. CASE ReadPart \/ PartAnswered
    <3>1. UNCHANGED <<project, minutes, scan, compared, missed, hold, used, events>>
      BY <2>6 DEF ReadPart, PartAnswered, meetings
    <3>2. w'.at \notin {"row", "plan", "pairs"}
      <4>1. w' = Idle \/ \E ranges : w' = [at |-> "mention", m |-> w.m, ranges |-> ranges]
        BY <2>6 DEF ReadPart, PartAnswered, FinishEmpty
      <4> QED BY <4>1 DEF Idle
    <3> QED BY <1>0, <3>1, <3>2, PairsKept
  <2>7. CASE PartCutOff
    <3>1. UNCHANGED <<project, minutes, scan, compared, missed, hold, used>> /\ w' = Idle
          /\ events' \in 0 .. MaxEvents
      BY <2>7, Counted DEF PartCutOff, meetings
    <3> QED BY <1>0, <3>1, PairsKept DEF Idle
  <2>8. CASE ProcessDies
    <3>1. UNCHANGED <<project, minutes, scan, compared, missed, used>> /\ w' = Idle
          /\ hold' = "none" /\ events' \in 0 .. MaxEvents
      BY <2>8, Counted DEF ProcessDies, meetings, observed
    <3> QED BY <1>0, <3>1, PairsKept DEF Idle
  <2>9. CASE NextDay
    <3>1. UNCHANGED <<project, minutes, scan, compared, missed, w, hold, events>> /\ used' = 0
      BY <2>9 DEF NextDay, meetings, observed
    <3>2. used' \in 0 .. DailyCalls /\ used' <= used
      BY <1>0, <3>1
    <3> QED BY <1>0, <3>1, <3>2, PairsKept
  <2>10. CASE BackoffEnds \/ KeyChanges
    <3>1. UNCHANGED <<project, minutes, scan, compared, missed, w, used, events>> /\ hold' = "none"
      BY <2>10 DEF BackoffEnds, KeyChanges, meetings, observed
    <3> QED BY <1>0, <3>1, PairsKept
  <2>11. ASSUME NEW m \in Meetings,
                Publish(m) \/ Ingest(m) \/ ClaimAges(m) \/ RetryDue(m) \/ LookPair(m)
         PROVE  Pairs'
    BY <2>11, PublishPairs, IngestPairs, ClaimAgesPairs, RetryDuePairs, LookPairPairs
  <2> QED BY <1>2, <2>1, <2>2, <2>3, <2>4, <2>5, <2>6, <2>7, <2>8, <2>9, <2>10, <2>11,
             RecoverClaimsPairs, PlanPairPairs, ClosePairPairs, ClaimPairPairs,
             PairAnsweredPairs, BadReplyPairs, CallErrorPairs, RetryLinksPairs
             DEF LinksNext, Tick
<1> QED BY <1>1, <1>2

-----------------------------------------------------------------------------
(* The two halves together: what a row of either table may hold, and what  *)
(* the worker knows of the row it is at.                                   *)
THEOREM LinksInvariant == LinksSpec => []LinksInv
<1>1. LinksInit => LinksInv
  BY MentionsInit, PairsInit DEF LinksInv
<1>2. LinksInv /\ [LinksNext]_linksVars => LinksInv'
  <2> SUFFICES ASSUME LinksInv, [LinksNext]_linksVars PROVE LinksInv'
    OBVIOUS
  <2>1. Mentions' /\ Pairs'
    BY MentionsNext, PairsNext DEF LinksInv
  <2> QED BY <2>1 DEF LinksInv
<1> QED BY <1>1, <1>2, PTL DEF LinksSpec

\* Every line of the parts counted as done was sent and settled, in whatever
\* layout, through splits, restarts and repeated calls (loose_mentions.py).
THEOREM PartsAreCovered == LinksSpec => []PartsCoverText
<1>1. LinksInv => PartsCoverText
  BY DEF LinksInv, Mentions, ExtGood, PartsCoverText
<1> QED BY <1>1, LinksInvariant, PTL

\* Two meetings whose comparisons are done were compared with each other, with
\* the exception of the moves the property names (decision_pairs.py, decisions.py).
THEOREM PairsAreCompared == LinksSpec => []PairsCompared
<1>1. LinksInv => PairsCompared
  <2> SUFFICES ASSUME LinksInv PROVE PairsCompared
    OBVIOUS
  <2>1. LinksTypeOK
    <3>1. \A m \in Meetings : scan[m] \in ScanRow
      BY RowIsGood DEF LinksInv
    <3>2. \A m \in Meetings : ext[m] # None => ext[m] \in ExtRow /\ ext[m].done <= ext[m].parts
      BY DEF LinksInv, Mentions, ExtGood
    <3>3. MaxParts \in Nat
      BY LinksAssumption
    <3>4. \A m \in Meetings : ext[m] # None => /\ ext[m].state \in {"pending", "running", "done", "failed"}
                                               /\ ext[m].done \in 0 .. ext[m].parts
      BY <3>2, <3>3 DEF ExtRow
    <3> QED BY <3>1, <3>4 DEF LinksInv, Pairs, LinksTypeOK, ScanRow
  <2>2. \A m \in Meetings : Settled(m) => IsDone(m) /\ scan[m].project = project[m]
    BY DEF Settled, IsDone
  <2> QED BY <2>1, <2>2 DEF LinksInv, Pairs, PairsGood, PairsCompared
<1> QED BY <1>1, LinksInvariant, PTL
=============================================================================
