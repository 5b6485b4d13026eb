----------------------- MODULE RequirementLinksProofs -----------------------
(***************************************************************************)
(* What a task hangs on exists and agrees with its project, nothing points *)
(* at a requirement merged away, an undo taken at once restores what was   *)
(* there, and a requirement that a merge reopened has a merge that closes  *)
(* it again, for any number of tasks, candidates, requirements and         *)
(* projects.                                                               *)
(*                                                                         *)
(* The invariant is stated of the tables rather than of the variable, so   *)
(* that each operation is a lemma about the tables it leaves.              *)
(***************************************************************************)
EXTENDS RequirementLinks, TLAPS

(* What each row keeps to, given the requirements and candidates there     *)
(* are: a task where LinksAgree says, and with a confirmation that can be  *)
(* undone to what is there; a merge with a row to come back with, into     *)
(* what is there; a candidate nobody has dealt with as it was made, one    *)
(* dealt with with what it became.                                         *)
GoodTask(k, reqs, cands, n, strayed) ==
    /\ k \in TaskRow(n)
    /\ k.closedAt # 0 => k.status = "cancelled"
    /\ k.last = "done" => k.was \in TaskStatuses
    /\ k.req # None =>
        reqs[k.req].here /\ k.cand = None /\ (k.project = reqs[k.req].project \/ strayed)
    /\ k.cand # None => cands[k.cand].status = "pending"
    /\ k.undo # None /\ k.undo.req # None => reqs[k.undo.req].here

GoodReq(k, n) == k \in ReqRow(n) /\ (k.here => k.project \in Projects)

GoodMerge(g, r, reqs, n) ==
    g # None =>
        /\ g \in MergeRow(n) /\ GoodReq(g.row, n) /\ g.row.here
        /\ ~reqs[r].here /\ reqs[g.into].here

GoodCand(k, reqs, n) ==
    /\ k \in CandRow(n)
    /\ k.status = "pending" => k = NewCand
    /\ k.status \in {"claimed", "merged"} => k.req \in Reqs /\ reqs[k.req].here

GoodTables(reqs, merges, cands, tasks, n, strayed) ==
    /\ reqs = [r \in Reqs |-> reqs[r]] /\ \A r \in Reqs : GoodReq(reqs[r], n)
    /\ merges = [r \in Reqs |-> merges[r]] /\ \A r \in Reqs : GoodMerge(merges[r], r, reqs, n)
    /\ cands = [c \in Cands |-> cands[c]] /\ \A c \in Cands : GoodCand(cands[c], reqs, n)
    /\ tasks = [t \in Tasks |-> tasks[t]]
    /\ \A t \in Tasks : GoodTask(tasks[t], reqs, cands, n, t \in strayed)

(* The database is a record of its tables.                                 *)
Columns == {"reqs", "merges", "cands", "tasks", "home", "move", "clock", "opened",
            "lapsed", "astray", "strayed", "edits", "moves"}
IsPool(p) == p = [x \in Columns |-> p[x]]

Good(p) ==
    /\ IsPool(p)
    /\ p.clock \in Nat /\ p.home \in Somewhere /\ p.move \in MoveRow \cup {None}
    /\ GoodTables(p.reqs, p.merges, p.cands, p.tasks, p.clock, p.strayed)

Inv ==
    /\ Good(pool)
    /\ pool.clock \in 0 .. MaxClock /\ pool.edits \in 0 .. MaxEdits
    /\ pool.moves \in 0 .. MaxMoves

(* What an operation counts.                                               *)
Counts(p, q, d) == q.clock = p.clock + d /\ q.edits = p.edits /\ q.moves = p.moves

-----------------------------------------------------------------------------
(* What the operations have in common.                                     *)

(* Only the rows of tasks change.                                          *)
LEMMA TasksPut ==
  ASSUME NEW p, Good(p), NEW T, T = [t \in Tasks |-> T[t]],
         \A t \in Tasks : GoodTask(T[t], p.reqs, p.cands, p.clock, t \in p.strayed)
  PROVE  Good([p EXCEPT !.tasks = T]) /\ Counts(p, [p EXCEPT !.tasks = T], 0)
<1> DEFINE q == [p EXCEPT !.tasks = T]
<1>1. /\ q.reqs = p.reqs /\ q.merges = p.merges /\ q.cands = p.cands /\ q.tasks = T
      /\ q.home = p.home /\ q.move = p.move /\ q.clock = p.clock /\ q.strayed = p.strayed
      /\ q.edits = p.edits /\ q.moves = p.moves /\ IsPool(q)
  BY DEF Good, IsPool
<1> HIDE DEF q
<1>2. GoodTables(q.reqs, q.merges, q.cands, q.tasks, q.clock, q.strayed)
  BY <1>1 DEF Good, GoodTables
<1>3. Good(q) /\ Counts(p, q, 0)
  BY <1>1, <1>2 DEF Good, Counts
<1> QED BY <1>3 DEF q

(* The rows of one set of tasks are replaced.                              *)
TasksWith(p, S, K) ==
    [p EXCEPT !.tasks = [t \in Tasks |-> IF t \in S THEN K[t] ELSE p.tasks[t]]]

LEMMA SomePut ==
  ASSUME NEW p, Good(p), NEW S, NEW K,
         \A t \in Tasks \cap S :
            GoodTask(K[t], p.reqs, p.cands, p.clock, t \in p.strayed)
  PROVE  Good(TasksWith(p, S, K)) /\ Counts(p, TasksWith(p, S, K), 0)
<1> DEFINE T == [t \in Tasks |-> IF t \in S THEN K[t] ELSE p.tasks[t]]
<1>1. T = [t \in Tasks |-> T[t]]
  OBVIOUS
<1>2. \A t \in Tasks : GoodTask(T[t], p.reqs, p.cands, p.clock, t \in p.strayed)
  BY DEF Good, GoodTables
<1> HIDE DEF T
<1>3. Good([p EXCEPT !.tasks = T]) /\ Counts(p, [p EXCEPT !.tasks = T], 0)
  BY <1>1, <1>2, TasksPut
<1> QED BY <1>3 DEF T, TasksWith

LEMMA RowsOf ==
  ASSUME NEW p, Good(p)
  PROVE  /\ \A t \in Tasks :
               GoodTask(p.tasks[t], p.reqs, p.cands, p.clock, t \in p.strayed)
         /\ \A r \in Reqs : GoodReq(p.reqs[r], p.clock)
         /\ \A r \in Reqs : GoodMerge(p.merges[r], r, p.reqs, p.clock)
         /\ \A c \in Cands : GoodCand(p.cands[c], p.reqs, p.clock)
BY DEF Good, GoodTables

-----------------------------------------------------------------------------
(* The rows of tasks, one kind of change at a time.                        *)

LEMMA TurnedGood ==
  ASSUME NEW k, NEW reqs, NEW cands, NEW n \in Nat, NEW stray, GoodTask(k, reqs, cands, n, stray),
         NEW s \in TaskStatuses
  PROVE  GoodTask(Turned(k, s), reqs, cands, n, stray)
<1>1. 0 \in Stamps(n) /\ k \in TaskRow(n)
  BY DEF GoodTask, Stamps
<1>2. Turned(k, s) \in TaskRow(n)
  BY <1>1 DEF Turned, TaskRow
<1> QED BY <1>1, <1>2 DEF GoodTask, Turned, TaskRow

LEMMA HungGood ==
  ASSUME NEW k, NEW reqs, NEW cands, NEW n \in Nat, NEW stray, GoodTask(k, reqs, cands, n, stray),
         NEW r \in OnReq, NEW c \in OnCand, NEW q \in Somewhere,
         r # None => reqs[r].here /\ c = None /\ q = reqs[r].project,
         c # None => cands[c].status = "pending"
  PROVE  GoodTask(Hung(k, r, c, q), reqs, cands, n, stray)
<1>1. Hung(k, r, c, q) \in TaskRow(n)
  BY DEF GoodTask, Hung, TaskRow
<1> QED BY <1>1 DEF GoodTask, Hung, TaskRow

(* Rejected, StatusSet, CompleteUndone.                                    *)
LEMMA RejectStep ==
  ASSUME NEW p, Good(p), NEW t \in Tasks
  PROVE  Good(Rejected(p, t)) /\ Counts(p, Rejected(p, t), 0)
<1> DEFINE K == [x \in Tasks |-> [Turned(p.tasks[x], "cancelled") EXCEPT !.last = "rejected"]]
<1>1. Rejected(p, t) = TasksWith(p, {t}, K)
  BY DEF Rejected, PutTasks, TasksWith
<1>2. GoodTask(K[t], p.reqs, p.cands, p.clock, t \in p.strayed)
  <2> DEFINE k == Turned(p.tasks[t], "cancelled")
  <2>1. GoodTask(k, p.reqs, p.cands, p.clock, t \in p.strayed)
    BY RowsOf, TurnedGood DEF Good, TaskStatuses
  <2> DEFINE new == [k EXCEPT !.last = "rejected"]
  <2>2. k \in TaskRow(p.clock)
    BY <2>1 DEF GoodTask
  <2> HIDE DEF k
  <2>3. new \in TaskRow(p.clock)
    BY <2>2 DEF TaskRow
  <2>4. /\ new.status = k.status /\ new.closedAt = k.closedAt /\ new.undo = k.undo
        /\ new.req = k.req /\ new.cand = k.cand /\ new.project = k.project
        /\ new.last = "rejected"
    BY <2>2 DEF TaskRow
  <2> HIDE DEF new
  <2>5. GoodTask(new, p.reqs, p.cands, p.clock, t \in p.strayed)
    BY <2>1, <2>3, <2>4 DEF GoodTask
  <2> QED BY <2>5 DEF k, new
<1> HIDE DEF K
<1> QED BY <1>1, <1>2, SomePut

LEMMA StatusStep ==
  ASSUME NEW p, Good(p), NEW t \in Tasks, NEW s \in TaskStatuses
  PROVE  Good(StatusSet(p, t, s)) /\ Counts(p, StatusSet(p, t, s), 0)
<1> DEFINE K == [x \in Tasks |->
                    IF s = "done" THEN [Turned(p.tasks[x], s) EXCEPT !.last = "done",
                                                                     !.was = p.tasks[x].status]
                    ELSE Turned(p.tasks[x], s)]
<1>1. StatusSet(p, t, s) = TasksWith(p, {t}, K)
  BY DEF StatusSet, PutTasks, TasksWith
<1>2. GoodTask(K[t], p.reqs, p.cands, p.clock, t \in p.strayed)
  <2> DEFINE k == Turned(p.tasks[t], s)
             done == [k EXCEPT !.last = "done", !.was = p.tasks[t].status]
  <2>1. GoodTask(k, p.reqs, p.cands, p.clock, t \in p.strayed)
    BY RowsOf, TurnedGood DEF Good
  <2>2. p.tasks[t].status \in TaskStatuses
    BY RowsOf DEF GoodTask, TaskRow
  <2>a. k \in TaskRow(p.clock) /\ p.tasks[t].status \in TaskStatuses
    BY <2>1, <2>2 DEF GoodTask
  <2> HIDE DEF k
  <2>b. done \in TaskRow(p.clock)
    BY <2>a DEF TaskRow
  <2>c. /\ done.status = k.status /\ done.closedAt = k.closedAt /\ done.req = k.req
        /\ done.cand = k.cand /\ done.project = k.project /\ done.undo = k.undo
        /\ done.was = p.tasks[t].status
    BY <2>a DEF TaskRow
  <2> HIDE DEF done
  <2>3. GoodTask(done, p.reqs, p.cands, p.clock, t \in p.strayed)
    BY <2>1, <2>2, <2>b, <2>c DEF GoodTask
  <2> QED BY <2>1, <2>3 DEF k, done
<1> HIDE DEF K
<1> QED BY <1>1, <1>2, SomePut

LEMMA UndoCompleteStep ==
  ASSUME NEW p, Good(p), NEW t \in Tasks, MayUndoComplete(p, t)
  PROVE  Good(CompleteUndone(p, t)) /\ Counts(p, CompleteUndone(p, t), 0)
<1> DEFINE K == [x \in Tasks |-> [Turned(p.tasks[x], p.tasks[x].was) EXCEPT !.was = None]]
<1>1. CompleteUndone(p, t) = TasksWith(p, {t}, K)
  BY DEF CompleteUndone, PutTasks, TasksWith
<1>2. GoodTask(K[t], p.reqs, p.cands, p.clock, t \in p.strayed)
  <2> DEFINE k == Turned(p.tasks[t], p.tasks[t].was)
  <2>1. GoodTask(p.tasks[t], p.reqs, p.cands, p.clock, t \in p.strayed)
    BY RowsOf
  <2>2. p.tasks[t].was \in TaskStatuses
    BY <2>1 DEF MayUndoComplete, GoodTask
  <2>a. GoodTask(k, p.reqs, p.cands, p.clock, t \in p.strayed)
    BY <2>1, <2>2, TurnedGood DEF Good
  <2>b. p.tasks[t] \in TaskRow(p.clock)
    BY <2>1 DEF GoodTask
  <2>c. k.last = "other"
    BY <2>b DEF Turned, TaskRow
  <2>3. GoodTask(k, p.reqs, p.cands, p.clock, t \in p.strayed) /\ k.last = "other"
    BY <2>a, <2>c
  <2> HIDE DEF k
  <2>4. GoodTask([k EXCEPT !.was = None], p.reqs, p.cands, p.clock, t \in p.strayed)
    BY <2>3 DEF GoodTask, TaskRow
  <2> QED BY <2>4 DEF k
<1> HIDE DEF K
<1> QED BY <1>1, <1>2, SomePut

(* What an edit links a task to.                                           *)
LEMMA LinkedGood ==
  ASSUME NEW p, Good(p), NEW t \in Tasks, NEW l \in Links, MayLink(p, p.tasks[t], l)
  PROVE  GoodTask(LinkedTo(p, p.tasks[t], l), p.reqs, p.cands, p.clock, t \in p.strayed)
<1> DEFINE k == p.tasks[t]
           new == LinkedTo(p, k, l)
           G(x) == GoodTask(x, p.reqs, p.cands, p.clock, t \in p.strayed)
<1> SUFFICES G(new)
  OBVIOUS
<1>1. G(k)
  BY RowsOf
<1>2. CASE l.kind = "requirement"
  <2>1. l.to \in Reqs
    BY <1>2 DEF Links, Link
  <2>2. p.reqs[l.to].here /\ p.reqs[l.to].project \in Projects
    BY <1>2, <2>1, RowsOf DEF MayLink, GoodReq
  <2>3. new = [k EXCEPT !.req = l.to, !.cand = None, !.project = p.reqs[l.to].project]
    BY <1>2 DEF LinkedTo
  <2>4. k \in TaskRow(p.clock)
    BY <1>1 DEF GoodTask
  <2> HIDE DEF k, new
  <2>5. new \in TaskRow(p.clock)
    BY <2>1, <2>2, <2>3, <2>4 DEF TaskRow, OnReq, OnCand, Somewhere
  <2>6. /\ new.status = k.status /\ new.closedAt = k.closedAt /\ new.undo = k.undo
        /\ new.last = k.last /\ new.was = k.was
        /\ new.req = l.to /\ new.cand = None /\ new.project = p.reqs[l.to].project
    BY <2>3, <2>4 DEF TaskRow
  <2> QED BY <1>1, <2>2, <2>5, <2>6 DEF GoodTask
<1>3. CASE l.kind = "candidate"
  <2>1. l.to \in Cands /\ p.cands[l.to].status = "pending"
    BY <1>3 DEF Links, Link, MayLink
  <2>2. new = [k EXCEPT !.req = None, !.cand = l.to]
    BY <1>3 DEF LinkedTo
  <2>4. k \in TaskRow(p.clock)
    BY <1>1 DEF GoodTask
  <2> HIDE DEF k, new
  <2>5. new \in TaskRow(p.clock)
    BY <2>4, <2>2, <2>1 DEF TaskRow, OnReq, OnCand
  <2>6. /\ new.status = k.status /\ new.closedAt = k.closedAt /\ new.undo = k.undo
        /\ new.last = k.last /\ new.was = k.was
        /\ new.req = None /\ new.cand = l.to /\ new.project = k.project
    BY <2>4, <2>2 DEF TaskRow
  <2> QED BY <1>1, <2>1, <2>5, <2>6 DEF GoodTask
<1>4. CASE l.kind = "off"
  <2>1. new = [k EXCEPT !.req = None, !.cand = None]
    BY <1>4 DEF LinkedTo
  <2>4. k \in TaskRow(p.clock)
    BY <1>1 DEF GoodTask
  <2> HIDE DEF k, new
  <2>5. new \in TaskRow(p.clock)
    BY <2>4, <2>1 DEF TaskRow, OnReq, OnCand
  <2>6. /\ new.status = k.status /\ new.closedAt = k.closedAt /\ new.undo = k.undo
        /\ new.last = k.last /\ new.was = k.was
        /\ new.req = None /\ new.cand = None /\ new.project = k.project
    BY <2>4, <2>1 DEF TaskRow
  <2> QED BY <1>1, <2>5, <2>6 DEF GoodTask
<1>5. CASE l.kind = "project"
  <2> DEFINE r == IF k.req # None /\ l.to # p.reqs[k.req].project THEN None ELSE k.req
             c == IF InScope(p, l.to) THEN k.cand ELSE None
  <2>1. l.to \in Somewhere
    BY <1>5 DEF Links, Link, Somewhere
  <2>2. new = [k EXCEPT !.project = l.to, !.req = r, !.cand = c]
    BY <1>5 DEF LinkedTo
  <2>3. r \in OnReq /\ c \in OnCand
    BY <1>1 DEF GoodTask, TaskRow, OnReq, OnCand
  <2>4. r # None => r = k.req /\ l.to = p.reqs[k.req].project
    OBVIOUS
  <2>5. c # None => c = k.cand
    OBVIOUS
  <2> HIDE DEF k, new, r, c
  <2>6. k \in TaskRow(p.clock)
    BY <1>1 DEF GoodTask
  <2>7. new \in TaskRow(p.clock)
    BY <2>1, <2>2, <2>3, <2>6 DEF TaskRow
  <2>8. /\ new.status = k.status /\ new.closedAt = k.closedAt /\ new.undo = k.undo
        /\ new.last = k.last /\ new.was = k.was
        /\ new.req = r /\ new.cand = c /\ new.project = l.to
    BY <2>2, <2>6 DEF TaskRow
  <2> QED BY <1>1, <2>4, <2>5, <2>7, <2>8 DEF GoodTask
<1>6. CASE l.kind = "keep"
  BY <1>1, <1>6 DEF LinkedTo
<1> QED BY <1>2, <1>3, <1>4, <1>5, <1>6 DEF Links, Link

LEMMA NotedGood ==
  ASSUME NEW k, NEW new, NEW reqs, NEW cands, NEW n \in Nat, NEW stray,
         GoodTask(k, reqs, cands, n, stray), GoodTask(new, reqs, cands, n, stray)
  PROVE  GoodTask(Noted(k, new), reqs, cands, n, stray)
<1> DEFINE b == new.relinked \/ new.req # k.req \/ new.cand # k.cand
           note == [new EXCEPT !.last = "other", !.relinked = b]
<1>1. b \in BOOLEAN
  OBVIOUS
<1> HIDE DEF b
<1>2. note \in TaskRow(n)
  BY <1>1 DEF GoodTask, TaskRow
<1>3. GoodTask(note, reqs, cands, n, stray)
  BY <1>2 DEF GoodTask, TaskRow
<1> QED BY <1>3 DEF Noted, b

LEMMA UpdateStep ==
  ASSUME NEW p, Good(p), NEW t \in Tasks, NEW l \in Links, MayLink(p, p.tasks[t], l)
  PROVE  Good(Updated(p, t, l)) /\ Counts(p, Updated(p, t, l), 0)
<1> DEFINE K == [x \in Tasks |-> Noted(p.tasks[x], LinkedTo(p, p.tasks[x], l))]
<1>1. Updated(p, t, l) = TasksWith(p, {t}, K)
  BY DEF Updated, PutTasks, TasksWith
<1>2. GoodTask(K[t], p.reqs, p.cands, p.clock, t \in p.strayed)
  BY RowsOf, LinkedGood, NotedGood DEF Good
<1> HIDE DEF K
<1> QED BY <1>1, <1>2, SomePut

LEMMA AttachStep ==
  ASSUME NEW p, Good(p), NEW t \in Tasks, NEW r \in Here(p)
  PROVE  Good(Attached(p, t, r)) /\ Counts(p, Attached(p, t, r), 0)
<1> DEFINE K == [x \in Tasks |-> IF p.tasks[x].req = r THEN [p.tasks[x] EXCEPT !.cand = None]
                                 ELSE Hung(p.tasks[x], r, None, p.reqs[r].project)]
<1>1. Attached(p, t, r) = TasksWith(p, {t}, K)
  BY DEF Attached, PutTasks, TasksWith
<1>2. GoodTask(K[t], p.reqs, p.cands, p.clock, t \in p.strayed)
  <2> DEFINE k == p.tasks[t]
             G(x) == GoodTask(x, p.reqs, p.cands, p.clock, t \in p.strayed)
  <2>1. G(k)
    BY RowsOf
  <2>2. r \in Reqs /\ p.reqs[r].here /\ p.reqs[r].project \in Projects /\ p.clock \in Nat
    BY RowsOf DEF Here, GoodReq, Good
  <2>3. G([k EXCEPT !.cand = None])
    BY <2>1 DEF GoodTask, TaskRow, OnCand
  <2>4. G(Hung(k, r, None, p.reqs[r].project))
    BY <2>1, <2>2, HungGood DEF OnReq, OnCand, Somewhere
  <2> QED BY <2>3, <2>4
<1> HIDE DEF K
<1> QED BY <1>1, <1>2, SomePut

LEMMA ConfirmStep ==
  ASSUME NEW p, Good(p), NEW t \in Tasks, NEW l \in Links, MayConfirm(p, t, l)
  PROVE  Good(Confirmed(p, t, l)) /\ Counts(p, Confirmed(p, t, l), 0)
<1> DEFINE New(k) == Noted(k, LinkedTo(p, k, l))
           Undo(k) == IF LinkOf(New(k)) = LinkOf(k) THEN None ELSE LinkOf(k)
           K == [x \in Tasks |->
                   IF p.tasks[x].status = "confirmed" THEN New(p.tasks[x])
                   ELSE [Turned(New(p.tasks[x]), "confirmed")
                            EXCEPT !.last = "confirmed", !.undo = Undo(p.tasks[x])]]
<1>1. Confirmed(p, t, l) = TasksWith(p, {t}, K)
  BY DEF Confirmed, PutTasks, TasksWith
<1>2. GoodTask(K[t], p.reqs, p.cands, p.clock, t \in p.strayed)
  <2> DEFINE k == p.tasks[t]
             G(x) == GoodTask(x, p.reqs, p.cands, p.clock, t \in p.strayed)
             new == New(k)
             turned == Turned(new, "confirmed")
             undo == Undo(k)
  <2>1. G(k) /\ G(new)
    BY RowsOf, LinkedGood, NotedGood DEF Good, MayConfirm
  <2>2. G(turned)
    BY <2>1, TurnedGood DEF Good, TaskStatuses, OpenTasks
  <2>3. undo \in LinkRow \cup {None}
    BY <2>1 DEF LinkOf, GoodTask, TaskRow, LinkRow
  <2>4. undo # None => undo.req = k.req
    BY DEF LinkOf
  <2>5. K[t] = IF k.status = "confirmed" THEN new
               ELSE [turned EXCEPT !.last = "confirmed", !.undo = undo]
    OBVIOUS
  <2>6. turned \in TaskRow(p.clock)
    BY <2>2 DEF GoodTask
  <2> DEFINE confirmed == [turned EXCEPT !.last = "confirmed", !.undo = undo]
  <2> HIDE DEF K, k, new, turned, undo
  <2>7. confirmed \in TaskRow(p.clock)
    BY <2>3, <2>6 DEF TaskRow
  <2>8. /\ confirmed.status = turned.status /\ confirmed.closedAt = turned.closedAt
        /\ confirmed.undo = undo /\ confirmed.last = "confirmed"
        /\ confirmed.req = turned.req /\ confirmed.cand = turned.cand
        /\ confirmed.project = turned.project
    BY <2>6 DEF TaskRow
  <2> HIDE DEF confirmed
  <2>9. G(confirmed)
    BY <2>1, <2>2, <2>4, <2>7, <2>8 DEF GoodTask
  <2> QED BY <2>1, <2>5, <2>9 DEF confirmed
<1> HIDE DEF K
<1> QED BY <1>1, <1>2, SomePut

LEMMA UndoReviewStep ==
  ASSUME NEW p, Good(p), NEW t \in Tasks
  PROVE  Good(ReviewUndone(p, t)) /\ Counts(p, ReviewUndone(p, t), 0)
<1> DEFINE K == [x \in Tasks |->
                   Turned(IF p.tasks[x].last = "confirmed" /\ p.tasks[x].undo # None
                          THEN Unlinked(p, p.tasks[x]) ELSE p.tasks[x], "pending_confirm")]
<1>1. ReviewUndone(p, t) = TasksWith(p, {t}, K)
  BY DEF ReviewUndone, PutTasks, TasksWith
<1>2. GoodTask(K[t], p.reqs, p.cands, p.clock, t \in p.strayed)
  <2> DEFINE k == p.tasks[t]
             G(x) == GoodTask(x, p.reqs, p.cands, p.clock, t \in p.strayed)
  <2>1. G(k) /\ p.clock \in Nat
    BY RowsOf DEF Good
  <2>2. ASSUME k.undo # None
        PROVE  G(Unlinked(p, k))
    <3> DEFINE r == IF k.undo.req \in Here(p) THEN k.undo.req ELSE None
               c == IF r = None /\ k.undo.cand # None /\ p.cands[k.undo.cand].status = "pending"
                    THEN k.undo.cand ELSE None
               q == IF r = None THEN k.undo.project ELSE p.reqs[r].project
               hung == Hung(k, r, c, q)
    <3>1. k.undo \in LinkRow
      BY <2>1, <2>2 DEF GoodTask, TaskRow
    <3>2. r \in OnReq /\ (r # None => r \in Reqs /\ p.reqs[r].here /\ p.reqs[r].project \in Projects)
      BY RowsOf DEF OnReq, Here, GoodReq
    <3>3. c \in OnCand /\ (c # None => p.cands[c].status = "pending" /\ r = None)
      BY <3>1 DEF OnCand, LinkRow
    <3>4. q \in Somewhere
      BY <3>1, <3>2 DEF Somewhere, LinkRow
    <3>5. r # None => q = p.reqs[r].project
      OBVIOUS
    <3>6. Unlinked(p, k) = [hung EXCEPT !.undo = None]
      BY DEF Unlinked
    <3> HIDE DEF k, r, c, q
    <3>7. G(hung)
      BY <2>1, <3>2, <3>3, <3>4, <3>5, HungGood
    <3> HIDE DEF hung
    <3> QED BY <3>6, <3>7 DEF GoodTask, TaskRow
  <2>3. G(IF k.last = "confirmed" /\ k.undo # None THEN Unlinked(p, k) ELSE k)
    BY <2>1, <2>2
  <2> QED BY <2>1, <2>3, TurnedGood DEF TaskStatuses, OpenTasks
<1> HIDE DEF K
<1> QED BY <1>1, <1>2, SomePut

-----------------------------------------------------------------------------
(* Rows stay good: with a later clock, and when requirements change in     *)
(* other columns than the two that the rest of the tables looks at.        *)

LEMMA LaterRows ==
  ASSUME NEW n \in Nat, NEW m \in Nat, n <= m
  PROVE  /\ \A k \in TaskRow(n) : k \in TaskRow(m)
         /\ \A k \in StatusUndo(n) : k \in StatusUndo(m)
         /\ \A k \in ReqRow(n) : k \in ReqRow(m)
         /\ \A k \in ReopenRow(n) : k \in ReopenRow(m)
         /\ \A k \in MergeRow(n) : k \in MergeRow(m)
         /\ \A k \in CandUndo(n) : k \in CandUndo(m)
         /\ \A k \in CandRow(n) : k \in CandRow(m)
<1>1. \A a \in Stamps(n) : a \in Stamps(m)
  BY DEF Stamps
<1>2. \A k \in TaskRow(n) : k \in TaskRow(m)
  BY <1>1 DEF TaskRow
<1>3. \A k \in StatusUndo(n) : k \in StatusUndo(m)
  BY <1>1 DEF StatusUndo
<1>4. \A k \in ReqRow(n) : k \in ReqRow(m)
  BY <1>1, <1>3 DEF ReqRow
<1>5. \A k \in ReopenRow(n) : k \in ReopenRow(m)
  BY <1>1 DEF ReopenRow
<1>6. \A k \in MergeRow(n) : k \in MergeRow(m)
  BY <1>1, <1>4, <1>5 DEF MergeRow
<1>7. \A k \in CandUndo(n) : k \in CandUndo(m)
  BY <1>5 DEF CandUndo
<1>8. \A k \in CandRow(n) : k \in CandRow(m)
  BY <1>1, <1>7 DEF CandRow
<1> QED BY <1>2, <1>3, <1>4, <1>5, <1>6, <1>7, <1>8

LEMMA LaterTables ==
  ASSUME NEW n \in Nat, NEW reqs, NEW merges, NEW cands, NEW tasks, NEW strayed,
         GoodTables(reqs, merges, cands, tasks, n, strayed)
  PROVE  GoodTables(reqs, merges, cands, tasks, n + 1, strayed)
<1> DEFINE m == n + 1
<1>0. m \in Nat /\ n <= m
  OBVIOUS
<1> HIDE DEF m
<1>1. \A r \in Reqs : GoodReq(reqs[r], m)
  BY <1>0, LaterRows DEF GoodTables, GoodReq
<1>2. \A r \in Reqs : GoodMerge(merges[r], r, reqs, m)
  BY <1>0, LaterRows DEF GoodTables, GoodMerge, GoodReq
<1>3. \A c \in Cands : GoodCand(cands[c], reqs, m)
  BY <1>0, LaterRows DEF GoodTables, GoodCand
<1>4. \A t \in Tasks : GoodTask(tasks[t], reqs, cands, m, t \in strayed)
  BY <1>0, LaterRows DEF GoodTables, GoodTask
<1> QED BY <1>1, <1>2, <1>3, <1>4 DEF GoodTables, m

LEMMA SamePlaces ==
  ASSUME NEW n \in Nat, NEW reqs, NEW merges, NEW cands, NEW tasks, NEW strayed,
         GoodTables(reqs, merges, cands, tasks, n, strayed),
         NEW new, new = [r \in Reqs |-> new[r]], \A r \in Reqs : GoodReq(new[r], n),
         \A r \in Reqs : new[r].here = reqs[r].here /\ new[r].project = reqs[r].project
  PROVE  GoodTables(new, merges, cands, tasks, n, strayed)
<1>1. \A r \in Reqs : GoodMerge(merges[r], r, new, n)
  BY DEF GoodTables, GoodMerge, MergeRow
<1>2. \A c \in Cands : GoodCand(cands[c], new, n)
  BY DEF GoodTables, GoodCand
<1>3. \A t \in Tasks : GoodTask(tasks[t], new, cands, n, t \in strayed)
  <2> TAKE t \in Tasks
  <2>1. GoodTask(tasks[t], reqs, cands, n, t \in strayed)
    BY DEF GoodTables
  <2>2. tasks[t].req # None => tasks[t].req \in Reqs
    BY <2>1 DEF GoodTask, TaskRow, OnReq
  <2>3. tasks[t].undo # None /\ tasks[t].undo.req # None => tasks[t].undo.req \in Reqs
    <3>1. tasks[t].undo # None => tasks[t].undo \in LinkRow
      BY <2>1 DEF GoodTask, TaskRow
    <3> QED BY <3>1 DEF LinkRow, OnReq
  <2> QED BY <2>1, <2>2, <2>3 DEF GoodTask
<1> QED BY <1>1, <1>2, <1>3 DEF GoodTables

(* One row of a requirement, or all rows of tasks, are replaced.           *)
LEMMA OnePlace ==
  ASSUME NEW n \in Nat, NEW reqs, NEW merges, NEW cands, NEW tasks, NEW strayed,
         GoodTables(reqs, merges, cands, tasks, n, strayed),
         NEW r \in Reqs, NEW k, GoodReq(k, n), k.here = reqs[r].here,
         k.project = reqs[r].project
  PROVE  GoodTables([reqs EXCEPT ![r] = k], merges, cands, tasks, n, strayed)
<1> DEFINE new == [reqs EXCEPT ![r] = k]
<1>1. reqs = [x \in Reqs |-> reqs[x]] /\ \A x \in Reqs : GoodReq(reqs[x], n)
  BY DEF GoodTables
<1>2. new = [x \in Reqs |-> new[x]] /\ new[r] = k /\ \A x \in Reqs \ {r} : new[x] = reqs[x]
  BY <1>1
<1> HIDE DEF new
<1>3. \A x \in Reqs : GoodReq(new[x], n)
  BY <1>1, <1>2
<1>4. \A x \in Reqs : new[x].here = reqs[x].here /\ new[x].project = reqs[x].project
  BY <1>2
<1>5. GoodTables(new, merges, cands, tasks, n, strayed)
  BY <1>2, <1>3, <1>4, SamePlaces
<1> QED BY <1>5 DEF new

LEMMA TasksIn ==
  ASSUME NEW n, NEW reqs, NEW merges, NEW cands, NEW tasks, NEW strayed,
         GoodTables(reqs, merges, cands, tasks, n, strayed),
         NEW new, new = [t \in Tasks |-> new[t]], NEW s,
         \A t \in Tasks : GoodTask(new[t], reqs, cands, n, t \in s)
  PROVE  GoodTables(reqs, merges, cands, new, n, s)
BY DEF GoodTables

(* A state of a requirement that is undone, settled or changed.            *)
ReqWith(k, s, a, u) == [k EXCEPT !.status = s, !.changed = a, !.undo = u]

LEMMA ReqTurned ==
  ASSUME NEW n \in Nat, NEW k, GoodReq(k, n), NEW s \in ReqStatuses, NEW a \in Stamps(n),
         NEW u, u = None \/ u \in StatusUndo(n)
  PROVE  /\ GoodReq(ReqWith(k, s, a, u), n)
         /\ ReqWith(k, s, a, u).here = k.here /\ ReqWith(k, s, a, u).project = k.project
<1> DEFINE new == ReqWith(k, s, a, u)
<1>1. k \in ReqRow(n)
  BY DEF GoodReq
<1>2. new \in ReqRow(n)
  BY <1>1 DEF ReqRow, ReqWith
<1>3. new.here = k.here /\ new.project = k.project
  BY <1>1 DEF ReqRow, ReqWith
<1> QED BY <1>2, <1>3 DEF GoodReq

(* The tables after an operation that counts nothing.                      *)
LEMMA ReqUndoneTables ==
  ASSUME NEW p, Good(p), NEW r \in Reqs
  PROVE  LET q == ReqUndone(p, r) IN
         /\ IsPool(q) /\ q.merges = p.merges /\ q.cands = p.cands
         /\ q.home = p.home /\ q.move = p.move /\ q.strayed = p.strayed /\ Counts(p, q, 0)
         /\ q.reqs = [p.reqs EXCEPT ![r] = [p.reqs[r] EXCEPT
                        !.status = p.reqs[r].undo.status, !.changed = p.reqs[r].undo.changed,
                        !.undo = None]]
         /\ q.tasks = [t \in Tasks |-> IF t \in Reopening(p, r)
                        THEN Turned(p.tasks[t], p.reqs[r].undo.tasks[t].status)
                        ELSE p.tasks[t]]
<1>1. IsPool(p) /\ p.clock \in Nat
  BY DEF Good
<1>2. IsPool(ReqUndone(p, r))
  BY <1>1 DEF IsPool, Columns, ReqUndone
<1>3. DOMAIN p = Columns
  BY <1>1 DEF IsPool
<1>4. ReqUndone(p, r).merges = p.merges
  BY <1>3 DEF Columns, ReqUndone
<1>5. ReqUndone(p, r).reqs = [p.reqs EXCEPT ![r] = [p.reqs[r] EXCEPT
                        !.status = p.reqs[r].undo.status, !.changed = p.reqs[r].undo.changed,
                        !.undo = None]]
  BY <1>3 DEF Columns, ReqUndone
<1>6. ReqUndone(p, r).tasks = [t \in Tasks |-> IF t \in Reopening(p, r)
                        THEN Turned(p.tasks[t], p.reqs[r].undo.tasks[t].status)
                        ELSE p.tasks[t]]
  BY <1>3 DEF Columns, ReqUndone
<1>7. /\ ReqUndone(p, r).cands = p.cands /\ ReqUndone(p, r).home = p.home
      /\ ReqUndone(p, r).move = p.move /\ ReqUndone(p, r).strayed = p.strayed
  BY <1>3 DEF Columns, ReqUndone
<1>8. /\ ReqUndone(p, r).clock = p.clock /\ ReqUndone(p, r).edits = p.edits
      /\ ReqUndone(p, r).moves = p.moves
  BY <1>3 DEF Columns, ReqUndone
<1>9. Counts(p, ReqUndone(p, r), 0)
  BY <1>1, <1>8 DEF Counts
<1> QED BY <1>2, <1>4, <1>5, <1>6, <1>7, <1>9

LEMMA UndoReqStep ==
  ASSUME NEW p, Good(p), NEW r \in Reqs, MayUndoReq(p, r)
  PROVE  Good(ReqUndone(p, r)) /\ Counts(p, ReqUndone(p, r), 0)
<1> DEFINE q == ReqUndone(p, r)
           k == p.reqs[r]
           n == p.clock
           new == ReqWith(k, k.undo.status, k.undo.changed, None)
<1>0. /\ IsPool(q) /\ q.merges = p.merges /\ q.cands = p.cands
      /\ q.home = p.home /\ q.move = p.move /\ q.strayed = p.strayed /\ Counts(p, q, 0)
      /\ q.reqs = [p.reqs EXCEPT ![r] = new]
      /\ q.tasks = [t \in Tasks |-> IF t \in Reopening(p, r)
                        THEN Turned(p.tasks[t], k.undo.tasks[t].status) ELSE p.tasks[t]]
  BY ReqUndoneTables DEF ReqWith
<1> HIDE DEF q
<1>1. n \in Nat /\ GoodReq(k, n)
  BY RowsOf DEF Good
<1>2. k.undo \in StatusUndo(n)
  BY <1>1 DEF MayUndoReq, GoodReq, ReqRow
<1>3. /\ k.undo.status \in ReqStatuses /\ k.undo.changed \in Stamps(n)
      /\ \A t \in Reopening(p, r) : k.undo.tasks[t].status \in TaskStatuses
  <2>1. \A t \in Reopening(p, r) : k.undo.tasks[t] \in ClosedRow
    BY <1>2 DEF Reopening, StatusUndo
  <2> QED BY <1>2, <2>1 DEF StatusUndo, ClosedRow
<1>4. \A t \in Tasks : GoodTask(q.tasks[t], p.reqs, p.cands, n, t \in p.strayed)
  <2> TAKE t \in Tasks
  <2>1. CASE t \in Reopening(p, r)
    <3>1. q.tasks[t] = Turned(p.tasks[t], k.undo.tasks[t].status)
      BY <2>1, <1>0
    <3> HIDE DEF k
    <3> QED BY <1>1, <1>3, <2>1, <3>1, RowsOf, TurnedGood
  <2>2. CASE t \notin Reopening(p, r)
    <3>1. q.tasks[t] = p.tasks[t]
      BY <2>2, <1>0
    <3> QED BY <3>1, RowsOf
  <2> QED BY <2>1, <2>2
<1>5. GoodTables(p.reqs, p.merges, p.cands, q.tasks, n, p.strayed)
  <2>1. q.tasks = [t \in Tasks |-> q.tasks[t]]
    BY <1>0
  <2> QED BY <1>4, <2>1, TasksIn DEF Good
<1>6. GoodReq(new, n) /\ new.here = k.here /\ new.project = k.project
  <2> HIDE DEF k, n
  <2> QED BY <1>1, <1>3, ReqTurned
<1> HIDE DEF new
<1>7. GoodTables(q.reqs, p.merges, p.cands, q.tasks, n, p.strayed)
  BY <1>0, <1>1, <1>5, <1>6, OnePlace
<1>8. Good(q) /\ Counts(p, q, 0)
  BY <1>0, <1>7 DEF Good, Counts
<1> QED BY <1>8 DEF q

-----------------------------------------------------------------------------
(* A change of status of a requirement.                                    *)
ClosedAt(k, a) == [Turned(k, "cancelled") EXCEPT !.closedAt = a]

LEMMA ClosedGood ==
  ASSUME NEW k, NEW reqs, NEW cands, NEW n \in Nat, NEW stray, GoodTask(k, reqs, cands, n, stray),
         NEW a \in Stamps(n)
  PROVE  GoodTask(ClosedAt(k, a), reqs, cands, n, stray)
<1> DEFINE turned == Turned(k, "cancelled")
           closed == [turned EXCEPT !.closedAt = a]
<1>1. GoodTask(turned, reqs, cands, n, stray)
  BY TurnedGood DEF TaskStatuses
<1>2. k \in TaskRow(n)
  BY DEF GoodTask
<1>3. turned.status = "cancelled" /\ turned.last = "other"
  BY <1>2 DEF Turned, TaskRow
<1> HIDE DEF turned
<1>4. turned \in TaskRow(n)
  BY <1>1 DEF GoodTask
<1>5. closed \in TaskRow(n)
  BY <1>4 DEF TaskRow
<1>6. /\ closed.status = turned.status /\ closed.undo = turned.undo
      /\ closed.last = turned.last /\ closed.req = turned.req /\ closed.cand = turned.cand
      /\ closed.project = turned.project
  BY <1>4 DEF TaskRow
<1> HIDE DEF closed
<1>7. GoodTask(closed, reqs, cands, n, stray)
  BY <1>1, <1>3, <1>5, <1>6 DEF GoodTask
<1> QED BY <1>7 DEF ClosedAt, closed, turned

StatusUndone(p, r, S) ==
    [at |-> Stamp(p), status |-> p.reqs[r].status, changed |-> p.reqs[r].changed,
     tasks |-> [t \in Tasks |->
        IF t \in S THEN [status |-> p.tasks[t].status, req |-> r] ELSE None]]

LEMMA ReqSetTables ==
  ASSUME NEW p, Good(p), NEW r \in Reqs, NEW s, NEW close
  PROVE  LET q == ReqSet(p, r, s, close)
             S == Closing(p, r, s, close) IN
         /\ IsPool(q) /\ q.merges = p.merges /\ q.cands = p.cands
         /\ q.home = p.home /\ q.move = p.move /\ q.strayed = p.strayed /\ Counts(p, q, 1)
         /\ q.reqs = [p.reqs EXCEPT ![r] =
                        ReqWith(p.reqs[r], s, Stamp(p), StatusUndone(p, r, S))]
         /\ q.tasks = [t \in Tasks |-> IF t \in S THEN ClosedAt(p.tasks[t], Stamp(p))
                                       ELSE p.tasks[t]]
<1> DEFINE q == ReqSet(p, r, s, close)
<1>1. IsPool(p) /\ DOMAIN p = Columns
  BY DEF Good, IsPool
<1>2. IsPool(q)
  BY <1>1 DEF IsPool, Columns, ReqSet, PutTasks
<1>3. q.merges = p.merges /\ q.cands = p.cands
  BY <1>1 DEF Columns, ReqSet, PutTasks
<1>4. q.home = p.home /\ q.move = p.move /\ q.strayed = p.strayed
  BY <1>1 DEF Columns, ReqSet, PutTasks
<1>5. q.clock = p.clock + 1 /\ q.edits = p.edits /\ q.moves = p.moves
  BY <1>1 DEF Columns, ReqSet, PutTasks
<1>6. q.reqs = [p.reqs EXCEPT ![r] =
        ReqWith(p.reqs[r], s, Stamp(p), StatusUndone(p, r, Closing(p, r, s, close)))]
  BY <1>1 DEF Columns, ReqSet, PutTasks, ReqWith, StatusUndone
<1>7. q.tasks = [t \in Tasks |-> IF t \in Closing(p, r, s, close)
                    THEN ClosedAt(p.tasks[t], Stamp(p)) ELSE p.tasks[t]]
  BY <1>1 DEF Columns, ReqSet, PutTasks, ClosedAt
<1> QED BY <1>2, <1>3, <1>4, <1>5, <1>6, <1>7 DEF Counts

LEMMA ReqSetStep ==
  ASSUME NEW p, Good(p), NEW r \in Reqs, NEW s \in ReqStatuses, NEW close
  PROVE  Good(ReqSet(p, r, s, close)) /\ Counts(p, ReqSet(p, r, s, close), 1)
<1> DEFINE q == ReqSet(p, r, s, close)
           S == Closing(p, r, s, close)
           u == StatusUndone(p, r, S)
           n == p.clock
           new == ReqWith(p.reqs[r], s, Stamp(p), u)
<1>0. /\ IsPool(q) /\ q.merges = p.merges /\ q.cands = p.cands
      /\ q.home = p.home /\ q.move = p.move /\ q.strayed = p.strayed /\ Counts(p, q, 1)
      /\ q.reqs = [p.reqs EXCEPT ![r] = new]
      /\ q.tasks = [t \in Tasks |-> IF t \in S THEN ClosedAt(p.tasks[t], Stamp(p))
                                    ELSE p.tasks[t]]
  BY ReqSetTables
<1> HIDE DEF q
<1>1. n \in Nat /\ Stamp(p) = n + 1 /\ Stamp(p) \in Stamps(n + 1) /\ n + 1 \in Nat
  BY DEF Good, Stamp, Stamps
<1>2. GoodTables(p.reqs, p.merges, p.cands, p.tasks, n + 1, p.strayed)
  BY <1>1, LaterTables DEF Good
<1>3. /\ GoodReq(p.reqs[r], n + 1)
      /\ \A t \in Tasks : GoodTask(p.tasks[t], p.reqs, p.cands, n + 1, t \in p.strayed)
  BY <1>2 DEF GoodTables
<1>4. u \in StatusUndo(n + 1)
  <2>1. p.reqs[r].status \in ReqStatuses /\ p.reqs[r].changed \in Stamps(n + 1)
    BY <1>3 DEF GoodReq, ReqRow
  <2>2. \A t \in Tasks : [status |-> p.tasks[t].status, req |-> r] \in ClosedRow
    BY <1>3 DEF GoodTask, TaskRow, ClosedRow
  <2> HIDE DEF S
  <2> QED BY <1>1, <2>1, <2>2 DEF StatusUndone, StatusUndo
<1> HIDE DEF S, u
<1>5. GoodReq(new, n + 1) /\ new.here = p.reqs[r].here /\ new.project = p.reqs[r].project
  BY <1>1, <1>3, <1>4, ReqTurned
<1>6. \A t \in Tasks : GoodTask(q.tasks[t], p.reqs, p.cands, n + 1, t \in p.strayed)
  <2> TAKE t \in Tasks
  <2>1. q.tasks[t] = IF t \in S THEN ClosedAt(p.tasks[t], Stamp(p)) ELSE p.tasks[t]
    BY <1>0
  <2> QED BY <1>1, <1>3, <2>1, ClosedGood
<1>7. q.tasks = [t \in Tasks |-> q.tasks[t]]
  BY <1>0
<1>8. GoodTables(p.reqs, p.merges, p.cands, q.tasks, n + 1, p.strayed)
  BY <1>2, <1>6, <1>7, TasksIn
<1> HIDE DEF new
<1>9. GoodTables(q.reqs, p.merges, p.cands, q.tasks, n + 1, p.strayed)
  BY <1>0, <1>1, <1>5, <1>8, OnePlace
<1>10. Good(q) /\ Counts(p, q, 1)
  BY <1>0, <1>1, <1>9 DEF Good, Counts
<1> QED BY <1>10 DEF q

-----------------------------------------------------------------------------
(* A requirement and its tasks, or a meeting and its, in another project.  *)

Projected(k, q) == [k EXCEPT !.project = q]

LEMMA ProjectStep ==
  ASSUME NEW p, Good(p), NEW r \in Here(p), NEW q \in Projects
  PROVE  LET new == ProjectChanged(p, r, q) IN Good(new) /\ Counts(p, new, 0)
<1> DEFINE new == ProjectChanged(p, r, q)
           n == p.clock
<1>1. IsPool(p) /\ DOMAIN p = Columns /\ r \in Reqs /\ n \in Nat
  BY DEF Good, IsPool, Here
<1>2. IsPool(new)
  BY <1>1 DEF IsPool, Columns, ProjectChanged, PutTasks
<1>3. /\ new.merges = p.merges /\ new.cands = p.cands
      /\ new.home = p.home /\ new.move = p.move /\ new.strayed = p.strayed
  BY <1>1 DEF Columns, ProjectChanged, PutTasks
<1>4. new.clock = p.clock /\ new.edits = p.edits /\ new.moves = p.moves
  BY <1>1 DEF Columns, ProjectChanged, PutTasks
<1>5. new.tasks = [t \in Tasks |-> IF t \in TasksAt(p, r) THEN Projected(p.tasks[t], q)
                                   ELSE p.tasks[t]]
  BY <1>1 DEF Columns, ProjectChanged, PutTasks, Projected
<1>6. new.reqs = [p.reqs EXCEPT ![r] = Projected(p.reqs[r], q)]
  BY <1>1 DEF Columns, ProjectChanged, PutTasks, Projected
<1> HIDE DEF new
<1>7. p.reqs = [x \in Reqs |-> p.reqs[x]]
  BY DEF Good, GoodTables
<1>8. /\ new.reqs[r] = Projected(p.reqs[r], q) /\ new.reqs = [x \in Reqs |-> new.reqs[x]]
      /\ \A x \in Reqs \ {r} : new.reqs[x] = p.reqs[x]
  BY <1>1, <1>6, <1>7
<1>9. /\ GoodReq(new.reqs[r], n) /\ new.reqs[r].project = q
      /\ new.reqs[r].here = p.reqs[r].here
  <2>1. p.reqs[r] \in ReqRow(n)
    BY <1>1, RowsOf DEF GoodReq
  <2>2. new.reqs[r] \in ReqRow(n)
    BY <1>8, <2>1 DEF Projected, ReqRow, Somewhere
  <2>3. new.reqs[r].project = q /\ new.reqs[r].here = p.reqs[r].here
    BY <1>8, <2>1 DEF Projected, ReqRow
  <2> QED BY <2>2, <2>3 DEF GoodReq
<1>10. \A x \in Reqs : GoodReq(new.reqs[x], n) /\ new.reqs[x].here = p.reqs[x].here
  BY <1>8, <1>9, RowsOf
<1>11. \A x \in Reqs : GoodMerge(p.merges[x], x, new.reqs, n)
  BY <1>10, RowsOf DEF GoodMerge, MergeRow
<1>12. \A c \in Cands : GoodCand(p.cands[c], new.reqs, n)
  BY <1>10, RowsOf DEF GoodCand
<1>13. \A t \in Tasks : GoodTask(new.tasks[t], new.reqs, p.cands, n, t \in p.strayed)
  <2> TAKE t \in Tasks
  <2> DEFINE k == p.tasks[t]
  <2>1. GoodTask(k, p.reqs, p.cands, n, t \in p.strayed)
    BY RowsOf
  <2>2. k \in TaskRow(n)
    BY <2>1 DEF GoodTask
  <2>3. k.undo # None /\ k.undo.req # None => k.undo.req \in Reqs
    <3>1. k.undo # None => k.undo \in LinkRow
      BY <2>2 DEF TaskRow
    <3> QED BY <3>1 DEF LinkRow, OnReq
  <2>4. CASE t \in TasksAt(p, r)
    <3>1. new.tasks[t] = Projected(k, q)
      BY <1>5, <2>4
    <3>2. Projected(k, q) \in TaskRow(n)
      BY <2>2 DEF Projected, TaskRow, Somewhere
    <3> DEFINE moved == Projected(k, q)
    <3>3. /\ moved.status = k.status /\ moved.closedAt = k.closedAt /\ moved.undo = k.undo
          /\ moved.last = k.last /\ moved.was = k.was /\ moved.req = k.req
          /\ moved.cand = k.cand /\ moved.project = q
      BY <2>2 DEF Projected, TaskRow
    <3>4. k.req = r
      BY <2>4 DEF TasksAt
    <3> HIDE DEF moved
    <3>5. GoodTask(moved, new.reqs, p.cands, n, t \in p.strayed)
      <4>1. moved \in TaskRow(n)
        BY <3>2 DEF moved
      <4>2. moved.undo # None /\ moved.undo.req # None => new.reqs[moved.undo.req].here
        BY <1>10, <2>1, <2>3, <3>3 DEF GoodTask
      <4> QED BY <1>1, <1>9, <1>10, <2>1, <3>3, <3>4, <4>1, <4>2 DEF GoodTask
    <3> QED BY <3>1, <3>5 DEF moved
  <2>5. CASE t \notin TasksAt(p, r)
    <3>1. new.tasks[t] = k
      BY <1>5, <2>5
    <3>2. k.req # r
      BY <2>5 DEF TasksAt
    <3>3. k.req # None => k.req \in Reqs
      BY <2>2 DEF TaskRow, OnReq
    <3> HIDE DEF k
    <3>4. k.req # None => new.reqs[k.req] = p.reqs[k.req]
      BY <1>8, <3>2, <3>3
    <3> QED BY <1>10, <2>1, <2>3, <3>1, <3>3, <3>4 DEF GoodTask
  <2> QED BY <2>4, <2>5
<1>14. new.tasks = [t \in Tasks |-> new.tasks[t]]
  BY <1>5
<1>15. GoodTables(new.reqs, p.merges, p.cands, new.tasks, n, p.strayed)
  BY <1>8, <1>10, <1>11, <1>12, <1>13, <1>14 DEF Good, GoodTables
<1>16. Good(new) /\ Counts(p, new, 0)
  BY <1>1, <1>2, <1>3, <1>4, <1>15 DEF Good, Counts
<1> QED BY <1>16 DEF new

LEMMA ProjectedGood ==
  ASSUME NEW k, NEW reqs, NEW cands, NEW n \in Nat, NEW t, NEW strayed,
         GoodTask(k, reqs, cands, n, t \in strayed), NEW q \in Somewhere,
         NEW s, t \in strayed => t \in s, k.req = None \/ t \in s
  PROVE  GoodTask(Projected(k, q), reqs, cands, n, t \in s)
<1> DEFINE moved == Projected(k, q)
<1>1. k \in TaskRow(n)
  BY DEF GoodTask
<1>2. moved \in TaskRow(n)
  BY <1>1 DEF Projected, TaskRow
<1>3. /\ moved.status = k.status /\ moved.closedAt = k.closedAt /\ moved.undo = k.undo
      /\ moved.last = k.last /\ moved.was = k.was /\ moved.req = k.req
      /\ moved.cand = k.cand
  BY <1>1 DEF Projected, TaskRow
<1> HIDE DEF moved
<1>4. GoodTask(moved, reqs, cands, n, t \in s)
  BY <1>2, <1>3 DEF GoodTask
<1> QED BY <1>4 DEF moved

LEMMA ReassignStep ==
  ASSUME NEW p, Good(p), NEW q \in Somewhere
  PROVE  LET new == Reassigned(p, q) IN Good(new) /\ Counts(p, new, 0)
<1> DEFINE new == Reassigned(p, q)
           S == {t \in Tasks : Movable(p, p.tasks[t]) /\ p.tasks[t].project # q}
           n == p.clock
           move == [from |-> p.home, to |-> q,
                    tasks |-> [t \in Tasks |-> IF t \in S THEN [project |-> p.tasks[t].project]
                                               ELSE None]]
<1>1. IsPool(p) /\ DOMAIN p = Columns /\ n \in Nat
  BY DEF Good, IsPool
<1>2. IsPool(new)
  BY <1>1 DEF IsPool, Columns, Reassigned, PutTasks
<1>3. /\ new.merges = p.merges /\ new.cands = p.cands /\ new.reqs = p.reqs
      /\ new.strayed = p.strayed
  BY <1>1 DEF Columns, Reassigned, PutTasks
<1>4. new.clock = p.clock /\ new.edits = p.edits /\ new.moves = p.moves
  BY <1>1 DEF Columns, Reassigned, PutTasks
<1>5. new.home = q /\ new.move = move
  BY <1>1 DEF Columns, Reassigned, PutTasks
<1>6. new.tasks = [t \in Tasks |-> IF t \in S THEN Projected(p.tasks[t], q) ELSE p.tasks[t]]
  BY <1>1 DEF Columns, Reassigned, PutTasks, Projected
<1>7. move \in MoveRow
  <2>1. p.home \in Somewhere /\ \A t \in Tasks : p.tasks[t].project \in Somewhere
    BY RowsOf DEF Good, GoodTask, TaskRow
  <2> HIDE DEF S
  <2> QED BY <2>1 DEF MoveRow, Taken
<1> HIDE DEF new, move
<1>8. \A t \in Tasks : GoodTask(new.tasks[t], p.reqs, p.cands, n, t \in p.strayed)
  <2> TAKE t \in Tasks
  <2>1. new.tasks[t] = IF t \in S THEN Projected(p.tasks[t], q) ELSE p.tasks[t]
    BY <1>6
  <2>2. t \in S => p.tasks[t].req = None
    BY DEF Movable
  <2> HIDE DEF S
  <2> QED BY <1>1, <2>1, <2>2, RowsOf, ProjectedGood
<1>9. GoodTables(p.reqs, p.merges, p.cands, new.tasks, n, p.strayed)
  <2>1. new.tasks = [t \in Tasks |-> new.tasks[t]]
    BY <1>6
  <2> QED BY <1>8, <2>1, TasksIn DEF Good
<1>10. Good(new) /\ Counts(p, new, 0)
  BY <1>1, <1>2, <1>3, <1>4, <1>5, <1>7, <1>9 DEF Good, Counts
<1> QED BY <1>10 DEF new

LEMMA UndoReassignStep ==
  ASSUME NEW p, Good(p), p.move # None
  PROVE  LET new == ReassignUndone(p) IN Good(new) /\ Counts(p, new, 0)
<1> DEFINE new == ReassignUndone(p)
           S == Returning(p)
           n == p.clock
<1>1. IsPool(p) /\ DOMAIN p = Columns /\ n \in Nat
  BY DEF Good, IsPool
<1>2. IsPool(new)
  BY <1>1 DEF IsPool, Columns, ReassignUndone
<1>3. /\ new.merges = p.merges /\ new.cands = p.cands /\ new.reqs = p.reqs
      /\ new.strayed = p.strayed \cup {t \in S : p.tasks[t].req # None}
  BY <1>1 DEF Columns, ReassignUndone
<1>4. new.clock = p.clock /\ new.edits = p.edits /\ new.moves = p.moves
  BY <1>1 DEF Columns, ReassignUndone
<1>5. new.home = p.move.from /\ new.move = None
  BY <1>1 DEF Columns, ReassignUndone
<1>6. new.tasks = [t \in Tasks |-> IF t \in S
                    THEN Projected(p.tasks[t], p.move.tasks[t].project) ELSE p.tasks[t]]
  BY <1>1 DEF Columns, ReassignUndone, Projected
<1>7. p.move \in MoveRow
  BY DEF Good
<1>8. p.move.from \in Somewhere /\ \A t \in S : p.move.tasks[t].project \in Somewhere
  <2>1. \A t \in S : p.move.tasks[t] \in Taken
    BY <1>7 DEF MoveRow, Returning
  <2> QED BY <1>7, <2>1 DEF MoveRow, Taken
<1> HIDE DEF new, S
<1>9. \A t \in Tasks : GoodTask(new.tasks[t], p.reqs, p.cands, n, t \in new.strayed)
  <2> TAKE t \in Tasks
  <2>1. GoodTask(p.tasks[t], p.reqs, p.cands, n, t \in p.strayed)
    BY RowsOf
  <2>2. t \in p.strayed => t \in new.strayed
    BY <1>3
  <2>3. CASE t \in S
    <3>1. p.tasks[t].req = None \/ t \in new.strayed
      BY <1>3, <2>3
    <3>2. new.tasks[t] = Projected(p.tasks[t], p.move.tasks[t].project)
      BY <1>6, <2>3
    <3> DEFINE k == p.tasks[t]
               back == p.move.tasks[t].project
               s == new.strayed
    <3>3. back \in Somewhere
      BY <1>8, <2>3
    <3>4. GoodTask(k, p.reqs, p.cands, n, t \in p.strayed) /\ (t \in p.strayed => t \in s)
      BY <2>1, <2>2
    <3>5. k.req = None \/ t \in s
      BY <3>1
    <3>6. new.tasks[t] = Projected(k, back)
      BY <3>2
    <3> HIDE DEF k, back, s
    <3>7. GoodTask(Projected(k, back), p.reqs, p.cands, n, t \in s)
      BY <1>1, <3>3, <3>4, <3>5, ProjectedGood
    <3> QED BY <3>6, <3>7 DEF s
  <2>4. CASE t \notin S
    <3>1. new.tasks[t] = p.tasks[t]
      BY <1>6, <2>4
    <3> QED BY <2>1, <2>2, <3>1 DEF GoodTask
  <2> QED BY <2>3, <2>4
<1>10. GoodTables(p.reqs, p.merges, p.cands, new.tasks, n, new.strayed)
  <2>1. new.tasks = [t \in Tasks |-> new.tasks[t]]
    BY <1>6
  <2> QED BY <1>9, <2>1, TasksIn DEF Good
<1>11. Good(new) /\ Counts(p, new, 0)
  BY <1>1, <1>2, <1>3, <1>4, <1>5, <1>8, <1>10 DEF Good, Counts
<1> QED BY <1>11 DEF new

-----------------------------------------------------------------------------
(* A requirement that a merge reopened, settled when the merge is undone.  *)

ReqAt(k, s, a) == [k EXCEPT !.status = s, !.changed = a]

LEMMA ReqAtGood ==
  ASSUME NEW n \in Nat, NEW k, GoodReq(k, n), NEW s \in ReqStatuses, NEW a \in Stamps(n)
  PROVE  /\ GoodReq(ReqAt(k, s, a), n)
         /\ ReqAt(k, s, a).here = k.here /\ ReqAt(k, s, a).project = k.project
<1> DEFINE new == ReqAt(k, s, a)
<1>1. k \in ReqRow(n)
  BY DEF GoodReq
<1>2. new \in ReqRow(n)
  BY <1>1 DEF ReqRow, ReqAt
<1>3. new.here = k.here /\ new.project = k.project
  BY <1>1 DEF ReqRow, ReqAt
<1> QED BY <1>2, <1>3 DEF GoodReq

ClosedAgain(p, r, record) ==
    [p EXCEPT !.reqs[r].status = record.from, !.reqs[r].changed = record.changed]

LEMMA ClosedAgainStep ==
  ASSUME NEW p, Good(p), NEW r \in Reqs, NEW record \in ReopenRow(p.clock)
  PROVE  Good(ClosedAgain(p, r, record)) /\ Counts(p, ClosedAgain(p, r, record), 0)
<1> DEFINE q == ClosedAgain(p, r, record)
           n == p.clock
           new == ReqAt(p.reqs[r], record.from, record.changed)
<1>1. IsPool(p) /\ DOMAIN p = Columns /\ n \in Nat /\ p.reqs = [x \in Reqs |-> p.reqs[x]]
  BY DEF Good, IsPool, GoodTables
<1>2. IsPool(q)
  BY <1>1 DEF IsPool, Columns, ClosedAgain
<1>3. /\ q.merges = p.merges /\ q.cands = p.cands /\ q.tasks = p.tasks
      /\ q.home = p.home /\ q.move = p.move /\ q.strayed = p.strayed
  BY <1>1 DEF Columns, ClosedAgain
<1>4. q.clock = p.clock /\ q.edits = p.edits /\ q.moves = p.moves
  BY <1>1 DEF Columns, ClosedAgain
<1>5. q.reqs = [p.reqs EXCEPT ![r].status = record.from, ![r].changed = record.changed]
  BY <1>1 DEF Columns, ClosedAgain
<1>6. q.reqs = [p.reqs EXCEPT ![r] = new]
  BY <1>1, <1>5 DEF ReqAt
<1>7. record.from \in ReqStatuses /\ record.changed \in Stamps(n)
  BY DEF ReopenRow
<1>8. GoodReq(new, n) /\ new.here = p.reqs[r].here /\ new.project = p.reqs[r].project
  BY <1>1, <1>7, RowsOf, ReqAtGood
<1> HIDE DEF q, new
<1>9. GoodTables(q.reqs, p.merges, p.cands, p.tasks, n, p.strayed)
  BY <1>1, <1>6, <1>8, OnePlace DEF Good
<1>10. Good(q) /\ Counts(p, q, 0)
  BY <1>1, <1>2, <1>3, <1>4, <1>9 DEF Good, Counts
<1> QED BY <1>10 DEF q

GivenCand(k, record) == [k EXCEPT !.undo.reopen = record]
GivenMerge(g, record) == [g EXCEPT !.reopen = record]

LEMMA HandedStep ==
  ASSUME NEW p, Good(p), NEW C, NEW X, NEW record \in ReopenRow(p.clock),
         \A c \in C \cap Cands : p.cands[c].undo # None,
         \A x \in X \cap Reqs : p.merges[x] # None
  PROVE  Good(Handed(p, C, X, record)) /\ Counts(p, Handed(p, C, X, record), 0)
<1> DEFINE q == Handed(p, C, X, record)
           n == p.clock
<1>1. IsPool(p) /\ DOMAIN p = Columns /\ n \in Nat
  BY DEF Good, IsPool
<1>2. IsPool(q)
  BY <1>1 DEF IsPool, Columns, Handed
<1>3. /\ q.reqs = p.reqs /\ q.tasks = p.tasks
      /\ q.home = p.home /\ q.move = p.move /\ q.strayed = p.strayed
  BY <1>1 DEF Columns, Handed
<1>4. q.clock = p.clock /\ q.edits = p.edits /\ q.moves = p.moves
  BY <1>1 DEF Columns, Handed
<1>5. q.cands = [c \in Cands |-> IF c \in C THEN GivenCand(p.cands[c], record) ELSE p.cands[c]]
  BY <1>1 DEF Columns, Handed, GivenCand
<1>6. q.merges = [x \in Reqs |-> IF x \in X THEN GivenMerge(p.merges[x], record)
                                 ELSE p.merges[x]]
  BY <1>1 DEF Columns, Handed, GivenMerge
<1> HIDE DEF q
<1>7. \A c \in Cands : GoodCand(q.cands[c], p.reqs, n) /\ q.cands[c].status = p.cands[c].status
  <2> TAKE c \in Cands
  <2> DEFINE k == p.cands[c]
             new == GivenCand(k, record)
  <2>1. GoodCand(k, p.reqs, n)
    BY RowsOf
  <2>2. CASE c \in C
    <3>1. k \in CandRow(n) /\ k.undo \in CandUndo(n)
      BY <2>1, <2>2 DEF GoodCand, CandRow
    <3>2. [k.undo EXCEPT !.reopen = record] \in CandUndo(n)
      BY <3>1 DEF CandUndo
    <3>3. new = [k EXCEPT !.undo = [k.undo EXCEPT !.reopen = record]]
      BY <3>1 DEF GivenCand, CandRow
    <3>4. q.cands[c] = new
      BY <1>5, <2>2
    <3>5. k.status # "pending"
      BY <2>1, <2>2 DEF GoodCand, NewCand
    <3> HIDE DEF k, new
    <3>6. new \in CandRow(n) /\ new.status = k.status /\ new.req = k.req
      BY <3>1, <3>2, <3>3 DEF CandRow
    <3>7. GoodCand(new, p.reqs, n)
      BY <2>1, <3>5, <3>6 DEF GoodCand
    <3> QED BY <3>4, <3>6, <3>7 DEF k
  <2>3. CASE c \notin C
    BY <1>5, <2>1, <2>3
  <2> QED BY <2>2, <2>3
<1>8. \A x \in Reqs : GoodMerge(q.merges[x], x, p.reqs, n)
  <2> TAKE x \in Reqs
  <2> DEFINE g == p.merges[x]
             new == GivenMerge(g, record)
  <2>1. GoodMerge(g, x, p.reqs, n)
    BY RowsOf
  <2>2. CASE x \in X
    <3>1. g # None /\ g \in MergeRow(n)
      BY <2>1, <2>2 DEF GoodMerge
    <3>2. q.merges[x] = new
      BY <1>6, <2>2
    <3> HIDE DEF g
    <3>3. new \in MergeRow(n) /\ new.row = g.row /\ new.into = g.into
      BY <3>1 DEF GivenMerge, MergeRow
    <3> HIDE DEF new
    <3>4. GoodMerge(new, x, p.reqs, n)
      BY <2>1, <3>1, <3>3 DEF GoodMerge
    <3> QED BY <3>2, <3>4
  <2>3. CASE x \notin X
    BY <1>6, <2>1, <2>3
  <2> QED BY <2>2, <2>3
<1>9. \A t \in Tasks : GoodTask(p.tasks[t], p.reqs, q.cands, n, t \in p.strayed)
  <2> TAKE t \in Tasks
  <2>1. GoodTask(p.tasks[t], p.reqs, p.cands, n, t \in p.strayed)
    BY RowsOf
  <2>2. p.tasks[t].cand # None => p.tasks[t].cand \in Cands
    BY <2>1 DEF GoodTask, TaskRow, OnCand
  <2> QED BY <1>7, <2>1, <2>2 DEF GoodTask
<1>10. /\ q.cands = [c \in Cands |-> q.cands[c]] /\ q.merges = [x \in Reqs |-> q.merges[x]]
       /\ p.tasks = [t \in Tasks |-> p.tasks[t]] /\ p.reqs = [x \in Reqs |-> p.reqs[x]]
       /\ \A x \in Reqs : GoodReq(p.reqs[x], n)
  BY <1>5, <1>6 DEF Good, GoodTables
<1>11. GoodTables(p.reqs, q.merges, q.cands, p.tasks, n, p.strayed)
  BY <1>7, <1>8, <1>9, <1>10 DEF GoodTables
<1>12. Good(q) /\ Counts(p, q, 0)
  BY <1>1, <1>2, <1>3, <1>4, <1>11 DEF Good, Counts
<1> QED BY <1>12 DEF q

LEMMA SettledStep ==
  ASSUME NEW p, Good(p), NEW r \in Reqs, NEW record,
         record = None \/ record \in ReopenRow(p.clock)
  PROVE  Good(Settled(p, r, record)) /\ Counts(p, Settled(p, r, record), 0)
<1>1. CASE record = None
  BY <1>1 DEF Settled, Good, Counts
<1>2. CASE record # None /\ (p.reqs[r].status # "active" \/ p.reqs[r].changed # record.at)
  <2> DEFINE q == [p EXCEPT !.lapsed = @ \cup {record.at}]
  <2>1. Settled(p, r, record) = q
    BY <1>2 DEF Settled
  <2>2. /\ q.reqs = p.reqs /\ q.merges = p.merges /\ q.cands = p.cands /\ q.tasks = p.tasks
        /\ q.home = p.home /\ q.move = p.move /\ q.clock = p.clock /\ q.strayed = p.strayed
        /\ q.edits = p.edits /\ q.moves = p.moves /\ IsPool(q)
    BY DEF Good, IsPool
  <2> HIDE DEF q
  <2>3. Good(q) /\ Counts(p, q, 0)
    BY <2>2 DEF Good, Counts
  <2> QED BY <2>1, <2>3
<1>3. CASE record # None /\ ~(p.reqs[r].status # "active" \/ p.reqs[r].changed # record.at)
  <2> DEFINE C == LaterCands(p, r, record.at)
             X == LaterMerges(p, r, record.at)
  <2>1. CASE C = {} /\ X = {}
    <3>1. Settled(p, r, record) = ClosedAgain(p, r, record)
      BY <1>3, <2>1 DEF Settled, ClosedAgain
    <3> QED BY <1>3, <3>1, ClosedAgainStep
  <2>2. CASE ~(C = {} /\ X = {})
    <3>1. Settled(p, r, record) = Handed(p, C, X, record)
      BY <1>3, <2>2 DEF Settled
    <3>2. /\ \A c \in C \cap Cands : p.cands[c].undo # None
          /\ \A x \in X \cap Reqs : p.merges[x] # None
      BY DEF LaterCands, LaterMerges, InPlace
    <3> HIDE DEF C, X
    <3> QED BY <1>3, <3>1, <3>2, HandedStep
  <2> QED BY <2>1, <2>2
<1> QED BY <1>1, <1>2, <1>3

-----------------------------------------------------------------------------
(* Candidates.                                                             *)

(* A candidate may change when no task hangs on it, or when it may be hung *)
(* on afterwards.                                                          *)
LEMMA CandPut ==
  ASSUME NEW n \in Nat, NEW reqs, NEW merges, NEW cands, NEW tasks, NEW strayed,
         GoodTables(reqs, merges, cands, tasks, n, strayed),
         NEW c \in Cands, NEW x, GoodCand(x, reqs, n),
         \A t \in Tasks : tasks[t].cand = c => x.status = "pending"
  PROVE  GoodTables(reqs, merges, [cands EXCEPT ![c] = x], tasks, n, strayed)
<1> DEFINE new == [cands EXCEPT ![c] = x]
<1>1. cands = [d \in Cands |-> cands[d]] /\ \A d \in Cands : GoodCand(cands[d], reqs, n)
  BY DEF GoodTables
<1>2. new = [d \in Cands |-> new[d]] /\ new[c] = x /\ \A d \in Cands \ {c} : new[d] = cands[d]
  BY <1>1
<1> HIDE DEF new
<1>3. \A d \in Cands : GoodCand(new[d], reqs, n)
  BY <1>1, <1>2
<1>4. \A t \in Tasks : GoodTask(tasks[t], reqs, new, n, t \in strayed)
  <2> TAKE t \in Tasks
  <2>1. GoodTask(tasks[t], reqs, cands, n, t \in strayed)
    BY DEF GoodTables
  <2>2. tasks[t].cand # None => tasks[t].cand \in Cands
    BY <2>1 DEF GoodTask, TaskRow, OnCand
  <2> QED BY <1>2, <2>1, <2>2 DEF GoodTask
<1>5. GoodTables(reqs, merges, new, tasks, n, strayed)
  BY <1>2, <1>3, <1>4 DEF GoodTables
<1> QED BY <1>5 DEF new

LEMMA NewCandGood ==
  ASSUME NEW n \in Nat, NEW reqs
  PROVE  GoodCand(NewCand, reqs, n) /\ NewCand.status = "pending"
BY DEF NewCand, GoodCand, CandRow, Stamps, OnReq

(* The tasks of a candidate handed over to a requirement that is there.    *)
HandedRow(p, k, r, q) ==
    IF InScope(p, k.project) THEN Hung(k, r, None, q) ELSE Hung(k, None, None, k.project)
HandedTo(p, tasks, c, r, q) ==
    [t \in Tasks |-> IF tasks[t].cand = c THEN HandedRow(p, tasks[t], r, q) ELSE tasks[t]]

LEMMA HandedRows ==
  ASSUME NEW p, NEW n \in Nat, NEW reqs, NEW merges, NEW cands, NEW tasks, NEW strayed,
         GoodTables(reqs, merges, cands, tasks, n, strayed),
         NEW c \in Cands, NEW r \in Reqs, reqs[r].here
  PROVE  LET new == HandedTo(p, tasks, c, r, reqs[r].project) IN
         /\ GoodTables(reqs, merges, cands, new, n, strayed)
         /\ \A t \in Tasks : new[t].cand # c
<1> DEFINE q == reqs[r].project
           new == HandedTo(p, tasks, c, r, q)
<1>0. new = [t \in Tasks |-> IF tasks[t].cand = c THEN HandedRow(p, tasks[t], r, q)
                            ELSE tasks[t]]
  BY DEF HandedTo
<1> HIDE DEF new
<1>1. q \in Somewhere
  BY DEF GoodTables, GoodReq, Somewhere
<1>2. \A t \in Tasks : /\ GoodTask(new[t], reqs, cands, n, t \in strayed)
                       /\ new[t].cand # c
  <2> TAKE t \in Tasks
  <2> DEFINE k == tasks[t]
             G(x) == GoodTask(x, reqs, cands, n, t \in strayed)
  <2>1. G(k)
    BY DEF GoodTables
  <2>2. k \in TaskRow(n) /\ k.project \in Somewhere /\ c # None
    BY <2>1, LinksAssumption DEF GoodTask, TaskRow
  <2>3. CASE k.cand = c
    <3>1. new[t] = HandedRow(p, k, r, q)
      BY <1>0, <2>3
    <3> HIDE DEF k
    <3>2. G(Hung(k, r, None, q)) /\ G(Hung(k, None, None, k.project))
      BY <1>1, <2>1, <2>2, HungGood DEF OnReq, OnCand
    <3>3. Hung(k, r, None, q).cand = None /\ Hung(k, None, None, k.project).cand = None
      BY <2>2 DEF Hung, TaskRow
    <3> QED BY <2>2, <3>1, <3>2, <3>3 DEF HandedRow
  <2>4. CASE k.cand # c
    <3>1. new[t] = k
      BY <1>0, <2>4
    <3> QED BY <2>1, <2>4, <3>1
  <2> QED BY <2>3, <2>4
<1>3. new = [t \in Tasks |-> new[t]]
  BY <1>0
<1>4. GoodTables(reqs, merges, cands, new, n, strayed)
  BY <1>2, <1>3, TasksIn
<1> QED BY <1>2, <1>4 DEF new

(* A requirement that was not there is made, or comes back.                *)
LEMMA ReqMade ==
  ASSUME NEW n \in Nat, NEW reqs, NEW merges, NEW cands, NEW tasks, NEW strayed,
         GoodTables(reqs, merges, cands, tasks, n, strayed),
         NEW r \in Reqs, ~reqs[r].here, NEW row, GoodReq(row, n), row.here
  PROVE  GoodTables([reqs EXCEPT ![r] = row], [merges EXCEPT ![r] = None],
                    cands, tasks, n, strayed)
<1> DEFINE new == [reqs EXCEPT ![r] = row]
           rest == [merges EXCEPT ![r] = None]
<1>1. /\ reqs = [x \in Reqs |-> reqs[x]] /\ \A x \in Reqs : GoodReq(reqs[x], n)
      /\ merges = [x \in Reqs |-> merges[x]]
  BY DEF GoodTables
<1>2. /\ new = [x \in Reqs |-> new[x]] /\ new[r] = row
      /\ \A x \in Reqs \ {r} : new[x] = reqs[x]
  BY <1>1
<1>3. /\ rest = [x \in Reqs |-> rest[x]] /\ rest[r] = None
      /\ \A x \in Reqs \ {r} : rest[x] = merges[x]
  BY <1>1
<1> HIDE DEF new, rest
<1>4. \A x \in Reqs : GoodReq(new[x], n) /\ (reqs[x].here => new[x] = reqs[x])
  BY <1>1, <1>2
<1>5. \A x \in Reqs : GoodMerge(rest[x], x, new, n)
  <2> TAKE x \in Reqs
  <2>1. CASE x = r
    BY <1>3, <2>1 DEF GoodMerge
  <2>2. CASE x # r
    <3>1. GoodMerge(merges[x], x, reqs, n) /\ rest[x] = merges[x] /\ new[x] = reqs[x]
      BY <1>2, <1>3, <2>2 DEF GoodTables
    <3>2. merges[x] # None => merges[x].into \in Reqs
      BY <3>1 DEF GoodMerge, MergeRow
    <3> QED BY <1>4, <3>1, <3>2 DEF GoodMerge
  <2> QED BY <2>1, <2>2
<1>6. \A c \in Cands : GoodCand(cands[c], new, n)
  BY <1>4 DEF GoodTables, GoodCand
<1>7. \A t \in Tasks : GoodTask(tasks[t], new, cands, n, t \in strayed)
  <2> TAKE t \in Tasks
  <2>1. GoodTask(tasks[t], reqs, cands, n, t \in strayed)
    BY DEF GoodTables
  <2>2. tasks[t].req # None => tasks[t].req \in Reqs
    BY <2>1 DEF GoodTask, TaskRow, OnReq
  <2>3. tasks[t].undo # None /\ tasks[t].undo.req # None => tasks[t].undo.req \in Reqs
    <3>1. tasks[t].undo # None => tasks[t].undo \in LinkRow
      BY <2>1 DEF GoodTask, TaskRow
    <3> QED BY <3>1 DEF LinkRow, OnReq
  <2> QED BY <1>4, <2>1, <2>2, <2>3 DEF GoodTask
<1>8. GoodTables(new, rest, cands, tasks, n, strayed)
  BY <1>2, <1>3, <1>4, <1>5, <1>6, <1>7 DEF GoodTables
<1> QED BY <1>8 DEF new, rest

LEMMA NewReqGood ==
  ASSUME NEW n \in Nat, NEW q \in Projects
  PROVE  GoodReq(NewReq(q), n) /\ NewReq(q).here
<1>1. NoReq \in ReqRow(n) /\ q \in Somewhere
  BY DEF NoReq, ReqRow, Stamps, Somewhere, ReqStatuses
<1>2. NewReq(q) \in ReqRow(n)
  BY <1>1 DEF NewReq, ReqRow
<1>3. NewReq(q).here /\ NewReq(q).project = q
  BY <1>1 DEF NewReq, ReqRow
<1> QED BY <1>2, <1>3 DEF GoodReq

CandOf(k, s, r) == [k EXCEPT !.status = s, !.req = r]

LEMMA ClaimStep ==
  ASSUME NEW p, Good(p), NEW c \in Cands, NEW r \in Reqs, NEW q \in Projects, MayClaim(p, c, r)
  PROVE  LET new == Claimed(p, c, r, q) IN Good(new) /\ Counts(p, new, 0)
<1> DEFINE new == Claimed(p, c, r, q)
           n == p.clock
           reqs == [p.reqs EXCEPT ![r] = NewReq(q)]
           k == CandOf(p.cands[c], "claimed", r)
<1>1. IsPool(p) /\ DOMAIN p = Columns /\ n \in Nat /\ p.reqs = [x \in Reqs |-> p.reqs[x]]
  BY DEF Good, IsPool, GoodTables
<1>2. IsPool(new)
  BY <1>1 DEF IsPool, Columns, Claimed, HandedOver, PutTasks
<1>3. /\ new.merges = p.merges /\ new.reqs = reqs
      /\ new.home = p.home /\ new.move = p.move /\ new.strayed = p.strayed
  BY <1>1 DEF Columns, Claimed, HandedOver, PutTasks
<1>4. new.clock = p.clock /\ new.edits = p.edits /\ new.moves = p.moves
  BY <1>1 DEF Columns, Claimed, HandedOver, PutTasks
<1>5. new.cands = [p.cands EXCEPT ![c] = k]
  BY <1>1 DEF Columns, Claimed, HandedOver, PutTasks, CandOf
<1>6. new.tasks = HandedTo(p, p.tasks, c, r, reqs[r].project)
  BY <1>1 DEF Columns, Claimed, HandedOver, PutTasks, HandedTo, HandedRow, InScope
<1> HIDE DEF new
<1>7. reqs[r].here
  BY <1>1, NewReqGood
<1>8. GoodTables(reqs, p.merges, p.cands, p.tasks, n, p.strayed)
  <2> DEFINE row == NewReq(q)
  <2>1. GoodReq(row, n) /\ row.here /\ ~p.reqs[r].here
    BY <1>1, NewReqGood DEF MayClaim, Here
  <2>2. p.merges = [x \in Reqs |-> p.merges[x]] /\ p.merges[r] = None
    BY DEF Good, GoodTables, MayClaim
  <2>3. [p.merges EXCEPT ![r] = None] = p.merges
    BY <2>2
  <2> HIDE DEF row
  <2>4. GoodTables([p.reqs EXCEPT ![r] = row], [p.merges EXCEPT ![r] = None],
                   p.cands, p.tasks, n, p.strayed)
    BY <1>1, <2>1, ReqMade DEF Good
  <2> QED BY <2>3, <2>4 DEF row
<1>9. GoodCand(k, reqs, n)
  <2>1. p.cands[c] \in CandRow(n)
    BY RowsOf DEF GoodCand
  <2>2. k \in CandRow(n) /\ k.req = r /\ k.status = "claimed"
    BY <2>1 DEF CandOf, CandRow, OnReq
  <2> QED BY <1>7, <2>2 DEF GoodCand
<1> HIDE DEF reqs, k
<1>10. /\ GoodTables(reqs, p.merges, p.cands, new.tasks, n, p.strayed)
       /\ \A t \in Tasks : new.tasks[t].cand # c
  <2> DEFINE merges == p.merges
             cands == p.cands
             tasks == p.tasks
             strayed == p.strayed
             T == HandedTo(p, tasks, c, r, reqs[r].project)
  <2>1. GoodTables(reqs, merges, cands, tasks, n, strayed) /\ reqs[r].here /\ n \in Nat
    BY <1>1, <1>7, <1>8
  <2>2. new.tasks = T
    BY <1>6
  <2> HIDE DEF merges, cands, tasks, strayed, n
  <2>3. GoodTables(reqs, merges, cands, T, n, strayed) /\ \A t \in Tasks : T[t].cand # c
    BY <2>1, HandedRows
  <2> QED BY <2>2, <2>3 DEF merges, cands, strayed, n
<1>11. GoodTables(reqs, p.merges, new.cands, new.tasks, n, p.strayed)
  BY <1>1, <1>5, <1>9, <1>10, CandPut
<1>12. Good(new) /\ Counts(p, new, 0)
  BY <1>1, <1>2, <1>3, <1>4, <1>11 DEF Good, Counts
<1> QED BY <1>12 DEF new

CandTaken(k, r, a, u) == [k EXCEPT !.status = "merged", !.req = r, !.at = a, !.undo = u]
TakenFrom(p, c, record) ==
    [tasks |-> [t \in Tasks |->
        IF p.tasks[t].cand = c /\ InScope(p, p.tasks[t].project)
        THEN [project |-> p.tasks[t].project] ELSE None],
     reopen |-> record]

LEMMA CandMergedStep ==
  ASSUME NEW p, Good(p), NEW c \in Cands, NEW r \in Reqs, MayMergeCand(p, c, r)
  PROVE  LET new == CandMerged(p, c, r) IN Good(new) /\ Counts(p, new, 1)
<1> DEFINE new == CandMerged(p, c, r)
           n == p.clock
           opens == p.reqs[r].status = "done"
           row == IF opens THEN ReqAt(p.reqs[r], "active", Stamp(p)) ELSE p.reqs[r]
           record == IF opens THEN Reopened(p, r) ELSE None
           u == TakenFrom(p, c, record)
           k == CandTaken(p.cands[c], r, Stamp(p), u)
<1>1. /\ IsPool(p) /\ DOMAIN p = Columns /\ n \in Nat /\ n + 1 \in Nat
      /\ p.reqs = [x \in Reqs |-> p.reqs[x]] /\ p.cands = [x \in Cands |-> p.cands[x]]
      /\ Stamp(p) = n + 1 /\ Stamp(p) \in Stamps(n + 1)
  BY DEF Good, IsPool, GoodTables, Stamp, Stamps
<1>2. IsPool(new)
  <2> DEFINE over == HandedOver(p, c, r)
  <2>1. IsPool(over)
    BY <1>1 DEF IsPool, Columns, HandedOver, PutTasks
  <2> HIDE DEF over
  <2> QED BY <2>1 DEF IsPool, Columns, CandMerged, over
<1>3. /\ new.merges = p.merges
      /\ new.home = p.home /\ new.move = p.move /\ new.strayed = p.strayed
  BY <1>1 DEF Columns, CandMerged, HandedOver, PutTasks
<1>4. new.clock = p.clock + 1 /\ new.edits = p.edits /\ new.moves = p.moves
  BY <1>1 DEF Columns, CandMerged, HandedOver, PutTasks
<1>5. new.cands = [p.cands EXCEPT ![c] = k]
  BY <1>1 DEF Columns, CandMerged, HandedOver, PutTasks, CandTaken, TakenFrom
<1>6. new.tasks = HandedTo(p, p.tasks, c, r, p.reqs[r].project)
  BY <1>1 DEF Columns, CandMerged, HandedOver, PutTasks, HandedTo, HandedRow, InScope
<1>7. new.reqs = [p.reqs EXCEPT ![r] = row]
  BY <1>1 DEF Columns, CandMerged, HandedOver, PutTasks, ReqAt
<1>8. GoodTables(p.reqs, p.merges, p.cands, p.tasks, n + 1, p.strayed) /\ p.reqs[r].here
  BY <1>1, LaterTables DEF Good, MayMergeCand, Here
<1>9. /\ GoodReq(p.reqs[r], n + 1) /\ GoodCand(p.cands[c], p.reqs, n + 1)
      /\ \A t \in Tasks : GoodTask(p.tasks[t], p.reqs, p.cands, n + 1, t \in p.strayed)
  BY <1>8 DEF GoodTables
<1>10. GoodReq(row, n + 1) /\ row.here = p.reqs[r].here /\ row.project = p.reqs[r].project
  BY <1>1, <1>9, ReqAtGood DEF ReqStatuses
<1>11. u \in CandUndo(n + 1)
  <2>1. \A t \in Tasks : [project |-> p.tasks[t].project] \in Taken
    BY <1>9 DEF GoodTask, TaskRow, Taken
  <2>2. p.reqs[r].status \in ReqStatuses /\ p.reqs[r].changed \in Stamps(n + 1)
    BY <1>9 DEF GoodReq, ReqRow
  <2>3. record \in ReopenRow(n + 1) \cup {None}
    BY <1>1, <2>2 DEF Reopened, ReopenRow
  <2> HIDE DEF record
  <2> QED BY <2>1, <2>3 DEF TakenFrom, CandUndo
<1> HIDE DEF new, row, u
<1>12. GoodCand(k, p.reqs, n + 1)
  <2>1. p.cands[c] \in CandRow(n + 1)
    BY <1>9 DEF GoodCand
  <2>2. k \in CandRow(n + 1)
    BY <1>1, <1>11, <2>1 DEF CandTaken, CandRow, OnReq
  <2>3. k.req = r /\ k.status = "merged"
    BY <2>1 DEF CandTaken, CandRow
  <2> QED BY <1>8, <2>2, <2>3 DEF GoodCand
<1> HIDE DEF k
<1>13. /\ GoodTables(p.reqs, p.merges, p.cands, new.tasks, n + 1, p.strayed)
       /\ \A t \in Tasks : new.tasks[t].cand # c
  <2> DEFINE reqs == p.reqs
             merges == p.merges
             cands == p.cands
             tasks == p.tasks
             strayed == p.strayed
             later == n + 1
             T == HandedTo(p, tasks, c, r, reqs[r].project)
  <2>1. GoodTables(reqs, merges, cands, tasks, later, strayed) /\ reqs[r].here /\ later \in Nat
    BY <1>1, <1>8
  <2>2. new.tasks = T
    BY <1>6
  <2> HIDE DEF reqs, merges, cands, tasks, strayed, later
  <2>3. GoodTables(reqs, merges, cands, T, later, strayed) /\ \A t \in Tasks : T[t].cand # c
    BY <2>1, HandedRows
  <2> QED BY <2>2, <2>3 DEF reqs, merges, cands, strayed, later
<1>14. GoodTables(p.reqs, p.merges, new.cands, new.tasks, n + 1, p.strayed)
  <2>1. \A t \in Tasks : new.tasks[t].cand = c => k.status = "pending"
    BY <1>13
  <2> DEFINE reqs == p.reqs
             merges == p.merges
             cands == p.cands
             tasks == new.tasks
             strayed == p.strayed
             later == n + 1
  <2>2. /\ GoodTables(reqs, merges, cands, tasks, later, strayed) /\ later \in Nat
        /\ GoodCand(k, reqs, later) /\ \A t \in Tasks : tasks[t].cand = c => k.status = "pending"
    BY <1>1, <1>12, <1>13, <2>1
  <2> HIDE DEF reqs, merges, cands, tasks, strayed, later
  <2>3. GoodTables(reqs, merges, [cands EXCEPT ![c] = k], tasks, later, strayed)
    BY <2>2, CandPut
  <2> QED BY <1>5, <2>3 DEF reqs, merges, cands, tasks, strayed, later
<1>15. GoodTables(new.reqs, p.merges, new.cands, new.tasks, n + 1, p.strayed)
  BY <1>1, <1>7, <1>10, <1>14, OnePlace
<1>16. Good(new) /\ Counts(p, new, 1)
  BY <1>1, <1>2, <1>3, <1>4, <1>15 DEF Good, Counts
<1> QED BY <1>16 DEF new

CandDropped(S) == [NewCand EXCEPT !.status = "dropped", !.dropped = S]

LEMMA DropStep ==
  ASSUME NEW p, Good(p), NEW c \in Cands
  PROVE  LET new == Dropped(p, c) IN Good(new) /\ Counts(p, new, 0)
<1> DEFINE new == Dropped(p, c)
           n == p.clock
           S == {t \in Tasks : p.tasks[t].cand = c}
           k == CandDropped(S)
<1>1. /\ IsPool(p) /\ DOMAIN p = Columns /\ n \in Nat
      /\ p.cands = [x \in Cands |-> p.cands[x]] /\ c # None
  BY LinksAssumption DEF Good, IsPool, GoodTables
<1>2. IsPool(new)
  BY <1>1 DEF IsPool, Columns, Dropped, PutTasks
<1>3. /\ new.merges = p.merges /\ new.reqs = p.reqs
      /\ new.home = p.home /\ new.move = p.move /\ new.strayed = p.strayed
  BY <1>1 DEF Columns, Dropped, PutTasks
<1>4. new.clock = p.clock /\ new.edits = p.edits /\ new.moves = p.moves
  BY <1>1 DEF Columns, Dropped, PutTasks
<1>5. new.cands = [p.cands EXCEPT ![c] = k]
  BY <1>1 DEF Columns, Dropped, PutTasks, CandDropped
<1>6. new.tasks = [t \in Tasks |-> IF t \in S
                    THEN Hung(p.tasks[t], p.tasks[t].req, None, p.tasks[t].project)
                    ELSE p.tasks[t]]
  BY <1>1 DEF Columns, Dropped, PutTasks
<1> HIDE DEF new
<1>7. \A t \in Tasks : /\ GoodTask(new.tasks[t], p.reqs, p.cands, n, t \in p.strayed)
                       /\ new.tasks[t].cand # c
  <2> TAKE t \in Tasks
  <2> DEFINE a == p.tasks[t]
             G(x) == GoodTask(x, p.reqs, p.cands, n, t \in p.strayed)
  <2>1. G(a)
    BY RowsOf
  <2>2. a \in TaskRow(n) /\ a.project \in Somewhere
    BY <2>1 DEF GoodTask, TaskRow
  <2>3. CASE t \in S
    <3>1. a.req = None
      BY <1>1, <2>1, <2>3 DEF GoodTask
    <3>2. new.tasks[t] = Hung(a, None, None, a.project)
      BY <1>6, <2>3, <3>1
    <3> HIDE DEF a
    <3>3. G(Hung(a, None, None, a.project))
      BY <1>1, <2>1, <2>2, HungGood DEF OnReq, OnCand
    <3>4. Hung(a, None, None, a.project).cand = None
      BY <2>2 DEF Hung, TaskRow
    <3> QED BY <1>1, <3>2, <3>3, <3>4
  <2>4. CASE t \notin S
    <3>1. new.tasks[t] = a /\ a.cand # c
      BY <1>6, <2>4
    <3> QED BY <2>1, <3>1
  <2> QED BY <2>3, <2>4
<1>8. GoodTables(p.reqs, p.merges, p.cands, new.tasks, n, p.strayed)
  <2>1. new.tasks = [t \in Tasks |-> new.tasks[t]]
    BY <1>6
  <2> QED BY <1>7, <2>1, TasksIn DEF Good
<1>9. GoodCand(k, p.reqs, n)
  <2>1. NewCand \in CandRow(n) /\ S \in SUBSET Tasks
    BY <1>1, NewCandGood DEF GoodCand
  <2> HIDE DEF S
  <2>2. k \in CandRow(n) /\ k.status = "dropped"
    BY <2>1 DEF CandDropped, CandRow
  <2> QED BY <2>2 DEF GoodCand
<1> HIDE DEF k
<1>10. GoodTables(p.reqs, p.merges, new.cands, new.tasks, n, p.strayed)
  <2> DEFINE reqs == p.reqs
             merges == p.merges
             cands == p.cands
             tasks == new.tasks
             strayed == p.strayed
  <2>1. /\ GoodTables(reqs, merges, cands, tasks, n, strayed) /\ n \in Nat
        /\ GoodCand(k, reqs, n) /\ \A t \in Tasks : tasks[t].cand = c => k.status = "pending"
    BY <1>1, <1>7, <1>8, <1>9
  <2> HIDE DEF reqs, merges, cands, tasks, strayed, n
  <2>2. GoodTables(reqs, merges, [cands EXCEPT ![c] = k], tasks, n, strayed)
    BY <2>1, CandPut
  <2> QED BY <1>5, <2>2 DEF reqs, merges, cands, tasks, strayed
<1>11. Good(new) /\ Counts(p, new, 0)
  BY <1>1, <1>2, <1>3, <1>4, <1>10 DEF Good, Counts
<1> QED BY <1>11 DEF new

LEMMA RestoreStep ==
  ASSUME NEW p, Good(p), NEW c \in Cands
  PROVE  LET new == Restored(p, c) IN Good(new) /\ Counts(p, new, 0)
<1> DEFINE new == Restored(p, c)
           n == p.clock
           S == {t \in p.cands[c].dropped : p.tasks[t].cand = None /\ p.tasks[t].req = None}
<1>1. /\ IsPool(p) /\ DOMAIN p = Columns /\ n \in Nat
      /\ p.cands = [x \in Cands |-> p.cands[x]]
  BY DEF Good, IsPool, GoodTables
<1>2. IsPool(new)
  BY <1>1 DEF IsPool, Columns, Restored, PutTasks
<1>3. /\ new.merges = p.merges /\ new.reqs = p.reqs
      /\ new.home = p.home /\ new.move = p.move /\ new.strayed = p.strayed
  BY <1>1 DEF Columns, Restored, PutTasks
<1>4. new.clock = p.clock /\ new.edits = p.edits /\ new.moves = p.moves
  BY <1>1 DEF Columns, Restored, PutTasks
<1>5. new.cands = [p.cands EXCEPT ![c] = NewCand]
  BY <1>1 DEF Columns, Restored, PutTasks
<1>6. new.tasks = [t \in Tasks |-> IF t \in S
                    THEN Hung(p.tasks[t], None, c, p.tasks[t].project) ELSE p.tasks[t]]
  BY <1>1 DEF Columns, Restored, PutTasks
<1> HIDE DEF new, S
<1>7. GoodTables(p.reqs, p.merges, new.cands, p.tasks, n, p.strayed)
  BY <1>1, <1>5, NewCandGood, CandPut DEF Good
<1>8. new.cands[c].status = "pending"
  BY <1>1, <1>5, NewCandGood
<1>9. \A t \in Tasks : GoodTask(new.tasks[t], p.reqs, new.cands, n, t \in p.strayed)
  <2> TAKE t \in Tasks
  <2> DEFINE a == p.tasks[t]
             G(x) == GoodTask(x, p.reqs, new.cands, n, t \in p.strayed)
  <2>1. G(a)
    BY <1>7 DEF GoodTables
  <2>2. a.project \in Somewhere
    BY <2>1 DEF GoodTask, TaskRow
  <2>3. new.tasks[t] = IF t \in S THEN Hung(a, None, c, a.project) ELSE a
    BY <1>6
  <2> HIDE DEF a
  <2>4. G(Hung(a, None, c, a.project))
    BY <1>1, <1>8, <2>1, <2>2, HungGood DEF OnReq, OnCand
  <2> QED BY <2>1, <2>3, <2>4
<1>10. GoodTables(p.reqs, p.merges, new.cands, new.tasks, n, p.strayed)
  <2>1. new.tasks = [t \in Tasks |-> new.tasks[t]]
    BY <1>6
  <2> QED BY <1>7, <1>9, <2>1, TasksIn
<1>11. Good(new) /\ Counts(p, new, 0)
  BY <1>1, <1>2, <1>3, <1>4, <1>10 DEF Good, Counts
<1> QED BY <1>11 DEF new

(* What a candidate's merge is undone to, before what it had reopened is   *)
(* settled.                                                                *)
CandBack(p, c) ==
    LET k == p.cands[c]
        back == {t \in TasksAt(p, k.req) : k.undo.tasks[t] # None} IN
    [p EXCEPT !.tasks = [t \in Tasks |-> IF t \in back
                THEN Hung(p.tasks[t], None, c, k.undo.tasks[t].project) ELSE p.tasks[t]],
              !.cands[c] = NewCand, !.astray = @ \ {c}]

LEMMA CandBackGood ==
  ASSUME NEW p, Good(p), NEW c \in Cands, MayUnmergeCand(p, c)
  PROVE  LET new == CandBack(p, c) IN Good(new) /\ Counts(p, new, 0)
<1> DEFINE new == CandBack(p, c)
           n == p.clock
           u == p.cands[c].undo
           r == p.cands[c].req
           S == {t \in TasksAt(p, r) : u.tasks[t] # None}
<1>1. /\ IsPool(p) /\ DOMAIN p = Columns /\ n \in Nat
      /\ p.cands = [x \in Cands |-> p.cands[x]]
  BY DEF Good, IsPool, GoodTables
<1>2. IsPool(new)
  BY <1>1 DEF IsPool, Columns, CandBack
<1>3. /\ new.merges = p.merges /\ new.reqs = p.reqs
      /\ new.home = p.home /\ new.move = p.move /\ new.strayed = p.strayed
  BY <1>1 DEF Columns, CandBack
<1>4. new.clock = p.clock /\ new.edits = p.edits /\ new.moves = p.moves
  BY <1>1 DEF Columns, CandBack
<1>5. new.cands = [p.cands EXCEPT ![c] = NewCand]
  BY <1>1 DEF Columns, CandBack
<1>6. new.tasks = [t \in Tasks |-> IF t \in S
                    THEN Hung(p.tasks[t], None, c, u.tasks[t].project) ELSE p.tasks[t]]
  BY <1>1 DEF Columns, CandBack
<1>7. u \in CandUndo(n) /\ r \in Reqs
  BY RowsOf DEF MayUnmergeCand, GoodCand, CandRow
<1>8. /\ u.reopen = None \/ u.reopen \in ReopenRow(n)
      /\ \A t \in S : u.tasks[t].project \in Somewhere
  <2>1. \A t \in S : u.tasks[t] \in Taken
    BY <1>7 DEF CandUndo, TasksAt
  <2> QED BY <1>7, <2>1 DEF CandUndo, Taken
<1> HIDE DEF new, S, u, r
<1>10. GoodTables(p.reqs, p.merges, new.cands, p.tasks, n, p.strayed)
  BY <1>1, <1>5, NewCandGood, CandPut DEF Good
<1>11. new.cands[c].status = "pending"
  BY <1>1, <1>5, NewCandGood
<1>12. \A t \in Tasks : GoodTask(new.tasks[t], p.reqs, new.cands, n, t \in p.strayed)
  <2> TAKE t \in Tasks
  <2> DEFINE a == p.tasks[t]
             G(x) == GoodTask(x, p.reqs, new.cands, n, t \in p.strayed)
             q == u.tasks[t].project
  <2>1. G(a)
    BY <1>10 DEF GoodTables
  <2>2. new.tasks[t] = IF t \in S THEN Hung(a, None, c, q) ELSE a
    BY <1>6
  <2>3. t \in S => q \in Somewhere
    BY <1>8
  <2> HIDE DEF a, q
  <2>4. t \in S => G(Hung(a, None, c, q))
    BY <1>1, <1>11, <2>1, <2>3, HungGood DEF OnReq, OnCand
  <2> QED BY <2>1, <2>2, <2>4
<1>13. GoodTables(p.reqs, p.merges, new.cands, new.tasks, n, p.strayed)
  <2>1. new.tasks = [t \in Tasks |-> new.tasks[t]]
    BY <1>6
  <2> QED BY <1>10, <1>12, <2>1, TasksIn
<1>14. Good(new) /\ Counts(p, new, 0)
  BY <1>1, <1>2, <1>3, <1>4, <1>13 DEF Good, Counts
<1> QED BY <1>14 DEF new

LEMMA UnmergeCandStep ==
  ASSUME NEW p, Good(p), NEW c \in Cands, MayUnmergeCand(p, c)
  PROVE  LET new == CandUnmerged(p, c) IN Good(new) /\ Counts(p, new, 0)
<1> DEFINE b == CandBack(p, c)
           record == p.cands[c].undo.reopen
           m == p.cands[c].req
           settled == Settled(b, m, record)
<1>1. CandUnmerged(p, c) = settled
  BY DEF CandUnmerged, CandBack
<1>2. p.clock \in Nat /\ Good(b) /\ Counts(p, b, 0)
  BY CandBackGood DEF Good
<1> HIDE DEF b
<1>3. m \in Reqs /\ p.cands[c].undo \in CandUndo(p.clock)
  BY RowsOf DEF MayUnmergeCand, GoodCand, CandRow
<1>4. b.clock = p.clock /\ (record = None \/ record \in ReopenRow(p.clock))
  BY <1>2, <1>3 DEF CandUndo, Counts
<1> HIDE DEF m, record
<1>5. Good(settled) /\ Counts(b, settled, 0)
  BY <1>2, <1>3, <1>4, SettledStep
<1> HIDE DEF settled
<1>6. Good(settled) /\ Counts(p, settled, 0)
  BY <1>2, <1>4, <1>5 DEF Counts
<1> QED BY <1>1, <1>6

-----------------------------------------------------------------------------
(* Requirements merged into one another: the tables one after another.     *)

HungTo(tasks, S, r, q) ==
    [t \in Tasks |-> IF t \in S THEN Hung(tasks[t], r, tasks[t].cand, q) ELSE tasks[t]]

LEMMA HungRows ==
  ASSUME NEW n \in Nat, NEW reqs, NEW merges, NEW cands, NEW tasks, NEW strayed,
         GoodTables(reqs, merges, cands, tasks, n, strayed),
         NEW r \in Reqs, reqs[r].here, NEW S, \A t \in S \cap Tasks : tasks[t].cand = None
  PROVE  LET new == HungTo(tasks, S, r, reqs[r].project) IN
         /\ GoodTables(reqs, merges, cands, new, n, strayed)
         /\ \A t \in Tasks : new[t].undo = tasks[t].undo
         /\ \A t \in Tasks : new[t].req = IF t \in S THEN r ELSE tasks[t].req
<1> DEFINE q == reqs[r].project
           new == HungTo(tasks, S, r, q)
<1>0. new = [t \in Tasks |-> IF t \in S THEN Hung(tasks[t], r, tasks[t].cand, q) ELSE tasks[t]]
  BY DEF HungTo
<1> HIDE DEF new
<1>1. q \in Somewhere
  BY DEF GoodTables, GoodReq, Somewhere
<1>2. \A t \in Tasks : /\ GoodTask(new[t], reqs, cands, n, t \in strayed)
                       /\ new[t].undo = tasks[t].undo
                       /\ new[t].req = IF t \in S THEN r ELSE tasks[t].req
  <2> TAKE t \in Tasks
  <2> DEFINE k == tasks[t]
             G(x) == GoodTask(x, reqs, cands, n, t \in strayed)
  <2>1. G(k)
    BY DEF GoodTables
  <2>2. k \in TaskRow(n)
    BY <2>1 DEF GoodTask
  <2>3. CASE t \in S
    <3>1. new[t] = Hung(k, r, None, q)
      BY <1>0, <2>3
    <3> HIDE DEF k
    <3>2. G(Hung(k, r, None, q))
      BY <1>1, <2>1, HungGood DEF OnReq, OnCand
    <3>3. Hung(k, r, None, q).undo = k.undo /\ Hung(k, r, None, q).req = r
      BY <2>2 DEF Hung, TaskRow
    <3> QED BY <2>3, <3>1, <3>2, <3>3 DEF k
  <2>4. CASE t \notin S
    <3>1. new[t] = k
      BY <1>0, <2>4
    <3> QED BY <2>1, <2>4, <3>1
  <2> QED BY <2>3, <2>4
<1>3. new = [t \in Tasks |-> new[t]]
  BY <1>0
<1>4. GoodTables(reqs, merges, cands, new, n, strayed)
  BY <1>2, <1>3, TasksIn
<1> QED BY <1>2, <1>4 DEF new

RepointedTo(tasks, S, m) ==
    [t \in Tasks |-> IF t \in S THEN [tasks[t] EXCEPT !.undo.req = m] ELSE tasks[t]]

LEMMA RepointRows ==
  ASSUME NEW n \in Nat, NEW reqs, NEW merges, NEW cands, NEW tasks, NEW strayed,
         GoodTables(reqs, merges, cands, tasks, n, strayed),
         NEW m \in Reqs, reqs[m].here, NEW S, \A t \in S \cap Tasks : tasks[t].undo # None
  PROVE  LET new == RepointedTo(tasks, S, m) IN
         /\ GoodTables(reqs, merges, cands, new, n, strayed)
         /\ \A t \in Tasks : new[t].req = tasks[t].req
         /\ \A t \in Tasks : t \notin S => new[t].undo = tasks[t].undo
         /\ \A t \in S \cap Tasks : new[t].undo.req = m
<1> DEFINE new == RepointedTo(tasks, S, m)
<1>0. new = [t \in Tasks |-> IF t \in S THEN [tasks[t] EXCEPT !.undo.req = m] ELSE tasks[t]]
  BY DEF RepointedTo
<1> HIDE DEF new
<1>1. \A t \in Tasks : /\ GoodTask(new[t], reqs, cands, n, t \in strayed)
                       /\ new[t].req = tasks[t].req
                       /\ t \notin S => new[t].undo = tasks[t].undo
                       /\ t \in S => new[t].undo.req = m
  <2> TAKE t \in Tasks
  <2> DEFINE k == tasks[t]
             undo == [k.undo EXCEPT !.req = m]
             to == [k EXCEPT !.undo = undo]
  <2>1. GoodTask(k, reqs, cands, n, t \in strayed)
    BY DEF GoodTables
  <2>2. k \in TaskRow(n)
    BY <2>1 DEF GoodTask
  <2>3. CASE t \in S
    <3>1. k.undo \in LinkRow
      BY <2>2, <2>3 DEF TaskRow
    <3>2. new[t] = to
      BY <1>0, <2>2, <2>3 DEF TaskRow
    <3> HIDE DEF k
    <3>3. undo \in LinkRow /\ undo.req = m
      BY <3>1 DEF LinkRow, OnReq
    <3> HIDE DEF undo
    <3>4. to \in TaskRow(n)
      BY <2>2, <3>3 DEF TaskRow
    <3>5. /\ to.status = k.status /\ to.closedAt = k.closedAt /\ to.last = k.last
          /\ to.was = k.was /\ to.req = k.req /\ to.cand = k.cand
          /\ to.project = k.project /\ to.undo = undo
      BY <2>2 DEF TaskRow
    <3> HIDE DEF to
    <3>6. GoodTask(to, reqs, cands, n, t \in strayed)
      BY <2>1, <3>3, <3>4, <3>5 DEF GoodTask
    <3> QED BY <2>3, <3>2, <3>3, <3>5, <3>6 DEF k
  <2>4. CASE t \notin S
    <3>1. new[t] = k
      BY <1>0, <2>4
    <3> QED BY <2>1, <2>4, <3>1
  <2> QED BY <2>3, <2>4
<1>2. new = [t \in Tasks |-> new[t]]
  BY <1>0
<1>3. GoodTables(reqs, merges, cands, new, n, strayed)
  BY <1>1, <1>2, TasksIn
<1> QED BY <1>1, <1>3 DEF new

(* Candidates that were dealt with go with the requirement they became.    *)
CandsTo(cands, C, m, st) ==
    [c \in Cands |-> IF c \in C THEN [cands[c] EXCEPT !.req = m, !.status = st[c]] ELSE cands[c]]

LEMMA CandsMoved ==
  ASSUME NEW n \in Nat, NEW reqs, NEW merges, NEW cands, NEW tasks, NEW strayed,
         GoodTables(reqs, merges, cands, tasks, n, strayed),
         NEW m \in Reqs, reqs[m].here, NEW C, NEW st,
         \A c \in C \cap Cands : cands[c].status # "pending" /\ st[c] \in {"claimed", "merged"}
  PROVE  LET new == CandsTo(cands, C, m, st) IN
         /\ GoodTables(reqs, merges, new, tasks, n, strayed)
         /\ \A c \in Cands : c \notin C => new[c] = cands[c]
         /\ \A c \in C \cap Cands : new[c].req = m
<1> DEFINE new == CandsTo(cands, C, m, st)
<1>0. new = [c \in Cands |-> IF c \in C THEN [cands[c] EXCEPT !.req = m, !.status = st[c]]
                             ELSE cands[c]]
  BY DEF CandsTo
<1> HIDE DEF new
<1>1. \A c \in Cands : /\ GoodCand(new[c], reqs, n)
                       /\ c \notin C => new[c] = cands[c]
                       /\ c \in C => new[c].req = m
                       /\ cands[c].status = "pending" => new[c].status = "pending"
  <2> TAKE c \in Cands
  <2> DEFINE k == cands[c]
             s == st[c]
             to == [k EXCEPT !.req = m, !.status = s]
  <2>1. GoodCand(k, reqs, n)
    BY DEF GoodTables
  <2>2. CASE c \in C
    <3>1. k \in CandRow(n) /\ k.status # "pending" /\ s \in {"claimed", "merged"}
      BY <2>1, <2>2 DEF GoodCand
    <3>2. new[c] = to
      BY <1>0, <2>2
    <3> HIDE DEF k, s
    <3>3. to \in CandRow(n) /\ to.req = m /\ to.status # "pending"
      BY <3>1 DEF CandRow, OnReq
    <3> HIDE DEF to
    <3> QED BY <2>2, <3>1, <3>2, <3>3 DEF GoodCand, k
  <2>3. CASE c \notin C
    BY <1>0, <2>1, <2>3
  <2> QED BY <2>2, <2>3
<1>2. \A t \in Tasks : GoodTask(tasks[t], reqs, new, n, t \in strayed)
  <2> TAKE t \in Tasks
  <2>1. GoodTask(tasks[t], reqs, cands, n, t \in strayed)
    BY DEF GoodTables
  <2>2. tasks[t].cand # None => tasks[t].cand \in Cands
    BY <2>1 DEF GoodTask, TaskRow, OnCand
  <2> QED BY <1>1, <2>1, <2>2 DEF GoodTask
<1>3. new = [c \in Cands |-> new[c]]
  BY <1>0
<1>4. GoodTables(reqs, merges, new, tasks, n, strayed)
  BY <1>1, <1>2, <1>3 DEF GoodTables
<1> QED BY <1>1, <1>4 DEF new

(* Merges into a requirement name the one it went to.                      *)
ChainedTo(merges, X, m) ==
    [x \in Reqs |-> IF x \in X THEN [merges[x] EXCEPT !.into = m] ELSE merges[x]]

LEMMA MergesChained ==
  ASSUME NEW n \in Nat, NEW reqs, NEW merges, NEW cands, NEW tasks, NEW strayed,
         GoodTables(reqs, merges, cands, tasks, n, strayed),
         NEW m \in Reqs, reqs[m].here, NEW X, \A x \in X \cap Reqs : merges[x] # None
  PROVE  LET new == ChainedTo(merges, X, m) IN
         /\ GoodTables(reqs, new, cands, tasks, n, strayed)
         /\ \A x \in Reqs : x \notin X => new[x] = merges[x]
         /\ \A x \in X \cap Reqs : new[x].into = m
<1> DEFINE new == ChainedTo(merges, X, m)
<1>0. new = [x \in Reqs |-> IF x \in X THEN [merges[x] EXCEPT !.into = m] ELSE merges[x]]
  BY DEF ChainedTo
<1> HIDE DEF new
<1>1. \A x \in Reqs : /\ GoodMerge(new[x], x, reqs, n)
                      /\ x \notin X => new[x] = merges[x]
                      /\ x \in X => new[x].into = m
  <2> TAKE x \in Reqs
  <2> DEFINE g == merges[x]
             to == [g EXCEPT !.into = m]
  <2>1. GoodMerge(g, x, reqs, n)
    BY DEF GoodTables
  <2>2. CASE x \in X
    <3>1. g # None /\ g \in MergeRow(n)
      BY <2>1, <2>2 DEF GoodMerge
    <3>2. new[x] = to
      BY <1>0, <2>2
    <3> HIDE DEF g
    <3>3. to \in MergeRow(n) /\ to.into = m /\ to.row = g.row
      BY <3>1 DEF MergeRow
    <3> HIDE DEF to
    <3> QED BY <2>1, <2>2, <3>1, <3>2, <3>3 DEF GoodMerge
  <2>3. CASE x \notin X
    BY <1>0, <2>1, <2>3
  <2> QED BY <2>2, <2>3
<1>2. new = [x \in Reqs |-> new[x]]
  BY <1>0
<1>3. GoodTables(reqs, new, cands, tasks, n, strayed)
  BY <1>1, <1>2 DEF GoodTables
<1> QED BY <1>1, <1>3 DEF new

(* A requirement that nothing points at any more goes.                     *)
LEMMA ReqGone ==
  ASSUME NEW n \in Nat, NEW reqs, NEW merges, NEW cands, NEW tasks, NEW strayed,
         GoodTables(reqs, merges, cands, tasks, n, strayed),
         NEW r \in Reqs, NEW m \in Reqs, r # m, reqs[m].here,
         NEW g, g \in MergeRow(n), GoodReq(g.row, n), g.row.here, g.into = m,
         \A t \in Tasks : tasks[t].req # r,
         \A t \in Tasks : tasks[t].undo # None => tasks[t].undo.req # r,
         \A c \in Cands : cands[c].status \in {"claimed", "merged"} => cands[c].req # r,
         \A x \in Reqs : merges[x] # None => merges[x].into # r
  PROVE  GoodTables([reqs EXCEPT ![r] = NoReq], [merges EXCEPT ![r] = g],
                    cands, tasks, n, strayed)
<1> DEFINE new == [reqs EXCEPT ![r] = NoReq]
           more == [merges EXCEPT ![r] = g]
<1>1. /\ reqs = [x \in Reqs |-> reqs[x]] /\ \A x \in Reqs : GoodReq(reqs[x], n)
      /\ merges = [x \in Reqs |-> merges[x]]
  BY DEF GoodTables
<1>2. /\ new = [x \in Reqs |-> new[x]] /\ new[r] = NoReq
      /\ \A x \in Reqs \ {r} : new[x] = reqs[x]
  BY <1>1
<1>3. /\ more = [x \in Reqs |-> more[x]] /\ more[r] = g
      /\ \A x \in Reqs \ {r} : more[x] = merges[x]
  BY <1>1
<1> HIDE DEF new, more
<1>4. GoodReq(NoReq, n) /\ ~NoReq.here
  BY DEF NoReq, GoodReq, ReqRow, Stamps, Somewhere, ReqStatuses
<1>5. \A x \in Reqs : GoodReq(new[x], n)
  BY <1>1, <1>2, <1>4
<1>6. \A x \in Reqs : GoodMerge(more[x], x, new, n)
  <2> TAKE x \in Reqs
  <2>1. CASE x = r
    BY <1>2, <1>3, <1>4, <2>1 DEF GoodMerge
  <2>2. CASE x # r
    <3>1. GoodMerge(merges[x], x, reqs, n) /\ more[x] = merges[x] /\ new[x] = reqs[x]
      BY <1>2, <1>3, <2>2 DEF GoodTables
    <3>2. merges[x] # None => merges[x].into \in Reqs \ {r}
      BY <3>1 DEF GoodMerge, MergeRow
    <3> QED BY <1>2, <3>1, <3>2 DEF GoodMerge
  <2> QED BY <2>1, <2>2
<1>7. \A c \in Cands : GoodCand(cands[c], new, n)
  BY <1>2 DEF GoodTables, GoodCand
<1>8. \A t \in Tasks : GoodTask(tasks[t], new, cands, n, t \in strayed)
  <2> TAKE t \in Tasks
  <2>1. GoodTask(tasks[t], reqs, cands, n, t \in strayed)
    BY DEF GoodTables
  <2>2. tasks[t].req # None => tasks[t].req \in Reqs \ {r}
    BY <2>1 DEF GoodTask, TaskRow, OnReq
  <2>3. tasks[t].undo # None /\ tasks[t].undo.req # None => tasks[t].undo.req \in Reqs \ {r}
    <3>1. tasks[t].undo # None => tasks[t].undo \in LinkRow
      BY <2>1 DEF GoodTask, TaskRow
    <3> QED BY <3>1 DEF LinkRow, OnReq
  <2> QED BY <1>2, <2>1, <2>2, <2>3 DEF GoodTask
<1>9. GoodTables(new, more, cands, tasks, n, strayed)
  BY <1>2, <1>3, <1>5, <1>6, <1>7, <1>8 DEF GoodTables
<1> QED BY <1>9 DEF new, more

(* Tasks hung on another requirement, and confirm_undo pointed at it.      *)
PointedTo(p, S, from, to, q, C) ==
    Repointed(PutTasks(p, S, LAMBDA k : Hung(k, to, k.cand, q)), C, from, to)
Pointing(M, C, r) == C \cap {t \in Tasks : M[t].undo # None /\ M[t].undo.req = r}

LEMMA PointedTables ==
  ASSUME NEW p, Good(p), NEW S, NEW from, NEW to, NEW q, NEW C
  PROVE  LET new == PointedTo(p, S, from, to, q, C)
             M == HungTo(p.tasks, S, to, q) IN
         /\ IsPool(new) /\ new.reqs = p.reqs /\ new.merges = p.merges /\ new.cands = p.cands
         /\ new.home = p.home /\ new.move = p.move /\ new.strayed = p.strayed
         /\ Counts(p, new, 0)
         /\ new.tasks = RepointedTo(M, Pointing(M, C, from), to)
<1> DEFINE moved == PutTasks(p, S, LAMBDA k : Hung(k, to, k.cand, q))
           new == Repointed(moved, C, from, to)
           M == HungTo(p.tasks, S, to, q)
<1>1. IsPool(p) /\ DOMAIN p = Columns /\ p.clock \in Nat
  BY DEF Good, IsPool
<1>2. IsPool(moved) /\ DOMAIN moved = Columns
  BY <1>1 DEF IsPool, Columns, PutTasks
<1>3. moved.tasks = M
  BY <1>1 DEF Columns, PutTasks, HungTo
<1>4. /\ moved.reqs = p.reqs /\ moved.merges = p.merges /\ moved.cands = p.cands
      /\ moved.home = p.home /\ moved.move = p.move /\ moved.strayed = p.strayed
  BY <1>1 DEF Columns, PutTasks
<1>5. moved.clock = p.clock /\ moved.edits = p.edits /\ moved.moves = p.moves
  BY <1>1 DEF Columns, PutTasks
<1> HIDE DEF moved, M
<1>6. IsPool(new)
  BY <1>2 DEF IsPool, Columns, Repointed, PutTasks
<1>7. new.tasks = RepointedTo(M, Pointing(M, C, from), to)
  BY <1>2, <1>3 DEF Columns, Repointed, PutTasks, RepointedTo, Pointing, ConfirmedFrom
<1>8. /\ new.reqs = p.reqs /\ new.merges = p.merges /\ new.cands = p.cands
      /\ new.home = p.home /\ new.move = p.move /\ new.strayed = p.strayed
  BY <1>2, <1>4 DEF Columns, Repointed, PutTasks
<1>9. new.clock = p.clock /\ new.edits = p.edits /\ new.moves = p.moves
  BY <1>2, <1>5 DEF Columns, Repointed, PutTasks
<1>10. PointedTo(p, S, from, to, q, C) = new
  BY DEF PointedTo, moved
<1> HIDE DEF new
<1>11. Counts(p, new, 0)
  BY <1>1, <1>9 DEF Counts
<1> QED BY <1>6, <1>7, <1>8, <1>10, <1>11 DEF M

(* The tables after a merge.                                               *)
Moving(p, r, m) == HungTo(p.tasks, TasksAt(p, r), m, p.reqs[m].project)
Opens(p, r, m) == p.reqs[r].status = "active" /\ p.reqs[m].status # "active"
TakenBy(p, r) ==
    {c \in Cands : p.cands[c].req = r /\ p.cands[c].status \in {"claimed", "merged"}}
ChainedBy(p, r) == {x \in Reqs : p.merges[x] # None /\ p.merges[x].into = r}
MergeRecord(p, r, m) ==
    [into |-> m, main |-> m, at |-> Stamp(p), row |-> p.reqs[r], tasks |-> TasksAt(p, r),
     cands |-> [c \in Cands |-> IF c \in TakenBy(p, r) THEN p.cands[c].status ELSE None],
     chained |-> ChainedBy(p, r), confirms |-> ConfirmedFrom(p, r),
     reopen |-> IF Opens(p, r, m) THEN Reopened(p, m) ELSE None]
MainRow(p, r, m) ==
    IF Opens(p, r, m) THEN ReqAt(p.reqs[m], "active", Stamp(p)) ELSE p.reqs[m]

LEMMA MergedTables ==
  ASSUME NEW p, Good(p), NEW r \in Reqs, NEW m \in Reqs, r # m
  PROVE  LET q == Merged(p, r, m)
             M == Moving(p, r, m)
             C == Pointing(M, ConfirmedFrom(p, r), r) IN
         /\ IsPool(q) /\ q.home = p.home /\ q.move = p.move /\ q.strayed = p.strayed
         /\ Counts(p, q, 1)
         /\ q.tasks = RepointedTo(M, C, m)
         /\ q.cands = CandsTo(p.cands, TakenBy(p, r), m, [c \in Cands |-> "merged"])
         /\ q.merges = [ChainedTo(p.merges, ChainedBy(p, r), m) EXCEPT ![r] = MergeRecord(p, r, m)]
         /\ q.reqs = [[p.reqs EXCEPT ![m] = MainRow(p, r, m)] EXCEPT ![r] = NoReq]
<1> DEFINE q == Merged(p, r, m)
           o == PointedTo(p, TasksAt(p, r), r, m, p.reqs[m].project, ConfirmedFrom(p, r))
           M == Moving(p, r, m)
           C == Pointing(M, ConfirmedFrom(p, r), r)
           cands == [c \in Cands |-> IF c \in TakenBy(p, r)
                        THEN [p.cands[c] EXCEPT !.req = m, !.status = "merged"] ELSE p.cands[c]]
           merges == [x \in Reqs |-> IF x = r THEN MergeRecord(p, r, m)
                        ELSE IF x \in ChainedBy(p, r) THEN [p.merges[x] EXCEPT !.into = m]
                        ELSE p.merges[x]]
           reqs == [x \in Reqs |-> IF x = r THEN NoReq
                      ELSE IF x = m /\ Opens(p, r, m) THEN ReqAt(p.reqs[m], "active", Stamp(p))
                      ELSE p.reqs[x]]
<1>0. /\ IsPool(o) /\ o.home = p.home /\ o.move = p.move /\ o.strayed = p.strayed
      /\ Counts(p, o, 0) /\ o.tasks = RepointedTo(M, C, m)
  BY PointedTables DEF Moving
<1>1. q = [o EXCEPT !.cands = cands, !.merges = merges, !.reqs = reqs,
                    !.opened = IF Opens(p, r, m) THEN @ \cup {Stamp(p)} ELSE @,
                    !.clock = @ + 1]
  BY DEF Merged, PointedTo, MergeRecord, TakenBy, ChainedBy, Opens, ReqAt
<1> HIDE DEF q, o, cands, merges, reqs
<1>2. DOMAIN o = Columns /\ p.clock \in Nat
  BY <1>0 DEF IsPool, Good
<1>3. IsPool(q)
  BY <1>0, <1>1, <1>2 DEF IsPool, Columns
<1>4. q.home = p.home /\ q.move = p.move /\ q.strayed = p.strayed
  BY <1>0, <1>1, <1>2 DEF Columns
<1>5. q.clock = p.clock + 1 /\ q.edits = p.edits /\ q.moves = p.moves
  BY <1>0, <1>1, <1>2 DEF Columns, Counts
<1>6. q.cands = cands /\ q.merges = merges /\ q.reqs = reqs /\ q.tasks = o.tasks
  BY <1>1, <1>2 DEF Columns
<1>7. cands = CandsTo(p.cands, TakenBy(p, r), m, [c \in Cands |-> "merged"])
  BY DEF cands, CandsTo
<1>8. merges = [ChainedTo(p.merges, ChainedBy(p, r), m) EXCEPT ![r] = MergeRecord(p, r, m)]
  BY DEF merges, ChainedTo
<1>9. reqs = [[p.reqs EXCEPT ![m] = MainRow(p, r, m)] EXCEPT ![r] = NoReq]
  <2>1. p.reqs = [x \in Reqs |-> p.reqs[x]]
    BY DEF Good, GoodTables
  <2> QED BY <2>1 DEF reqs, MainRow
<1> HIDE DEF C
<1> QED BY <1>0, <1>3, <1>4, <1>5, <1>6, <1>7, <1>8, <1>9 DEF Counts, C, q

LEMMA MergeRecordGood ==
  ASSUME NEW p, NEW n \in Nat, NEW r \in Reqs, NEW m \in Reqs,
         Stamp(p) \in Stamps(n), GoodReq(p.reqs[r], n), GoodReq(p.reqs[m], n)
  PROVE  MergeRecord(p, r, m) \in MergeRow(n)
<1> DEFINE taken == [c \in Cands |-> IF c \in TakenBy(p, r) THEN p.cands[c].status ELSE None]
           reopen == IF Opens(p, r, m) THEN Reopened(p, m) ELSE None
<1>1. taken \in [Cands -> {"claimed", "merged", None}]
  BY DEF TakenBy
<1>2. reopen \in ReopenRow(n) \cup {None}
  BY DEF GoodReq, ReqRow, Reopened, ReopenRow
<1>3. p.reqs[r] \in ReqRow(n)
  BY DEF GoodReq
<1>4. /\ TasksAt(p, r) \in SUBSET Tasks /\ ChainedBy(p, r) \in SUBSET Reqs
      /\ ConfirmedFrom(p, r) \in SUBSET Tasks
  BY DEF TasksAt, ChainedBy, ConfirmedFrom
<1>5. MergeRecord(p, r, m)
      = [into |-> m, main |-> m, at |-> Stamp(p), row |-> p.reqs[r], tasks |-> TasksAt(p, r),
         cands |-> taken, chained |-> ChainedBy(p, r), confirms |-> ConfirmedFrom(p, r),
         reopen |-> reopen]
  BY DEF MergeRecord
<1> HIDE DEF taken, reopen
<1> QED BY <1>1, <1>2, <1>3, <1>4, <1>5 DEF MergeRow

LEMMA MergeStep ==
  ASSUME NEW p, Good(p), NEW r \in Reqs, NEW m \in Reqs, MayMerge(p, r, m)
  PROVE  LET q == Merged(p, r, m) IN Good(q) /\ Counts(p, q, 1)
<1> DEFINE q == Merged(p, r, m)
           n == p.clock + 1
           M == Moving(p, r, m)
           C == Pointing(M, ConfirmedFrom(p, r), r)
           T == RepointedTo(M, C, m)
           merged == [c \in Cands |-> "merged"]
           K == CandsTo(p.cands, TakenBy(p, r), m, merged)
           X == ChainedTo(p.merges, ChainedBy(p, r), m)
           g == MergeRecord(p, r, m)
           R == [p.reqs EXCEPT ![m] = MainRow(p, r, m)]
           merges == p.merges
           cands == p.cands
           tasks == p.tasks
           strayed == p.strayed
<1>0. /\ IsPool(q) /\ q.home = p.home /\ q.move = p.move /\ q.strayed = p.strayed
      /\ Counts(p, q, 1) /\ q.tasks = T /\ q.cands = K /\ q.merges = [X EXCEPT ![r] = g]
      /\ q.reqs = [R EXCEPT ![r] = NoReq]
  BY MergedTables DEF MayMerge
<1> HIDE DEF q
<1>1. /\ p.clock \in Nat /\ n \in Nat /\ Stamp(p) \in Stamps(n) /\ Stamp(p) = n
      /\ r # m /\ p.reqs[r].here /\ p.reqs[m].here
      /\ r # None /\ p.reqs = [x \in Reqs |-> p.reqs[x]]
  BY LinksAssumption DEF Good, GoodTables, MayMerge, Here, Stamp, Stamps
<1>2. GoodTables(p.reqs, merges, cands, tasks, n, strayed)
  BY <1>1, LaterTables DEF Good
<1>3. /\ GoodReq(p.reqs[r], n) /\ GoodReq(p.reqs[m], n)
      /\ \A t \in Tasks : GoodTask(tasks[t], p.reqs, cands, n, t \in strayed)
  BY <1>2 DEF GoodTables
<1>4. g \in MergeRow(n)
  BY <1>1, <1>3, MergeRecordGood
<1>5. g.row = p.reqs[r] /\ g.into = m
  BY DEF MergeRecord
<1>6. /\ GoodReq(MainRow(p, r, m), n) /\ MainRow(p, r, m).here = p.reqs[m].here
      /\ MainRow(p, r, m).project = p.reqs[m].project
  <2> DEFINE k == p.reqs[m]
             a == Stamp(p)
  <2>1. GoodReq(k, n) /\ a \in Stamps(n) /\ n \in Nat /\ "active" \in ReqStatuses
    BY <1>1, <1>3 DEF ReqStatuses
  <2>2. MainRow(p, r, m) = IF Opens(p, r, m) THEN ReqAt(k, "active", a) ELSE k
    BY DEF MainRow
  <2> HIDE DEF k, a, n
  <2>3. /\ GoodReq(ReqAt(k, "active", a), n) /\ ReqAt(k, "active", a).here = k.here
        /\ ReqAt(k, "active", a).project = k.project
    BY <2>1, ReqAtGood
  <2> QED BY <2>1, <2>2, <2>3 DEF k
<1>7. /\ GoodTables(R, merges, cands, tasks, n, strayed) /\ R[m].here
      /\ R[m].project = p.reqs[m].project
  <2>1. R[m] = MainRow(p, r, m)
    BY <1>1
  <2> DEFINE row == MainRow(p, r, m)
  <2> HIDE DEF merges, cands, tasks, strayed, n, row
  <2>2. GoodTables([p.reqs EXCEPT ![m] = row], merges, cands, tasks, n, strayed)
    BY <1>1, <1>2, <1>6, OnePlace DEF row
  <2> QED BY <1>1, <1>6, <2>1, <2>2 DEF row
<1> DEFINE S == TasksAt(p, r)
<1>8. \A t \in S \cap Tasks : tasks[t].cand = None
  BY <1>1, <1>3 DEF TasksAt, GoodTask
<1>9. M = HungTo(tasks, S, m, R[m].project)
  BY <1>7 DEF Moving
<1> HIDE DEF R, merges, cands, tasks, strayed, n, S, M, g
<1>10. /\ GoodTables(R, merges, cands, M, n, strayed)
       /\ \A t \in Tasks : M[t].undo = tasks[t].undo
       /\ \A t \in Tasks : M[t].req = IF t \in S THEN m ELSE tasks[t].req
  BY <1>1, <1>7, <1>8, <1>9, HungRows
<1>11. \A t \in C \cap Tasks : M[t].undo # None
  BY DEF Pointing
<1>12. \A t \in Tasks : t \notin C => M[t].undo = None \/ M[t].undo.req # r
  BY <1>10 DEF ConfirmedFrom, Pointing, tasks
<1>13. \A t \in Tasks : M[t].req # r
  BY <1>1, <1>10 DEF S, TasksAt, tasks
<1> HIDE DEF C, T
<1>14. /\ GoodTables(R, merges, cands, T, n, strayed)
       /\ \A t \in Tasks : T[t].req = M[t].req
       /\ \A t \in Tasks : t \notin C => T[t].undo = M[t].undo
       /\ \A t \in C \cap Tasks : T[t].undo.req = m
  BY <1>1, <1>7, <1>10, <1>11, RepointRows DEF T
<1>15. /\ \A t \in Tasks : T[t].req # r
       /\ \A t \in Tasks : T[t].undo # None => T[t].undo.req # r
  BY <1>1, <1>12, <1>13, <1>14
<1> DEFINE B == TakenBy(p, r)
<1>16. \A c \in B \cap Cands : cands[c].status # "pending" /\ merged[c] \in {"claimed", "merged"}
  BY DEF TakenBy, cands
<1>17. \A c \in Cands : c \notin B => (cands[c].status \in {"claimed", "merged"} => cands[c].req # r)
  BY DEF TakenBy, cands
<1>18. K = CandsTo(cands, B, m, merged)
  BY DEF cands
<1> HIDE DEF B, K, merged
<1>19. /\ GoodTables(R, merges, K, T, n, strayed)
       /\ \A c \in Cands : c \notin B => K[c] = cands[c]
       /\ \A c \in B \cap Cands : K[c].req = m
  BY <1>1, <1>7, <1>14, <1>16, <1>18, CandsMoved
<1>20. \A c \in Cands : K[c].status \in {"claimed", "merged"} => K[c].req # r
  BY <1>1, <1>17, <1>19
<1> DEFINE Y == ChainedBy(p, r)
<1>21. /\ \A x \in Y \cap Reqs : merges[x] # None
       /\ \A x \in Reqs : x \notin Y => (merges[x] # None => merges[x].into # r)
  BY DEF ChainedBy, merges
<1>22. X = ChainedTo(merges, Y, m)
  BY DEF merges
<1> HIDE DEF Y, X
<1>23. /\ GoodTables(R, X, K, T, n, strayed)
       /\ \A x \in Reqs : x \notin Y => X[x] = merges[x]
       /\ \A x \in Y \cap Reqs : X[x].into = m
  BY <1>1, <1>7, <1>19, <1>21, <1>22, MergesChained
<1>24. \A x \in Reqs : X[x] # None => X[x].into # r
  BY <1>1, <1>21, <1>23
<1>25. GoodReq(g.row, n) /\ g.row.here
  BY <1>1, <1>3, <1>5
<1>26. GoodTables([R EXCEPT ![r] = NoReq], [X EXCEPT ![r] = g], K, T, n, strayed)
  BY <1>1, <1>4, <1>5, <1>7, <1>15, <1>20, <1>23, <1>24, <1>25, ReqGone
<1>27. GoodTables(q.reqs, q.merges, q.cands, q.tasks, q.clock, q.strayed) /\ q.clock \in Nat
  BY <1>0, <1>1, <1>26 DEF Counts, n, strayed
<1>28. Good(q) /\ Counts(p, q, 1)
  BY <1>0, <1>27 DEF Good
<1> QED BY <1>28 DEF q

(* The tables after the undo of a merge, before what it had reopened is    *)
(* settled.                                                                *)
WithUndo(k, u) == [k EXCEPT !.undo = u]
BackAt(p, r) == p.merges[r].tasks \cap TasksAt(p, p.merges[r].main)
Returned(p, r) ==
    LET g == p.merges[r] IN
    {c \in Cands : g.cands[c] # None /\ p.cands[c].req = g.main /\ p.cands[c].status = "merged"}
Unchained(p, r) ==
    LET g == p.merges[r] IN
    {x \in Reqs : x # r /\ x \in g.chained /\ p.merges[x] # None /\ p.merges[x].into = g.main}
Led(p, r) == {c \in Returned(p, r) : p.cands[c].at > p.merges[r].at}
Unsettled(p, r) ==
    LET g == p.merges[r]
        m == g.main
        back == BackAt(p, r) IN
    [PointedTo(p, back, m, r, g.row.project, g.confirms) EXCEPT
        !.cands = [c \in Cands |-> IF c \in Returned(p, r)
                    THEN [p.cands[c] EXCEPT !.req = r, !.status = g.cands[c]] ELSE p.cands[c]],
        !.merges = [x \in Reqs |-> IF x = r THEN None
                    ELSE IF x \in Unchained(p, r) THEN [p.merges[x] EXCEPT !.into = r]
                    ELSE p.merges[x]],
        !.reqs = [p.reqs EXCEPT ![r] = g.row, ![m].undo = NotedBack(@, back, r)],
        !.astray = @ \cup Led(p, r)]

LEMMA UnsettledFirst ==
  ASSUME NEW p, NEW r \in Reqs
  PROVE  Unmerged(p, r) = Settled(Unsettled(p, r), p.merges[r].main, p.merges[r].reopen)
<1> DEFINE g == p.merges[r]
           m == g.main
           back == BackAt(p, r)
           o == PointedTo(p, back, m, r, g.row.project, g.confirms)
           reqs == [p.reqs EXCEPT ![r] = g.row, ![m].undo = NotedBack(@, back, r)]
           C1 == [c \in Cands |-> IF g.cands[c] # None /\ p.cands[c].req = m
                                     /\ p.cands[c].status = "merged"
                    THEN [p.cands[c] EXCEPT !.req = r, !.status = g.cands[c]] ELSE p.cands[c]]
           C2 == [c \in Cands |-> IF c \in Returned(p, r)
                    THEN [p.cands[c] EXCEPT !.req = r, !.status = g.cands[c]] ELSE p.cands[c]]
           M1 == [x \in Reqs |-> IF x = r THEN None
                    ELSE IF x \in g.chained /\ p.merges[x] # None /\ p.merges[x].into = m
                         THEN [p.merges[x] EXCEPT !.into = r]
                    ELSE p.merges[x]]
           M2 == [x \in Reqs |-> IF x = r THEN None
                    ELSE IF x \in Unchained(p, r) THEN [p.merges[x] EXCEPT !.into = r]
                    ELSE p.merges[x]]
           A1 == {c \in Cands : (g.cands[c] # None /\ p.cands[c].req = m
                                 /\ p.cands[c].status = "merged") /\ p.cands[c].at > g.at}
<1>1. C1 = C2
  BY DEF Returned
<1>2. M1 = M2
  BY DEF Unchained
<1>3. A1 = Led(p, r)
  BY DEF Returned, Led
<1>4. Unmerged(p, r)
      = Settled([o EXCEPT !.cands = C1, !.merges = M1, !.reqs = reqs, !.astray = @ \cup A1],
                m, g.reopen)
  BY DEF Unmerged, PointedTo, BackAt
<1>5. Unsettled(p, r)
      = [o EXCEPT !.cands = C2, !.merges = M2, !.reqs = reqs, !.astray = @ \cup Led(p, r)]
  BY DEF Unsettled
<1> HIDE DEF o, C1, C2, M1, M2, reqs, A1
<1> QED BY <1>1, <1>2, <1>3, <1>4, <1>5

LEMMA UnsettledTables ==
  ASSUME NEW p, Good(p), NEW r \in Reqs, NEW m \in Reqs, r # m, m = p.merges[r].main
  PROVE  LET q == Unsettled(p, r)
             g == p.merges[r]
             M == HungTo(p.tasks, BackAt(p, r), r, g.row.project) IN
         /\ IsPool(q) /\ q.home = p.home /\ q.move = p.move /\ q.strayed = p.strayed
         /\ Counts(p, q, 0)
         /\ q.tasks = RepointedTo(M, Pointing(M, g.confirms, m), r)
         /\ q.cands = CandsTo(p.cands, Returned(p, r), r, g.cands)
         /\ q.merges = ChainedTo([p.merges EXCEPT ![r] = None], Unchained(p, r), r)
         /\ q.reqs = [[p.reqs EXCEPT ![m] =
                            WithUndo(p.reqs[m], NotedBack(p.reqs[m].undo, BackAt(p, r), r))]
                        EXCEPT ![r] = g.row]
<1> DEFINE q == Unsettled(p, r)
           g == p.merges[r]
           back == BackAt(p, r)
           o == PointedTo(p, back, m, r, g.row.project, g.confirms)
           M == HungTo(p.tasks, back, r, g.row.project)
           C == Pointing(M, g.confirms, m)
           cands == [c \in Cands |-> IF c \in Returned(p, r)
                    THEN [p.cands[c] EXCEPT !.req = r, !.status = g.cands[c]] ELSE p.cands[c]]
           merges == [x \in Reqs |-> IF x = r THEN None
                    ELSE IF x \in Unchained(p, r) THEN [p.merges[x] EXCEPT !.into = r]
                    ELSE p.merges[x]]
           reqs == [p.reqs EXCEPT ![r] = g.row, ![m].undo = NotedBack(@, back, r)]
<1>0. /\ IsPool(o) /\ o.home = p.home /\ o.move = p.move /\ o.strayed = p.strayed
      /\ Counts(p, o, 0) /\ o.tasks = RepointedTo(M, C, r)
  BY PointedTables
<1>1. q = [o EXCEPT !.cands = cands, !.merges = merges, !.reqs = reqs,
                    !.astray = @ \cup Led(p, r)]
  BY DEF Unsettled
<1>2. p.merges = [x \in Reqs |-> p.merges[x]] /\ p.reqs = [x \in Reqs |-> p.reqs[x]]
  BY DEF Good, GoodTables
<1>3. cands = CandsTo(p.cands, Returned(p, r), r, g.cands)
  BY DEF CandsTo
<1>4. merges = ChainedTo([p.merges EXCEPT ![r] = None], Unchained(p, r), r)
  <2>1. r \notin Unchained(p, r)
    BY DEF Unchained
  <2> QED BY <1>2, <2>1 DEF ChainedTo
<1>5. reqs = [[p.reqs EXCEPT ![m] = WithUndo(p.reqs[m], NotedBack(p.reqs[m].undo, back, r))]
                EXCEPT ![r] = g.row]
  BY <1>2 DEF WithUndo
<1> HIDE DEF q, o, cands, merges, reqs
<1>6. DOMAIN o = Columns
  BY <1>0 DEF IsPool
<1>7. IsPool(q)
  BY <1>0, <1>1, <1>6 DEF IsPool, Columns
<1>8. q.home = p.home /\ q.move = p.move /\ q.strayed = p.strayed
  BY <1>0, <1>1, <1>6 DEF Columns
<1>9. q.clock = o.clock /\ q.edits = o.edits /\ q.moves = o.moves
  BY <1>1, <1>6 DEF Columns
<1>10. q.cands = cands /\ q.merges = merges /\ q.reqs = reqs /\ q.tasks = o.tasks
  BY <1>1, <1>6 DEF Columns
<1> HIDE DEF C, M, back
<1> QED BY <1>0, <1>3, <1>4, <1>5, <1>7, <1>8, <1>9, <1>10 DEF Counts, C, M, q, back

LEMMA NotedBackGood ==
  ASSUME NEW n, NEW u \in StatusUndo(n) \cup {None}, NEW S, NEW r \in Reqs
  PROVE  NotedBack(u, S, r) \in StatusUndo(n) \cup {None}
<1> DEFINE T == [t \in Tasks |-> IF t \in S /\ u.tasks[t] # None
                                 THEN [u.tasks[t] EXCEPT !.req = r] ELSE u.tasks[t]]
<1>1. CASE u = None
  BY <1>1 DEF NotedBack
<1>2. CASE u \in StatusUndo(n) /\ u # None
  <2>1. \A t \in Tasks : u.tasks[t] \in ClosedRow \cup {None}
    BY <1>2 DEF StatusUndo
  <2>2. \A t \in Tasks : T[t] \in ClosedRow \cup {None}
    BY <2>1 DEF ClosedRow
  <2>3. T \in [Tasks -> ClosedRow \cup {None}]
    BY <2>2
  <2>4. NotedBack(u, S, r) = [u EXCEPT !.tasks = T]
    BY <1>2 DEF NotedBack
  <2> HIDE DEF T
  <2> QED BY <1>2, <2>3, <2>4 DEF StatusUndo
<1> QED BY <1>1, <1>2

LEMMA WithUndoGood ==
  ASSUME NEW n \in Nat, NEW k, GoodReq(k, n), NEW u \in StatusUndo(n) \cup {None}
  PROVE  /\ GoodReq(WithUndo(k, u), n)
         /\ WithUndo(k, u).here = k.here /\ WithUndo(k, u).project = k.project
<1>1. k \in ReqRow(n)
  BY DEF GoodReq
<1>2. WithUndo(k, u) \in ReqRow(n)
  BY <1>1 DEF ReqRow, WithUndo
<1>3. WithUndo(k, u).here = k.here /\ WithUndo(k, u).project = k.project
  BY <1>1 DEF ReqRow, WithUndo
<1> QED BY <1>2, <1>3 DEF GoodReq

LEMMA UnsettledGood ==
  ASSUME NEW p, Good(p), NEW r \in Reqs, MayUnmerge(p, r)
  PROVE  LET q == Unsettled(p, r) IN Good(q) /\ Counts(p, q, 0)
<1> DEFINE q == Unsettled(p, r)
           n == p.clock
           g == p.merges[r]
           m == g.main
           S == BackAt(p, r)
           merges == p.merges
           cands == p.cands
           tasks == p.tasks
           strayed == p.strayed
           row == WithUndo(p.reqs[m], NotedBack(p.reqs[m].undo, S, r))
           R == [p.reqs EXCEPT ![m] = row]
           back == g.row
           Q == [R EXCEPT ![r] = back]
           rest == [merges EXCEPT ![r] = None]
           Y == Unchained(p, r)
           X == ChainedTo(rest, Y, r)
           M == HungTo(tasks, S, r, back.project)
           C == Pointing(M, g.confirms, m)
           T == RepointedTo(M, C, r)
           B == Returned(p, r)
           st == g.cands
           K == CandsTo(cands, B, r, st)
<1>1. /\ n \in Nat /\ p.reqs = [x \in Reqs |-> p.reqs[x]] /\ merges = [x \in Reqs |-> merges[x]]
      /\ GoodTables(p.reqs, merges, cands, tasks, n, strayed)
  BY DEF Good, GoodTables
<1>2. GoodMerge(g, r, p.reqs, n) /\ g # None
  BY RowsOf DEF MayUnmerge
<1>3. /\ g \in MergeRow(n) /\ GoodReq(back, n) /\ back.here /\ ~p.reqs[r].here
      /\ m \in Reqs /\ p.reqs[m].here /\ r # m
  BY <1>2 DEF GoodMerge, MergeRow, MayUnmerge, Here
<1>4. /\ IsPool(q) /\ q.home = p.home /\ q.move = p.move /\ q.strayed = p.strayed
      /\ Counts(p, q, 0) /\ q.tasks = T /\ q.cands = K /\ q.merges = X /\ q.reqs = Q
  BY <1>3, UnsettledTables
<1> HIDE DEF q
<1>7. GoodReq(row, n) /\ row.here = p.reqs[m].here /\ row.project = p.reqs[m].project
  <2> DEFINE k == p.reqs[m]
             u == NotedBack(k.undo, S, r)
  <2>1. GoodReq(k, n)
    BY <1>1, <1>3 DEF GoodTables
  <2>2. k.undo \in StatusUndo(n) \cup {None}
    BY <2>1 DEF GoodReq, ReqRow
  <2> HIDE DEF k, n, S
  <2>3. u \in StatusUndo(n) \cup {None}
    BY <2>2, NotedBackGood
  <2> HIDE DEF u
  <2>4. GoodReq(WithUndo(k, u), n) /\ WithUndo(k, u).here = k.here
        /\ WithUndo(k, u).project = k.project
    BY <1>1, <2>1, <2>3, WithUndoGood
  <2> QED BY <2>4 DEF k, u
<1>8. /\ GoodTables(R, merges, cands, tasks, n, strayed) /\ ~R[r].here
      /\ R = [x \in Reqs |-> R[x]]
  <2>1. R[r] = p.reqs[r] /\ R = [x \in Reqs |-> R[x]]
    BY <1>1, <1>3
  <2> HIDE DEF merges, cands, tasks, strayed, n, row, m
  <2>2. GoodTables([p.reqs EXCEPT ![m] = row], merges, cands, tasks, n, strayed)
    BY <1>1, <1>3, <1>7, OnePlace
  <2> QED BY <1>3, <2>1, <2>2
<1>9. \A t \in S \cap Tasks : tasks[t].cand = None
  <2>1. \A t \in Tasks : GoodTask(tasks[t], p.reqs, cands, n, t \in strayed)
    BY <1>1 DEF GoodTables
  <2>2. m # None
    BY <1>3, LinksAssumption
  <2> QED BY <2>1, <2>2 DEF BackAt, TasksAt, GoodTask
<1>10. \A c \in B \cap Cands : cands[c].status # "pending" /\ st[c] \in {"claimed", "merged"}
  BY <1>3 DEF Returned, MergeRow
<1>11. \A x \in Y \cap Reqs : rest[x] # None
  BY <1>1 DEF Unchained
<1>12. \A t \in C \cap Tasks : M[t].undo # None
  BY DEF Pointing
<1> HIDE DEF R, merges, cands, tasks, strayed, n, S, B, Y, st, back
<1>13. GoodTables(Q, rest, cands, tasks, n, strayed)
  BY <1>1, <1>3, <1>8, ReqMade
<1>14. Q[r] = back
  BY <1>8
<1>15. Q[r].here /\ M = HungTo(tasks, S, r, Q[r].project)
  BY <1>3, <1>14
<1> HIDE DEF Q, rest, M
<1>16. GoodTables(Q, rest, cands, M, n, strayed)
  BY <1>1, <1>9, <1>13, <1>15, HungRows
<1> HIDE DEF C
<1>17. GoodTables(Q, rest, cands, T, n, strayed)
  BY <1>1, <1>12, <1>15, <1>16, RepointRows
<1> HIDE DEF T
<1>18. GoodTables(Q, rest, K, T, n, strayed)
  BY <1>1, <1>10, <1>15, <1>17, CandsMoved
<1> HIDE DEF K
<1>19. GoodTables(Q, X, K, T, n, strayed)
  BY <1>1, <1>11, <1>15, <1>18, MergesChained
<1> HIDE DEF X
<1>20. GoodTables(q.reqs, q.merges, q.cands, q.tasks, q.clock, q.strayed) /\ q.clock = n
  BY <1>1, <1>4, <1>19 DEF Counts, n, strayed
<1>21. Good(q)
  BY <1>1, <1>4, <1>20 DEF Good, n
<1> QED BY <1>4, <1>21 DEF q

LEMMA UnmergeStep ==
  ASSUME NEW p, Good(p), NEW r \in Reqs, MayUnmerge(p, r)
  PROVE  LET q == Unmerged(p, r) IN Good(q) /\ Counts(p, q, 0)
<1> DEFINE b == Unsettled(p, r)
           g == p.merges[r]
           record == g.reopen
           m == g.main
           settled == Settled(b, m, record)
<1>1. Unmerged(p, r) = settled
  BY UnsettledFirst
<1>2. p.clock \in Nat /\ Good(b) /\ Counts(p, b, 0)
  BY UnsettledGood DEF Good
<1> HIDE DEF b
<1>3. g \in MergeRow(p.clock)
  BY RowsOf DEF MayUnmerge, GoodMerge
<1>4. /\ b.clock = p.clock /\ m \in Reqs
      /\ record = None \/ record \in ReopenRow(p.clock)
  BY <1>2, <1>3 DEF MergeRow, Counts
<1> HIDE DEF m, record
<1>5. Good(settled) /\ Counts(b, settled, 0)
  BY <1>2, <1>4, SettledStep
<1> HIDE DEF settled
<1>6. Good(settled) /\ Counts(p, settled, 0)
  BY <1>2, <1>4, <1>5 DEF Counts
<1> QED BY <1>1, <1>6

-----------------------------------------------------------------------------
(* The invariant of the specification.                                     *)

LEMMA EditedGood ==
  ASSUME NEW p, Good(p)
  PROVE  LET q == [p EXCEPT !.edits = @ + 1] IN
         Good(q) /\ q.clock = p.clock /\ q.edits = p.edits + 1 /\ q.moves = p.moves
<1> DEFINE q == [p EXCEPT !.edits = @ + 1]
<1>1. /\ q.reqs = p.reqs /\ q.merges = p.merges /\ q.cands = p.cands /\ q.tasks = p.tasks
      /\ q.home = p.home /\ q.move = p.move /\ q.clock = p.clock /\ q.strayed = p.strayed
      /\ q.edits = p.edits + 1 /\ q.moves = p.moves /\ IsPool(q)
  BY DEF Good, IsPool, Columns
<1> HIDE DEF q
<1>2. Good(q) /\ q.clock = p.clock /\ q.edits = p.edits + 1 /\ q.moves = p.moves
  BY <1>1 DEF Good
<1> QED BY <1>2 DEF q

LEMMA MovedGood ==
  ASSUME NEW p, Good(p)
  PROVE  LET q == [p EXCEPT !.moves = @ + 1] IN
         Good(q) /\ q.clock = p.clock /\ q.edits = p.edits /\ q.moves = p.moves + 1
<1> DEFINE q == [p EXCEPT !.moves = @ + 1]
<1>1. /\ q.reqs = p.reqs /\ q.merges = p.merges /\ q.cands = p.cands /\ q.tasks = p.tasks
      /\ q.home = p.home /\ q.move = p.move /\ q.clock = p.clock /\ q.strayed = p.strayed
      /\ q.edits = p.edits /\ q.moves = p.moves + 1 /\ IsPool(q)
  BY DEF Good, IsPool, Columns
<1> HIDE DEF q
<1>2. Good(q) /\ q.clock = p.clock /\ q.edits = p.edits /\ q.moves = p.moves + 1
  BY <1>1 DEF Good
<1> QED BY <1>2 DEF q

LEMMA PlainStep ==
  ASSUME Inv, NEW q, Good(q), Counts(pool, q, 0), pool' = q
  PROVE  Inv'
<1>1. pool.clock \in Nat /\ pool'.clock = pool.clock
  BY DEF Inv, Good, Counts
<1> QED BY <1>1 DEF Inv, Counts

LEMMA ClockStep ==
  ASSUME Inv, NEW q, Good(q), Counts(pool, q, 1), pool' = q, pool.clock < MaxClock
  PROVE  Inv'
<1>1. MaxClock \in Nat /\ pool.clock \in Nat /\ pool'.clock = pool.clock + 1
  BY LinksAssumption DEF Inv, Good, Counts
<1>2. pool'.clock \in 0 .. MaxClock
  BY <1>1
<1> QED BY <1>2 DEF Inv, Counts

LEMMA EditedStep ==
  ASSUME Inv, NEW q, Good(q), Counts(pool, q, 0), Edited(q), pool.edits < MaxEdits
  PROVE  Inv'
<1>1. /\ MaxEdits \in Nat /\ pool.clock \in 0 .. MaxClock /\ pool.clock \in Nat
      /\ pool.edits \in 0 .. MaxEdits /\ pool.moves \in 0 .. MaxMoves
  BY LinksAssumption DEF Inv, Good
<1>2. q.clock = pool.clock /\ q.edits = pool.edits /\ q.moves = pool.moves
  BY <1>1 DEF Counts
<1>3. Good(pool') /\ pool'.clock = q.clock /\ pool'.edits = q.edits + 1 /\ pool'.moves = q.moves
  BY EditedGood DEF Edited
<1>4. pool'.edits \in 0 .. MaxEdits
  BY <1>1, <1>2, <1>3
<1> QED BY <1>1, <1>2, <1>3, <1>4 DEF Inv

LEMMA MovedStep ==
  ASSUME Inv, NEW q, Good(q), Counts(pool, q, 0), Moved(q), pool.moves < MaxMoves
  PROVE  Inv'
<1>1. /\ MaxMoves \in Nat /\ pool.clock \in 0 .. MaxClock /\ pool.clock \in Nat
      /\ pool.edits \in 0 .. MaxEdits /\ pool.moves \in 0 .. MaxMoves
  BY LinksAssumption DEF Inv, Good
<1>2. q.clock = pool.clock /\ q.edits = pool.edits /\ q.moves = pool.moves
  BY <1>1 DEF Counts
<1>3. Good(pool') /\ pool'.clock = q.clock /\ pool'.edits = q.edits /\ pool'.moves = q.moves + 1
  BY MovedGood DEF Moved
<1>4. pool'.moves \in 0 .. MaxMoves
  BY <1>1, <1>2, <1>3
<1> QED BY <1>1, <1>2, <1>3, <1>4 DEF Inv

LEMMA InitGood == Init => Inv
<1> SUFFICES ASSUME NEW q \in Projects, NEW p \in Projects \cup {None},
                    NEW c \in Cands \cup {None},
                    pool = [reqs   |-> [r \in Reqs |-> IF r \in First THEN NewReq(q) ELSE NoReq],
                            merges |-> [r \in Reqs |-> None],
                            cands  |-> [x \in Cands |-> NewCand],
                            tasks  |-> [t \in Tasks |-> NewTask(c, p)],
                            home   |-> p, move |-> None, clock |-> 0, opened |-> {},
                            lapsed |-> {}, astray |-> {}, strayed |-> {}, edits |-> 0, moves |-> 0]
             PROVE  Inv
  BY DEF Init
<1>1. IsPool(pool)
  BY DEF IsPool, Columns
<1>2. /\ pool.clock = 0 /\ pool.edits = 0 /\ pool.moves = 0 /\ pool.move = None
      /\ pool.home = p /\ p \in Somewhere /\ pool.strayed = {}
  BY DEF Somewhere
<1>3. \A r \in Reqs : GoodReq(pool.reqs[r], 0)
  <2>1. GoodReq(NoReq, 0)
    BY DEF NoReq, GoodReq, ReqRow, Stamps, Somewhere, ReqStatuses
  <2> QED BY <2>1, NewReqGood
<1>4. \A r \in Reqs : GoodMerge(pool.merges[r], r, pool.reqs, 0)
  BY DEF GoodMerge
<1>5. \A x \in Cands : GoodCand(pool.cands[x], pool.reqs, 0) /\ pool.cands[x].status = "pending"
  BY NewCandGood
<1>6. \A t \in Tasks : GoodTask(pool.tasks[t], pool.reqs, pool.cands, 0, t \in pool.strayed)
  <2> TAKE t \in Tasks
  <2>1. pool.tasks[t] = NewTask(c, p)
    OBVIOUS
  <2>2. NewTask(c, p) \in TaskRow(0)
    BY <1>2 DEF NewTask, TaskRow, Stamps, OnReq, OnCand, Somewhere, TaskStatuses, OpenTasks
  <2>3. /\ NewTask(c, p).closedAt = 0 /\ NewTask(c, p).req = None /\ NewTask(c, p).cand = c
        /\ NewTask(c, p).undo = None /\ NewTask(c, p).last = "other"
    BY DEF NewTask
  <2>4. c # None => pool.cands[c].status = "pending"
    BY <1>5
  <2> QED BY <2>1, <2>2, <2>3, <2>4 DEF GoodTask
<1>7. /\ pool.reqs = [r \in Reqs |-> pool.reqs[r]] /\ pool.merges = [r \in Reqs |-> pool.merges[r]]
      /\ pool.cands = [x \in Cands |-> pool.cands[x]] /\ pool.tasks = [t \in Tasks |-> pool.tasks[t]]
  OBVIOUS
<1>8. MaxClock \in Nat /\ MaxEdits \in Nat /\ MaxMoves \in Nat
  BY LinksAssumption
<1>9. GoodTables(pool.reqs, pool.merges, pool.cands, pool.tasks, 0, pool.strayed)
  BY <1>3, <1>4, <1>5, <1>6, <1>7 DEF GoodTables
<1> QED BY <1>1, <1>2, <1>8, <1>9 DEF Inv, Good

LEMMA NextGood ==
  ASSUME Inv, [Next]_pool
  PROVE  Inv'
<1>0. Good(pool)
  BY DEF Inv
<1>1. CASE Update /\ pool.edits < MaxEdits
  <2>1. PICK t \in Tasks, l \in Links :
            MayLink(pool, pool.tasks[t], l) /\ Edited(Updated(pool, t, l))
    BY <1>1 DEF Update
  <2>2. Good(Updated(pool, t, l)) /\ Counts(pool, Updated(pool, t, l), 0)
    BY <1>0, <2>1, UpdateStep
  <2> QED BY <1>1, <2>1, <2>2, EditedStep
<1>2. CASE Attach /\ pool.edits < MaxEdits
  <2>1. PICK t \in Tasks, r \in Here(pool) : Edited(Attached(pool, t, r))
    BY <1>2 DEF Attach
  <2>2. Good(Attached(pool, t, r)) /\ Counts(pool, Attached(pool, t, r), 0)
    BY <1>0, AttachStep
  <2> QED BY <1>2, <2>1, <2>2, EditedStep
<1>3. CASE Confirm /\ pool.edits < MaxEdits
  <2>1. PICK t \in Tasks, l \in Links :
            MayConfirm(pool, t, l) /\ Edited(Confirmed(pool, t, l))
    BY <1>3 DEF Confirm
  <2>2. Good(Confirmed(pool, t, l)) /\ Counts(pool, Confirmed(pool, t, l), 0)
    BY <1>0, <2>1, ConfirmStep
  <2> QED BY <1>3, <2>1, <2>2, EditedStep
<1>4. CASE Reject /\ pool.edits < MaxEdits
  <2>1. PICK t \in Tasks : Edited(Rejected(pool, t))
    BY <1>4 DEF Reject
  <2>2. Good(Rejected(pool, t)) /\ Counts(pool, Rejected(pool, t), 0)
    BY <1>0, RejectStep
  <2> QED BY <1>4, <2>1, <2>2, EditedStep
<1>5. CASE SetStatus /\ pool.edits < MaxEdits
  <2>1. PICK t \in Tasks, s \in TaskStatuses : Edited(StatusSet(pool, t, s))
    BY <1>5 DEF SetStatus
  <2>2. Good(StatusSet(pool, t, s)) /\ Counts(pool, StatusSet(pool, t, s), 0)
    BY <1>0, StatusStep
  <2> QED BY <1>5, <2>1, <2>2, EditedStep
<1>6. CASE UndoReview
  <2>1. PICK t \in Tasks : pool' = ReviewUndone(pool, t)
    BY <1>6 DEF UndoReview
  <2>2. Good(ReviewUndone(pool, t)) /\ Counts(pool, ReviewUndone(pool, t), 0)
    BY <1>0, UndoReviewStep
  <2> QED BY <2>1, <2>2, PlainStep
<1>7. CASE UndoComplete
  <2>1. PICK t \in Tasks : MayUndoComplete(pool, t) /\ pool' = CompleteUndone(pool, t)
    BY <1>7 DEF UndoComplete
  <2>2. Good(CompleteUndone(pool, t)) /\ Counts(pool, CompleteUndone(pool, t), 0)
    BY <1>0, <2>1, UndoCompleteStep
  <2> QED BY <2>1, <2>2, PlainStep
<1>8. CASE SetReq /\ pool.clock < MaxClock
  <2>1. PICK r \in Reqs, s \in ReqStatuses, close \in BOOLEAN : pool' = ReqSet(pool, r, s, close)
    BY <1>8 DEF SetReq
  <2>2. Good(ReqSet(pool, r, s, close)) /\ Counts(pool, ReqSet(pool, r, s, close), 1)
    BY <1>0, ReqSetStep
  <2> QED BY <1>8, <2>1, <2>2, ClockStep
<1>9. CASE Merge /\ pool.clock < MaxClock
  <2>1. PICK r \in Reqs, m \in Reqs : MayMerge(pool, r, m) /\ pool' = Merged(pool, r, m)
    BY <1>9 DEF Merge
  <2>2. Good(Merged(pool, r, m)) /\ Counts(pool, Merged(pool, r, m), 1)
    BY <1>0, <2>1, MergeStep
  <2> QED BY <1>9, <2>1, <2>2, ClockStep
<1>10. CASE MergeCand /\ pool.clock < MaxClock
  <2>1. PICK c \in Cands, r \in Reqs : MayMergeCand(pool, c, r) /\ pool' = CandMerged(pool, c, r)
    BY <1>10 DEF MergeCand
  <2>2. Good(CandMerged(pool, c, r)) /\ Counts(pool, CandMerged(pool, c, r), 1)
    BY <1>0, <2>1, CandMergedStep
  <2> QED BY <1>10, <2>1, <2>2, ClockStep
<1>11. CASE UndoReq
  <2>1. PICK r \in Reqs : MayUndoReq(pool, r) /\ pool' = ReqUndone(pool, r)
    BY <1>11 DEF UndoReq
  <2>2. Good(ReqUndone(pool, r)) /\ Counts(pool, ReqUndone(pool, r), 0)
    BY <1>0, <2>1, UndoReqStep
  <2> QED BY <2>1, <2>2, PlainStep
<1>12. CASE Unmerge
  <2>1. PICK r \in Reqs : MayUnmerge(pool, r) /\ pool' = Unmerged(pool, r)
    BY <1>12 DEF Unmerge
  <2>2. Good(Unmerged(pool, r)) /\ Counts(pool, Unmerged(pool, r), 0)
    BY <1>0, <2>1, UnmergeStep
  <2> QED BY <2>1, <2>2, PlainStep
<1>13. CASE UnmergeCand
  <2>1. PICK c \in Cands : MayUnmergeCand(pool, c) /\ pool' = CandUnmerged(pool, c)
    BY <1>13 DEF UnmergeCand
  <2>2. Good(CandUnmerged(pool, c)) /\ Counts(pool, CandUnmerged(pool, c), 0)
    BY <1>0, <2>1, UnmergeCandStep
  <2> QED BY <2>1, <2>2, PlainStep
<1>14. CASE Claim
  <2>1. PICK c \in Cands, r \in Reqs, q \in Projects :
            MayClaim(pool, c, r) /\ pool' = Claimed(pool, c, r, q)
    BY <1>14 DEF Claim
  <2>2. Good(Claimed(pool, c, r, q)) /\ Counts(pool, Claimed(pool, c, r, q), 0)
    BY <1>0, <2>1, ClaimStep
  <2> QED BY <2>1, <2>2, PlainStep
<1>15. CASE Drop
  <2>1. PICK c \in Cands : pool' = Dropped(pool, c)
    BY <1>15 DEF Drop
  <2>2. Good(Dropped(pool, c)) /\ Counts(pool, Dropped(pool, c), 0)
    BY <1>0, DropStep
  <2> QED BY <2>1, <2>2, PlainStep
<1>16. CASE Restore
  <2>1. PICK c \in Cands : pool' = Restored(pool, c)
    BY <1>16 DEF Restore
  <2>2. Good(Restored(pool, c)) /\ Counts(pool, Restored(pool, c), 0)
    BY <1>0, RestoreStep
  <2> QED BY <2>1, <2>2, PlainStep
<1>17. CASE ChangeProject /\ pool.moves < MaxMoves
  <2>1. PICK r \in Here(pool), q \in Projects : Moved(ProjectChanged(pool, r, q))
    BY <1>17 DEF ChangeProject
  <2>2. Good(ProjectChanged(pool, r, q)) /\ Counts(pool, ProjectChanged(pool, r, q), 0)
    BY <1>0, ProjectStep
  <2> QED BY <1>17, <2>1, <2>2, MovedStep
<1>18. CASE Reassign /\ pool.moves < MaxMoves
  <2>1. PICK q \in Somewhere : Moved(Reassigned(pool, q))
    BY <1>18 DEF Reassign, Somewhere
  <2>2. Good(Reassigned(pool, q)) /\ Counts(pool, Reassigned(pool, q), 0)
    BY <1>0, ReassignStep
  <2> QED BY <1>18, <2>1, <2>2, MovedStep
<1>19. CASE UndoReassign
  <2>1. pool.move # None /\ pool' = ReassignUndone(pool)
    BY <1>19 DEF UndoReassign, MayUndoReassign
  <2>2. Good(ReassignUndone(pool)) /\ Counts(pool, ReassignUndone(pool), 0)
    BY <1>0, <2>1, UndoReassignStep
  <2> QED BY <2>1, <2>2, PlainStep
<1>20. CASE UNCHANGED pool
  BY <1>20 DEF Inv
<1> QED BY <1>1, <1>2, <1>3, <1>4, <1>5, <1>6, <1>7, <1>8, <1>9, <1>10, <1>11, <1>12, <1>13,
           <1>14, <1>15, <1>16, <1>17, <1>18, <1>19, <1>20 DEF Next

(* The invariant holds of every state of the workbench's tables: every row *)
(* keeps to its columns, a task hangs where it may, a merge and a handled  *)
(* candidate have a live requirement, for any number of each.              *)
THEOREM LinksInvariant == Spec => []Inv
<1>1. Init => Inv
  BY InitGood
<1>2. Inv /\ [Next]_pool => Inv'
  BY NextGood
<1> QED BY <1>1, <1>2, PTL DEF Spec

(* A task hangs on one thing, which is there and of its project            *)
(* (resolve_requirement_and_project), after any sequence of operations.    *)
THEOREM LinksAgreed == Spec => []LinksAgree
<1>1. Inv => LinksAgree
  <2> SUFFICES ASSUME Inv PROVE LinksAgree
    OBVIOUS
  <2>1. /\ \A t \in Tasks :
             GoodTask(pool.tasks[t], pool.reqs, pool.cands, pool.clock, t \in pool.strayed)
        /\ \A r \in Reqs : GoodReq(pool.reqs[r], pool.clock)
        /\ \A r \in Reqs : GoodMerge(pool.merges[r], r, pool.reqs, pool.clock)
        /\ \A c \in Cands : GoodCand(pool.cands[c], pool.reqs, pool.clock)
    BY RowsOf DEF Inv
  <2>2. \A t \in Tasks : LET k == pool.tasks[t] IN
          k \in TaskRow(pool.clock) /\ (k.closedAt # 0 => k.status = "cancelled")
    BY <2>1 DEF GoodTask
  <2>3. \A r \in Reqs : LET k == pool.reqs[r] IN
          /\ k \in ReqRow(pool.clock)
          /\ k.here => k.project \in Projects
          /\ pool.merges[r] \in MergeRow(pool.clock) \cup {None}
    BY <2>1 DEF GoodReq, GoodMerge
  <2>4. \A c \in Cands : LET k == pool.cands[c] IN
          k \in CandRow(pool.clock) /\ (k.status = "pending" => k = NewCand)
    BY <2>1 DEF GoodCand
  <2>5. TypeOK
    BY <2>2, <2>3, <2>4 DEF TypeOK, Inv, Good
  <2>6. \A t \in Tasks : LET k == pool.tasks[t] IN
          /\ k.req # None =>
              /\ k.req \in Here(pool) /\ k.cand = None
              /\ k.project = pool.reqs[k.req].project \/ t \in pool.strayed
          /\ k.cand # None => pool.cands[k.cand].status = "pending"
    BY <2>1, <2>2 DEF GoodTask, TaskRow, OnReq, Here
  <2> QED BY <2>5, <2>6 DEF LinksAgree
<1> QED BY <1>1, LinksInvariant, PTL

(* A merged requirement, a handled candidate and a confirmation that can   *)
(* be undone never point at a requirement merged away since                *)
(* (requirement_merges.merge).                                             *)
THEOREM PointersLiving == Spec => []PointersLive
<1>1. Inv => PointersLive
  <2> SUFFICES ASSUME Inv PROVE PointersLive
    OBVIOUS
  <2>0. /\ \A t \in Tasks :
             GoodTask(pool.tasks[t], pool.reqs, pool.cands, pool.clock, t \in pool.strayed)
        /\ \A r \in Reqs : GoodMerge(pool.merges[r], r, pool.reqs, pool.clock)
        /\ \A c \in Cands : GoodCand(pool.cands[c], pool.reqs, pool.clock)
    BY RowsOf DEF Inv
  <2>1. \A r \in Reqs : pool.merges[r] # None =>
          r \notin Here(pool) /\ pool.merges[r].into \in Here(pool)
    BY <2>0 DEF GoodMerge, MergeRow, Here
  <2>2. \A c \in Cands : pool.cands[c].status \in {"claimed", "merged"} =>
          pool.cands[c].req \in Here(pool)
    BY <2>0 DEF GoodCand, Here
  <2>3. \A t \in Tasks : pool.tasks[t].undo # None =>
          pool.tasks[t].undo.req \in Here(pool) \cup {None}
    <3> TAKE t \in Tasks
    <3>1. pool.tasks[t].undo # None => pool.tasks[t].undo \in LinkRow
      BY <2>0 DEF GoodTask, TaskRow
    <3> QED BY <2>0, <3>1 DEF GoodTask, LinkRow, OnReq, Here
  <2> QED BY <2>1, <2>2, <2>3 DEF PointersLive
<1> QED BY <1>1, LinksInvariant, PTL

-----------------------------------------------------------------------------
(* What an undo brings back: the fields of the rows, one operation at a    *)
(* time.                                                                   *)

LEMMA Nulls ==
  ASSUME NEW n \in Nat, n <= MaxClock + 1
  PROVE  /\ None \notin StatusUndo(n) /\ None \notin ReopenRow(n)
         /\ None \notin CandUndo(n) /\ None \notin MergeRow(n)
<1> DEFINE m == MaxClock + 1
<1>1. m \in Nat /\ n <= m
  BY LinksAssumption
<1>2. /\ None \notin StatusUndo(m) /\ None \notin ReopenRow(m)
      /\ None \notin CandUndo(m) /\ None \notin MergeRow(m)
  BY NullAssumption
<1> HIDE DEF m
<1> QED BY <1>1, <1>2, LaterRows

LEMMA HungFields ==
  ASSUME NEW n, NEW k \in TaskRow(n), NEW r, NEW c, NEW q
  PROVE  LET new == Hung(k, r, c, q) IN
         /\ new.req = r /\ new.cand = c /\ new.project = q
         /\ new.status = k.status /\ new.closedAt = k.closedAt /\ new.undo = k.undo
BY DEF Hung, TaskRow

LEMMA TurnedFields ==
  ASSUME NEW n, NEW k \in TaskRow(n), NEW s
  PROVE  LET new == Turned(k, s) IN
         /\ new.status = s /\ new.closedAt = 0 /\ new.undo = k.undo
         /\ new.req = k.req /\ new.cand = k.cand /\ new.project = k.project
BY DEF Turned, TaskRow

LEMMA ClosedFields ==
  ASSUME NEW n, NEW k \in TaskRow(n), NEW a
  PROVE  LET new == ClosedAt(k, a) IN
         /\ new.status = "cancelled" /\ new.closedAt = a /\ new.undo = k.undo
         /\ new.req = k.req /\ new.cand = k.cand /\ new.project = k.project
BY DEF ClosedAt, Turned, TaskRow

LEMMA ProjectedFields ==
  ASSUME NEW n, NEW k \in TaskRow(n), NEW q
  PROVE  LET new == Projected(k, q) IN
         /\ new.status = k.status /\ new.closedAt = k.closedAt /\ new.undo = k.undo
         /\ new.req = k.req /\ new.cand = k.cand /\ new.project = q
BY DEF Projected, TaskRow

(* Two rows of a task that an undo does not tell apart.                    *)
Alike(k, x) ==
    /\ k.status = x.status /\ k.closedAt = x.closedAt /\ k.undo = x.undo
    /\ k.req = x.req /\ k.cand = x.cand /\ k.project = x.project

LEMMA SameTables ==
  ASSUME NEW p, NEW q, \A t \in Tasks : Alike(q.tasks[t], p.tasks[t]),
         \A r \in Reqs : [q.reqs[r] EXCEPT !.undo = None] = [p.reqs[r] EXCEPT !.undo = None],
         q.cands = p.cands, q.merges = p.merges, q.home = p.home
  PROVE  Same(q, p)
<1>1. \A t \in Tasks :
        <<q.tasks[t].status, q.tasks[t].closedAt, LinkOf(q.tasks[t]), q.tasks[t].undo>>
        = <<p.tasks[t].status, p.tasks[t].closedAt, LinkOf(p.tasks[t]), p.tasks[t].undo>>
  BY DEF Alike, LinkOf
<1>2. TaskCore(q) = TaskCore(p)
  BY <1>1 DEF TaskCore
<1>3. ReqCore(q) = ReqCore(p)
  BY DEF ReqCore
<1> QED BY <1>2, <1>3 DEF Same

LEMMA RowTypes ==
  ASSUME NEW p, Good(p)
  PROVE  /\ p.clock \in Nat /\ DOMAIN p = Columns
         /\ \A t \in Tasks : p.tasks[t] \in TaskRow(p.clock)
         /\ \A r \in Reqs : p.reqs[r] \in ReqRow(p.clock)
         /\ \A c \in Cands : p.cands[c] \in CandRow(p.clock)
BY RowsOf DEF Good, IsPool, GoodTask, GoodReq, GoodCand

-----------------------------------------------------------------------------
(* Tasks: completed, and confirmed.                                        *)

LEMMA CompleteBack ==
  ASSUME NEW p, Good(p), NEW t \in Tasks, MaySetStatus(p, t, "done")
  PROVE  Same(CompleteUndone(StatusSet(p, t, "done"), t), p)
<1> DEFINE n == p.clock
           k == p.tasks[t]
           d == [Turned(k, "done") EXCEPT !.last = "done", !.was = k.status]
           a == [Turned(d, d.was) EXCEPT !.was = None]
           o == StatusSet(p, t, "done")
           q == CompleteUndone(o, t)
<1>1. DOMAIN p = Columns /\ k \in TaskRow(n) /\ n \in Nat
  BY RowTypes
<1>2. /\ DOMAIN o = Columns
      /\ o.tasks = [x \in Tasks |-> IF x = t THEN d ELSE p.tasks[x]]
      /\ o.reqs = p.reqs /\ o.cands = p.cands /\ o.merges = p.merges /\ o.home = p.home
  BY <1>1 DEF StatusSet, PutTasks, Columns
<1> HIDE DEF o, d
<1>3. /\ q.tasks = [x \in Tasks |-> IF x = t THEN a ELSE p.tasks[x]]
      /\ q.reqs = o.reqs /\ q.cands = o.cands /\ q.merges = o.merges /\ q.home = o.home
  BY <1>2 DEF CompleteUndone, PutTasks, Columns
<1>4. k.status # "cancelled" /\ k.closedAt = 0
  <2>1. GoodTask(k, p.reqs, p.cands, n, t \in p.strayed) /\ k.status \in TaskStatuses
    BY <1>1, RowsOf DEF TaskRow
  <2>2. k.status # "cancelled"
    BY DEF MaySetStatus, StatusTransitions
  <2> QED BY <2>1, <2>2 DEF GoodTask
<1> HIDE DEF q, k
<1>5. Alike(a, k)
  BY <1>1, <1>4 DEF Alike, Turned, TaskRow, d
<1> HIDE DEF a
<1>6. \A x \in Tasks : Alike(q.tasks[x], p.tasks[x])
  BY <1>3, <1>5 DEF Alike, k
<1>7. Same(q, p)
  BY <1>2, <1>3, <1>6, SameTables
<1> QED BY <1>7 DEF q, o

LEMMA ReviewBack ==
  ASSUME NEW p, Good(p), NEW t \in Tasks, NEW l \in Links, t \notin p.strayed,
         MayConfirm(p, t, l), p.tasks[t].status # "confirmed"
  PROVE  LET after == ReviewUndone(Confirmed(p, t, l), t).tasks[t] IN
         LinkOf(after) = LinkOf(p.tasks[t]) /\ after.status = "pending_confirm"
<1> DEFINE n == p.clock
           k == p.tasks[t]
           new == Noted(k, LinkedTo(p, k, l))
           undo == IF LinkOf(new) = LinkOf(k) THEN None ELSE LinkOf(k)
           d == [Turned(new, "confirmed") EXCEPT !.last = "confirmed", !.undo = undo]
           o == Confirmed(p, t, l)
           b == IF d.last = "confirmed" /\ d.undo # None THEN Unlinked(o, d) ELSE d
           after == ReviewUndone(o, t).tasks[t]
<1>1. DOMAIN p = Columns /\ k \in TaskRow(n) /\ n \in Nat
  BY RowTypes
<1>2. /\ DOMAIN o = Columns
      /\ o.tasks = [x \in Tasks |-> IF x = t THEN d ELSE p.tasks[x]]
      /\ o.reqs = p.reqs /\ o.cands = p.cands
  BY <1>1 DEF Confirmed, PutTasks, Columns
<1>3. /\ k.req # None => p.reqs[k.req].here /\ k.cand = None /\ k.project = p.reqs[k.req].project
      /\ k.cand # None => p.cands[k.cand].status = "pending"
  BY RowsOf DEF GoodTask
<1>4. new \in TaskRow(n)
  <2>1. GoodTask(new, p.reqs, p.cands, n, t \in p.strayed)
    BY <1>1, RowsOf, LinkedGood, NotedGood DEF MayConfirm
  <2> QED BY <2>1 DEF GoodTask
<1> HIDE DEF o, new
<1>5. d.last = "confirmed" /\ d.undo = undo /\ LinkOf(d) = LinkOf(new)
  BY <1>4 DEF Turned, TaskRow, LinkOf
<1>6. LinkOf(k) \in LinkRow /\ LinkOf(k) # None
  BY <1>1, NullAssumption DEF LinkOf, TaskRow, LinkRow
<1>7. d \in TaskRow(n)
  <2> DEFINE turned == Turned(new, "confirmed")
  <2>1. turned \in TaskRow(n)
    <3>1. 0 \in Stamps(n) /\ "confirmed" \in TaskStatuses
      BY <1>1 DEF Stamps, TaskStatuses, OpenTasks
    <3> QED BY <1>4, <3>1 DEF Turned, TaskRow
  <2>2. undo \in LinkRow \cup {None}
    BY <1>6
  <2> HIDE DEF turned, undo
  <2>3. [turned EXCEPT !.last = "confirmed", !.undo = undo] \in TaskRow(n)
    BY <2>1, <2>2 DEF TaskRow
  <2> QED BY <2>3 DEF turned
<1>8. after = Turned(b, "pending_confirm")
  BY <1>2 DEF ReviewUndone, PutTasks, Columns
<1> HIDE DEF d, after
<1>9. LinkOf(b) = LinkOf(k) /\ b \in TaskRow(n)
  <2>1. CASE undo = None
    <3>1. LinkOf(new) = LinkOf(k)
      BY <1>6, <2>1
    <3> QED BY <1>5, <1>7, <2>1, <3>1
  <2>2. CASE undo # None
    <3> DEFINE r == IF d.undo.req \in Here(o) THEN d.undo.req ELSE None
               c == IF r = None /\ d.undo.cand # None /\ o.cands[d.undo.cand].status = "pending"
                    THEN d.undo.cand ELSE None
               q == IF r = None THEN d.undo.project ELSE o.reqs[r].project
               hung == Hung(d, r, c, q)
    <3>1. b = [hung EXCEPT !.undo = None]
      BY <1>5, <2>2 DEF Unlinked
    <3>2. d.undo.req = k.req /\ d.undo.cand = k.cand /\ d.undo.project = k.project
      BY <1>5, <2>2 DEF LinkOf
    <3>3. r = k.req
      BY <1>1, <1>2, <1>3, <3>2, LinksAssumption DEF Here, TaskRow, OnReq
    <3>4. c = k.cand
      BY <1>2, <1>3, <3>2, <3>3
    <3>5. q = k.project
      BY <1>2, <1>3, <3>2, <3>3
    <3>6. r \in OnReq /\ c \in OnCand /\ q \in Somewhere
      BY <1>1, <3>3, <3>4, <3>5 DEF TaskRow
    <3> HIDE DEF r, c, q
    <3>7. hung \in TaskRow(n) /\ hung.req = r /\ hung.cand = c /\ hung.project = q
      BY <1>7, <3>6 DEF Hung, TaskRow
    <3> HIDE DEF hung, b
    <3>8. b \in TaskRow(n) /\ b.req = r /\ b.cand = c /\ b.project = q
      BY <3>1, <3>7 DEF TaskRow
    <3> QED BY <3>3, <3>4, <3>5, <3>8 DEF LinkOf
  <2> QED BY <2>1, <2>2
<1> HIDE DEF b, k
<1>10. LinkOf(after) = LinkOf(k) /\ after.status = "pending_confirm"
  BY <1>8, <1>9, TurnedFields DEF LinkOf
<1> QED BY <1>10 DEF after, o, k

-----------------------------------------------------------------------------
(* A change of a requirement's status, and a meeting moved.                *)

LEMMA ReqBack ==
  ASSUME NEW p, Good(p), p.clock \in 0 .. MaxClock,
         NEW r \in Reqs, NEW s \in ReqStatuses, NEW close
  PROVE  Same(ReqUndone(ReqSet(p, r, s, close), r), p)
<1> DEFINE n == p.clock
           a == Stamp(p)
           S == Closing(p, r, s, close)
           u == StatusUndone(p, r, S)
           o == ReqSet(p, r, s, close)
           q == ReqUndone(o, r)
           row == ReqWith(p.reqs[r], s, a, u)
<1>1. /\ DOMAIN p = Columns /\ n \in Nat /\ p.reqs[r] \in ReqRow(n)
      /\ \A t \in Tasks : p.tasks[t] \in TaskRow(n)
      /\ p.reqs = [x \in Reqs |-> p.reqs[x]]
  BY RowTypes DEF Good, GoodTables
<1>2. /\ o.merges = p.merges /\ o.cands = p.cands /\ o.home = p.home
      /\ o.reqs = [p.reqs EXCEPT ![r] = row]
      /\ o.tasks = [t \in Tasks |-> IF t \in S THEN ClosedAt(p.tasks[t], a) ELSE p.tasks[t]]
  BY ReqSetTables
<1>g. Good(o) /\ o.clock = n + 1
  BY ReqSetStep DEF Counts
<1> HIDE DEF o
<1>3. /\ q.merges = o.merges /\ q.cands = o.cands /\ q.home = o.home
      /\ q.reqs = [o.reqs EXCEPT ![r] = ReqWith(o.reqs[r], o.reqs[r].undo.status,
                                                o.reqs[r].undo.changed, None)]
      /\ q.tasks = [t \in Tasks |-> IF t \in Reopening(o, r)
                        THEN Turned(o.tasks[t], o.reqs[r].undo.tasks[t].status)
                        ELSE o.tasks[t]]
  BY <1>g, ReqUndoneTables DEF ReqWith
<1> HIDE DEF q
<1>w. o.reqs = [x \in Reqs |-> o.reqs[x]]
  BY <1>g DEF Good, GoodTables
<1>4. o.reqs[r] = row /\ \A x \in Reqs \ {r} : o.reqs[x] = p.reqs[x]
  BY <1>1, <1>2
<1>5. row.undo = u /\ u.at = a /\ u.status = p.reqs[r].status /\ u.changed = p.reqs[r].changed
  BY <1>1 DEF ReqWith, ReqRow, StatusUndone
<1>6. \A t \in Tasks : u.tasks[t] = IF t \in S THEN [status |-> p.tasks[t].status, req |-> r]
                                    ELSE None
  BY DEF StatusUndone
<1>7. \A x \in Reqs : [q.reqs[x] EXCEPT !.undo = None] = [p.reqs[x] EXCEPT !.undo = None]
  <2> TAKE x \in Reqs
  <2>1. CASE x = r
    <3>1. q.reqs[r] = ReqWith(row, p.reqs[r].status, p.reqs[r].changed, None)
      <4>1. q.reqs[r] = ReqWith(o.reqs[r], o.reqs[r].undo.status, o.reqs[r].undo.changed, None)
        BY <1>3, <1>w
      <4> QED BY <1>4, <1>5, <4>1
    <3> QED BY <1>1, <2>1, <3>1 DEF ReqWith, ReqRow
  <2>2. CASE x # r
    BY <1>1, <1>2, <1>3, <1>4, <2>2
  <2> QED BY <2>1, <2>2
<1> HIDE DEF row, u
<1>8. \A t \in Tasks : Alike(q.tasks[t], p.tasks[t])
  <2> TAKE t \in Tasks
  <2> DEFINE k == p.tasks[t]
             x == ClosedAt(k, a)
  <2>1. k \in TaskRow(n)
    BY <1>1
  <2>2. CASE t \in S
    <3>1. k.req = r /\ k.status \in OpenTasks
      BY <2>2 DEF Closing, TasksAt
    <3>2. k.closedAt = 0
      BY <3>1, RowsOf DEF GoodTask, OpenTasks
    <3>3. o.tasks[t] = x /\ u.tasks[t] = [status |-> k.status, req |-> r]
      BY <1>2, <1>6, <2>2
    <3>4. [status |-> k.status, req |-> r] # None
      BY <2>1, NullAssumption DEF ClosedRow, TaskRow
    <3> HIDE DEF k, S
    <3>5. /\ x.status = "cancelled" /\ x.closedAt = a /\ x.req = r /\ x.undo = k.undo
          /\ x.cand = k.cand /\ x.project = k.project
      BY <2>1, <3>1, ClosedFields
    <3>6. x \in TaskRow(n + 1)
      <4>1. GoodTask(o.tasks[t], o.reqs, o.cands, o.clock, t \in o.strayed)
        BY <1>g, RowsOf
      <4> QED BY <1>g, <3>3, <4>1 DEF GoodTask
    <3> HIDE DEF x
    <3>7. t \in Reopening(o, r)
      BY <1>4, <1>5, <3>3, <3>4, <3>5 DEF Reopening
    <3>8. q.tasks[t] = Turned(x, k.status)
      BY <1>3, <1>4, <1>5, <3>3, <3>7
    <3>9. Alike(Turned(x, k.status), k)
      BY <3>1, <3>2, <3>5, <3>6, TurnedFields DEF Alike
    <3> QED BY <3>8, <3>9 DEF k
  <2>3. CASE t \notin S
    <3>1. u.tasks[t] = None /\ o.tasks[t] = k
      BY <1>2, <1>6, <2>3
    <3>2. t \notin Reopening(o, r)
      BY <1>4, <1>5, <3>1 DEF Reopening
    <3>3. q.tasks[t] = k
      BY <1>3, <3>1, <3>2
    <3> QED BY <3>3 DEF Alike
  <2> QED BY <2>2, <2>3
<1>9. Same(q, p)
  BY <1>2, <1>3, <1>7, <1>8, SameTables
<1> QED BY <1>9 DEF q, o

LEMMA MoveBack ==
  ASSUME NEW p, Good(p), NEW q \in Somewhere
  PROVE  Same(ReassignUndone(Reassigned(p, q)), p)
<1> DEFINE n == p.clock
           S == {t \in Tasks : Movable(p, p.tasks[t]) /\ p.tasks[t].project # q}
           M == [t \in Tasks |-> IF t \in S THEN [project |-> p.tasks[t].project] ELSE None]
           move == [from |-> p.home, to |-> q, tasks |-> M]
           o == Reassigned(p, q)
           new == ReassignUndone(o)
<1>1. DOMAIN p = Columns /\ \A t \in Tasks : p.tasks[t] \in TaskRow(n)
  BY RowTypes
<1>2. /\ DOMAIN o = Columns /\ o.move = move
      /\ o.tasks = [t \in Tasks |-> IF t \in S THEN Projected(p.tasks[t], q) ELSE p.tasks[t]]
      /\ o.reqs = p.reqs /\ o.cands = p.cands /\ o.merges = p.merges
  BY <1>1 DEF Reassigned, PutTasks, Columns, Projected
<1> HIDE DEF o
<1>3. /\ new.reqs = o.reqs /\ new.cands = o.cands /\ new.merges = o.merges
      /\ new.home = o.move.from
      /\ new.tasks = [t \in Tasks |-> IF t \in Returning(o)
                        THEN Projected(o.tasks[t], o.move.tasks[t].project) ELSE o.tasks[t]]
  BY <1>2 DEF ReassignUndone, Columns, Projected
<1> HIDE DEF new
<1>4. o.move.from = p.home /\ o.move.to = q /\ o.move.tasks = M
  BY <1>2
<1>5. \A t \in Tasks : Alike(new.tasks[t], p.tasks[t])
  <2> TAKE t \in Tasks
  <2> DEFINE k == p.tasks[t]
             x == Projected(k, q)
  <2>1. k \in TaskRow(n)
    BY <1>1
  <2>2. CASE t \in S
    <3>1. o.tasks[t] = x /\ M[t] = [project |-> k.project]
      BY <1>2, <2>2
    <3>2. [project |-> k.project] # None
      BY <2>1, NullAssumption DEF Taken, TaskRow
    <3> HIDE DEF k, S, M
    <3>3. /\ x.status = k.status /\ x.closedAt = k.closedAt /\ x.undo = k.undo
          /\ x.req = k.req /\ x.cand = k.cand /\ x.project = q
      BY <2>1, ProjectedFields
    <3>4. x \in TaskRow(n)
      BY <2>1 DEF Projected, TaskRow
    <3> HIDE DEF x
    <3>5. t \in Returning(o)
      BY <1>4, <3>1, <3>2, <3>3 DEF Returning
    <3>6. new.tasks[t] = Projected(x, k.project)
      BY <1>3, <1>4, <3>1, <3>5
    <3>7. Alike(Projected(x, k.project), k)
      BY <3>3, <3>4, ProjectedFields DEF Alike
    <3> QED BY <3>6, <3>7 DEF k
  <2>3. CASE t \notin S
    <3>1. M[t] = None /\ o.tasks[t] = k
      BY <1>2, <2>3
    <3> HIDE DEF M, S
    <3>2. t \notin Returning(o)
      BY <1>4, <3>1 DEF Returning
    <3>3. new.tasks[t] = k
      BY <1>3, <3>1, <3>2
    <3> QED BY <3>3 DEF Alike
  <2> QED BY <2>2, <2>3
<1>6. Same(new, p)
  BY <1>2, <1>3, <1>4, <1>5, SameTables
<1> QED BY <1>6 DEF new, o

-----------------------------------------------------------------------------
(* A candidate dropped, and one merged into a requirement.                 *)

LEMMA DropBack ==
  ASSUME NEW p, Good(p), NEW c \in Cands, MayDrop(p, c)
  PROVE  Same(Restored(Dropped(p, c), c), p)
<1> DEFINE n == p.clock
           S == {t \in Tasks : p.tasks[t].cand = c}
           d == [NewCand EXCEPT !.status = "dropped", !.dropped = S]
           o == Dropped(p, c)
           B == {t \in o.cands[c].dropped : o.tasks[t].cand = None /\ o.tasks[t].req = None}
           new == Restored(o, c)
<1>1. /\ DOMAIN p = Columns /\ \A t \in Tasks : p.tasks[t] \in TaskRow(n)
      /\ p.cands = [x \in Cands |-> p.cands[x]] /\ p.cands[c] = NewCand /\ c # None
  BY RowTypes, RowsOf, LinksAssumption DEF Good, GoodTables, GoodCand, MayDrop
<1>2. /\ DOMAIN o = Columns /\ o.cands = [p.cands EXCEPT ![c] = d]
      /\ o.tasks = [t \in Tasks |-> IF t \in S
                        THEN Hung(p.tasks[t], p.tasks[t].req, None, p.tasks[t].project)
                        ELSE p.tasks[t]]
      /\ o.reqs = p.reqs /\ o.merges = p.merges /\ o.home = p.home
  BY <1>1 DEF Dropped, PutTasks, Columns
<1> HIDE DEF o
<1>3. /\ new.reqs = o.reqs /\ new.home = o.home /\ new.merges = o.merges
      /\ new.cands = [o.cands EXCEPT ![c] = NewCand]
      /\ new.tasks = [t \in Tasks |-> IF t \in B
                        THEN Hung(o.tasks[t], None, c, o.tasks[t].project) ELSE o.tasks[t]]
  BY <1>2 DEF Restored, PutTasks, Columns
<1> HIDE DEF new
<1>4. o.cands[c].dropped = S
  <2>1. o.cands[c] = d
    BY <1>1, <1>2
  <2> HIDE DEF S
  <2> QED BY <2>1 DEF NewCand
<1> HIDE DEF d
<1>5. new.cands = p.cands
  BY <1>1, <1>2, <1>3
<1>6. \A t \in Tasks : Alike(new.tasks[t], p.tasks[t])
  <2> TAKE t \in Tasks
  <2> DEFINE k == p.tasks[t]
             x == Hung(k, None, None, k.project)
  <2>1. k \in TaskRow(n)
    BY <1>1
  <2>2. CASE t \in S
    <3>1. k.cand = c /\ k.req = None
      BY <1>1, <2>2, RowsOf DEF GoodTask
    <3>2. o.tasks[t] = x
      BY <1>2, <2>2, <3>1
    <3> HIDE DEF k
    <3>3. /\ x.status = k.status /\ x.closedAt = k.closedAt /\ x.undo = k.undo
          /\ x.req = None /\ x.cand = None /\ x.project = k.project
      BY <2>1, HungFields
    <3>4. x \in TaskRow(n)
      <4>1. k.project \in Somewhere
        BY <2>1 DEF TaskRow
      <4> QED BY <2>1, <4>1 DEF Hung, TaskRow, OnReq, OnCand
    <3> HIDE DEF x
    <3>5. t \in B
      BY <1>4, <2>2, <3>2, <3>3
    <3>6. new.tasks[t] = Hung(x, None, c, x.project)
      BY <1>3, <3>2, <3>5
    <3>7. Alike(Hung(x, None, c, x.project), k)
      BY <3>1, <3>3, <3>4, HungFields DEF Alike
    <3> QED BY <3>6, <3>7 DEF k
  <2>3. CASE t \notin S
    <3>1. o.tasks[t] = k
      BY <1>2, <2>3
    <3>2. t \notin B
      BY <1>4, <2>3
    <3>3. new.tasks[t] = k
      BY <1>3, <3>1, <3>2
    <3> QED BY <3>3 DEF Alike
  <2> QED BY <2>2, <2>3
<1>7. Same(new, p)
  BY <1>2, <1>3, <1>5, <1>6, SameTables
<1> QED BY <1>7 DEF new, o

(* A merge that reopened a requirement is undone while nothing has come    *)
(* after it: the requirement is closed again as it was.                    *)
LEMMA SettledBack ==
  ASSUME NEW p, Good(p), p.clock \in 0 .. MaxClock, NEW b, DOMAIN b = Columns,
         NEW m \in Reqs, NEW v, NEW record, b.reqs = [x \in Reqs |-> b.reqs[x]],
         b.cands = p.cands, b.merges = p.merges, b.home = p.home,
         \A t \in Tasks : Alike(b.tasks[t], p.tasks[t]),
         \A x \in Reqs \ {m} : b.reqs[x] = p.reqs[x],
         \/ record = None /\ b.reqs[m] = WithUndo(p.reqs[m], v)
         \/ /\ record = Reopened(p, m)
            /\ b.reqs[m] = WithUndo(ReqAt(p.reqs[m], "active", Stamp(p)), v)
  PROVE  Same(Settled(b, m, record), p)
<1> DEFINE n == p.clock
           k == p.reqs[m]
           a == Stamp(p)
<1>1. /\ k \in ReqRow(n) /\ n \in Nat /\ a = n + 1 /\ MaxClock \in Nat
  BY RowTypes, LinksAssumption DEF Stamp
<1>2. CASE record = None /\ b.reqs[m] = WithUndo(k, v)
  <2>1. Settled(b, m, record) = b
    BY <1>2 DEF Settled
  <2>2. [b.reqs[m] EXCEPT !.undo = None] = [k EXCEPT !.undo = None]
    BY <1>1, <1>2 DEF WithUndo, ReqRow
  <2>3. \A x \in Reqs : [b.reqs[x] EXCEPT !.undo = None] = [p.reqs[x] EXCEPT !.undo = None]
    BY <2>2
  <2> QED BY <2>1, <2>3, SameTables
<1>3. CASE record = Reopened(p, m) /\ b.reqs[m] = WithUndo(ReqAt(k, "active", a), v)
  <2> DEFINE q == ClosedAgain(b, m, record)
  <2>1. record \in ReopenRow(n + 1) /\ record # None
    <3>1. record \in ReopenRow(n + 1)
      <4>1. a \in Stamps(n + 1) /\ k.changed \in Stamps(n + 1) /\ k.status \in ReqStatuses
        BY <1>1 DEF ReqRow, Stamps
      <4> QED BY <1>3, <4>1 DEF Reopened, ReopenRow
    <3> QED BY <1>1, <3>1, Nulls
  <2>2. record.at = a /\ record.from = k.status /\ record.changed = k.changed
    BY <1>3 DEF Reopened
  <2>3. b.reqs[m].status = "active" /\ b.reqs[m].changed = a
    BY <1>1, <1>3 DEF WithUndo, ReqAt, ReqRow
  <2>4. LaterCands(b, m, a) = {}
    <3>1. \A c \in Cands : ~(p.cands[c].at > a)
      BY <1>1, RowTypes DEF CandRow, Stamps
    <3> QED BY <3>1 DEF LaterCands
  <2>5. LaterMerges(b, m, a) = {}
    <3>1. \A x \in Reqs : p.merges[x] # None => ~(p.merges[x].at > a)
      BY <1>1, RowsOf DEF GoodMerge, MergeRow, Stamps
    <3> QED BY <3>1 DEF LaterMerges, InPlace
  <2>6. Settled(b, m, record) = q
    BY <2>1, <2>2, <2>3, <2>4, <2>5 DEF Settled, ClosedAgain
  <2>7. /\ q.cands = b.cands /\ q.merges = b.merges /\ q.home = b.home /\ q.tasks = b.tasks
        /\ q.reqs = [b.reqs EXCEPT ![m] = ReqAt(b.reqs[m], k.status, k.changed)]
    <3>1. q.cands = b.cands /\ q.merges = b.merges /\ q.home = b.home /\ q.tasks = b.tasks
      BY DEF Columns, ClosedAgain
    <3>2. q.reqs = [b.reqs EXCEPT ![m].status = k.status, ![m].changed = k.changed]
      BY <2>2 DEF Columns, ClosedAgain
    <3> HIDE DEF q, k
    <3>3. q.reqs = [b.reqs EXCEPT ![m] = ReqAt(b.reqs[m], k.status, k.changed)]
      BY <3>2 DEF ReqAt
    <3> QED BY <3>1, <3>3
  <2> HIDE DEF q
  <2>8. q.reqs[m] = ReqAt(b.reqs[m], k.status, k.changed) /\ \A x \in Reqs \ {m} : q.reqs[x] = b.reqs[x]
    BY <2>7
  <2>9. [q.reqs[m] EXCEPT !.undo = None] = [k EXCEPT !.undo = None]
    BY <1>1, <1>3, <2>8 DEF WithUndo, ReqAt, ReqRow
  <2>10. \A x \in Reqs : [q.reqs[x] EXCEPT !.undo = None] = [p.reqs[x] EXCEPT !.undo = None]
    BY <2>8, <2>9
  <2> QED BY <2>6, <2>7, <2>10, SameTables
<1> QED BY <1>2, <1>3

LEMMA CandBackAgain ==
  ASSUME NEW p, Good(p), p.clock \in 0 .. MaxClock,
         NEW c \in Cands, NEW r \in Reqs, MayMergeCand(p, c, r),
         \A t \in Tasks : p.tasks[t].cand = c => InScope(p, p.tasks[t].project)
  PROVE  Same(CandUnmerged(CandMerged(p, c, r), c), p)
<1> DEFINE n == p.clock
           a == Stamp(p)
           opens == p.reqs[r].status = "done"
           row == IF opens THEN ReqAt(p.reqs[r], "active", a) ELSE p.reqs[r]
           record == IF opens THEN Reopened(p, r) ELSE None
           u == TakenFrom(p, c, record)
           d == CandTaken(p.cands[c], r, a, u)
           o == CandMerged(p, c, r)
           b == CandBack(o, c)
           S == {t \in Tasks : p.tasks[t].cand = c}
           B == {t \in TasksAt(o, r) : u.tasks[t] # None}
<1>1. /\ DOMAIN p = Columns /\ \A t \in Tasks : p.tasks[t] \in TaskRow(n)
      /\ p.cands = [x \in Cands |-> p.cands[x]] /\ p.reqs = [x \in Reqs |-> p.reqs[x]]
      /\ p.cands[c] = NewCand /\ c # None /\ p.reqs[r] \in ReqRow(n)
  BY RowTypes, RowsOf, LinksAssumption DEF Good, GoodTables, GoodCand, MayMergeCand
<1>2. /\ DOMAIN o = Columns /\ o.cands = [p.cands EXCEPT ![c] = d]
      /\ o.merges = p.merges /\ o.home = p.home /\ o.reqs = [p.reqs EXCEPT ![r] = row]
  BY <1>1 DEF CandMerged, HandedOver, PutTasks, Columns, CandTaken, TakenFrom, ReqAt
<1>3. o.tasks = HandedTo(p, p.tasks, c, r, p.reqs[r].project)
  BY <1>1 DEF Columns, CandMerged, HandedOver, PutTasks, HandedTo, HandedRow, InScope
<1>4. Good(o) /\ o.clock = n + 1
  BY CandMergedStep DEF Counts
<1>5. CandUnmerged(o, c) = Settled(b, o.cands[c].req, o.cands[c].undo.reopen)
  BY DEF CandUnmerged, CandBack
<1> HIDE DEF o, u
<1>6. o.cands[c].req = r /\ o.cands[c].undo = u
  <2>1. o.cands[c] = d
    BY <1>1, <1>2
  <2> QED BY <1>1, <2>1 DEF CandTaken, NewCand
<1> HIDE DEF d, row, record
<1>7. u.reopen = record /\ \A t \in Tasks : u.tasks[t] = IF t \in S
                                THEN [project |-> p.tasks[t].project] ELSE None
  BY DEF TakenFrom, u
<1>8. /\ DOMAIN b = Columns /\ b.cands = [o.cands EXCEPT ![c] = NewCand]
      /\ b.merges = o.merges /\ b.home = o.home /\ b.reqs = o.reqs
      /\ b.tasks = [t \in Tasks |-> IF t \in B
                        THEN Hung(o.tasks[t], None, c, u.tasks[t].project) ELSE o.tasks[t]]
  BY <1>2, <1>6 DEF CandBack, Columns
<1> HIDE DEF b
<1>9. b.cands = p.cands
  BY <1>1, <1>2, <1>8
<1>10. \A t \in Tasks : Alike(b.tasks[t], p.tasks[t])
  <2> TAKE t \in Tasks
  <2> DEFINE k == p.tasks[t]
             x == Hung(k, r, None, p.reqs[r].project)
  <2>1. k \in TaskRow(n)
    BY <1>1
  <2>2. CASE t \in S
    <3>1. k.cand = c /\ k.req = None
      BY <1>1, <2>2, RowsOf DEF GoodTask
    <3>2. o.tasks[t] = x
      BY <1>3, <2>2 DEF HandedTo, HandedRow
    <3>3. u.tasks[t] = [project |-> k.project] /\ [project |-> k.project] # None
      BY <1>7, <2>1, <2>2, NullAssumption DEF Taken, TaskRow
    <3>4. x \in TaskRow(n + 1)
      BY <1>4, <3>2, RowsOf DEF GoodTask
    <3> HIDE DEF k
    <3>5. /\ x.status = k.status /\ x.closedAt = k.closedAt /\ x.undo = k.undo
          /\ x.req = r
      BY <2>1, HungFields
    <3> HIDE DEF x, S
    <3>6. t \in B
      BY <3>2, <3>3, <3>5 DEF TasksAt
    <3>7. b.tasks[t] = Hung(x, None, c, k.project)
      BY <1>8, <3>2, <3>3, <3>6
    <3>8. Alike(Hung(x, None, c, k.project), k)
      BY <3>1, <3>4, <3>5, HungFields DEF Alike
    <3> QED BY <3>7, <3>8 DEF k
  <2>3. CASE t \notin S
    <3>1. o.tasks[t] = k
      BY <1>3, <2>3 DEF HandedTo
    <3>2. t \notin B
      BY <1>7, <2>3
    <3>3. b.tasks[t] = k
      BY <1>8, <3>1, <3>2
    <3> QED BY <3>3 DEF Alike
  <2> QED BY <2>2, <2>3
<1>11. /\ b.reqs = [x \in Reqs |-> b.reqs[x]] /\ b.reqs[r] = row
       /\ \A x \in Reqs \ {r} : b.reqs[x] = p.reqs[x]
  BY <1>1, <1>2, <1>8
<1> DEFINE v == p.reqs[r].undo
<1>12. \/ record = None /\ b.reqs[r] = WithUndo(p.reqs[r], v)
       \/ /\ record = Reopened(p, r)
          /\ b.reqs[r] = WithUndo(ReqAt(p.reqs[r], "active", a), v)
  <2>1. /\ WithUndo(p.reqs[r], v) = p.reqs[r]
        /\ WithUndo(ReqAt(p.reqs[r], "active", a), v) = ReqAt(p.reqs[r], "active", a)
    BY <1>1 DEF WithUndo, ReqAt, ReqRow
  <2> QED BY <1>11, <2>1 DEF row, record
<1>13. b.merges = p.merges /\ b.home = p.home /\ DOMAIN b = Columns
  BY <1>2, <1>8
<1> HIDE DEF v, S, B
<1>14. Same(Settled(b, r, record), p)
  BY <1>9, <1>10, <1>11, <1>12, <1>13, SettledBack
<1> QED BY <1>5, <1>6, <1>7, <1>14 DEF o, b

-----------------------------------------------------------------------------
(* Requirements merged into one another, table by table.                   *)

LEMMA HungTyped ==
  ASSUME NEW n, NEW k \in TaskRow(n), NEW r \in OnReq, NEW c \in OnCand, NEW q \in Somewhere
  PROVE  Hung(k, r, c, q) \in TaskRow(n)
BY DEF Hung, TaskRow

UndoAt(k, m) == [k EXCEPT !.undo.req = m]

LEMMA UndoAtFields ==
  ASSUME NEW n, NEW k \in TaskRow(n), k.undo \in LinkRow, NEW m
  PROVE  LET new == UndoAt(k, m) IN
         /\ new.undo = [k.undo EXCEPT !.req = m] /\ new.status = k.status
         /\ new.closedAt = k.closedAt /\ new.req = k.req /\ new.cand = k.cand
         /\ new.project = k.project
BY DEF UndoAt, TaskRow

(* A task, followed through a merge of r into m and its undo.              *)
LEMMA TaskBack ==
  ASSUME NEW n, NEW k \in TaskRow(n), NEW r \in Reqs, NEW m \in Reqs,
         NEW q \in Somewhere, NEW home \in Somewhere, k.req = r => k.project = home,
         NEW l, NEW x \in TaskRow(l), NEW hung, NEW y, NEW back,
         hung = IF k.req = r THEN Hung(k, m, k.cand, q) ELSE k,
         x = IF k.undo # None /\ k.undo.req = r THEN UndoAt(hung, m) ELSE hung,
         back = IF k.req = r THEN Hung(x, r, x.cand, home) ELSE x,
         y = IF k.undo # None /\ k.undo.req = r THEN UndoAt(back, r) ELSE back
  PROVE  /\ k.req = r => x.req = m
         /\ k.undo # None /\ k.undo.req = r => back.undo # None /\ back.undo.req = m
         /\ Alike(y, k)
<1>1. k.cand \in OnCand /\ k.req \in OnReq /\ k.project \in Somewhere /\ m \in OnReq
      /\ k.undo \in LinkRow \cup {None}
  BY DEF TaskRow, OnReq
<1>2. /\ hung \in TaskRow(n) /\ hung.undo = k.undo /\ hung.cand = k.cand
      /\ hung.status = k.status /\ hung.closedAt = k.closedAt
      /\ hung.req = (IF k.req = r THEN m ELSE k.req)
      /\ hung.project = (IF k.req = r THEN q ELSE k.project)
  BY <1>1, HungTyped, HungFields
<1> DEFINE moved == [k.undo EXCEPT !.req = m]
<1>3. /\ x.undo = (IF k.undo # None /\ k.undo.req = r THEN moved ELSE k.undo)
      /\ x.status = k.status /\ x.closedAt = k.closedAt /\ x.cand = k.cand
      /\ x.req = hung.req /\ x.project = hung.project
  BY <1>1, <1>2, UndoAtFields
<1>4. k.undo # None => moved \in LinkRow /\ moved.req = m
  BY <1>1 DEF LinkRow, OnReq
<1>5. k.undo # None /\ k.undo.req = r => [moved EXCEPT !.req = r] = k.undo
  BY <1>1 DEF LinkRow
<1> HIDE DEF moved
<1>6. /\ back \in TaskRow(l) /\ back.undo = x.undo /\ back.cand = k.cand
      /\ back.status = k.status /\ back.closedAt = k.closedAt
      /\ back.req = k.req /\ back.project = k.project
  <2>1. r \in OnReq /\ x.cand \in OnCand
    BY <1>1, <1>3 DEF OnReq
  <2>2. CASE k.req = r
    BY <1>3, <2>1, <2>2, HungTyped, HungFields
  <2>3. CASE k.req # r
    BY <1>2, <1>3, <2>3
  <2> QED BY <2>2, <2>3
<1>7. CASE k.undo # None /\ k.undo.req = r
  <2>1. back.undo = moved /\ back.undo \in LinkRow /\ back.undo # None
    BY <1>3, <1>4, <1>6, <1>7, NullAssumption
  <2>2. y = UndoAt(back, r)
    BY <1>7
  <2>3. Alike(UndoAt(back, r), k)
    BY <1>5, <1>6, <1>7, <2>1, UndoAtFields DEF Alike
  <2> QED BY <1>2, <1>3, <1>4, <1>7, <2>1, <2>2, <2>3
<1>8. CASE ~(k.undo # None /\ k.undo.req = r)
  BY <1>2, <1>3, <1>6, <1>8 DEF Alike
<1> QED BY <1>7, <1>8

AllMerged == [c \in Cands |-> "merged"]

LEMMA CandsBack ==
  ASSUME NEW p, Good(p), NEW r \in Reqs, NEW m \in Reqs, NEW o,
         o.cands = CandsTo(p.cands, TakenBy(p, r), m, AllMerged),
         o.merges[r] = MergeRecord(p, r, m)
  PROVE  CandsTo(o.cands, Returned(o, r), r, MergeRecord(p, r, m).cands) = p.cands
<1> DEFINE g == MergeRecord(p, r, m)
           B == TakenBy(p, r)
           new == CandsTo(o.cands, Returned(o, r), r, g.cands)
<1>1. p.cands = [c \in Cands |-> p.cands[c]] /\ \A c \in Cands : p.cands[c] \in CandRow(p.clock)
  BY RowTypes DEF Good, GoodTables
<1>2. g.main = m /\ \A c \in Cands : g.cands[c] = IF c \in B THEN p.cands[c].status ELSE None
  BY DEF MergeRecord
<1> HIDE DEF g
<1>3. o.merges[r] = g
  BY DEF g
<1>4. \A c \in Cands : new[c] = p.cands[c]
  <2> TAKE c \in Cands
  <2> DEFINE k == p.cands[c]
             s == k.status
             x == [k EXCEPT !.req = m, !.status = "merged"]
             y == [x EXCEPT !.req = r, !.status = s]
  <2>1. CASE c \in B
    <3>1. k.req = r /\ s \in {"claimed", "merged"}
      BY <2>1 DEF TakenBy
    <3>2. o.cands[c] = x /\ g.cands[c] = s
      BY <1>2, <2>1 DEF CandsTo, AllMerged
    <3>3. k \in CandRow(p.clock)
      BY <1>1
    <3> HIDE DEF k, s, B
    <3>4. x.req = m /\ x.status = "merged"
      BY <3>3 DEF CandRow
    <3>5. y = k
      BY <3>1, <3>3 DEF CandRow, s
    <3> HIDE DEF x
    <3>6. c \in Returned(o, r)
      BY <1>2, <1>3, <3>1, <3>2, <3>4, NullAssumption DEF Returned
    <3>7. new[c] = y
      BY <3>2, <3>6 DEF CandsTo
    <3> QED BY <3>5, <3>7 DEF k
  <2>2. CASE c \notin B
    <3>1. o.cands[c] = k /\ g.cands[c] = None
      BY <1>2, <2>2 DEF CandsTo
    <3>2. c \notin Returned(o, r)
      BY <1>3, <3>1 DEF Returned
    <3> QED BY <3>1, <3>2 DEF CandsTo
  <2> QED BY <2>1, <2>2
<1>5. new = [c \in Cands |-> new[c]]
  BY DEF CandsTo
<1> HIDE DEF new
<1>6. new = p.cands
  BY <1>1, <1>4, <1>5
<1> QED BY <1>6 DEF new, g

LEMMA MergesBack ==
  ASSUME NEW p, Good(p), p.clock \in 0 .. MaxClock, NEW r \in Reqs, NEW m \in Reqs,
         p.merges[r] = None, NEW o,
         o.merges = [ChainedTo(p.merges, ChainedBy(p, r), m) EXCEPT ![r] = MergeRecord(p, r, m)]
  PROVE  ChainedTo([o.merges EXCEPT ![r] = None], Unchained(o, r), r) = p.merges
<1> DEFINE g == MergeRecord(p, r, m)
           Y == ChainedBy(p, r)
           rest == [o.merges EXCEPT ![r] = None]
           new == ChainedTo(rest, Unchained(o, r), r)
<1>1. p.merges = [x \in Reqs |-> p.merges[x]]
  BY DEF Good, GoodTables
<1>2. g.main = m /\ g.chained = Y
  BY DEF MergeRecord
<1> HIDE DEF g
<1>3. /\ o.merges = [x \in Reqs |-> o.merges[x]] /\ o.merges[r] = g
      /\ \A x \in Reqs \ {r} : o.merges[x] = IF x \in Y THEN [p.merges[x] EXCEPT !.into = m]
                                             ELSE p.merges[x]
  BY DEF ChainedTo, g
<1>4. /\ rest[r] = None /\ \A x \in Reqs \ {r} : rest[x] = o.merges[x]
  BY <1>3
<1> HIDE DEF rest
<1>5. \A x \in Reqs : new[x] = p.merges[x]
  <2> TAKE x \in Reqs
  <2> DEFINE h == p.merges[x]
             z == [h EXCEPT !.into = m]
  <2>1. CASE x = r
    <3>1. r \notin Unchained(o, r)
      BY DEF Unchained
    <3> QED BY <1>4, <2>1, <3>1 DEF ChainedTo
  <2>2. CASE x # r /\ x \in Y
    <3>1. h # None /\ h.into = r
      BY <2>2 DEF ChainedBy
    <3>2. h \in MergeRow(p.clock) /\ p.clock \in Nat
      BY <3>1, RowsOf DEF GoodMerge, Good
    <3>3. o.merges[x] = z
      BY <1>3, <2>2
    <3> HIDE DEF h
    <3>4. z \in MergeRow(p.clock) /\ z.into = m /\ [z EXCEPT !.into = r] = h
      BY <3>1, <3>2 DEF MergeRow
    <3>5. z # None
      <4>1. p.clock <= MaxClock + 1
        BY LinksAssumption
      <4> HIDE DEF z
      <4> QED BY <3>2, <3>4, <4>1, Nulls
    <3> HIDE DEF z, Y
    <3>6. x \in Unchained(o, r)
      BY <1>2, <1>3, <2>2, <3>3, <3>4, <3>5 DEF Unchained
    <3>7. new[x] = [z EXCEPT !.into = r]
      BY <1>4, <2>2, <3>3, <3>6 DEF ChainedTo
    <3> QED BY <3>4, <3>7 DEF h
  <2>3. CASE x # r /\ x \notin Y
    <3> HIDE DEF Y
    <3>1. x \notin Unchained(o, r)
      BY <1>2, <1>3, <2>3 DEF Unchained
    <3> QED BY <1>3, <1>4, <2>3, <3>1 DEF ChainedTo
  <2> QED BY <2>1, <2>2, <2>3
<1>6. new = [x \in Reqs |-> new[x]]
  BY DEF ChainedTo
<1> HIDE DEF new
<1>7. new = p.merges
  BY <1>1, <1>5, <1>6
<1> QED BY <1>7 DEF new, rest

LEMMA MergeBack ==
  ASSUME NEW p, Good(p), p.clock \in 0 .. MaxClock, p.strayed = {},
         NEW r \in Reqs, NEW m \in Reqs, MayMerge(p, r, m)
  PROVE  /\ MayUnmerge(Merged(p, r, m), r)
         /\ Same(Unmerged(Merged(p, r, m), r), p)
<1> DEFINE n == p.clock
           o == Merged(p, r, m)
           b == Unsettled(o, r)
           g == MergeRecord(p, r, m)
           row == MainRow(p, r, m)
           M == Moving(p, r, m)
           F == ConfirmedFrom(p, r)
           C == Pointing(M, F, r)
           S == BackAt(o, r)
           back == HungTo(o.tasks, S, r, p.reqs[r].project)
           D == Pointing(back, F, m)
           v == NotedBack(o.reqs[m].undo, S, r)
<1>1. /\ r # m /\ p.reqs[r].here /\ p.reqs[m].here /\ n \in Nat
      /\ p.reqs = [x \in Reqs |-> p.reqs[x]] /\ p.merges = [x \in Reqs |-> p.merges[x]]
      /\ \A t \in Tasks : p.tasks[t] \in TaskRow(n)
      /\ \A x \in Reqs : p.reqs[x] \in ReqRow(n)
  BY RowTypes DEF Good, GoodTables, MayMerge, Here
<1>2. p.merges[r] = None
  BY <1>1, RowsOf DEF GoodMerge
<1>3. Good(o) /\ o.clock = n + 1
  BY MergeStep DEF Counts
<1>4. /\ o.home = p.home /\ o.tasks = RepointedTo(M, C, m)
      /\ o.cands = CandsTo(p.cands, TakenBy(p, r), m, [c \in Cands |-> "merged"])
      /\ o.merges = [ChainedTo(p.merges, ChainedBy(p, r), m) EXCEPT ![r] = g]
      /\ o.reqs = [[p.reqs EXCEPT ![m] = row] EXCEPT ![r] = NoReq]
  BY <1>1, MergedTables
<1>5. Unmerged(o, r) = Settled(b, o.merges[r].main, o.merges[r].reopen)
  BY UnsettledFirst
<1>6. /\ g.main = m /\ g.into = m /\ g.row = p.reqs[r] /\ g.tasks = TasksAt(p, r)
      /\ g.confirms = F /\ g.reopen = IF Opens(p, r, m) THEN Reopened(p, m) ELSE None
  BY DEF MergeRecord
<1> HIDE DEF o, b
<1>7. o.merges[r] = g
  BY <1>4 DEF ChainedTo
<1>8. o.reqs[m] = row /\ row.here
  <2>1. o.reqs[m] = row
    BY <1>1, <1>4
  <2>2. row.here
    BY <1>1 DEF MainRow, ReqAt, ReqRow
  <2> QED BY <2>1, <2>2
<1> HIDE DEF row
<1>9. MayUnmerge(o, r)
  <2>1. g # None
    <3>1. GoodMerge(g, r, o.reqs, n + 1)
      BY <1>3, <1>7, RowsOf
    <3>2. /\ n + 1 \in Nat /\ n + 1 <= MaxClock + 1 /\ Stamp(p) \in Stamps(n + 1)
          /\ GoodReq(p.reqs[r], n + 1) /\ GoodReq(p.reqs[m], n + 1)
      <4>1. GoodTables(p.reqs, p.merges, p.cands, p.tasks, n + 1, p.strayed)
        BY <1>1, LaterTables DEF Good
      <4>2. n + 1 \in Nat /\ n + 1 <= MaxClock + 1 /\ Stamp(p) \in Stamps(n + 1)
        BY <1>1, LinksAssumption DEF Stamp, Stamps
      <4> QED BY <4>1, <4>2 DEF GoodTables
    <3>3. g \in MergeRow(n + 1)
      BY <3>2, MergeRecordGood
    <3> HIDE DEF g, n
    <3> QED BY <3>2, <3>3, Nulls
  <2> HIDE DEF g
  <2> QED BY <1>6, <1>7, <1>8, <2>1 DEF MayUnmerge, InPlace, Here
<1> HIDE DEF g
<1>10. /\ b.home = o.home /\ DOMAIN b = Columns /\ b.tasks = RepointedTo(back, D, r)
       /\ b.cands = CandsTo(o.cands, Returned(o, r), r, g.cands)
       /\ b.merges = ChainedTo([o.merges EXCEPT ![r] = None], Unchained(o, r), r)
       /\ b.reqs = [[o.reqs EXCEPT ![m] = WithUndo(o.reqs[m], v)] EXCEPT ![r] = g.row]
  <2> DEFINE h == o.merges[r]
             T == HungTo(o.tasks, BackAt(o, r), r, h.row.project)
  <2>1. m = h.main
    BY <1>6, <1>7
  <2>2. /\ IsPool(b) /\ b.home = o.home
        /\ b.tasks = RepointedTo(T, Pointing(T, h.confirms, m), r)
        /\ b.cands = CandsTo(o.cands, Returned(o, r), r, h.cands)
        /\ b.merges = ChainedTo([o.merges EXCEPT ![r] = None], Unchained(o, r), r)
        /\ b.reqs = [[o.reqs EXCEPT ![m] =
                        WithUndo(o.reqs[m], NotedBack(o.reqs[m].undo, BackAt(o, r), r))]
                     EXCEPT ![r] = h.row]
    BY <1>1, <1>3, <2>1, UnsettledTables DEF b
  <2>3. h = g /\ h.row.project = p.reqs[r].project /\ h.confirms = F
    BY <1>6, <1>7
  <2> HIDE DEF h, F
  <2>4. T = back /\ Pointing(T, h.confirms, m) = D
    BY <2>3
  <2>5. DOMAIN b = Columns
    BY <2>2 DEF IsPool
  <2> HIDE DEF T, back, D
  <2> QED BY <2>2, <2>3, <2>4, <2>5
<1>11. b.tasks = RepointedTo(back, D, r)
  BY <1>10
<1>12. b.cands = p.cands
  <2>1. CandsTo(o.cands, Returned(o, r), r, MergeRecord(p, r, m).cands) = p.cands
    <3>1. o.merges[r] = MergeRecord(p, r, m)
      BY <1>7 DEF g
    <3>2. o.cands = CandsTo(p.cands, TakenBy(p, r), m, AllMerged)
      BY <1>4 DEF AllMerged
    <3> QED BY <3>1, <3>2, CandsBack
  <2> QED BY <1>10, <2>1 DEF g
<1>13. b.merges = p.merges
  BY <1>2, <1>4, <1>10, MergesBack DEF g
<1>14. /\ b.reqs = [x \in Reqs |-> b.reqs[x]] /\ b.reqs[m] = WithUndo(row, v)
       /\ \A x \in Reqs \ {m} : b.reqs[x] = p.reqs[x]
  <2> HIDE DEF v
  <2> QED BY <1>1, <1>4, <1>6, <1>8, <1>10
<1> HIDE DEF v
<1>15. \/ g.reopen = None /\ b.reqs[m] = WithUndo(p.reqs[m], v)
       \/ /\ g.reopen = Reopened(p, m)
          /\ b.reqs[m] = WithUndo(ReqAt(p.reqs[m], "active", Stamp(p)), v)
  BY <1>6, <1>14 DEF row, MainRow
<1>16. \A t \in Tasks : Alike(b.tasks[t], p.tasks[t])
  <2> TAKE t \in Tasks
  <2> DEFINE k == p.tasks[t]
             x == o.tasks[t]
             q == p.reqs[m].project
             home == p.reqs[r].project
  <2>1. k \in TaskRow(n) /\ x \in TaskRow(n + 1)
    BY <1>1, <1>3, RowTypes
  <2>2. q \in Somewhere /\ home \in Somewhere
    BY <1>1 DEF ReqRow
  <2>3. k.req = r => k.project = home
    BY LinksAssumption, RowsOf DEF GoodTask
  <2>4. M[t] = IF k.req = r THEN Hung(k, m, k.cand, q) ELSE k
    BY DEF Moving, HungTo, TasksAt
  <2>5. M[t].undo = k.undo
    BY <2>1, <2>4, HungFields
  <2>6. t \in C <=> k.undo # None /\ k.undo.req = r
    BY <2>5 DEF Pointing, ConfirmedFrom
  <2>7. x = IF k.undo # None /\ k.undo.req = r THEN UndoAt(M[t], m) ELSE M[t]
    BY <1>4, <2>6 DEF RepointedTo, UndoAt
  <2> HIDE DEF x, k, q, home, M, C
  <2>8. k.req = r => x.req = m
    BY <2>1, <2>2, <2>3, <2>4, <2>7, TaskBack
  <2>9. t \in S <=> k.req = r
    BY <1>6, <1>7, <2>8 DEF BackAt, TasksAt, k, x
  <2>10. back[t] = IF k.req = r THEN Hung(x, r, x.cand, home) ELSE x
    BY <2>9 DEF HungTo, x, home
  <2> HIDE DEF S
  <2>11. k.undo # None /\ k.undo.req = r => back[t].undo # None /\ back[t].undo.req = m
    BY <2>1, <2>2, <2>3, <2>4, <2>7, <2>10, TaskBack
  <2>12. t \in D <=> k.undo # None /\ k.undo.req = r
    BY <2>11 DEF Pointing, ConfirmedFrom, k
  <2>13. b.tasks[t] = IF k.undo # None /\ k.undo.req = r THEN UndoAt(back[t], r) ELSE back[t]
    BY <1>11, <2>12 DEF RepointedTo, UndoAt
  <2> DEFINE y == b.tasks[t]
             z == back[t]
  <2> HIDE DEF y, z, D
  <2>14. z = IF k.req = r THEN Hung(x, r, x.cand, home) ELSE x
    BY <2>10 DEF z
  <2>15. y = IF k.undo # None /\ k.undo.req = r THEN UndoAt(z, r) ELSE z
    BY <2>13 DEF y, z
  <2>16. Alike(y, k)
    BY <2>1, <2>2, <2>3, <2>4, <2>7, <2>14, <2>15, TaskBack
  <2> QED BY <2>16 DEF y, k
<1> HIDE DEF C, D, M, S, F
<1>17. b.home = p.home /\ DOMAIN b = Columns
  BY <1>4, <1>10
<1> DEFINE record == g.reopen
<1>18. /\ b.reqs = [x \in Reqs |-> b.reqs[x]] /\ \A x \in Reqs \ {m} : b.reqs[x] = p.reqs[x]
       /\ \/ record = None /\ b.reqs[m] = WithUndo(p.reqs[m], v)
          \/ /\ record = Reopened(p, m)
             /\ b.reqs[m] = WithUndo(ReqAt(p.reqs[m], "active", Stamp(p)), v)
  BY <1>14, <1>15
<1> HIDE DEF record
<1>19. Same(Settled(b, m, record), p)
  BY <1>12, <1>13, <1>16, <1>17, <1>18, SettledBack
<1> QED BY <1>5, <1>6, <1>7, <1>9, <1>19 DEF o, record

(* An undo taken at once brings back what was there: a merge of            *)
(* requirements or of a candidate, a candidate dropped, a requirement's    *)
(* change of status, a meeting moved, a task completed or confirmed, in    *)
(* whatever state the tables are (requirement_merges.undo, D7, D11).       *)
THEOREM UndosRestore == Spec => []UndoRestores
<1>1. Inv => UndoRestores
  <2> SUFFICES ASSUME Inv, pool.strayed = {} PROVE UndoRestores
    BY DEF UndoRestores
  <2>1. Good(pool) /\ pool.clock \in 0 .. MaxClock
    BY DEF Inv
  <2>2. \A r, m \in Reqs : MayMerge(pool, r, m) =>
          MayUnmerge(Merged(pool, r, m), r) /\ Same(Unmerged(Merged(pool, r, m), r), pool)
    BY <2>1, MergeBack
  <2>3. \A c \in Cands : pool.cands[c].status = "pending" =>
          /\ Same(Restored(Dropped(pool, c), c), pool)
          /\ \A r \in Here(pool) :
              (\A t \in Tasks : pool.tasks[t].cand = c =>
                  InScope(pool, pool.tasks[t].project)) =>
                  Same(CandUnmerged(CandMerged(pool, c, r), c), pool)
    BY <2>1, DropBack, CandBackAgain DEF MayDrop, MayMergeCand, Here
  <2>4. \A r \in Here(pool), s \in ReqStatuses, close \in BOOLEAN : MaySetReq(pool, r, s) =>
          Same(ReqUndone(ReqSet(pool, r, s, close), r), pool)
    BY <2>1, ReqBack DEF Here
  <2>5. \A q \in Projects \cup {None} : Same(ReassignUndone(Reassigned(pool, q)), pool)
    BY <2>1, MoveBack DEF Somewhere
  <2>6. \A t \in Tasks, l \in Links :
          /\ MaySetStatus(pool, t, "done") =>
              Same(CompleteUndone(StatusSet(pool, t, "done"), t), pool)
          /\ MayConfirm(pool, t, l) /\ pool.tasks[t].status # "confirmed" =>
              LET after == ReviewUndone(Confirmed(pool, t, l), t).tasks[t] IN
              LinkOf(after) = LinkOf(pool.tasks[t]) /\ after.status = "pending_confirm"
    BY <2>1, CompleteBack, ReviewBack
  <2> QED BY <2>2, <2>3, <2>4, <2>5, <2>6 DEF UndoRestores
<1> QED BY <1>1, LinksInvariant, PTL

-----------------------------------------------------------------------------
(* What is to be settled: the invariant of the merges that reopened a      *)
(* requirement (settle_reopen), stated of the tables.                      *)

(* What a requirement's row says of its status, the stamp of its last      *)
(* change and the change before it, for a requirement merged away the row  *)
(* it will come back with.                                                 *)
Past(k) ==
    IF k.undo = None THEN {}
    ELSE {[at |-> k.undo.at, status |-> k.undo.status, changed |-> k.undo.changed]}
Turn(k) == [status |-> k.status, changed |-> k.changed, past |-> Past(k)]
Turns(reqs, merges) ==
    [r \in Reqs |-> Turn(IF merges[r] = None THEN reqs[r] ELSE merges[r].row)]
Shifts(h) == {h.changed} \cup {u.changed : u \in h.past}

PastRow(n) == [at : Stamps(n), status : ReqStatuses, changed : Stamps(n)]
TurnRow(n) == [status : ReqStatuses, changed : Stamps(n), past : SUBSET PastRow(n)]

(* A row's changes are in order, those of a merge leave it active, and no  *)
(* stamp of a merge is a change of two requirements.                       *)
TurnGood(h, o, n) ==
    /\ h \in TurnRow(n)
    /\ h.status # "active" => h.changed \notin o
    /\ \A u \in h.past : /\ u.changed < u.at /\ u.at <= h.changed
                         /\ u.status # "active" => u.changed \notin o
TurnsGood(H, o, n) ==
    /\ o \subseteq 1 .. n
    /\ \A r \in Reqs : TurnGood(H[r], o, n)
    /\ \A r, q \in Reqs : r # q => Shifts(H[r]) \cap Shifts(H[q]) \cap o = {}

(* The records of merges that reopened a requirement, and who has them.    *)
CandRecords(k) == IF k.undo = None THEN {} ELSE {k.undo.reopen} \ {None}
MergeRecords(g) == IF g = None THEN {} ELSE {g.reopen} \ {None}

RecordGood(g, H, o, n) ==
    /\ g \in ReopenRow(n) /\ g.at \in o /\ g.changed \notin o
    /\ \A r \in Reqs : H[r].changed = g.at => \A u \in H[r].past : u.at <= g.changed
RecordsGood(H, M, K, o, n) ==
    /\ \A c \in Cands : \A g \in CandRecords(K[c]) : RecordGood(g, H, o, n)
    /\ \A x \in Reqs : \A g \in MergeRecords(M[x]) :
        /\ RecordGood(g, H, o, n)
        /\ \A u \in H[M[x].main].past : u.changed = g.at => M[x].at < u.at

(* Merges chained to one another.                                          *)
ChainsGood(M) ==
    /\ \A y \in Reqs : M[y] # None => \A z \in M[y].chained :
        /\ z \in Reqs /\ z # y /\ M[z] # None
        /\ M[z].into = M[y].into /\ M[z].main \in M[y].chained \cup {y}
        /\ M[z].chained \subseteq M[y].chained
    /\ \A y, u \in Reqs : M[y] # None /\ M[u] # None /\ y # u
            /\ M[y].chained \cap M[u].chained # {} => y \in M[u].chained \/ u \in M[y].chained
    /\ \A z \in Reqs : M[z] # None =>
        \/ M[z].main = M[z].into
        \/ M[M[z].main] # None /\ M[M[z].main].into = M[z].into
    /\ \A z \in Reqs : M[z] # None /\ M[M[z].main] # None => z \in M[M[z].main].chained

(* The merges that took candidate c along since it was merged.             *)
Takers(M, k, c) == {y \in Reqs : M[y] # None /\ M[y].cands[c] # None /\ k.at <= M[y].at}

TakersGood(M, k, c) ==
    /\ \A y \in Takers(M, k, c) : k.req = M[y].into
    /\ \A y, z \in Takers(M, k, c) : y # z => z \in M[y].chained \/ y \in M[z].chained
    /\ \A y \in Takers(M, k, c), u \in Reqs :
        M[u] # None /\ y \in M[u].chained => u \in Takers(M, k, c)
CandsGood(M, K, astray) ==
    \A c \in Cands :
        /\ K[c].undo # None => K[c].status = "merged"
        /\ \A y \in Reqs : M[y] # None /\ M[y].cands[c] = "claimed" =>
            K[c].undo = None /\ K[c].status \in {"claimed", "merged"}
        /\ K[c].undo # None /\ c \notin astray => TakersGood(M, K[c], c)

(* Whose record c has: of the requirement it was merged into.              *)
Owns(M, k, c, r) ==
    /\ IF M[r] = None THEN k.req = r ELSE r \in Takers(M, k, c)
    /\ \A y \in Takers(M, k, c) : M[y].main # r
Carried(M, K, astray, r, a) ==
    \/ \E c \in Cands : /\ \E g \in CandRecords(K[c]) : g.at = a
                       /\ (c \in astray \/ Owns(M, K[c], c, r))
    \/ \E x \in Reqs : (\E g \in MergeRecords(M[x]) : g.at = a) /\ M[x].main = r
Kept(H, M, K, o, l, astray) ==
    \A r \in Reqs, a \in o \ l : a \in Shifts(H[r]) => Carried(M, K, astray, r, a)

(* All of it; the stamps in "lost" need nobody who has their record.       *)
SettlingBut(p, lost) ==
    LET H == Turns(p.reqs, p.merges) IN
    /\ TurnsGood(H, p.opened, p.clock)
    /\ RecordsGood(H, p.merges, p.cands, p.opened, p.clock)
    /\ ChainsGood(p.merges)
    /\ CandsGood(p.merges, p.cands, p.astray)
    /\ Kept(H, p.merges, p.cands, p.opened, lost, p.astray)
Settling(p) == SettlingBut(p, p.lapsed)

-----------------------------------------------------------------------------
(* The chains, when a requirement is merged and when it comes back.        *)

(* What stays of a merge when the requirement it names merges in turn.     *)
StaysMerged(g, x) ==
    /\ g # None => /\ x # None /\ x.main = g.main /\ x.at = g.at /\ x.chained = g.chained
                   /\ x.cands = g.cands /\ x.reopen = g.reopen /\ x.row = g.row
    /\ g = None => x = None
MergesTyped(M) == \A x \in Reqs : M[x] # None => M[x].main \in Reqs /\ M[x].into \in Reqs
                                              /\ M[x].chained \subseteq Reqs

(* M with requirement r merged into m.                                     *)
MergesOn(M, N, r, m) ==
    /\ r \in Reqs /\ m \in Reqs /\ r # m /\ M[r] = None /\ M[m] = None
    /\ N[r] # None /\ N[r].main = m /\ N[r].into = m
    /\ N[r].chained = {x \in Reqs : M[x] # None /\ M[x].into = r}
    /\ \A x \in Reqs \ {r} :
        /\ StaysMerged(M[x], N[x])
        /\ M[x] # None => N[x].into = IF M[x].into = r THEN m ELSE M[x].into

LEMMA ChainsMerged ==
  ASSUME NEW M, NEW N, NEW r, NEW m, MergesTyped(M), ChainsGood(M), MergesOn(M, N, r, m)
  PROVE  ChainsGood(N)
<1> DEFINE X == {x \in Reqs : M[x] # None /\ M[x].into = r}
<1>1. /\ r \in Reqs /\ m \in Reqs /\ r # m /\ M[r] = None /\ M[m] = None /\ N[m] = None
      /\ N[r] # None /\ N[r].main = m /\ N[r].into = m /\ N[r].chained = X
  BY DEF MergesOn, StaysMerged
<1>2. \A x \in Reqs : x # r =>
        /\ N[x] = None <=> M[x] = None
        /\ M[x] # None => /\ N[x].main = M[x].main /\ N[x].chained = M[x].chained
                          /\ N[x].into = IF x \in X THEN m ELSE M[x].into
  BY DEF MergesOn, StaysMerged
<1>3. \A x \in X : x # r /\ M[x] # None /\ M[x].into = r /\ x \in Reqs
  BY <1>1
<1>4. \A y \in Reqs : M[y] # None => \A z \in M[y].chained :
        /\ z \in Reqs /\ z # y /\ M[z] # None
        /\ M[z].into = M[y].into /\ M[z].main \in M[y].chained \cup {y}
        /\ M[z].chained \subseteq M[y].chained
  BY DEF ChainsGood
<1>5. \A z \in Reqs : M[z] # None => M[z].main \in Reqs /\ M[z].into \in Reqs
  BY DEF MergesTyped
<1>14. \A z \in Reqs : M[z] # None =>
        M[z].main = M[z].into \/ (M[M[z].main] # None /\ M[M[z].main].into = M[z].into)
  BY DEF ChainsGood
<1>6. \A y, u \in Reqs : M[y] # None /\ M[u] # None /\ y # u
            /\ M[y].chained \cap M[u].chained # {} => y \in M[u].chained \/ u \in M[y].chained
  BY DEF ChainsGood
<1>7. \A z \in Reqs : M[z] # None /\ M[M[z].main] # None => z \in M[M[z].main].chained
  BY DEF ChainsGood
<1>8. \A x \in Reqs : M[x] # None => (x \in X <=> M[x].into = r)
  OBVIOUS
<1> HIDE DEF X
<1>9. \A z \in X : M[z].main = r \/ (M[z].main \in X /\ M[M[z].main] # None)
  <2> TAKE z \in X
  <2> DEFINE d == M[z].main
  <2>1. z \in Reqs /\ M[z] # None /\ M[z].into = r /\ d \in Reqs
    BY <1>3, <1>5
  <2>2. d = r \/ (M[d] # None /\ M[d].into = r)
    BY <1>14, <2>1
  <2> HIDE DEF d
  <2>3. d = r \/ (d \in X /\ M[d] # None)
    BY <1>8, <2>1, <2>2
  <2> QED BY <2>3 DEF d
<1>10. \A y \in Reqs : \A z : N[y] # None /\ z \in N[y].chained =>
        /\ z \in Reqs /\ z # y /\ N[z] # None
        /\ N[z].into = N[y].into /\ N[z].main \in N[y].chained \cup {y}
        /\ N[z].chained \subseteq N[y].chained
  <2> SUFFICES ASSUME NEW y \in Reqs, NEW z, N[y] # None, z \in N[y].chained
               PROVE  /\ z \in Reqs /\ z # y /\ N[z] # None
                      /\ N[z].into = N[y].into /\ N[z].main \in N[y].chained \cup {y}
                      /\ N[z].chained \subseteq N[y].chained
    OBVIOUS
  <2>1. CASE y = r
    <3>1. z \in X /\ z # r /\ M[z] # None /\ z \in Reqs
      BY <1>1, <1>3, <2>1
    <3>2. N[z] # None /\ N[z].into = m /\ N[z].main = M[z].main /\ N[z].chained = M[z].chained
      BY <1>2, <3>1
    <3>3. M[z].chained \subseteq X
      BY <1>3, <1>4, <1>8, <3>1
    <3> QED BY <1>1, <1>9, <2>1, <3>1, <3>2, <3>3
  <2>2. CASE y # r
    <3>1. M[y] # None /\ N[y].chained = M[y].chained /\ z \in M[y].chained
      BY <1>2, <2>2
    <3>2. z \in Reqs /\ z # y /\ M[z] # None /\ z # r /\ M[z].into = M[y].into
      BY <1>1, <1>4, <3>1
    <3>3. z \in X <=> y \in X
      BY <1>8, <3>1, <3>2
    <3> QED BY <1>2, <1>4, <2>2, <3>1, <3>2, <3>3
  <2> QED BY <2>1, <2>2
<1>11. \A y, u \in Reqs : N[y] # None /\ N[u] # None /\ y # u
            /\ N[y].chained \cap N[u].chained # {} => y \in N[u].chained \/ u \in N[y].chained
  <2>1. \A y \in Reqs : y # r /\ N[y] # None /\ N[y].chained \cap X # {} => y \in X
    BY <1>2, <1>4, <1>8
  <2> QED BY <1>1, <1>2, <1>6, <2>1
<1>12. \A z \in Reqs : N[z] # None =>
        \/ N[z].main = N[z].into
        \/ N[N[z].main] # None /\ N[N[z].main].into = N[z].into
  <2> SUFFICES ASSUME NEW z \in Reqs, N[z] # None, z # r
               PROVE  \/ N[z].main = N[z].into
                      \/ N[N[z].main] # None /\ N[N[z].main].into = N[z].into
    BY <1>1
  <2>1. M[z] # None /\ N[z].main = M[z].main /\ M[z].main \in Reqs
    BY <1>2, <1>5
  <2>2. CASE z \in X
    BY <1>1, <1>2, <1>9, <2>1, <2>2
  <2>3. CASE z \notin X
    <3>1. N[z].into = M[z].into
      BY <1>2, <2>1, <2>3
    <3>2. CASE M[M[z].main] # None /\ M[M[z].main].into = M[z].into
      BY <1>1, <1>2, <1>8, <2>1, <2>3, <3>1, <3>2
    <3> QED BY <1>14, <2>1, <3>1, <3>2
  <2> QED BY <2>2, <2>3
<1>13. \A z \in Reqs : N[z] # None /\ N[N[z].main] # None => z \in N[N[z].main].chained
  <2> SUFFICES ASSUME NEW z \in Reqs, N[z] # None, N[N[z].main] # None
               PROVE  z \in N[N[z].main].chained
    OBVIOUS
  <2>1. z # r /\ M[z] # None /\ N[z].main = M[z].main /\ M[z].main \in Reqs
    BY <1>1, <1>2, <1>5
  <2>2. CASE M[z].main = r
    BY <1>1, <1>8, <1>14, <2>1, <2>2
  <2>3. CASE M[z].main # r
    BY <1>2, <1>7, <2>1, <2>3
  <2> QED BY <2>2, <2>3
<1> QED BY <1>10, <1>11, <1>12, <1>13 DEF ChainsGood

(* M with requirement r back from m.                                       *)
MergesOff(M, N, r, m) ==
    /\ r \in Reqs /\ m \in Reqs /\ r # m /\ M[m] = None
    /\ M[r] # None /\ M[r].main = m /\ M[r].into = m /\ N[r] = None
    /\ \A x \in Reqs \ {r} :
        /\ StaysMerged(M[x], N[x])
        /\ M[x] # None =>
            N[x].into = IF x \in M[r].chained /\ M[x].into = m THEN r ELSE M[x].into

(* A merge in place is chained to none.                                    *)
LEMMA InPlaceFree ==
  ASSUME NEW M, NEW r \in Reqs, NEW m \in Reqs, ChainsGood(M),
         M[r] # None, M[r].main = m, M[m] = None
  PROVE  \A y \in Reqs : M[y] # None => r \notin M[y].chained
<1> SUFFICES ASSUME NEW y \in Reqs, M[y] # None, r \in M[y].chained PROVE FALSE
  OBVIOUS
<1>1. M[r].main \in M[y].chained \cup {y}
  BY DEF ChainsGood
<1>2. \A z \in M[y].chained : M[z] # None
  BY DEF ChainsGood
<1> QED BY <1>1, <1>2

LEMMA ChainsUnmerged ==
  ASSUME NEW M, NEW N, NEW r, NEW m, MergesTyped(M), ChainsGood(M), MergesOff(M, N, r, m)
  PROVE  ChainsGood(N)
<1> DEFINE X == {x \in M[r].chained : M[x].into = m}
<1>1. /\ r \in Reqs /\ m \in Reqs /\ r # m /\ N[r] = None /\ M[m] = None /\ N[m] = None
      /\ M[r] # None /\ M[r].main = m /\ M[r].into = m
  BY DEF MergesOff, StaysMerged
<1>2. \A x \in Reqs : x # r =>
        /\ N[x] = None <=> M[x] = None
        /\ M[x] # None => /\ N[x].main = M[x].main /\ N[x].chained = M[x].chained
                          /\ N[x].into = IF x \in X THEN r ELSE M[x].into
  BY DEF MergesOff, StaysMerged
<1>3. \A y \in Reqs : M[y] # None => r \notin M[y].chained
  BY <1>1, InPlaceFree
<1>4. \A y \in Reqs : M[y] # None => \A z \in M[y].chained :
        /\ z \in Reqs /\ z # y /\ M[z] # None
        /\ M[z].into = M[y].into /\ M[z].main \in M[y].chained \cup {y}
        /\ M[z].chained \subseteq M[y].chained
  BY DEF ChainsGood
<1>5. \A z \in Reqs : M[z] # None => M[z].main \in Reqs /\ M[z].into \in Reqs
  BY DEF MergesTyped
<1>14. \A z \in Reqs : M[z] # None =>
        M[z].main = M[z].into \/ (M[M[z].main] # None /\ M[M[z].main].into = M[z].into)
  BY DEF ChainsGood
<1>6. \A y, u \in Reqs : M[y] # None /\ M[u] # None /\ y # u
            /\ M[y].chained \cap M[u].chained # {} => y \in M[u].chained \/ u \in M[y].chained
  BY DEF ChainsGood
<1>7. \A z \in Reqs : M[z] # None /\ M[M[z].main] # None => z \in M[M[z].main].chained
  BY DEF ChainsGood
<1>8. X = M[r].chained
  BY <1>1, <1>4
<1> HIDE DEF X
<1>9. \A x \in X : x \in Reqs /\ x # r /\ M[x] # None /\ M[x].into = m
  BY <1>1, <1>4, <1>8
<1>10. \A y \in Reqs : \A z : N[y] # None /\ z \in N[y].chained =>
        /\ z \in Reqs /\ z # y /\ N[z] # None
        /\ N[z].into = N[y].into /\ N[z].main \in N[y].chained \cup {y}
        /\ N[z].chained \subseteq N[y].chained
  <2> SUFFICES ASSUME NEW y \in Reqs, NEW z, N[y] # None, z \in N[y].chained
               PROVE  /\ z \in Reqs /\ z # y /\ N[z] # None
                      /\ N[z].into = N[y].into /\ N[z].main \in N[y].chained \cup {y}
                      /\ N[z].chained \subseteq N[y].chained
    OBVIOUS
  <2>1. y # r /\ M[y] # None /\ N[y].chained = M[y].chained /\ z \in M[y].chained
    BY <1>1, <1>2
  <2>2. z \in Reqs /\ z # y /\ M[z] # None /\ z # r /\ M[z].into = M[y].into
    BY <1>3, <1>4, <2>1
  <2>3. z \in X <=> y \in X
    <3>1. y \in X => z \in X
      BY <1>1, <1>4, <1>8, <2>1
    <3>2. z \in X => y \in X
      BY <1>1, <1>3, <1>6, <1>8, <2>1
    <3> QED BY <3>1, <3>2
  <2> QED BY <1>2, <1>4, <2>1, <2>2, <2>3
<1>11. \A y, u \in Reqs : N[y] # None /\ N[u] # None /\ y # u
            /\ N[y].chained \cap N[u].chained # {} => y \in N[u].chained \/ u \in N[y].chained
  BY <1>1, <1>2, <1>6
<1>12. \A z \in Reqs : N[z] # None =>
        \/ N[z].main = N[z].into
        \/ N[N[z].main] # None /\ N[N[z].main].into = N[z].into
  <2> SUFFICES ASSUME NEW z \in Reqs, N[z] # None
               PROVE  \/ N[z].main = N[z].into
                      \/ N[N[z].main] # None /\ N[N[z].main].into = N[z].into
    OBVIOUS
  <2>1. z # r /\ M[z] # None /\ N[z].main = M[z].main /\ M[z].main \in Reqs
    BY <1>1, <1>2, <1>5
  <2>2. CASE z \in X
    <3>1. M[z].main = r \/ M[z].main \in X
      BY <1>1, <1>4, <1>8, <2>2
    <3> QED BY <1>2, <1>9, <2>1, <2>2, <3>1
  <2>3. CASE z \notin X
    <3>1. N[z].into = M[z].into
      BY <1>2, <2>1, <2>3
    <3>2. CASE M[M[z].main] # None /\ M[M[z].main].into = M[z].into
      <4>1. M[z].main # r
        BY <1>1, <1>7, <1>8, <2>1, <2>3
      <4>2. M[z].main \notin X
        BY <1>1, <1>4, <1>7, <1>8, <2>1, <2>3
      <4> QED BY <1>2, <2>1, <3>1, <3>2, <4>1, <4>2
    <3> QED BY <1>14, <2>1, <3>1, <3>2
  <2> QED BY <2>2, <2>3
<1>13. \A z \in Reqs : N[z] # None /\ N[N[z].main] # None => z \in N[N[z].main].chained
  BY <1>1, <1>2, <1>5, <1>7
<1> QED BY <1>10, <1>11, <1>12, <1>13 DEF ChainsGood

(* The candidates that go along, and those that come back.                 *)
Taking(K, r) == {c \in Cands : K[c].req = r /\ K[c].status \in {"claimed", "merged"}}
SameRecord(k, j) == j.at = k.at /\ j.undo = k.undo
CandsOn(K, J, r, m) ==
    \A c \in Cands :
        /\ SameRecord(K[c], J[c])
        /\ c \in Taking(K, r) => J[c].req = m /\ J[c].status = "merged"
        /\ c \notin Taking(K, r) => J[c].req = K[c].req /\ J[c].status = K[c].status
TakenOn(N, K, r) ==
    \A c \in Cands : /\ N[r].cands[c] = IF c \in Taking(K, r) THEN K[c].status ELSE None
                     /\ K[c].at <= N[r].at

LEMMA TakersOn ==
  ASSUME NEW M, NEW N, NEW K, NEW J, NEW r, NEW m, MergesOn(M, N, r, m), CandsOn(K, J, r, m),
         TakenOn(N, K, r), NEW c \in Cands
  PROVE  Takers(N, J[c], c)
         = IF c \in Taking(K, r) THEN Takers(M, K[c], c) \cup {r} ELSE Takers(M, K[c], c)
<1> DEFINE A == Takers(M, K[c], c)
           B == Takers(N, J[c], c)
<1>1. r \in Reqs /\ M[r] = None /\ N[r] # None
  BY DEF MergesOn
<1>2. r \in B <=> c \in Taking(K, r)
  BY <1>1, NullAssumption DEF Takers, CandsOn, SameRecord, TakenOn, Taking
<1>3. r \notin A
  BY <1>1 DEF Takers
<1>4. \A y \in Reqs : y # r => (y \in A <=> y \in B)
  BY DEF Takers, CandsOn, SameRecord, MergesOn, StaysMerged
<1>5. A \subseteq Reqs /\ B \subseteq Reqs
  BY DEF Takers
<1> HIDE DEF A, B
<1>6. B = IF c \in Taking(K, r) THEN A \cup {r} ELSE A
  BY <1>1, <1>2, <1>3, <1>4, <1>5
<1> QED BY <1>6 DEF A, B

LEMMA CandsGoodOn ==
  ASSUME NEW M, NEW N, NEW K, NEW J, NEW r, NEW m, NEW astray, ChainsGood(M),
         MergesOn(M, N, r, m), CandsOn(K, J, r, m), TakenOn(N, K, r), CandsGood(M, K, astray)
  PROVE  CandsGood(N, J, astray)
<1> SUFFICES ASSUME NEW c \in Cands
             PROVE  /\ J[c].undo # None => J[c].status = "merged"
                    /\ \A y \in Reqs : N[y] # None /\ N[y].cands[c] = "claimed" =>
                         J[c].undo = None /\ J[c].status \in {"claimed", "merged"}
                    /\ J[c].undo # None /\ c \notin astray => TakersGood(N, J[c], c)
  BY DEF CandsGood
<1> DEFINE A == Takers(M, K[c], c)
           B == Takers(N, J[c], c)
           T == Taking(K, r)
<1>1. /\ K[c].undo # None => K[c].status = "merged"
      /\ \A y \in Reqs : M[y] # None /\ M[y].cands[c] = "claimed" =>
            K[c].undo = None /\ K[c].status \in {"claimed", "merged"}
      /\ K[c].undo # None /\ c \notin astray => TakersGood(M, K[c], c)
  BY DEF CandsGood
<1>2. /\ J[c].undo = K[c].undo
      /\ c \in T => J[c].req = m /\ J[c].status = "merged"
      /\ c \notin T => J[c].req = K[c].req /\ J[c].status = K[c].status
      /\ N[r].cands[c] = IF c \in T THEN K[c].status ELSE None
  BY DEF CandsOn, SameRecord, TakenOn
<1>3. /\ r \in Reqs /\ M[r] = None /\ N[r] # None /\ N[r].into = m
      /\ N[r].chained = {x \in Reqs : M[x] # None /\ M[x].into = r}
      /\ \A y \in Reqs : y # r /\ M[y] # None =>
            /\ N[y].cands = M[y].cands /\ N[y].chained = M[y].chained
            /\ N[y].into = IF M[y].into = r THEN m ELSE M[y].into
      /\ \A y \in Reqs : y # r => (N[y] = None <=> M[y] = None)
  BY DEF MergesOn, StaysMerged
<1>4. c \in T <=> K[c].req = r /\ K[c].status \in {"claimed", "merged"}
  BY DEF Taking
<1>5. B = IF c \in T THEN A \cup {r} ELSE A
  BY TakersOn
<1>6. \A y \in A : y \in Reqs /\ M[y] # None /\ y # r
  BY <1>3 DEF Takers
<1> HIDE DEF A, B, T
<1>7. J[c].undo # None => J[c].status = "merged"
  BY <1>1, <1>2
<1>8. ASSUME NEW y \in Reqs, N[y] # None, N[y].cands[c] = "claimed"
      PROVE  J[c].undo = None /\ J[c].status \in {"claimed", "merged"}
  <2>1. CASE y = r
    BY <1>1, <1>2, <1>8, <2>1, NullAssumption
  <2>2. CASE y # r
    BY <1>1, <1>2, <1>3, <1>8, <2>2
  <2> QED BY <2>1, <2>2
<1>9. ASSUME J[c].undo # None, c \notin astray
      PROVE  TakersGood(N, J[c], c)
  <2>1. /\ \A y \in A : K[c].req = M[y].into
        /\ \A y, z \in A : y # z => z \in M[y].chained \/ y \in M[z].chained
        /\ \A y \in A, u \in Reqs : M[u] # None /\ y \in M[u].chained => u \in A
    BY <1>1, <1>2, <1>9 DEF TakersGood, A
  <2>2. c \in T <=> K[c].req = r
    BY <1>1, <1>2, <1>4, <1>9
  <2>3. \A y \in B : J[c].req = N[y].into
    BY <1>2, <1>3, <1>5, <1>6, <2>1, <2>2
  <2>4. \A y, z \in B : y # z => z \in N[y].chained \/ y \in N[z].chained
    <3>1. c \in T => \A y \in A : y \in N[r].chained
      BY <1>3, <1>6, <2>1, <2>2
    <3>2. \A y \in A : N[y].chained = M[y].chained
      BY <1>3, <1>6
    <3> QED BY <1>5, <2>1, <3>1, <3>2
  <2>5. \A y \in B, u \in Reqs : N[u] # None /\ y \in N[u].chained => u \in B
    <3> SUFFICES ASSUME NEW y \in B, NEW u \in Reqs, N[u] # None, y \in N[u].chained
                 PROVE  u \in B
      OBVIOUS
    <3>1. CASE u = r
      <4>1. M[y] # None /\ M[y].into = r /\ y \in A
        BY <1>3, <1>5, <3>1
      <4> QED BY <1>5, <2>1, <2>2, <3>1, <4>1
    <3>2. CASE u # r
      <4>1. M[u] # None /\ y \in M[u].chained
        BY <1>3, <3>2
      <4>2. M[y] # None
        BY <4>1 DEF ChainsGood
      <4>3. y \in A
        BY <1>3, <1>5, <4>2
      <4> QED BY <1>5, <2>1, <4>1, <4>3
    <3> QED BY <3>1, <3>2
  <2> QED BY <2>3, <2>4, <2>5 DEF TakersGood, B
<1> QED BY <1>7, <1>8, <1>9

(* A candidate keeps the record of its requirement.                        *)
LEMMA OwnsOn ==
  ASSUME NEW M, NEW N, NEW K, NEW J, NEW r, NEW m, NEW astray,
         MergesOn(M, N, r, m), CandsOn(K, J, r, m), TakenOn(N, K, r), CandsGood(M, K, astray),
         NEW c \in Cands, NEW y \in Reqs, K[c].undo # None, Owns(M, K[c], c, y)
  PROVE  Owns(N, J[c], c, y)
<1> DEFINE A == Takers(M, K[c], c)
           B == Takers(N, J[c], c)
           T == Taking(K, r)
<1>1. B = IF c \in T THEN A \cup {r} ELSE A
  BY TakersOn
<1>2. \A z \in A : z \in Reqs /\ z # r /\ M[z] # None
  BY DEF Takers, MergesOn
<1>3. /\ IF M[y] = None THEN K[c].req = y ELSE y \in A
      /\ \A z \in A : M[z].main # y
  BY DEF Owns
<1>4. /\ r \in Reqs /\ r # m /\ M[r] = None /\ M[m] = None /\ N[r] # None /\ N[r].main = m
      /\ \A z \in Reqs : z # r /\ M[z] # None => N[z].main = M[z].main
      /\ \A z \in Reqs : z # r => (N[z] = None <=> M[z] = None)
  BY DEF MergesOn, StaysMerged
<1>5. K[c].status = "merged" /\ (c \in T <=> K[c].req = r)
  BY DEF CandsGood, Taking
<1>6. c \notin T => J[c].req = K[c].req
  BY DEF CandsOn
<1> HIDE DEF A, B, T
<1>7. IF N[y] = None THEN J[c].req = y ELSE y \in B
  BY <1>1, <1>2, <1>3, <1>4, <1>5, <1>6
<1>8. \A z \in B : N[z].main # y
  BY <1>1, <1>2, <1>3, <1>4, <1>5
<1> QED BY <1>7, <1>8 DEF Owns, B

ComingBack(M, K, r) ==
    {c \in Cands : M[r].cands[c] # None /\ K[c].req = M[r].main /\ K[c].status = "merged"}
CandsOff(M, K, J, r) ==
    \A c \in Cands :
        /\ SameRecord(K[c], J[c])
        /\ c \in ComingBack(M, K, r) => J[c].req = r /\ J[c].status = M[r].cands[c]
        /\ c \notin ComingBack(M, K, r) => J[c].req = K[c].req /\ J[c].status = K[c].status
TakenOff(M, K, r) ==
    \A c \in Cands : /\ M[r].cands[c] \in {"claimed", "merged", None}
                     /\ K[c].at \in Nat /\ M[r].at \in Nat
LedOff(M, K, r) == {c \in ComingBack(M, K, r) : K[c].at > M[r].at}

LEMMA TakersOff ==
  ASSUME NEW M, NEW N, NEW K, NEW J, NEW r, NEW m, MergesOff(M, N, r, m), CandsOff(M, K, J, r),
         NEW c \in Cands
  PROVE  Takers(N, J[c], c) = Takers(M, K[c], c) \ {r}
BY DEF Takers, CandsOff, SameRecord, MergesOff, StaysMerged

LEMMA CandsGoodOff ==
  ASSUME NEW M, NEW N, NEW K, NEW J, NEW r, NEW m, NEW astray, ChainsGood(M),
         MergesOff(M, N, r, m), CandsOff(M, K, J, r), TakenOff(M, K, r), CandsGood(M, K, astray)
  PROVE  CandsGood(N, J, astray \cup LedOff(M, K, r))
<1> DEFINE led == astray \cup LedOff(M, K, r)
<1> SUFFICES ASSUME NEW c \in Cands
             PROVE  /\ J[c].undo # None => J[c].status = "merged"
                    /\ \A y \in Reqs : N[y] # None /\ N[y].cands[c] = "claimed" =>
                         J[c].undo = None /\ J[c].status \in {"claimed", "merged"}
                    /\ J[c].undo # None /\ c \notin led => TakersGood(N, J[c], c)
  BY DEF CandsGood
<1> DEFINE A == Takers(M, K[c], c)
           B == Takers(N, J[c], c)
           R == ComingBack(M, K, r)
           X == M[r].chained
<1>1. /\ K[c].undo # None => K[c].status = "merged"
      /\ \A y \in Reqs : M[y] # None /\ M[y].cands[c] = "claimed" =>
            K[c].undo = None /\ K[c].status \in {"claimed", "merged"}
      /\ K[c].undo # None /\ c \notin astray => TakersGood(M, K[c], c)
  BY DEF CandsGood
<1>2. /\ J[c].undo = K[c].undo
      /\ c \in R => J[c].req = r /\ J[c].status = M[r].cands[c]
      /\ c \notin R => J[c].req = K[c].req /\ J[c].status = K[c].status
  BY DEF CandsOff, SameRecord
<1>3. /\ r \in Reqs /\ M[r] # None /\ N[r] = None /\ M[r].into = m
      /\ \A y \in Reqs : y # r /\ M[y] # None =>
            /\ N[y].cands = M[y].cands /\ N[y].chained = M[y].chained
            /\ N[y].into = IF y \in X /\ M[y].into = m THEN r ELSE M[y].into
      /\ \A y \in Reqs : y # r => (N[y] = None <=> M[y] = None)
  BY DEF MergesOff, StaysMerged
<1>4. c \in R <=> M[r].cands[c] # None /\ K[c].req = m /\ K[c].status = "merged"
  BY DEF ComingBack, MergesOff
<1>5. B = A \ {r}
  BY TakersOff
<1>6. \A y \in A : y \in Reqs /\ M[y] # None
  BY DEF Takers
<1>7. M[r].cands[c] \in {"claimed", "merged", None}
  BY DEF TakenOff
<1>8. \A y \in Reqs : M[y] # None => r \notin M[y].chained
  BY InPlaceFree DEF MergesOff
<1>9. c \in R /\ c \notin led => r \in A
  BY <1>3 DEF LedOff, TakenOff, Takers, ComingBack
<1>10. r \in A => M[r].cands[c] # None
  BY DEF Takers
<1> HIDE DEF A, B, R, X, led
<1>11. J[c].undo # None => J[c].status = "merged"
  BY <1>1, <1>2, <1>3, <1>4, <1>7
<1>12. ASSUME NEW y \in Reqs, N[y] # None, N[y].cands[c] = "claimed"
       PROVE  J[c].undo = None /\ J[c].status \in {"claimed", "merged"}
  BY <1>1, <1>2, <1>3, <1>4, <1>7, <1>12
<1>13. ASSUME J[c].undo # None, c \notin led
       PROVE  TakersGood(N, J[c], c)
  <2>1. /\ \A y \in A : K[c].req = M[y].into
        /\ \A y, z \in A : y # z => z \in M[y].chained \/ y \in M[z].chained
        /\ \A y \in A, u \in Reqs : M[u] # None /\ y \in M[u].chained => u \in A
    BY <1>1, <1>2, <1>13 DEF TakersGood, A, led
  <2>2. K[c].status = "merged"
    BY <1>1, <1>2, <1>13
  <2>3. \A y \in B : J[c].req = N[y].into
    <3> SUFFICES ASSUME NEW y \in B PROVE J[c].req = N[y].into
      OBVIOUS
    <3>1. y \in A /\ y # r /\ y \in Reqs /\ M[y] # None
      BY <1>5, <1>6
    <3>2. CASE c \in R
      <4>1. y \in X
        BY <1>8, <1>9, <1>13, <2>1, <3>1, <3>2 DEF X
      <4> QED BY <1>2, <1>3, <1>4, <2>1, <3>1, <3>2, <4>1
    <3>3. CASE c \notin R
      <4>1. y \notin X \/ M[y].into # m
        BY <1>3, <1>4, <1>10, <2>1, <2>2, <3>1, <3>3 DEF X
      <4> QED BY <1>2, <1>3, <2>1, <3>1, <3>3, <4>1
    <3> QED BY <3>2, <3>3
  <2>4. \A y, z \in B : y # z => z \in N[y].chained \/ y \in N[z].chained
    BY <1>3, <1>5, <1>6, <2>1
  <2>5. \A y \in B, u \in Reqs : N[u] # None /\ y \in N[u].chained => u \in B
    BY <1>3, <1>5, <2>1
  <2> QED BY <2>3, <2>4, <2>5 DEF TakersGood, B
<1> QED BY <1>11, <1>12, <1>13 DEF led

LEMMA OwnsOff ==
  ASSUME NEW M, NEW N, NEW K, NEW J, NEW r, NEW m, NEW astray, ChainsGood(M),
         MergesOff(M, N, r, m), CandsOff(M, K, J, r), TakenOff(M, K, r), CandsGood(M, K, astray),
         NEW c \in Cands, NEW y \in Reqs, K[c].undo # None, Owns(M, K[c], c, y),
         c \notin astray \cup LedOff(M, K, r)
  PROVE  Owns(N, J[c], c, y)
<1> DEFINE A == Takers(M, K[c], c)
           B == Takers(N, J[c], c)
           R == ComingBack(M, K, r)
<1>1. B = A \ {r}
  BY TakersOff
<1>2. \A z \in A : z \in Reqs /\ M[z] # None /\ M[z].cands[c] # None
  BY DEF Takers
<1>3. /\ IF M[y] = None THEN K[c].req = y ELSE y \in A
      /\ \A z \in A : M[z].main # y
  BY DEF Owns
<1>4. /\ r \in Reqs /\ r # m /\ M[r] # None /\ M[m] = None /\ N[r] = None /\ M[r].main = m
      /\ M[r].into = m
      /\ \A z \in Reqs : z # r /\ M[z] # None => N[z].main = M[z].main
      /\ \A z \in Reqs : z # r => (N[z] = None <=> M[z] = None)
  BY DEF MergesOff, StaysMerged
<1>5. K[c].status = "merged" /\ \A z \in A : K[c].req = M[z].into
  BY DEF CandsGood, TakersGood
<1>6. c \in R <=> M[r].cands[c] # None /\ K[c].req = m /\ K[c].status = "merged"
  BY DEF ComingBack, MergesOff
<1>7. /\ c \in R => J[c].req = r
      /\ c \notin R => J[c].req = K[c].req
  BY DEF CandsOff
<1>8. c \in R => r \in A
  BY <1>4 DEF LedOff, TakenOff, Takers, ComingBack
<1> HIDE DEF A, B, R
<1>9. IF N[y] = None THEN J[c].req = y ELSE y \in B
  <2>1. CASE y = r
    BY <1>2, <1>3, <1>4, <1>5, <1>6, <1>7, <2>1
  <2>2. CASE y # r
    BY <1>1, <1>3, <1>4, <1>6, <1>7, <1>8, <2>2
  <2> QED BY <2>1, <2>2
<1>10. \A z \in B : N[z].main # y
  BY <1>1, <1>2, <1>3, <1>4
<1> QED BY <1>9, <1>10 DEF Owns, B

-----------------------------------------------------------------------------
(* The changes of the requirements, one kind of change at a time.          *)

LEMMA ShiftsTyped ==
  ASSUME NEW n \in Nat, NEW o, NEW h, TurnGood(h, o, n)
  PROVE  /\ h.changed \in Nat /\ h.changed <= n
         /\ \A u \in h.past : /\ u.at \in Nat /\ u.changed \in Nat
                              /\ u.changed < u.at /\ u.at <= h.changed
         /\ \A a \in Shifts(h) : a \in Nat /\ a <= h.changed
<1>1. h.changed \in Nat /\ h.changed <= n
  BY DEF TurnGood, TurnRow, Stamps
<1>2. \A u \in h.past : /\ u.at \in Nat /\ u.changed \in Nat
                        /\ u.changed < u.at /\ u.at <= h.changed
  BY DEF TurnGood, TurnRow, PastRow, Stamps
<1>3. \A a \in Shifts(h) : a \in Nat /\ a <= h.changed
  BY <1>1, <1>2 DEF Shifts
<1> QED BY <1>1, <1>2, <1>3

LEMMA TurnLater ==
  ASSUME NEW n \in Nat, NEW k \in Nat, n <= k, NEW o, NEW h, TurnGood(h, o, n)
  PROVE  TurnGood(h, o, k)
<1>1. h \in TurnRow(k)
  BY DEF TurnGood, TurnRow, PastRow, Stamps
<1> QED BY <1>1 DEF TurnGood

(* One requirement's change that is of no merge.                           *)
TurnedOn(H, G, o, k, r) ==
    /\ r \in Reqs /\ \A x \in Reqs \ {r} : G[x] = H[x]
    /\ TurnGood(G[r], o, k) /\ Shifts(G[r]) \cap o \subseteq Shifts(H[r])
    /\ G[r].past = {} \/ G[r].changed \notin o

LEMMA TurnsTurned ==
  ASSUME NEW n \in Nat, NEW k \in Nat, n <= k, NEW o, NEW H, NEW G, TurnsGood(H, o, n),
         NEW r, TurnedOn(H, G, o, k, r)
  PROVE  /\ TurnsGood(G, o, k)
         /\ \A g : RecordGood(g, H, o, n) => RecordGood(g, G, o, k)
         /\ \A x \in Reqs : Shifts(G[x]) \cap o \subseteq Shifts(H[x])
<1>0. /\ r \in Reqs /\ \A x \in Reqs \ {r} : G[x] = H[x]
      /\ TurnGood(G[r], o, k) /\ Shifts(G[r]) \cap o \subseteq Shifts(H[r])
      /\ G[r].past = {} \/ G[r].changed \notin o
  BY DEF TurnedOn
<1>1. \A x \in Reqs : TurnGood(G[x], o, k)
  BY <1>0, TurnLater DEF TurnsGood
<1>2. \A x \in Reqs : Shifts(G[x]) \cap o \subseteq Shifts(H[x])
  BY <1>0
<1>3. o \subseteq 1 .. k
  BY DEF TurnsGood
<1>4. \A x, q \in Reqs : x # q => Shifts(G[x]) \cap Shifts(G[q]) \cap o = {}
  <2>1. \A x, q \in Reqs : x # q => Shifts(H[x]) \cap Shifts(H[q]) \cap o = {}
    BY DEF TurnsGood
  <2> QED BY <1>2, <2>1
<1>5. ASSUME NEW g, RecordGood(g, H, o, n) PROVE RecordGood(g, G, o, k)
  <2>1. /\ g \in ReopenRow(n) /\ g.at \in o /\ g.changed \notin o
        /\ \A x \in Reqs : H[x].changed = g.at => \A u \in H[x].past : u.at <= g.changed
    BY <1>5 DEF RecordGood
  <2>2. g \in ReopenRow(k)
    BY <2>1 DEF ReopenRow, Stamps
  <2>3. \A x \in Reqs : G[x].changed = g.at => \A u \in G[x].past : u.at <= g.changed
    BY <1>0, <2>1
  <2> QED BY <2>1, <2>2, <2>3 DEF RecordGood
<1> QED BY <1>1, <1>2, <1>3, <1>4, <1>5 DEF TurnsGood

LEMMA RecordsTurned ==
  ASSUME NEW n, NEW k, NEW o, NEW q, NEW H, NEW G, NEW M, NEW K, RecordsGood(H, M, K, o, n),
         MergesTyped(M), \A g : RecordGood(g, H, o, n) => RecordGood(g, G, q, k),
         \A x, y \in Reqs : M[x] # None => \A u \in G[y].past : u \in H[y].past \/ M[x].at < u.at
  PROVE  RecordsGood(G, M, K, q, k)
<1>1. \A c \in Cands : \A g \in CandRecords(K[c]) : RecordGood(g, G, q, k)
  BY DEF RecordsGood
<1>2. ASSUME NEW x \in Reqs, NEW g \in MergeRecords(M[x])
      PROVE  /\ RecordGood(g, G, q, k)
             /\ \A u \in G[M[x].main].past : u.changed = g.at => M[x].at < u.at
  <2>1. M[x] # None /\ M[x].main \in Reqs
    BY <1>2 DEF MergeRecords, MergesTyped
  <2>2. /\ RecordGood(g, H, o, n)
        /\ \A u \in H[M[x].main].past : u.changed = g.at => M[x].at < u.at
    BY DEF RecordsGood
  <2> QED BY <2>1, <2>2
<1> QED BY <1>1, <1>2 DEF RecordsGood

LEMMA KeptTurned ==
  ASSUME NEW o, NEW l, NEW H, NEW G, NEW M, NEW K, NEW astray, Kept(H, M, K, o, l, astray),
         \A x \in Reqs : Shifts(G[x]) \cap o \subseteq Shifts(H[x])
  PROVE  Kept(G, M, K, o, l, astray)
BY DEF Kept

(* A merge opens requirement m.                                            *)
OpenedTurns(H, G, m, a) ==
    /\ \A x \in Reqs \ {m} : G[x] = H[x]
    /\ G[m] = [status |-> "active", changed |-> a, past |-> H[m].past]
RecordOf(h, a) == [from |-> h.status, at |-> a, changed |-> h.changed]

OpenedGood(H, G, o, n, m, a) ==
    /\ TurnsGood(G, o \cup {a}, a)
    /\ \A g : RecordGood(g, H, o, n) => RecordGood(g, G, o \cup {a}, a)
    /\ RecordGood(RecordOf(H[m], a), G, o \cup {a}, a)
    /\ \A x \in Reqs : G[x].past = H[x].past
    /\ \A x \in Reqs : Shifts(G[x]) \cap (o \cup {a})
                       \subseteq (Shifts(H[x]) \cap o) \cup (IF x = m THEN {a} ELSE {})

LEMMA TurnsOpened ==
  ASSUME NEW n \in Nat, NEW o, NEW H, NEW G, TurnsGood(H, o, n), NEW m \in Reqs,
         H[m].status # "active", NEW a, a = n + 1, OpenedTurns(H, G, m, a)
  PROVE  OpenedGood(H, G, o, n, m, a)
<1> DEFINE s == o \cup {a}
<1>1. /\ o \subseteq 1 .. n /\ a \in Nat /\ a > n /\ n <= a
      /\ \A x \in Reqs : TurnGood(H[x], o, n)
      /\ \A x, q \in Reqs : x # q => Shifts(H[x]) \cap Shifts(H[q]) \cap o = {}
  BY DEF TurnsGood
<1>2. \A x \in Reqs \ {m} : G[x] = H[x]
  BY DEF OpenedTurns
<1>3. G[m].status = "active" /\ G[m].changed = a /\ G[m].past = H[m].past
  BY DEF OpenedTurns
<1>4. H[m].changed \notin s
  BY <1>1, ShiftsTyped DEF TurnGood
<1>5. \A x \in Reqs : G[x].past = H[x].past
  BY <1>2, <1>3
<1>6. TurnGood(H[m], o, n) /\ a \notin o
  BY <1>1
<1>7. \A u \in H[m].past : /\ u.at \in Nat /\ u.changed \in Nat /\ u.changed < u.at
                           /\ u.at <= H[m].changed /\ H[m].changed \in Nat /\ H[m].changed <= n
  BY <1>6, ShiftsTyped
<1>8. TurnGood(G[m], s, a)
  <2>1. H[m].past \subseteq PastRow(a)
    BY <1>1, <1>6 DEF TurnGood, TurnRow, PastRow, Stamps
  <2>2. G[m] \in TurnRow(a)
    BY <1>1, <2>1 DEF OpenedTurns, TurnRow, Stamps, ReqStatuses
  <2>3. \A u \in H[m].past : u.status # "active" => u.changed \notin s
    BY <1>1, <1>6, <1>7 DEF TurnGood
  <2> QED BY <1>1, <1>3, <1>7, <2>2, <2>3 DEF TurnGood
<1>9. \A x \in Reqs : TurnGood(G[x], s, a)
  <2> SUFFICES ASSUME NEW x \in Reqs, x # m PROVE TurnGood(H[x], s, a)
    BY <1>2, <1>8
  <2>1. TurnGood(H[x], o, n)
    BY <1>1
  <2>2. TurnGood(H[x], o, a)
    BY <1>1, <2>1, TurnLater
  <2>3. H[x].changed # a /\ \A u \in H[x].past : u.changed # a
    BY <1>1, <2>1, ShiftsTyped
  <2> QED BY <2>2, <2>3 DEF TurnGood
<1>10. \A x \in Reqs : Shifts(G[x]) \cap s
                       \subseteq (Shifts(H[x]) \cap o) \cup (IF x = m THEN {a} ELSE {})
  <2> SUFFICES ASSUME NEW x \in Reqs, NEW b \in Shifts(G[x]) \cap s
               PROVE  (b \in Shifts(H[x]) /\ b \in o) \/ (x = m /\ b = a)
    OBVIOUS
  <2>1. CASE x = m
    BY <1>3, <2>1 DEF Shifts
  <2>2. CASE x # m
    <3>1. \A d \in Shifts(H[x]) : d # a
      BY <1>1, ShiftsTyped
    <3> QED BY <1>2, <2>2, <3>1
  <2> QED BY <2>1, <2>2
<1>11. \A x, q \in Reqs : x # q => Shifts(G[x]) \cap Shifts(G[q]) \cap s = {}
  <2> SUFFICES ASSUME NEW x \in Reqs, NEW q \in Reqs, x # q,
                      NEW b \in Shifts(G[x]) \cap Shifts(G[q]) \cap s
               PROVE  FALSE
    OBVIOUS
  <2>1. /\ (b \in Shifts(H[x]) /\ b \in o) \/ (x = m /\ b = a)
        /\ (b \in Shifts(H[q]) /\ b \in o) \/ (q = m /\ b = a)
    BY <1>10
  <2> QED BY <1>1, <1>6, <2>1
<1>12. ASSUME NEW g, RecordGood(g, H, o, n) PROVE RecordGood(g, G, s, a)
  <2>1. /\ g \in ReopenRow(n) /\ g.at \in o /\ g.changed \notin o
        /\ \A x \in Reqs : H[x].changed = g.at => \A u \in H[x].past : u.at <= g.changed
    BY <1>12 DEF RecordGood
  <2>2. g \in ReopenRow(a) /\ g.changed # a /\ g.at # a
    BY <1>1, <2>1 DEF ReopenRow, Stamps
  <2>3. \A x \in Reqs : G[x].changed = g.at => \A u \in G[x].past : u.at <= g.changed
    BY <1>2, <1>3, <2>1, <2>2
  <2> QED BY <2>1, <2>2, <2>3 DEF RecordGood
<1>13. RecordGood(RecordOf(H[m], a), G, s, a)
  <2> DEFINE g == RecordOf(H[m], a)
  <2>1. g.at = a /\ g.changed = H[m].changed /\ g \in ReopenRow(a)
    BY <1>1, <1>6, ShiftsTyped DEF RecordOf, ReopenRow, TurnGood, TurnRow, Stamps
  <2> HIDE DEF g
  <2>2. \A x \in Reqs : G[x].changed = a => x = m
    <3>1. \A x \in Reqs : H[x].changed # a
      BY <1>1, ShiftsTyped
    <3> QED BY <1>2, <3>1
  <2>3. \A x \in Reqs : G[x].changed = g.at => \A u \in G[x].past : u.at <= g.changed
    BY <1>3, <1>7, <2>1, <2>2
  <2>4. RecordGood(g, G, s, a)
    BY <1>4, <2>1, <2>3 DEF RecordGood
  <2> QED BY <2>4 DEF g
<1>14. TurnsGood(G, s, a)
  <2>1. s \subseteq 1 .. a
    <3>1. \A x \in o : x \in Nat /\ 1 <= x /\ x <= n
      <4>1. o \subseteq 1 .. n
        BY <1>1
      <4> QED BY <4>1
    <3>2. 1 <= a /\ \A x \in o : x \in 1 .. a
      BY <3>1
    <3>3. a \in 1 .. a
      BY <3>2
    <3> QED BY <3>2, <3>3
  <2> HIDE DEF s
  <2> QED BY <1>9, <1>11, <2>1 DEF TurnsGood
<1> QED BY <1>5, <1>10, <1>12, <1>13, <1>14 DEF OpenedGood

(* Requirement m goes back to what a merge had reopened it from.           *)
LEMMA TurnsClosed ==
  ASSUME NEW n \in Nat, NEW o, NEW l, NEW H, NEW G, NEW M, NEW K, NEW astray, TurnsGood(H, o, n),
         RecordsGood(H, M, K, o, n), MergesTyped(M), NEW m \in Reqs,
         NEW w, RecordGood(w, H, o, n), H[m].changed = w.at,
         \A x \in Reqs \ {m} : G[x] = H[x],
         G[m] = [status |-> w.from, changed |-> w.changed, past |-> H[m].past],
         Kept(H, M, K, o, l \cup {w.at}, astray)
  PROVE  TurnsGood(G, o, n) /\ RecordsGood(G, M, K, o, n) /\ Kept(G, M, K, o, l, astray)
<1>1. /\ w \in ReopenRow(n) /\ w.at \in o /\ w.changed \notin o
      /\ \A u \in H[m].past : u.at <= w.changed
  BY DEF RecordGood
<1>2. G[m].status = w.from /\ G[m].changed = w.changed /\ G[m].past = H[m].past
  OBVIOUS
<1>3. TurnGood(H[m], o, n)
  BY DEF TurnsGood
<1>4. TurnGood(G[m], o, n)
  <2>1. G[m] \in TurnRow(n)
    BY <1>1, <1>3 DEF TurnGood, TurnRow, ReopenRow
  <2> QED BY <1>1, <1>2, <1>3, <2>1 DEF TurnGood
<1>5. Shifts(G[m]) \cap o \subseteq Shifts(H[m]) \ {w.at}
  <2>1. \A u \in H[m].past : u.changed # w.at
    BY <1>3, ShiftsTyped
  <2> QED BY <1>1, <1>2, <2>1 DEF Shifts
<1>6. /\ TurnsGood(G, o, n) /\ \A g : RecordGood(g, H, o, n) => RecordGood(g, G, o, n)
      /\ \A x \in Reqs : Shifts(G[x]) \cap o \subseteq Shifts(H[x])
  <2>1. n <= n /\ G[m].changed \notin o /\ Shifts(G[m]) \cap o \subseteq Shifts(H[m])
    BY <1>1, <1>2, <1>5
  <2>2. TurnedOn(H, G, o, n, m)
    BY <1>4, <2>1 DEF TurnedOn
  <2> QED BY <2>1, <2>2, TurnsTurned
<1>7. RecordsGood(G, M, K, o, n)
  <2>1. \A y \in Reqs : G[y].past = H[y].past
    BY <1>2
  <2> QED BY <1>6, <2>1, RecordsTurned
<1>8. Kept(G, M, K, o, l, astray)
  <2> SUFFICES ASSUME NEW x \in Reqs, NEW a \in o \ l, a \in Shifts(G[x])
               PROVE  Carried(M, K, astray, x, a)
    BY DEF Kept
  <2>1. a \in Shifts(H[x])
    BY <1>6
  <2>2. w.at \in Shifts(H[m])
    BY DEF Shifts
  <2>3. a # w.at
    <3>1. CASE x = m
      BY <1>5, <3>1
    <3>2. CASE x # m
      BY <1>1, <2>1, <2>2, <3>2 DEF TurnsGood
    <3> QED BY <3>1, <3>2
  <2> QED BY <2>1, <2>3 DEF Kept
<1> QED BY <1>6, <1>7, <1>8

(* The record is handed to the merges that came later.                     *)
HandedOn(M, N, K, J, C, X, w) ==
    /\ \A c \in Cands : /\ c \notin C => J[c] = K[c]
                        /\ c \in C => /\ J[c].status = K[c].status /\ J[c].req = K[c].req
                                      /\ J[c].at = K[c].at /\ J[c].undo # None
                                      /\ J[c].undo.reopen = w
    /\ \A x \in Reqs : /\ x \notin X => N[x] = M[x]
                       /\ x \in X =>
                            /\ N[x] # None /\ N[x].into = M[x].into /\ N[x].main = M[x].main
                            /\ N[x].at = M[x].at /\ N[x].chained = M[x].chained
                            /\ N[x].cands = M[x].cands /\ N[x].reopen = w

LEMMA TakersHanded ==
  ASSUME NEW M, NEW N, NEW K, NEW J, NEW C, NEW X, NEW w, HandedOn(M, N, K, J, C, X, w),
         \A x \in X : M[x] # None, NEW c \in Cands
  PROVE  Takers(N, J[c], c) = Takers(M, K[c], c)
BY DEF Takers, HandedOn

LEMMA ChainsHanded ==
  ASSUME NEW M, NEW N, NEW K, NEW J, NEW C, NEW X, NEW w, HandedOn(M, N, K, J, C, X, w),
         \A x \in X : M[x] # None, ChainsGood(M), MergesTyped(M)
  PROVE  ChainsGood(N)
<1>1. \A x \in Reqs : /\ N[x] = None <=> M[x] = None
                      /\ M[x] # None => /\ N[x].into = M[x].into /\ N[x].main = M[x].main
                                        /\ N[x].chained = M[x].chained
  BY DEF HandedOn
<1>2. \A x \in Reqs : M[x] # None => M[x].main \in Reqs /\ M[x].chained \subseteq Reqs
  BY DEF MergesTyped
<1>3. \A y \in Reqs : N[y] # None => \A z \in N[y].chained :
        /\ z \in Reqs /\ z # y /\ N[z] # None
        /\ N[z].into = N[y].into /\ N[z].main \in N[y].chained \cup {y}
        /\ N[z].chained \subseteq N[y].chained
  <2> SUFFICES ASSUME NEW y \in Reqs, N[y] # None, NEW z \in N[y].chained
               PROVE  /\ z \in Reqs /\ z # y /\ N[z] # None
                      /\ N[z].into = N[y].into /\ N[z].main \in N[y].chained \cup {y}
                      /\ N[z].chained \subseteq N[y].chained
    OBVIOUS
  <2>1. M[y] # None /\ z \in M[y].chained /\ z \in Reqs
    BY <1>1, <1>2
  <2>2. /\ z # y /\ M[z] # None /\ M[z].into = M[y].into /\ M[z].main \in M[y].chained \cup {y}
        /\ M[z].chained \subseteq M[y].chained
    BY <2>1 DEF ChainsGood
  <2> QED BY <1>1, <2>1, <2>2
<1>4. \A y, u \in Reqs : N[y] # None /\ N[u] # None /\ y # u
            /\ N[y].chained \cap N[u].chained # {} => y \in N[u].chained \/ u \in N[y].chained
  <2>1. \A y, u \in Reqs : M[y] # None /\ M[u] # None /\ y # u
            /\ M[y].chained \cap M[u].chained # {} => y \in M[u].chained \/ u \in M[y].chained
    BY DEF ChainsGood
  <2> QED BY <1>1, <2>1
<1>5. \A z \in Reqs : N[z] # None =>
        \/ N[z].main = N[z].into
        \/ N[N[z].main] # None /\ N[N[z].main].into = N[z].into
  <2> SUFFICES ASSUME NEW z \in Reqs, N[z] # None
               PROVE  \/ N[z].main = N[z].into
                      \/ N[N[z].main] # None /\ N[N[z].main].into = N[z].into
    OBVIOUS
  <2>1. M[z].main = M[z].into \/ (M[M[z].main] # None /\ M[M[z].main].into = M[z].into)
    BY <1>1 DEF ChainsGood
  <2> QED BY <1>1, <1>2, <2>1
<1>6. \A z \in Reqs : N[z] # None /\ N[N[z].main] # None => z \in N[N[z].main].chained
  <2>1. \A z \in Reqs : M[z] # None /\ M[M[z].main] # None => z \in M[M[z].main].chained
    BY DEF ChainsGood
  <2> QED BY <1>1, <1>2, <2>1
<1> QED BY <1>3, <1>4, <1>5, <1>6 DEF ChainsGood

LEMMA CandsHanded ==
  ASSUME NEW M, NEW N, NEW K, NEW J, NEW C, NEW X, NEW w, HandedOn(M, N, K, J, C, X, w),
         \A x \in X : M[x] # None, \A c \in C : K[c].undo # None,
         ChainsGood(M), NEW astray, CandsGood(M, K, astray)
  PROVE  CandsGood(N, J, astray)
<1> SUFFICES ASSUME NEW c \in Cands
             PROVE  /\ J[c].undo # None => J[c].status = "merged"
                    /\ \A y \in Reqs : N[y] # None /\ N[y].cands[c] = "claimed" =>
                         J[c].undo = None /\ J[c].status \in {"claimed", "merged"}
                    /\ J[c].undo # None /\ c \notin astray => TakersGood(N, J[c], c)
  BY DEF CandsGood
<1>1. /\ J[c].status = K[c].status /\ J[c].req = K[c].req /\ J[c].at = K[c].at
      /\ J[c].undo = None <=> K[c].undo = None
  BY DEF HandedOn
<1>2. \A x \in Reqs : /\ N[x] = None <=> M[x] = None
                      /\ M[x] # None => /\ N[x].into = M[x].into /\ N[x].cands = M[x].cands
                                        /\ N[x].chained = M[x].chained
  BY DEF HandedOn
<1>3. /\ K[c].undo # None => K[c].status = "merged"
      /\ \A y \in Reqs : M[y] # None /\ M[y].cands[c] = "claimed" =>
            K[c].undo = None /\ K[c].status \in {"claimed", "merged"}
      /\ K[c].undo # None /\ c \notin astray => TakersGood(M, K[c], c)
  BY DEF CandsGood
<1>4. ASSUME J[c].undo # None, c \notin astray PROVE TakersGood(N, J[c], c)
  <2> DEFINE A == Takers(M, K[c], c)
  <2>1. Takers(N, J[c], c) = A
    BY TakersHanded
  <2>2. /\ \A y \in A : K[c].req = M[y].into
        /\ \A y, z \in A : y # z => z \in M[y].chained \/ y \in M[z].chained
        /\ \A y \in A, u \in Reqs : M[u] # None /\ y \in M[u].chained => u \in A
    BY <1>1, <1>3, <1>4 DEF TakersGood
  <2>3. \A y \in A : y \in Reqs /\ M[y] # None
    BY DEF Takers
  <2> HIDE DEF A
  <2>4. /\ \A y \in A : J[c].req = N[y].into
        /\ \A y, z \in A : y # z => z \in N[y].chained \/ y \in N[z].chained
        /\ \A y \in A, u \in Reqs : N[u] # None /\ y \in N[u].chained => u \in A
    BY <1>1, <1>2, <2>2, <2>3
  <2> QED BY <2>1, <2>4 DEF TakersGood
<1> QED BY <1>1, <1>2, <1>3, <1>4

LEMMA RecordsHanded ==
  ASSUME NEW n \in Nat, NEW o, NEW H, NEW M, NEW N, NEW K, NEW J, NEW C, NEW X, NEW w,
         HandedOn(M, N, K, J, C, X, w), TurnsGood(H, o, n), RecordsGood(H, M, K, o, n),
         RecordGood(w, H, o, n), NEW m \in Reqs, H[m].changed = w.at,
         \A x \in X : M[x].main = m
  PROVE  RecordsGood(H, N, J, o, n)
<1>1. ASSUME NEW c \in Cands, NEW g \in CandRecords(J[c]) PROVE RecordGood(g, H, o, n)
  BY <1>1 DEF RecordsGood, HandedOn, CandRecords
<1>2. ASSUME NEW x \in Reqs, NEW g \in MergeRecords(N[x])
      PROVE  /\ RecordGood(g, H, o, n)
             /\ \A u \in H[N[x].main].past : u.changed = g.at => N[x].at < u.at
  <2>1. CASE x \in X
    <3>1. g = w /\ N[x].main = m
      BY <1>2, <2>1 DEF HandedOn, MergeRecords
    <3>2. \A u \in H[m].past : u.changed # w.at
      BY ShiftsTyped DEF TurnsGood
    <3> QED BY <3>1, <3>2
  <2>2. CASE x \notin X
    BY <1>2, <2>2 DEF RecordsGood, HandedOn
  <2> QED BY <2>1, <2>2
<1> QED BY <1>1, <1>2 DEF RecordsGood

(* The merges later than the record: there are some.                       *)
LaterThan(M, K, C, X, w, m) ==
    /\ w # None /\ M[m] = None /\ C \cup X # {}
    /\ \A c \in C : c \in Cands /\ K[c].req = m /\ K[c].undo # None /\ K[c].at > w.at
    /\ \A x \in X : x \in Reqs /\ M[x] # None /\ M[x].main = m
    /\ \A x \in Reqs : x \in X <=> M[x] # None /\ M[x].into = m /\ M[x].main = m /\ M[x].at > w.at
    /\ \A c \in Cands : K[c].at \in Nat
    /\ \A x \in Reqs : M[x] # None => M[x].at \in Nat
Overwritten(K, C, w, l, lost) ==
    l \subseteq lost /\ \A c \in C : \A g \in CandRecords(K[c]) : g.at = w.at \/ g.at \in lost

(* Who has a record keeps it, or loses it to the one handed on; the        *)
(* record handed on has somebody.                                          *)
LEMMA KeptHanded ==
  ASSUME NEW n \in Nat, NEW o, NEW l, NEW H, NEW M, NEW N, NEW K, NEW J, NEW C, NEW X, NEW w,
         NEW astray, HandedOn(M, N, K, J, C, X, w), TurnsGood(H, o, n),
         RecordsGood(H, M, K, o, n), RecordGood(w, H, o, n), ChainsGood(M), MergesTyped(M),
         NEW m \in Reqs, H[m].changed = w.at, LaterThan(M, K, C, X, w, m),
         Kept(H, M, K, o, l \cup {w.at}, astray),
         NEW lost, Overwritten(K, C, w, l, lost)
  PROVE  Kept(H, N, J, o, lost, astray)
<1> SUFFICES ASSUME NEW r \in Reqs, NEW a \in o, a \notin lost, a \in Shifts(H[r])
             PROVE  Carried(N, J, astray, r, a)
  BY DEF Kept
<1>10. a \notin l /\ \A c \in C : \A g \in CandRecords(K[c]) : g.at = w.at \/ g.at \in lost
  BY DEF Overwritten
<1>0. /\ w # None /\ M[m] = None /\ C \cup X # {}
      /\ \A c \in C : c \in Cands /\ K[c].req = m /\ K[c].undo # None /\ K[c].at > w.at
      /\ \A x \in X : x \in Reqs /\ M[x] # None /\ M[x].main = m
      /\ \A x \in Reqs :
            x \in X <=> M[x] # None /\ M[x].into = m /\ M[x].main = m /\ M[x].at > w.at
      /\ \A c \in Cands : K[c].at \in Nat
      /\ \A x \in Reqs : M[x] # None => M[x].at \in Nat
  BY DEF LaterThan
<1>1. \A x \in X : M[x] # None
  BY <1>0
<1>2. \A c \in Cands : Takers(N, J[c], c) = Takers(M, K[c], c)
  BY <1>1, TakersHanded
<1>3. \A x \in Reqs : /\ N[x] = None <=> M[x] = None
                      /\ M[x] # None => N[x].main = M[x].main
  BY <1>1 DEF HandedOn
<1>4. \A c \in Cands, y \in Reqs : Owns(M, K[c], c, y) => Owns(N, J[c], c, y)
  <2> TAKE c \in Cands, y \in Reqs
  <2>1. J[c].req = K[c].req
    BY DEF HandedOn
  <2>2. \A z \in Takers(M, K[c], c) : z \in Reqs /\ M[z] # None
    BY DEF Takers
  <2> QED BY <1>2, <1>3, <2>1, <2>2 DEF Owns
<1>5. /\ TurnGood(H[m], o, n) /\ w.at \in o /\ w \in ReopenRow(n) /\ w.at \in Nat
      /\ \A x, q \in Reqs : x # q => Shifts(H[x]) \cap Shifts(H[q]) \cap o = {}
  BY DEF TurnsGood, RecordGood, ReopenRow, Stamps
<1>7. CASE a = w.at
  <2>1. r = m
    BY <1>5, <1>7 DEF Shifts
  <2>2. CASE X # {}
    <3>1. PICK x \in X : TRUE
      BY <2>2
    <3>2. x \in Reqs /\ N[x].main = m /\ w \in MergeRecords(N[x])
      BY <1>0, <3>1 DEF HandedOn, MergeRecords
    <3> QED BY <1>7, <2>1, <3>2 DEF Carried
  <2>3. CASE X = {}
    <3>1. PICK c \in C : TRUE
      BY <1>0, <2>3
    <3>2. /\ c \in Cands /\ K[c].req = m /\ K[c].at > w.at /\ K[c].at \in Nat
          /\ w \in CandRecords(J[c])
      BY <1>0, <3>1 DEF HandedOn, CandRecords
    <3>3. \A y \in Takers(M, K[c], c) : M[y].main # m
      <4> SUFFICES ASSUME NEW y \in Takers(M, K[c], c), M[y].main = m PROVE FALSE
        OBVIOUS
      <4>1. y \in Reqs /\ M[y] # None /\ K[c].at <= M[y].at
        BY DEF Takers
      <4>2. M[y].into = m
        BY <1>0, <4>1 DEF ChainsGood
      <4>3. M[y].at > w.at /\ M[y].at \in Nat
        BY <1>0, <1>5, <3>2, <4>1
      <4> QED BY <1>0, <2>3, <4>1, <4>2, <4>3
    <3>4. Owns(M, K[c], c, m)
      BY <1>0, <3>2, <3>3 DEF Owns
    <3> QED BY <1>4, <1>7, <2>1, <3>2, <3>4 DEF Carried
  <2> QED BY <2>2, <2>3
<1>8. CASE a # w.at
  <2>1. Carried(M, K, astray, r, a)
    BY <1>8, <1>10 DEF Kept
  <2>2. CASE \E c \in Cands : /\ \E g \in CandRecords(K[c]) : g.at = a
                              /\ (c \in astray \/ Owns(M, K[c], c, r))
    <3>1. PICK c \in Cands : /\ \E g \in CandRecords(K[c]) : g.at = a
                             /\ (c \in astray \/ Owns(M, K[c], c, r))
      BY <2>2
    <3>2. c \notin C
      BY <1>8, <1>10, <3>1
    <3>3. J[c] = K[c]
      BY <3>2 DEF HandedOn
    <3> QED BY <1>4, <3>1, <3>3 DEF Carried
  <2>3. CASE \E x \in Reqs : (\E g \in MergeRecords(M[x]) : g.at = a) /\ M[x].main = r
    <3>1. PICK x \in Reqs : (\E g \in MergeRecords(M[x]) : g.at = a) /\ M[x].main = r
      BY <2>3
    <3>2. CASE x \in X
      <4>1. r = m /\ M[x].at > w.at /\ M[x].at \in Nat
        BY <1>0, <3>1, <3>2
      <4>2. PICK u \in H[m].past : u.changed = a
        BY <1>8, <4>1 DEF Shifts
      <4>3. M[x].at < u.at
        BY <3>1, <4>1, <4>2 DEF RecordsGood
      <4>4. u.at \in Nat /\ u.at <= w.at
        BY <1>5, ShiftsTyped
      <4> QED BY <1>5, <4>1, <4>3, <4>4
    <3>3. CASE x \notin X
      <4>1. N[x] = M[x]
        BY <3>3 DEF HandedOn
      <4> QED BY <3>1, <4>1 DEF Carried
    <3> QED BY <3>2, <3>3
  <2> QED BY <2>1, <2>2, <2>3 DEF Carried
<1> QED BY <1>7, <1>8

-----------------------------------------------------------------------------
(* The record settled when a merge is undone, in the tables of the         *)
(* workbench.                                                              *)

LEMMA PoolTyped ==
  ASSUME NEW p, Good(p)
  PROVE  /\ p.clock \in Nat /\ MergesTyped(p.merges)
         /\ \A c \in Cands : p.cands[c].at \in Nat /\ p.cands[c].at <= p.clock
         /\ \A x \in Reqs : p.merges[x] # None =>
              /\ p.merges[x] \in MergeRow(p.clock)
              /\ p.merges[x].at \in Nat /\ p.merges[x].at <= p.clock
              /\ ~p.reqs[x].here /\ p.reqs[p.merges[x].into].here
              /\ \A c \in Cands : p.merges[x].cands[c] \in {"claimed", "merged", None}
         /\ \A x \in Reqs : p.reqs[x].here => p.merges[x] = None
<1> DEFINE n == p.clock
<1>1. n \in Nat
  BY DEF Good
<1>2. \A c \in Cands : p.cands[c] \in CandRow(n)
  BY RowsOf DEF GoodCand
<1>3. \A x \in Reqs : p.merges[x] # None =>
        p.merges[x] \in MergeRow(n) /\ ~p.reqs[x].here /\ p.reqs[p.merges[x].into].here
  BY RowsOf DEF GoodMerge
<1> HIDE DEF n
<1>4. \A c \in Cands : p.cands[c].at \in Nat /\ p.cands[c].at <= n
  BY <1>1, <1>2 DEF CandRow, Stamps
<1>5. \A x \in Reqs : p.merges[x] # None =>
        /\ p.merges[x].at \in Nat /\ p.merges[x].at <= n
        /\ p.merges[x].main \in Reqs /\ p.merges[x].into \in Reqs
        /\ p.merges[x].chained \subseteq Reqs
        /\ \A c \in Cands : p.merges[x].cands[c] \in {"claimed", "merged", None}
  BY <1>1, <1>3 DEF MergeRow, Stamps
<1> QED BY <1>1, <1>3, <1>4, <1>5 DEF MergesTyped, n

LEMMA SameSettling ==
  ASSUME NEW p, NEW q, NEW lost, SettlingBut(p, lost), q.reqs = p.reqs, q.merges = p.merges,
         q.cands = p.cands, q.opened = p.opened, q.clock = p.clock, q.astray = p.astray
  PROVE  SettlingBut(q, lost)
BY DEF SettlingBut

(* One row replaced.                                                       *)
LEMMA TurnsOne ==
  ASSUME NEW reqs, reqs = [x \in Reqs |-> reqs[x]], NEW merges, NEW r \in Reqs, merges[r] = None,
         NEW k
  PROVE  LET H == Turns(reqs, merges)
             G == Turns([reqs EXCEPT ![r] = k], merges) IN
         G[r] = Turn(k) /\ H[r] = Turn(reqs[r]) /\ \A x \in Reqs \ {r} : G[x] = H[x]
<1> DEFINE new == [reqs EXCEPT ![r] = k]
<1>1. new[r] = k /\ \A x \in Reqs \ {r} : new[x] = reqs[x]
  OBVIOUS
<1> HIDE DEF new
<1>2. /\ Turns(new, merges)[r] = Turn(k) /\ Turns(reqs, merges)[r] = Turn(reqs[r])
      /\ \A x \in Reqs \ {r} : Turns(new, merges)[x] = Turns(reqs, merges)[x]
  BY <1>1 DEF Turns
<1> QED BY <1>2 DEF new

LEMMA TurnAt ==
  ASSUME NEW n, NEW k \in ReqRow(n), NEW s, NEW a
  PROVE  Turn(ReqAt(k, s, a)) = [status |-> s, changed |-> a, past |-> Turn(k).past]
<1> DEFINE d == ReqAt(k, s, a)
<1>1. d.status = s /\ d.changed = a /\ d.undo = k.undo
  BY DEF ReqAt, ReqRow
<1> HIDE DEF d
<1>2. Turn(d) = [status |-> s, changed |-> a, past |-> Turn(k).past]
  BY <1>1 DEF Turn, Past
<1> QED BY <1>2 DEF d

Gone(record) == IF record = None THEN {} ELSE {record.at}

LEMMA HandedSettling ==
  ASSUME NEW p, Good(p), p.clock \in 0 .. MaxClock,
         NEW m \in Reqs, p.merges[m] = None, NEW record, record # None,
         RecordGood(record, Turns(p.reqs, p.merges), p.opened, p.clock),
         p.reqs[m].changed = record.at, SettlingBut(p, p.lapsed \cup {record.at}),
         LaterCands(p, m, record.at) # {} \/ LaterMerges(p, m, record.at) # {}
  PROVE  Settling(Handed(p, LaterCands(p, m, record.at), LaterMerges(p, m, record.at), record))
<1> DEFINE C == LaterCands(p, m, record.at)
           X == LaterMerges(p, m, record.at)
           q == Handed(p, C, X, record)
           M == p.merges
           N == q.merges
           K == p.cands
           J == q.cands
           n == p.clock
           o == p.opened
           l == p.lapsed
           s == p.astray
           lost == q.lapsed
           H == Turns(p.reqs, M)
           G == Turns(q.reqs, N)
<1>1. DOMAIN p = Columns
  BY DEF Good, IsPool
<1>2. q.reqs = p.reqs /\ q.opened = o /\ q.clock = n /\ q.astray = s
  BY <1>1 DEF Columns, Handed
<1>3. q.cands = [c \in Cands |-> IF c \in C THEN GivenCand(p.cands[c], record) ELSE p.cands[c]]
  BY <1>1 DEF Columns, Handed, GivenCand
<1>4. q.merges = [x \in Reqs |-> IF x \in X THEN GivenMerge(p.merges[x], record)
                                 ELSE p.merges[x]]
  BY <1>1 DEF Columns, Handed, GivenMerge
<1>5. lost = l \cup WrittenOver(p, C, record)
  BY <1>1 DEF Columns, Handed
<1> HIDE DEF q
<1>6. C = {c \in Cands : /\ K[c].req = m /\ K[c].undo # None
                         /\ K[c].status = "merged" /\ K[c].at > record.at}
  BY DEF LaterCands
<1>7. X = {x \in Reqs : /\ M[x] # None /\ M[x].into = m /\ M[x].main = m /\ M[x].at > record.at}
  BY DEF LaterMerges, InPlace
<1>8. /\ \A c \in Cands : K[c] \in CandRow(n) /\ K[c].at \in Nat
      /\ \A x \in Reqs : M[x] # None => M[x] \in MergeRow(n) /\ M[x].at \in Nat
      /\ n \in Nat /\ MergesTyped(M)
  BY RowsOf, PoolTyped DEF GoodCand
<1>9. record \in ReopenRow(n)
  BY DEF RecordGood
<1>10. /\ TurnsGood(H, o, n) /\ RecordsGood(H, M, K, o, n) /\ ChainsGood(M) /\ CandsGood(M, K, s)
       /\ Kept(H, M, K, o, l \cup {record.at}, s)
  BY DEF SettlingBut
<1>11. H[m].changed = record.at
  BY DEF Turns, Turn
<1>12. RecordGood(record, H, o, n) /\ M[m] = None /\ (C # {} \/ X # {})
  OBVIOUS
<1>14. n <= MaxClock + 1
  BY <1>8, LinksAssumption
<1> HIDE DEF C, X
<1>13. /\ HandedOn(M, N, K, J, C, X, record)
       /\ \A x \in Reqs : (M[x] = None <=> N[x] = None) /\ (M[x] # None => N[x].row = M[x].row)
  <2>1. ASSUME NEW c \in Cands, c \in C
        PROVE  /\ J[c].status = K[c].status /\ J[c].req = K[c].req
               /\ J[c].at = K[c].at /\ J[c].undo # None /\ J[c].undo.reopen = record
    <3> DEFINE k == K[c]
               u == [k.undo EXCEPT !.reopen = record]
    <3>1. k \in CandRow(n) /\ k.undo \in CandUndo(n)
      BY <1>6, <1>8, <2>1 DEF CandRow
    <3>2. J[c] = [k EXCEPT !.undo = u]
      BY <1>3, <2>1, <3>1 DEF GivenCand, CandRow
    <3>3. u \in CandUndo(n) /\ u.reopen = record
      BY <1>9, <3>1 DEF CandUndo
    <3>4. k.status # "pending" /\ k.undo # None
      BY <1>6, <2>1
    <3>5. u # None
      BY <1>8, <1>14, <3>3, Nulls
    <3> HIDE DEF k, u
    <3> QED BY <3>1, <3>2, <3>3, <3>5 DEF CandRow, k
  <2>2. ASSUME NEW x \in Reqs, x \in X
        PROVE  /\ N[x] # None /\ N[x].into = M[x].into /\ N[x].main = M[x].main
               /\ N[x].at = M[x].at /\ N[x].chained = M[x].chained
               /\ N[x].cands = M[x].cands /\ N[x].reopen = record /\ N[x].row = M[x].row
    <3> DEFINE g == M[x]
               d == GivenMerge(g, record)
    <3>1. g \in MergeRow(n)
      BY <1>7, <1>8, <2>2
    <3>2. N[x] = d
      BY <1>4, <2>2
    <3> HIDE DEF g
    <3>3. /\ d \in MergeRow(n) /\ d.into = g.into /\ d.main = g.main /\ d.at = g.at
          /\ d.chained = g.chained /\ d.cands = g.cands /\ d.reopen = record /\ d.row = g.row
      BY <1>9, <3>1 DEF GivenMerge, MergeRow
    <3> HIDE DEF d
    <3> QED BY <1>8, <1>14, <3>2, <3>3, Nulls DEF g
  <2>3. /\ \A c \in Cands : c \notin C => J[c] = K[c]
        /\ \A x \in Reqs : x \notin X => N[x] = M[x]
    BY <1>3, <1>4
  <2>4. \A x \in X : M[x] # None
    BY <1>7
  <2> HIDE DEF J, K, M, N
  <2> QED BY <2>1, <2>2, <2>3, <2>4 DEF HandedOn
<1>15. G = H
  <2> HIDE DEF N, M
  <2> QED BY <1>2, <1>13 DEF Turns
<1>16. /\ \A x \in X : M[x] # None /\ M[x].main = m
       /\ \A c \in C : K[c].undo # None
  BY <1>6, <1>7
<1>17. /\ l \subseteq lost
       /\ \A c \in C : \A g \in CandRecords(K[c]) : g.at = record.at \/ g.at \in lost
  <2> SUFFICES ASSUME NEW c \in C, NEW g \in CandRecords(K[c]), g.at # record.at
               PROVE  g.at \in WrittenOver(p, C, record)
    BY <1>5
  <2>1. g = K[c].undo.reopen /\ g # None
    BY DEF CandRecords
  <2> QED BY <2>1 DEF WrittenOver
<1> HIDE DEF M, N, K, J, n, o, l, s, lost, H, G
<1>18. RecordsGood(H, N, J, o, n)
  BY <1>8, <1>10, <1>11, <1>12, <1>13, <1>16, RecordsHanded
<1>19. ChainsGood(N)
  BY <1>8, <1>10, <1>13, <1>16, ChainsHanded
<1>20. CandsGood(N, J, s)
  BY <1>10, <1>13, <1>16, CandsHanded
<1>21. Kept(H, N, J, o, lost, s)
  <2>1. LaterThan(M, K, C, X, record, m)
    BY <1>6, <1>7, <1>8, <1>12 DEF LaterThan
  <2>2. Overwritten(K, C, record, l, lost)
    BY <1>17 DEF Overwritten
  <2>3. HandedOn(M, N, K, J, C, X, record)
    BY <1>13
  <2>4. /\ TurnsGood(H, o, n) /\ RecordsGood(H, M, K, o, n) /\ RecordGood(record, H, o, n)
        /\ MergesTyped(M) /\ ChainsGood(M) /\ n \in Nat
        /\ Kept(H, M, K, o, l \cup {record.at}, s)
    BY <1>8, <1>10, <1>12
  <2> QED BY <1>11, <2>1, <2>2, <2>3, <2>4, KeptHanded
<1>22. Settling(q)
  BY <1>2, <1>10, <1>15, <1>18, <1>19, <1>20, <1>21 DEF Settling, SettlingBut, N, J, lost, G
<1> QED BY <1>22 DEF q, C, X

LEMMA ClosedSettling ==
  ASSUME NEW p, Good(p), NEW m \in Reqs, p.merges[m] = None, NEW record,
         RecordGood(record, Turns(p.reqs, p.merges), p.opened, p.clock),
         p.reqs[m].changed = record.at, SettlingBut(p, p.lapsed \cup {record.at})
  PROVE  Settling(ClosedAgain(p, m, record))
<1> DEFINE q == ClosedAgain(p, m, record)
           M == p.merges
           K == p.cands
           n == p.clock
           o == p.opened
           l == p.lapsed
           s == p.astray
           k == p.reqs[m]
           H == Turns(p.reqs, M)
           G == Turns(q.reqs, M)
<1>1. DOMAIN p = Columns /\ p.reqs = [x \in Reqs |-> p.reqs[x]] /\ k \in ReqRow(n)
  BY RowsOf DEF Good, IsPool, GoodTables, GoodReq
<1>2. /\ q.merges = M /\ q.cands = K /\ q.opened = o /\ q.clock = n /\ q.lapsed = l
      /\ q.astray = s
  BY <1>1 DEF Columns, ClosedAgain
<1>3. q.reqs = [p.reqs EXCEPT ![m] = ReqAt(k, record.from, record.changed)]
  <2>1. q.reqs = [p.reqs EXCEPT ![m].status = record.from, ![m].changed = record.changed]
    BY <1>1 DEF Columns, ClosedAgain
  <2> QED BY <1>1, <2>1 DEF ReqAt
<1> HIDE DEF q
<1>4. /\ G[m] = Turn(ReqAt(k, record.from, record.changed)) /\ H[m] = Turn(k)
      /\ \A x \in Reqs \ {m} : G[x] = H[x]
  BY <1>1, <1>3, TurnsOne
<1>5. G[m] = [status |-> record.from, changed |-> record.changed, past |-> H[m].past]
  BY <1>1, <1>4, TurnAt
<1>6. H[m].changed = record.at
  BY <1>4 DEF Turn
<1>7. n \in Nat /\ MergesTyped(M)
  BY PoolTyped
<1>8. /\ TurnsGood(H, o, n) /\ RecordsGood(H, M, K, o, n) /\ ChainsGood(M) /\ CandsGood(M, K, s)
      /\ Kept(H, M, K, o, l \cup {record.at}, s) /\ RecordGood(record, H, o, n)
  BY DEF SettlingBut
<1> HIDE DEF M, K, n, o, l, s, H, G
<1>9. TurnsGood(G, o, n) /\ RecordsGood(G, M, K, o, n) /\ Kept(G, M, K, o, l, s)
  BY <1>4, <1>5, <1>6, <1>7, <1>8, TurnsClosed
<1>10. Settling(q)
  BY <1>2, <1>8, <1>9 DEF Settling, SettlingBut, G
<1> QED BY <1>10 DEF q

LEMMA SettledSettling ==
  ASSUME NEW p, Good(p), p.clock \in 0 .. MaxClock, NEW m \in Reqs, p.merges[m] = None,
         NEW record,
         record # None => RecordGood(record, Turns(p.reqs, p.merges), p.opened, p.clock),
         SettlingBut(p, p.lapsed \cup Gone(record))
  PROVE  Settling(Settled(p, m, record))
<1>1. CASE record = None
  <2>1. p.lapsed \cup Gone(record) = p.lapsed /\ Settled(p, m, record) = p
    BY <1>1 DEF Gone, Settled
  <2> QED BY <2>1 DEF Settling
<1>2. CASE record # None /\ (p.reqs[m].status # "active" \/ p.reqs[m].changed # record.at)
  <2> DEFINE q == [p EXCEPT !.lapsed = @ \cup {record.at}]
  <2>1. Settled(p, m, record) = q
    BY <1>2 DEF Settled
  <2>2. DOMAIN p = Columns
    BY DEF Good, IsPool
  <2>3. /\ q.reqs = p.reqs /\ q.merges = p.merges /\ q.cands = p.cands /\ q.opened = p.opened
        /\ q.clock = p.clock /\ q.astray = p.astray /\ q.lapsed = p.lapsed \cup {record.at}
    BY <2>2 DEF Columns
  <2> HIDE DEF q
  <2>4. SettlingBut(q, q.lapsed)
    BY <1>2, <2>3, SameSettling DEF Gone
  <2> QED BY <2>1, <2>4 DEF Settling
<1>3. CASE record # None /\ ~(p.reqs[m].status # "active" \/ p.reqs[m].changed # record.at)
  <2> DEFINE C == LaterCands(p, m, record.at)
             X == LaterMerges(p, m, record.at)
  <2>1. SettlingBut(p, p.lapsed \cup {record.at})
    BY <1>3 DEF Gone
  <2>2. CASE C = {} /\ X = {}
    <3>1. Settled(p, m, record) = ClosedAgain(p, m, record)
      BY <1>3, <2>2 DEF Settled, ClosedAgain
    <3> QED BY <1>3, <2>1, <3>1, ClosedSettling
  <2>3. CASE ~(C = {} /\ X = {})
    <3>1. Settled(p, m, record) = Handed(p, C, X, record)
      BY <1>3, <2>3 DEF Settled
    <3> QED BY <1>3, <2>1, <2>3, <3>1, HandedSettling
  <2> QED BY <2>2, <2>3
<1> QED BY <1>1, <1>2, <1>3

-----------------------------------------------------------------------------
(* The operations, one at a time.  Those of tasks and meetings leave what  *)
(* is settled alone.                                                       *)
SameBesides(p, q) ==
    /\ q.reqs = p.reqs /\ q.merges = p.merges /\ q.cands = p.cands /\ q.opened = p.opened
    /\ q.clock = p.clock /\ q.lapsed = p.lapsed /\ q.astray = p.astray

LEMMA BesidesSettling ==
  ASSUME NEW p, NEW q, SameBesides(p, q), Settling(p)
  PROVE  Settling(q)
<1>1. SettlingBut(q, p.lapsed)
  BY SameSettling DEF Settling, SameBesides
<1> QED BY <1>1 DEF Settling, SameBesides

LEMMA TasksBeside ==
  ASSUME NEW p, DOMAIN p = Columns, NEW T
  PROVE  SameBesides(p, [p EXCEPT !.tasks = T])
BY DEF SameBesides, Columns

LEMMA TaskOperations ==
  ASSUME NEW p, DOMAIN p = Columns, NEW t
  PROVE  /\ \A l : SameBesides(p, Updated(p, t, l)) /\ SameBesides(p, Confirmed(p, t, l))
         /\ \A r : SameBesides(p, Attached(p, t, r))
         /\ \A s : SameBesides(p, StatusSet(p, t, s))
         /\ SameBesides(p, Rejected(p, t)) /\ SameBesides(p, ReviewUndone(p, t))
         /\ SameBesides(p, CompleteUndone(p, t))
<1>1. \A l : SameBesides(p, Updated(p, t, l))
  BY TasksBeside DEF Updated, PutTasks
<1>2. \A l : SameBesides(p, Confirmed(p, t, l))
  BY TasksBeside DEF Confirmed, PutTasks
<1>3. \A r : SameBesides(p, Attached(p, t, r))
  BY TasksBeside DEF Attached, PutTasks
<1>4. \A s : SameBesides(p, StatusSet(p, t, s))
  BY TasksBeside DEF StatusSet, PutTasks
<1>5. SameBesides(p, Rejected(p, t))
  BY TasksBeside DEF Rejected, PutTasks
<1>6. SameBesides(p, ReviewUndone(p, t))
  BY TasksBeside DEF ReviewUndone, PutTasks
<1>7. SameBesides(p, CompleteUndone(p, t))
  BY TasksBeside DEF CompleteUndone, PutTasks
<1> QED BY <1>1, <1>2, <1>3, <1>4, <1>5, <1>6, <1>7

LEMMA MoveOperations ==
  ASSUME NEW p, DOMAIN p = Columns, NEW q
  PROVE  SameBesides(p, Reassigned(p, q)) /\ SameBesides(p, ReassignUndone(p))
BY DEF SameBesides, Columns, Reassigned, ReassignUndone, PutTasks

LEMMA CountedBeside ==
  ASSUME NEW p, DOMAIN p = Columns
  PROVE  /\ SameBesides(p, [p EXCEPT !.edits = @ + 1])
         /\ SameBesides(p, [p EXCEPT !.moves = @ + 1])
BY DEF SameBesides, Columns

(* A requirement in another project.                                       *)
LEMMA ProjectSettling ==
  ASSUME NEW p, Good(p), Settling(p), NEW r \in Here(p), NEW q
  PROVE  Settling(ProjectChanged(p, r, q))
<1> DEFINE new == ProjectChanged(p, r, q)
           k == [p.reqs[r] EXCEPT !.project = q]
           H == Turns(p.reqs, p.merges)
           G == Turns(new.reqs, p.merges)
<1>1. DOMAIN p = Columns /\ p.reqs = [x \in Reqs |-> p.reqs[x]]
  BY DEF Good, IsPool, GoodTables
<1>2. r \in Reqs /\ p.reqs[r] \in ReqRow(p.clock)
  BY RowTypes DEF Here
<1>3. p.merges[r] = None
  BY <1>2, PoolTyped DEF Here
<1>4. /\ new.merges = p.merges /\ new.cands = p.cands /\ new.opened = p.opened
      /\ new.clock = p.clock /\ new.lapsed = p.lapsed /\ new.astray = p.astray
      /\ new.reqs = [p.reqs EXCEPT ![r] = k]
  BY <1>1 DEF Columns, ProjectChanged, PutTasks
<1> HIDE DEF new
<1>5. Turn(k) = Turn(p.reqs[r])
  <2>1. k.status = p.reqs[r].status /\ k.changed = p.reqs[r].changed /\ k.undo = p.reqs[r].undo
    BY <1>2 DEF ReqRow
  <2> HIDE DEF k
  <2> QED BY <2>1 DEF Turn, Past
<1> HIDE DEF k
<1>6. G[r] = Turn(k) /\ H[r] = Turn(p.reqs[r]) /\ \A x \in Reqs \ {r} : G[x] = H[x]
  BY <1>1, <1>2, <1>3, <1>4, TurnsOne
<1>7. G = [x \in Reqs |-> G[x]] /\ H = [x \in Reqs |-> H[x]]
  BY DEF Turns
<1> HIDE DEF G, H
<1>8. G = H
  BY <1>5, <1>6, <1>7
<1>9. SettlingBut(new, new.lapsed)
  BY <1>4, <1>8 DEF Settling, SettlingBut, G, H
<1> QED BY <1>9 DEF Settling, new

-----------------------------------------------------------------------------
(* A change of a requirement's status, and its undo.                       *)

LEMMA RowsTurned ==
  ASSUME NEW p, Good(p), Settling(p), NEW q, NEW r \in Reqs, p.merges[r] = None, NEW k,
         q.merges = p.merges, q.cands = p.cands, q.opened = p.opened, q.lapsed = p.lapsed,
         q.astray = p.astray, q.reqs = [p.reqs EXCEPT ![r] = k],
         q.clock \in Nat, p.clock <= q.clock, TurnGood(Turn(k), p.opened, q.clock),
         Shifts(Turn(k)) \cap p.opened \subseteq Shifts(Turn(p.reqs[r])),
         Past(k) = {} \/ k.changed \notin p.opened,
         \A x \in Reqs : p.merges[x] # None => \A u \in Past(k) : p.merges[x].at < u.at
  PROVE  Settling(q)
<1> DEFINE M == p.merges
           K == p.cands
           n == p.clock
           o == p.opened
           l == p.lapsed
           s == p.astray
           j == q.clock
           H == Turns(p.reqs, M)
           G == Turns(q.reqs, M)
<1>1. p.reqs = [x \in Reqs |-> p.reqs[x]]
  BY DEF Good, GoodTables
<1>2. M[r] = None /\ MergesTyped(M) /\ n \in Nat
  BY PoolTyped
<1>3. G[r] = Turn(k) /\ H[r] = Turn(p.reqs[r]) /\ \A x \in Reqs \ {r} : G[x] = H[x]
  BY <1>1, <1>2, TurnsOne
<1>4. G[r].past = Past(k) /\ G[r].changed = k.changed
  BY <1>3 DEF Turn
<1>5. /\ TurnsGood(H, o, n) /\ RecordsGood(H, M, K, o, n) /\ ChainsGood(M) /\ CandsGood(M, K, s)
      /\ Kept(H, M, K, o, l, s)
  BY DEF Settling, SettlingBut
<1>6. n <= j /\ j \in Nat
  OBVIOUS
<1> HIDE DEF G, H, M, K, n, o, l, s, j
<1>7. /\ TurnsGood(G, o, j)
      /\ \A g : RecordGood(g, H, o, n) => RecordGood(g, G, o, j)
      /\ \A x \in Reqs : Shifts(G[x]) \cap o \subseteq Shifts(H[x])
  <2>1. TurnedOn(H, G, o, j, r)
    BY <1>3, <1>4 DEF TurnedOn, o, j
  <2> QED BY <1>2, <1>5, <1>6, <2>1, TurnsTurned
<1>8. RecordsGood(G, M, K, o, j)
  <2>1. \A x, y \in Reqs : M[x] # None => \A u \in G[y].past : u \in H[y].past \/ M[x].at < u.at
    BY <1>3, <1>4 DEF M
  <2> QED BY <1>2, <1>5, <1>7, <2>1, RecordsTurned
<1>9. Kept(G, M, K, o, l, s)
  BY <1>5, <1>7, KeptTurned
<1> QED BY <1>5, <1>7, <1>8, <1>9 DEF Settling, SettlingBut, G, M, K, n, o, l, s, j

LEMMA ReqSetSettling ==
  ASSUME NEW p, Good(p), p.clock \in 0 .. MaxClock, Settling(p), NEW r \in Reqs,
         NEW s \in ReqStatuses, NEW close, MaySetReq(p, r, s)
  PROVE  Settling(ReqSet(p, r, s, close))
<1> DEFINE q == ReqSet(p, r, s, close)
           S == Closing(p, r, s, close)
           a == Stamp(p)
           u == StatusUndone(p, r, S)
           old == p.reqs[r]
           k == ReqWith(old, s, a, u)
           n == p.clock
           o == p.opened
<1>1. DOMAIN p = Columns /\ p.reqs[r].here /\ old \in ReqRow(n) /\ n \in Nat
  BY RowTypes DEF MaySetReq, Here
<1>2. /\ IsPool(q) /\ q.merges = p.merges /\ q.cands = p.cands
      /\ q.home = p.home /\ q.move = p.move /\ q.strayed = p.strayed /\ Counts(p, q, 1)
      /\ q.reqs = [p.reqs EXCEPT ![r] = k]
      /\ q.tasks = [t \in Tasks |-> IF t \in S THEN ClosedAt(p.tasks[t], Stamp(p))
                                    ELSE p.tasks[t]]
  BY ReqSetTables
<1>3. /\ q.opened = o /\ q.clock = p.clock + 1 /\ q.lapsed = p.lapsed /\ q.astray = p.astray
  BY <1>1 DEF Columns, ReqSet, PutTasks
<1>4. a = n + 1 /\ a \in Nat /\ n <= a /\ a <= MaxClock + 1
  BY <1>1, LinksAssumption DEF Stamp
<1>5. u # None /\ u.at = a /\ u.status = old.status /\ u.changed = old.changed
  <2>1. u.at = a /\ u.status = old.status /\ u.changed = old.changed
    BY DEF StatusUndone
  <2>2. u \in StatusUndo(a)
    <3>1. old.status \in ReqStatuses /\ old.changed \in Stamps(n)
      BY <1>1 DEF ReqRow
    <3>2. \A t \in Tasks : p.tasks[t].status \in TaskStatuses
      BY RowTypes DEF TaskRow
    <3>3. u.tasks \in [Tasks -> ClosedRow \cup {None}]
      BY <3>2 DEF StatusUndone, ClosedRow
    <3>4. u = [at |-> u.at, status |-> u.status, changed |-> u.changed, tasks |-> u.tasks]
      BY DEF StatusUndone
    <3> HIDE DEF u, old, a
    <3> QED BY <1>1, <1>4, <2>1, <3>1, <3>3, <3>4 DEF StatusUndo, Stamps
  <2>3. u # None
    BY <1>4, <2>2, Nulls
  <2> QED BY <2>1, <2>3
<1> HIDE DEF q, u, S
<1>6. k.status = s /\ k.changed = a /\ k.undo = u
  BY <1>1 DEF ReqWith, ReqRow
<1> HIDE DEF k
<1>7. Past(k) = {[at |-> a, status |-> old.status, changed |-> old.changed]}
  BY <1>5, <1>6 DEF Past
<1>8. /\ Turn(k).status = s /\ Turn(k).changed = a /\ Turn(k).past = Past(k)
      /\ Turn(old).status = old.status /\ Turn(old).changed = old.changed
      /\ Turn(k) = [status |-> s, changed |-> a, past |-> Past(k)]
  BY <1>6 DEF Turn
<1>9. TurnGood(Turn(old), o, n) /\ o \subseteq 1 .. n /\ p.merges[r] = None
  <2>1. p.merges[r] = None /\ TurnsGood(Turns(p.reqs, p.merges), o, n)
    BY <1>1, PoolTyped DEF Settling, SettlingBut
  <2>2. Turns(p.reqs, p.merges)[r] = Turn(old)
    BY <2>1 DEF Turns
  <2> QED BY <2>1, <2>2 DEF TurnsGood
<1>10. old.changed \in Nat /\ old.changed <= n /\ a \notin o
  BY <1>1, <1>4, <1>8, <1>9, ShiftsTyped
<1>11. TurnGood(Turn(k), o, a)
  <2>1. old.status \in ReqStatuses /\ (old.status # "active" => old.changed \notin o)
    BY <1>1, <1>8, <1>9 DEF TurnGood, ReqRow
  <2>2. Past(k) \subseteq PastRow(a)
    BY <1>4, <1>7, <1>10, <2>1 DEF PastRow, Stamps
  <2>3. Turn(k) \in TurnRow(a)
    BY <1>4, <1>8, <2>2 DEF TurnRow, Stamps
  <2>4. old.changed < a
    BY <1>4, <1>10
  <2> HIDE DEF a, o, old
  <2> QED BY <1>4, <1>7, <1>8, <1>10, <2>1, <2>3, <2>4 DEF TurnGood
<1>12. Shifts(Turn(k)) \cap o \subseteq Shifts(Turn(old))
  BY <1>7, <1>8, <1>10 DEF Shifts
<1>13. \A x \in Reqs : p.merges[x] # None => \A v \in Past(k) : p.merges[x].at < v.at
  <2>1. \A x \in Reqs : p.merges[x] # None => p.merges[x].at \in Nat /\ p.merges[x].at <= n
    BY PoolTyped
  <2>2. \A x \in Reqs : p.merges[x] # None => p.merges[x].at < a
    BY <1>1, <1>4, <2>1
  <2> QED BY <1>7, <2>2
<1>14. q.clock \in Nat /\ p.clock <= q.clock /\ q.clock = a
  BY <1>3, <1>4
<1>15. k.changed \notin p.opened
  BY <1>6, <1>10
<1>16. Settling(q)
  BY <1>2, <1>3, <1>9, <1>11, <1>12, <1>13, <1>14, <1>15, RowsTurned
<1> QED BY <1>16 DEF q

LEMMA ReqUndoneSettling ==
  ASSUME NEW p, Good(p), Settling(p), NEW r \in Reqs, MayUndoReq(p, r)
  PROVE  Settling(ReqUndone(p, r))
<1> DEFINE q == ReqUndone(p, r)
           old == p.reqs[r]
           u == old.undo
           k == ReqWith(old, u.status, u.changed, None)
           n == p.clock
           o == p.opened
<1>1. DOMAIN p = Columns /\ old.here /\ old \in ReqRow(n) /\ n \in Nat /\ u # None
  BY RowTypes DEF MayUndoReq, Here
<1>2. q.merges = p.merges /\ q.cands = p.cands /\ q.reqs = [p.reqs EXCEPT ![r] = k]
  BY ReqUndoneTables DEF ReqWith
<1>3. q.opened = o /\ q.clock = n /\ q.lapsed = p.lapsed /\ q.astray = p.astray
  BY <1>1 DEF Columns, ReqUndone
<1> HIDE DEF q
<1>4. k.status = u.status /\ k.changed = u.changed /\ k.undo = None
  BY <1>1 DEF ReqWith, ReqRow
<1> HIDE DEF k
<1>5. Past(k) = {} /\ Turn(k) = [status |-> u.status, changed |-> u.changed, past |-> {}]
  BY <1>4 DEF Turn, Past
<1>6. TurnGood(Turn(old), o, n) /\ p.merges[r] = None
  <2>1. p.merges[r] = None /\ TurnsGood(Turns(p.reqs, p.merges), o, n)
    BY <1>1, PoolTyped DEF Settling, SettlingBut
  <2>2. Turns(p.reqs, p.merges)[r] = Turn(old)
    BY <2>1 DEF Turns
  <2> QED BY <2>1, <2>2 DEF TurnsGood
<1>7. Turn(old).past = {[at |-> u.at, status |-> u.status, changed |-> u.changed]}
  BY <1>1 DEF Turn, Past
<1>8. /\ u.status \in ReqStatuses /\ u.changed \in Stamps(n)
      /\ u.status # "active" => u.changed \notin o
  <2>1. Turn(old).past \subseteq PastRow(n)
    BY <1>6 DEF TurnGood, TurnRow
  <2>2. [at |-> u.at, status |-> u.status, changed |-> u.changed] \in PastRow(n)
    BY <1>7, <2>1
  <2>3. u.status # "active" => u.changed \notin o
    BY <1>6, <1>7 DEF TurnGood
  <2> HIDE DEF u, o
  <2> QED BY <2>2, <2>3 DEF PastRow
<1>9. TurnGood(Turn(k), o, n)
  <2>1. Turn(k) \in TurnRow(n)
    BY <1>5, <1>8 DEF TurnRow
  <2> QED BY <1>5, <1>8, <2>1 DEF TurnGood
<1>10. Shifts(Turn(k)) \cap o \subseteq Shifts(Turn(old))
  BY <1>5, <1>7 DEF Shifts
<1>11. q.clock \in Nat /\ p.clock <= q.clock
  BY <1>1, <1>3
<1>12. Settling(q)
  BY <1>2, <1>3, <1>5, <1>6, <1>9, <1>10, <1>11, RowsTurned
<1> QED BY <1>12 DEF q

-----------------------------------------------------------------------------
(* The operations of candidates: one that has no record afterwards.        *)
CandDone(K, J, c) ==
    /\ c \in Cands /\ J[c].undo = None /\ \A x \in Cands \ {c} : J[x] = K[x]
    /\ K[c].undo # None \/ K[c].status \notin {"claimed", "merged"}

LEMMA CandsDone ==
  ASSUME NEW M, NEW K, NEW J, NEW c, CandDone(K, J, c), NEW s, CandsGood(M, K, s),
         NEW t, s \ {c} \subseteq t
  PROVE  CandsGood(M, J, t)
<1> SUFFICES ASSUME NEW x \in Cands
             PROVE  /\ J[x].undo # None => J[x].status = "merged"
                    /\ \A y \in Reqs : M[y] # None /\ M[y].cands[x] = "claimed" =>
                         J[x].undo = None /\ J[x].status \in {"claimed", "merged"}
                    /\ J[x].undo # None /\ x \notin t => TakersGood(M, J[x], x)
  BY DEF CandsGood
<1>1. /\ K[x].undo # None => K[x].status = "merged"
      /\ \A y \in Reqs : M[y] # None /\ M[y].cands[x] = "claimed" =>
            K[x].undo = None /\ K[x].status \in {"claimed", "merged"}
      /\ K[x].undo # None /\ x \notin s => TakersGood(M, K[x], x)
  BY DEF CandsGood
<1>2. CASE x = c
  BY <1>1, <1>2 DEF CandDone
<1>3. CASE x # c
  BY <1>1, <1>3 DEF CandDone
<1> QED BY <1>2, <1>3

LEMMA RecordsDone ==
  ASSUME NEW M, NEW K, NEW J, NEW c, CandDone(K, J, c), NEW H, NEW o, NEW n,
         RecordsGood(H, M, K, o, n)
  PROVE  RecordsGood(H, M, J, o, n)
<1>1. ASSUME NEW x \in Cands, NEW g \in CandRecords(J[x]) PROVE RecordGood(g, H, o, n)
  BY <1>1 DEF RecordsGood, CandDone, CandRecords
<1> QED BY <1>1 DEF RecordsGood

LEMMA KeptDone ==
  ASSUME NEW M, NEW K, NEW J, NEW c, CandDone(K, J, c), NEW H, NEW o, NEW l, NEW s,
         Kept(H, M, K, o, l, s), NEW t, s \ {c} \subseteq t,
         NEW lost, l \subseteq lost, \A g \in CandRecords(K[c]) : g.at \in lost
  PROVE  Kept(H, M, J, o, lost, t)
<1> SUFFICES ASSUME NEW r \in Reqs, NEW a \in o, a \notin lost, a \in Shifts(H[r])
             PROVE  Carried(M, J, t, r, a)
  BY DEF Kept
<1>1. Carried(M, K, s, r, a)
  BY DEF Kept
<1>2. ASSUME NEW x \in Cands, NEW g \in CandRecords(K[x]), g.at = a,
             x \in s \/ Owns(M, K[x], x, r)
      PROVE  Carried(M, J, t, r, a)
  <2>1. x # c
    BY <1>2
  <2>2. J[x] = K[x] /\ (x \in s => x \in t)
    BY <2>1 DEF CandDone
  <2> QED BY <1>2, <2>2 DEF Carried
<1> QED BY <1>1, <1>2 DEF Carried

LEMMA CandSettling ==
  ASSUME NEW p, Settling(p), NEW q, NEW c, CandDone(p.cands, q.cands, c),
         q.reqs = p.reqs, q.merges = p.merges, q.opened = p.opened, q.clock = p.clock,
         p.astray \ {c} \subseteq q.astray, NEW lost, p.lapsed \subseteq lost,
         \A g \in CandRecords(p.cands[c]) : g.at \in lost
  PROVE  SettlingBut(q, lost)
<1> DEFINE H == Turns(p.reqs, p.merges)
<1>1. /\ TurnsGood(H, p.opened, p.clock) /\ RecordsGood(H, p.merges, p.cands, p.opened, p.clock)
      /\ ChainsGood(p.merges) /\ CandsGood(p.merges, p.cands, p.astray)
      /\ Kept(H, p.merges, p.cands, p.opened, p.lapsed, p.astray)
  BY DEF Settling, SettlingBut
<1>2. H = Turns(q.reqs, q.merges)
  OBVIOUS
<1> HIDE DEF H
<1>3. CandsGood(p.merges, q.cands, q.astray)
  BY <1>1, CandsDone
<1>4. RecordsGood(H, p.merges, q.cands, p.opened, p.clock)
  BY <1>1, RecordsDone
<1>5. Kept(H, p.merges, q.cands, p.opened, lost, q.astray)
  BY <1>1, KeptDone
<1> QED BY <1>1, <1>2, <1>3, <1>4, <1>5 DEF SettlingBut

LEMMA DropSettling ==
  ASSUME NEW p, Good(p), Settling(p), NEW c \in Cands
  PROVE  /\ MayDrop(p, c) => Settling(Dropped(p, c))
         /\ MayRestore(p, c) => Settling(Restored(p, c))
<1>1. /\ DOMAIN p = Columns /\ p.cands = [x \in Cands |-> p.cands[x]]
      /\ p.cands[c].undo # None => p.cands[c].status = "merged"
  BY DEF Good, IsPool, GoodTables, Settling, SettlingBut, CandsGood
<1>2. ASSUME NEW q, NEW k, k.undo = None, q.cands = [p.cands EXCEPT ![c] = k],
             p.cands[c].status \in {"pending", "dropped"},
             q.reqs = p.reqs, q.merges = p.merges, q.opened = p.opened, q.clock = p.clock,
             q.lapsed = p.lapsed, q.astray = p.astray
      PROVE  Settling(q)
  <2>1. CandDone(p.cands, q.cands, c) /\ CandRecords(p.cands[c]) = {}
    BY <1>1, <1>2 DEF CandDone, CandRecords
  <2>2. SettlingBut(q, p.lapsed)
    BY <1>2, <2>1, CandSettling
  <2> QED BY <1>2, <2>2 DEF Settling
<1>3. ASSUME MayDrop(p, c) PROVE Settling(Dropped(p, c))
  <2> DEFINE q == Dropped(p, c)
             k == CandDropped({t \in Tasks : p.tasks[t].cand = c})
  <2>1. /\ q.cands = [p.cands EXCEPT ![c] = k]
        /\ q.reqs = p.reqs /\ q.merges = p.merges /\ q.opened = p.opened /\ q.clock = p.clock
        /\ q.lapsed = p.lapsed /\ q.astray = p.astray
    BY <1>1 DEF Columns, Dropped, PutTasks, CandDropped
  <2>2. k.undo = None
    BY DEF CandDropped, NewCand
  <2>3. p.cands[c].status \in {"pending", "dropped"}
    BY <1>3 DEF MayDrop
  <2> HIDE DEF q, k
  <2>4. Settling(q)
    BY <1>2, <2>1, <2>2, <2>3
  <2> QED BY <2>4 DEF q
<1>4. ASSUME MayRestore(p, c) PROVE Settling(Restored(p, c))
  <2> DEFINE q == Restored(p, c)
  <2>1. /\ q.cands = [p.cands EXCEPT ![c] = NewCand]
        /\ q.reqs = p.reqs /\ q.merges = p.merges /\ q.opened = p.opened /\ q.clock = p.clock
        /\ q.lapsed = p.lapsed /\ q.astray = p.astray
    BY <1>1 DEF Columns, Restored, PutTasks
  <2>2. NewCand.undo = None
    BY DEF NewCand
  <2>3. p.cands[c].status \in {"pending", "dropped"}
    BY <1>4 DEF MayRestore
  <2> HIDE DEF q
  <2>4. Settling(q)
    BY <1>2, <2>1, <2>2, <2>3
  <2> QED BY <2>4 DEF q
<1> QED BY <1>3, <1>4

LEMMA ClaimSettling ==
  ASSUME NEW p, Good(p), Settling(p), NEW c \in Cands, NEW r \in Reqs, NEW q,
         MayClaim(p, c, r)
  PROVE  Settling(Claimed(p, c, r, q))
<1> DEFINE new == Claimed(p, c, r, q)
           row == NewReq(q)
           b == [p EXCEPT !.reqs = [p.reqs EXCEPT ![r] = row]]
           k == CandOf(p.cands[c], "claimed", r)
           o == p.opened
           n == p.clock
<1>1. /\ DOMAIN p = Columns /\ n \in Nat /\ p.merges[r] = None
      /\ p.cands = [x \in Cands |-> p.cands[x]]
  BY DEF Good, IsPool, GoodTables, MayClaim
<1>2. p.cands[c] = NewCand
  BY RowsOf DEF MayClaim, GoodCand
<1>3. /\ new.merges = p.merges /\ new.opened = o /\ new.clock = n
      /\ new.lapsed = p.lapsed /\ new.astray = p.astray
      /\ new.reqs = [p.reqs EXCEPT ![r] = row]
  BY <1>1 DEF Columns, Claimed, HandedOver, PutTasks
<1>4. new.cands = [p.cands EXCEPT ![c] = k]
  BY <1>1 DEF Columns, Claimed, HandedOver, PutTasks, CandOf
<1>5. /\ b.merges = p.merges /\ b.cands = p.cands /\ b.opened = o /\ b.clock = n
      /\ b.lapsed = p.lapsed /\ b.astray = p.astray
      /\ b.reqs = [p.reqs EXCEPT ![r] = row]
  BY <1>1 DEF Columns
<1> HIDE DEF b, new
<1>6. row.status = "active" /\ row.changed = 0 /\ row.undo = None
  BY DEF NewReq, NoReq
<1> HIDE DEF row
<1>7. Past(row) = {} /\ Turn(row) = [status |-> "active", changed |-> 0, past |-> {}]
  BY <1>6 DEF Past, Turn
<1>8. 0 \notin o
  BY DEF Settling, SettlingBut, TurnsGood
<1>9. TurnGood(Turn(row), o, n)
  <2>1. Turn(row) \in TurnRow(n)
    BY <1>1, <1>7 DEF TurnRow, ReqStatuses, Stamps
  <2> QED BY <1>7, <2>1 DEF TurnGood
<1>10. Shifts(Turn(row)) \cap o = {}
  BY <1>7, <1>8 DEF Shifts
<1>11. Settling(b)
  <2>1. b.clock \in Nat /\ p.clock <= b.clock
    BY <1>1, <1>5
  <2>2. Shifts(Turn(row)) \cap p.opened \subseteq Shifts(Turn(p.reqs[r]))
    BY <1>10
  <2> QED BY <1>1, <1>5, <1>7, <1>9, <2>1, <2>2, RowsTurned
<1>12. k.undo = None /\ p.cands[c].undo = None /\ p.cands[c].status = "pending"
  BY <1>2 DEF NewCand, CandOf
<1> HIDE DEF k
<1>13. CandDone(b.cands, new.cands, c) /\ CandRecords(b.cands[c]) = {}
  BY <1>1, <1>4, <1>5, <1>12 DEF CandDone, CandRecords
<1>14. SettlingBut(new, b.lapsed)
  BY <1>3, <1>5, <1>11, <1>13, CandSettling
<1> QED BY <1>3, <1>5, <1>14 DEF Settling, new

LEMMA CandUnmergedSettling ==
  ASSUME NEW p, Good(p), p.clock \in 0 .. MaxClock, Settling(p), NEW c \in Cands,
         MayUnmergeCand(p, c), Good(CandBack(p, c))
  PROVE  Settling(CandUnmerged(p, c))
<1> DEFINE b == CandBack(p, c)
           k == p.cands[c]
           m == k.req
           record == k.undo.reopen
           H == Turns(p.reqs, p.merges)
<1>1. DOMAIN p = Columns /\ p.cands = [x \in Cands |-> p.cands[x]]
  BY DEF Good, IsPool, GoodTables
<1>2. /\ k.undo # None /\ m \in Reqs /\ p.reqs[m].here
  BY RowsOf DEF MayUnmergeCand, GoodCand
<1>3. p.merges[m] = None
  BY <1>2, PoolTyped
<1>4. /\ b.merges = p.merges /\ b.reqs = p.reqs /\ b.opened = p.opened /\ b.clock = p.clock
      /\ b.lapsed = p.lapsed /\ b.cands = [p.cands EXCEPT ![c] = NewCand]
      /\ b.astray = p.astray \ {c}
  BY <1>1 DEF Columns, CandBack
<1>5. CandUnmerged(p, c) = Settled(b, m, record)
  BY DEF CandUnmerged, CandBack
<1> HIDE DEF b, k
<1>6. CandRecords(k) = {record} \ {None}
  BY <1>2 DEF CandRecords
<1>7. record # None => RecordGood(record, H, p.opened, p.clock)
  <2>1. RecordsGood(H, p.merges, p.cands, p.opened, p.clock)
    BY DEF Settling, SettlingBut
  <2> HIDE DEF H, m
  <2> QED BY <1>6, <2>1 DEF RecordsGood, k
<1>8. \A g \in CandRecords(k) : g.at \in p.lapsed \cup Gone(record)
  BY <1>6 DEF Gone
<1>9. CandDone(p.cands, b.cands, c)
  <2>1. NewCand.undo = None
    BY DEF NewCand
  <2> QED BY <1>1, <1>2, <1>4, <2>1 DEF CandDone, k
<1>10. SettlingBut(b, b.lapsed \cup Gone(record))
  <2>1. p.astray \ {c} \subseteq b.astray
    BY <1>4
  <2>2. p.lapsed \subseteq p.lapsed \cup Gone(record)
    OBVIOUS
  <2> HIDE DEF record
  <2>3. SettlingBut(b, p.lapsed \cup Gone(record))
    BY <1>4, <1>8, <1>9, <2>1, <2>2, CandSettling DEF k
  <2> QED BY <1>4, <2>3
<1>11. Good(b)
  BY DEF b
<1>12. Turns(b.reqs, b.merges) = H
  BY <1>4
<1> HIDE DEF H, record, m
<1>13. Settling(Settled(b, m, record))
  BY <1>2, <1>3, <1>4, <1>7, <1>10, <1>11, <1>12, SettledSettling
<1> QED BY <1>5, <1>13

-----------------------------------------------------------------------------
(* A candidate merged into a requirement.                                  *)

LEMMA TurnsLater ==
  ASSUME NEW n \in Nat, NEW k \in Nat, n <= k, NEW o, NEW H, TurnsGood(H, o, n)
  PROVE  TurnsGood(H, o, k) /\ \A g : RecordGood(g, H, o, n) => RecordGood(g, H, o, k)
<1>1. \A r \in Reqs : TurnGood(H[r], o, k)
  BY TurnLater DEF TurnsGood
<1>2. o \subseteq 1 .. k
  BY DEF TurnsGood
<1>3. \A g \in ReopenRow(n) : g \in ReopenRow(k)
  BY LaterRows
<1> QED BY <1>1, <1>2, <1>3 DEF TurnsGood, RecordGood

(* What a merge changes of the requirements: one is reopened, or none.     *)
OpensOr(H, G, m, n, o, s) ==
    \/ G = H /\ s = o
    \/ H[m].status # "active" /\ OpenedTurns(H, G, m, n + 1) /\ s = o \cup {n + 1}

LEMMA TurnsMerged ==
  ASSUME NEW n \in Nat, NEW H, NEW G, NEW o, NEW s, TurnsGood(H, o, n), NEW m \in Reqs,
         OpensOr(H, G, m, n, o, s)
  PROVE  /\ TurnsGood(G, s, n + 1)
         /\ \A g : RecordGood(g, H, o, n) => RecordGood(g, G, s, n + 1)
         /\ G # H \/ s # o => RecordGood(RecordOf(H[m], n + 1), G, s, n + 1)
         /\ \A x \in Reqs : G[x].past = H[x].past
         /\ \A x \in Reqs : Shifts(G[x]) \cap s
                            \subseteq (Shifts(H[x]) \cap o)
                                      \cup (IF x = m /\ s # o THEN {n + 1} ELSE {})
<1>1. n + 1 \in Nat /\ n <= n + 1
  OBVIOUS
<1>2. CASE G = H /\ s = o
  <2>1. TurnsGood(H, o, n + 1) /\ \A g : RecordGood(g, H, o, n) => RecordGood(g, H, o, n + 1)
    BY <1>1, TurnsLater
  <2> QED BY <1>2, <2>1
<1>3. CASE H[m].status # "active" /\ OpenedTurns(H, G, m, n + 1) /\ s = o \cup {n + 1}
  <2>1. s # o
    BY <1>3 DEF TurnsGood
  <2> DEFINE a == n + 1
  <2>2. H[m].status # "active" /\ a = n + 1 /\ OpenedTurns(H, G, m, a) /\ s = o \cup {a}
    BY <1>3
  <2> HIDE DEF a
  <2>3. OpenedGood(H, G, o, n, m, a)
    BY <2>2, TurnsOpened
  <2>4. /\ TurnsGood(G, o \cup {a}, a)
        /\ \A g : RecordGood(g, H, o, n) => RecordGood(g, G, o \cup {a}, a)
        /\ RecordGood(RecordOf(H[m], a), G, o \cup {a}, a)
        /\ \A x \in Reqs : G[x].past = H[x].past
        /\ \A x \in Reqs : Shifts(G[x]) \cap (o \cup {a})
                           \subseteq (Shifts(H[x]) \cap o) \cup (IF x = m THEN {a} ELSE {})
    BY <2>3 DEF OpenedGood
  <2>5. s = o \cup {a}
    BY <2>2
  <2>6. \A x \in Reqs : Shifts(G[x]) \cap s
                         \subseteq (Shifts(H[x]) \cap o)
                                   \cup (IF x = m /\ s # o THEN {a} ELSE {})
    BY <2>1, <2>4, <2>5
  <2>7. TurnsGood(G, s, a) /\ \A g : RecordGood(g, H, o, n) => RecordGood(g, G, s, a)
    BY <2>4, <2>5
  <2>8. RecordGood(RecordOf(H[m], a), G, s, a) /\ \A x \in Reqs : G[x].past = H[x].past
    BY <2>4, <2>5
  <2> QED BY <2>6, <2>7, <2>8 DEF a
<1> QED BY <1>2, <1>3 DEF OpensOr

(* Who had a record has it still, and the new one has somebody.            *)
LEMMA KeptMerged ==
  ASSUME NEW n, NEW o, NEW s, NEW l, NEW H, NEW G, NEW M, NEW N, NEW K, NEW J, NEW astray,
         NEW m, Kept(H, M, K, o, l, astray),
         \A x \in Reqs : Shifts(G[x]) \cap s
                         \subseteq (Shifts(H[x]) \cap o)
                                   \cup (IF x = m /\ s # o THEN {n + 1} ELSE {}),
         \A x \in Reqs, a \in o : Carried(M, K, astray, x, a) => Carried(N, J, astray, x, a),
         s # o => Carried(N, J, astray, m, n + 1)
  PROVE  Kept(G, N, J, s, l, astray)
<1> SUFFICES ASSUME NEW x \in Reqs, NEW a \in s, a \notin l, a \in Shifts(G[x])
             PROVE  Carried(N, J, astray, x, a)
  BY DEF Kept
<1>1. CASE a \in Shifts(H[x]) /\ a \in o
  BY <1>1 DEF Kept
<1>2. CASE x = m /\ s # o /\ a = n + 1
  BY <1>2
<1> QED BY <1>1, <1>2

CandTakenOn(M, K, J, c, r, a) ==
    /\ c \in Cands /\ \A x \in Cands \ {c} : J[x] = K[x]
    /\ K[c].undo = None /\ K[c].status = "pending" /\ M[r] = None
    /\ J[c].status = "merged" /\ J[c].req = r /\ J[c].at = a
    /\ \A y \in Reqs : M[y] # None => ~(a <= M[y].at)

LEMMA CandsTaken ==
  ASSUME NEW M, NEW K, NEW J, NEW c, NEW r, NEW a, CandTakenOn(M, K, J, c, r, a), NEW s,
         CandsGood(M, K, s)
  PROVE  CandsGood(M, J, s) /\ Owns(M, J[c], c, r)
<1>1. Takers(M, J[c], c) = {}
  BY DEF Takers, CandTakenOn
<1>2. Owns(M, J[c], c, r)
  BY <1>1 DEF Owns, CandTakenOn
<1>3. TakersGood(M, J[c], c)
  BY <1>1 DEF TakersGood
<1>4. ASSUME NEW x \in Cands
      PROVE  /\ J[x].undo # None => J[x].status = "merged"
             /\ \A y \in Reqs : M[y] # None /\ M[y].cands[x] = "claimed" =>
                  J[x].undo = None /\ J[x].status \in {"claimed", "merged"}
             /\ J[x].undo # None /\ x \notin s => TakersGood(M, J[x], x)
  <2>1. /\ K[x].undo # None => K[x].status = "merged"
        /\ \A y \in Reqs : M[y] # None /\ M[y].cands[x] = "claimed" =>
              K[x].undo = None /\ K[x].status \in {"claimed", "merged"}
        /\ K[x].undo # None /\ x \notin s => TakersGood(M, K[x], x)
    BY DEF CandsGood
  <2>2. CASE x = c
    BY <1>3, <2>1, <2>2 DEF CandTakenOn
  <2>3. CASE x # c
    BY <2>1, <2>3 DEF CandTakenOn
  <2> QED BY <2>2, <2>3
<1> QED BY <1>2, <1>4 DEF CandsGood

LEMMA CandMergedTables ==
  ASSUME NEW p, Good(p), p.clock \in 0 .. MaxClock, NEW c \in Cands, NEW r \in Reqs,
         MayMergeCand(p, c, r)
  PROVE  LET q == CandMerged(p, c, r)
             a == p.clock + 1
             opens == p.reqs[r].status = "done" IN
         /\ q.merges = p.merges /\ q.clock = a /\ q.lapsed = p.lapsed /\ q.astray = p.astray
         /\ q.opened = IF opens THEN p.opened \cup {a} ELSE p.opened
         /\ q.reqs = IF opens THEN [p.reqs EXCEPT ![r] = ReqAt(p.reqs[r], "active", a)] ELSE p.reqs
         /\ CandTakenOn(p.merges, p.cands, q.cands, c, r, a)
         /\ CandRecords(q.cands[c]) = IF opens THEN {Reopened(p, r)} ELSE {}
<1> DEFINE q == CandMerged(p, c, r)
           a == p.clock + 1
           opens == p.reqs[r].status = "done"
           record == IF opens THEN Reopened(p, r) ELSE None
           u == TakenFrom(p, c, record)
           k == CandTaken(p.cands[c], r, a, u)
<1>1. /\ DOMAIN p = Columns /\ Stamp(p) = a /\ a \in Nat /\ a <= MaxClock + 1
      /\ p.reqs = [x \in Reqs |-> p.reqs[x]] /\ p.cands = [x \in Cands |-> p.cands[x]]
  BY LinksAssumption DEF Good, IsPool, GoodTables, Stamp
<1>2. q.merges = p.merges /\ q.clock = a /\ q.lapsed = p.lapsed /\ q.astray = p.astray
  BY <1>1 DEF Columns, CandMerged, HandedOver, PutTasks
<1>3. q.opened = IF opens THEN p.opened \cup {a} ELSE p.opened
  BY <1>1 DEF Columns, CandMerged, HandedOver, PutTasks
<1>4. q.reqs = IF opens THEN [p.reqs EXCEPT ![r] = ReqAt(p.reqs[r], "active", a)] ELSE p.reqs
  BY <1>1 DEF Columns, CandMerged, HandedOver, PutTasks, ReqAt
<1>5. q.cands = [p.cands EXCEPT ![c] = k]
  BY <1>1 DEF Columns, CandMerged, HandedOver, PutTasks, CandTaken, TakenFrom
<1>6. /\ p.cands[c] = NewCand /\ p.merges[r] = None
      /\ \A y \in Reqs : p.merges[y] # None =>
            p.merges[y].at \in Nat /\ p.merges[y].at <= p.clock
      /\ p.clock \in Nat /\ \A t \in Tasks : p.tasks[t].project \in Somewhere
      /\ p.reqs[r].status \in ReqStatuses /\ p.reqs[r].changed \in Stamps(p.clock)
  <2>1. p.cands[c] = NewCand
    BY RowsOf DEF MayMergeCand, GoodCand
  <2>2. p.merges[r] = None
    BY PoolTyped DEF MayMergeCand, Here
  <2>3. \A t \in Tasks : p.tasks[t].project \in Somewhere
    BY RowTypes DEF TaskRow
  <2>4. p.reqs[r].status \in ReqStatuses /\ p.reqs[r].changed \in Stamps(p.clock)
    BY RowTypes DEF ReqRow
  <2> QED BY <2>1, <2>2, <2>3, <2>4, PoolTyped
<1>7. u # None /\ u.reopen = record /\ (opens => record # None)
  <2>1. Reopened(p, r) \in ReopenRow(a)
    BY <1>1, <1>6 DEF Reopened, ReopenRow, Stamps
  <2>2. record = None \/ record \in ReopenRow(a)
    BY <2>1
  <2>3. Reopened(p, r) # None
    BY <1>1, <2>1, Nulls
  <2>4. opens => record # None
    BY <2>3
  <2> HIDE DEF record, a
  <2>5. u.reopen = record
    BY DEF TakenFrom
  <2>6. \A t \in Tasks : [project |-> p.tasks[t].project] \in Taken
    BY <1>6 DEF Taken
  <2>7. u \in CandUndo(a)
    BY <2>2, <2>6 DEF TakenFrom, CandUndo
  <2>8. u # None
    BY <1>1, <2>7, Nulls
  <2> QED BY <2>4, <2>5, <2>8
<1> HIDE DEF q, u, record
<1>8. k.status = "merged" /\ k.req = r /\ k.at = a /\ k.undo = u
  BY <1>6 DEF CandTaken, NewCand
<1> HIDE DEF k
<1>9. CandTakenOn(p.merges, p.cands, q.cands, c, r, a)
  <2>1. \A y \in Reqs : p.merges[y] # None => ~(a <= p.merges[y].at)
    BY <1>6
  <2>2. p.cands[c].undo = None /\ p.cands[c].status = "pending"
    BY <1>6 DEF NewCand
  <2>3. q.cands[c] = k /\ \A x \in Cands \ {c} : q.cands[x] = p.cands[x]
    BY <1>1, <1>5
  <2> QED BY <1>6, <1>8, <2>1, <2>2, <2>3 DEF CandTakenOn
<1>10. CandRecords(q.cands[c]) = IF opens THEN {Reopened(p, r)} ELSE {}
  <2>1. q.cands[c] = k
    BY <1>1, <1>5
  <2>2. CandRecords(k) = {record} \ {None}
    BY <1>7, <1>8 DEF CandRecords
  <2> QED BY <1>7, <2>1, <2>2 DEF record
<1> QED BY <1>2, <1>3, <1>4, <1>9, <1>10 DEF q

LEMMA CandMergedSettling ==
  ASSUME NEW p, Good(p), p.clock \in 0 .. MaxClock, Settling(p), NEW c \in Cands,
         NEW r \in Reqs, MayMergeCand(p, c, r)
  PROVE  Settling(CandMerged(p, c, r))
<1> DEFINE q == CandMerged(p, c, r)
           M == p.merges
           K == p.cands
           J == q.cands
           n == p.clock
           a == n + 1
           o == p.opened
           s == q.opened
           l == p.lapsed
           t == p.astray
           opens == p.reqs[r].status = "done"
           row == ReqAt(p.reqs[r], "active", a)
           H == Turns(p.reqs, M)
           G == Turns(q.reqs, M)
<1>1. /\ q.merges = M /\ q.clock = a /\ q.lapsed = l /\ q.astray = t
      /\ s = IF opens THEN o \cup {a} ELSE o
      /\ q.reqs = IF opens THEN [p.reqs EXCEPT ![r] = row] ELSE p.reqs
      /\ CandTakenOn(M, K, J, c, r, a)
      /\ CandRecords(J[c]) = IF opens THEN {Reopened(p, r)} ELSE {}
  BY CandMergedTables
<1> HIDE DEF q
<1>2. /\ TurnsGood(H, o, n) /\ RecordsGood(H, M, K, o, n) /\ ChainsGood(M) /\ CandsGood(M, K, t)
      /\ Kept(H, M, K, o, l, t)
  BY DEF Settling, SettlingBut
<1>3. n \in Nat /\ MergesTyped(M) /\ M[r] = None
  BY <1>1, PoolTyped DEF CandTakenOn
<1>4. p.reqs = [x \in Reqs |-> p.reqs[x]] /\ p.reqs[r] \in ReqRow(n)
  BY RowTypes DEF Good, GoodTables
<1>5. OpensOr(H, G, r, n, o, s) /\ (opens => Reopened(p, r) = RecordOf(H[r], a) /\ s # o)
  <2>1. CASE ~opens
    BY <1>1, <2>1 DEF OpensOr
  <2>2. CASE opens
    <3>1. q.reqs = [p.reqs EXCEPT ![r] = row]
      BY <1>1, <2>2
    <3>2. G[r] = Turn(row) /\ H[r] = Turn(p.reqs[r]) /\ \A x \in Reqs \ {r} : G[x] = H[x]
      BY <1>3, <1>4, <3>1, TurnsOne
    <3>3. Turn(row) = [status |-> "active", changed |-> a, past |-> H[r].past]
      BY <1>4, <3>2, TurnAt
    <3>4. OpenedTurns(H, G, r, n + 1)
      BY <3>2, <3>3 DEF OpenedTurns
    <3>5. H[r].status = "done" /\ H[r].changed = p.reqs[r].changed
      BY <2>2, <3>2 DEF Turn
    <3>6. Reopened(p, r) = RecordOf(H[r], a)
      BY <2>2, <3>5 DEF Reopened, RecordOf, Stamp
    <3>7. s = o \cup {n + 1} /\ s # o
      BY <1>1, <1>2, <1>3, <2>2 DEF TurnsGood
    <3> HIDE DEF G, H, s, o, n
    <3> QED BY <3>4, <3>5, <3>6, <3>7 DEF OpensOr
  <2> QED BY <2>1, <2>2
<1> HIDE DEF M, K, J, n, o, s, l, t, opens, H, G
<1>6. /\ TurnsGood(G, s, n + 1)
      /\ \A g : RecordGood(g, H, o, n) => RecordGood(g, G, s, n + 1)
      /\ G # H \/ s # o => RecordGood(RecordOf(H[r], n + 1), G, s, n + 1)
      /\ \A x \in Reqs : G[x].past = H[x].past
      /\ \A x \in Reqs : Shifts(G[x]) \cap s
                         \subseteq (Shifts(H[x]) \cap o)
                                   \cup (IF x = r /\ s # o THEN {n + 1} ELSE {})
  BY <1>2, <1>3, <1>5, TurnsMerged
<1>7. CandsGood(M, J, t) /\ Owns(M, J[c], c, r)
  BY <1>1, <1>2, CandsTaken
<1>8. c \in Cands /\ K[c].undo = None /\ \A x \in Cands \ {c} : J[x] = K[x]
  BY <1>1 DEF CandTakenOn
<1>9. RecordsGood(G, M, J, s, a)
  <2>1. \A x, y \in Reqs : M[x] # None => \A u \in G[y].past : u \in H[y].past \/ M[x].at < u.at
    BY <1>6
  <2>2. RecordsGood(G, M, K, s, a)
    BY <1>2, <1>3, <1>6, <2>1, RecordsTurned
  <2>3. ASSUME NEW x \in Cands, NEW g \in CandRecords(J[x]) PROVE RecordGood(g, G, s, a)
    <3>1. CASE x = c
      BY <1>1, <1>5, <1>6, <2>3, <3>1
    <3>2. CASE x # c
      BY <1>8, <2>2, <2>3, <3>2 DEF RecordsGood
    <3> QED BY <3>1, <3>2
  <2> QED BY <2>2, <2>3 DEF RecordsGood
<1>10. Kept(G, M, J, s, l, t)
  <2>1. ASSUME NEW x \in Reqs, NEW b \in o, Carried(M, K, t, x, b) PROVE Carried(M, J, t, x, b)
    <3>1. CandRecords(K[c]) = {}
      BY <1>8 DEF CandRecords
    <3>2. ASSUME NEW d \in Cands, NEW g \in CandRecords(K[d]), g.at = b,
                 d \in t \/ Owns(M, K[d], d, x)
          PROVE  Carried(M, J, t, x, b)
      <4>1. J[d] = K[d]
        BY <1>8, <3>1, <3>2
      <4> QED BY <3>2, <4>1 DEF Carried
    <3> QED BY <2>1, <3>2 DEF Carried
  <2>2. ASSUME s # o PROVE Carried(M, J, t, r, a)
    <3>1. opens
      BY <1>1, <2>2
    <3>2. Reopened(p, r) \in CandRecords(J[c]) /\ Reopened(p, r).at = a
      BY <1>1, <1>5, <3>1 DEF RecordOf
    <3> QED BY <1>7, <1>8, <3>2 DEF Carried
  <2> HIDE DEF a
  <2> QED BY <1>2, <1>6, <2>1, <2>2, KeptMerged DEF a
<1>11. TurnsGood(G, s, a) /\ ChainsGood(M)
  BY <1>2, <1>6
<1> HIDE DEF a
<1>12. Settling(q)
  BY <1>1, <1>7, <1>9, <1>10, <1>11 DEF Settling, SettlingBut, G, M, J, s, l, t
<1> QED BY <1>12 DEF q

-----------------------------------------------------------------------------
(* A requirement merged into another one.                                  *)

LEMMA MergedBesides ==
  ASSUME NEW p, Good(p), NEW r, NEW m
  PROVE  LET q == Merged(p, r, m) IN
         /\ q.lapsed = p.lapsed /\ q.astray = p.astray
         /\ q.opened = IF Opens(p, r, m) THEN p.opened \cup {p.clock + 1} ELSE p.opened
<1> DEFINE q == Merged(p, r, m)
           b == PointedTo(p, TasksAt(p, r), r, m, p.reqs[m].project, ConfirmedFrom(p, r))
           cands == [c \in Cands |-> IF c \in TakenBy(p, r)
                        THEN [p.cands[c] EXCEPT !.req = m, !.status = "merged"] ELSE p.cands[c]]
           merges == [x \in Reqs |-> IF x = r THEN MergeRecord(p, r, m)
                        ELSE IF x \in ChainedBy(p, r) THEN [p.merges[x] EXCEPT !.into = m]
                        ELSE p.merges[x]]
           reqs == [x \in Reqs |-> IF x = r THEN NoReq
                      ELSE IF x = m /\ Opens(p, r, m) THEN ReqAt(p.reqs[m], "active", Stamp(p))
                      ELSE p.reqs[x]]
<1>1. q = [b EXCEPT !.cands = cands, !.merges = merges, !.reqs = reqs,
                    !.opened = IF Opens(p, r, m) THEN @ \cup {Stamp(p)} ELSE @,
                    !.clock = @ + 1]
  BY DEF Merged, PointedTo, MergeRecord, TakenBy, ChainedBy, Opens, ReqAt
<1>2. DOMAIN p = Columns
  BY DEF Good, IsPool
<1>3. DOMAIN b = Columns /\ b.opened = p.opened /\ b.lapsed = p.lapsed /\ b.astray = p.astray
  BY <1>2 DEF PointedTo, Columns, Repointed, PutTasks
<1> HIDE DEF q, b, cands, merges, reqs
<1>4. /\ q.lapsed = p.lapsed /\ q.astray = p.astray
      /\ q.opened = IF Opens(p, r, m) THEN p.opened \cup {Stamp(p)} ELSE p.opened
  BY <1>1, <1>3 DEF Columns
<1> QED BY <1>4 DEF q, Stamp

LEMMA MergedColumns ==
  ASSUME NEW p, Good(p), NEW r \in Reqs, NEW m \in Reqs, MayMerge(p, r, m)
  PROVE  LET q == Merged(p, r, m) IN
         /\ q.cands = CandsTo(p.cands, TakenBy(p, r), m, [c \in Cands |-> "merged"])
         /\ q.merges = [ChainedTo(p.merges, ChainedBy(p, r), m) EXCEPT ![r] = MergeRecord(p, r, m)]
         /\ q.reqs = [[p.reqs EXCEPT ![m] = MainRow(p, r, m)] EXCEPT ![r] = NoReq]
         /\ q.clock = p.clock + 1
<1> DEFINE q == Merged(p, r, m)
           M == Moving(p, r, m)
           C == Pointing(M, ConfirmedFrom(p, r), r)
<1>1. r # m
  BY DEF MayMerge
<1>2. /\ IsPool(q) /\ q.home = p.home /\ q.move = p.move /\ q.strayed = p.strayed
      /\ Counts(p, q, 1)
      /\ q.tasks = RepointedTo(M, C, m)
      /\ q.cands = CandsTo(p.cands, TakenBy(p, r), m, [c \in Cands |-> "merged"])
      /\ q.merges = [ChainedTo(p.merges, ChainedBy(p, r), m) EXCEPT ![r] = MergeRecord(p, r, m)]
      /\ q.reqs = [[p.reqs EXCEPT ![m] = MainRow(p, r, m)] EXCEPT ![r] = NoReq]
  BY <1>1, MergedTables
<1> HIDE DEF q
<1> QED BY <1>2 DEF Counts, q

LEMMA MergedPlaces ==
  ASSUME NEW p, Good(p), p.clock \in 0 .. MaxClock, NEW r \in Reqs, NEW m \in Reqs,
         MayMerge(p, r, m)
  PROVE  LET q == Merged(p, r, m) IN
         /\ MergesOn(p.merges, q.merges, r, m) /\ CandsOn(p.cands, q.cands, r, m)
         /\ TakenOn(q.merges, p.cands, r)
         /\ q.merges[r].at = p.clock + 1 /\ q.merges[r].row = p.reqs[r]
         /\ q.merges[r].reopen = IF Opens(p, r, m) THEN Reopened(p, m) ELSE None
<1> DEFINE q == Merged(p, r, m)
           M == p.merges
           N == q.merges
           K == p.cands
           J == q.cands
           n == p.clock
           a == n + 1
           g == MergeRecord(p, r, m)
           X == ChainedBy(p, r)
<1>1. /\ n \in Nat /\ a \in Nat /\ a <= MaxClock + 1 /\ n <= MaxClock + 1 /\ Stamp(p) = a
      /\ r # m /\ p.reqs[r].here /\ p.reqs[m].here
  BY LinksAssumption DEF Good, MayMerge, Here, Stamp
<1>2. /\ M[r] = None /\ M[m] = None /\ \A x \in Reqs : M[x] # None => M[x] \in MergeRow(n)
      /\ \A c \in Cands : K[c].at \in Nat /\ K[c].at <= n /\ K[c] \in CandRow(n)
  <2>1. /\ \A c \in Cands : p.cands[c].at \in Nat /\ p.cands[c].at <= p.clock
        /\ \A x \in Reqs : p.merges[x] # None => p.merges[x] \in MergeRow(p.clock)
        /\ \A x \in Reqs : p.reqs[x].here => p.merges[x] = None
    BY PoolTyped
  <2>2. \A c \in Cands : p.cands[c] \in CandRow(p.clock)
    BY RowTypes
  <2>3. p.merges[r] = None /\ p.merges[m] = None
    BY <1>1, <2>1
  <2> QED BY <2>1, <2>2, <2>3
<1>3. /\ N = [ChainedTo(M, X, m) EXCEPT ![r] = g]
      /\ J = CandsTo(K, TakenBy(p, r), m, [c \in Cands |-> "merged"])
  <2>1. /\ q.cands = CandsTo(p.cands, TakenBy(p, r), m, [c \in Cands |-> "merged"])
        /\ q.merges = [ChainedTo(p.merges, ChainedBy(p, r), m) EXCEPT ![r] = MergeRecord(p, r, m)]
        /\ q.reqs = [[p.reqs EXCEPT ![m] = MainRow(p, r, m)] EXCEPT ![r] = NoReq]
        /\ q.clock = p.clock + 1
    BY MergedColumns
  <2> HIDE DEF q
  <2> QED BY <2>1
<1> HIDE DEF q
<1>4. N[r] = g /\ \A x \in Reqs \ {r} : N[x] = IF x \in X THEN [M[x] EXCEPT !.into = m] ELSE M[x]
  BY <1>3 DEF ChainedTo
<1>5. g # None
  <2>1. Stamp(p) \in Stamps(a) /\ n <= a
    BY <1>1 DEF Stamps
  <2>2. GoodReq(p.reqs[r], a) /\ GoodReq(p.reqs[m], a)
    BY <1>1, <2>1, RowsOf, LaterRows DEF GoodReq
  <2>3. g \in MergeRow(a)
    BY <1>1, <2>1, <2>2, MergeRecordGood
  <2> QED BY <1>1, <2>3, Nulls
<1>6. /\ g.main = m /\ g.into = m /\ g.at = a /\ g.row = p.reqs[r]
      /\ g.chained = {x \in Reqs : M[x] # None /\ M[x].into = r}
      /\ g.reopen = IF Opens(p, r, m) THEN Reopened(p, m) ELSE None
      /\ g.cands = [c \in Cands |-> IF c \in Taking(K, r) THEN K[c].status ELSE None]
  BY <1>1 DEF MergeRecord, ChainedBy, Taking, TakenBy
<1>7. \A x \in Reqs : M[x] # None => (x \in X <=> M[x].into = r)
  BY DEF ChainedBy
<1>8. \A x \in Reqs : x \in X => M[x] # None
  BY DEF ChainedBy
<1> HIDE DEF g, X
<1>9. \A x \in Reqs \ {r} :
        /\ StaysMerged(M[x], N[x])
        /\ M[x] # None => N[x].into = IF M[x].into = r THEN m ELSE M[x].into
  <2> TAKE x \in Reqs \ {r}
  <2> DEFINE f == M[x]
             d == [f EXCEPT !.into = m]
  <2>1. CASE x \in X
    <3>1. N[x] = d /\ f \in MergeRow(n) /\ f.into = r /\ f # None
      BY <1>2, <1>4, <1>7, <1>8, <2>1
    <3> HIDE DEF f
    <3>2. d \in MergeRow(n)
      BY <3>1 DEF MergeRow
    <3>3. /\ d.main = f.main /\ d.at = f.at /\ d.chained = f.chained /\ d.cands = f.cands
          /\ d.reopen = f.reopen /\ d.row = f.row /\ d.into = m
      BY <3>1 DEF MergeRow
    <3>4. d # None
      BY <1>1, <3>2, Nulls
    <3> HIDE DEF d
    <3> QED BY <3>1, <3>3, <3>4 DEF StaysMerged, f
  <2>2. CASE x \notin X
    BY <1>4, <1>7, <2>2 DEF StaysMerged
  <2> QED BY <2>1, <2>2
<1>10. MergesOn(M, N, r, m)
  BY <1>1, <1>2, <1>4, <1>5, <1>6, <1>9 DEF MergesOn
<1>11. CandsOn(K, J, r, m)
  <2> SUFFICES ASSUME NEW c \in Cands
               PROVE  /\ SameRecord(K[c], J[c])
                      /\ c \in Taking(K, r) => J[c].req = m /\ J[c].status = "merged"
                      /\ c \notin Taking(K, r) => J[c].req = K[c].req /\ J[c].status = K[c].status
    BY DEF CandsOn
  <2>1. c \in Taking(K, r) <=> c \in TakenBy(p, r)
    BY DEF Taking, TakenBy
  <2>2. J[c] = IF c \in TakenBy(p, r) THEN [K[c] EXCEPT !.req = m, !.status = "merged"] ELSE K[c]
    BY <1>3 DEF CandsTo
  <2>3. K[c] \in CandRow(n)
    BY <1>2
  <2> HIDE DEF K, J
  <2> QED BY <2>1, <2>2, <2>3 DEF CandRow, SameRecord
<1>12. TakenOn(N, K, r)
  BY <1>1, <1>2, <1>4, <1>6 DEF TakenOn
<1> QED BY <1>4, <1>6, <1>10, <1>11, <1>12 DEF q

LEMMA MergedTurns ==
  ASSUME NEW p, Good(p), p.clock \in 0 .. MaxClock, NEW r \in Reqs, NEW m \in Reqs,
         MayMerge(p, r, m), TurnsGood(Turns(p.reqs, p.merges), p.opened, p.clock)
  PROVE  LET q == Merged(p, r, m)
             H == Turns(p.reqs, p.merges) IN
         /\ OpensOr(H, Turns(q.reqs, q.merges), m, p.clock, p.opened, q.opened)
         /\ q.merges[r].reopen = IF q.opened # p.opened THEN RecordOf(H[m], p.clock + 1) ELSE None
<1> DEFINE q == Merged(p, r, m)
           M == p.merges
           N == q.merges
           n == p.clock
           a == n + 1
           o == p.opened
           s == q.opened
           H == Turns(p.reqs, M)
           G == Turns(q.reqs, N)
           row == MainRow(p, r, m)
           opens == Opens(p, r, m)
<1>1. /\ MergesOn(M, N, r, m) /\ N[r].row = p.reqs[r]
      /\ N[r].reopen = IF opens THEN Reopened(p, m) ELSE None
  <2>1. /\ MergesOn(p.merges, q.merges, r, m) /\ CandsOn(p.cands, q.cands, r, m)
        /\ TakenOn(q.merges, p.cands, r)
        /\ q.merges[r].at = p.clock + 1 /\ q.merges[r].row = p.reqs[r]
        /\ q.merges[r].reopen = IF Opens(p, r, m) THEN Reopened(p, m) ELSE None
    BY MergedPlaces
  <2> HIDE DEF q
  <2> QED BY <2>1
<1>2. q.reqs = [[p.reqs EXCEPT ![m] = row] EXCEPT ![r] = NoReq]
  <2>1. /\ q.cands = CandsTo(p.cands, TakenBy(p, r), m, [c \in Cands |-> "merged"])
        /\ q.merges = [ChainedTo(p.merges, ChainedBy(p, r), m) EXCEPT ![r] = MergeRecord(p, r, m)]
        /\ q.reqs = [[p.reqs EXCEPT ![m] = MainRow(p, r, m)] EXCEPT ![r] = NoReq]
        /\ q.clock = p.clock + 1
    BY MergedColumns
  <2> HIDE DEF q
  <2> QED BY <2>1
<1>3. s = IF opens THEN o \cup {a} ELSE o
  BY MergedBesides
<1>4. p.reqs = [x \in Reqs |-> p.reqs[x]] /\ p.reqs[m] \in ReqRow(n) /\ n \in Nat /\ Stamp(p) = a
  BY RowTypes DEF Good, GoodTables, Stamp
<1> HIDE DEF q
<1>5. /\ M[r] = None /\ M[m] = None /\ N[m] = None /\ r # m /\ N[r] # None
      /\ \A x \in Reqs \ {r} : /\ M[x] = None <=> N[x] = None
                               /\ M[x] # None => N[x].row = M[x].row
  BY <1>1 DEF MergesOn, StaysMerged
<1>6. q.reqs[m] = row /\ \A x \in Reqs \ {r, m} : q.reqs[x] = p.reqs[x]
  BY <1>2, <1>4, <1>5
<1>7. G[m] = Turn(row) /\ H[m] = Turn(p.reqs[m]) /\ \A x \in Reqs \ {m} : G[x] = H[x]
  <2> HIDE DEF row, M, N
  <2>1. \A x \in Reqs \ {r, m} : G[x] = H[x]
    BY <1>5, <1>6 DEF Turns
  <2>2. G[r] = H[r]
    BY <1>1, <1>5 DEF Turns
  <2>3. G[m] = Turn(row) /\ H[m] = Turn(p.reqs[m])
    BY <1>5, <1>6 DEF Turns
  <2> QED BY <2>1, <2>2, <2>3
<1>8. G = [x \in Reqs |-> G[x]] /\ H = [x \in Reqs |-> H[x]]
  BY DEF Turns
<1> HIDE DEF G, H, M, N
<1>9. CASE ~opens
  <2>1. row = p.reqs[m]
    BY <1>9 DEF MainRow
  <2>2. G = H
    BY <1>7, <1>8, <2>1
  <2> QED BY <1>1, <1>3, <1>9, <2>2 DEF OpensOr, G, H, q, M, N
<1>10. CASE opens
  <2>1. row = ReqAt(p.reqs[m], "active", a)
    BY <1>4, <1>10 DEF MainRow
  <2>2. G[m] = [status |-> "active", changed |-> a, past |-> H[m].past]
    BY <1>4, <1>7, <2>1, TurnAt
  <2>3. OpenedTurns(H, G, m, a)
    BY <1>7, <2>2 DEF OpenedTurns
  <2>4. /\ H[m].status = p.reqs[m].status /\ H[m].changed = p.reqs[m].changed
        /\ p.reqs[m].status # "active"
    BY <1>7, <1>10 DEF Turn, Opens
  <2>5. Reopened(p, m) = RecordOf(H[m], a)
    BY <1>4, <2>4 DEF Reopened, RecordOf
  <2>6. TurnsGood(H, o, n)
    BY DEF H, M
  <2>7. s = o \cup {a} /\ s # o
    BY <1>3, <1>4, <1>10, <2>6 DEF TurnsGood
  <2>8. OpensOr(H, G, m, n, o, s)
    BY <2>3, <2>4, <2>7 DEF OpensOr
  <2>9. N[r].reopen = IF s # o THEN RecordOf(H[m], a) ELSE None
    BY <1>1, <1>10, <2>5, <2>7
  <2> QED BY <2>8, <2>9 DEF G, H, q, M, N
<1> QED BY <1>9, <1>10

LEMMA RecordsOn ==
  ASSUME NEW n \in Nat, NEW H, NEW G, NEW o, NEW s, NEW M, NEW N, NEW K, NEW J, NEW r, NEW m,
         MergesOn(M, N, r, m), CandsOn(K, J, r, m), TurnsGood(H, o, n), MergesTyped(M),
         RecordsGood(H, M, K, o, n), OpensOr(H, G, m, n, o, s),
         N[r].reopen = IF s # o THEN RecordOf(H[m], n + 1) ELSE None
  PROVE  RecordsGood(G, N, J, s, n + 1)
<1>1. m \in Reqs /\ r \in Reqs /\ N[r] # None /\ N[r].main = m /\ M[r] = None
  BY DEF MergesOn
<1>2. /\ \A g : RecordGood(g, H, o, n) => RecordGood(g, G, s, n + 1)
      /\ G # H \/ s # o => RecordGood(RecordOf(H[m], n + 1), G, s, n + 1)
      /\ \A x \in Reqs : G[x].past = H[x].past
  <2>1. /\ TurnsGood(G, s, n + 1)
        /\ \A g : RecordGood(g, H, o, n) => RecordGood(g, G, s, n + 1)
        /\ G # H \/ s # o => RecordGood(RecordOf(H[m], n + 1), G, s, n + 1)
        /\ \A x \in Reqs : G[x].past = H[x].past
        /\ \A x \in Reqs : Shifts(G[x]) \cap s
                           \subseteq (Shifts(H[x]) \cap o)
                                     \cup (IF x = m /\ s # o THEN {n + 1} ELSE {})
    BY <1>1, TurnsMerged
  <2> QED BY <2>1
<1>3. ASSUME NEW c \in Cands, NEW g \in CandRecords(J[c]) PROVE RecordGood(g, G, s, n + 1)
  <2>1. CandRecords(J[c]) = CandRecords(K[c])
    BY DEF CandsOn, SameRecord, CandRecords
  <2> QED BY <1>2, <1>3, <2>1 DEF RecordsGood
<1>4. ASSUME NEW x \in Reqs, NEW g \in MergeRecords(N[x])
      PROVE  /\ RecordGood(g, G, s, n + 1)
             /\ \A u \in G[N[x].main].past : u.changed = g.at => N[x].at < u.at
  <2>1. CASE x = r
    <3>1. g = RecordOf(H[m], n + 1) /\ s # o /\ g.at = n + 1
      BY <1>1, <1>4, <2>1 DEF MergeRecords, RecordOf
    <3>2. TurnGood(H[m], o, n)
      BY <1>1 DEF TurnsGood
    <3>3. \A u \in H[m].past : u.changed # n + 1
      BY <3>2, ShiftsTyped
    <3> QED BY <1>1, <1>2, <2>1, <3>1, <3>3
  <2>2. CASE x # r
    <3>1. /\ N[x].main = M[x].main /\ N[x].at = M[x].at /\ M[x] # None
          /\ MergeRecords(N[x]) = MergeRecords(M[x])
      BY <1>4, <2>2 DEF MergesOn, StaysMerged, MergeRecords
    <3>2. M[x].main \in Reqs
      BY <3>1 DEF MergesTyped
    <3>3. /\ RecordGood(g, H, o, n)
          /\ \A u \in H[M[x].main].past : u.changed = g.at => M[x].at < u.at
      BY <1>4, <3>1 DEF RecordsGood
    <3> QED BY <1>2, <3>1, <3>2, <3>3
  <2> QED BY <2>1, <2>2
<1> QED BY <1>3, <1>4 DEF RecordsGood

LEMMA CarriedOn ==
  ASSUME NEW M, NEW N, NEW K, NEW J, NEW r, NEW m, NEW t,
         MergesOn(M, N, r, m), CandsOn(K, J, r, m), TakenOn(N, K, r), CandsGood(M, K, t),
         NEW x \in Reqs, NEW b, Carried(M, K, t, x, b)
  PROVE  Carried(N, J, t, x, b)
<1>1. ASSUME NEW c \in Cands, NEW g \in CandRecords(K[c]), g.at = b,
             c \in t \/ Owns(M, K[c], c, x)
      PROVE  Carried(N, J, t, x, b)
  <2>1. CandRecords(J[c]) = CandRecords(K[c]) /\ K[c].undo # None
    BY <1>1 DEF CandsOn, SameRecord, CandRecords
  <2>2. c \in t \/ Owns(N, J[c], c, x)
    BY <1>1, <2>1, OwnsOn
  <2> QED BY <1>1, <2>1, <2>2 DEF Carried
<1>2. ASSUME NEW y \in Reqs, NEW g \in MergeRecords(M[y]), g.at = b, M[y].main = x
      PROVE  Carried(N, J, t, x, b)
  <2>1. y # r /\ M[y] # None
    BY <1>2 DEF MergesOn, MergeRecords
  <2>2. MergeRecords(N[y]) = MergeRecords(M[y]) /\ N[y].main = M[y].main
    BY <2>1 DEF MergesOn, StaysMerged, MergeRecords
  <2> QED BY <1>2, <2>2 DEF Carried
<1> QED BY <1>1, <1>2 DEF Carried

LEMMA MergedSettling ==
  ASSUME NEW p, Good(p), p.clock \in 0 .. MaxClock, Settling(p), NEW r \in Reqs, NEW m \in Reqs,
         MayMerge(p, r, m)
  PROVE  Settling(Merged(p, r, m))
<1> DEFINE q == Merged(p, r, m)
           M == p.merges
           N == q.merges
           K == p.cands
           J == q.cands
           n == p.clock
           o == p.opened
           s == q.opened
           l == p.lapsed
           t == p.astray
           H == Turns(p.reqs, M)
           G == Turns(q.reqs, N)
<1>1. /\ MergesOn(M, N, r, m) /\ CandsOn(K, J, r, m) /\ TakenOn(N, K, r)
      /\ N[r].at = n + 1
  BY MergedPlaces
<1>2. q.lapsed = l /\ q.astray = t
  BY MergedBesides
<1>3. q.clock = n + 1
  BY MergedColumns
<1>4. /\ TurnsGood(H, o, n) /\ RecordsGood(H, M, K, o, n) /\ ChainsGood(M) /\ CandsGood(M, K, t)
      /\ Kept(H, M, K, o, l, t)
  BY DEF Settling, SettlingBut
<1>5. n \in Nat /\ MergesTyped(M)
  BY PoolTyped
<1>6. /\ OpensOr(H, G, m, n, o, s)
      /\ N[r].reopen = IF s # o THEN RecordOf(H[m], n + 1) ELSE None
  BY <1>4, MergedTurns
<1> HIDE DEF q
<1> HIDE DEF M, N, K, J, n, o, s, l, t, H, G
<1>7. /\ TurnsGood(G, s, n + 1)
      /\ \A x \in Reqs : Shifts(G[x]) \cap s
                         \subseteq (Shifts(H[x]) \cap o)
                                   \cup (IF x = m /\ s # o THEN {n + 1} ELSE {})
  BY <1>4, <1>5, <1>6, TurnsMerged
<1>8. RecordsGood(G, N, J, s, n + 1)
  BY <1>1, <1>4, <1>5, <1>6, RecordsOn
<1>9. ChainsGood(N)
  BY <1>1, <1>4, <1>5, ChainsMerged
<1>10. CandsGood(N, J, t)
  BY <1>1, <1>4, CandsGoodOn
<1>11. Kept(G, N, J, s, l, t)
  <2>1. \A x \in Reqs, b \in o : Carried(M, K, t, x, b) => Carried(N, J, t, x, b)
    BY <1>1, <1>4, CarriedOn
  <2>2. ASSUME s # o PROVE Carried(N, J, t, m, n + 1)
    <3> DEFINE g == RecordOf(H[m], n + 1)
    <3>1. N[r].reopen = g /\ g.at = n + 1
      BY <1>6, <2>2 DEF RecordOf
    <3>2. N[r] # None /\ N[r].main = m
      BY <1>1 DEF MergesOn
    <3>3. g # None
      <4>1. RecordGood(g, G, s, n + 1)
        BY <1>4, <1>5, <1>6, <2>2, TurnsMerged
      <4>2. n + 1 \in Nat /\ n + 1 <= MaxClock + 1 /\ g \in ReopenRow(n + 1)
        BY <1>5, <4>1, LinksAssumption DEF RecordGood, n
      <4> QED BY <4>2, Nulls
    <3> HIDE DEF g
    <3>4. g \in MergeRecords(N[r])
      BY <3>1, <3>2, <3>3 DEF MergeRecords
    <3> QED BY <3>1, <3>2, <3>4 DEF Carried
  <2> DEFINE a == n + 1
  <2>3. /\ \A x \in Reqs : Shifts(G[x]) \cap s
                           \subseteq (Shifts(H[x]) \cap o)
                                     \cup (IF x = m /\ s # o THEN {n + 1} ELSE {})
        /\ s # o => Carried(N, J, t, m, n + 1)
    BY <1>7, <2>2
  <2> QED BY <1>4, <2>1, <2>3, KeptMerged
<1>12. Settling(q)
  BY <1>2, <1>3, <1>7, <1>8, <1>9, <1>10, <1>11 DEF Settling, SettlingBut, G, N, J, n, s, l, t
<1> QED BY <1>12 DEF q

-----------------------------------------------------------------------------
(* A requirement that comes back from a merge.                             *)

(* What an unmerge leaves for settle_reopen, as far as it matters here.    *)
LEMMA UnsettledColumns ==
  ASSUME NEW p, Good(p), NEW r \in Reqs, MayUnmerge(p, r)
  PROVE  LET q == Unsettled(p, r)
             g == p.merges[r]
             m == g.main IN
         /\ q.cands = CandsTo(p.cands, Returned(p, r), r, g.cands)
         /\ q.merges = ChainedTo([p.merges EXCEPT ![r] = None], Unchained(p, r), r)
         /\ q.reqs = [[p.reqs EXCEPT ![m] =
                            WithUndo(p.reqs[m], NotedBack(p.reqs[m].undo, BackAt(p, r), r))]
                        EXCEPT ![r] = g.row]
         /\ q.clock = p.clock /\ q.opened = p.opened /\ q.lapsed = p.lapsed
         /\ q.astray = p.astray \cup Led(p, r)
         /\ g # None /\ g.into = m /\ m \in Reqs /\ r # m /\ p.reqs[m].here
<1> DEFINE q == Unsettled(p, r)
           g == p.merges[r]
           m == g.main
           M == HungTo(p.tasks, BackAt(p, r), r, g.row.project)
           b == PointedTo(p, BackAt(p, r), m, r, g.row.project, g.confirms)
           cands == [c \in Cands |-> IF c \in Returned(p, r)
                        THEN [p.cands[c] EXCEPT !.req = r, !.status = g.cands[c]] ELSE p.cands[c]]
           merges == [x \in Reqs |-> IF x = r THEN None
                        ELSE IF x \in Unchained(p, r) THEN [p.merges[x] EXCEPT !.into = r]
                        ELSE p.merges[x]]
           reqs == [p.reqs EXCEPT ![r] = g.row, ![m].undo = NotedBack(@, BackAt(p, r), r)]
<1>1. g # None /\ g.into = m /\ p.reqs[m].here /\ m \in Reqs
  BY DEF MayUnmerge, InPlace, Here
<1>2. ~p.reqs[r].here
  BY <1>1, RowsOf DEF GoodMerge
<1>3. r # m
  BY <1>1, <1>2
<1>4. /\ IsPool(q) /\ q.home = p.home /\ q.move = p.move /\ q.strayed = p.strayed
      /\ Counts(p, q, 0)
      /\ q.tasks = RepointedTo(M, Pointing(M, g.confirms, m), r)
      /\ q.cands = CandsTo(p.cands, Returned(p, r), r, g.cands)
      /\ q.merges = ChainedTo([p.merges EXCEPT ![r] = None], Unchained(p, r), r)
      /\ q.reqs = [[p.reqs EXCEPT ![m] =
                         WithUndo(p.reqs[m], NotedBack(p.reqs[m].undo, BackAt(p, r), r))]
                     EXCEPT ![r] = g.row]
  BY <1>1, <1>3, UnsettledTables
<1>5. q = [b EXCEPT !.cands = cands, !.merges = merges, !.reqs = reqs,
                    !.astray = @ \cup Led(p, r)]
  BY DEF Unsettled
<1>6. DOMAIN p = Columns /\ p.clock \in Nat
  BY DEF Good, IsPool
<1>7. DOMAIN b = Columns /\ b.opened = p.opened /\ b.lapsed = p.lapsed /\ b.astray = p.astray
  BY <1>6 DEF PointedTo, Columns, Repointed, PutTasks
<1> HIDE DEF q, b, cands, merges, reqs
<1>8. /\ q.opened = p.opened /\ q.lapsed = p.lapsed /\ q.astray = p.astray \cup Led(p, r)
  BY <1>5, <1>7 DEF Columns
<1>9. q.clock = p.clock
  BY <1>4, <1>6 DEF Counts
<1> QED BY <1>1, <1>3, <1>4, <1>8, <1>9 DEF q

LEMMA UnsettledPlaces ==
  ASSUME NEW p, Good(p), p.clock \in 0 .. MaxClock, NEW r \in Reqs, MayUnmerge(p, r)
  PROVE  LET q == Unsettled(p, r) IN
         /\ MergesOff(p.merges, q.merges, r, p.merges[r].main)
         /\ CandsOff(p.merges, p.cands, q.cands, r) /\ TakenOff(p.merges, p.cands, r)
<1> DEFINE q == Unsettled(p, r)
           M == p.merges
           N == q.merges
           K == p.cands
           J == q.cands
           n == p.clock
           g == M[r]
           m == g.main
           X == Unchained(p, r)
           rest == [M EXCEPT ![r] = None]
<1>1. n \in Nat /\ n <= MaxClock + 1
  BY LinksAssumption DEF Good
<1>2. /\ \A c \in Cands : K[c].at \in Nat
      /\ \A x \in Reqs : M[x] # None =>
            /\ M[x] \in MergeRow(n) /\ M[x].at \in Nat
            /\ \A c \in Cands : M[x].cands[c] \in {"claimed", "merged", None}
      /\ \A x \in Reqs : p.reqs[x].here => M[x] = None
  BY PoolTyped
<1>3. \A c \in Cands : K[c] \in CandRow(n)
  BY RowTypes
<1>4. M = [x \in Reqs |-> M[x]]
  BY DEF Good, GoodTables
<1>5. /\ J = CandsTo(K, Returned(p, r), r, g.cands)
      /\ N = ChainedTo(rest, X, r)
      /\ g # None /\ g.into = m /\ m \in Reqs /\ r # m /\ p.reqs[m].here
  <2>1. /\ q.cands = CandsTo(p.cands, Returned(p, r), r, g.cands)
        /\ q.merges = ChainedTo([p.merges EXCEPT ![r] = None], Unchained(p, r), r)
        /\ q.reqs = [[p.reqs EXCEPT ![m] =
                           WithUndo(p.reqs[m], NotedBack(p.reqs[m].undo, BackAt(p, r), r))]
                       EXCEPT ![r] = g.row]
        /\ q.clock = p.clock /\ q.opened = p.opened /\ q.lapsed = p.lapsed
        /\ q.astray = p.astray \cup Led(p, r)
        /\ g # None /\ g.into = m /\ m \in Reqs /\ r # m /\ p.reqs[m].here
    BY UnsettledColumns
  <2> HIDE DEF q
  <2> QED BY <2>1
<1> HIDE DEF q
<1>6. rest[r] = None /\ \A x \in Reqs \ {r} : rest[x] = M[x]
  BY <1>4
<1>7. r \notin X /\ \A x \in Reqs \ {r} : x \in X <=> M[x] # None /\ x \in g.chained /\ M[x].into = m
  BY DEF Unchained
<1> HIDE DEF X, rest
<1>8. N[r] = None /\ \A x \in Reqs \ {r} : N[x] = IF x \in X THEN [M[x] EXCEPT !.into = r] ELSE M[x]
  BY <1>5, <1>6, <1>7 DEF ChainedTo
<1>9. \A x \in Reqs \ {r} :
        /\ StaysMerged(M[x], N[x])
        /\ M[x] # None =>
            N[x].into = IF x \in g.chained /\ M[x].into = m THEN r ELSE M[x].into
  <2> TAKE x \in Reqs \ {r}
  <2> DEFINE f == M[x]
             d == [f EXCEPT !.into = r]
  <2>1. CASE x \in X
    <3>1. N[x] = d /\ f \in MergeRow(n) /\ f.into = m /\ f # None /\ x \in g.chained
      BY <1>2, <1>7, <1>8, <2>1
    <3> HIDE DEF f
    <3>2. d \in MergeRow(n)
      BY <3>1 DEF MergeRow
    <3>3. /\ d.main = f.main /\ d.at = f.at /\ d.chained = f.chained /\ d.cands = f.cands
          /\ d.reopen = f.reopen /\ d.row = f.row /\ d.into = r
      BY <3>1 DEF MergeRow
    <3>4. d # None
      BY <1>1, <3>2, Nulls
    <3> HIDE DEF d
    <3> QED BY <3>1, <3>3, <3>4 DEF StaysMerged, f
  <2>2. CASE x \notin X
    BY <1>7, <1>8, <2>2 DEF StaysMerged
  <2> QED BY <2>1, <2>2
<1>10. MergesOff(M, N, r, m)
  BY <1>2, <1>5, <1>8, <1>9 DEF MergesOff
<1>11. CandsOff(M, K, J, r)
  <2> SUFFICES ASSUME NEW c \in Cands
               PROVE  /\ SameRecord(K[c], J[c])
                      /\ c \in ComingBack(M, K, r) => J[c].req = r /\ J[c].status = g.cands[c]
                      /\ c \notin ComingBack(M, K, r) =>
                            J[c].req = K[c].req /\ J[c].status = K[c].status
    BY DEF CandsOff
  <2>1. ComingBack(M, K, r) = Returned(p, r)
    BY DEF ComingBack, Returned
  <2>2. J[c] = IF c \in Returned(p, r) THEN [K[c] EXCEPT !.req = r, !.status = g.cands[c]]
               ELSE K[c]
    BY <1>5 DEF CandsTo
  <2>3. K[c] \in CandRow(n)
    BY <1>3
  <2> HIDE DEF K, J, g
  <2> QED BY <2>1, <2>2, <2>3 DEF CandRow, SameRecord
<1>12. TakenOff(M, K, r)
  BY <1>2, <1>5 DEF TakenOff
<1> QED BY <1>10, <1>11, <1>12 DEF q

LEMMA UnsettledTurns ==
  ASSUME NEW p, Good(p), p.clock \in 0 .. MaxClock, NEW r \in Reqs, MayUnmerge(p, r)
  PROVE  LET q == Unsettled(p, r) IN Turns(q.reqs, q.merges) = Turns(p.reqs, p.merges)
<1> DEFINE q == Unsettled(p, r)
           M == p.merges
           N == q.merges
           n == p.clock
           g == M[r]
           m == g.main
           k == p.reqs[m]
           u == NotedBack(k.undo, BackAt(p, r), r)
           row == WithUndo(k, u)
           G == Turns(q.reqs, N)
           H == Turns(p.reqs, M)
<1>1. n \in Nat /\ n <= MaxClock + 1 /\ p.reqs = [x \in Reqs |-> p.reqs[x]]
  BY LinksAssumption DEF Good, GoodTables
<1>2. /\ q.reqs = [[p.reqs EXCEPT ![m] = row] EXCEPT ![r] = g.row]
      /\ m \in Reqs /\ r # m
  <2>1. /\ q.cands = CandsTo(p.cands, Returned(p, r), r, g.cands)
        /\ q.merges = ChainedTo([p.merges EXCEPT ![r] = None], Unchained(p, r), r)
        /\ q.reqs = [[p.reqs EXCEPT ![m] =
                           WithUndo(p.reqs[m], NotedBack(p.reqs[m].undo, BackAt(p, r), r))]
                       EXCEPT ![r] = g.row]
        /\ q.clock = p.clock /\ q.opened = p.opened /\ q.lapsed = p.lapsed
        /\ q.astray = p.astray \cup Led(p, r)
        /\ g # None /\ g.into = m /\ m \in Reqs /\ r # m /\ p.reqs[m].here
    BY UnsettledColumns
  <2> HIDE DEF q
  <2> QED BY <2>1
<1>3. MergesOff(M, N, r, m)
  BY UnsettledPlaces
<1>4. k \in ReqRow(n)
  BY <1>2, RowTypes
<1> HIDE DEF q, row
<1>5. q.reqs[r] = g.row /\ q.reqs[m] = row /\ \A x \in Reqs \ {r, m} : q.reqs[x] = p.reqs[x]
  BY <1>1, <1>2
<1>6. row.status = k.status /\ row.changed = k.changed /\ row.undo = u
  BY <1>4 DEF row, WithUndo, ReqRow
<1>7. Past(row) = Past(k)
  <2>1. CASE k.undo = None
    BY <1>6, <2>1 DEF NotedBack, Past
  <2>2. CASE k.undo # None
    <3>1. k.undo \in StatusUndo(n)
      BY <1>4, <2>2 DEF ReqRow
    <3>2. /\ u.at = k.undo.at /\ u.status = k.undo.status /\ u.changed = k.undo.changed
      BY <2>2, <3>1 DEF NotedBack, StatusUndo
    <3>3. u # None
      <4>1. u \in StatusUndo(n) \cup {None}
        BY <3>1, NotedBackGood
      <4>2. u \in StatusUndo(n)
        <5> DEFINE v == k.undo
                   T == [t \in Tasks |-> IF t \in BackAt(p, r) /\ v.tasks[t] # None
                                         THEN [v.tasks[t] EXCEPT !.req = r] ELSE v.tasks[t]]
        <5>1. u = [v EXCEPT !.tasks = T]
          BY <2>2 DEF NotedBack
        <5>2. \A t \in Tasks : v.tasks[t] \in ClosedRow \cup {None}
          BY <3>1 DEF StatusUndo
        <5>3. \A t \in Tasks : T[t] \in ClosedRow \cup {None}
          BY <5>2 DEF ClosedRow
        <5>4. T \in [Tasks -> ClosedRow \cup {None}]
          BY <5>3
        <5> HIDE DEF T, v, u
        <5> QED BY <3>1, <5>1, <5>4 DEF StatusUndo, v
      <4> QED BY <1>1, <4>2, Nulls
    <3> HIDE DEF u, k
    <3> QED BY <1>6, <2>2, <3>2, <3>3 DEF Past
  <2> QED BY <2>1, <2>2
<1> HIDE DEF u, k
<1>8. Turn(row) = Turn(k)
  BY <1>6, <1>7 DEF Turn
<1>9. /\ N[r] = None /\ M[r] # None /\ M[m] = None /\ N[m] = None
      /\ \A x \in Reqs \ {r} : /\ M[x] = None <=> N[x] = None
                               /\ M[x] # None => N[x].row = M[x].row
  BY <1>2, <1>3 DEF MergesOff, StaysMerged
<1>10. \A x \in Reqs : G[x] = H[x]
  <2> HIDE DEF M, N, m
  <2>1. G[r] = H[r]
    BY <1>5, <1>9 DEF Turns
  <2>2. G[m] = H[m]
    BY <1>2, <1>5, <1>8, <1>9 DEF Turns, k
  <2>3. \A x \in Reqs \ {r, m} : G[x] = H[x]
    BY <1>5, <1>9 DEF Turns
  <2> QED BY <2>1, <2>2, <2>3
<1>11. G = [x \in Reqs |-> G[x]] /\ H = [x \in Reqs |-> H[x]]
  BY DEF Turns
<1> HIDE DEF G, H
<1>12. G = H
  BY <1>10, <1>11
<1> QED BY <1>12 DEF G, H, q

LEMMA RecordsOff ==
  ASSUME NEW n, NEW H, NEW o, NEW M, NEW N, NEW K, NEW J, NEW r, NEW m,
         MergesOff(M, N, r, m), CandsOff(M, K, J, r), RecordsGood(H, M, K, o, n)
  PROVE  RecordsGood(H, N, J, o, n)
<1>1. ASSUME NEW c \in Cands, NEW g \in CandRecords(J[c]) PROVE RecordGood(g, H, o, n)
  <2>1. CandRecords(J[c]) = CandRecords(K[c])
    BY DEF CandsOff, SameRecord, CandRecords
  <2> QED BY <1>1, <2>1 DEF RecordsGood
<1>2. ASSUME NEW x \in Reqs, NEW g \in MergeRecords(N[x])
      PROVE  /\ RecordGood(g, H, o, n)
             /\ \A u \in H[N[x].main].past : u.changed = g.at => N[x].at < u.at
  <2>1. x # r /\ M[x] # None
    BY <1>2 DEF MergesOff, StaysMerged, MergeRecords
  <2>2. /\ N[x].main = M[x].main /\ N[x].at = M[x].at
        /\ MergeRecords(N[x]) = MergeRecords(M[x])
    BY <1>2, <2>1 DEF MergesOff, StaysMerged, MergeRecords
  <2> QED BY <1>2, <2>2 DEF RecordsGood
<1> QED BY <1>1, <1>2 DEF RecordsGood

LEMMA CarriedOff ==
  ASSUME NEW M, NEW N, NEW K, NEW J, NEW r, NEW m, NEW t, ChainsGood(M),
         MergesOff(M, N, r, m), CandsOff(M, K, J, r), TakenOff(M, K, r), CandsGood(M, K, t),
         NEW x \in Reqs, NEW b, Carried(M, K, t, x, b), \A g \in MergeRecords(M[r]) : g.at # b
  PROVE  Carried(N, J, t \cup LedOff(M, K, r), x, b)
<1> DEFINE s == t \cup LedOff(M, K, r)
<1>1. ASSUME NEW c \in Cands, NEW g \in CandRecords(K[c]), g.at = b,
             c \in t \/ Owns(M, K[c], c, x)
      PROVE  Carried(N, J, s, x, b)
  <2>1. CandRecords(J[c]) = CandRecords(K[c]) /\ K[c].undo # None
    BY <1>1 DEF CandsOff, SameRecord, CandRecords
  <2>2. c \in s \/ Owns(N, J[c], c, x)
    <3>1. CASE c \in s
      BY <3>1
    <3>2. CASE c \notin s
      BY <1>1, <2>1, <3>2, OwnsOff
    <3> QED BY <3>1, <3>2
  <2> HIDE DEF s
  <2> QED BY <1>1, <2>1, <2>2 DEF Carried
<1>2. ASSUME NEW y \in Reqs, NEW g \in MergeRecords(M[y]), g.at = b, M[y].main = x
      PROVE  Carried(N, J, s, x, b)
  <2>1. y # r /\ M[y] # None
    BY <1>2 DEF MergeRecords
  <2>2. MergeRecords(N[y]) = MergeRecords(M[y]) /\ N[y].main = M[y].main
    BY <2>1 DEF MergesOff, StaysMerged, MergeRecords
  <2> QED BY <1>2, <2>2 DEF Carried
<1> QED BY <1>1, <1>2 DEF Carried

LEMMA UnmergedSettling ==
  ASSUME NEW p, Good(p), p.clock \in 0 .. MaxClock, Settling(p), NEW r \in Reqs,
         MayUnmerge(p, r)
  PROVE  Settling(Unmerged(p, r))
<1> DEFINE q == Unsettled(p, r)
           M == p.merges
           N == q.merges
           K == p.cands
           J == q.cands
           n == p.clock
           o == p.opened
           l == p.lapsed
           t == p.astray
           g == M[r]
           m == g.main
           record == g.reopen
           H == Turns(p.reqs, M)
           s == t \cup LedOff(M, K, r)
           lost == l \cup Gone(record)
<1>1. /\ MergesOff(M, N, r, m) /\ CandsOff(M, K, J, r) /\ TakenOff(M, K, r)
  BY UnsettledPlaces
<1>2. /\ q.clock = n /\ q.opened = o /\ q.lapsed = l /\ q.astray = s
      /\ g # None /\ m \in Reqs
  <2>1. /\ q.cands = CandsTo(p.cands, Returned(p, r), r, g.cands)
        /\ q.merges = ChainedTo([p.merges EXCEPT ![r] = None], Unchained(p, r), r)
        /\ q.reqs = [[p.reqs EXCEPT ![m] =
                           WithUndo(p.reqs[m], NotedBack(p.reqs[m].undo, BackAt(p, r), r))]
                       EXCEPT ![r] = g.row]
        /\ q.clock = p.clock /\ q.opened = p.opened /\ q.lapsed = p.lapsed
        /\ q.astray = p.astray \cup Led(p, r)
        /\ g # None /\ g.into = m /\ m \in Reqs /\ r # m /\ p.reqs[m].here
    BY UnsettledColumns
  <2>2. Led(p, r) = LedOff(M, K, r)
    BY DEF Led, LedOff, Returned, ComingBack
  <2> HIDE DEF q
  <2> QED BY <2>1, <2>2
<1>3. Turns(q.reqs, N) = H
  BY UnsettledTurns
<1>4. /\ TurnsGood(H, o, n) /\ RecordsGood(H, M, K, o, n) /\ ChainsGood(M) /\ CandsGood(M, K, t)
      /\ Kept(H, M, K, o, l, t)
  BY DEF Settling, SettlingBut
<1>5. n \in Nat /\ MergesTyped(M)
  BY PoolTyped
<1>6. Good(q) /\ Counts(p, q, 0)
  BY UnsettledGood
<1>7. Unmerged(p, r) = Settled(q, m, record)
  BY UnsettledFirst
<1>8. MergeRecords(g) = {record} \ {None}
  BY <1>2 DEF MergeRecords
<1> HIDE DEF q
<1> HIDE DEF M, N, K, J, n, o, l, t, g, m, record, H, s
<1>9. record # None => RecordGood(record, H, o, n)
  BY <1>4, <1>8 DEF RecordsGood, g
<1>10. RecordsGood(H, N, J, o, n)
  BY <1>1, <1>4, RecordsOff
<1>11. ChainsGood(N)
  BY <1>1, <1>4, <1>5, ChainsUnmerged
<1>12. CandsGood(N, J, s)
  BY <1>1, <1>4, CandsGoodOff DEF s
<1>13. Kept(H, N, J, o, lost, s)
  <2> SUFFICES ASSUME NEW x \in Reqs, NEW b \in o, b \notin lost, b \in Shifts(H[x])
               PROVE  Carried(N, J, s, x, b)
    BY DEF Kept
  <2>1. Carried(M, K, t, x, b)
    BY <1>4 DEF Kept
  <2>2. \A f \in MergeRecords(M[r]) : f.at # b
    BY <1>8 DEF Gone, g
  <2> QED BY <1>1, <1>4, <2>1, <2>2, CarriedOff DEF s
<1>14. N[m] = None
  BY <1>1 DEF MergesOff, StaysMerged
<1>15. SettlingBut(q, q.lapsed \cup Gone(record))
  BY <1>2, <1>3, <1>4, <1>10, <1>11, <1>12, <1>13 DEF SettlingBut, N, J
<1>16. q.clock \in 0 .. MaxClock
  BY <1>2 DEF n
<1>17. q.merges[m] = None /\ m \in Reqs
  BY <1>2, <1>14 DEF N
<1>18. record # None => RecordGood(record, Turns(q.reqs, q.merges), q.opened, q.clock)
  BY <1>2, <1>3, <1>9 DEF N
<1>19. Settling(Settled(q, m, record))
  BY <1>6, <1>15, <1>16, <1>17, <1>18, SettledSettling
<1> QED BY <1>7, <1>19

-----------------------------------------------------------------------------
(* Every operation keeps what is to be settled.                            *)
LEMMA InitSettling == Init => Settling(pool)
<1> SUFFICES ASSUME NEW q \in Projects, NEW p \in Projects \cup {None},
                    NEW c \in Cands \cup {None},
                    pool = [reqs   |-> [r \in Reqs |-> IF r \in First THEN NewReq(q) ELSE NoReq],
                            merges |-> [r \in Reqs |-> None],
                            cands  |-> [x \in Cands |-> NewCand],
                            tasks  |-> [t \in Tasks |-> NewTask(c, p)],
                            home   |-> p, move |-> None, clock |-> 0, opened |-> {},
                            lapsed |-> {}, astray |-> {}, strayed |-> {}, edits |-> 0, moves |-> 0]
             PROVE  Settling(pool)
  BY DEF Init
<1> DEFINE M == pool.merges
           K == pool.cands
           H == Turns(pool.reqs, M)
<1>1. pool.opened = {} /\ pool.clock = 0
  OBVIOUS
<1>2. \A r \in Reqs : M[r] = None
  OBVIOUS
<1>3. \A x \in Cands : K[x].undo = None
  BY DEF NewCand
<1>4. \A r \in Reqs : H[r] = [status |-> "active", changed |-> 0, past |-> {}]
  <2>1. Turn(NoReq) = [status |-> "active", changed |-> 0, past |-> {}]
    BY DEF Turn, Past, NoReq
  <2>2. Turn(NewReq(q)) = [status |-> "active", changed |-> 0, past |-> {}]
    BY DEF Turn, Past, NewReq, NoReq
  <2>3. \A r \in Reqs : pool.reqs[r] = NoReq \/ pool.reqs[r] = NewReq(q)
    OBVIOUS
  <2> QED BY <1>2, <2>1, <2>2, <2>3 DEF Turns
<1> HIDE DEF M, K, H
<1>5. TurnsGood(H, {}, 0)
  <2>1. \A r \in Reqs : TurnGood(H[r], {}, 0)
    BY <1>4 DEF TurnGood, TurnRow, Stamps, ReqStatuses
  <2> QED BY <2>1 DEF TurnsGood
<1>6. RecordsGood(H, M, K, {}, 0)
  BY <1>2, <1>3 DEF RecordsGood, CandRecords, MergeRecords
<1>7. ChainsGood(M)
  BY <1>2 DEF ChainsGood
<1>8. CandsGood(M, K, pool.astray)
  BY <1>2, <1>3 DEF CandsGood
<1>9. Kept(H, M, K, {}, pool.lapsed, pool.astray)
  BY DEF Kept
<1> QED BY <1>1, <1>5, <1>6, <1>7, <1>8, <1>9 DEF Settling, SettlingBut, H, M, K

LEMMA EditedSettling ==
  ASSUME NEW q, Good(q), SameBesides(pool, q), Settling(pool), Edited(q) \/ Moved(q)
  PROVE  Settling(pool')
<1>1. DOMAIN q = Columns /\ Settling(q)
  BY BesidesSettling DEF Good, IsPool
<1>2. SameBesides(q, pool')
  BY <1>1, CountedBeside DEF Edited, Moved
<1> QED BY <1>1, <1>2, BesidesSettling

LEMMA NextSettling ==
  ASSUME Inv, Settling(pool), [Next]_pool
  PROVE  Settling(pool')
<1>0. /\ Good(pool) /\ DOMAIN pool = Columns /\ pool.clock \in 0 .. MaxClock
  BY DEF Inv, Good, IsPool
<1>1. CASE Update
  <2>1. PICK t \in Tasks, l \in Links :
            MayLink(pool, pool.tasks[t], l) /\ Edited(Updated(pool, t, l))
    BY <1>1 DEF Update
  <2>2. Good(Updated(pool, t, l))
    BY <1>0, <2>1, UpdateStep
  <2> QED BY <1>0, <2>1, <2>2, TaskOperations, EditedSettling
<1>2. CASE Attach
  <2>1. PICK t \in Tasks, r \in Here(pool) : Edited(Attached(pool, t, r))
    BY <1>2 DEF Attach
  <2>2. Good(Attached(pool, t, r))
    BY <1>0, AttachStep
  <2> QED BY <1>0, <2>1, <2>2, TaskOperations, EditedSettling
<1>3. CASE Confirm
  <2>1. PICK t \in Tasks, l \in Links :
            MayConfirm(pool, t, l) /\ Edited(Confirmed(pool, t, l))
    BY <1>3 DEF Confirm
  <2>2. Good(Confirmed(pool, t, l))
    BY <1>0, <2>1, ConfirmStep
  <2> QED BY <1>0, <2>1, <2>2, TaskOperations, EditedSettling
<1>4. CASE Reject
  <2>1. PICK t \in Tasks : Edited(Rejected(pool, t))
    BY <1>4 DEF Reject
  <2>2. Good(Rejected(pool, t))
    BY <1>0, RejectStep
  <2> QED BY <1>0, <2>1, <2>2, TaskOperations, EditedSettling
<1>5. CASE SetStatus
  <2>1. PICK t \in Tasks, s \in TaskStatuses : Edited(StatusSet(pool, t, s))
    BY <1>5 DEF SetStatus
  <2>2. Good(StatusSet(pool, t, s))
    BY <1>0, StatusStep
  <2> QED BY <1>0, <2>1, <2>2, TaskOperations, EditedSettling
<1>6. CASE UndoReview
  <2>1. PICK t \in Tasks : pool' = ReviewUndone(pool, t)
    BY <1>6 DEF UndoReview
  <2> QED BY <1>0, <2>1, TaskOperations, BesidesSettling
<1>7. CASE UndoComplete
  <2>1. PICK t \in Tasks : pool' = CompleteUndone(pool, t)
    BY <1>7 DEF UndoComplete
  <2> QED BY <1>0, <2>1, TaskOperations, BesidesSettling
<1>8. CASE SetReq
  <2>1. PICK r \in Reqs, s \in ReqStatuses, close \in BOOLEAN :
            MaySetReq(pool, r, s) /\ pool' = ReqSet(pool, r, s, close)
    BY <1>8 DEF SetReq
  <2> QED BY <1>0, <2>1, ReqSetSettling
<1>9. CASE Merge
  <2>1. PICK r \in Reqs, m \in Reqs : MayMerge(pool, r, m) /\ pool' = Merged(pool, r, m)
    BY <1>9 DEF Merge
  <2> QED BY <1>0, <2>1, MergedSettling
<1>10. CASE MergeCand
  <2>1. PICK c \in Cands, r \in Reqs : MayMergeCand(pool, c, r) /\ pool' = CandMerged(pool, c, r)
    BY <1>10 DEF MergeCand
  <2> QED BY <1>0, <2>1, CandMergedSettling
<1>11. CASE UndoReq
  <2>1. PICK r \in Reqs : MayUndoReq(pool, r) /\ pool' = ReqUndone(pool, r)
    BY <1>11 DEF UndoReq
  <2> QED BY <1>0, <2>1, ReqUndoneSettling
<1>12. CASE Unmerge
  <2>1. PICK r \in Reqs : MayUnmerge(pool, r) /\ pool' = Unmerged(pool, r)
    BY <1>12 DEF Unmerge
  <2> QED BY <1>0, <2>1, UnmergedSettling
<1>13. CASE UnmergeCand
  <2>1. PICK c \in Cands : MayUnmergeCand(pool, c) /\ pool' = CandUnmerged(pool, c)
    BY <1>13 DEF UnmergeCand
  <2>2. Good(CandBack(pool, c))
    BY <1>0, <2>1, CandBackGood
  <2> QED BY <1>0, <2>1, <2>2, CandUnmergedSettling
<1>14. CASE Claim
  <2>1. PICK c \in Cands, r \in Reqs, q \in Projects :
            MayClaim(pool, c, r) /\ pool' = Claimed(pool, c, r, q)
    BY <1>14 DEF Claim
  <2> QED BY <1>0, <2>1, ClaimSettling
<1>15. CASE Drop \/ Restore
  <2>1. PICK c \in Cands : \/ MayDrop(pool, c) /\ pool' = Dropped(pool, c)
                           \/ MayRestore(pool, c) /\ pool' = Restored(pool, c)
    BY <1>15 DEF Drop, Restore
  <2> QED BY <1>0, <2>1, DropSettling
<1>16. CASE ChangeProject
  <2>1. PICK r \in Here(pool), q \in Projects : Moved(ProjectChanged(pool, r, q))
    BY <1>16 DEF ChangeProject
  <2> DEFINE b == ProjectChanged(pool, r, q)
  <2>2. Good(b)
    BY <1>0, ProjectStep
  <2>3. Settling(b)
    BY <1>0, ProjectSettling
  <2>4. DOMAIN b = Columns /\ pool' = [b EXCEPT !.moves = @ + 1]
    BY <2>1, <2>2 DEF Good, IsPool, Moved
  <2> HIDE DEF b
  <2>5. SameBesides(b, pool')
    BY <2>4, CountedBeside
  <2> QED BY <2>3, <2>5, BesidesSettling
<1>17. CASE Reassign
  <2>1. PICK q \in Somewhere : Moved(Reassigned(pool, q))
    BY <1>17 DEF Reassign, Somewhere
  <2>2. Good(Reassigned(pool, q))
    BY <1>0, ReassignStep
  <2> QED BY <1>0, <2>1, <2>2, MoveOperations, EditedSettling
<1>18. CASE UndoReassign
  <2>1. pool' = ReassignUndone(pool)
    BY <1>18 DEF UndoReassign
  <2> QED BY <1>0, <2>1, MoveOperations, BesidesSettling
<1>19. CASE UNCHANGED pool
  BY <1>19
<1> QED BY <1>1, <1>2, <1>3, <1>4, <1>5, <1>6, <1>7, <1>8, <1>9, <1>10, <1>11, <1>12, <1>13,
           <1>14, <1>15, <1>16, <1>17, <1>18, <1>19 DEF Next

(* A requirement reopened by a merge and left alone since then has a merge *)
(* in place that closes it again when it is undone as the last one         *)
(* (settle_reopen), in whatever order merges of candidates and of          *)
(* requirements, their undos and the changes of status come, unless the    *)
(* record lapsed or went astray with its candidate.                        *)
THEOREM ReopenedSettled == Spec => []ReopenedIsSettled
<1>1. Init => Inv /\ Settling(pool)
  BY InitGood, InitSettling
<1>2. Inv /\ Settling(pool) /\ [Next]_pool => (Inv /\ Settling(pool))'
  BY NextGood, NextSettling
<1>3. Inv /\ Settling(pool) => ReopenedIsSettled
  <2> SUFFICES ASSUME Inv, Settling(pool), NEW r \in Here(pool),
                      pool.reqs[r].changed \in pool.opened \ pool.lapsed
               PROVE  LET at == pool.reqs[r].changed IN
                      \/ \E c \in Cands : /\ pool.cands[c].req = r \/ c \in pool.astray
                                         /\ pool.cands[c].undo # None
                                         /\ pool.cands[c].undo.reopen # None
                                         /\ pool.cands[c].undo.reopen.at = at
                      \/ \E x \in Reqs : /\ InPlace(pool, x, r) /\ pool.merges[x].reopen # None
                                        /\ pool.merges[x].reopen.at = at
    BY DEF ReopenedIsSettled
  <2> DEFINE M == pool.merges
             K == pool.cands
             H == Turns(pool.reqs, M)
             at == pool.reqs[r].changed
  <2>1. r \in Reqs /\ M[r] = None
    BY PoolTyped DEF Inv, Here
  <2>2. at \in Shifts(H[r])
    BY <2>1 DEF Turns, Turn, Shifts
  <2>3. Carried(M, K, pool.astray, r, at) /\ ChainsGood(M)
    BY <2>1, <2>2 DEF Settling, SettlingBut, Kept
  <2> HIDE DEF H, at
  <2>4. CASE \E c \in Cands : /\ \E g \in CandRecords(K[c]) : g.at = at
                              /\ (c \in pool.astray \/ Owns(M, K[c], c, r))
    BY <2>1, <2>4 DEF CandRecords, Owns, at
  <2>5. CASE \E x \in Reqs : (\E g \in MergeRecords(M[x]) : g.at = at) /\ M[x].main = r
    <3>1. PICK x \in Reqs : (\E g \in MergeRecords(M[x]) : g.at = at) /\ M[x].main = r
      BY <2>5
    <3>2. M[x] # None /\ M[x].reopen # None /\ M[x].reopen.at = at
      BY <3>1 DEF MergeRecords
    <3>3. M[x].into = r
      BY <2>1, <2>3, <3>1, <3>2 DEF ChainsGood
    <3> QED BY <3>1, <3>2, <3>3 DEF InPlace, at
  <2> QED BY <2>3, <2>4, <2>5 DEF Carried
<1> QED BY <1>1, <1>2, <1>3, PTL DEF Spec

=============================================================================
