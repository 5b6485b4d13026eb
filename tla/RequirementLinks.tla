-------------------------- MODULE RequirementLinks --------------------------
(***************************************************************************)
(* Tasks, requirements and requirement candidates of the workbench, and    *)
(* what hangs where: review and status of tasks (tasks.py), the pool of    *)
(* requirements and its status changes (requirements.py), candidates       *)
(* (requirement_candidates.py), requirements merged into one another       *)
(* (requirement_merges.py) and a meeting moved to another project          *)
(* (project_linking.py), each with the undo the user is offered.           *)
(*                                                                         *)
(* Every operation is one SQLite transaction.  "pool" is the database, an  *)
(* operator named by a participle is the database after that operation,    *)
(* and the operator beside it named May... is the condition under which it *)
(* is not refused.  All tasks and candidates come from one meeting.        *)
(*                                                                         *)
(* Abstracted: the undo windows (an undo may always still come, or never), *)
(* titles, priorities, summaries, folders, meetings and quotes of a        *)
(* requirement; the quotes of a candidate are where the candidate is.      *)
(***************************************************************************)
EXTENDS Naturals, FiniteSets

CONSTANTS
    Reqs,             \* ids of requirements, those not yet made included
    First,            \* the requirements there at the start
    Cands, Tasks, Projects,
    None,             \* NULL
    MaxClock,         \* bound: merges and changes of a requirement's status
    MaxEdits,         \* bound: edits, reviews and changes of status of tasks
    MaxMoves,         \* bound: meetings and requirements moved to another project
    MaxOps            \* bound: all of these together

ASSUME LinksAssumption ==
    /\ First \subseteq Reqs
    /\ {MaxClock, MaxEdits, MaxMoves, MaxOps} \subseteq Nat
    /\ None \notin Reqs \cup Cands \cup Tasks \cup Projects

VARIABLE pool

Drafts == {"pending_confirm", "expired"}
OpenTasks == {"pending_confirm", "confirmed", "in_progress"}
TaskStatuses == OpenTasks \cup {"done", "cancelled", "expired"}
ReqStatuses == {"active", "done", "shelved"}

StatusTransitions == [
    pending_confirm |-> {"confirmed", "cancelled", "expired"},
    confirmed       |-> {"in_progress", "done", "cancelled"},
    in_progress     |-> {"done", "cancelled", "confirmed"},
    done            |-> {},
    cancelled       |-> {"confirmed"},
    expired         |-> {"pending_confirm", "confirmed", "cancelled"}]

(* A task: what it hangs on, the stamp of the change of a requirement that *)
(* closed it (0: its status was changed otherwise), confirm_undo, its last *)
(* event as far as an undo asks for it (and the status before "done"), and *)
(* whether a change of what it hangs on was ever noted.                    *)
NewTask(c, q) == [status |-> "pending_confirm", req |-> None, cand |-> c, project |-> q,
                  closedAt |-> 0, undo |-> None, last |-> "other", was |-> None,
                  relinked |-> FALSE]
NoReq  == [here |-> FALSE, project |-> None, status |-> "active", changed |-> 0, undo |-> None]
NewReq(q) == [NoReq EXCEPT !.here = TRUE, !.project = q]
NewCand == [status |-> "pending", req |-> None, at |-> 0, undo |-> None, dropped |-> {}]

(* "opened", "lapsed", "astray" and "strayed" are no state of the program: *)
(* the stamps at which a merge reopened a requirement; those of them whose *)
(* merge was undone while the requirement was not as that merge had left   *)
(* it, or whose record a candidate lost to one handed to it; the candi-    *)
(* dates that the undo of a merge took along although they had been merged *)
(* anew since; and the tasks whose project was taken back while they hung  *)
(* on a requirement.                                                       *)
Init ==
    \E q \in Projects, p \in Projects \cup {None}, c \in Cands \cup {None} :
        pool = [reqs   |-> [r \in Reqs |-> IF r \in First THEN NewReq(q) ELSE NoReq],
                merges |-> [r \in Reqs |-> None],
                cands  |-> [x \in Cands |-> NewCand],
                tasks  |-> [t \in Tasks |-> NewTask(c, p)],
                home   |-> p, move |-> None, clock |-> 0, opened |-> {}, lapsed |-> {},
                astray |-> {}, strayed |-> {}, edits |-> 0, moves |-> 0]

Here(p) == {r \in Reqs : p.reqs[r].here}
TasksAt(p, r) == {t \in Tasks : p.tasks[t].req = r}
Stamp(p) == p.clock + 1

(* The tables of p with the rows of the tasks in S (or of one requirement, *)
(* one candidate) replaced.                                                *)
PutTasks(p, S, New(_)) ==
    [p EXCEPT !.tasks = [t \in Tasks |-> IF t \in S THEN New(p.tasks[t]) ELSE p.tasks[t]]]

(* A task hung elsewhere, with its event; and one whose status changed.    *)
Hung(k, r, c, q) ==
    [k EXCEPT !.req = r, !.cand = c, !.project = q, !.last = "other", !.relinked = TRUE]
Turned(k, s) == [k EXCEPT !.status = s, !.closedAt = 0, !.last = "other"]

-----------------------------------------------------------------------------
(* What a task hangs on: update_task and the links a confirmation carries. *)

Link(kind, to) == [kind |-> kind, to |-> to]
Links == {Link("keep", None), Link("off", None)}
    \cup {Link("requirement", r) : r \in Reqs} \cup {Link("candidate", c) : c \in Cands}
    \cup {Link("project", q) : q \in Projects \cup {None}}

(* Candidates are those of the project, or of the meeting without one.     *)
InScope(p, q) == q = None \/ q = p.home

MayLink(p, k, l) ==
    CASE l.kind = "requirement" ->
            /\ p.reqs[l.to].here
            /\ p.reqs[l.to].status = "active" \/ l.to = k.req \/ k.relinked
      [] l.kind = "candidate" ->
            /\ p.cands[l.to].status = "pending" /\ InScope(p, k.project)
            /\ l.to = k.cand \/ k.status \in Drafts \/ k.project = None \/ k.relinked
      [] OTHER -> TRUE

(* resolve_requirement_and_project and resolve_candidate.  Moved to        *)
(* another project, a task leaves what is not in it.                       *)
LinkedTo(p, k, l) ==
    CASE l.kind = "requirement" ->
            [k EXCEPT !.req = l.to, !.cand = None, !.project = p.reqs[l.to].project]
      [] l.kind = "candidate" -> [k EXCEPT !.req = None, !.cand = l.to]
      [] l.kind = "off" -> [k EXCEPT !.req = None, !.cand = None]
      [] l.kind = "project" ->
            [k EXCEPT !.project = l.to,
                      !.req  = IF @ # None /\ l.to # p.reqs[@].project THEN None ELSE @,
                      !.cand = IF InScope(p, l.to) THEN @ ELSE None]
      [] OTHER -> k

LinkOf(k) == [req |-> k.req, cand |-> k.cand, project |-> k.project]

(* The events an edit leaves behind.                                       *)
Noted(k, new) ==
    IF new = k THEN k
    ELSE [new EXCEPT !.last = "other",
                     !.relinked = @ \/ new.req # k.req \/ new.cand # k.cand]

Updated(p, t, l) == PutTasks(p, {t}, LAMBDA k : Noted(k, LinkedTo(p, k, l)))

(* attach_tasks of a requirement's page: no look at its status.            *)
Attached(p, t, r) ==
    PutTasks(p, {t}, LAMBDA k : IF k.req = r THEN [k EXCEPT !.cand = None]
                                ELSE Hung(k, r, None, p.reqs[r].project))

-----------------------------------------------------------------------------
(* Review and status of a task.                                            *)

MayConfirm(p, t, l) ==
    LET k == p.tasks[t] IN
    /\ k.status = "confirmed" \/ "confirmed" \in StatusTransitions[k.status]
    /\ MayLink(p, k, l)

(* A task confirmed already is only edited: its event and its clock stay.  *)
Confirmed(p, t, l) ==
    PutTasks(p, {t}, LAMBDA k :
        LET new == Noted(k, LinkedTo(p, k, l)) IN
        IF k.status = "confirmed" THEN new
        ELSE [Turned(new, "confirmed") EXCEPT
                 !.last = "confirmed",
                 !.undo = IF LinkOf(new) = LinkOf(k) THEN None ELSE LinkOf(k)])

MayReject(p, t) == p.tasks[t].status \in Drafts
Rejected(p, t) ==
    PutTasks(p, {t}, LAMBDA k : [Turned(k, "cancelled") EXCEPT !.last = "rejected"])

MayUndoReview(p, t) ==
    <<p.tasks[t].last, p.tasks[t].status>> \in
        {<<"confirmed", "confirmed">>, <<"rejected", "cancelled">>}

(* _restore_link_before_confirm: what has gone since is left empty.        *)
Unlinked(p, k) ==
    LET r == IF k.undo.req \in Here(p) THEN k.undo.req ELSE None
        c == IF r = None /\ k.undo.cand # None /\ p.cands[k.undo.cand].status = "pending"
             THEN k.undo.cand ELSE None
    IN  [Hung(k, r, c, IF r = None THEN k.undo.project ELSE p.reqs[r].project)
            EXCEPT !.undo = None]

ReviewUndone(p, t) ==
    PutTasks(p, {t}, LAMBDA k :
        Turned(IF k.last = "confirmed" /\ k.undo # None THEN Unlinked(p, k) ELSE k,
               "pending_confirm"))

(* set_status and the drafts that expire.                                  *)
MaySetStatus(p, t, s) == s \in StatusTransitions[p.tasks[t].status]
StatusSet(p, t, s) ==
    PutTasks(p, {t}, LAMBDA k :
        IF s = "done" THEN [Turned(k, s) EXCEPT !.last = "done", !.was = k.status]
        ELSE Turned(k, s))

MayUndoComplete(p, t) == p.tasks[t].last = "done" /\ p.tasks[t].status = "done"
CompleteUndone(p, t) == PutTasks(p, {t}, LAMBDA k : [Turned(k, k.was) EXCEPT !.was = None])

-----------------------------------------------------------------------------
(* Status and project of a requirement.                                    *)

(* What a change of status keeps of the tasks it closed: where each hung   *)
(* is the requirement itself unless an unmerge notes another one.          *)
Closing(p, r, s, close) ==
    IF close /\ s # "active"
    THEN {t \in TasksAt(p, r) : p.tasks[t].status \in OpenTasks} ELSE {}

MaySetReq(p, r, s) == r \in Here(p) /\ p.reqs[r].status # s
ReqSet(p, r, s, close) ==
    LET S == Closing(p, r, s, close)
        k == p.reqs[r]
        undo == [at |-> Stamp(p), status |-> k.status, changed |-> k.changed,
                 tasks |-> [t \in Tasks |->
                    IF t \in S THEN [status |-> p.tasks[t].status, req |-> r] ELSE None]]
    IN  [PutTasks(p, S, LAMBDA x : [Turned(x, "cancelled") EXCEPT !.closedAt = Stamp(p)])
            EXCEPT !.reqs[r] = [k EXCEPT !.status = s, !.changed = Stamp(p), !.undo = undo],
                   !.clock = @ + 1]

MayUndoReq(p, r) ==
    r \in Here(p) /\ p.reqs[r].undo # None /\ p.reqs[r].changed = p.reqs[r].undo.at

(* The tasks it closed that are where they were noted and as it left them. *)
Reopening(p, r) ==
    LET u == p.reqs[r].undo IN
    {t \in Tasks : /\ u.tasks[t] # None /\ p.tasks[t].req = u.tasks[t].req
                   /\ p.tasks[t].status = "cancelled" /\ p.tasks[t].closedAt = u.at}

ReqUndone(p, r) ==
    LET k == p.reqs[r]
        S == Reopening(p, r) IN
    [p EXCEPT !.tasks = [t \in Tasks |-> IF t \in S
                            THEN Turned(p.tasks[t], k.undo.tasks[t].status) ELSE p.tasks[t]],
              !.reqs[r] = [k EXCEPT !.status = k.undo.status, !.changed = k.undo.changed,
                                    !.undo = None]]

(* Mutant: the tasks stay in the old project.                              *)
ProjectAlone(p, r, q) == [p EXCEPT !.reqs[r].project = q]

(* The tasks of a requirement follow it to another project.                *)
ProjectChanged(p, r, q) ==
    [PutTasks(p, TasksAt(p, r), LAMBDA k : [k EXCEPT !.project = q])
        EXCEPT !.reqs[r].project = q]

-----------------------------------------------------------------------------
(* Merges that reopened a requirement, and their undo (settle_reopen): the *)
(* requirement goes back once the last merge of those that came later is   *)
(* undone, whichever that is; until then they are handed the record.       *)

Reopened(p, r) ==
    [from |-> p.reqs[r].status, at |-> Stamp(p), changed |-> p.reqs[r].changed]

LaterCands(p, r, at) ==
    {c \in Cands : /\ p.cands[c].req = r /\ p.cands[c].status = "merged"
                   /\ p.cands[c].undo # None /\ p.cands[c].at > at}
InPlace(p, x, r) == p.merges[x] # None /\ p.merges[x].into = r /\ p.merges[x].main = r
LaterMerges(p, r, at) == {x \in Reqs : InPlace(p, x, r) /\ p.merges[x].at > at}

(* A candidate that came along with a requirement merged in may have a     *)
(* record of its own, of that requirement; it is written over.             *)
WrittenOver(p, C, record) ==
    {p.cands[c].undo.reopen.at : c \in {x \in C : p.cands[x].undo.reopen # None}} \ {record.at}

(* Mutant: only candidates are handed the record.                          *)
HandedToCands(p, C, X, record) ==
    [p EXCEPT !.cands = [c \in Cands |-> IF c \in C
                            THEN [p.cands[c] EXCEPT !.undo.reopen = record] ELSE p.cands[c]],
              !.lapsed = @ \cup WrittenOver(p, C, record)]

Handed(p, C, X, record) ==
    [p EXCEPT !.cands  = [c \in Cands |-> IF c \in C
                            THEN [p.cands[c] EXCEPT !.undo.reopen = record] ELSE p.cands[c]],
              !.merges = [x \in Reqs |-> IF x \in X
                            THEN [p.merges[x] EXCEPT !.reopen = record] ELSE p.merges[x]],
              !.lapsed = @ \cup WrittenOver(p, C, record)]

Settled(p, r, record) ==
    IF record = None THEN p
    ELSE IF p.reqs[r].status # "active" \/ p.reqs[r].changed # record.at
         THEN [p EXCEPT !.lapsed = @ \cup {record.at}]
    ELSE LET C == LaterCands(p, r, record.at)
             X == LaterMerges(p, r, record.at)
         IN  IF C = {} /\ X = {}
             THEN [p EXCEPT !.reqs[r].status = record.from, !.reqs[r].changed = record.changed]
             ELSE Handed(p, C, X, record)

-----------------------------------------------------------------------------
(* A requirement merged into another one of its project, and back.         *)

ConfirmedFrom(p, r) == {t \in Tasks : p.tasks[t].undo # None /\ p.tasks[t].undo.req = r}

(* Mutant: confirm_undo is forgotten.                                      *)
NotRepointed(p, S, r, m) == p

(* confirm_undo of the tasks in S names another requirement.               *)
Repointed(p, S, r, m) ==
    PutTasks(p, S \cap ConfirmedFrom(p, r), LAMBDA k : [k EXCEPT !.undo.req = m])

MayMerge(p, r, m) ==
    r # m /\ {r, m} \subseteq Here(p) /\ p.reqs[r].project = p.reqs[m].project

Merged(p, r, m) ==
    LET taken == {c \in Cands : p.cands[c].req = r /\ p.cands[c].status \in {"claimed", "merged"}}
        chained == {x \in Reqs : p.merges[x] # None /\ p.merges[x].into = r}
        opens == p.reqs[r].status = "active" /\ p.reqs[m].status # "active"
        record == [into |-> m, main |-> m, at |-> Stamp(p), row |-> p.reqs[r],
                   tasks |-> TasksAt(p, r),
                   cands |-> [c \in Cands |-> IF c \in taken THEN p.cands[c].status ELSE None],
                   chained |-> chained, confirms |-> ConfirmedFrom(p, r),
                   reopen |-> IF opens THEN Reopened(p, m) ELSE None]
        moved == PutTasks(p, TasksAt(p, r), LAMBDA k : Hung(k, m, k.cand, p.reqs[m].project))
    IN  [Repointed(moved, record.confirms, r, m) EXCEPT
            !.cands = [c \in Cands |-> IF c \in taken
                        THEN [p.cands[c] EXCEPT !.req = m, !.status = "merged"] ELSE p.cands[c]],
            !.merges = [x \in Reqs |-> IF x = r THEN record
                        ELSE IF x \in chained THEN [p.merges[x] EXCEPT !.into = m]
                        ELSE p.merges[x]],
            !.reqs = [x \in Reqs |-> IF x = r THEN NoReq
                      ELSE IF x = m /\ opens
                           THEN [p.reqs[m] EXCEPT !.status = "active", !.changed = Stamp(p)]
                      ELSE p.reqs[x]],
            !.opened = IF opens THEN @ \cup {Stamp(p)} ELSE @,
            !.clock = @ + 1]

MayUnmerge(p, r) ==
    p.merges[r] # None /\ InPlace(p, r, p.merges[r].main) /\ p.merges[r].main \in Here(p)

(* The tasks that came back, as the last change of status of the main      *)
(* requirement noted them.                                                 *)
NotedBack(u, S, r) ==
    IF u = None THEN None
    ELSE [u EXCEPT !.tasks = [t \in Tasks |-> IF t \in S /\ u.tasks[t] # None
                                THEN [u.tasks[t] EXCEPT !.req = r] ELSE u.tasks[t]]]

Unmerged(p, r) ==
    LET g == p.merges[r]
        m == g.main
        back == g.tasks \cap TasksAt(p, m)
        hung == PutTasks(p, back, LAMBDA k : Hung(k, r, k.cand, g.row.project))
        returned(c) == g.cands[c] # None /\ p.cands[c].req = m /\ p.cands[c].status = "merged"
        restored == [Repointed(hung, g.confirms, m, r) EXCEPT
            !.cands = [c \in Cands |-> IF returned(c)
                        THEN [p.cands[c] EXCEPT !.req = r, !.status = g.cands[c]] ELSE p.cands[c]],
            !.merges = [x \in Reqs |-> IF x = r THEN None
                        ELSE IF x \in g.chained /\ p.merges[x] # None /\ p.merges[x].into = m
                             THEN [p.merges[x] EXCEPT !.into = r]
                        ELSE p.merges[x]],
            !.reqs = [p.reqs EXCEPT ![r] = g.row, ![m].undo = NotedBack(@, back, r)],
            !.astray = @ \cup {c \in Cands : returned(c) /\ p.cands[c].at > g.at}]
    IN  Settled(restored, m, g.reopen)

-----------------------------------------------------------------------------
(* A candidate claimed as a new requirement, merged into one, or dropped.  *)

(* _hand_over: the tasks in the candidate's scope go along, the others are *)
(* taken off it.                                                           *)
HandedOver(p, c, r) ==
    PutTasks(p, {t \in Tasks : p.tasks[t].cand = c}, LAMBDA k :
        IF InScope(p, k.project) THEN Hung(k, r, None, p.reqs[r].project)
        ELSE Hung(k, None, None, k.project))

MayClaim(p, c, r) == p.cands[c].status = "pending" /\ r \notin Here(p) /\ p.merges[r] = None
Claimed(p, c, r, q) ==
    [HandedOver([p EXCEPT !.reqs[r] = NewReq(q)], c, r) EXCEPT
        !.cands[c] = [@ EXCEPT !.status = "claimed", !.req = r]]

MayMergeCand(p, c, r) == p.cands[c].status = "pending" /\ r \in Here(p)
CandMerged(p, c, r) ==
    LET opens == p.reqs[r].status = "done"
        undo == [tasks |-> [t \in Tasks |->
                    IF p.tasks[t].cand = c /\ InScope(p, p.tasks[t].project)
                    THEN [project |-> p.tasks[t].project] ELSE None],
                 reopen |-> IF opens THEN Reopened(p, r) ELSE None]
        over == HandedOver(p, c, r)
    IN  [over EXCEPT
            !.cands[c] = [@ EXCEPT !.status = "merged", !.req = r, !.at = Stamp(p), !.undo = undo],
            !.reqs[r] = IF opens THEN [@ EXCEPT !.status = "active", !.changed = Stamp(p)] ELSE @,
            !.opened = IF opens THEN @ \cup {Stamp(p)} ELSE @,
            !.clock = @ + 1]

MayUnmergeCand(p, c) == p.cands[c].status = "merged" /\ p.cands[c].undo # None
(* Mutant: the tasks come back without the project they had.               *)
CandUnmergedBare(p, c) ==
    LET k == p.cands[c]
        back == {t \in TasksAt(p, k.req) : k.undo.tasks[t] # None}
    IN  Settled([PutTasks(p, back, LAMBDA x : Hung(x, None, c, x.project))
                    EXCEPT !.cands[c] = NewCand, !.astray = @ \ {c}], k.req, k.undo.reopen)

CandUnmerged(p, c) ==
    LET k == p.cands[c]
        back == {t \in TasksAt(p, k.req) : k.undo.tasks[t] # None}
        hung == [p EXCEPT !.tasks = [t \in Tasks |-> IF t \in back
                    THEN Hung(p.tasks[t], None, c, k.undo.tasks[t].project) ELSE p.tasks[t]],
                          !.cands[c] = NewCand, !.astray = @ \ {c}]
    IN  Settled(hung, k.req, k.undo.reopen)

MayDrop(p, c) == p.cands[c].status = "pending"
Dropped(p, c) ==
    LET S == {t \in Tasks : p.tasks[t].cand = c} IN
    [PutTasks(p, S, LAMBDA k : Hung(k, k.req, None, k.project)) EXCEPT
        !.cands[c] = [NewCand EXCEPT !.status = "dropped", !.dropped = S]]

MayRestore(p, c) == p.cands[c].status = "dropped"
Restored(p, c) ==
    LET S == {t \in p.cands[c].dropped : p.tasks[t].cand = None /\ p.tasks[t].req = None} IN
    [PutTasks(p, S, LAMBDA k : Hung(k, None, c, k.project)) EXCEPT !.cands[c] = NewCand]

-----------------------------------------------------------------------------
(* The meeting moved to another project, or to none, and back.  No event   *)
(* is written for the tasks that go along.                                 *)

Movable(p, k) ==
    /\ k.req = None
    /\ \/ p.home # None /\ k.project = p.home
       \/ k.project = None /\ k.status \in Drafts

Reassigned(p, q) ==
    LET S == {t \in Tasks : Movable(p, p.tasks[t]) /\ p.tasks[t].project # q} IN
    [PutTasks(p, S, LAMBDA k : [k EXCEPT !.project = q]) EXCEPT
        !.home = q,
        !.move = [from |-> p.home, to |-> q,
                  tasks |-> [t \in Tasks |-> IF t \in S THEN [project |-> p.tasks[t].project]
                                             ELSE None]]]

MayUndoReassign(p) == p.move # None /\ p.home = p.move.to

(* The tasks that went along and are still in that project, whatever they  *)
(* hang on by now.                                                         *)
Returning(p) ==
    {t \in Tasks : p.move.tasks[t] # None /\ p.tasks[t].project = p.move.to}

ReassignUndone(p) ==
    LET S == Returning(p) IN
    [p EXCEPT !.tasks = [t \in Tasks |-> IF t \in S
                            THEN [p.tasks[t] EXCEPT !.project = p.move.tasks[t].project]
                            ELSE p.tasks[t]],
              !.home = p.move.from, !.move = None,
              !.strayed = @ \cup {t \in S : p.tasks[t].req # None}]

-----------------------------------------------------------------------------
(* The operations.  An undo is not counted against a bound.                *)

Edited(p) == pool' = [p EXCEPT !.edits = @ + 1]
Moved(p) == pool' = [p EXCEPT !.moves = @ + 1]

Update == \E t \in Tasks, l \in Links :
    MayLink(pool, pool.tasks[t], l) /\ Edited(Updated(pool, t, l))
Attach == \E t \in Tasks, r \in Here(pool) : Edited(Attached(pool, t, r))
Confirm == \E t \in Tasks, l \in Links :
    MayConfirm(pool, t, l) /\ Edited(Confirmed(pool, t, l))
Reject == \E t \in Tasks : MayReject(pool, t) /\ Edited(Rejected(pool, t))
SetStatus == \E t \in Tasks, s \in TaskStatuses :
    MaySetStatus(pool, t, s) /\ Edited(StatusSet(pool, t, s))
UndoReview == \E t \in Tasks : MayUndoReview(pool, t) /\ pool' = ReviewUndone(pool, t)
UndoComplete == \E t \in Tasks : MayUndoComplete(pool, t) /\ pool' = CompleteUndone(pool, t)

SetReq == \E r \in Reqs, s \in ReqStatuses, close \in BOOLEAN :
    MaySetReq(pool, r, s) /\ pool' = ReqSet(pool, r, s, close)
UndoReq == \E r \in Reqs : MayUndoReq(pool, r) /\ pool' = ReqUndone(pool, r)
Merge == \E r, m \in Reqs : MayMerge(pool, r, m) /\ pool' = Merged(pool, r, m)
Unmerge == \E r \in Reqs : MayUnmerge(pool, r) /\ pool' = Unmerged(pool, r)

Claim == \E c \in Cands, r \in Reqs, q \in Projects :
    MayClaim(pool, c, r) /\ pool' = Claimed(pool, c, r, q)
MergeCand == \E c \in Cands, r \in Reqs :
    MayMergeCand(pool, c, r) /\ pool' = CandMerged(pool, c, r)
UnmergeCand == \E c \in Cands : MayUnmergeCand(pool, c) /\ pool' = CandUnmerged(pool, c)
Drop == \E c \in Cands : MayDrop(pool, c) /\ pool' = Dropped(pool, c)
Restore == \E c \in Cands : MayRestore(pool, c) /\ pool' = Restored(pool, c)

ChangeProject == \E r \in Here(pool), q \in Projects :
    q # pool.reqs[r].project /\ Moved(ProjectChanged(pool, r, q))
Reassign == \E q \in Projects \cup {None} : q # pool.home /\ Moved(Reassigned(pool, q))
UndoReassign == MayUndoReassign(pool) /\ pool' = ReassignUndone(pool)

Room == pool.clock + pool.edits + pool.moves < MaxOps

Next ==
    \/ Room /\ pool.edits < MaxEdits /\ (Update \/ Attach \/ Confirm \/ Reject \/ SetStatus)
    \/ UndoReview \/ UndoComplete
    \/ Room /\ pool.clock < MaxClock /\ (SetReq \/ Merge \/ MergeCand)
    \/ UndoReq \/ Unmerge \/ UnmergeCand
    \/ Claim \/ Drop \/ Restore
    \/ Room /\ pool.moves < MaxMoves /\ (ChangeProject \/ Reassign)
    \/ UndoReassign

Spec == Init /\ [][Next]_pool

-----------------------------------------------------------------------------
(* Properties.                                                             *)

(* The columns of the tables, for stamps up to n, and of the notes kept    *)
(* for an undo: where a task was linked before it was confirmed, the tasks *)
(* that a change of a requirement's status closed, what a merge took.      *)
Stamps(n) == 0 .. n
Somewhere == Projects \cup {None}
OnReq == Reqs \cup {None}
OnCand == Cands \cup {None}

LinkRow == [req : OnReq, cand : OnCand, project : Somewhere]
TaskRow(n) ==
    [status : TaskStatuses, req : OnReq, cand : OnCand, project : Somewhere,
     closedAt : Stamps(n), undo : LinkRow \cup {None},
     last : {"other", "confirmed", "rejected", "done"},
     was : TaskStatuses \cup {None}, relinked : BOOLEAN]

ClosedRow == [status : TaskStatuses, req : Reqs]
StatusUndo(n) ==
    [at : Stamps(n), status : ReqStatuses, changed : Stamps(n),
     tasks : [Tasks -> ClosedRow \cup {None}]]
ReqRow(n) ==
    [here : BOOLEAN, project : Somewhere, status : ReqStatuses,
     changed : Stamps(n), undo : StatusUndo(n) \cup {None}]

ReopenRow(n) == [from : ReqStatuses, at : Stamps(n), changed : Stamps(n)]
Taken == [project : Somewhere]
CandUndo(n) == [tasks : [Tasks -> Taken \cup {None}], reopen : ReopenRow(n) \cup {None}]
CandRow(n) ==
    [status : {"pending", "claimed", "merged", "dropped"}, req : OnReq,
     at : Stamps(n), undo : CandUndo(n) \cup {None}, dropped : SUBSET Tasks]
MergeRow(n) ==
    [into : Reqs, main : Reqs, at : Stamps(n), row : ReqRow(n), tasks : SUBSET Tasks,
     cands : [Cands -> {"claimed", "merged", None}],
     chained : SUBSET Reqs, confirms : SUBSET Tasks, reopen : ReopenRow(n) \cup {None}]
MoveRow == [from : Somewhere, to : Somewhere, tasks : [Tasks -> Taken \cup {None}]]

(* NULL is no status and no note.                                          *)
ASSUME NullAssumption ==
    /\ None \notin {"claimed", "merged"} /\ None \notin LinkRow /\ None \notin ClosedRow
    /\ None \notin Taken /\ None \notin MoveRow
    /\ LET n == MaxClock + 1 IN
       /\ None \notin StatusUndo(n) /\ None \notin ReopenRow(n)
       /\ None \notin CandUndo(n) /\ None \notin MergeRow(n)

(* Every table keeps to its columns, and a stamp is one the clock gave.    *)
TypeOK ==
    /\ pool.clock \in 0 .. MaxClock /\ pool.edits \in 0 .. MaxEdits /\ pool.moves \in 0 .. MaxMoves
    /\ pool.home \in Somewhere /\ pool.move \in MoveRow \cup {None}
    /\ \A t \in Tasks : LET k == pool.tasks[t] IN
        /\ k \in TaskRow(pool.clock)
        /\ k.closedAt # 0 => k.status = "cancelled"
    /\ \A r \in Reqs : LET k == pool.reqs[r] IN
        /\ k \in ReqRow(pool.clock)
        /\ k.here => k.project \in Projects
        /\ pool.merges[r] \in MergeRow(pool.clock) \cup {None}
    /\ \A c \in Cands : LET k == pool.cands[c] IN
        /\ k \in CandRow(pool.clock)
        /\ k.status = "pending" => k = NewCand

(* A task hangs on a requirement that exists or on a candidate nobody has  *)
(* dealt with, never on both, and is in the project of its requirement     *)
(* (resolve_requirement_and_project), unless the undo of a move of its     *)
(* meeting took it from there.  (And every variable is of its type.)       *)
LinksAgree ==
    /\ TypeOK
    /\ \A t \in Tasks : LET k == pool.tasks[t] IN
        /\ k.req # None =>
            /\ k.req \in Here(pool) /\ k.cand = None
            /\ k.project = pool.reqs[k.req].project \/ t \in pool.strayed
        /\ k.cand # None => pool.cands[k.cand].status = "pending"

(* What points at a requirement points at one that is there: the merges    *)
(* name the requirement their requirement has ended up in, handled         *)
(* candidates theirs, and the link a confirmation would be undone to is    *)
(* never of a requirement merged away since.                               *)
PointersLive ==
    /\ \A r \in Reqs : pool.merges[r] # None =>
        r \notin Here(pool) /\ pool.merges[r].into \in Here(pool)
    /\ \A c \in Cands : pool.cands[c].status \in {"claimed", "merged"} =>
        pool.cands[c].req \in Here(pool)
    /\ \A t \in Tasks : pool.tasks[t].undo # None =>
        pool.tasks[t].undo.req \in Here(pool) \cup {None}

(* A requirement that a merge reopened, and that nobody has changed since, *)
(* has a merge in place that will close it again when it is undone as the  *)
(* last one, unless the record lapsed or went astray with its candidate.   *)
ReopenedIsSettled ==
    \A r \in Here(pool) : LET at == pool.reqs[r].changed IN
        pool.reqs[r].status = "active" /\ at \in pool.opened \ pool.lapsed =>
            \/ \E c \in Cands : /\ pool.cands[c].req = r \/ c \in pool.astray
                               /\ pool.cands[c].undo # None
                               /\ pool.cands[c].undo.reopen # None
                               /\ pool.cands[c].undo.reopen.at = at
            \/ \E x \in Reqs : /\ InPlace(pool, x, r) /\ pool.merges[x].reopen # None
                              /\ pool.merges[x].reopen.at = at

(* What an undo is compared by: what hangs where, and the statuses.        *)
TaskCore(p) == [t \in Tasks |->
    <<p.tasks[t].status, p.tasks[t].closedAt, LinkOf(p.tasks[t]), p.tasks[t].undo>>]
ReqCore(p) == [r \in Reqs |-> [p.reqs[r] EXCEPT !.undo = None]]
Same(p, q) ==
    TaskCore(p) = TaskCore(q) /\ ReqCore(p) = ReqCore(q) /\ p.cands = q.cands
    /\ p.merges = q.merges /\ p.home = q.home

(* The undo of an operation, taken at once, brings back what was there, in *)
(* whatever state it was done: a merge of requirements (D7), a merge of a  *)
(* candidate (R01-14) none of whose tasks had left its scope, a candidate  *)
(* dropped, a change of status (D11), a meeting moved, a task completed;   *)
(* and the undo of a confirmation brings back what the task hung on.       *)
UndoRestores ==
    pool.strayed = {} =>
    /\ \A r, m \in Reqs : MayMerge(pool, r, m) =>
        MayUnmerge(Merged(pool, r, m), r) /\ Same(Unmerged(Merged(pool, r, m), r), pool)
    /\ \A c \in Cands : pool.cands[c].status = "pending" =>
        /\ Same(Restored(Dropped(pool, c), c), pool)
        /\ \A r \in Here(pool) :
            (\A t \in Tasks : pool.tasks[t].cand = c => InScope(pool, pool.tasks[t].project)) =>
                Same(CandUnmerged(CandMerged(pool, c, r), c), pool)
    /\ \A r \in Here(pool), s \in ReqStatuses, close \in BOOLEAN : MaySetReq(pool, r, s) =>
        Same(ReqUndone(ReqSet(pool, r, s, close), r), pool)
    /\ \A q \in Projects \cup {None} : Same(ReassignUndone(Reassigned(pool, q)), pool)
    /\ \A t \in Tasks, l \in Links :
        /\ MaySetStatus(pool, t, "done") => Same(CompleteUndone(StatusSet(pool, t, "done"), t), pool)
        /\ MayConfirm(pool, t, l) /\ pool.tasks[t].status # "confirmed" =>
            LET after == ReviewUndone(Confirmed(pool, t, l), t).tasks[t] IN
            LinkOf(after) = LinkOf(pool.tasks[t]) /\ after.status = "pending_confirm"

=============================================================================
