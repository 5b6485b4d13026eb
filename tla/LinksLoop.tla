----------------------------- MODULE LinksLoop -----------------------------
(***************************************************************************)
(* The background use of the LLM by the workbench (links_llm.py): one      *)
(* worker that ticks every minute, makes at most one call a tick, and      *)
(* feeds two kinds of work from their tables.                              *)
(*                                                                         *)
(*   mention_extractions (loose_mentions.py): the transcript of a meeting  *)
(*     is sent part by part; a reply cut off without one usable entry      *)
(*     splits the parts finer.                                             *)
(*   decision_scan (decisions.py, decision_pairs.py): the decisions in the *)
(*     minutes of a meeting are taken in by the links loop, then compared  *)
(*     with those of the other meetings of the project.                    *)
(*                                                                         *)
(* Beside the worker, people publish minutes, edit and redo transcripts    *)
(* and move meetings to other projects; the process may die in a call.     *)
(*                                                                         *)
(* Abstracted: a section of minutes is a value, 0 the one without          *)
(* decisions, and another value is a material change; any two decisions    *)
(* are alike enough to be compared; a transcript is the sequence of the    *)
(* sizes of its lines.  No meeting is older than the backfill window.      *)
(* Which due work a tick takes first is left open.                         *)
(***************************************************************************)
EXTENDS Integers, Sequences, FiniteSets, FiniteSetsExt

CONSTANTS
    Meetings, Projects, None,
    Home,             \* the project of every meeting at first
    Spoken,           \* meetings with a transcript in a project with indexed materials
    Sections,         \* what the decisions section of minutes may hold
    Texts,            \* transcripts
    Limits,           \* PART_CHARS, then a tenth less each step, down to MIN_PART_CHARS
    MaxParts,         \* MAX_PARTS
    Overlap,          \* OVERLAP_LINES
    MaxAttempts,      \* MAX_ATTEMPTS of either kind of work
    DailyCalls,       \* links_llm_daily_calls
    MaxEvents         \* bound: edits, moves, publications, bad replies, retries, crashes

ASSUME LinksAssumption ==
    /\ None \notin Projects /\ Home \in Projects /\ Spoken \subseteq Meetings
    /\ Sections \subseteq Nat /\ Texts \subseteq Seq(Nat \ {0})
    /\ Limits \in Seq(Nat \ {0}) /\ Limits # <<>>
    /\ {MaxParts, MaxAttempts, DailyCalls} \subseteq Nat \ {0}
    /\ {Overlap, MaxEvents} \subseteq Nat

VARIABLES
    project, minutes, \* of each meeting; minutes are <<version, section>>
    script,           \* the transcript versions of each meeting
    ext,              \* mention_extractions, None where there is no row
    scan,             \* decision_scan with the live decisions of the meeting
    w,                \* the worker
    hold, used,       \* its pause or backoff, and the calls of the day
    sent,             \* lines of the text of a row that were answered (observed only)
    compared,         \* decisions compared since they last changed (observed only)
    missed,           \* meetings one of which was away when the other was planned (observed only)
    events            \* counter of the bound

meetings == <<project, minutes, script>>
loop == <<w, hold, used>>
observed == <<sent, compared, missed>>
linksVars == <<meetings, ext, scan, loop, observed, events>>

Happens == events < MaxEvents /\ events' = events + 1

-----------------------------------------------------------------------------
(* The parts of a transcript.                                              *)

Sums(text) ==
    LET sum[i \in 0 .. Len(text)] == IF i = 0 THEN 0 ELSE sum[i - 1] + text[i] IN sum
Size(text, s, e) == Sums(text)[e] - Sums(text)[s - 1]
\* A part has at least one line, and as many as fit.
PartEnd(text, limit, s) ==
    Max({e \in s .. Len(text) : e = s \/ Size(text, s, e) <= limit})
Lesser(a, b) == Min({a, b})
\* The first line of the part after lines s to e.
NextStart(s, e) == Max({s + 1, e + 1 - Lesser(Overlap, (e - s + 2) \div 2)})
Pack(text, limit) ==
    LET from[s \in 1 .. Len(text)] ==
            LET e == PartEnd(text, limit, s)
            IN  <<<<s, e>>>> \o (IF e = Len(text) THEN <<>> ELSE from[NextStart(s, e)])
    IN  IF text = <<>> THEN <<>> ELSE from[1]
Sent(ranges) == SubSeq(ranges, 1, Lesser(MaxParts, Len(ranges)))
\* The ranges of each transcript at each limit, the coarsest first.
Ranges == [text \in Texts \cup {<<>>} |-> [i \in DOMAIN Limits |-> Pack(text, Limits[i])]]
SplitParts(text) == Sent(Ranges[text][1])
\* The limits at which there are at least n parts.
Steps(text, n) == {i \in DOMAIN Limits : Len(Ranges[text][i]) >= n}
Layout(text, n) ==
    Sent(Ranges[text][IF Steps(text, n) = {} THEN Len(Limits) ELSE Min(Steps(text, n))])
Finer(text, n) ==
    IF Steps(text, n + 1) = {} THEN <<>>
    ELSE LET ranges == Ranges[text][Min(Steps(text, n + 1))]
         IN  IF Len(ranges) <= MaxParts THEN ranges ELSE <<>>
Lines(range) == range[1] .. range[2]

-----------------------------------------------------------------------------
NewExtraction(m) ==
    LET text == script[m][Len(script[m])]
    IN  [state |-> "pending", version |-> Len(script[m]), text |-> text,
         parts |-> Max({1, Len(SplitParts(text))}), done |-> 0, attempts |-> 0, old |-> FALSE]
Unscanned == [version |-> 0, project |-> None, section |-> 0,
              pair |-> "idle", attempts |-> 0, wait |-> FALSE, old |-> FALSE]
Idle == [at |-> "idle"]

LinksInit ==
    /\ project = [m \in Meetings |-> Home]
    /\ minutes = [m \in Meetings |-> <<1, 1>>]
    /\ \E text \in [Spoken -> Texts] :
          script = [m \in Meetings |-> <<IF m \in Spoken THEN text[m] ELSE <<>> >>]
    /\ ext = [m \in Meetings |-> None]
    /\ scan = [m \in Meetings |-> Unscanned]
    /\ w = Idle /\ hold = "none" /\ used = 0
    /\ sent = [m \in Meetings |-> {}] /\ compared = {} /\ missed = {}
    /\ events = 0

-----------------------------------------------------------------------------
(* People.                                                                 *)

Publish(m) ==
    /\ Happens
    /\ \E s \in Sections : minutes' = [minutes EXCEPT ![m] = <<@[1] + 1, s>>]
    /\ UNCHANGED <<project, script, ext, scan, loop, observed>>

MoveMeeting(m) ==
    /\ Happens
    /\ \E p \in (Projects \cup {None}) \ {project[m]} : project' = [project EXCEPT ![m] = p]
    /\ UNCHANGED <<minutes, script, ext, scan, loop, observed>>

\* The current transcript edited in place, possibly down to nothing.
EditText(m) ==
    /\ m \in Spoken /\ Happens
    /\ \E t \in (Texts \cup {<<>>}) \ {script[m][Len(script[m])]} :
          script' = [script EXCEPT ![m][Len(script[m])] = t]
    /\ UNCHANGED <<project, minutes, ext, scan, loop, observed>>

\* The meeting transcribed again.
NewTranscript(m) ==
    /\ m \in Spoken /\ Happens
    /\ \E t \in Texts : script' = [script EXCEPT ![m] = Append(@, t)]
    /\ UNCHANGED <<project, minutes, ext, scan, loop, observed>>

-----------------------------------------------------------------------------
(* The links loop takes in the decisions of one meeting, in a transaction  *)
(* that finds its version and project still as they were when it parsed;   *)
(* the plain case, an unchanged section, only writes the ledger.           *)

MovedAway(m) == scan[m].project \notin {None, project[m]}
Moved(m) == scan[m].version # 0 /\ scan[m].project # project[m]

Ingest(m) ==
    LET was == scan[m]
        now == minutes[m]
        material == was.section # now[2]
        queued == (material \/ Moved(m)) /\ project[m] # None /\ now[2] # 0
        row == [was EXCEPT !.version = now[1], !.project = project[m], !.section = now[2]]
    IN  /\ was.version # now[1] \/ was.project # project[m]
        /\ scan' = [scan EXCEPT ![m] =
              IF queued THEN [row EXCEPT !.pair = "pending", !.attempts = 0, !.wait = FALSE,
                                         !.old = FALSE]
              ELSE row]
        /\ compared' = IF material THEN {c \in compared : \A d \in c : d[1] # m} ELSE compared
        /\ UNCHANGED <<meetings, ext, loop, sent, missed, events>>

-----------------------------------------------------------------------------
(* The worker: a tick while idle.                                          *)

Open == hold = "none" /\ used < DailyCalls

RecoverMentions ==
    /\ w = Idle
    /\ \E m \in Meetings : ext[m] # None /\ ext[m].old
    /\ ext' = [m \in Meetings |-> IF ext[m] # None /\ ext[m].old
                 THEN [ext[m] EXCEPT !.state = "pending", !.old = FALSE] ELSE ext[m]]
    /\ UNCHANGED <<meetings, scan, loop, observed, events>>

\* recover_claims, at the start of every tick.
RecoverClaims ==
    /\ w = Idle
    /\ \E m \in Meetings : scan[m].old \/ (ext[m] # None /\ ext[m].old)
    /\ ext' = [m \in Meetings |-> IF ext[m] # None /\ ext[m].old
                 THEN [ext[m] EXCEPT !.state = "pending", !.old = FALSE] ELSE ext[m]]
    /\ scan' = [m \in Meetings |-> IF scan[m].old
                 THEN [scan[m] EXCEPT !.pair = "pending", !.old = FALSE] ELSE scan[m]]
    /\ UNCHANGED <<meetings, loop, observed, events>>

SeedMentions ==
    LET due == {m \in Spoken : project[m] # None /\ ext[m] = None
                                 /\ script[m][Len(script[m])] # <<>>}
    IN  /\ w = Idle /\ due # {}
        /\ ext' = [m \in Meetings |-> IF m \in due THEN NewExtraction(m) ELSE ext[m]]
        /\ UNCHANGED <<meetings, scan, loop, observed, events>>

DueMention(m) == ext[m] # None /\ ext[m].state = "pending" /\ project[m] # None
DuePair(m) ==
    /\ scan[m].pair = "pending" /\ ~scan[m].wait
    /\ scan[m].version = minutes[m][1] /\ scan[m].project = project[m]

\* A row whose decisions are to be compared.  While no call may be made, it can
\* only be closed without one.
LookPair(m) ==
    /\ w = Idle /\ DuePair(m)
    /\ w' = [at |-> "row", m |-> m, version |-> scan[m].version, project |-> scan[m].project,
             may |-> Open]
    /\ UNCHANGED <<meetings, ext, scan, hold, used, observed, events>>

ComparedMeetings(m) ==
    {o \in Meetings \ {m} : scan[o].pair = "done" /\ project[o] = project[m] /\ scan[o].section # 0}
\* build_plan, in a read of its own.
PlanPair ==
    LET m == w.m
        others == IF project[m] = None \/ scan[m].section = 0 THEN {} ELSE ComparedMeetings(m)
        away == {o \in Meetings \ {m} : scan[o].project = w.project
                                          /\ {project[o], project[m]} # {w.project}}
    IN  /\ w.at = "row"
        /\ w' = [at |-> "plan", m |-> m, version |-> w.version, project |-> w.project, may |-> w.may,
                 live |-> scan[m].section, others |-> {<<o, scan[o].section>> : o \in others}]
        /\ missed' = missed \cup {{m, o} : o \in away}
        /\ UNCHANGED <<meetings, ext, scan, hold, used, sent, compared, events>>

RowUnchanged ==
    scan[w.m].pair = "pending" /\ scan[w.m].version = w.version /\ scan[w.m].project = w.project
Finished(m) == [scan EXCEPT ![m].pair = "done", ![m].attempts = 0, ![m].wait = FALSE]

\* Nothing to compare with, nor to place.
ClosePair ==
    /\ w.at = "plan" /\ w.others = {}
    /\ scan' = IF RowUnchanged THEN Finished(w.m) ELSE scan
    /\ w' = Idle
    /\ UNCHANGED <<meetings, ext, hold, used, observed, events>>

\* claim and charge.  Decisions without a requirement are worth a call alone.
ClaimPair ==
    /\ w.at = "plan" /\ (w.others # {} \/ (w.live # 0 /\ w.project # None))
    /\ IF w.may /\ RowUnchanged
       THEN /\ scan' = [scan EXCEPT ![w.m].pair = "running"]
            /\ used' = used + 1
            /\ w' = [w EXCEPT !.at = "pairs"]
       ELSE w' = Idle /\ UNCHANGED <<scan, used>>
    /\ UNCHANGED <<meetings, ext, hold, observed, events>>

\* claim and charge.
ClaimMention(m) ==
    /\ w = Idle /\ Open /\ DueMention(m)
    /\ ext' = [ext EXCEPT ![m].state = "running"]
    /\ used' = used + 1
    /\ w' = [at |-> "claimed", m |-> m]
    /\ UNCHANGED <<meetings, scan, hold, observed, events>>

-----------------------------------------------------------------------------
(* A call for the next part of a transcript.                               *)

EndWith(m, row) == ext' = [ext EXCEPT ![m] = row]
Advanced(m, total) ==
    [ext[m] EXCEPT !.state = IF ext[m].done + 1 >= total THEN "done" ELSE "pending",
                   !.parts = total, !.done = Lesser(ext[m].done + 1, total)]

\* The current transcript is empty: nothing to send.
FinishEmpty(m) ==
    /\ EndWith(m, [ext[m] EXCEPT !.state = "done"])
    /\ sent' = [sent EXCEPT ![m] = 1 .. Len(ext[m].text)]
    /\ w' = Idle

\* The text of the row, or the current one from its start if that text has changed.
ReadPart ==
    LET m == w.m
        changed == script[m][ext[m].version] # ext[m].text \/ ext[m].text = <<>>
        row == IF changed THEN [NewExtraction(m) EXCEPT !.state = "running",
                                                        !.attempts = ext[m].attempts]
               ELSE ext[m]
        ranges == Layout(row.text, row.parts)
    IN  /\ w.at = "claimed"
        /\ IF changed /\ row.text = <<>> THEN FinishEmpty(m)
           ELSE IF row.done >= Len(ranges)
           THEN /\ EndWith(m, [row EXCEPT !.state = "done", !.parts = Len(ranges),
                                          !.done = Len(ranges)])
                /\ w' = Idle /\ UNCHANGED sent
           ELSE /\ EndWith(m, row)
                /\ sent' = IF changed THEN [sent EXCEPT ![m] = {}] ELSE sent
                /\ w' = [at |-> "mention", m |-> m, ranges |-> ranges]
        /\ UNCHANGED <<meetings, scan, hold, used, compared, missed, events>>

Part == w.ranges[ext[w.m].done + 1]
Answered == sent' = [sent EXCEPT ![w.m] = @ \cup Lines(Part)]

\* Usable entries, or none at all; also some entries of a reply cut off.
PartAnswered ==
    /\ w.at = "mention"
    /\ EndWith(w.m, Advanced(w.m, Len(w.ranges)))
    /\ Answered
    /\ w' = Idle
    /\ UNCHANGED <<meetings, scan, hold, used, compared, missed, events>>

\* The parts of the finer layout that lie within those already answered.
StartWithin(ranges, upto) == Cardinality({i \in DOMAIN ranges : ranges[i][1] <= upto})
EndWithin(ranges, upto) == Cardinality({i \in DOMAIN ranges : ranges[i][2] <= upto})
Split(m, ranges, finer) ==
    LET done == ext[m].done
        upto == IF done = 0 THEN 0 ELSE ranges[done][2]
    IN  EndWith(m, [ext[m] EXCEPT !.state = "pending", !.parts = Len(finer),
                                  !.done = EndWithin(finer, upto)])
\* Cut off before the first entry: finer parts, or this one is given up.
PartCutOff ==
    LET finer == Finer(ext[w.m].text, Len(w.ranges))
    IN  /\ w.at = "mention" /\ Happens
        /\ IF finer = <<>> THEN EndWith(w.m, Advanced(w.m, Len(w.ranges))) /\ Answered
           ELSE Split(w.m, w.ranges, finer) /\ UNCHANGED sent
        /\ w' = Idle
        /\ UNCHANGED <<meetings, scan, hold, used, compared, missed>>

-----------------------------------------------------------------------------
(* A comparison.                                                           *)

StillClaimed == scan[w.m].pair = "running"
Asked == {{<<w.m, w.live>>, o} : o \in w.others}

\* _write: done if neither claim, version nor project changed meanwhile.
PairAnswered ==
    LET m == w.m
        unchanged == /\ scan[m].version = w.version /\ minutes[m][1] = w.version
                     /\ scan[m].project = w.project /\ project[m] = w.project
    IN  /\ w.at = "pairs"
        /\ IF StillClaimed
           THEN scan' = IF unchanged THEN Finished(m) ELSE [scan EXCEPT ![m].pair = "pending"]
           ELSE scan' = scan
        /\ compared' = IF StillClaimed /\ unchanged THEN compared \cup Asked ELSE compared
        /\ missed' = IF StillClaimed /\ unchanged
                       THEN missed \ {{m, o[1]} : o \in w.others} ELSE missed
        /\ w' = Idle
        /\ UNCHANGED <<meetings, ext, hold, used, sent, events>>

-----------------------------------------------------------------------------
(* Calls that fail.                                                        *)

AfterFailure(row) == IF row.attempts + 1 >= MaxAttempts THEN "failed" ELSE "pending"
FailedExtraction(row) == [row EXCEPT !.state = AfterFailure(row), !.attempts = @ + 1]
FailedPair(row) ==
    [row EXCEPT !.attempts = @ + 1, !.pair = AfterFailure(row),
                !.wait = row.attempts + 1 < MaxAttempts]
FailWork ==
    IF w.at = "mention" THEN EndWith(w.m, FailedExtraction(ext[w.m])) /\ UNCHANGED scan
    ELSE /\ UNCHANGED ext
         /\ scan' = IF StillClaimed THEN [scan EXCEPT ![w.m] = FailedPair(@)] ELSE scan
Release ==
    IF w.at = "mention" THEN EndWith(w.m, [ext[w.m] EXCEPT !.state = "pending"]) /\ UNCHANGED scan
    ELSE /\ UNCHANGED ext
         /\ scan' = IF StillClaimed THEN [scan EXCEPT ![w.m].pair = "pending"] ELSE scan

\* A reply that cannot be used, or bad_request.
BadReply ==
    /\ w.at \in {"mention", "pairs"} /\ Happens
    /\ FailWork
    /\ w' = Idle
    /\ UNCHANGED <<meetings, hold, used, observed>>

\* No key or one that does not fit, no balance: the loop pauses.  The network,
\* the server, an error of the program: it backs off.  A request that was not
\* sent is given back.
CallError ==
    /\ w.at \in {"mention", "pairs"} /\ Happens
    /\ Release
    /\ hold' \in {"paused", "backoff"} /\ used' \in {used, Max({0, used - 1})}
    /\ w' = Idle
    /\ UNCHANGED <<meetings, observed>>

\* The process dies; its claims stay.
ProcessDies ==
    /\ Happens
    /\ w' = Idle /\ hold' = "none"
    /\ UNCHANGED <<meetings, ext, scan, used, observed>>

-----------------------------------------------------------------------------
(* Time, the key, the button "retry now", and the matching of phrases to   *)
(* files (resolve_meeting), which looks at a finished extraction again     *)
(* once the meeting is transcribed anew.                                   *)

HeldByDead(m) == ~(w.at \in {"claimed", "mention", "pairs"} /\ w.m = m)
\* Ten minutes after the claim of a process that died.
ClaimAges(m) ==
    /\ HeldByDead(m)
    /\ \/ /\ ext[m] # None /\ ext[m].state = "running" /\ ~ext[m].old
          /\ ext' = [ext EXCEPT ![m].old = TRUE] /\ UNCHANGED scan
       \/ /\ scan[m].pair = "running" /\ ~scan[m].old
          /\ scan' = [scan EXCEPT ![m].old = TRUE] /\ UNCHANGED ext
    /\ UNCHANGED <<meetings, loop, observed, events>>

RetryDue(m) ==
    /\ scan[m].wait
    /\ scan' = [scan EXCEPT ![m].wait = FALSE]
    /\ UNCHANGED <<meetings, ext, loop, observed, events>>

NextDay ==
    /\ used > 0 /\ used' = 0
    /\ UNCHANGED <<meetings, ext, scan, w, hold, observed, events>>

BackoffEnds ==
    /\ hold = "backoff" /\ hold' = "none"
    /\ UNCHANGED <<meetings, ext, scan, w, used, observed, events>>
KeyChanges ==
    /\ hold = "paused" /\ hold' = "none"
    /\ UNCHANGED <<meetings, ext, scan, w, used, observed, events>>

\* requeue_failed and clear_pause.
RetryLinks ==
    /\ \/ hold # "none"
       \/ \E m \in Meetings : "failed" \in {scan[m].pair} \cup
                                 (IF ext[m] = None THEN {} ELSE {ext[m].state})
    /\ ext' = [m \in Meetings |-> IF ext[m] # None /\ ext[m].state = "failed"
                 THEN [ext[m] EXCEPT !.state = "pending", !.attempts = 0] ELSE ext[m]]
    /\ scan' = [m \in Meetings |-> IF scan[m].pair = "failed"
                 THEN [scan[m] EXCEPT !.pair = "pending", !.attempts = 0, !.wait = FALSE]
                 ELSE scan[m]]
    /\ hold' = "none"
    /\ UNCHANGED <<meetings, w, used, observed, events>>

\* The phrases are found in the new transcript, or it is extracted from its start.
Resolve(m) ==
    LET fresh == NewExtraction(m)
    IN  /\ ext[m] # None /\ ext[m].state = "done" /\ project[m] # None
        /\ ext[m].version < Len(script[m]) /\ fresh.text # <<>>
        /\ \/ EndWith(m, fresh) /\ sent' = [sent EXCEPT ![m] = {}]
           \/ /\ EndWith(m, [ext[m] EXCEPT !.version = fresh.version, !.text = fresh.text])
              /\ sent' = [sent EXCEPT ![m] = 1 .. Len(fresh.text)]
        /\ UNCHANGED <<meetings, scan, loop, compared, missed, events>>

-----------------------------------------------------------------------------
Tick ==
    \/ RecoverClaims \/ SeedMentions
    \/ \E m \in Meetings : LookPair(m) \/ ClaimMention(m)
    \/ PlanPair \/ ClosePair \/ ClaimPair \/ ReadPart
    \/ PartAnswered \/ PairAnswered

LinksNext ==
    \/ Tick
    \/ PartCutOff \/ BadReply \/ CallError \/ ProcessDies
    \/ \E m \in Meetings : \/ Publish(m) \/ MoveMeeting(m) \/ EditText(m) \/ NewTranscript(m)
                           \/ Ingest(m) \/ ClaimAges(m) \/ RetryDue(m) \/ Resolve(m)
    \/ NextDay \/ BackoffEnds \/ KeyChanges \/ RetryLinks

LinksSpec == LinksInit /\ [][LinksNext]_linksVars

\* The worker ticks, the links loop goes round, time passes, and somebody sees
\* to the key.
FairLinksSpec ==
    /\ LinksSpec
    /\ WF_linksVars(Tick)
    /\ WF_linksVars(NextDay) /\ WF_linksVars(BackoffEnds) /\ WF_linksVars(KeyChanges)
    /\ \A m \in Meetings : WF_linksVars(Ingest(m)) /\ WF_linksVars(ClaimAges(m)) /\ WF_linksVars(RetryDue(m))

-----------------------------------------------------------------------------
(* Properties.                                                             *)

LinksTypeOK ==
    /\ project \in [Meetings -> Projects \cup {None}]
    /\ \A m \in Meetings :
          /\ scan[m].pair \in {"idle", "pending", "running", "done", "failed"}
          /\ scan[m].attempts \in 0 .. MaxAttempts
          /\ ext[m] # None => /\ ext[m].state \in {"pending", "running", "done", "failed"}
                              /\ ext[m].done \in 0 .. ext[m].parts
    /\ hold \in {"none", "paused", "backoff"} /\ used \in 0 .. DailyCalls
    /\ events \in 0 .. MaxEvents

\* Decisions that the code holds to be compared.
Settled(m) ==
    /\ scan[m].pair = "done" /\ scan[m].section # 0 /\ project[m] # None
    /\ scan[m].version = minutes[m][1] /\ scan[m].project = project[m]

\* Two meetings of a project whose comparisons are done were compared with each
\* other since the decisions of either last changed in earnest: the one that
\* came last saw the other, whatever was published, moved or taken in between
\* the reading, the claim, the call and the write (decision_pairs.py:575-604,
\* 671-769; decisions.py:515-630).  Left out are two of which one was away in
\* another project, for less than a round of the links loop, while the
\* comparison of the other was planned.
PairsCompared ==
    /\ LinksTypeOK
    /\ \A m, o \in Meetings :
          /\ m # o /\ Settled(m) /\ Settled(o) /\ project[m] = project[o]
          => \/ {<<m, scan[m].section>>, <<o, scan[o].section>>} \in compared
             \/ {m, o} \in missed

\* Every line of the parts counted as done was sent and settled, in whatever
\* layout it was sent, through splits, restarts and repeated calls; and a
\* transcript that is done has no other lines but those beyond the last part
\* (loose_mentions.py:217-239, 581-758).
PartsCoverText ==
    \A m \in Meetings : ext[m] # None =>
        LET ranges == Layout(ext[m].text, ext[m].parts)
        IN  \A i \in DOMAIN ranges :
              i <= ext[m].done \/ ext[m].state = "done" => Lines(ranges[i]) \subseteq sent[m]

\* No transcript and no comparison waits for ever: each is done, failed, or of
\* a meeting that belongs to no project (links_llm.py:341-406).
WorkEnds ==
    \A m \in Meetings :
        []<>(/\ scan[m].pair \notin {"pending", "running"}
             /\ ext[m] # None => ext[m].state \notin {"pending", "running"} \/ project[m] = None)
=============================================================================
