-------------------------- MODULE ExternalChanges --------------------------
(***************************************************************************)
(* One meeting between its files and its database rows: the scan takes in  *)
(* what changed on the disk (importer.py, _import_meeting), the user saves *)
(* drafts and rolls back (service.py), publishes, and answers the conflict *)
(* the scan opens where both sides changed (main.py, db.ConflictStore).    *)
(*                                                                         *)
(* The scan looks once, at the files and at the row of the meeting, and    *)
(* then works in several transactions under the archive lock.  Saves and   *)
(* answers do not take that lock, so they fall between any two of them,    *)
(* and an error or a restart may cut the scan off.                         *)
(*                                                                         *)
(* Texts are numbers, and every edit, on the disk or in the page, makes a  *)
(* new one: a size and a modification time never come back, and so the     *)
(* source signature of the code is here the disk itself.                   *)
(*                                                                         *)
(* Abstracted: titles, dates, statuses, audio, manifests, speakers,        *)
(* embeddings and events; identities and quarantine of the bundles found   *)
(* on the disk; how a publication works (PublishJournal), here one step    *)
(* under the lock, from the visible directory only; sources of the relay   *)
(* that changed after the last scan, where it is refused.                  *)
(***************************************************************************)
EXTENDS Integers, Sequences, FiniteSets, FiniteSetsExt, SequencesExt

CONSTANTS
    None,
    MaxEvents,        \* bound: edits of files, drafts, roll backs and scans cut off
    MaxAnswers        \* bound: answers to conflicts

Resources == {"t", "m"}                  \* transcript and minutes
Dirs == {"hidden", "visible"}
Disks == [root: {"draft", "archive"}, dir: Dirs, t: Nat, m: Nat, w: Nat,
          new: {None} \cup [text: Nat, input: Nat]]
Conflicts == [id: Nat, sig: Disks, t: Nat, m: Nat, over: BOOLEAN]
Answers == [do: {"keep", "replace"}, con: Conflicts,
            cur: [Resources -> Nat], sig: {None} \cup Disks]

ASSUME ExternalAssumption ==
    /\ {MaxEvents, MaxAnswers} \subseteq Nat
    /\ None \notin Disks \cup Dirs \cup Conflicts \cup Answers \cup [text: Nat, input: Nat]

VARIABLES
    disk,             \* the files of the meeting
    rows,             \* table artifacts: what was indexed of each directory
    home,             \* meetings.canonical_dir
    sig,              \* meetings.source_signature
    ver,              \* transcript_versions and minutes_versions
    cur,              \* the current version of each
    con,              \* the open conflict external_source_change
    scan,             \* the running scan: what it saw and still has to do; over (observed
                      \* only): an answer replaced drafts meanwhile
    answer,           \* the answer to a conflict on its way
    cut,              \* acknowledged, but not taken in (observed only, see UpToDate)
    left              \* what the bounds leave

vars == <<disk, rows, home, sig, ver, cur, con, scan, answer, cut, left>>
database == <<rows, home, sig, ver, cur, con>>

\* What the index keeps of a file tree, and the part that is not Whisper's.
Content(d) == [t |-> d.t, m |-> d.m, w |-> d.w]
SameWords(c, d) == c.t = d.t /\ c.m = d.m

Version(kind, text, base, from) == [kind |-> kind, text |-> text, base |-> base, from |-> from]
Current(r) == ver[r][cur[r]]
IsDraft(r) == cur[r] # 0 /\ Current(r).kind = "draft"

Idle == scan.todo = <<>>
NoScan == [todo |-> <<>>]

Spend(what) == left[what] > 0 /\ left' = [left EXCEPT ![what] = @ - 1]

\* The transcript and the minutes of the relay's first attempt, not indexed yet.
Init ==
    /\ \E d \in Dirs :
          disk = [root |-> "draft", dir |-> d, t |-> 1, m |-> 1, w |-> 0, new |-> None]
    /\ rows = [d \in Dirs |-> None]
    /\ home = None /\ sig = None
    /\ ver = [r \in Resources |-> <<>>] /\ cur = [r \in Resources |-> 0]
    /\ con = None /\ scan = NoScan /\ answer = None /\ cut = FALSE
    /\ left = [events |-> MaxEvents, answers |-> MaxAnswers]

\* A text nobody wrote before.
NextText == 2 + MaxEvents - left.events

-----------------------------------------------------------------------------
(* The scan looks, and chooses what to do.                                 *)

\* Only a published meeting lies in the archive, whose files are compared with the index.
IndexedChanged == disk.root = "archive" /\ rows[disk.dir] # Content(disk)
Alone(d) == rows[d] # None /\ \A e \in Dirs \ {d} : rows[e] = None

\* A directory that moved: promoted by the relay, the old one gone.
Moved == home = "hidden" /\ disk.dir = "visible"

\* Only Whisper's files differ from the index.
WhisperOnly ==
    /\ disk.root = "draft" /\ sig # disk
    /\ home = disk.dir \/ Moved
    /\ Alone(home) /\ SameWords(rows[home], disk) /\ rows[home].w < disk.w

Relocated ==
    /\ disk.root = "draft" /\ Moved
    /\ rows["hidden"] # None /\ SameWords(rows["hidden"], disk)

\* Slip: only the index is compared.
UnchangedIndex == sig # None /\ ~IndexedChanged
Unchanged == sig = disk /\ ~IndexedChanged

\* Slip: the minutes are forgotten.
DraftedTranscript == IsDraft("t")
Drafted == IsDraft("t") \/ IsDraft("m")
CaptureBeforeMinutes == (IsDraft("t") /\ IndexedChanged) \/ con # None

Branch ==
    IF sig = None THEN "import"
    ELSE IF WhisperOnly THEN "refresh"
    ELSE IF Relocated THEN "relocate"
    ELSE IF Unchanged THEN "keep"
    ELSE IF disk.new # None /\ ~CaptureBeforeMinutes THEN "minutes"
    ELSE IF Drafted \/ disk.new # None THEN "capture"
    ELSE "import"

\* The transactions of each, in their order.
Missing == (IF cur["t"] = 0 THEN <<"transcript">> ELSE <<>>)
           \o (IF cur["m"] = 0 THEN <<"minutes">> ELSE <<>>)
Plan == [import   |-> <<"sign", "index", "transcript", "minutes">>,
         refresh  |-> <<"index", "sign">>,
         relocate |-> <<"index", "sign">>,
         keep     |-> <<"index">> \o Missing,
         minutes  |-> <<"index", "minutes">>,
         capture  |-> <<"transcript", "minutes", "index", "open">>]

\* What the scan finds belongs to the branch it took, whatever happens meanwhile.
Look ==
    /\ Idle
    /\ scan' = [todo |-> Plan[Branch] \o <<"clean">>, do |-> Branch, sig |-> disk, saw |-> cur,
                draft |-> IsDraft("m"), over |-> FALSE, t |-> 0, m |-> 0]
    /\ UNCHANGED <<disk, database, answer, cut, left>>

-----------------------------------------------------------------------------
(* Its transactions.                                                       *)

Step(what) == scan.todo # <<>> /\ Head(scan.todo) = what
Go(with) == scan' = [with EXCEPT !.todo = Tail(@)]
Readable == disk.dir = scan.sig.dir

\* The minutes of another attempt fit the transcript they were made from, or they are late.
Fits == cur["t"] # 0 /\ Current("t").text = disk.new.input

\* Those that meet a draft are offered in a conflict; otherwise the files are acknowledged.
Regeneration ==
    [scan EXCEPT !.do = IF Fits THEN "minutes" ELSE "late",
                 !.todo = <<"minutes", IF Fits /\ scan.draft THEN "open" ELSE "sign", "clean">>]

Index ==
    /\ Step("index") /\ Readable
    /\ rows' = [rows EXCEPT ![disk.dir] = Content(disk)]
    /\ scan' = IF scan.do = "minutes" THEN Regeneration
                ELSE [scan EXCEPT !.todo = Tail(@)]
    /\ UNCHANGED <<disk, home, sig, ver, cur, con, answer, cut, left>>

\* The versions the files are, of what was regenerated first.
TranscriptFile == Version("imported", disk.t, 0, disk.dir)
MinutesFile ==
    IF disk.new # None
    THEN Version(IF scan.do = "late" THEN "stale" ELSE "generated",
                 disk.new.text, cur["m"], disk.new.input)
    ELSE Version(IF disk.root = "archive" THEN "imported" ELSE "generated",
                 disk.m, cur["m"], 0)

\* A file that is a version already is not stored again.
Same(r, v, w) == v.text = w.text /\ v.from = w.from /\ (r = "m" => v.kind = w.kind)
Stored(r, file) ==
    IF \E i \in DOMAIN ver[r] : Same(r, ver[r][i], file) THEN ver ELSE [ver EXCEPT ![r] = Append(@, file)]
Id(r, file) == CHOOSE i \in DOMAIN Stored(r, file)[r] : Same(r, Stored(r, file)[r][i], file)

\* _transcript_version_changed, _minutes_version_changed: against what a draft was made from.
Changed(r, file) ==
    cur[r] # 0 => LET base == IF IsDraft(r) THEN Current(r).base ELSE cur[r]
                  IN  ver[r][base].text # file.text

Take(r, file) ==
    LET made == CASE scan.do \in {"capture", "late"} -> FALSE
                  [] scan.do = "minutes" -> ~scan.draft
                  [] OTHER -> TRUE
    IN  /\ Readable
        /\ ver' = Stored(r, file)
        /\ cur' = IF made THEN [cur EXCEPT ![r] = Id(r, file)] ELSE cur
        /\ Go(IF scan.do = "minutes" \/ (scan.do = "capture" /\ Changed(r, file))
              THEN [scan EXCEPT ![r] = Id(r, file)] ELSE scan)
        /\ UNCHANGED <<disk, rows, home, sig, con, answer, left>>

StoreTranscript ==
    Step("transcript") /\ Take("t", TranscriptFile) /\ UNCHANGED cut
ImportMinutes ==
    /\ Step("minutes") /\ Take("m", MinutesFile)
    /\ cut' = (cut /\ scan.do # "import")

Holds(r, text) == \E i \in DOMAIN ver[r] : ver[r][i].text = text

HoldsWords(d) == IF d.new # None THEN Holds("m", d.new.text) ELSE Holds("t", d.t) /\ Holds("m", d.m)

\* The words of the source are versions, and are what is shown unless there is a draft.
Shown(d) == /\ HoldsWords(d)
            /\ Drafted \/ d.new # None \/ \A r \in Resources : cur[r] # 0 => Current(r).text = d[r]

Sign ==
    /\ Step("sign")
    /\ sig' = scan.sig
    /\ home' = IF scan.do \in {"minutes", "late"} THEN home ELSE scan.sig.dir
    /\ rows' = IF scan.do \in {"refresh", "relocate"}
               THEN [d \in Dirs |-> IF d # scan.sig.dir THEN None ELSE rows[d]] ELSE rows
    /\ cut' = (cut \/ (scan.do \in {"refresh", "relocate"} /\ ~Shown(scan.sig)))
    /\ Go(scan)
    /\ UNCHANGED <<disk, ver, cur, con, answer, left>>

\* One conflict is open at a time: the next finding replaces what it says.
Opened(id) == [id |-> id, sig |-> scan.sig, t |-> scan.t, m |-> scan.m, over |-> scan.over]
OpenConflict ==
    /\ Step("open")
    /\ con' = Opened(IF con # None THEN con.id ELSE left.answers)
    /\ cut' = (cut /\ scan.do # "capture")
    /\ Go(scan)
    /\ UNCHANGED <<disk, rows, home, sig, ver, cur, answer, left>>

\* Rows of files that are gone go only after a scan without an error.
Clean ==
    /\ Step("clean")
    /\ rows' = [d \in Dirs |-> IF d = scan.sig.dir THEN rows[d] ELSE None]
    /\ scan' = NoScan
    /\ UNCHANGED <<disk, home, sig, ver, cur, con, answer, cut, left>>

\* Signed, but a version is there that the rest would have replaced.
Unread == /\ scan.do = "import" /\ ~Contains(scan.todo, "sign")
          /\ \E r \in Resources : cur[r] # 0 /\ Contains(scan.todo, [t |-> "transcript", m |-> "minutes"][r])
Stop == scan' = NoScan /\ cut' = (cut \/ Unread)

\* An error of the scan, or a restart.
Fail ==
    /\ ~Idle /\ Spend("events") /\ Stop
    /\ answer' \in {answer, None}
    /\ UNCHANGED <<disk, database>>

\* The directory was moved while it was being read.
Vanished ==
    /\ ~Idle /\ ~Readable /\ Head(scan.todo) \in {"index", "transcript", "minutes"} /\ Stop
    /\ UNCHANGED <<disk, database, answer, left>>

ScanStep == \/ Look \/ Index \/ StoreTranscript \/ ImportMinutes
            \/ Sign \/ OpenConflict \/ Clean \/ Vanished

-----------------------------------------------------------------------------
(* The user's drafts.                                                      *)

Put(r, v) == /\ ver' = [ver EXCEPT ![r] = Append(@, v)]
             /\ cur' = [cur EXCEPT ![r] = Len(ver[r]) + 1]
             /\ UNCHANGED <<disk, rows, home, sig, con, scan, answer, cut>>

\* Minutes keep the origin of those they are made from, transcripts have none.
From(r, v) == IF r = "m" THEN v.from ELSE None

SaveDraft(r) ==
    /\ cur[r] # 0 /\ Spend("events")
    /\ Put(r, Version("draft", NextText, cur[r], From(r, Current(r))))

\* rename_speaker, split_segment, merge_segments: within the draft, if there is one.
EditSegments ==
    /\ IsDraft("t") /\ Spend("events")
    /\ ver' = [ver EXCEPT !["t"][cur["t"]].text = NextText]
    /\ UNCHANGED <<disk, rows, home, sig, cur, con, scan, answer, cut>>

Rollback(r) ==
    \E i \in DOMAIN ver[r] :
        /\ Spend("events")
        /\ Put(r, Version("draft", ver[r][i].text, i, From(r, ver[r][i])))

-----------------------------------------------------------------------------
(* An answer reads meeting and conflict first and writes later.            *)

Answer(do) ==
    /\ answer = None /\ con # None /\ Spend("answers")
    /\ answer' = [do |-> do, con |-> con, cur |-> cur, sig |-> None]
    /\ UNCHANGED <<disk, database, scan, cut>>

\* Slip: whatever is on the disk is acknowledged.
SourceAsItIs == disk # None

\* keep_draft: what is on the disk has to be what the conflict speaks of.
SourceAsNamed == disk = answer.con.sig
CheckSource ==
    /\ answer # None /\ answer.do = "keep" /\ answer.sig = None /\ Idle
    /\ answer' = IF SourceAsNamed THEN [answer EXCEPT !.sig = disk] ELSE None
    /\ UNCHANGED <<disk, database, scan, cut, left>>

Resolved == IF con # None /\ con.id = answer.con.id THEN None ELSE con

KeepDraft ==
    /\ answer # None /\ answer.do = "keep" /\ answer.sig # None
    /\ sig' = answer.sig /\ con' = Resolved /\ answer' = None
    /\ cut' = (cut \/ ~Drafted)
    /\ UNCHANGED <<disk, rows, home, ver, cur, scan, left>>

\* accept_external, discard_draft: the draft the answer saw gives way.
GiveWay(r) ==
    IF answer.con[r] # 0 /\ answer.cur[r] # 0 /\ ver[r][answer.cur[r]].kind = "draft"
    THEN [ver[r] EXCEPT ![answer.cur[r]].kind = "replaced"] ELSE ver[r]
ReplaceDraft ==
    /\ answer # None /\ answer.do = "replace"
    /\ ver' = [r \in Resources |-> GiveWay(r)]
    /\ cur' = [r \in Resources |-> IF answer.con[r] # 0 THEN answer.con[r] ELSE cur[r]]
    /\ sig' = answer.con.sig /\ con' = Resolved /\ answer' = None
    /\ scan' = IF Idle THEN scan ELSE [scan EXCEPT !.over = TRUE]
    /\ cut' = (cut \/ answer.con.over)
    /\ UNCHANGED <<disk, rows, home, left>>

-----------------------------------------------------------------------------
(* A publication writes the current versions over the files.               *)

Published == [disk EXCEPT !.root = "archive", !.t = Current("t").text, !.m = Current("m").text]
Regenerated ==
    disk.new # None => Current("m").from = disk.new.input /\ Current("t").text = disk.new.input

Publish ==
    /\ Idle /\ con = None /\ \A r \in Resources : cur[r] # 0
    /\ home = "visible" /\ rows[home] # None /\ rows[home].w = disk.w /\ Regenerated
    /\ disk' = Published /\ sig' = Published
    /\ rows' = [rows EXCEPT ![home] = Content(Published)]
    /\ ver' = [r \in Resources |-> [ver[r] EXCEPT ![cur[r]].kind = "published"]]
    /\ cut' = FALSE
    /\ UNCHANGED <<home, cur, con, scan, answer, left>>

-----------------------------------------------------------------------------
(* What others do to the files.                                            *)

Touch == UNCHANGED <<database, scan, answer, cut>>

EditFile(r) == Spend("events") /\ disk' = [disk EXCEPT ![r] = NextText] /\ Touch
WhisperArrives ==
    disk.root = "draft" /\ Spend("events") /\ disk' = [disk EXCEPT !.w = @ + 1] /\ Touch
Promote ==
    /\ disk.dir = "hidden" /\ Spend("events") /\ disk' = [disk EXCEPT !.dir = "visible"] /\ Touch

\* Minutes regenerated from a transcript that was current once.
MinutesArrive ==
    /\ disk.root = "archive" /\ disk.new = None /\ Spend("events")
    /\ \E v \in Range(ver["t"]) :
          disk' = [disk EXCEPT !.new = [text |-> NextText, input |-> v.text]]
    /\ Touch

Next ==
    \/ ScanStep \/ Fail
    \/ \E r \in Resources : SaveDraft(r) \/ Rollback(r) \/ EditFile(r)
    \/ EditSegments
    \/ \E do \in {"keep", "replace"} : Answer(do)
    \/ CheckSource \/ KeepDraft \/ ReplaceDraft \/ Publish
    \/ WhisperArrives \/ Promote \/ MinutesArrive

\* The scan comes round every fifteen seconds; nothing makes a user answer.
Spec == Init /\ [][Next]_vars /\ WF_vars(ScanStep)

-----------------------------------------------------------------------------
(* Correctness.                                                            *)

\* A user's draft stays the current version until he saves another, or answers a conflict
\* that names it.  Excepted: a draft saved after the scan had looked whether there is one.
DraftsKept ==
    [][\A r \in Resources : IsDraft(r) /\ cur'[r] # cur[r] =>
          \/ ver'[r][cur'[r]].kind = "draft"
          \/ answer # None /\ answer.con[r] # 0
          \/ ~Idle /\ scan.saw[r] # cur[r]]_vars

\* When the source is acknowledged and nothing is open, its words are kept as versions, and
\* are what is shown unless the user has a draft.  Excepted, as cut: a scan cut off after it
\* signed, files indexed while they were edited and then found moved or with Whisper's
\* beside them, the keeping of a draft that was given up meanwhile, and the answer to a
\* conflict whose scan judged the versions before another answer replaced them.
UpToDate ==
    Idle /\ con = None /\ sig = disk /\ ~cut /\ (\A r \in Resources : cur[r] # 0) => Shown(disk)

\* Whatever happens on the disk is taken in or put before the user, as it is now.
ChangesNoticed == []<>(sig = disk \/ (con # None /\ con.sig = disk))
=============================================================================
