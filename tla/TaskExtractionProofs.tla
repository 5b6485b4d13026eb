------------------------ MODULE TaskExtractionProofs ------------------------
(***************************************************************************)
(* Theorems about TaskExtraction, for every number of meetings, batches,   *)
(* requests, minutes versions, attempts and restarts, and however long a   *)
(* call of the model takes.  A batch taken back while a request was still  *)
(* calling the model for it is overrun: of such a batch less is known.     *)
(***************************************************************************)
EXTENDS TaskExtraction, TLAPS

Asks == [meeting: Meetings, version: 0..MaxVersions, supplement: Supplements]

(* Whoever works has what it works on.                                     *)
Placed ==
    /\ \A e \in Executors : at[e] \in CallSteps => job[e] \in Ids
    /\ \A q \in Requests : at[q] = "asked" => ask[q] \in Asks
    /\ at[Scan] = "note_minutes" => card \in Minutes

(* Rows are inserted in order.                                             *)
Fresh == \A r \in Ids : r[2] > last[r[1]] => rows[r].status = "absent"

(* One batch of a meeting per version and supplement.                      *)
Unique ==
    \A r, q \in Ids : r # q /\ r[1] = q[1] /\ Live(r) /\ Live(q)
                      => \/ rows[r].version # rows[q].version
                         \/ rows[r].supplement # rows[q].supplement

(* A running batch may go back to pending, so it must have a try left too. *)
TriesLeft == \A r \in Ids : rows[r].status \in {"pending", "running"}
                            => rows[r].tries < MaxAttempts \/ r \in overrun

(* What the scan holds and what an executor calls the model for is running *)
(* or was deleted by a request meanwhile; what has its answer is no longer *)
(* to be served; and nothing is carried twice.  All this holds of a batch  *)
(* until it is overrun; then it is still a row that was inserted, and the  *)
(* second to carry it is the scan.                                         *)
Overrun(r)  == r \in overrun /\ rows[r].status # "absent"
InWork(r)   == rows[r].status \in {"running", "deleted"} \/ Overrun(r)
Unserved(r) == rows[r].status \in {"absent", "pending", "running"}
Answered(r) == ~Unserved(r) \/ Overrun(r)
HeldOnce ==
    \A r \in held : /\ InWork(r)
                    /\ \A e \in Executors :
                         at[e] \in CallSteps => job[e] # r \/ r \in overrun
Calls ==
    \A e \in Executors :
        /\ at[e] = "call" => InWork(job[e])
        /\ at[e] \in {"card", "note"} => Answered(job[e])
CarriedOnce ==
    \A e, f \in Executors :
        e # f /\ at[e] \in CallSteps /\ at[f] \in CallSteps
        => job[e] # job[f] \/ (job[e] \in overrun /\ Scan \in {e, f})
Carriers == HeldOnce /\ Calls /\ CarriedOnce

(* A batch that is still to be served has no card, nor has one whose card  *)
(* is about to be posted.                                                  *)
NoCard(r) == draftPosts[r] = 0 \/ r \in overrun
Cards ==
    /\ \A r \in Ids : /\ draftPosts[r] <= 1 \/ r \in overrun
                      /\ Unserved(r) => NoCard(r)
    /\ \A r \in held : NoCard(r)
    /\ \A e \in Executors : at[e] \in {"call", "card"} => NoCard(job[e])

Inv == TypeOK /\ Placed /\ Fresh /\ Unique /\ TriesLeft /\ Carriers /\ Cards

----------------------------------------------------------------------------
(* Type correctness, one operation at a time.                              *)

(* An update of a batch keeps the type of its row.                         *)
LEMMA RowSet ==
  ASSUME NEW row \in Rows, NEW st \in Statuses, NEW b \in BOOLEAN
  PROVE  /\ [row EXCEPT !.status = st, !.stale = b] \in Rows
         /\ [row EXCEPT !.status = st, !.tries = @ + 1, !.stale = b] \in Rows
         /\ [row EXCEPT !.tries = @ + 1, !.status = st, !.stale = b] \in Rows
         /\ [row EXCEPT !.stale = b] \in Rows
<1>1. row.tries \in Nat /\ row.tries + 1 \in Nat
  BY DEF Rows
<1> QED BY <1>1 DEF Rows

LEMMA TypeStep ==
  ASSUME TypeOK, Placed, [Next]_vars
  PROVE  TypeOK'
<1> USE ExtractionAssumption
    DEF minutesVars, tableVars, scanVars, execVars, chatVars, pastVars
<1>1. CASE UNCHANGED vars
  BY <1>1 DEF TypeOK, vars
<1>2. ASSUME NEW m \in Meetings, Import(m) \/ SaveDraft(m) \/ Publish(m)
      PROVE  TypeOK'
  BY <1>2 DEF Import, SaveDraft, Publish, NewVersion, TypeOK, Kinds,
              RelinkKinds
<1>3. CASE SetKey
  BY <1>3 DEF SetKey, TypeOK
<1>4. ASSUME NEW m \in Meetings, CheckMinutes(m)
      PROVE  TypeOK'
  BY <1>4 DEF CheckMinutes, NewVersion, TypeOK, Kinds
<1>5. ASSUME NEW s, NEW t \in ScanSteps, ScanGoes(s, t)
       PROVE  /\ at' \in [Executors -> ScanSteps \cup RequestSteps
                                      \cup CallSteps]
              /\ at'[Scan] \in ScanSteps \cup CallSteps
  BY <1>5 DEF ScanGoes, TypeOK, Executors
<1>6. {"rest", "checkup", "recover", "seed", "select_minutes", "notify",
        "note_minutes", "select", "claim", "work"} \subseteq ScanSteps
  BY DEF ScanSteps
<1>7. \A r \in Ids : rows[r] \in Rows
  BY DEF TypeOK
<1>8. {"pending", "running", "done", "failed"} \subseteq Statuses
  BY DEF Statuses
<1>9. CASE StartRound \/ EndCheckup
  BY <1>9 DEF StartRound, EndCheckup, ScanGoes, TypeOK, ScanSteps
<1>10. CASE Recover
  <2>1. rows' \in [Ids -> Rows]
    <3>1. \A r \in Ids :
            [rows[r] EXCEPT !.status = "pending", !.stale = FALSE] \in Rows
      BY <1>7, <1>8, RowSet
    <3> QED BY <1>10, <1>7, <3>1 DEF Recover
  <2>2. ScanGoes("recover", "seed")
    BY <1>10 DEF Recover
  <2> QED BY <1>10, <1>5, <1>6, <2>1, <2>2 DEF Recover, TypeOK
<1>11. CASE Seed
  <2>1. ASSUME NEW ms \in SUBSET Meetings, NEW st \in {"skipped", "pending"},
               InsertFor(ms, st), \A m \in ms : last[m] < MaxRows
        PROVE  rows' \in [Ids -> Rows] /\ last' \in [Meetings -> 0..MaxRows]
    <3>1. \A r \in Ids : Row(version[r[1]], Plain, st) \in Rows
      BY DEF Row, Rows, Statuses, TypeOK, Ids
    <3>2. rows' \in [Ids -> Rows]
      BY <2>1, <3>1 DEF InsertFor, TypeOK
    <3>3. last' \in [Meetings -> 0..MaxRows]
      BY <2>1 DEF InsertFor, TypeOK
    <3> QED BY <3>2, <3>3
  <2>2. rows' \in [Ids -> Rows] /\ last' \in [Meetings -> 0..MaxRows]
    <3>1. CASE TableEmpty
      BY <1>11, <2>1, <3>1 DEF Seed, Backlog
    <3>2. CASE ~TableEmpty
      BY <1>11, <2>1, <3>2 DEF Seed, ToSeed
    <3> QED BY <3>1, <3>2
  <2>3. ScanGoes("seed", "select_minutes")
    BY <1>11 DEF Seed
  <2> QED BY <1>11, <1>5, <1>6, <2>2, <2>3 DEF Seed, TypeOK
<1>12. CASE SelectMinutes
  <2>1. ScanGoes("select_minutes", "notify") /\ cards' \subseteq Minutes
    BY <1>12 DEF SelectMinutes
  <2> QED BY <1>12, <1>5, <1>6, <2>1 DEF SelectMinutes, TypeOK
<1>13. ASSUME NEW c \in Minutes
      PROVE  Posted(minutesPosts, c) \in [Minutes -> 0..2]
  BY DEF Posted, TypeOK
<1>14. ASSUME NEW c \in Minutes, MinutesPosted(c)
       PROVE  TypeOK'
  <2>1. ScanGoes("notify", "note_minutes")
    BY <1>14 DEF MinutesPosted
  <2> QED BY <1>13, <1>14, <1>5, <1>6, <2>1 DEF MinutesPosted, TypeOK
<1>15. CASE MinutesNoted
  <2>1. ScanGoes("note_minutes", "notify") /\ card \in Minutes
    BY <1>15 DEF MinutesNoted, ScanGoes, Placed
  <2> QED BY <1>15, <1>5, <1>6, <2>1 DEF MinutesNoted, TypeOK
<1>16. ASSUME NEW c \in Minutes, MinutesUnconfirmed(c)
       PROVE  TypeOK'
  BY <1>13, <1>16 DEF MinutesUnconfirmed, TypeOK
<1>17. CASE EndNotify \/ EndClaims \/ EndRound \/ SelectWithoutKey
  BY <1>17 DEF EndNotify, EndClaims, EndRound, SelectWithoutKey, ScanGoes,
               TypeOK, ScanSteps
<1>18. CASE Select
  <2>1. ScanGoes("select", "claim") /\ todo' \subseteq Ids
    BY <1>18 DEF Select
  <2> QED BY <1>18, <1>5, <1>6, <2>1 DEF Select, TypeOK
<1>19. ASSUME NEW r \in Ids, Claim(r)
       PROVE  TypeOK'
  <2>1. Claimed(r) \in [Ids -> Rows]
    <3>1. [rows[r] EXCEPT !.status = "running", !.stale = FALSE] \in Rows
      BY <1>7, <1>8, RowSet
    <3>2. Claimed(r) =
            [rows EXCEPT ![r] =
                [rows[r] EXCEPT !.status = "running", !.stale = FALSE]]
      BY DEF Claimed, TypeOK
    <3> QED BY <3>1, <3>2 DEF TypeOK
  <2> QED BY <1>19, <2>1 DEF Claim, TypeOK
<1>20. ASSUME NEW r \in Ids, StartBatch(r)
       PROVE  TypeOK'
  BY <1>20 DEF StartBatch, TypeOK, CallSteps
<1>21. ASSUME NEW q \in Requests, NEW m \in Meetings, NEW s \in Supplements,
              AskAgain(q, m, s)
       PROVE  TypeOK'
  <2>1. q \in Executors /\ q # Scan
    BY DEF Executors
  <2> QED BY <1>21, <2>1 DEF AskAgain, TypeOK, RequestSteps
<1>22. ASSUME NEW q \in Requests, Refused(q) \/ RequestAborts(q)
       PROVE  TypeOK'
  <2>1. q \in Executors /\ q # Scan
    BY DEF Executors
  <2>2. CASE Refused(q)
    BY <2>1, <2>2 DEF Refused, TypeOK, RequestSteps
  <2>3. CASE RequestAborts(q)
    BY <2>1, <2>3 DEF RequestAborts, Fault, TypeOK, RequestSteps
  <2> QED BY <1>22, <2>2, <2>3
<1>23. ASSUME NEW q \in Requests, Accepted(q)
       PROVE  TypeOK'
  <2> DEFINE m == ask[q].meeting
             r == <<m, last[m] + 1>>
  <2>1. q \in Executors /\ q # Scan
    BY DEF Executors
  <2>2. ask[q] \in Asks
    BY <1>23 DEF Accepted, Placed
  <2>3. m \in Meetings /\ last[m] + 1 \in 1..MaxRows
    BY <1>23, <2>2 DEF Accepted, Asks, TypeOK
  <2>4. r \in Ids
    BY <2>3 DEF Ids
  <2>5. Row(ask[q].version, ask[q].supplement, NewBatchStatus) \in Rows
        /\ Deleted \in Rows
    BY <2>2 DEF Row, Rows, Asks, NewBatchStatus, Statuses, Deleted
  <2>6. rows' \in [Ids -> Rows]
    BY <1>23, <2>5 DEF Accepted, TypeOK
  <2>7. last' \in [Meetings -> 0..MaxRows]
    BY <1>23, <2>3 DEF Accepted, TypeOK
  <2>8. job' \in [Executors -> Ids \cup {NoRow}]
    BY <1>23, <2>4 DEF Accepted, TypeOK
  <2>9. /\ at' \in [Executors -> ScanSteps \cup RequestSteps \cup CallSteps]
        /\ at'[Scan] = at[Scan]
    BY <1>23, <2>1 DEF Accepted, TypeOK, CallSteps, Executors
  <2>10. ask' \in [Requests -> {NoAsk} \cup Asks]
    BY <1>23 DEF Accepted, TypeOK, NoAsk, Asks
  <2> QED BY <1>23, <2>6, <2>7, <2>8, <2>9, <2>10 DEF Accepted, TypeOK, Asks
<1>24. ASSUME NEW r \in Ids, NEW row \in Rows, Update(r, row)
       PROVE  rows' \in [Ids -> Rows]
  BY <1>24 DEF Update, TypeOK
<1>25. ASSUME NEW e \in Executors, NEW s, NEW t \in CallSteps, Goes(e, s, t)
       PROVE  /\ at' \in [Executors -> ScanSteps \cup RequestSteps
                                      \cup CallSteps]
              /\ at'[Scan] \in ScanSteps \cup CallSteps
  BY <1>25 DEF Goes, TypeOK, Executors
<1>26. ASSUME NEW e \in Executors, NEW s, Ends(e, s)
       PROVE  /\ at' \in [Executors -> ScanSteps \cup RequestSteps
                                      \cup CallSteps]
              /\ at'[Scan] \in ScanSteps \cup CallSteps
              /\ job' \in [Executors -> Ids \cup {NoRow}]
  BY <1>26
     DEF Ends, Goes, Home, TypeOK, Executors, ScanSteps, RequestSteps
<1>27. ASSUME NEW e \in Executors, at[e] = "call"
       PROVE  job[e] \in Ids /\ rows[job[e]] \in Rows
  BY <1>27 DEF Placed, TypeOK, CallSteps
<1>28. ASSUME NEW e \in Executors, Extracted(e)
       PROVE  TypeOK'
  <2>1. job[e] \in Ids /\ rows[job[e]] \in Rows
    BY <1>27, <1>28 DEF Extracted
  <2>2. rows' \in [Ids -> Rows]
    <3>1. [rows[job[e]] EXCEPT !.status = "done", !.tries = @ + 1,
                               !.stale = FALSE] \in Rows
      BY <1>8, <2>1, RowSet
    <3> QED BY <1>24, <1>28, <2>1, <3>1 DEF Extracted
  <2>3. drafts' \in [Meetings -> 0..MaxRows]
    <3>1. /\ job[e][1] \in Meetings
          /\ job[e][2] \in 0..MaxRows /\ 0 \in 0..MaxRows
      BY <2>1 DEF Ids
    <3> QED BY <1>28, <3>1 DEF Extracted, TypeOK
  <2>4. /\ at' \in [Executors -> ScanSteps \cup RequestSteps \cup CallSteps]
        /\ at'[Scan] \in ScanSteps \cup CallSteps
        /\ job' \in [Executors -> Ids \cup {NoRow}]
    <3>1. CASE Goes(e, "call", "card") /\ UNCHANGED job
      BY <1>25, <3>1 DEF TypeOK, CallSteps
    <3>2. CASE Ends(e, "call")
      BY <1>26, <3>2
    <3> QED BY <1>28, <3>1, <3>2 DEF Extracted
  <2> QED BY <1>28, <2>2, <2>3, <2>4 DEF Extracted, TypeOK
<1>29. ASSUME NEW e \in Executors, Unavailable(e)
       PROVE  TypeOK'
  <2>1. job[e] \in Ids /\ rows[job[e]] \in Rows
    BY <1>27, <1>29 DEF Unavailable, Ends, Goes
  <2>2. rows' \in [Ids -> Rows]
    <3>1. [rows[job[e]] EXCEPT !.status = "pending", !.stale = FALSE] \in Rows
      BY <2>1 DEF Rows, Statuses
    <3> QED BY <1>24, <1>29, <2>1, <3>1 DEF Unavailable
  <2>3. Ends(e, "call")
    BY <1>29 DEF Unavailable
  <2> QED BY <1>26, <1>29, <2>2, <2>3 DEF Unavailable, TypeOK
<1>30. CASE ScanFails
  <2>1. Scan \in Executors /\ job[Scan] \in Ids /\ rows[job[Scan]] \in Rows
    BY <1>27, <1>30 DEF ScanFails, Ends, Goes, Executors
  <2>2. rows' \in [Ids -> Rows]
    <3>1. AfterFailure(rows[job[Scan]]) \in Rows
      BY <1>8, <2>1, RowSet DEF AfterFailure
    <3> QED BY <1>24, <1>30, <2>1, <3>1 DEF ScanFails
  <2>3. Ends(Scan, "call")
    BY <1>30 DEF ScanFails
  <2> QED BY <1>26, <1>30, <2>1, <2>2, <2>3 DEF ScanFails, TypeOK
<1>31. ASSUME NEW q \in Requests, RequestFails(q)
       PROVE  TypeOK'
  <2>1. q \in Executors /\ job[q] \in Ids /\ rows[job[q]] \in Rows
    BY <1>27, <1>31 DEF RequestFails, Ends, Goes, Executors
  <2>2. rows' \in [Ids -> Rows]
    <3>1. [rows[job[q]] EXCEPT !.status = "failed", !.stale = FALSE] \in Rows
      BY <2>1 DEF Rows, Statuses
    <3> QED BY <1>24, <1>31, <2>1, <3>1 DEF RequestFails
  <2>3. Ends(q, "call")
    BY <1>31 DEF RequestFails
  <2> QED BY <1>26, <1>31, <2>1, <2>2, <2>3 DEF RequestFails, TypeOK
<1>32. ASSUME NEW r \in Ids
       PROVE  Posted(draftPosts, r) \in [Ids -> 0..2]
  BY DEF Posted, TypeOK
<1>33. ASSUME NEW e \in Executors, at[e] \in {"card", "note"}
       PROVE  job[e] \in Ids
  BY <1>33 DEF Placed, CallSteps
<1>34. ASSUME NEW e \in Executors, DraftPosted(e)
       PROVE  TypeOK'
  <2>1. Goes(e, "card", "note") /\ job[e] \in Ids
    BY <1>33, <1>34 DEF DraftPosted, Goes
  <2> QED BY <1>25, <1>32, <1>34, <2>1 DEF DraftPosted, TypeOK, CallSteps
<1>35. ASSUME NEW e \in Executors, DraftNoted(e)
       PROVE  TypeOK'
  <2>1. Ends(e, "note") /\ job[e] \in Ids
    BY <1>33, <1>35 DEF DraftNoted, Ends, Goes
  <2> QED BY <1>26, <1>35, <2>1 DEF DraftNoted, TypeOK
<1>36. ASSUME NEW e \in Executors, DraftUnconfirmed(e)
       PROVE  TypeOK'
  <2>1. Ends(e, "card") /\ job[e] \in Ids
    BY <1>33, <1>36 DEF DraftUnconfirmed, Ends, Goes
  <2>2. draftPosts' \in [Ids -> 0..2]
    BY <1>32, <1>36, <2>1 DEF DraftUnconfirmed, TypeOK
  <2> QED BY <1>26, <1>36, <2>1, <2>2 DEF DraftUnconfirmed, TypeOK
<1>37. ASSUME NEW r \in Ids, ClaimAges(r)
       PROVE  TypeOK'
  <2>1. rows' \in [Ids -> Rows]
    <3>1. [rows[r] EXCEPT !.stale = TRUE] \in Rows
      BY <1>7, <1>8, RowSet
    <3> QED BY <1>37, <3>1 DEF ClaimAges, TypeOK
  <2> QED BY <1>37, <2>1 DEF ClaimAges, TypeOK
<1>38. CASE ScanAborts
  <2>1. faults' \in 0..MaxFaults
    BY <1>38 DEF ScanAborts, Fault, TypeOK
  <2>2. /\ at' \in [Executors -> ScanSteps \cup RequestSteps \cup CallSteps]
        /\ at'[Scan] \in ScanSteps \cup CallSteps
    BY <1>38, <1>6 DEF ScanAborts, TypeOK, Executors
  <2> QED BY <1>38, <2>1, <2>2 DEF ScanAborts, Fault, TypeOK
<1>39. CASE Restart
  BY <1>39 DEF Restart, Fault, TypeOK, ScanSteps, RequestSteps, Executors
<1>40. Scan \in Executors /\ Requests \subseteq Executors
  BY DEF Executors
<1> QED BY <1>1, <1>2, <1>3, <1>4, <1>9, <1>10, <1>11, <1>12, <1>14, <1>15,
           <1>16, <1>17, <1>18, <1>19, <1>20, <1>21, <1>22, <1>23, <1>28,
           <1>29, <1>30, <1>31, <1>34, <1>35, <1>36, <1>37, <1>38, <1>39,
           <1>40
        DEF Next, ScanStep, RequestStep, Finishes

----------------------------------------------------------------------------
(* Steps that leave the batches and their cards alone, and give nobody a   *)
(* batch.                                                                  *)

Quiet ==
    /\ UNCHANGED <<rows, last, draftPosts, overrun>>
    /\ held' \subseteq held
    /\ \A e \in Executors : at'[e] \in CallSteps
                            => at'[e] = at[e] /\ job'[e] = job[e]

Served == Fresh /\ Unique /\ TriesLeft /\ Carriers /\ Cards

LEMMA QuietStep ==
  ASSUME Served, Quiet
  PROVE  Served'
<1>1. Fresh' /\ Unique' /\ TriesLeft'
  BY DEF Served, Quiet, Fresh, Unique, TriesLeft, Live
<1>2. HeldOnce'
  BY DEF Served, Quiet, Carriers, HeldOnce, InWork, Overrun
<1>3. Calls'
  BY DEF Served, Quiet, Carriers, Calls, InWork, Answered, Overrun, Unserved,
         CallSteps
<1>4. CarriedOnce'
  BY DEF Served, Quiet, Carriers, CarriedOnce
<1>5. Cards'
  BY DEF Served, Quiet, Cards, NoCard, Unserved, CallSteps
<1> QED BY <1>1, <1>2, <1>3, <1>4, <1>5 DEF Served, Carriers

(* A step of the scan from one of its own places to another.               *)
LEMMA ScanGoesQuiet ==
  ASSUME TypeOK, NEW s, NEW t \in ScanSteps, ScanGoes(s, t), job' = job
  PROVE  \A e \in Executors : at'[e] \in CallSteps
                              => at'[e] = at[e] /\ job'[e] = job[e]
<1>1. t \notin CallSteps
  BY DEF ScanSteps, CallSteps
<1> QED BY <1>1 DEF ScanGoes, TypeOK

LEMMA QuietActions ==
  ASSUME TypeOK,
         \/ UNCHANGED vars \/ SetKey \/ ScanAborts \/ Restart
         \/ \E m \in Meetings : \/ Import(m) \/ SaveDraft(m) \/ Publish(m)
                                \/ CheckMinutes(m)
         \/ StartRound \/ EndCheckup \/ SelectMinutes \/ MinutesNoted
         \/ EndNotify \/ Select \/ SelectWithoutKey \/ EndClaims \/ EndRound
         \/ \E c \in Minutes : MinutesPosted(c) \/ MinutesUnconfirmed(c)
         \/ \E q \in Requests : Refused(q) \/ RequestAborts(q)
         \/ \E q \in Requests, m \in Meetings, s \in Supplements :
              AskAgain(q, m, s)
  PROVE  Quiet
<1> USE DEF minutesVars, tableVars, scanVars, execVars, chatVars, pastVars
<1>1. {"rest", "checkup", "recover", "seed", "select_minutes", "notify",
       "note_minutes", "select", "claim", "work"} \subseteq ScanSteps
      /\ "idle" \notin CallSteps /\ "asked" \notin CallSteps
      /\ "rest" \notin CallSteps
  BY DEF ScanSteps, CallSteps
<1>2. CASE UNCHANGED vars \/ SetKey
  BY <1>2 DEF vars, SetKey, Quiet
<1>3. ASSUME NEW m \in Meetings,
             Import(m) \/ SaveDraft(m) \/ Publish(m) \/ CheckMinutes(m)
      PROVE  Quiet
  BY <1>3 DEF Import, SaveDraft, Publish, CheckMinutes, Quiet
<1>4. CASE StartRound
  <2>1. ScanGoes("rest", "checkup") /\ job' = job
    BY <1>4 DEF StartRound
  <2> QED BY <1>1, <1>4, <2>1, ScanGoesQuiet DEF StartRound, Quiet
<1>5. CASE EndCheckup
  <2>1. ScanGoes("checkup", "recover") /\ job' = job
    BY <1>5 DEF EndCheckup
  <2> QED BY <1>1, <1>5, <2>1, ScanGoesQuiet DEF EndCheckup, Quiet
<1>6. CASE SelectMinutes
  <2>1. ScanGoes("select_minutes", "notify") /\ job' = job
    BY <1>6 DEF SelectMinutes
  <2> QED BY <1>1, <1>6, <2>1, ScanGoesQuiet DEF SelectMinutes, Quiet
<1>7. CASE MinutesNoted
  <2>1. ScanGoes("note_minutes", "notify") /\ job' = job
    BY <1>7 DEF MinutesNoted
  <2> QED BY <1>1, <1>7, <2>1, ScanGoesQuiet DEF MinutesNoted, Quiet
<1>8. CASE EndNotify
  <2>1. ScanGoes("notify", "select") /\ job' = job
    BY <1>8 DEF EndNotify
  <2> QED BY <1>1, <1>8, <2>1, ScanGoesQuiet DEF EndNotify, Quiet
<1>9. CASE Select
  <2>1. ScanGoes("select", "claim") /\ job' = job
    BY <1>9 DEF Select
  <2> QED BY <1>1, <1>9, <2>1, ScanGoesQuiet DEF Select, Quiet
<1>10. CASE SelectWithoutKey
  <2>1. ScanGoes("select", "rest") /\ job' = job
    BY <1>10 DEF SelectWithoutKey
  <2> QED BY <1>1, <1>10, <2>1, ScanGoesQuiet DEF SelectWithoutKey, Quiet
<1>11. CASE EndClaims
  <2>1. ScanGoes("claim", "work") /\ job' = job
    BY <1>11 DEF EndClaims
  <2> QED BY <1>1, <1>11, <2>1, ScanGoesQuiet DEF EndClaims, Quiet
<1>12. CASE EndRound
  <2>1. ScanGoes("work", "rest") /\ job' = job
    BY <1>12 DEF EndRound
  <2> QED BY <1>1, <1>12, <2>1, ScanGoesQuiet DEF EndRound, Quiet
<1>13. ASSUME NEW c \in Minutes, MinutesPosted(c)
       PROVE  Quiet
  <2>1. ScanGoes("notify", "note_minutes") /\ job' = job
    BY <1>13 DEF MinutesPosted
  <2> QED BY <1>1, <1>13, <2>1, ScanGoesQuiet DEF MinutesPosted, Quiet
<1>14. ASSUME NEW c \in Minutes, MinutesUnconfirmed(c)
       PROVE  Quiet
  BY <1>14 DEF MinutesUnconfirmed, Quiet
<1>15. ASSUME NEW q \in Requests, Refused(q)
       PROVE  Quiet
  BY <1>1, <1>15 DEF Refused, Quiet, TypeOK
<1>16. ASSUME NEW q \in Requests, RequestAborts(q)
       PROVE  Quiet
  BY <1>1, <1>16 DEF RequestAborts, Fault, Quiet, TypeOK
<1>17. ASSUME NEW q \in Requests, NEW m \in Meetings, NEW s \in Supplements,
              AskAgain(q, m, s)
       PROVE  Quiet
  BY <1>1, <1>17 DEF AskAgain, Quiet, TypeOK
<1>18. CASE ScanAborts
  BY <1>1, <1>18 DEF ScanAborts, Fault, Quiet, TypeOK
<1>19. CASE Restart
  BY <1>1, <1>19 DEF Restart, Fault, Quiet
<1> QED BY <1>2, <1>3, <1>4, <1>5, <1>6, <1>7, <1>8, <1>9, <1>10, <1>11,
           <1>12, <1>13, <1>14, <1>15, <1>16, <1>17, <1>18, <1>19

----------------------------------------------------------------------------
(* Steps on the batches.                                                   *)

(* What changes neither what a row is of nor, for one that lives, that it  *)
(* does, keeps the batches apart.                                          *)
LEMMA UniqueKept ==
  ASSUME Unique,
         \A r \in Ids : Live(r)' => /\ Live(r)
                                    /\ rows'[r].version = rows[r].version
                                    /\ rows'[r].supplement = rows[r].supplement
  PROVE  Unique'
BY DEF Unique

LEMMA RecoverServed ==
  ASSUME TypeOK, Placed, Served, Recover
  PROVE  Served'
<1>1. ASSUME NEW r \in Ids
      PROVE  /\ rows'[r].version = rows[r].version
             /\ rows'[r].supplement = rows[r].supplement
             /\ rows'[r].tries = rows[r].tries
             /\ ~Stalled(r) => rows'[r] = rows[r]
             /\ Stalled(r) => /\ rows[r].status = "running" /\ rows[r].stale
                              /\ rows'[r].status = "pending"
  <2>1. rows[r] \in Rows
    BY DEF TypeOK
  <2>2. rows'[r] = IF Stalled(r) THEN [rows[r] EXCEPT !.status = "pending",
                                                      !.stale = FALSE]
                   ELSE rows[r]
    BY DEF Recover
  <2> QED BY <2>1, <2>2 DEF Rows, Stalled
<1>2. ASSUME NEW r \in Ids
      PROVE  /\ Unserved(r)' <=> Unserved(r)
             /\ r \in overrun => r \in overrun'
             /\ Stalled(r) /\ Carried(r) => r \in overrun'
             /\ Overrun(r) => Overrun(r)'
  BY <1>1 DEF Unserved, Overrun, Recover, Stalled
<1>3. ASSUME NEW r \in Ids
      PROVE  /\ Answered(r) => Answered(r)'
             /\ InWork(r) /\ Carried(r) => InWork(r)'
             /\ NoCard(r) => NoCard(r)'
  BY <1>1, <1>2 DEF Answered, InWork, Overrun, NoCard, Recover, chatVars
<1>4. ASSUME NEW e \in Executors
      PROVE  /\ job'[e] = job[e]
             /\ at'[e] \in CallSteps => at'[e] = at[e] /\ job[e] \in Ids
  BY DEF Recover, ScanGoes, TypeOK, Placed, CallSteps
<1>5. held' = held /\ draftPosts' = draftPosts /\ last' = last
      /\ held \subseteq Ids
  BY DEF Recover, chatVars, scanVars, TypeOK
<1>6. Fresh'
  BY <1>1, <1>5 DEF Served, Fresh
<1>7. Unique'
  BY <1>1, UniqueKept DEF Served, Live
<1>8. TriesLeft'
  BY <1>1, <1>2 DEF Served, TriesLeft
<1>9. HeldOnce'
  BY <1>2, <1>3, <1>4, <1>5 DEF Served, Carriers, HeldOnce, Carried
<1>10. Calls'
  BY <1>3, <1>4 DEF Served, Carriers, Calls, CallSteps, Carried
<1>11. CarriedOnce'
  BY <1>2, <1>4 DEF Served, Carriers, CarriedOnce
<1>12. Cards'
  <2>1. \A r \in Ids : /\ draftPosts[r] <= 1 \/ r \in overrun'
                       /\ Unserved(r)' => NoCard(r)'
    BY <1>2, <1>3 DEF Served, Cards
  <2>2. \A e \in Executors : at'[e] \in {"call", "card"} => NoCard(job[e])'
    BY <1>3, <1>4 DEF Served, Cards, CallSteps
  <2>3. \A r \in held : NoCard(r)'
    BY <1>3, <1>5 DEF Served, Cards
  <2> QED BY <1>5, <2>1, <2>2, <2>3 DEF Cards
<1> QED BY <1>6, <1>7, <1>8, <1>9, <1>10, <1>11, <1>12 DEF Served, Carriers

LEMMA SeedServed ==
  ASSUME TypeOK, Placed, Served, Seed
  PROVE  Served'
<1>1. PICK ms \in SUBSET Meetings, st \in {"skipped", "pending"} :
        /\ InsertFor(ms, st)
        /\ \A m \in ms, q \in Ids :
             q[1] = m /\ Live(q) /\ rows[q].version = version[m]
             => rows[q].supplement # Plain
  <2>1. CASE TableEmpty
    BY <2>1 DEF Seed, Backlog, TableEmpty
  <2>2. CASE ~TableEmpty
    BY <2>2 DEF Seed, ToSeed, Seeded
  <2> QED BY <2>1, <2>2
<1> DEFINE New(r) == r[1] \in ms /\ r[2] = last[r[1]] + 1
<1>2. ASSUME NEW r \in Ids
      PROVE  /\ r[1] \in Meetings /\ r[2] \in Nat /\ last[r[1]] \in Nat
             /\ New(r) => /\ rows[r].status = "absent"
                          /\ rows'[r] = Row(version[r[1]], Plain, st)
             /\ ~New(r) => rows'[r] = rows[r]
             /\ last'[r[1]] = IF r[1] \in ms THEN last[r[1]] + 1
                              ELSE last[r[1]]
  <2>1. r[1] \in Meetings /\ r[2] \in Nat /\ last[r[1]] \in 0..MaxRows
    BY DEF Ids, TypeOK
  <2>2. New(r) => rows[r].status = "absent"
    BY <2>1 DEF Served, Fresh
  <2> QED BY <1>1, <2>1, <2>2 DEF InsertFor
<1>3. overrun' = overrun
  BY DEF Seed, pastVars
<1>4. ASSUME NEW r \in Ids
      PROVE  /\ InWork(r) => InWork(r)' /\ rows'[r] = rows[r]
             /\ Answered(r) => Answered(r)'
             /\ Unserved(r)' => Unserved(r) \/ rows'[r] = rows[r]
             /\ NoCard(r) => NoCard(r)'
             /\ New(r) => /\ rows'[r].version = version[r[1]]
                          /\ rows'[r].supplement = Plain
                          /\ rows'[r].status = st /\ rows'[r].tries = 0
  <2>1. NoCard(r) => NoCard(r)'
    BY <1>3 DEF NoCard, Seed, chatVars
  <2>2. CASE New(r)
    <3>1. rows[r].status = "absent"
          /\ rows'[r] = Row(version[r[1]], Plain, st)
      BY <1>2, <2>2
    <3>2. /\ rows'[r].version = version[r[1]] /\ rows'[r].supplement = Plain
          /\ rows'[r].status = st /\ rows'[r].tries = 0
      BY <3>1 DEF Row
    <3> QED BY <2>1, <2>2, <3>1, <3>2 DEF InWork, Answered, Overrun, Unserved
  <2>3. CASE ~New(r)
    <3>1. rows'[r] = rows[r]
      BY <1>2, <2>3
    <3> QED BY <1>3, <2>1, <2>3, <3>1
            DEF InWork, Answered, Overrun, Unserved
  <2> QED BY <2>2, <2>3
<1>5. /\ \A e \in Executors :
           /\ job'[e] = job[e]
           /\ at'[e] \in CallSteps => at'[e] = at[e] /\ job[e] \in Ids
      /\ held' = held /\ draftPosts' = draftPosts /\ held \subseteq Ids
      /\ version' = version
  BY DEF Seed, ScanGoes, TypeOK, Placed, CallSteps, chatVars, scanVars,
         minutesVars
<1>6. Fresh'
  <2> SUFFICES ASSUME NEW r \in Ids, r[2] > last'[r[1]]
               PROVE  rows'[r].status = "absent"
    BY DEF Fresh
  <2>1. r[2] > last[r[1]] /\ ~New(r)
    BY <1>2
  <2> QED BY <1>2, <2>1 DEF Served, Fresh
<1>7. Unique'
  <2> SUFFICES ASSUME NEW r \in Ids, NEW q \in Ids, r # q, r[1] = q[1],
                      Live(r)', Live(q)'
               PROVE  \/ rows'[r].version # rows'[q].version
                      \/ rows'[r].supplement # rows'[q].supplement
    BY DEF Unique
  <2>1. ASSUME NEW x \in Ids, NEW y \in Ids, x[1] = y[1], New(x), New(y)
        PROVE  x = y
    BY <2>1 DEF Ids
  <2>2. CASE New(r)
    <3>1. ~New(q) /\ Live(q)
      BY <1>2, <2>1, <2>2 DEF Live
    <3>2. rows[q].version = version[r[1]] => rows[q].supplement # Plain
      BY <1>1, <2>2, <3>1
    <3> QED BY <1>2, <1>4, <2>2, <3>1, <3>2
  <2>3. CASE New(q)
    <3>1. ~New(r) /\ Live(r)
      BY <1>2, <2>1, <2>3 DEF Live
    <3>2. rows[r].version = version[q[1]] => rows[r].supplement # Plain
      BY <1>1, <2>3, <3>1
    <3> QED BY <1>2, <1>4, <2>3, <3>1, <3>2
  <2>4. CASE ~New(r) /\ ~New(q)
    BY <1>2, <2>4 DEF Served, Unique, Live
  <2> QED BY <2>2, <2>3, <2>4
<1>8. TriesLeft'
  <2>1. 0 < MaxAttempts
    BY ExtractionAssumption
  <2> QED BY <1>2, <1>3, <1>4, <2>1 DEF Served, TriesLeft
<1>9. HeldOnce'
  BY <1>3, <1>4, <1>5 DEF Served, Carriers, HeldOnce
<1>10. Calls'
  BY <1>4, <1>5 DEF Served, Carriers, Calls, CallSteps
<1>11. CarriedOnce'
  BY <1>3, <1>5 DEF Served, Carriers, CarriedOnce
<1>12. Cards'
  <2>1. \A r \in Ids : /\ draftPosts'[r] <= 1 \/ r \in overrun'
                       /\ Unserved(r)' => NoCard(r)'
    BY <1>3, <1>4, <1>5 DEF Served, Cards, Unserved
  <2>2. \A e \in Executors : at'[e] \in {"call", "card"} => NoCard(job[e])'
    BY <1>4, <1>5 DEF Served, Cards, CallSteps
  <2>3. \A r \in held : NoCard(r)'
    BY <1>4, <1>5 DEF Served, Cards
  <2> QED BY <1>5, <2>1, <2>2, <2>3 DEF Cards
<1> QED BY <1>6, <1>7, <1>8, <1>9, <1>10, <1>11, <1>12 DEF Served, Carriers

(* One row goes on without becoming another batch.                         *)
RowMoves(r, st) ==
    /\ \A x \in Ids : x # r => rows'[x] = rows[x]
    /\ rows'[r].version = rows[r].version
    /\ rows'[r].supplement = rows[r].supplement
    /\ rows'[r].status = st
    /\ last' = last

LEMMA RowMovesKeeps ==
  ASSUME TypeOK, Served, NEW r \in Ids, Live(r), NEW st, RowMoves(r, st)
  PROVE  Fresh' /\ Unique'
<1>1. Fresh'
  BY DEF Served, Fresh, RowMoves, Live
<1>2. Unique'
  BY UniqueKept DEF Served, RowMoves, Live
<1> QED BY <1>1, <1>2

LEMMA ClaimServed ==
  ASSUME TypeOK, Placed, Served, NEW r \in Ids, Claim(r)
  PROVE  Served'
<1>1. CASE rows[r].status # "pending"
  <2>1. Quiet
    BY <1>1 DEF Claim, Quiet, chatVars, pastVars
  <2> QED BY <2>1, QuietStep
<1>2. CASE rows[r].status = "pending"
  <2>1. rows' = Claimed(r) /\ held' = held \cup {r} /\ job' = job /\ at' = at
        /\ last' = last /\ draftPosts' = draftPosts /\ held \subseteq Ids
        /\ overrun' = overrun
    BY <1>2 DEF Claim, chatVars, pastVars, TypeOK
  <2>2. RowMoves(r, "running") /\ rows'[r].tries = rows[r].tries
    <3>1. rows[r] \in Rows /\ rows'[r] = [rows[r] EXCEPT !.status = "running",
                                                         !.stale = FALSE]
          /\ \A x \in Ids : x # r => rows'[x] = rows[x]
      BY <2>1 DEF Claimed, TypeOK
    <3> QED BY <2>1, <3>1 DEF Rows, RowMoves
  <2>3. Fresh' /\ Unique'
    BY <1>2, <2>2, RowMovesKeeps DEF Live
  <2>4. TriesLeft'
    BY <1>2, <2>1, <2>2 DEF Served, TriesLeft, RowMoves
  <2>5. ASSUME NEW e \in Executors, at[e] \in CallSteps
        PROVE  (job[e] # r \/ r \in overrun) /\ job[e] \in Ids
    BY <1>2, <2>5
       DEF Served, Carriers, Calls, InWork, Answered, Overrun, Unserved,
           CallSteps, Placed
  <2>6. ASSUME NEW x \in Ids
        PROVE  /\ InWork(x) \/ x = r => InWork(x)'
               /\ x # r \/ r \in overrun => (Answered(x) => Answered(x)')
               /\ Unserved(x)' => Unserved(x)
               /\ NoCard(x) => NoCard(x)'
    BY <1>2, <2>1, <2>2
       DEF InWork, Answered, Overrun, Unserved, NoCard, RowMoves
  <2>7. HeldOnce'
    BY <2>1, <2>5, <2>6 DEF Served, Carriers, HeldOnce
  <2>8. Calls'
    BY <2>1, <2>5, <2>6 DEF Served, Carriers, Calls, CallSteps
  <2>9. CarriedOnce'
    BY <2>1 DEF Served, Carriers, CarriedOnce
  <2>10. NoCard(r)
    BY <1>2 DEF Served, Cards, Unserved
  <2>11. Cards'
    BY <2>1, <2>5, <2>6, <2>10 DEF Served, Cards, CallSteps
  <2> QED BY <2>3, <2>4, <2>7, <2>8, <2>9, <2>11 DEF Served, Carriers
<1> QED BY <1>1, <1>2

LEMMA StartBatchServed ==
  ASSUME TypeOK, Placed, Served, NEW r \in Ids, StartBatch(r)
  PROVE  Served'
<1>1. r \in held /\ held' = held \ {r} /\ rows' = rows /\ last' = last
      /\ draftPosts' = draftPosts /\ overrun' = overrun
  BY DEF StartBatch, tableVars, chatVars, pastVars
<1>2. CASE ~Live(r)
  <2>1. Quiet
    BY <1>1, <1>2 DEF StartBatch, Quiet
  <2> QED BY <2>1, QuietStep
<1>3. CASE Live(r)
  <2>1. /\ Scan \in Executors /\ at'[Scan] = "call" /\ job'[Scan] = r
        /\ \A e \in Executors : e # Scan => at'[e] = at[e] /\ job'[e] = job[e]
    BY <1>3 DEF StartBatch, TypeOK, Executors
  <2>2. /\ InWork(r) /\ NoCard(r)
        /\ \A e \in Executors :
             at[e] \in CallSteps => job[e] # r \/ r \in overrun
    BY <1>1 DEF Served, Carriers, HeldOnce, Cards
  <2>3. Fresh' /\ Unique' /\ TriesLeft'
    BY <1>1 DEF Served, Fresh, Unique, TriesLeft, Live
  <2>4. \A x \in Ids : /\ InWork(x)' <=> InWork(x)
                       /\ Answered(x)' <=> Answered(x)
                       /\ Unserved(x)' <=> Unserved(x)
                       /\ NoCard(x)' <=> NoCard(x)
    BY <1>1 DEF InWork, Answered, Overrun, Unserved, NoCard
  <2>5. /\ held \subseteq Ids
        /\ \A e \in Executors : at[e] \in CallSteps => job[e] \in Ids
    BY DEF TypeOK, Placed
  <2>6. HeldOnce'
    <3> SUFFICES ASSUME NEW x \in held'
                 PROVE  /\ InWork(x)'
                        /\ \A e \in Executors :
                             at'[e] \in CallSteps
                             => job'[e] # x \/ x \in overrun
      BY <1>1 DEF HeldOnce
    <3>1. x \in held /\ x # r
      BY <1>1
    <3> QED BY <2>1, <2>4, <2>5, <3>1 DEF Served, Carriers, HeldOnce
  <2>7. Calls'
    BY <2>1, <2>2, <2>4, <2>5 DEF Served, Carriers, Calls, CallSteps
  <2>8. CarriedOnce'
    BY <1>1, <2>1, <2>2 DEF Served, Carriers, CarriedOnce
  <2>9. Cards'
    <3>1. \A x \in Ids : /\ draftPosts'[x] <= 1 \/ x \in overrun'
                         /\ Unserved(x)' => NoCard(x)'
      BY <1>1, <2>4 DEF Served, Cards
    <3>2. \A e \in Executors : at'[e] \in {"call", "card"} => NoCard(job[e])'
      BY <2>1, <2>2, <2>4, <2>5 DEF Served, Cards, CallSteps
    <3>3. \A x \in held' : NoCard(x)'
      BY <1>1, <2>4, <2>5 DEF Served, Cards
    <3> QED BY <3>1, <3>2, <3>3 DEF Cards
  <2> QED BY <2>3, <2>6, <2>7, <2>8, <2>9 DEF Served, Carriers
<1> QED BY <1>2, <1>3

LEMMA AcceptedServed ==
  ASSUME TypeOK, Placed, Served, NEW q \in Requests, Accepted(q)
  PROVE  Served'
<1> DEFINE m == ask[q].meeting
           r == <<m, last[m] + 1>>
<1>1. ask[q] \in Asks /\ q \in Executors
  BY DEF Accepted, Placed, Executors
<1>2. m \in Meetings /\ last[m] \in Nat /\ last[m] + 1 \in 1..MaxRows
  <2>1. m \in Meetings /\ last[m] \in 0..MaxRows /\ last[m] < MaxRows
    BY <1>1 DEF Accepted, Asks, TypeOK
  <2> QED BY <2>1, ExtractionAssumption
<1>3. r \in Ids /\ r[1] = m /\ r[2] = last[m] + 1
  BY <1>2 DEF Ids
<1>4. rows[r].status = "absent"
  BY <1>2, <1>3 DEF Served, Fresh
<1>5. /\ rows'[r].version = ask[q].version
      /\ rows'[r].supplement = ask[q].supplement
      /\ rows'[r].status = "running" /\ rows'[r].tries = 0 /\ ~rows'[r].stale
  <2>1. rows'[r] = Row(ask[q].version, ask[q].supplement, "running")
    BY <1>3 DEF Accepted, NewBatchStatus
  <2> QED BY <2>1 DEF Row
<1>6. ASSUME NEW x \in Ids, x # r
      PROVE  \/ rows'[x] = rows[x] /\ x \notin Superseded(m, ask[q].version)
             \/ /\ rows'[x].status = "deleted" /\ ~rows'[x].stale
                /\ Live(x)
  <2>1. CASE x \in Superseded(m, ask[q].version)
    <3>1. rows'[x] = Deleted
      BY <1>6, <2>1 DEF Accepted
    <3> QED BY <2>1, <3>1 DEF Deleted, Row, Superseded
  <2>2. CASE x \notin Superseded(m, ask[q].version)
    BY <1>6, <2>2 DEF Accepted
  <2> QED BY <2>1, <2>2
<1>7. /\ held' = held /\ held \subseteq Ids /\ draftPosts' = draftPosts
      /\ job'[q] = r /\ at'[q] = "call" /\ at[q] = "asked"
      /\ \A e \in Executors : e # q => at'[e] = at[e] /\ job'[e] = job[e]
      /\ overrun' = overrun
  BY <1>1 DEF Accepted, scanVars, chatVars, pastVars, TypeOK
<1>8. \A x \in Meetings : last'[x] = IF x = m THEN last[m] + 1 ELSE last[x]
  BY <1>2 DEF Accepted, TypeOK
<1>9. ASSUME NEW e \in Executors, at[e] \in CallSteps
      PROVE  job[e] # r /\ job[e] \in Ids
  BY <1>4, <1>9
     DEF Served, Carriers, Calls, InWork, Answered, Overrun, Unserved,
         CallSteps, Placed
<1>10. r \notin held
  BY <1>4 DEF Served, Carriers, HeldOnce, InWork, Overrun
<1>11. ASSUME NEW x \in Ids, x # r
       PROVE  /\ InWork(x) => InWork(x)'
              /\ Answered(x) => Answered(x)'
              /\ Unserved(x)' => Unserved(x)
              /\ NoCard(x) <=> NoCard(x)'
              /\ Live(x)' => rows'[x] = rows[x] /\ Live(x)
  BY <1>6, <1>7, <1>11
     DEF InWork, Answered, Overrun, Unserved, NoCard, Live
<1>12. Fresh'
  <2> SUFFICES ASSUME NEW x \in Ids, x[2] > last'[x[1]]
               PROVE  rows'[x].status = "absent"
    BY DEF Fresh
  <2>1. x[1] \in Meetings /\ x[2] \in Nat /\ last[x[1]] \in Nat
    BY DEF Ids, TypeOK
  <2>2. x[2] > last[x[1]] /\ x # r
    BY <1>2, <1>3, <1>8, <2>1
  <2>3. rows[x].status = "absent"
    BY <2>2 DEF Served, Fresh
  <2> QED BY <1>6, <2>2, <2>3 DEF Live
<1>13. Unique'
  <2> SUFFICES ASSUME NEW x \in Ids, NEW y \in Ids, x # y, x[1] = y[1],
                      Live(x)', Live(y)'
               PROVE  \/ rows'[x].version # rows'[y].version
                      \/ rows'[x].supplement # rows'[y].supplement
    BY DEF Unique
  <2>1. ASSUME NEW z \in Ids, z # r, z[1] = m, Live(z)'
        PROVE  rows'[z].version # ask[q].version
    BY <1>6, <1>11, <2>1 DEF Superseded, Live
  <2>2. CASE x = r
    BY <1>3, <1>5, <2>1, <2>2
  <2>3. CASE y = r
    BY <1>3, <1>5, <2>1, <2>3
  <2>4. CASE x # r /\ y # r
    BY <1>11, <2>4 DEF Served, Unique
  <2> QED BY <2>2, <2>3, <2>4
<1>14. TriesLeft'
  <2>1. 0 < MaxAttempts
    BY ExtractionAssumption
  <2>2. ASSUME NEW x \in Ids, x # r, rows'[x].status \in {"pending", "running"}
        PROVE  rows'[x].tries < MaxAttempts \/ x \in overrun
    BY <1>6, <2>2 DEF Served, TriesLeft
  <2> QED BY <1>5, <1>7, <2>1, <2>2 DEF TriesLeft
<1>15. HeldOnce'
  BY <1>7, <1>10, <1>11 DEF Served, Carriers, HeldOnce
<1>16. Calls'
  <2>1. ASSUME NEW e \in Executors
        PROVE  /\ at'[e] = "call" => InWork(job[e])'
               /\ at'[e] \in {"card", "note"} => Answered(job[e])'
    <3>1. CASE e = q
      BY <1>3, <1>5, <1>7, <3>1 DEF InWork
    <3>2. CASE e # q
      BY <1>7, <1>9, <1>11, <3>2
         DEF Served, Carriers, Calls, CallSteps
    <3> QED BY <3>1, <3>2
  <2> QED BY <2>1 DEF Calls
<1>17. CarriedOnce'
  BY <1>7, <1>9 DEF Served, Carriers, CarriedOnce
<1>18. Cards'
  <2>1. \A x \in Ids : NoCard(x)' <=> NoCard(x)
    BY <1>7 DEF NoCard
  <2>2. \A x \in Ids : x = r => NoCard(x)'
    BY <1>4, <2>1 DEF Served, Cards, Unserved
  <2>3. \A x \in Ids : /\ draftPosts'[x] <= 1 \/ x \in overrun'
                       /\ Unserved(x)' => NoCard(x)'
    BY <1>7, <1>11, <2>2, <2>1 DEF Served, Cards
  <2>4. \A x \in held' : NoCard(x)'
    BY <1>7, <2>1 DEF Served, Cards
  <2>5. \A e \in Executors : at'[e] \in {"call", "card"} => NoCard(job[e])'
    <3>1. ASSUME NEW e \in Executors, at'[e] \in {"call", "card"}
          PROVE  \A x \in Ids : x = job'[e] => NoCard(x)'
      BY <1>7, <1>9, <2>2, <2>1, <3>1 DEF Served, Cards, CallSteps
    <3>2. \A e \in Executors : at'[e] \in CallSteps => job'[e] \in Ids
      BY <1>3, <1>7, <1>9
    <3> QED BY <3>1, <3>2 DEF CallSteps
  <2> QED BY <2>3, <2>4, <2>5 DEF Cards
<1> QED BY <1>12, <1>13, <1>14, <1>15, <1>16, <1>17, <1>18
        DEF Served, Carriers

----------------------------------------------------------------------------
(* The end of a call, by whoever called: the batch has its outcome, unless *)
(* it was deleted, and its executor goes home or to the card.              *)
Outcome(e, st) ==
    /\ \/ RowMoves(job[e], st) /\ Live(job[e])
       \/ rows' = rows /\ last' = last /\ ~Live(job[e])
    /\ held' = held /\ draftPosts' = draftPosts /\ overrun' = overrun
    /\ \A f \in Executors : f # e => at'[f] = at[f] /\ job'[f] = job[f]
    /\ \/ at'[e] \notin CallSteps
       \/ at'[e] = "card" /\ job'[e] = job[e] /\ st = "done"

LEMMA OutcomeServed ==
  ASSUME TypeOK, Placed, Served, NEW e \in Executors, at[e] = "call",
         NEW st \in {"pending", "done", "failed"}, Outcome(e, st),
         st = "pending" => \/ rows'[job[e]].tries < MaxAttempts
                           \/ ~Live(job[e]) \/ job[e] \in overrun
  PROVE  Served'
<1> DEFINE r == job[e]
<1>1. r \in Ids /\ InWork(r) /\ NoCard(r) /\ held \subseteq Ids
  BY DEF Placed, Served, Carriers, Calls, Cards, CallSteps, TypeOK
<1>2. /\ r \notin held \/ r \in overrun
      /\ \A f \in Executors : f # e /\ at[f] \in CallSteps
                              => (job[f] # r \/ r \in overrun)
                                 /\ job[f] \in Ids
  BY DEF Served, Carriers, HeldOnce, CarriedOnce, CallSteps, Placed
<1>3. \A x \in Ids : x # r => rows'[x] = rows[x]
  BY DEF Outcome, RowMoves
<1>4. last' = last /\ held' = held /\ draftPosts' = draftPosts
      /\ overrun' = overrun
  BY DEF Outcome, RowMoves
<1>5. Fresh' /\ Unique'
  <2>1. CASE RowMoves(r, st) /\ Live(r)
    BY <1>1, <2>1, RowMovesKeeps
  <2>2. CASE rows' = rows /\ last' = last
    BY <2>2 DEF Served, Fresh, Unique, Live
  <2> QED BY <2>1, <2>2 DEF Outcome
<1>6. TriesLeft'
  <2>1. ASSUME rows'[r].status \in {"pending", "running"}
        PROVE  rows'[r].tries < MaxAttempts \/ r \in overrun
    <3>1. CASE RowMoves(r, st) /\ Live(r)
      BY <2>1, <3>1 DEF RowMoves
    <3>2. CASE rows' = rows /\ ~Live(r)
      BY <1>1, <2>1, <3>2 DEF InWork, Overrun, Live
    <3> QED BY <3>1, <3>2 DEF Outcome
  <2> QED BY <1>3, <1>4, <2>1 DEF Served, TriesLeft
<1>7. rows'[r].status # "absent"
  BY <1>1 DEF Outcome, RowMoves, Live, InWork, Overrun
<1>8. ASSUME NEW x \in Ids, x # r \/ r \in overrun
      PROVE  /\ InWork(x) => InWork(x)'
             /\ Answered(x) => Answered(x)'
  <2>1. CASE x = r
    BY <1>4, <1>7, <1>8, <2>1 DEF InWork, Answered, Overrun
  <2>2. CASE x # r
    BY <1>3, <1>4, <2>2 DEF InWork, Answered, Overrun, Unserved
  <2> QED BY <2>1, <2>2
<1>9. \A x \in Ids : NoCard(x)' <=> NoCard(x)
  BY <1>4 DEF NoCard
<1>10. \A f \in Executors : at'[f] \in CallSteps =>
           /\ at[f] \in CallSteps /\ job'[f] = job[f] /\ job[f] \in Ids
           /\ f # e => at'[f] = at[f]
  BY <1>1, <1>2 DEF Outcome, CallSteps
<1>11. HeldOnce'
  <2> SUFFICES ASSUME NEW x \in held
               PROVE  /\ InWork(x)'
                      /\ \A f \in Executors :
                           at'[f] \in CallSteps
                           => job'[f] # x \/ x \in overrun
    BY <1>4 DEF HeldOnce
  <2>1. (x # r \/ r \in overrun) /\ x \in Ids
    BY <1>1, <1>2
  <2> QED BY <1>8, <1>10, <2>1 DEF Served, Carriers, HeldOnce
<1>12. Calls'
  <2>1. ASSUME NEW f \in Executors
        PROVE  /\ at'[f] = "call" => InWork(job[f])'
               /\ at'[f] \in {"card", "note"} => Answered(job[f])'
    <3>1. CASE f = e
      <4>1. /\ at'[e] # "call"
            /\ at'[e] \in {"card", "note"}
                 => at'[e] = "card" /\ job'[e] = r /\ st = "done"
        BY DEF Outcome, CallSteps
      <4>2. st = "done" => rows'[r].status \in {"done", "deleted"}
                           \/ r \in overrun
        <5>1. CASE RowMoves(r, st)
          BY <5>1 DEF RowMoves
        <5>2. CASE rows' = rows /\ ~Live(r)
          BY <1>1, <5>2 DEF InWork, Overrun, Live
        <5> QED BY <5>1, <5>2 DEF Outcome
      <4>3. \A x \in Ids : x = r /\ st = "done" => Answered(x)'
        BY <1>4, <1>7, <4>2 DEF Answered, Unserved, Overrun
      <4> QED BY <1>1, <3>1, <4>1, <4>3
    <3>2. CASE f # e
      <4>1. ASSUME at'[f] \in CallSteps
            PROVE  /\ at[f] = at'[f] /\ job'[f] = job[f] /\ job[f] \in Ids
                   /\ job[f] # r \/ r \in overrun
        BY <1>2, <1>10, <3>2, <4>1
      <4> QED BY <1>8, <4>1 DEF Served, Carriers, Calls, CallSteps
    <3> QED BY <3>1, <3>2
  <2> QED BY <2>1 DEF Calls
<1>13. CarriedOnce'
  BY <1>4, <1>10 DEF Served, Carriers, CarriedOnce
<1>14. Cards'
  <2>1. ASSUME NEW f \in Executors, at'[f] \in {"call", "card"}
        PROVE  NoCard(job[f])'
    <3>1. job'[f] = job[f] /\ job[f] \in Ids /\ at[f] \in CallSteps
      BY <1>10, <2>1 DEF CallSteps
    <3>2. CASE f = e
      BY <1>1, <1>9, <3>1, <3>2
    <3>3. CASE f # e
      BY <1>9, <1>10, <2>1, <3>1, <3>3 DEF Served, Cards, CallSteps
    <3> QED BY <3>2, <3>3
  <2>2. ASSUME NEW x \in Ids, Unserved(x)'
        PROVE  NoCard(x)'
    BY <1>1, <1>3, <1>9, <2>2 DEF Served, Cards, Unserved
  <2>3. \A x \in held' : NoCard(x)'
    BY <1>1, <1>4, <1>9 DEF Served, Cards
  <2>4. \A x \in Ids : draftPosts'[x] <= 1 \/ x \in overrun'
    BY <1>4 DEF Served, Cards
  <2> QED BY <2>1, <2>2, <2>3, <2>4 DEF Cards
<1> QED BY <1>5, <1>6, <1>11, <1>12, <1>13, <1>14 DEF Served, Carriers

(* The handlers of a call have outcomes.                                   *)
LEMMA EndsSets ==
  ASSUME TypeOK, NEW e \in Executors, NEW s, Ends(e, s)
  PROVE  /\ at[e] = s /\ at'[e] \notin CallSteps
         /\ \A f \in Executors : f # e => at'[f] = at[f] /\ job'[f] = job[f]
BY DEF Ends, Goes, Home, TypeOK, CallSteps

LEMMA UpdateMoves ==
  ASSUME TypeOK, NEW r \in Ids, NEW row \in Rows,
         row.version = rows[r].version, row.supplement = rows[r].supplement,
         Update(r, row), last' = last
  PROVE  /\ \/ RowMoves(r, row.status) /\ Live(r)
            \/ rows' = rows /\ last' = last /\ ~Live(r)
         /\ Live(r) => rows'[r] = row
BY DEF Update, RowMoves, TypeOK

LEMMA CallEnds ==
  ASSUME TypeOK, Placed, Served, NEW e \in Executors,
         \/ Extracted(e) \/ Unavailable(e)
         \/ e = Scan /\ ScanFails
         \/ e \in Requests /\ RequestFails(e)
  PROVE  Served'
<1> DEFINE r == job[e]
<1> USE DEF scanVars, chatVars, pastVars
<1>1. at[e] = "call"
  BY DEF Extracted, Unavailable, ScanFails, RequestFails, Ends, Goes
<1>2. r \in Ids /\ rows[r] \in Rows
  BY <1>1 DEF Placed, TypeOK, CallSteps
<1>3. InWork(r)
  BY <1>1 DEF Served, Carriers, Calls
<1>4. /\ rows[r].tries \in Nat
      /\ Live(r) => rows[r].tries < MaxAttempts \/ r \in overrun
  BY <1>2, <1>3 DEF Rows, InWork, Overrun, Live, Served, TriesLeft
<1>5. {"pending", "done", "failed"} \subseteq Statuses
  BY DEF Statuses
<1>6. CASE Extracted(e)
  <2> DEFINE row == [rows[r] EXCEPT !.status = "done", !.tries = @ + 1,
                                    !.stale = FALSE]
  <2>1. row \in Rows
    BY <1>2, <1>5, RowSet
  <2>2. row.status = "done" /\ row.version = rows[r].version
        /\ row.supplement = rows[r].supplement
    BY <1>2 DEF Rows
  <2>3. Update(r, row) /\ last' = last /\ held' = held
        /\ draftPosts' = draftPosts /\ overrun' = overrun
    BY <1>6 DEF Extracted
  <2>4. /\ \A f \in Executors : f # e => at'[f] = at[f] /\ job'[f] = job[f]
        /\ \/ at'[e] \notin CallSteps
           \/ at'[e] = "card" /\ job'[e] = job[e]
    <3>1. CASE Goes(e, "call", "card") /\ UNCHANGED job
      BY <3>1 DEF Goes, TypeOK
    <3>2. CASE Ends(e, "call")
      <4>1. /\ at'[e] \notin CallSteps
            /\ \A f \in Executors : f # e => at'[f] = at[f] /\ job'[f] = job[f]
        BY <3>2 DEF Ends, Goes, Home, TypeOK, CallSteps
      <4> QED BY <4>1
    <3> QED BY <1>6, <3>1, <3>2 DEF Extracted
  <2> HIDE DEF row
  <2>5. Outcome(e, "done")
    BY <1>2, <2>1, <2>2, <2>3, <2>4, UpdateMoves DEF Outcome
  <2> QED BY <1>1, <2>5, OutcomeServed
<1>7. CASE Unavailable(e)
  <2> DEFINE row == [rows[r] EXCEPT !.status = "pending", !.stale = FALSE]
  <2>1. row \in Rows
    BY <1>2, <1>5, RowSet
  <2>2. row.status = "pending" /\ row.version = rows[r].version
        /\ row.supplement = rows[r].supplement /\ row.tries = rows[r].tries
    BY <1>2 DEF Rows
  <2>3. Update(r, row) /\ last' = last /\ held' = held
        /\ draftPosts' = draftPosts /\ overrun' = overrun
        /\ Ends(e, "call")
    BY <1>7 DEF Unavailable
  <2> HIDE DEF row
  <2>4. /\ \/ RowMoves(r, "pending") /\ Live(r)
           \/ rows' = rows /\ last' = last /\ ~Live(r)
        /\ Live(r) => rows'[r] = row
    BY <1>2, <2>1, <2>2, <2>3, UpdateMoves
  <2>5. Outcome(e, "pending")
    BY <2>3, <2>4, EndsSets DEF Outcome
  <2>6. rows'[r].tries < MaxAttempts \/ ~Live(r) \/ r \in overrun
    BY <1>4, <2>2, <2>4
  <2> QED BY <1>1, <2>5, <2>6, OutcomeServed
<1>8. CASE e = Scan /\ ScanFails
  <2> DEFINE row == AfterFailure(rows[r])
  <2>1. row \in Rows
    BY <1>2, <1>5, RowSet DEF AfterFailure
  <2>2. /\ row.status \in {"pending", "failed"}
        /\ row.version = rows[r].version
        /\ row.supplement = rows[r].supplement
        /\ row.status = "pending" => row.tries < MaxAttempts
    BY <1>2, <1>4, ExtractionAssumption DEF Rows, AfterFailure
  <2>3. Update(r, row) /\ last' = last /\ held' = held
        /\ draftPosts' = draftPosts /\ overrun' = overrun
        /\ Ends(e, "call")
    BY <1>8 DEF ScanFails
  <2> HIDE DEF row
  <2>4. /\ \/ RowMoves(r, row.status) /\ Live(r)
           \/ rows' = rows /\ last' = last /\ ~Live(r)
        /\ Live(r) => rows'[r] = row
    BY <1>2, <2>1, <2>2, <2>3, UpdateMoves
  <2>5. Outcome(e, row.status)
    BY <2>3, <2>4, EndsSets DEF Outcome
  <2>6. row.status = "pending"
        => rows'[r].tries < MaxAttempts \/ ~Live(r) \/ r \in overrun
    BY <2>2, <2>4
  <2> QED BY <1>1, <2>2, <2>5, <2>6, OutcomeServed
<1>9. CASE e \in Requests /\ RequestFails(e)
  <2> DEFINE row == [rows[r] EXCEPT !.status = "failed", !.stale = FALSE]
  <2>1. row \in Rows
    BY <1>2, <1>5, RowSet
  <2>2. row.status = "failed" /\ row.version = rows[r].version
        /\ row.supplement = rows[r].supplement
    BY <1>2 DEF Rows
  <2>3. Update(r, row) /\ last' = last /\ held' = held
        /\ draftPosts' = draftPosts /\ overrun' = overrun
        /\ Ends(e, "call")
    BY <1>9 DEF RequestFails
  <2> HIDE DEF row
  <2>4. \/ RowMoves(r, "failed") /\ Live(r)
        \/ rows' = rows /\ last' = last /\ ~Live(r)
    BY <1>2, <2>1, <2>2, <2>3, UpdateMoves
  <2>5. Outcome(e, "failed")
    BY <2>3, <2>4, EndsSets DEF Outcome
  <2> QED BY <1>1, <2>5, OutcomeServed
<1> QED BY <1>6, <1>7, <1>8, <1>9

----------------------------------------------------------------------------
(* The card of a batch, and the age of a claim.                            *)

LEMMA CardPosted ==
  ASSUME TypeOK, Placed, Served, NEW e \in Executors, at[e] = "card",
         draftPosts' = Posted(draftPosts, job[e]),
         UNCHANGED <<rows, last, held, overrun>>,
         \A f \in Executors : f # e => at'[f] = at[f] /\ job'[f] = job[f],
         \/ at'[e] \notin CallSteps
         \/ at'[e] = "note" /\ job'[e] = job[e]
  PROVE  Served'
<1> DEFINE r == job[e]
<1>1. r \in Ids /\ NoCard(r) /\ Answered(r) /\ held \subseteq Ids
  BY DEF Placed, Served, Cards, Carriers, Calls, CallSteps, TypeOK
<1>2. /\ r \notin held \/ r \in overrun
      /\ \A f \in Executors : f # e /\ at[f] \in CallSteps
                              => job[f] # r \/ r \in overrun
  BY DEF Served, Carriers, HeldOnce, CarriedOnce, CallSteps
<1>3. /\ draftPosts'[r] <= 1 \/ r \in overrun
      /\ \A x \in Ids : x # r => draftPosts'[x] = draftPosts[x]
  BY <1>1 DEF Posted, TypeOK, NoCard
<1>4. \A x \in Ids : /\ InWork(x)' <=> InWork(x)
                     /\ Answered(x)' <=> Answered(x)
                     /\ Unserved(x)' <=> Unserved(x)
                     /\ NoCard(x) /\ (x # r \/ r \in overrun) => NoCard(x)'
  BY <1>3 DEF InWork, Answered, Overrun, Unserved, NoCard
<1>5. \A f \in Executors : at'[f] \in CallSteps =>
          /\ at[f] \in CallSteps /\ job'[f] = job[f] /\ job[f] \in Ids
          /\ f # e => at'[f] = at[f]
  BY DEF CallSteps, Placed
<1>6. Fresh' /\ Unique' /\ TriesLeft'
  BY DEF Served, Fresh, Unique, TriesLeft, Live
<1>7. HeldOnce'
  BY <1>1, <1>4, <1>5 DEF Served, Carriers, HeldOnce
<1>8. Calls'
  BY <1>1, <1>4, <1>5 DEF Served, Carriers, Calls, CallSteps
<1>9. CarriedOnce'
  BY <1>5 DEF Served, Carriers, CarriedOnce
<1>10. Cards'
  <2>1. ASSUME NEW f \in Executors, at'[f] \in {"call", "card"}
        PROVE  NoCard(job[f])'
    <3>1. f # e
      BY <2>1 DEF CallSteps
    <3>2. /\ at[f] \in {"call", "card"} /\ job'[f] = job[f]
          /\ job[f] # r \/ r \in overrun
          /\ job[f] \in Ids
      BY <1>2, <1>5, <2>1, <3>1 DEF CallSteps
    <3> QED BY <1>4, <3>2 DEF Served, Cards
  <2>2. ASSUME NEW x \in held
        PROVE  NoCard(x)'
    BY <1>1, <1>2, <1>4, <2>2 DEF Served, Cards
  <2>3. ASSUME NEW x \in Ids
        PROVE  /\ draftPosts'[x] <= 1 \/ x \in overrun
               /\ Unserved(x)' => NoCard(x)'
    <3>1. draftPosts'[x] <= 1 \/ x \in overrun
      BY <1>3 DEF Served, Cards
    <3>2. Unserved(x) => x # r \/ r \in overrun
      BY <1>1 DEF Answered, Overrun
    <3> QED BY <1>4, <3>1, <3>2 DEF Served, Cards
  <2> QED BY <2>1, <2>2, <2>3 DEF Cards
<1> QED BY <1>6, <1>7, <1>8, <1>9, <1>10 DEF Served, Carriers

LEMMA CardSteps ==
  ASSUME TypeOK, Placed, Served, NEW e \in Executors,
         DraftPosted(e) \/ DraftNoted(e) \/ DraftUnconfirmed(e)
  PROVE  Served'
<1> USE DEF tableVars, scanVars, pastVars
<1>1. CASE DraftPosted(e)
  <2>1. at[e] = "card" /\ at'[e] = "note" /\ job' = job
        /\ \A f \in Executors : f # e => at'[f] = at[f]
    BY <1>1 DEF DraftPosted, Goes, TypeOK
  <2>2. /\ draftPosts' = Posted(draftPosts, job[e])
        /\ UNCHANGED <<rows, last, held, overrun>>
    BY <1>1 DEF DraftPosted
  <2> QED BY <2>1, <2>2, CardPosted
<1>2. CASE DraftNoted(e)
  <2>1. Ends(e, "note")
    BY <1>2 DEF DraftNoted
  <2>2. Quiet
    BY <1>2, <2>1, EndsSets DEF DraftNoted, Quiet
  <2> QED BY <2>2, QuietStep
<1>3. CASE DraftUnconfirmed(e)
  <2>1. Ends(e, "card")
    BY <1>3 DEF DraftUnconfirmed
  <2>2. CASE UNCHANGED draftPosts
    <3>1. Quiet
      BY <1>3, <2>1, <2>2, EndsSets DEF DraftUnconfirmed, Quiet
    <3> QED BY <3>1, QuietStep
  <2>3. CASE draftPosts' = Posted(draftPosts, job[e])
    <3>1. UNCHANGED <<rows, last, held, overrun>>
      BY <1>3 DEF DraftUnconfirmed
    <3>2. /\ at[e] = "card" /\ at'[e] \notin CallSteps
          /\ \A f \in Executors : f # e => at'[f] = at[f] /\ job'[f] = job[f]
      BY <2>1, EndsSets
    <3> QED BY <2>3, <3>1, <3>2, CardPosted
  <2> QED BY <1>3, <2>2, <2>3 DEF DraftUnconfirmed
<1> QED BY <1>1, <1>2, <1>3

LEMMA AgesServed ==
  ASSUME TypeOK, Placed, Served, NEW r \in Ids, ClaimAges(r)
  PROVE  Served'
<1>1. \A x \in Ids : /\ rows'[x].version = rows[x].version
                     /\ rows'[x].supplement = rows[x].supplement
                     /\ rows'[x].status = rows[x].status
                     /\ rows'[x].tries = rows[x].tries
  BY DEF ClaimAges, TypeOK, Rows
<1>2. /\ at' = at /\ job' = job /\ held' = held /\ held \subseteq Ids
      /\ last' = last /\ draftPosts' = draftPosts /\ overrun' = overrun
  BY DEF ClaimAges, execVars, scanVars, chatVars, pastVars, TypeOK
<1>3. Fresh' /\ Unique' /\ TriesLeft'
  BY <1>1, <1>2 DEF Served, Fresh, Unique, TriesLeft, Live
<1>4. \A x \in Ids : /\ InWork(x)' <=> InWork(x)
                     /\ Answered(x)' <=> Answered(x)
                     /\ Unserved(x)' <=> Unserved(x)
                     /\ NoCard(x)' <=> NoCard(x)
  BY <1>1, <1>2 DEF InWork, Answered, Overrun, Unserved, NoCard
<1>5. \A e \in Executors : at[e] \in CallSteps => job[e] \in Ids
  BY DEF Placed
<1>6. HeldOnce'
  BY <1>2, <1>4 DEF Served, Carriers, HeldOnce
<1>7. Calls'
  BY <1>2, <1>4, <1>5 DEF Served, Carriers, Calls, CallSteps
<1>8. CarriedOnce'
  BY <1>2 DEF Served, Carriers, CarriedOnce
<1>9. Cards'
  BY <1>2, <1>4, <1>5 DEF Served, Cards, CallSteps
<1> QED BY <1>3, <1>6, <1>7, <1>8, <1>9 DEF Served, Carriers

----------------------------------------------------------------------------
(* Who is at a step has what the step is about.                            *)
LEMMA PlacedStep ==
  ASSUME TypeOK, Placed, [Next]_vars
  PROVE  Placed'
<1> USE DEF minutesVars, tableVars, scanVars, execVars, chatVars, pastVars
<1> DEFINE Jobs == \A e \in Executors : at'[e] \in CallSteps => job'[e] \in Ids
           Asked == \A q \in Requests : at'[q] = "asked" => ask'[q] \in Asks
           Card == at'[Scan] = "note_minutes" => card' \in Minutes
<1>1. /\ Scan \in Executors /\ Requests \subseteq Executors
      /\ Scan \notin Requests
  BY ExtractionAssumption DEF Executors
<1>2. ASSUME Quiet
      PROVE  Jobs
  BY <1>2 DEF Quiet, Placed
<1>3. ASSUME UNCHANGED ask,
             \A q \in Requests : at'[q] = "asked" => at[q] = "asked"
      PROVE  Asked
  BY <1>3 DEF Placed
<1>4. ASSUME at'[Scan] # "note_minutes" \/ UNCHANGED <<at, card>>
      PROVE  Card
  BY <1>4 DEF Placed
<1>5. ASSUME NEW s, NEW t, ScanGoes(s, t)
      PROVE  /\ \A q \in Requests : at'[q] = at[q]
             /\ at'[Scan] = t
  BY <1>1, <1>5 DEF ScanGoes, TypeOK
<1>6. CASE UNCHANGED vars \/ SetKey
  <2>1. Quiet
    BY <1>6, QuietActions
  <2> QED BY <1>2, <1>3, <1>4, <1>6, <2>1 DEF vars, SetKey, Placed
<1>7. ASSUME NEW m \in Meetings,
             Import(m) \/ SaveDraft(m) \/ Publish(m) \/ CheckMinutes(m)
      PROVE  Placed'
  <2>1. UNCHANGED execVars
    BY <1>7 DEF Import, SaveDraft, Publish, CheckMinutes
  <2> QED BY <2>1 DEF Placed
<1>8. ASSUME NEW s, NEW t \in ScanSteps, t # "note_minutes", ScanGoes(s, t),
             UNCHANGED <<job, ask>>
      PROVE  Placed'
  <2>1. Jobs
    BY <1>8, ScanGoesQuiet DEF Placed
  <2> QED BY <1>3, <1>4, <1>5, <1>8, <2>1 DEF Placed
<1>9. {"rest", "checkup", "recover", "seed", "select_minutes", "notify",
       "note_minutes", "select", "claim", "work"} \subseteq ScanSteps
      /\ "idle" \notin CallSteps /\ "asked" \notin CallSteps
      /\ "note_minutes" \notin CallSteps /\ "rest" \notin CallSteps
  BY DEF ScanSteps, CallSteps
<1>10. CASE StartRound
  <2>1. ScanGoes("rest", "checkup") /\ UNCHANGED <<job, ask>>
    BY <1>10 DEF StartRound
  <2> QED BY <1>8, <1>9, <2>1
<1>11. CASE EndCheckup
  <2>1. ScanGoes("checkup", "recover") /\ UNCHANGED <<job, ask>>
    BY <1>11 DEF EndCheckup
  <2> QED BY <1>8, <1>9, <2>1
<1>12. CASE Recover
  <2>1. ScanGoes("recover", "seed") /\ UNCHANGED <<job, ask>>
    BY <1>12 DEF Recover
  <2> QED BY <1>8, <1>9, <2>1
<1>13. CASE Seed
  <2>1. ScanGoes("seed", "select_minutes") /\ UNCHANGED <<job, ask>>
    BY <1>13 DEF Seed
  <2> QED BY <1>8, <1>9, <2>1
<1>14. CASE SelectMinutes
  <2>1. ScanGoes("select_minutes", "notify") /\ UNCHANGED <<job, ask>>
    BY <1>14 DEF SelectMinutes
  <2> QED BY <1>8, <1>9, <2>1
<1>15. CASE MinutesNoted
  <2>1. ScanGoes("note_minutes", "notify") /\ UNCHANGED <<job, ask>>
    BY <1>15 DEF MinutesNoted
  <2> QED BY <1>8, <1>9, <2>1
<1>16. CASE EndNotify
  <2>1. ScanGoes("notify", "select") /\ UNCHANGED <<job, ask>>
    BY <1>16 DEF EndNotify
  <2> QED BY <1>8, <1>9, <2>1
<1>17. CASE Select
  <2>1. ScanGoes("select", "claim") /\ UNCHANGED <<job, ask>>
    BY <1>17 DEF Select
  <2> QED BY <1>8, <1>9, <2>1
<1>18. CASE SelectWithoutKey
  <2>1. ScanGoes("select", "rest") /\ UNCHANGED <<job, ask>>
    BY <1>18 DEF SelectWithoutKey
  <2> QED BY <1>8, <1>9, <2>1
<1>19. CASE EndClaims
  <2>1. ScanGoes("claim", "work") /\ UNCHANGED <<job, ask>>
    BY <1>19 DEF EndClaims
  <2> QED BY <1>8, <1>9, <2>1
<1>20. CASE EndRound
  <2>1. ScanGoes("work", "rest") /\ UNCHANGED <<job, ask>>
    BY <1>20 DEF EndRound
  <2> QED BY <1>8, <1>9, <2>1
<1>21. ASSUME NEW c \in Minutes, MinutesPosted(c)
       PROVE  Placed'
  <2>1. ScanGoes("notify", "note_minutes") /\ UNCHANGED <<job, ask>>
        /\ card' = c
    BY <1>21 DEF MinutesPosted
  <2>2. Jobs
    BY <1>9, <2>1, ScanGoesQuiet DEF Placed
  <2> QED BY <1>3, <1>5, <2>1, <2>2 DEF Placed
<1>22. ASSUME NEW c \in Minutes, MinutesUnconfirmed(c)
       PROVE  Placed'
  BY <1>22 DEF MinutesUnconfirmed, Placed
<1>23. ASSUME NEW r \in Ids, Claim(r)
       PROVE  Placed'
  BY <1>23 DEF Claim, Placed
<1>24. ASSUME NEW r \in Ids, StartBatch(r)
       PROVE  Placed'
  <2>1. Jobs
    BY <1>24 DEF StartBatch, TypeOK, Placed
  <2>2. \A q \in Requests : at'[q] = at[q]
    BY <1>1, <1>24 DEF StartBatch, TypeOK
  <2>3. at'[Scan] # "note_minutes"
    BY <1>1, <1>24 DEF StartBatch, TypeOK
  <2>4. UNCHANGED ask
    BY <1>24 DEF StartBatch
  <2> QED BY <1>3, <1>4, <2>1, <2>2, <2>3, <2>4 DEF Placed
<1>25. ASSUME NEW q \in Requests, NEW m \in Meetings, NEW s \in Supplements,
              AskAgain(q, m, s)
       PROVE  Placed'
  <2>1. Quiet
    BY <1>25, QuietActions
  <2>2. Asked
    BY <1>25 DEF AskAgain, TypeOK, Asks, Placed
  <2>3. at'[Scan] = at[Scan] /\ card' = card
    BY <1>1, <1>25 DEF AskAgain, TypeOK
  <2> QED BY <1>2, <2>1, <2>2, <2>3 DEF Placed
<1>26. ASSUME NEW q \in Requests, Refused(q) \/ RequestAborts(q)
       PROVE  Placed'
  <2>1. Quiet
    BY <1>26, QuietActions
  <2>2. Asked
    <3>1. /\ at' = [at EXCEPT ![q] = "idle"]
          /\ ask' = [ask EXCEPT ![q] = NoAsk]
      BY <1>26 DEF Refused, RequestAborts
    <3>2. \A p \in Requests : p # q => at'[p] = at[p] /\ ask'[p] = ask[p]
      BY <1>1, <3>1 DEF TypeOK
    <3>3. at'[q] = "idle" /\ ask'[q] = NoAsk
      BY <1>1, <3>1 DEF TypeOK
    <3> QED BY <3>2, <3>3 DEF Placed
  <2>3. at'[Scan] = at[Scan] /\ card' = card
    BY <1>1, <1>26 DEF Refused, RequestAborts, TypeOK
  <2> QED BY <1>2, <2>1, <2>2, <2>3 DEF Placed
<1>27. ASSUME NEW q \in Requests, Accepted(q)
       PROVE  Placed'
  <2> DEFINE m == ask[q].meeting
             r == <<m, last[m] + 1>>
  <2>1. ask[q] \in Asks
    BY <1>27 DEF Accepted, Placed
  <2>2. m \in Meetings /\ last[m] \in 0..MaxRows /\ last[m] < MaxRows
    BY <1>27, <2>1 DEF Accepted, Asks, TypeOK
  <2>3. r \in Ids
    BY <2>2, ExtractionAssumption DEF Ids
  <2>4. at' = [at EXCEPT ![q] = "call"] /\ job' = [job EXCEPT ![q] = r]
        /\ ask' = [ask EXCEPT ![q] = NoAsk] /\ card' = card
    BY <1>27 DEF Accepted
  <2>5. Jobs
    BY <2>3, <2>4 DEF TypeOK, Placed
  <2>6. Asked
    BY <1>1, <2>4 DEF TypeOK, Placed
  <2>7. at'[Scan] = at[Scan]
    BY <1>1, <2>4 DEF TypeOK
  <2> QED BY <2>4, <2>5, <2>6, <2>7 DEF Placed
<1>28. ASSUME NEW e \in Executors, NEW s, Ends(e, s), UNCHANGED <<ask, card>>
       PROVE  Placed'
  <2>1. at'[e] \in {"work", "idle"}
        /\ \A f \in Executors : f # e => at'[f] = at[f] /\ job'[f] = job[f]
    BY <1>28 DEF Ends, Goes, Home, TypeOK
  <2>2. Jobs
    BY <2>1 DEF Placed, CallSteps
  <2>3. Asked
    BY <1>1, <1>28, <2>1 DEF Placed
  <2>4. Card
    BY <1>1, <1>28, <2>1 DEF Placed
  <2> QED BY <2>2, <2>3, <2>4 DEF Placed
<1>29. ASSUME NEW e \in Executors, NEW s \in CallSteps, NEW t \in CallSteps,
              Goes(e, s, t), UNCHANGED <<job, ask, card>>
       PROVE  Placed'
  <2>1. at'[e] = t /\ at[e] = s
        /\ \A f \in Executors : f # e => at'[f] = at[f]
    BY <1>29 DEF Goes, TypeOK
  <2>2. Jobs
    BY <1>29, <2>1 DEF Placed
  <2>3. Asked
    BY <1>1, <1>9, <1>29, <2>1 DEF Placed
  <2>4. Card
    BY <1>1, <1>9, <1>29, <2>1 DEF Placed
  <2> QED BY <2>2, <2>3, <2>4 DEF Placed
<1>30. {"call", "card", "note"} \subseteq CallSteps
  BY DEF CallSteps
<1>31. ASSUME NEW e \in Executors, Finishes(e)
       PROVE  Placed'
  <2>1. CASE Extracted(e)
    <3>1. UNCHANGED <<ask, card>>
          /\ (Ends(e, "call") \/ (Goes(e, "call", "card") /\ UNCHANGED job))
      BY <2>1 DEF Extracted
    <3> QED BY <1>28, <1>29, <1>30, <3>1
  <2>2. CASE Unavailable(e)
    <3>1. UNCHANGED <<ask, card>> /\ Ends(e, "call")
      BY <2>2 DEF Unavailable
    <3> QED BY <1>28, <3>1
  <2>3. CASE DraftPosted(e)
    <3>1. UNCHANGED <<job, ask, card>> /\ Goes(e, "card", "note")
      BY <2>3 DEF DraftPosted
    <3> QED BY <1>29, <1>30, <3>1
  <2>4. CASE DraftNoted(e)
    <3>1. UNCHANGED <<ask, card>> /\ Ends(e, "note")
      BY <2>4 DEF DraftNoted
    <3> QED BY <1>28, <3>1
  <2>5. CASE DraftUnconfirmed(e)
    <3>1. UNCHANGED <<ask, card>> /\ Ends(e, "card")
      BY <2>5 DEF DraftUnconfirmed
    <3> QED BY <1>28, <3>1
  <2> QED BY <1>31, <2>1, <2>2, <2>3, <2>4, <2>5 DEF Finishes
<1>32. CASE ScanFails
  <2>1. UNCHANGED <<ask, card>> /\ Ends(Scan, "call")
    BY <1>32 DEF ScanFails
  <2> QED BY <1>1, <1>28, <2>1
<1>33. ASSUME NEW q \in Requests, RequestFails(q)
       PROVE  Placed'
  <2>1. UNCHANGED <<ask, card>> /\ Ends(q, "call")
    BY <1>33 DEF RequestFails
  <2> QED BY <1>1, <1>28, <2>1
<1>34. ASSUME NEW r \in Ids, ClaimAges(r)
       PROVE  Placed'
  BY <1>34 DEF ClaimAges, Placed
<1>35. CASE ScanAborts
  <2>1. Quiet
    BY <1>35, QuietActions
  <2>2. at'[Scan] = "rest" /\ ask' = ask /\ \A q \in Requests : at'[q] = at[q]
    BY <1>1, <1>35 DEF ScanAborts, TypeOK
  <2> QED BY <1>2, <1>3, <1>4, <2>1, <2>2 DEF Placed
<1>36. CASE Restart
  BY <1>1, <1>9, <1>36 DEF Restart, Placed
<1> QED BY <1>1, <1>6, <1>7, <1>10, <1>11, <1>12, <1>13, <1>14, <1>15, <1>16,
           <1>17, <1>18, <1>19, <1>20, <1>21, <1>22, <1>23, <1>24, <1>25,
           <1>26, <1>27, <1>31, <1>32, <1>33, <1>34, <1>35, <1>36
        DEF Next, ScanStep, RequestStep

----------------------------------------------------------------------------
LEMMA InvInit == Init => Inv
<1> SUFFICES ASSUME Init PROVE Inv
  OBVIOUS
<1>1. TypeOK
  <2>1. Row(0, Plain, "absent") \in Rows
    BY ExtractionAssumption DEF Row, Rows, Statuses
  <2>2. \A m \in Meetings : version[m] \in 0..MaxVersions
    BY ExtractionAssumption DEF Init
  <2> QED BY <2>1, <2>2, ExtractionAssumption
          DEF Init, TypeOK, Kinds, RelinkKinds, ScanSteps, RequestSteps,
              Executors, NoAsk
<1>2. \A e \in Executors : at[e] \in {"rest", "idle"}
  BY DEF Init
<1>3. Placed
  BY <1>2 DEF Init, Placed, CallSteps, Executors
<1>4. \A r \in Ids : rows[r].status = "absent"
  BY DEF Init, Row
<1>5. Fresh /\ Unique /\ TriesLeft
  BY <1>4 DEF Fresh, Unique, TriesLeft, Live
<1>6. Carriers
  BY <1>2 DEF Init, Carriers, HeldOnce, Calls, CarriedOnce, CallSteps
<1>7. Cards
  BY <1>2, <1>4 DEF Init, Cards, NoCard
<1> QED BY <1>1, <1>3, <1>5, <1>6, <1>7 DEF Inv

LEMMA InvStep == Inv /\ [Next]_vars => Inv'
<1> SUFFICES ASSUME Inv, [Next]_vars PROVE Inv'
  OBVIOUS
<1>1. TypeOK /\ Placed /\ Served
  BY DEF Inv, Served
<1>2. Scan \in Executors /\ Requests \subseteq Executors
  BY DEF Executors
<1>3. ASSUME Quiet
      PROVE  Served'
  BY <1>1, <1>3, QuietStep
<1>4. ASSUME Recover \/ Seed \/ \E r \in Ids : Claim(r) \/ StartBatch(r)
      PROVE  Served'
  BY <1>1, <1>4, RecoverServed, SeedServed, ClaimServed, StartBatchServed
<1>5. ASSUME \E e \in Executors : Finishes(e)
      PROVE  Served'
  BY <1>1, <1>5, CallEnds, CardSteps DEF Finishes
<1>6. ASSUME ScanFails \/ \E q \in Requests : RequestFails(q)
      PROVE  Served'
  <2>1. ASSUME ScanFails
        PROVE  Served'
    BY <1>1, <1>2, <2>1, CallEnds
  <2>2. ASSUME NEW q \in Requests, RequestFails(q)
        PROVE  Served'
    BY <1>1, <1>2, <2>2, CallEnds
  <2> QED BY <1>6, <2>1, <2>2
<1>7. ASSUME \E q \in Requests : Accepted(q)
      PROVE  Served'
  BY <1>1, <1>7, AcceptedServed
<1>8. ASSUME \E r \in Ids : ClaimAges(r)
      PROVE  Served'
  BY <1>1, <1>8, AgesServed
<1>9. Served' \/ Quiet
  BY <1>1, <1>2, <1>4, <1>5, <1>6, <1>7, <1>8, QuietActions
     DEF Next, ScanStep, RequestStep, Inv, Served
<1>10. Served'
  BY <1>1, <1>9, QuietStep
<1> QED BY <1>1, <1>10, TypeStep, PlacedStep DEF Inv, Served

(* The inductive invariant of the extraction, all of it, however long the  *)
(* calls of the model take and the claimed batches wait.                   *)
THEOREM ExtractionInvariant == Spec => []Inv
BY InvInit, InvStep, PTL DEF Spec

(* Over slow calls, restarts, recoveries and re-extractions, two executors *)
(* call the model for one batch only if the scan took it back from a       *)
(* request, and one of the two is the scan; a meeting has one batch per    *)
(* version and supplement; and a pending batch that was never overrun has  *)
(* tries left (extract_pending, re_extract, _recover_stalled_extractions). *)
THEOREM BatchesOnce == Spec => []OneRunPerBatch
<1>1. Inv => OneRunPerBatch
  BY DEF Inv, OneRunPerBatch, Unique, TriesLeft, Carriers, CarriedOnce,
         CallSteps
<1> QED BY <1>1, ExtractionInvariant, PTL

(* The chat gets the drafts of a batch that was never overrun at most      *)
(* once: while it may yet be served it has no card, and only one executor  *)
(* has its answer (_extract_one, task_draft).                              *)
THEOREM DraftCardsOnce == Spec => []DraftCardOnce
<1>1. Inv => DraftCardOnce
  BY DEF Inv, DraftCardOnce, Cards
<1> QED BY <1>1, ExtractionInvariant, PTL
=============================================================================
