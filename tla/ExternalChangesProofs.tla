------------------------ MODULE ExternalChangesProofs ------------------------
(***************************************************************************)
(* Theorems about ExternalChanges, for every number of events and answers  *)
(* of the user.                                                            *)
(***************************************************************************)
EXTENDS ExternalChanges, TLAPS

Kinds == {"draft", "imported", "generated", "stale", "replaced", "published"}
Versions(r) == [kind: Kinds, text: Nat, base: Nat,
                from: IF r = "t" THEN {None} \cup Dirs ELSE Nat]
Branches == {"import", "refresh", "relocate", "keep", "minutes", "late",
             "capture"}
Names == {"sign", "index", "transcript", "minutes", "open", "clean"}
Scans == [todo: Seq(Names), do: Branches, sig: Disks, saw: [Resources -> Nat],
          draft: BOOLEAN, over: BOOLEAN, t: Nat, m: Nat]

TypeOK ==
    /\ disk \in Disks
    /\ rows \in [Dirs -> {None} \cup [t: Nat, m: Nat, w: Nat]]
    /\ home \in {None} \cup Dirs
    /\ sig \in {None} \cup Disks
    /\ ver = [r \in Resources |-> ver[r]]
    /\ \A r \in Resources : ver[r] \in Seq(Versions(r))
    /\ cur \in [Resources -> Nat]
    /\ con \in {None} \cup Conflicts
    /\ scan \in {NoScan} \cup Scans
    /\ answer \in {None} \cup Answers
    /\ cut \in BOOLEAN
    /\ left \in [events: 0 .. MaxEvents, answers: 0 .. MaxAnswers]

(* A number that is kept names a version.                                  *)
Numbered ==
    \A r \in Resources :
        /\ cur[r] <= Len(ver[r])
        /\ con # None => con[r] <= Len(ver[r])
        /\ ~Idle => scan.saw[r] <= Len(ver[r]) /\ scan[r] <= Len(ver[r])
        /\ answer # None => /\ answer.con[r] <= Len(ver[r])
                            /\ answer.cur[r] <= Len(ver[r])

(* Nothing is stored before the source is signed.                          *)
SignedFirst ==
    sig = None => /\ \A r \in Resources : ver[r] = <<>>
                  /\ con = None /\ answer = None
                  /\ Idle \/ Head(scan.todo) = "sign"

(* What the scan is going to replace was no draft when it looked.          *)
Has(todo, what) == \E i \in DOMAIN todo : todo[i] = what
Named(r) == IF r = "t" THEN "transcript" ELSE "minutes"
Replaces(r) ==
    /\ Has(scan.todo, Named(r)) \/ (r = "m" /\ scan.do = "minutes")
    /\ scan.do \notin {"capture", "late"}
    /\ ~(scan.do = "minutes" /\ scan.draft)
Judged ==
    ~Idle => \A r \in Resources :
                Replaces(r) /\ scan.saw[r] # 0
                => ver[r][scan.saw[r]].kind # "draft"

Inv == TypeOK /\ Numbered /\ SignedFirst /\ Judged

----------------------------------------------------------------------------
(* What the operations have in common.                                     *)

(* Storing a file keeps the versions there are, and gives it a number.     *)
LEMMA StoredFile ==
  ASSUME TypeOK, NEW r \in Resources, NEW file \in Versions(r)
  PROVE  /\ Stored(r, file) = [q \in Resources |-> Stored(r, file)[q]]
         /\ \A q \in Resources :
              /\ Stored(r, file)[q] \in Seq(Versions(q))
              /\ Len(ver[q]) <= Len(Stored(r, file)[q])
              /\ \A i \in DOMAIN ver[q] : Stored(r, file)[q][i] = ver[q][i]
         /\ Id(r, file) \in 1 .. Len(Stored(r, file)[r])
         /\ Same(r, Stored(r, file)[r][Id(r, file)], file)
<1> DEFINE st == Stored(r, file)
<1>1. ver[r] \in Seq(Versions(r))
  BY DEF TypeOK
<1>2. CASE \E i \in DOMAIN ver[r] : Same(r, ver[r][i], file)
  <2>1. st = ver
    BY <1>2 DEF Stored
  <2>2. Id(r, file) \in DOMAIN st[r] /\ Same(r, st[r][Id(r, file)], file)
    BY <1>2, <2>1 DEF Id
  <2>3. DOMAIN ver[r] = 1 .. Len(ver[r])
    BY <1>1
  <2> QED BY <2>1, <2>2, <2>3 DEF TypeOK
<1>3. CASE ~ \E i \in DOMAIN ver[r] : Same(r, ver[r][i], file)
  <2>1. st = [ver EXCEPT ![r] = Append(@, file)]
    BY <1>3 DEF Stored
  <2>2. /\ st[r] = Append(ver[r], file)
        /\ \A q \in Resources : q # r => st[q] = ver[q]
        /\ st = [q \in Resources |-> st[q]]
    BY <2>1 DEF TypeOK
  <2>3. /\ st[r] \in Seq(Versions(r)) /\ Len(st[r]) = Len(ver[r]) + 1
        /\ st[r][Len(ver[r]) + 1] = file
        /\ \A i \in DOMAIN ver[r] : st[r][i] = ver[r][i]
    BY <1>1, <2>2
  <2>4. Len(ver[r]) + 1 \in DOMAIN st[r] /\ Same(r, file, file)
    BY <1>1, <2>2 DEF Same
  <2>5. Id(r, file) \in DOMAIN st[r] /\ Same(r, st[r][Id(r, file)], file)
    BY <2>3, <2>4 DEF Id
  <2>6. DOMAIN st[r] = 1 .. Len(st[r]) /\ Len(ver[r]) \in Nat
    BY <1>1, <2>3
  <2>7. \A q \in Resources : q # r =>
            /\ st[q] \in Seq(Versions(q)) /\ Len(ver[q]) <= Len(st[q])
            /\ \A i \in DOMAIN ver[q] : st[q][i] = ver[q][i]
    BY <2>2 DEF TypeOK
  <2>8. /\ Len(ver[r]) <= Len(st[r])
        /\ Id(r, file) \in 1 .. Len(st[r])
    BY <2>3, <2>5, <2>6
  <2> HIDE DEF st
  <2>9. \A q \in Resources :
            /\ st[q] \in Seq(Versions(q)) /\ Len(ver[q]) <= Len(st[q])
            /\ \A i \in DOMAIN ver[q] : st[q][i] = ver[q][i]
    BY <2>3, <2>7, <2>8
  <2> QED BY <2>2, <2>5, <2>8, <2>9 DEF st
<1> QED BY <1>2, <1>3

(* A scan at work is a whole one.                                          *)
LEMMA AtWork ==
  ASSUME TypeOK, ~Idle
  PROVE  scan \in Scans
BY DEF TypeOK, Idle, NoScan

(* What was current in a kept version stays a version of its type.         *)
LEMMA CurrentTyped ==
  ASSUME TypeOK, Numbered, NEW r \in Resources, cur[r] # 0
  PROVE  /\ cur[r] \in 1 .. Len(ver[r])
         /\ Current(r) \in Versions(r)
<1>1. ver[r] \in Seq(Versions(r)) /\ cur[r] \in Nat /\ cur[r] <= Len(ver[r])
  BY DEF TypeOK, Numbered
<1> QED BY <1>1 DEF Current

LEMMA TextTyped ==
  ASSUME TypeOK, Spend("events")
  PROVE  /\ NextText \in Nat
         /\ left' \in [events: 0 .. MaxEvents, answers: 0 .. MaxAnswers]
BY ExternalAssumption DEF TypeOK, Spend, NextText

----------------------------------------------------------------------------
(* The scan's choice.                                                      *)

LEMMA Joined ==
  ASSUME NEW a \in Seq(Names), NEW b \in Seq(Names), NEW what
  PROVE  /\ a \o b \in Seq(Names)
         /\ Has(a \o b, what) => Has(a, what) \/ Has(b, what)
<1>1. a \o b \in Seq(Names) /\ Len(a \o b) = Len(a) + Len(b)
  OBVIOUS
<1>2. ASSUME NEW i \in 1 .. Len(a \o b)
      PROVE  \/ i \in 1 .. Len(a) /\ (a \o b)[i] = a[i]
             \/ i - Len(a) \in 1 .. Len(b) /\ (a \o b)[i] = b[i - Len(a)]
  BY <1>1, <1>2
<1> QED BY <1>1, <1>2 DEF Has

LEMMA MissingTyped ==
  /\ Missing \in Seq(Names)
  /\ \A r \in Resources : Has(Missing, Named(r)) => cur[r] = 0
<1> DEFINE a == IF cur["t"] = 0 THEN <<"transcript">> ELSE <<>>
           b == IF cur["m"] = 0 THEN <<"minutes">> ELSE <<>>
<1>1. a \in Seq(Names) /\ b \in Seq(Names)
  <2>1. {<<>>, <<"transcript">>, <<"minutes">>} \subseteq Seq(Names)
    BY DEF Names
  <2> QED BY <2>1
<1>2. /\ Has(a, Named("t")) => cur["t"] = 0
      /\ ~Has(a, Named("m")) /\ ~Has(b, Named("t"))
      /\ Has(b, Named("m")) => cur["m"] = 0
  BY DEF Has, Named
<1>3. Missing = a \o b
  BY DEF Missing
<1> HIDE DEF a, b
<1>4. /\ Missing \in Seq(Names)
      /\ \A what : Has(Missing, what) => Has(a, what) \/ Has(b, what)
  BY <1>1, <1>3, Joined
<1> QED BY <1>2, <1>4 DEF Resources

LEMMA PlanTyped ==
  ASSUME TypeOK
  PROVE  /\ Branch \in Branches \ {"late"} /\ Plan[Branch] \in Seq(Names)
         /\ Plan[Branch] \o <<"clean">> \in Seq(Names)
         /\ Plan[Branch] \o <<"clean">> # <<>>
         /\ sig = None => /\ Branch = "import"
                          /\ Head(Plan[Branch] \o <<"clean">>) = "sign"
<1>1. Branch \in Branches \ {"late"} /\ (sig = None => Branch = "import")
  BY DEF Branch, Branches
<1>2. Missing \in Seq(Names)
  BY MissingTyped
<1>3. \A b \in Branches \ {"late"} : Plan[b] \in Seq(Names) /\ Plan[b] # <<>>
  <2>1. Plan["keep"] \in Seq(Names) /\ Plan["keep"] # <<>>
    <3>1. Plan["keep"] = <<"index">> \o Missing /\ <<"index">> \in Seq(Names)
      BY DEF Plan, Names
    <3> QED BY <1>2, <3>1
  <2>2. \A b \in Branches \ {"late", "keep"} :
            Plan[b] \in Seq(Names) /\ Plan[b] # <<>>
    <3> DEFINE all == {<<"sign", "index", "transcript", "minutes">>,
                       <<"index", "sign">>, <<"index", "minutes">>,
                       <<"transcript", "minutes", "index", "open">>}
    <3>1. all \subseteq Seq(Names) /\ <<>> \notin all
      BY DEF Names
    <3>2. /\ Plan["import"] = <<"sign", "index", "transcript", "minutes">>
          /\ Plan["refresh"] = <<"index", "sign">>
          /\ Plan["relocate"] = <<"index", "sign">>
          /\ Plan["minutes"] = <<"index", "minutes">>
          /\ Plan["capture"] = <<"transcript", "minutes", "index", "open">>
      BY DEF Plan
    <3>3. \A b \in Branches \ {"late", "keep"} : Plan[b] \in all
      BY <3>2 DEF Branches
    <3> HIDE DEF all
    <3> QED BY <3>1, <3>3
  <2> QED BY <2>1, <2>2
<1>4. Plan["import"] = <<"sign", "index", "transcript", "minutes">>
  BY DEF Plan
<1>5. \A q \in Seq(Names) : q # <<>> => /\ q \o <<"clean">> \in Seq(Names)
                                        /\ q \o <<"clean">> # <<>>
                                        /\ Head(q \o <<"clean">>) = Head(q)
  BY DEF Names
<1> QED BY <1>1, <1>3, <1>4, <1>5

(* What the plan of a branch may replace was looked at.                    *)
LEMMA PlanJudged ==
  ASSUME TypeOK, Numbered, SignedFirst, Look,
         NEW r \in Resources, Replaces(r)', cur[r] # 0
  PROVE  Current(r).kind # "draft"
<1> DEFINE todo == Plan[Branch] \o <<"clean">>
<1>1. /\ scan'.todo = todo /\ scan'.do = Branch /\ scan'.draft = IsDraft("m")
  BY DEF Look
<1>2. sig # None
  <2>1. Len(ver[r]) # 0
    BY DEF Numbered, TypeOK
  <2> QED BY <2>1 DEF SignedFirst
<1>3. /\ Has(todo, Named(r)) \/ (r = "m" /\ Branch = "minutes")
      /\ Named(r) # "clean"
  BY <1>1 DEF Replaces, Named
<1>4. Branch # "capture" /\ ~(Branch = "minutes" /\ IsDraft("m"))
  BY <1>1 DEF Replaces
<1>5. Has(Plan[Branch], Named(r)) \/ (r = "m" /\ Branch = "minutes")
  <2>1. Plan[Branch] \in Seq(Names) /\ <<"clean">> \in Seq(Names)
    BY PlanTyped DEF Names
  <2>2. ~Has(<<"clean">>, Named(r))
    BY <1>3 DEF Has
  <2> QED BY <1>3, <2>1, <2>2, Joined
<1>6. CASE Branch = "import"
  <2>1. ~Drafted
    BY <1>2, <1>6 DEF Branch
  <2> QED BY <2>1 DEF Drafted, IsDraft, Resources
<1>7. CASE Branch \in {"refresh", "relocate"}
  <2>1. Has(Plan[Branch], Named(r)) /\ Plan[Branch] = <<"index", "sign">>
    BY <1>5, <1>7 DEF Plan
  <2> QED BY <2>1 DEF Has, Named
<1>8. CASE Branch = "keep"
  <2>1. Has(<<"index">> \o Missing, Named(r))
    BY <1>5, <1>8 DEF Plan
  <2>2. <<"index">> \in Seq(Names) /\ ~Has(<<"index">>, Named(r))
    BY DEF Names, Has, Named
  <2> QED BY <2>1, <2>2, Joined, MissingTyped
<1>9. CASE Branch = "minutes"
  <2>1. r = "m"
    BY <1>5, <1>9 DEF Plan, Has, Named, Resources
  <2> QED BY <1>4, <1>9, <2>1 DEF IsDraft
<1> QED BY <1>4, <1>6, <1>7, <1>8, <1>9, PlanTyped DEF Branches

----------------------------------------------------------------------------
(* A look, and the steps of a scan.                                        *)

LEMMA LookStep ==
  ASSUME Inv, Look
  PROVE  Inv'
<1> USE DEF Inv
<1> DEFINE todo == Plan[Branch] \o <<"clean">>
<1>1. /\ scan' = [todo |-> todo, do |-> Branch, sig |-> disk, saw |-> cur,
                  draft |-> IsDraft("m"), over |-> FALSE, t |-> 0, m |-> 0]
      /\ UNCHANGED <<disk, database, answer, cut, left>>
  BY DEF Look
<1>2. /\ Branch \in Branches /\ todo \in Seq(Names) /\ todo # <<>>
      /\ sig = None => Head(todo) = "sign"
  BY PlanTyped
<1>3. IsDraft("m") \in BOOLEAN
  BY DEF IsDraft
<1> HIDE DEF todo
<1>4. scan' \in Scans
  BY <1>1, <1>2, <1>3 DEF Scans, TypeOK
<1>5. TypeOK'
  BY <1>1, <1>4 DEF TypeOK, database
<1>6. Numbered'
  BY <1>1 DEF Numbered, database, TypeOK, Resources
<1>7. SignedFirst'
  BY <1>1, <1>2 DEF SignedFirst, database
<1>8. Judged'
  <2>1. ASSUME NEW r \in Resources, Replaces(r)', scan'.saw[r] # 0
        PROVE  ver'[r][scan'.saw[r]].kind # "draft"
    <3>1. scan'.saw[r] = cur[r] /\ ver' = ver
      BY <1>1 DEF database
    <3> QED BY <2>1, <3>1, PlanJudged DEF Current
  <2> QED BY <2>1 DEF Judged
<1> QED BY <1>5, <1>6, <1>7, <1>8

(* What follows on a step of a scan that leaves the numbers alone.         *)
LEMMA PoppedScan ==
  ASSUME TypeOK, ~Idle
  PROVE  LET popped == [scan EXCEPT !.todo = Tail(scan.todo)] IN
         /\ popped \in Scans
         /\ popped.todo = Tail(scan.todo) /\ popped.do = scan.do
         /\ popped.sig = scan.sig /\ popped.saw = scan.saw
         /\ popped.draft = scan.draft /\ popped.over = scan.over
         /\ popped.t = scan.t /\ popped.m = scan.m
         /\ \A what : Has(popped.todo, what) => Has(scan.todo, what)
<1>1. scan \in Scans /\ scan.todo # <<>>
  BY AtWork DEF Idle
<1>2. scan.todo \in Seq(Names) /\ Tail(scan.todo) \in Seq(Names)
  BY <1>1 DEF Scans
<1>3. \A i \in DOMAIN Tail(scan.todo) :
          i + 1 \in DOMAIN scan.todo /\ Tail(scan.todo)[i] = scan.todo[i + 1]
  BY <1>1, <1>2
<1>4. \A what : Has(Tail(scan.todo), what) => Has(scan.todo, what)
  BY <1>3 DEF Has
<1> QED BY <1>1, <1>2, <1>4 DEF Scans

LEMMA Popped ==
  ASSUME TypeOK, ~Idle, Go(scan)
  PROVE  /\ scan' \in Scans
         /\ scan'.todo = Tail(scan.todo) /\ scan'.do = scan.do
         /\ scan'.sig = scan.sig /\ scan'.saw = scan.saw
         /\ scan'.draft = scan.draft /\ scan'.over = scan.over
         /\ scan'.t = scan.t /\ scan'.m = scan.m
         /\ \A what : Has(scan'.todo, what) => Has(scan.todo, what)
<1>1. scan' = [scan EXCEPT !.todo = Tail(scan.todo)]
  BY DEF Go
<1> QED BY <1>1, PoppedScan

----------------------------------------------------------------------------
(* What a step keeps.                                                      *)

(* Versions stay, and none becomes a draft that was none.                  *)
Grown ==
    \A r \in Resources :
        /\ Len(ver[r]) <= Len(ver'[r])
        /\ \A i \in 1 .. Len(ver[r]) :
              ver'[r][i].kind = "draft" => ver[r][i].kind = "draft"

(* The scan goes on with what it looked at, and replaces no more.          *)
GoesOn ==
    ~Idle' => /\ ~Idle /\ scan'.saw = scan.saw
              /\ \A r \in Resources : Replaces(r)' => Replaces(r)

LEMMA JudgedKept ==
  ASSUME Inv, Grown, GoesOn
  PROVE  Judged'
<1> SUFFICES ASSUME ~Idle', NEW r \in Resources, Replaces(r)', scan'.saw[r] # 0
             PROVE  ver'[r][scan'.saw[r]].kind # "draft"
  BY DEF Judged
<1>1. ~Idle /\ scan'.saw = scan.saw /\ Replaces(r)
  BY DEF GoesOn
<1>2. scan.saw[r] \in Nat /\ ver[r] \in Seq(Versions(r))
  BY <1>1, AtWork DEF Scans, Inv, TypeOK
<1>3. scan.saw[r] \in 1 .. Len(ver[r])
  BY <1>1, <1>2 DEF Inv, Numbered
<1>4. ver[r][scan.saw[r]].kind # "draft"
  BY <1>1 DEF Inv, Judged
<1> QED BY <1>1, <1>3, <1>4 DEF Grown

LEMMA NumberedKept ==
  ASSUME Inv, Grown, TypeOK', NEW r \in Resources,
         cur'[r] = cur[r] \/ cur'[r] <= Len(ver'[r]),
         con' # None => \/ con # None /\ con'[r] = con[r]
                        \/ con'[r] <= Len(ver'[r]),
         ~Idle' => /\ ~Idle /\ scan'.saw = scan.saw
                   /\ scan'[r] = scan[r] \/ scan'[r] <= Len(ver'[r]),
         answer' # None => /\ answer # None /\ answer'.con = answer.con
                           /\ answer'.cur = answer.cur
  PROVE  /\ cur'[r] <= Len(ver'[r])
         /\ con' # None => con'[r] <= Len(ver'[r])
         /\ ~Idle' => /\ scan'.saw[r] <= Len(ver'[r])
                      /\ scan'[r] <= Len(ver'[r])
         /\ answer' # None => /\ answer'.con[r] <= Len(ver'[r])
                              /\ answer'.cur[r] <= Len(ver'[r])
<1>1. /\ Len(ver[r]) \in Nat /\ Len(ver'[r]) \in Nat
      /\ Len(ver[r]) <= Len(ver'[r])
  BY DEF Inv, TypeOK, Grown
<1>2. cur[r] \in Nat /\ cur[r] <= Len(ver[r])
  BY DEF Inv, TypeOK, Numbered
<1>3. con # None => con[r] \in Nat /\ con[r] <= Len(ver[r])
  BY DEF Inv, TypeOK, Numbered, Conflicts, Resources
<1>4. ~Idle => /\ scan.saw[r] \in Nat /\ scan.saw[r] <= Len(ver[r])
               /\ scan[r] \in Nat /\ scan[r] <= Len(ver[r])
  BY AtWork DEF Inv, Numbered, Scans, Resources
<1>5. answer # None => /\ answer.con[r] \in Nat /\ answer.con[r] <= Len(ver[r])
                       /\ answer.cur[r] \in Nat /\ answer.cur[r] <= Len(ver[r])
  BY DEF Inv, TypeOK, Numbered, Answers, Conflicts, Resources
<1>6. cur'[r] <= Len(ver'[r])
  BY <1>1, <1>2
<1>7. con' # None => con'[r] <= Len(ver'[r])
  BY <1>1, <1>3
<1>8. ~Idle' => scan'.saw[r] <= Len(ver'[r]) /\ scan'[r] <= Len(ver'[r])
  BY <1>1, <1>4
<1>9. answer' # None => /\ answer'.con[r] <= Len(ver'[r])
                        /\ answer'.cur[r] <= Len(ver'[r])
  BY <1>1, <1>5
<1> QED BY <1>6, <1>7, <1>8, <1>9

----------------------------------------------------------------------------
(* Storing what was found.                                                 *)

LEMMA FilesTyped ==
  ASSUME TypeOK, ~Idle
  PROVE  TranscriptFile \in Versions("t") /\ MinutesFile \in Versions("m")
BY DEF TypeOK, TranscriptFile, MinutesFile, Version, Versions, Disks, Kinds,
       Resources

LEMMA TakeStep ==
  ASSUME Inv, NEW r \in Resources, NEW file \in Versions(r),
         Step(Named(r)), Take(r, file), cut' \in BOOLEAN
  PROVE  /\ Inv'
         /\ \A q \in Resources : cur'[q] # cur[q] => q = r /\ Replaces(r)
<1> USE DEF Inv
<1>1. ~Idle /\ scan \in Scans /\ Has(scan.todo, Named(r))
  <2>1. ~Idle
    BY DEF Step, Idle
  <2>2. scan.todo \in Seq(Names) /\ scan.todo # <<>>
    BY <2>1, AtWork DEF Scans, Step
  <2>3. 1 \in DOMAIN scan.todo /\ scan.todo[1] = Named(r)
    BY <2>2 DEF Step
  <2> QED BY <2>1, <2>3, AtWork DEF Has
<1> DEFINE id == Id(r, file)
<1> DEFINE made == CASE scan.do \in {"capture", "late"} -> FALSE
                     [] scan.do = "minutes" -> ~scan.draft
                     [] OTHER -> TRUE
<1>2. /\ ver' = Stored(r, file)
      /\ cur' = cur \/ (cur' = [cur EXCEPT ![r] = id] /\ Replaces(r))
      /\ Go(scan) \/ Go([scan EXCEPT ![r] = id])
      /\ UNCHANGED <<disk, rows, home, sig, con, answer, left>>
  <2>1. /\ ver' = Stored(r, file)
        /\ cur' = IF made THEN [cur EXCEPT ![r] = id] ELSE cur
        /\ Go(IF \/ scan.do = "minutes"
                 \/ scan.do = "capture" /\ Changed(r, file)
              THEN [scan EXCEPT ![r] = id] ELSE scan)
        /\ UNCHANGED <<disk, rows, home, sig, con, answer, left>>
    BY DEF Take
  <2>2. made => /\ scan.do \notin {"capture", "late"}
                /\ ~(scan.do = "minutes" /\ scan.draft)
    OBVIOUS
  <2> HIDE DEF made, id
  <2>3. made => Replaces(r)
    BY <1>1, <2>2 DEF Replaces
  <2>4. Go(scan) \/ Go([scan EXCEPT ![r] = id])
    BY <2>1 DEF Go
  <2>5. cur' = cur \/ (cur' = [cur EXCEPT ![r] = id] /\ Replaces(r))
    BY <2>1, <2>3
  <2> QED BY <2>1, <2>4, <2>5
<1> HIDE DEF made
<1>3. /\ ver' = [q \in Resources |-> ver'[q]]
      /\ \A q \in Resources :
            /\ ver'[q] \in Seq(Versions(q)) /\ Len(ver[q]) <= Len(ver'[q])
            /\ \A i \in DOMAIN ver[q] : ver'[q][i] = ver[q][i]
      /\ id \in 1 .. Len(ver'[r])
  <2>1. ver' = Stored(r, file)
    BY <1>2
  <2> QED BY <2>1, StoredFile
<1> HIDE DEF id
<1>4. /\ cur' \in [Resources -> Nat] /\ id \in Nat
      /\ \A q \in Resources : \/ cur'[q] = cur[q]
                              \/ q = r /\ Replaces(r) /\ cur'[q] = id
  <2>1. id \in Nat
    BY <1>3
  <2> QED BY <1>2, <2>1 DEF TypeOK
<1>5. /\ scan' \in Scans /\ scan'.saw = scan.saw
      /\ scan'.do = scan.do /\ scan'.draft = scan.draft
      /\ \A what : Has(scan'.todo, what) => Has(scan.todo, what)
      /\ \A q \in Resources : scan'[q] = scan[q] \/ (q = r /\ scan'[q] = id)
  <2>1. CASE Go(scan)
    <3>1. \A q \in Resources : scan'[q] = scan[q]
      BY <1>1, <2>1, Popped DEF Resources
    <3> QED BY <1>1, <2>1, <3>1, Popped
  <2>2. CASE Go([scan EXCEPT ![r] = id])
    <3> DEFINE popped == [scan EXCEPT !.todo = Tail(scan.todo)]
    <3>1. /\ popped \in Scans /\ popped.todo = Tail(scan.todo)
          /\ popped.saw = scan.saw /\ popped.do = scan.do
          /\ popped.draft = scan.draft
          /\ popped.t = scan.t /\ popped.m = scan.m
          /\ \A what : Has(popped.todo, what) => Has(scan.todo, what)
      BY <1>1, PoppedScan
    <3>2. scan' = [popped EXCEPT ![r] = id]
      BY <1>1, <2>2 DEF Go, Scans, Resources
    <3> HIDE DEF popped
    <3>3. r = "t" \/ r = "m"
      BY DEF Resources
    <3>4. /\ scan' \in Scans /\ scan'.todo = popped.todo
          /\ scan'.saw = popped.saw /\ scan'.do = popped.do
          /\ scan'.draft = popped.draft
      <4>1. CASE r = "t"
        BY <1>4, <3>1, <3>2, <4>1 DEF Scans
      <4>2. CASE r = "m"
        BY <1>4, <3>1, <3>2, <4>2 DEF Scans
      <4> QED BY <3>3, <4>1, <4>2
    <3>5. \A q \in Resources :
              scan'[q] = popped[q] \/ (q = r /\ scan'[q] = id)
      BY <3>1, <3>2, <3>3 DEF Scans, Resources
    <3> QED BY <3>1, <3>4, <3>5 DEF Resources
  <2> QED BY <1>2, <2>1, <2>2
<1>6. TypeOK'
  BY <1>2, <1>3, <1>4, <1>5 DEF TypeOK
<1>7. Grown
  <2>1. \A q \in Resources : DOMAIN ver[q] = 1 .. Len(ver[q])
    BY DEF TypeOK
  <2> QED BY <1>3, <2>1 DEF Grown
<1>8. Judged'
  <2>1. GoesOn
    BY <1>1, <1>5 DEF GoesOn, Replaces
  <2> QED BY <1>7, <2>1, JudgedKept
<1>9. Numbered'
  BY <1>1, <1>2, <1>3, <1>4, <1>5, <1>6, <1>7, NumberedKept DEF Numbered
<1>10. SignedFirst'
  <2>1. sig # None
    BY <1>1 DEF SignedFirst, Step, Named
  <2> QED BY <1>2, <2>1 DEF SignedFirst
<1> QED BY <1>4, <1>6, <1>8, <1>9, <1>10

----------------------------------------------------------------------------
(* Steps that store no version, and steps outside of the scan.             *)

LEMMA KeptStep ==
  ASSUME Inv, TypeOK', UNCHANGED <<ver, cur>>, GoesOn,
         ~Idle' => \A r \in Resources : scan'[r] = scan[r],
         con' # None => \A r \in Resources : con'[r] <= Len(ver[r]),
         answer' # None => /\ answer # None /\ answer'.con = answer.con
                           /\ answer'.cur = answer.cur,
         sig' = None => /\ sig = None /\ con' = con
                        /\ Idle' \/ scan'.todo = scan.todo
  PROVE  Inv'
<1>1. Grown
  BY DEF Grown, Inv, TypeOK
<1>2. Judged'
  BY <1>1, JudgedKept
<1>3. Numbered'
  BY <1>1, NumberedKept DEF Numbered, GoesOn
<1>4. SignedFirst'
  BY DEF Inv, SignedFirst, Idle
<1> QED BY <1>2, <1>3, <1>4 DEF Inv

(* What the scan has seen and has still to do stays.                       *)
SameScan ==
    /\ scan'.todo = scan.todo
    /\ ~Idle => /\ scan'.do = scan.do /\ scan'.sig = scan.sig
                /\ scan'.saw = scan.saw /\ scan'.draft = scan.draft
                /\ \A r \in Resources : scan'[r] = scan[r]

LEMMA GrownStep ==
  ASSUME Inv, TypeOK', Grown, \A r \in Resources : cur'[r] <= Len(ver'[r]),
         SameScan, con' \in {con, None}, answer' \in {answer, None},
         sig' # None
  PROVE  Inv'
<1>1. GoesOn
  BY DEF GoesOn, SameScan, Idle, Replaces
<1>2. Judged'
  BY <1>1, JudgedKept
<1>3. Numbered'
  BY <1>1, NumberedKept DEF Numbered, SameScan, Idle
<1>4. SignedFirst'
  BY DEF SignedFirst
<1> QED BY <1>2, <1>3, <1>4 DEF Inv

(* A step of a scan that only takes it further.                            *)
LEMMA FurtherStep ==
  ASSUME Inv, TypeOK', NEW what, Step(what), Go(scan),
         UNCHANGED <<ver, cur, answer>>,
         con' # None => \A r \in Resources : con'[r] <= Len(ver[r]),
         sig' = None => sig = None /\ what # "sign"
  PROVE  Inv'
<1>1. ~Idle
  BY DEF Step, Idle
<1>2. /\ scan'.saw = scan.saw /\ scan'.do = scan.do
      /\ scan'.draft = scan.draft
      /\ \A x : Has(scan'.todo, x) => Has(scan.todo, x)
      /\ \A r \in Resources : scan'[r] = scan[r]
  BY <1>1, Popped DEF Inv, Resources
<1>3. GoesOn
  BY <1>1, <1>2 DEF GoesOn, Replaces
<1>4. sig' # None
  BY <1>1 DEF Inv, SignedFirst, Step
<1> QED BY <1>2, <1>3, <1>4, KeptStep

LEMMA IndexStep ==
  ASSUME Inv, Index
  PROVE  Inv'
<1>1. /\ Step("index") /\ rows' = [rows EXCEPT ![disk.dir] = Content(disk)]
      /\ UNCHANGED <<disk, home, sig, ver, cur, con, answer, cut, left>>
  BY DEF Index
<1>2. ~Idle /\ scan \in Scans
  BY <1>1, AtWork DEF Step, Idle, Inv
<1>3. rows' \in [Dirs -> {None} \cup [t: Nat, m: Nat, w: Nat]]
  BY <1>1 DEF Content, Inv, TypeOK, Disks
<1>4. con' # None => \A r \in Resources : con'[r] <= Len(ver[r])
  BY <1>1 DEF Inv, Numbered
<1>5. CASE scan.do # "minutes"
  <2>1. Go(scan)
    BY <1>5 DEF Index, Go
  <2>2. TypeOK'
    BY <1>1, <1>2, <1>3, <2>1, Popped DEF Inv, TypeOK
  <2> QED BY <1>1, <1>4, <2>1, <2>2, FurtherStep
<1>6. CASE scan.do = "minutes"
  <2> DEFINE last == IF Fits /\ scan.draft THEN "open" ELSE "sign"
  <2>1. scan' = [scan EXCEPT !.do = IF Fits THEN "minutes" ELSE "late",
                             !.todo = <<"minutes", last, "clean">>]
    BY <1>6 DEF Index, Regeneration
  <2>2. last \in {"open", "sign"}
    OBVIOUS
  <2> HIDE DEF last
  <2>3. <<"minutes", last, "clean">> \in Seq(Names)
    BY <2>2 DEF Names
  <2>4. /\ scan' \in Scans /\ scan'.saw = scan.saw
        /\ scan'.draft = scan.draft /\ scan'.do \in {"minutes", "late"}
        /\ scan'.todo = <<"minutes", last, "clean">>
        /\ scan'.t = scan.t /\ scan'.m = scan.m
    BY <1>2, <2>1, <2>3 DEF Scans, Branches
  <2>5. TypeOK'
    BY <1>1, <1>3, <2>4 DEF Inv, TypeOK
  <2>6. ~Has(scan'.todo, "transcript")
    BY <2>2, <2>4 DEF Has
  <2>7. GoesOn
    BY <1>2, <1>6, <2>4, <2>6 DEF GoesOn, Replaces, Named, Resources
  <2>8. sig' # None
    BY <1>1, <1>2 DEF Inv, SignedFirst, Step
  <2> QED BY <1>1, <1>4, <2>4, <2>5, <2>7, <2>8, KeptStep DEF Resources
<1> QED BY <1>5, <1>6

LEMMA SignStep ==
  ASSUME Inv, Sign
  PROVE  Inv'
<1>1. /\ Step("sign") /\ sig' = scan.sig /\ Go(scan)
      /\ UNCHANGED <<disk, ver, cur, con, answer, left>>
  BY DEF Sign
<1>2. ~Idle /\ scan \in Scans
  BY <1>1, AtWork DEF Step, Idle, Inv
<1>3. sig' \in Disks /\ sig' # None /\ scan.sig.dir \in Dirs
  BY <1>1, <1>2, ExternalAssumption DEF Scans, Disks
<1>4. home' \in {None} \cup Dirs
  BY <1>3 DEF Sign, Inv, TypeOK
<1>5. rows' \in [Dirs -> {None} \cup [t: Nat, m: Nat, w: Nat]]
  BY DEF Sign, Inv, TypeOK
<1>6. cut' \in BOOLEAN
  BY DEF Sign
<1>7. TypeOK'
  BY <1>1, <1>2, <1>3, <1>4, <1>5, <1>6, Popped DEF Inv, TypeOK
<1>8. con' # None => \A r \in Resources : con'[r] <= Len(ver[r])
  BY <1>1 DEF Inv, Numbered
<1> QED BY <1>1, <1>3, <1>7, <1>8, FurtherStep

LEMMA OpenStep ==
  ASSUME Inv, OpenConflict
  PROVE  Inv'
<1>1. /\ Step("open") /\ Go(scan)
      /\ con' = Opened(IF con # None THEN con.id ELSE left.answers)
      /\ UNCHANGED <<disk, rows, home, sig, ver, cur, answer, left>>
  BY DEF OpenConflict
<1>2. ~Idle /\ scan \in Scans
  BY <1>1, AtWork DEF Step, Idle, Inv
<1>3. con' \in Conflicts /\ con'.t = scan.t /\ con'.m = scan.m
  BY <1>1, <1>2 DEF Opened, Conflicts, Scans, Inv, TypeOK
<1>4. cut' \in BOOLEAN
  BY DEF OpenConflict, Inv, TypeOK
<1>5. TypeOK'
  BY <1>1, <1>2, <1>3, <1>4, Popped DEF Inv, TypeOK
<1>6. \A r \in Resources : con'[r] <= Len(ver[r])
  BY <1>2, <1>3 DEF Inv, Numbered, Resources
<1> QED BY <1>1, <1>5, <1>6, FurtherStep

(* The scan ends, one way or another, and what an answer knew stays.       *)
LEMMA EndStep ==
  ASSUME Inv, Clean \/ Vanished \/ Fail
  PROVE  Inv'
<1>1. /\ scan' = NoScan /\ UNCHANGED <<disk, home, sig, ver, cur, con>>
      /\ answer' \in {answer, None}
  BY DEF Clean, Vanished, Fail, Stop, database
<1>2. Idle'
  BY <1>1 DEF Idle, NoScan
<1>3. rows' \in [Dirs -> {None} \cup [t: Nat, m: Nat, w: Nat]]
  BY DEF Clean, Vanished, Fail, database, Inv, TypeOK
<1>4. cut' \in BOOLEAN
  BY DEF Clean, Vanished, Fail, Stop, Inv, TypeOK
<1>5. left' \in [events: 0 .. MaxEvents, answers: 0 .. MaxAnswers]
  BY TextTyped DEF Clean, Vanished, Fail, Inv, TypeOK
<1>6. TypeOK'
  BY <1>1, <1>3, <1>4, <1>5 DEF Inv, TypeOK
<1>7. con' # None => \A r \in Resources : con'[r] <= Len(ver[r])
  BY <1>1 DEF Inv, Numbered
<1> QED BY <1>1, <1>2, <1>6, <1>7, KeptStep DEF GoesOn

----------------------------------------------------------------------------
(* The user's steps.                                                       *)

LEMMA PutStep ==
  ASSUME Inv, Spend("events"), NEW r \in Resources, NEW v \in Versions(r),
         v.kind = "draft", ver[r] # <<>>, Put(r, v)
  PROVE  Inv' /\ ver'[r][cur'[r]].kind = "draft"
         /\ \A q \in Resources : q # r => cur'[q] = cur[q]
<1>1. /\ ver' = [ver EXCEPT ![r] = Append(ver[r], v)]
      /\ cur' = [cur EXCEPT ![r] = Len(ver[r]) + 1]
      /\ UNCHANGED <<disk, rows, home, sig, con, scan, answer, cut>>
  BY DEF Put
<1>2. ver[r] \in Seq(Versions(r)) /\ Len(ver[r]) \in Nat
  BY DEF Inv, TypeOK
<1>3. /\ ver'[r] = Append(ver[r], v) /\ cur'[r] = Len(ver[r]) + 1
      /\ \A q \in Resources : q # r => ver'[q] = ver[q] /\ cur'[q] = cur[q]
      /\ ver' = [q \in Resources |-> ver'[q]]
      /\ cur' \in [Resources -> Nat]
  <2>1. /\ ver'[r] = Append(ver[r], v)
        /\ \A q \in Resources : q # r => ver'[q] = ver[q]
        /\ ver' = [q \in Resources |-> ver'[q]]
    BY <1>1 DEF Inv, TypeOK
  <2>2. /\ cur'[r] = Len(ver[r]) + 1
        /\ \A q \in Resources : q # r => cur'[q] = cur[q]
        /\ cur' \in [Resources -> Nat]
    BY <1>1, <1>2 DEF Inv, TypeOK
  <2> QED BY <2>1, <2>2
<1>4. /\ ver'[r] \in Seq(Versions(r)) /\ Len(ver'[r]) = Len(ver[r]) + 1
      /\ \A i \in 1 .. Len(ver[r]) : ver'[r][i] = ver[r][i]
      /\ ver'[r][Len(ver[r]) + 1] = v
  BY <1>2, <1>3
<1>5. TypeOK'
  BY <1>1, <1>3, <1>4, TextTyped DEF Inv, TypeOK
<1>6. Grown
  BY <1>2, <1>3, <1>4 DEF Grown, Inv, TypeOK
<1>7. \A q \in Resources : cur'[q] <= Len(ver'[q])
  BY <1>2, <1>3, <1>4 DEF Inv, Numbered
<1>8. sig' # None
  BY <1>1 DEF Inv, SignedFirst
<1> QED BY <1>1, <1>3, <1>4, <1>5, <1>6, <1>7, <1>8, GrownStep DEF SameScan

LEMMA DraftTyped ==
  ASSUME Inv, NEW r \in Resources, NEW w \in Versions(r), NEW text \in Nat,
         NEW base \in Nat
  PROVE  /\ Version("draft", text, base, From(r, w)) \in Versions(r)
         /\ Version("draft", text, base, From(r, w)).kind = "draft"
BY DEF Version, Versions, Kinds, From, Resources

LEMMA SaveDraftStep ==
  ASSUME Inv, NEW r \in Resources, SaveDraft(r)
  PROVE  Inv' /\ ver'[r][cur'[r]].kind = "draft"
         /\ \A q \in Resources : q # r => cur'[q] = cur[q]
<1> DEFINE v == Version("draft", NextText, cur[r], From(r, Current(r)))
<1>1. cur[r] # 0 /\ Spend("events") /\ Put(r, v)
  BY DEF SaveDraft
<1>2. /\ cur[r] \in 1 .. Len(ver[r]) /\ cur[r] \in Nat
      /\ Current(r) \in Versions(r)
  BY <1>1, CurrentTyped DEF Inv, TypeOK
<1>3. NextText \in Nat
  BY <1>1, TextTyped DEF Inv
<1>4. v \in Versions(r) /\ v.kind = "draft"
  BY <1>2, <1>3, DraftTyped
<1>5. ver[r] # <<>>
  BY <1>2
<1> HIDE DEF v
<1> QED BY <1>1, <1>4, <1>5, PutStep

LEMMA RollbackStep ==
  ASSUME Inv, NEW r \in Resources, Rollback(r)
  PROVE  Inv' /\ ver'[r][cur'[r]].kind = "draft"
         /\ \A q \in Resources : q # r => cur'[q] = cur[q]
<1>1. PICK i \in DOMAIN ver[r] :
        /\ Spend("events")
        /\ Put(r, Version("draft", ver[r][i].text, i, From(r, ver[r][i])))
  BY DEF Rollback
<1>2. ver[r] \in Seq(Versions(r))
  BY DEF Inv, TypeOK
<1>3. ver[r][i] \in Versions(r) /\ i \in Nat /\ ver[r] # <<>>
  BY <1>1, <1>2
<1>4. ver[r][i].text \in Nat
  BY <1>3 DEF Versions
<1> DEFINE v == Version("draft", ver[r][i].text, i, From(r, ver[r][i]))
<1>5. v \in Versions(r) /\ v.kind = "draft"
  BY <1>3, <1>4, DraftTyped
<1>6. Spend("events") /\ Put(r, v)
  BY <1>1
<1> HIDE DEF v
<1> QED BY <1>3, <1>5, <1>6, PutStep

(* A version that changes in its place, but does not become a draft.       *)
LEMMA ChangedInPlace ==
  ASSUME Inv, NEW r \in Resources, NEW n, NEW w \in Versions(r),
         n \in 1 .. Len(ver[r]), w.kind = "draft" => ver[r][n].kind = "draft"
  PROVE  LET seq == [ver[r] EXCEPT ![n] = w] IN
         /\ seq \in Seq(Versions(r)) /\ Len(seq) = Len(ver[r])
         /\ \A i \in 1 .. Len(ver[r]) :
              seq[i].kind = "draft" => ver[r][i].kind = "draft"
<1>1. ver[r] \in Seq(Versions(r))
  BY DEF Inv, TypeOK
<1> QED BY <1>1

LEMMA EditSegmentsStep ==
  ASSUME Inv, EditSegments
  PROVE  Inv' /\ cur' = cur
<1> DEFINE n == cur["t"]
           w == [ver["t"][n] EXCEPT !.text = NextText]
           seq == [ver["t"] EXCEPT ![n] = w]
<1>1. /\ IsDraft("t") /\ Spend("events") /\ "t" \in Resources
      /\ ver' = [ver EXCEPT !["t"][n].text = NextText]
      /\ UNCHANGED <<disk, rows, home, sig, cur, con, scan, answer, cut>>
  BY DEF EditSegments, Resources
<1>2. n \in 1 .. Len(ver["t"]) /\ ver["t"][n] \in Versions("t")
      /\ ver["t"][n].kind = "draft"
  BY <1>1, CurrentTyped DEF Inv, IsDraft, Current
<1>3. NextText \in Nat
  BY <1>1, TextTyped DEF Inv
<1>4. w \in Versions("t")
  BY <1>2, <1>3 DEF Versions
<1>5. ver' = [ver EXCEPT !["t"] = seq]
  BY <1>1, <1>2
<1> HIDE DEF w
<1>6. /\ seq \in Seq(Versions("t")) /\ Len(seq) = Len(ver["t"])
      /\ \A i \in 1 .. Len(ver["t"]) :
           seq[i].kind = "draft" => ver["t"][i].kind = "draft"
  BY <1>1, <1>2, <1>4, ChangedInPlace
<1> HIDE DEF seq, n
<1>7. /\ ver'["t"] = seq /\ ver'["m"] = ver["m"]
      /\ ver' = [q \in Resources |-> ver'[q]]
  BY <1>1, <1>5 DEF Inv, TypeOK, Resources
<1>8. TypeOK'
  BY <1>1, <1>6, <1>7, TextTyped DEF Inv, TypeOK, Resources
<1>9. Grown
  BY <1>6, <1>7 DEF Grown, Inv, TypeOK, Resources
<1>10. \A q \in Resources : cur'[q] <= Len(ver'[q])
  BY <1>1, <1>6, <1>7 DEF Inv, Numbered, Resources
<1>11. sig' # None
  <2>1. cur["t"] # 0
    BY <1>1 DEF IsDraft
  <2>2. ver["t"] # <<>>
    BY <1>2
  <2> QED BY <1>1, <2>2 DEF Inv, SignedFirst
<1> QED BY <1>1, <1>8, <1>9, <1>10, <1>11, GrownStep DEF SameScan

LEMMA AnswerStep ==
  ASSUME Inv, NEW do \in {"keep", "replace"}, Answer(do)
  PROVE  Inv'
<1>1. /\ con # None
      /\ answer' = [do |-> do, con |-> con, cur |-> cur, sig |-> None]
      /\ UNCHANGED <<disk, database, scan, cut>>
      /\ left' \in [events: 0 .. MaxEvents, answers: 0 .. MaxAnswers]
  BY ExternalAssumption DEF Answer, Spend, Inv, TypeOK
<1>2. con \in Conflicts /\ cur \in [Resources -> Nat]
  BY <1>1 DEF Inv, TypeOK
<1>3. answer' \in Answers /\ answer'.con = con /\ answer'.cur = cur
  BY <1>1, <1>2 DEF Answers
<1>4. TypeOK'
  BY <1>1, <1>3 DEF Inv, TypeOK, database
<1>5. Numbered'
  BY <1>1, <1>3 DEF Inv, Numbered, database, Idle
<1>6. SignedFirst'
  BY <1>1 DEF Inv, SignedFirst, database
<1>7. Judged'
  BY <1>1 DEF Inv, Judged, Idle, Replaces, database
<1> QED BY <1>4, <1>5, <1>6, <1>7 DEF Inv

(* An answer knows its conflict while it is under way.                     *)
LEMMA Answering ==
  ASSUME Inv, answer # None
  PROVE  /\ answer \in Answers /\ answer.con \in Conflicts
         /\ answer.con.sig \in Disks
         /\ sig # None /\ answer.con.sig # None
         /\ Resolved \in {con, None}
<1>1. answer \in Answers
  BY DEF Inv, TypeOK
<1>2. answer.con \in Conflicts /\ answer.con.sig \in Disks
  BY <1>1 DEF Answers, Conflicts
<1> QED BY <1>1, <1>2, ExternalAssumption DEF Inv, SignedFirst, Resolved

LEMMA CheckSourceStep ==
  ASSUME Inv, CheckSource
  PROVE  Inv'
<1>1. /\ answer # None /\ answer' \in {[answer EXCEPT !.sig = disk], None}
      /\ UNCHANGED <<disk, database, scan, cut, left>>
  BY DEF CheckSource
<1>2. answer \in Answers /\ disk \in Disks
  BY <1>1, Answering DEF Inv, TypeOK
<1>3. answer' # None => /\ answer' \in Answers /\ answer'.con = answer.con
                        /\ answer'.cur = answer.cur
  BY <1>1, <1>2 DEF Answers
<1>4. TypeOK'
  BY <1>1, <1>3 DEF Inv, TypeOK, database
<1>5. GoesOn
  BY <1>1 DEF GoesOn, Idle, Replaces
<1>6. con' # None => \A r \in Resources : con'[r] <= Len(ver[r])
  BY <1>1 DEF Inv, Numbered, database
<1>7. sig' # None
  BY <1>1, Answering DEF database
<1> QED BY <1>1, <1>3, <1>4, <1>5, <1>6, <1>7, KeptStep DEF database

LEMMA KeepDraftStep ==
  ASSUME Inv, KeepDraft
  PROVE  Inv'
<1>1. /\ answer # None /\ answer.sig # None /\ sig' = answer.sig
      /\ con' = Resolved /\ answer' = None /\ cut' \in BOOLEAN
      /\ UNCHANGED <<disk, rows, home, ver, cur, scan, left>>
  BY DEF KeepDraft, Inv, TypeOK
<1>2. sig' \in Disks /\ sig' # None
  BY <1>1, Answering, ExternalAssumption DEF Answers
<1>3. con' \in {con, None}
  BY <1>1, Answering
<1>4. TypeOK'
  BY <1>1, <1>2, <1>3 DEF Inv, TypeOK
<1>5. GoesOn
  BY <1>1 DEF GoesOn, Idle, Replaces
<1>6. con' # None => \A r \in Resources : con'[r] <= Len(ver[r])
  BY <1>3 DEF Inv, Numbered
<1> QED BY <1>1, <1>2, <1>4, <1>5, <1>6, KeptStep

LEMMA ReplaceDraftStep ==
  ASSUME Inv, ReplaceDraft
  PROVE  /\ Inv'
         /\ \A r \in Resources :
              cur'[r] # cur[r] => answer # None /\ answer.con[r] # 0
<1>1. /\ answer # None /\ ver' = [r \in Resources |-> GiveWay(r)]
      /\ cur' = [r \in Resources |->
                    IF answer.con[r] # 0 THEN answer.con[r] ELSE cur[r]]
      /\ sig' = answer.con.sig /\ con' = Resolved /\ answer' = None
      /\ scan' = IF Idle THEN scan ELSE [scan EXCEPT !.over = TRUE]
      /\ cut' = (cut \/ answer.con.over)
      /\ UNCHANGED <<disk, rows, home, left>>
  BY DEF ReplaceDraft
<1>2. /\ answer \in Answers /\ answer.con \in Conflicts
      /\ sig' \in Disks /\ sig' # None /\ con' \in {con, None}
  BY <1>1, Answering
<1>3. \A r \in Resources : /\ answer.con[r] \in Nat
                           /\ answer.con[r] <= Len(ver[r])
                           /\ answer.cur[r] \in Nat
                           /\ answer.cur[r] <= Len(ver[r])
  BY <1>1, <1>2 DEF Answers, Conflicts, Resources, Inv, Numbered
<1>4. \A r \in Resources :
        /\ ver'[r] \in Seq(Versions(r)) /\ Len(ver'[r]) = Len(ver[r])
        /\ \A i \in 1 .. Len(ver[r]) :
             ver'[r][i].kind = "draft" => ver[r][i].kind = "draft"
  <2> SUFFICES ASSUME NEW r \in Resources
               PROVE  /\ GiveWay(r) \in Seq(Versions(r))
                      /\ Len(GiveWay(r)) = Len(ver[r])
                      /\ \A i \in 1 .. Len(ver[r]) :
                           GiveWay(r)[i].kind = "draft"
                           => ver[r][i].kind = "draft"
    BY <1>1
  <2> DEFINE n == answer.cur[r]
             w == [ver[r][n] EXCEPT !.kind = "replaced"]
  <2>1. ver[r] \in Seq(Versions(r))
    BY DEF Inv, TypeOK
  <2>2. CASE GiveWay(r) = ver[r]
    BY <2>1, <2>2
  <2>3. CASE GiveWay(r) # ver[r]
    <3>1. n # 0 /\ GiveWay(r) = [ver[r] EXCEPT ![n] = w]
      BY <2>3 DEF GiveWay
    <3>2. n \in 1 .. Len(ver[r])
      BY <1>3, <2>1, <3>1
    <3>3. ver[r][n] \in Versions(r)
      BY <2>1, <3>2
    <3>4. w \in Versions(r) /\ w.kind # "draft"
      BY <3>3 DEF Versions, Kinds
    <3> HIDE DEF w, n
    <3> QED BY <3>1, <3>2, <3>4, ChangedInPlace
  <2> QED BY <2>2, <2>3
<1>5. cur' \in [Resources -> Nat]
  BY <1>1, <1>3 DEF Inv, TypeOK
<1>6. SameScan /\ scan' \in {NoScan} \cup Scans
  <2>1. CASE Idle
    BY <1>1, <2>1 DEF SameScan, Inv, TypeOK
  <2>2. CASE ~Idle
    <3>1. scan \in Scans /\ scan' = [scan EXCEPT !.over = TRUE]
      BY <1>1, <2>2, AtWork DEF Inv
    <3>2. scan' \in Scans
      BY <3>1 DEF Scans
    <3>3. /\ scan'.todo = scan.todo /\ scan'.do = scan.do
          /\ scan'.sig = scan.sig /\ scan'.saw = scan.saw
          /\ scan'.draft = scan.draft
          /\ scan'.t = scan.t /\ scan'.m = scan.m
      BY <3>1 DEF Scans
    <3>4. SameScan
      BY <3>3 DEF SameScan, Resources
    <3> QED BY <3>2, <3>4
  <2> QED BY <2>1, <2>2
<1>7. cut' \in BOOLEAN
  BY <1>1, Zenon
<1>8. TypeOK'
  BY <1>1, <1>2, <1>4, <1>5, <1>6, <1>7 DEF Inv, TypeOK
<1>9. Grown
  BY <1>4 DEF Grown, Inv, TypeOK
<1>10. \A r \in Resources : cur'[r] <= Len(ver'[r])
  BY <1>1, <1>3, <1>4 DEF Inv, Numbered
<1> QED BY <1>1, <1>2, <1>6, <1>8, <1>9, <1>10, GrownStep

LEMMA PublishStep ==
  ASSUME Inv, Publish
  PROVE  Inv' /\ cur' = cur
<1> DEFINE w(r) == [ver[r][cur[r]] EXCEPT !.kind = "published"]
<1>1. /\ \A r \in Resources : cur[r] # 0
      /\ home = "visible" /\ disk' = Published /\ sig' = Published
      /\ rows' = [rows EXCEPT ![home] = Content(Published)]
      /\ ver' = [r \in Resources |->
                    [ver[r] EXCEPT ![cur[r]].kind = "published"]]
      /\ cut' = FALSE /\ UNCHANGED <<home, cur, con, scan, answer, left>>
  BY DEF Publish
<1>2. \A r \in Resources : /\ cur[r] \in 1 .. Len(ver[r])
                           /\ Current(r) \in Versions(r)
  BY <1>1, CurrentTyped DEF Inv
<1>3. Published \in Disks
  <2>1. Current("t").text \in Nat /\ Current("m").text \in Nat
    BY <1>2 DEF Versions, Resources
  <2> QED BY <2>1 DEF Published, Disks, Inv, TypeOK
<1>4. \A r \in Resources : w(r) \in Versions(r) /\ w(r).kind # "draft"
  BY <1>2 DEF Current, Versions, Kinds
<1>5. \A r \in Resources : ver'[r] = [ver[r] EXCEPT ![cur[r]] = w(r)]
  BY <1>1, <1>2
<1> HIDE DEF w
<1>6. \A r \in Resources :
        /\ ver'[r] \in Seq(Versions(r)) /\ Len(ver'[r]) = Len(ver[r])
        /\ \A i \in 1 .. Len(ver[r]) :
             ver'[r][i].kind = "draft" => ver[r][i].kind = "draft"
  <2> SUFFICES ASSUME NEW r \in Resources
               PROVE  /\ ver'[r] \in Seq(Versions(r))
                      /\ Len(ver'[r]) = Len(ver[r])
                      /\ \A i \in 1 .. Len(ver[r]) :
                           ver'[r][i].kind = "draft"
                           => ver[r][i].kind = "draft"
    OBVIOUS
  <2> DEFINE one == w(r)
  <2>1. /\ cur[r] \in 1 .. Len(ver[r])
        /\ one \in Versions(r) /\ one.kind # "draft"
        /\ ver'[r] = [ver[r] EXCEPT ![cur[r]] = one]
    BY <1>2, <1>4, <1>5
  <2> HIDE DEF one
  <2> QED BY <2>1, ChangedInPlace
<1>7. rows' \in [Dirs -> {None} \cup [t: Nat, m: Nat, w: Nat]]
  BY <1>1, <1>3 DEF Content, Disks, Dirs, Inv, TypeOK
<1>8. TypeOK'
  BY <1>1, <1>3, <1>6, <1>7 DEF Inv, TypeOK
<1>9. Grown
  BY <1>6 DEF Grown, Inv, TypeOK
<1>10. \A r \in Resources : cur'[r] <= Len(ver'[r])
  BY <1>1, <1>6 DEF Inv, Numbered
<1>11. sig' # None
  BY <1>1, <1>3, ExternalAssumption
<1> QED BY <1>1, <1>8, <1>9, <1>10, <1>11, GrownStep DEF SameScan

(* What others do to the files touches nothing else.                       *)
LEMMA FileStep ==
  ASSUME Inv, Spend("events"), disk' \in Disks, Touch
  PROVE  Inv'
<1>1. UNCHANGED <<rows, home, sig, ver, cur, con, scan, answer, cut>>
  BY DEF Touch, database
<1>2. TypeOK'
  BY <1>1, TextTyped DEF Inv, TypeOK
<1>3. GoesOn
  BY <1>1 DEF GoesOn, Idle, Replaces
<1>4. con' # None => \A r \in Resources : con'[r] <= Len(ver[r])
  BY <1>1 DEF Inv, Numbered
<1> QED BY <1>1, <1>2, <1>3, <1>4, KeptStep

LEMMA FilesStep ==
  ASSUME Inv, \/ \E r \in Resources : EditFile(r)
              \/ WhisperArrives \/ Promote \/ MinutesArrive
  PROVE  Inv' /\ cur' = cur
<1>1. Spend("events") /\ Touch
  BY DEF EditFile, WhisperArrives, Promote, MinutesArrive
<1>2. NextText \in Nat /\ disk \in Disks
  BY <1>1, TextTyped DEF Inv, TypeOK
<1>3. ASSUME NEW r \in Resources, EditFile(r) PROVE disk' \in Disks
  BY <1>2, <1>3 DEF EditFile, Disks, Resources
<1>4. ASSUME WhisperArrives \/ Promote PROVE disk' \in Disks
  BY <1>2, <1>4 DEF WhisperArrives, Promote, Disks, Dirs
<1>5. ASSUME MinutesArrive PROVE disk' \in Disks
  <2>1. PICK v \in Range(ver["t"]) :
          disk' = [disk EXCEPT !.new = [text |-> NextText, input |-> v.text]]
    BY <1>5 DEF MinutesArrive
  <2>2. ver["t"] \in Seq(Versions("t"))
    BY DEF Inv, TypeOK, Resources
  <2>3. v \in Versions("t")
    BY <2>2 DEF Range
  <2>4. v.text \in Nat
    BY <2>3 DEF Versions
  <2> QED BY <1>2, <2>1, <2>4 DEF Disks
<1>6. disk' \in Disks
  BY <1>3, <1>4, <1>5
<1> QED BY <1>1, <1>6, FileStep DEF Touch, database

----------------------------------------------------------------------------
LEMMA InvInit == Init => Inv
<1> SUFFICES ASSUME Init PROVE Inv
  OBVIOUS
<1>1. TypeOK
  <2>1. disk \in Disks
    BY DEF Init, Disks, Dirs
  <2>2. /\ ver = [r \in Resources |-> ver[r]]
        /\ \A r \in Resources : ver[r] \in Seq(Versions(r))
        /\ cur \in [Resources -> Nat]
    BY DEF Init
  <2>3. left \in [events: 0 .. MaxEvents, answers: 0 .. MaxAnswers]
    BY ExternalAssumption DEF Init
  <2> QED BY <2>1, <2>2, <2>3 DEF Init, TypeOK
<1>2. Idle
  BY DEF Init, Idle, NoScan
<1>3. Numbered /\ SignedFirst /\ Judged
  BY <1>2, ExternalAssumption DEF Init, Numbered, SignedFirst, Judged
<1> QED BY <1>1, <1>3 DEF Inv

(* What a step makes of the user's drafts.                                 *)
Kept == \A r \in Resources : IsDraft(r) /\ cur'[r] # cur[r] =>
           \/ ver'[r][cur'[r]].kind = "draft"
           \/ answer # None /\ answer.con[r] # 0
           \/ ~Idle /\ scan.saw[r] # cur[r]

LEMMA StoreStep ==
  ASSUME Inv, StoreTranscript \/ ImportMinutes
  PROVE  Inv' /\ Kept
<1>1. PICK r \in Resources : \E file \in Versions(r) :
        Step(Named(r)) /\ Take(r, file) /\ cut' \in BOOLEAN
  <2>1. ~Idle
    BY DEF StoreTranscript, ImportMinutes, Step, Idle
  <2>2. CASE StoreTranscript
    BY <2>1, <2>2, FilesTyped
       DEF StoreTranscript, Inv, TypeOK, Named, Resources
  <2>3. CASE ImportMinutes
    BY <2>1, <2>3, FilesTyped
       DEF ImportMinutes, Inv, TypeOK, Named, Resources
  <2> QED BY <2>2, <2>3
<1>2. Inv' /\ \A q \in Resources : cur'[q] # cur[q] => q = r /\ Replaces(r)
  BY <1>1, TakeStep
<1>3. ~Idle
  BY <1>1 DEF Step, Idle
<1>4. ASSUME NEW q \in Resources, IsDraft(q), cur'[q] # cur[q]
      PROVE  scan.saw[q] # cur[q]
  <2>1. Replaces(q)
    BY <1>2, <1>4
  <2>2. scan.saw[q] # 0 => ver[q][scan.saw[q]].kind # "draft"
    BY <1>3, <2>1 DEF Inv, Judged
  <2> QED BY <1>4, <2>2 DEF IsDraft, Current
<1> QED BY <1>2, <1>3, <1>4 DEF Kept

LEMMA InvStep == Inv /\ [Next]_vars => Inv' /\ Kept
<1> SUFFICES ASSUME Inv, [Next]_vars PROVE Inv' /\ Kept
  OBVIOUS
<1>1. CASE UNCHANGED vars
  <2>1. UNCHANGED <<disk, rows, home, sig, ver, cur, con, scan, answer, cut,
                    left>>
    BY <1>1 DEF vars
  <2>2. Inv'
    BY <2>1 DEF Inv, TypeOK, Numbered, SignedFirst, Judged, Idle, Replaces
  <2> QED BY <2>1, <2>2 DEF Kept
<1>2. CASE StoreTranscript \/ ImportMinutes
  BY <1>2, StoreStep
<1>3. CASE Look \/ Index \/ Sign \/ OpenConflict \/ Clean \/ Vanished \/ Fail
  <2>1. cur' = cur
    BY <1>3 DEF Look, Index, Sign, OpenConflict, Clean, Vanished, Fail,
                database
  <2>2. Inv'
    BY <1>3, LookStep, IndexStep, SignStep, OpenStep, EndStep
  <2> QED BY <2>1, <2>2 DEF Kept
<1>4. ASSUME NEW r \in Resources, SaveDraft(r) \/ Rollback(r)
      PROVE  Inv' /\ Kept
  BY <1>4, SaveDraftStep, RollbackStep DEF Kept
<1>5. CASE \/ \E r \in Resources : EditFile(r)
           \/ WhisperArrives \/ Promote \/ MinutesArrive
  BY <1>5, FilesStep DEF Kept
<1>6. CASE EditSegments \/ Publish
  BY <1>6, EditSegmentsStep, PublishStep DEF Kept
<1>7. ASSUME NEW do \in {"keep", "replace"}, Answer(do)
      PROVE  Inv' /\ Kept
  <2>1. cur' = cur
    BY <1>7 DEF Answer, database
  <2> QED BY <1>7, <2>1, AnswerStep DEF Kept
<1>8. CASE CheckSource \/ KeepDraft
  <2>1. cur' = cur
    BY <1>8 DEF CheckSource, KeepDraft, database
  <2> QED BY <1>8, <2>1, CheckSourceStep, KeepDraftStep DEF Kept
<1>9. CASE ReplaceDraft
  BY <1>9, ReplaceDraftStep DEF Kept
<1> QED BY <1>1, <1>2, <1>3, <1>4, <1>5, <1>6, <1>7, <1>8, <1>9
        DEF Next, ScanStep

(* The inductive invariant of one meeting between files and rows: types,   *)
(* numbers that name versions, nothing stored before the source is signed  *)
(* (_import_meeting writes source_signature first), and no draft among     *)
(* what the running scan is going to replace, as it saw it.                *)
THEOREM ChangesInvariant == Spec => []Inv
<1>1. Inv /\ [Next]_vars => Inv'
  BY InvStep
<1> QED BY <1>1, InvInit, PTL DEF Spec

(* A user's draft stays the current version until he saves another or      *)
(* answers a conflict that names it (_import_meeting, resolve_conflict),   *)
(* but for a draft saved after the scan had looked.                        *)
THEOREM DraftsStay == Spec => DraftsKept
<1>1. Inv /\ [Next]_vars =>
        [\A r \in Resources : IsDraft(r) /\ cur'[r] # cur[r] =>
             \/ ver'[r][cur'[r]].kind = "draft"
             \/ answer # None /\ answer.con[r] # 0
             \/ ~Idle /\ scan.saw[r] # cur[r]]_vars
  BY InvStep DEF Kept
<1> QED BY <1>1, ChangesInvariant, PTL DEF Spec, DraftsKept

----------------------------------------------------------------------------
(* What makes an acknowledged source shown: the inductive invariant of     *)
(* UpToDate, on top of Inv.                                                *)

(* Of a table of versions: some version, not a draft, has the text x; the  *)
(* version n is the file x; n is a draft; n may be shown for the file x.   *)
FirmIn(table, x) == \E i \in DOMAIN table : table[i].kind # "draft" /\ table[i].text = x
FileAt(table, n, x) == n # 0 => table[n].kind # "draft" /\ table[n].text = x
DraftAt(table, n) == n # 0 /\ table[n].kind = "draft"
FineAt(table, n, x) == n # 0 => DraftAt(table, n) \/ table[n].text = x

(* No version goes, none becomes a draft, and only drafts are rewritten.   *)
Firmer(one, two) ==
    /\ Len(one) <= Len(two)
    /\ \A i \in 1 .. Len(one) : one[i].kind # "draft" =>
          two[i].kind # "draft" /\ two[i].text = one[i].text

Firm(r, x) == FirmIn(ver[r], x)
Fine(r) == FineAt(ver[r], cur[r], disk[r])
Pending(r) == Has(scan.todo, Named(r))

(* Stock: the texts there are were made before the next one; a text of the *)
(* files that is held is not held by drafts alone; transcript drafts and   *)
(* transcript files differ in their origin, and minutes with an origin     *)
(* come with those that were regenerated; a published meeting has both.    *)
Old(x) == x \in 1 .. NextText - 1
Texts ==
    /\ \A r \in Resources : Old(disk[r]) /\ \A i \in DOMAIN ver[r] : Old(ver[r][i].text)
    /\ disk.new # None => Old(disk.new.text) /\ Old(disk.new.input)
Unedited ==
    /\ \A r \in Resources : Holds(r, disk[r]) => Firm(r, disk[r])
    /\ disk.new # None /\ Holds("m", disk.new.text) => Firm("m", disk.new.text)
Origins ==
    /\ \A i \in DOMAIN ver["t"] : ver["t"][i].kind = "draft" => ver["t"][i].from = None
    /\ \A i \in DOMAIN ver["m"] :
          ver["m"][i].from # 0 => disk.new # None /\ Firm("m", disk.new.text)
Archived ==
    /\ disk.new # None => disk.root = "archive"
    /\ disk.root = "archive" => \A r \in Resources : cur[r] # 0
Stock == Texts /\ Unedited /\ Origins /\ Archived

(* Sources: what anybody remembers is the disk as it was at some time; if  *)
(* it is the disk as it is, the running scan has it too; an answer under   *)
(* way is to the open conflict.                                            *)
Remembered(s) ==
    \/ s = sig
    \/ con # None /\ s = con.sig
    \/ answer # None /\ s = answer.con.sig
    \/ ~Idle /\ s = scan.sig
Behind(s) ==
    /\ s.t < NextText /\ s.m < NextText /\ (s.new # None => s.new.text < NextText)
    /\ disk.root = "draft" => s.w <= disk.w
    /\ disk.dir = "hidden" => s.dir = "hidden"
Earlier == \A s \in Disks : Remembered(s) => Behind(s)
Newest == ~Idle /\ Remembered(disk) => scan.sig = disk
Paired ==
    answer # None => /\ con # None /\ con.id = answer.con.id
                     /\ answer.sig \in {None, answer.con.sig}
Sources == Earlier /\ Newest /\ Paired

(* Planned: the transactions of a scan come in the order of its branch.    *)
Rank(do) ==
    IF do \in {"import", "keep"}
    THEN    [sign |-> 1, index |-> 2, transcript |-> 3, minutes |-> 4, open |-> 5, clean |-> 6]
    ELSE IF do = "capture"
    THEN    [transcript |-> 1, minutes |-> 2, index |-> 3, sign |-> 4, open |-> 5, clean |-> 6]
    ELSE    [index |-> 1, transcript |-> 2, minutes |-> 3, sign |-> 4, open |-> 5, clean |-> 6]
InTurn(todo, do) ==
    \A i, j \in DOMAIN todo : i < j => Rank(do)[todo[i]] < Rank(do)[todo[j]]
Planned ==
    ~Idle =>
        /\ InTurn(scan.todo, scan.do)
        /\ Has(scan.todo, "sign") => scan.do \notin {"keep", "capture"}
        /\ Has(scan.todo, "open") => scan.do \in {"capture", "minutes"}
        /\ scan.do = "import" => /\ Has(scan.todo, "sign") => Pending("t")
                                 /\ Pending("t") => Pending("m")
        /\ scan.do \in {"refresh", "relocate"} => ~Pending("t") /\ ~Pending("m")
        /\ scan.do \in {"minutes", "late"} => disk.new # None

(* What a conflict, or a capturing scan, tells of r on the disk d: that it *)
(* found the files, and no more of them to offer than is fine already.     *)
ToldOf(c, r, d, table, n) ==
    /\ c[r] = 0 => n # 0
    /\ c.sig = d =>
        IF d.new # None THEN r = "m" => FirmIn(table, d.new.text)
        ELSE /\ FirmIn(table, d[r]) /\ FileAt(table, c[r], d[r])
             /\ c[r] = 0 /\ ~c.over => FineAt(table, n, d[r])
Told(c, r) == ToldOf(c, r, disk, ver[r], cur[r])
Offers ==
    \A r \in Resources : /\ con # None => Told(con, r)
                         /\ answer # None => Told(answer.con, r)
Captures ==
    ~Idle /\ scan.do = "capture" =>
        \A r \in Resources : IF Pending(r) THEN scan[r] = 0 ELSE Told(scan, r)

(* What the other branches have made sure of when they are half done.      *)
Imports ==
    ~Idle /\ scan.do = "import" =>
        /\ \A r \in Resources : cur[r] = 0 => ver[r] = <<>> /\ con = None
        /\ ~Pending("t") /\ scan.sig = disk /\ disk.new = None =>
            /\ Firm("t", disk.t)
            /\ Fine("t") \/ (sig # disk /\ con = None)
Lates ==
    ~Idle /\ scan.do \in {"minutes", "late"} /\ ~Pending("m") /\ scan.sig = disk =>
        Firm("m", disk.new.text)
Keeps ==
    ~Idle /\ scan.do = "keep" => \A r \in Resources :
        Pending(r) /\ (con # None \/ \E q \in Resources : cur[q] = 0 /\ ver[q] # <<>>) =>
            \E q \in Resources : DraftAt(ver[q], cur[q]) /\ ~Pending(q)

(* A meeting with a version but none current came to it over a draft.      *)
Drafting ==
    \A r \in Resources :
        cur[r] = 0 /\ (con # None \/ (~Idle /\ scan.do = "capture") \/ ver[r] # <<>>) =>
            \E q \in Resources : DraftAt(ver[q], cur[q])

(* Acknowledged: the words of the source are kept, and shown or drafted.   *)
Underway == ~Idle /\ scan.do = "import" /\ ~Has(scan.todo, "sign")
            /\ \E r \in Resources : Pending(r)
Overwrites(r) == ~Idle /\ scan.do = "keep" /\ Pending(r)
Words == IF disk.new # None THEN Firm("m", disk.new.text)
         ELSE \A r \in Resources : ver[r] # <<>> => Firm(r, disk[r])
Acknowledged ==
    sig = disk /\ con = None /\ ~cut /\ ~Underway =>
        /\ Words
        /\ \/ \E r \in Resources : DraftAt(ver[r], cur[r]) /\ ~Overwrites(r)
           \/ disk.new # None
           \/ \A r \in Resources : Fine(r)

Sound == /\ Stock /\ Sources /\ Planned /\ Offers /\ Captures /\ Imports /\ Lates
         /\ Keeps /\ Drafting /\ Acknowledged

----------------------------------------------------------------------------
(* Plans.                                                                  *)

(* A plan put together from two parts is in its turn.                      *)
LEMMA Joining ==
  ASSUME NEW a \in Seq(Names), NEW b \in Seq(Names), NEW do,
         InTurn(a, do), InTurn(b, do),
         \A i \in DOMAIN a, j \in DOMAIN b : Rank(do)[a[i]] < Rank(do)[b[j]]
  PROVE  /\ InTurn(a \o b, do)
         /\ \A x : Has(a \o b, x) <=> Has(a, x) \/ Has(b, x)
<1>1. /\ a \o b \in Seq(Names) /\ Len(a \o b) = Len(a) + Len(b)
      /\ Len(a) \in Nat /\ Len(b) \in Nat
      /\ DOMAIN a = 1 .. Len(a) /\ DOMAIN b = 1 .. Len(b)
      /\ DOMAIN (a \o b) = 1 .. Len(a) + Len(b)
  OBVIOUS
<1>2. /\ \A i \in 1 .. Len(a) : (a \o b)[i] = a[i]
      /\ \A i \in 1 .. Len(b) : (a \o b)[i + Len(a)] = b[i]
  OBVIOUS
<1>3. \A i \in 1 .. Len(a) + Len(b) :
        \/ i \in 1 .. Len(a)
        \/ i - Len(a) \in 1 .. Len(b) /\ i = (i - Len(a)) + Len(a)
  BY <1>1
<1> DEFINE c == a \o b
<1> HIDE DEF c
<1>4. \A i \in DOMAIN c : \/ i \in DOMAIN a /\ c[i] = a[i]
                          \/ i - Len(a) \in DOMAIN b /\ c[i] = b[i - Len(a)]
  BY <1>1, <1>2, <1>3 DEF c
<1>5. InTurn(c, do)
  <2> SUFFICES ASSUME NEW i \in DOMAIN c, NEW j \in DOMAIN c, i < j
               PROVE  Rank(do)[c[i]] < Rank(do)[c[j]]
    BY DEF InTurn
  <2>1. i \in Nat /\ j \in Nat
    BY <1>1 DEF c
  <2>2. CASE i \in DOMAIN a /\ c[i] = a[i] /\ j \in DOMAIN a /\ c[j] = a[j]
    BY <2>2 DEF InTurn
  <2>3. CASE i \in DOMAIN a /\ c[i] = a[i]
             /\ j - Len(a) \in DOMAIN b /\ c[j] = b[j - Len(a)]
    BY <2>3
  <2>4. CASE /\ i - Len(a) \in DOMAIN b /\ c[i] = b[i - Len(a)]
             /\ j - Len(a) \in DOMAIN b /\ c[j] = b[j - Len(a)]
    <3>1. i - Len(a) < j - Len(a)
      BY <1>1, <2>1
    <3> QED BY <2>4, <3>1 DEF InTurn
  <2>5. ~(i \notin DOMAIN a /\ j \in DOMAIN a)
    BY <1>1, <2>1
  <2> QED BY <1>4, <2>2, <2>3, <2>4, <2>5
<1>6. ASSUME NEW x PROVE Has(c, x) <=> Has(a, x) \/ Has(b, x)
  <2>1. Has(c, x) => Has(a, x) \/ Has(b, x)
    BY <1>4 DEF Has
  <2>2. Has(a, x) => Has(c, x)
    BY <1>1, <1>2 DEF Has, c
  <2>3. Has(b, x) => Has(c, x)
    <3>1. ASSUME NEW i \in DOMAIN b PROVE i + Len(a) \in DOMAIN c /\ c[i + Len(a)] = b[i]
      BY <1>1, <1>2, <3>1 DEF c
    <3> QED BY <3>1 DEF Has
  <2> QED BY <2>1, <2>2, <2>3
<1> QED BY <1>5, <1>6 DEF c

(* The plan of a branch is in its turn, and holds what the branch needs.   *)
LEMMA MissingInTurn ==
  /\ InTurn(<<"index">> \o Missing, "keep")
  /\ \A i \in DOMAIN (<<"index">> \o Missing) :
        Rank("keep")[(<<"index">> \o Missing)[i]] < 6
  /\ \A x : Has(<<"index">> \o Missing, x) =>
        x \in {"index", "transcript", "minutes"}
<1> DEFINE a == IF cur["t"] = 0 THEN <<"transcript">> ELSE <<>>
           b == IF cur["m"] = 0 THEN <<"minutes">> ELSE <<>>
<1>1. Missing = a \o b
  BY DEF Missing
<1>2. /\ a \in {<<>>, <<"transcript">>} /\ b \in {<<>>, <<"minutes">>}
      /\ a \in Seq(Names) /\ b \in Seq(Names) /\ <<"index">> \in Seq(Names)
  <2>1. {<<>>, <<"transcript">>, <<"minutes">>, <<"index">>} \subseteq Seq(Names)
    BY DEF Names
  <2> QED BY <2>1
<1>3. /\ \A x : Has(a, x) => x = "transcript"
      /\ \A x : Has(b, x) => x = "minutes"
      /\ \A x : Has(<<"index">>, x) => x = "index"
      /\ InTurn(a, "keep") /\ InTurn(b, "keep") /\ InTurn(<<"index">>, "keep")
  BY <1>2 DEF Has, InTurn, Rank
<1> HIDE DEF a, b
<1>4. /\ \A i \in DOMAIN a, j \in DOMAIN b : Rank("keep")[a[i]] < Rank("keep")[b[j]]
  BY <1>3 DEF Has, Rank
<1>5. /\ InTurn(a \o b, "keep")
      /\ \A x : Has(a \o b, x) <=> Has(a, x) \/ Has(b, x)
  BY <1>2, <1>3, <1>4, Joining
<1>6. a \o b \in Seq(Names) /\ <<"index">> \in Seq(Names)
  BY <1>2
<1> DEFINE c == a \o b
           one == <<"index">>
<1>7. \A x : Has(c, x) => x \in {"transcript", "minutes"}
  BY <1>3, <1>5
<1>8. \A x : Has(one, x) => x = "index"
  BY <1>3
<1> HIDE DEF c, one
<1>9. \A i \in DOMAIN one, j \in DOMAIN c : Rank("keep")[one[i]] < Rank("keep")[c[j]]
  BY <1>7, <1>8 DEF Has, Rank
<1>10. /\ InTurn(one \o c, "keep")
       /\ \A x : Has(one \o c, x) <=> Has(one, x) \/ Has(c, x)
  BY <1>3, <1>5, <1>6, <1>9, Joining DEF one, c
<1>11. \A x : Has(one \o c, x) => x \in {"index", "transcript", "minutes"}
  BY <1>7, <1>8, <1>10
<1> DEFINE e == one \o c
<1> HIDE DEF e
<1>12. \A x : Has(e, x) => x \in {"index", "transcript", "minutes"}
  BY <1>11 DEF e
<1>13. \A i \in DOMAIN e : Rank("keep")[e[i]] < 6
  BY <1>12 DEF Has, Rank
<1> QED BY <1>1, <1>10, <1>11, <1>13 DEF one, c, e

(* Whatever the branch, its plan is in its turn and holds what it needs.   *)
LEMMA PlanInTurn ==
  ASSUME TypeOK
  PROVE  LET todo == Plan[Branch] \o <<"clean">> IN
         /\ InTurn(todo, Branch)
         /\ Has(todo, "sign") => Branch \in {"import", "refresh", "relocate"}
         /\ Has(todo, "open") => Branch = "capture"
         /\ Branch \in {"import", "capture"} =>
               Has(todo, "transcript") /\ Has(todo, "minutes")
         /\ Branch = "minutes" => Has(todo, "minutes")
         /\ Branch \in {"refresh", "relocate"} =>
               ~Has(todo, "transcript") /\ ~Has(todo, "minutes")
         /\ \A r \in Resources : Branch = "keep" /\ Has(todo, Named(r)) => cur[r] = 0
<1> DEFINE p == Plan[Branch]
           last == <<"clean">>
<1>1. p \in Seq(Names) /\ last \in Seq(Names) /\ Branch \in Branches \ {"late"}
  <2>1. last \in Seq(Names)
    BY DEF Names
  <2>2. \A b \in Branches \ {"late"} : Plan[b] \in Seq(Names)
    <3>1. /\ Plan["import"] = <<"sign", "index", "transcript", "minutes">>
          /\ Plan["refresh"] = <<"index", "sign">>
          /\ Plan["relocate"] = <<"index", "sign">>
          /\ Plan["keep"] = <<"index">> \o Missing
          /\ Plan["minutes"] = <<"index", "minutes">>
          /\ Plan["capture"] = <<"transcript", "minutes", "index", "open">>
      BY DEF Plan
    <3>2. {<<"sign", "index", "transcript", "minutes">>, <<"index", "sign">>,
           <<"index">>, <<"index", "minutes">>,
           <<"transcript", "minutes", "index", "open">>} \subseteq Seq(Names)
      BY DEF Names
    <3>3. <<"index">> \o Missing \in Seq(Names)
      BY <3>2, MissingTyped
    <3> QED BY <3>1, <3>2, <3>3 DEF Branches
  <2> QED BY <2>1, <2>2, PlanTyped
<1>2. /\ \A x : Has(last, x) <=> x = "clean"
      /\ \A do : InTurn(last, do) /\ Rank(do)["clean"] = 6
      /\ DOMAIN last = {1} /\ last[1] = "clean"
  BY DEF Has, InTurn, Rank
<1>3. CASE Branch = "import"
  <2>1. p = <<"sign", "index", "transcript", "minutes">>
    BY <1>3 DEF Plan
  <2>2. /\ InTurn(p, "import") /\ Has(p, "transcript") /\ Has(p, "minutes") /\ ~Has(p, "open")
        /\ \A i \in DOMAIN p : Rank("import")[p[i]] < 6
    BY <2>1 DEF InTurn, Rank, Has
  <2> HIDE DEF p, last
  <2>3. InTurn(p \o last, Branch) /\ \A x : Has(p \o last, x) <=> Has(p, x) \/ Has(last, x)
    BY <1>1, <1>2, <1>3, <2>2, Joining
  <2> QED BY <1>2, <1>3, <2>2, <2>3 DEF p, last
<1>4. CASE Branch = "capture"
  <2>1. p = <<"transcript", "minutes", "index", "open">>
    BY <1>4 DEF Plan
  <2>2. /\ InTurn(p, "capture") /\ Has(p, "transcript") /\ Has(p, "minutes") /\ ~Has(p, "sign")
        /\ \A i \in DOMAIN p : Rank("capture")[p[i]] < 6
    BY <2>1 DEF InTurn, Rank, Has
  <2> HIDE DEF p, last
  <2>3. InTurn(p \o last, Branch) /\ \A x : Has(p \o last, x) <=> Has(p, x) \/ Has(last, x)
    BY <1>1, <1>2, <1>4, <2>2, Joining
  <2> QED BY <1>2, <1>4, <2>2, <2>3 DEF p, last
<1>5. CASE Branch = "minutes"
  <2>1. p = <<"index", "minutes">>
    BY <1>5 DEF Plan
  <2>2. /\ InTurn(p, "minutes") /\ Has(p, "minutes") /\ ~Has(p, "sign") /\ ~Has(p, "open")
        /\ \A i \in DOMAIN p : Rank("minutes")[p[i]] < 6
    BY <2>1 DEF InTurn, Rank, Has
  <2> HIDE DEF p, last
  <2>3. InTurn(p \o last, Branch) /\ \A x : Has(p \o last, x) <=> Has(p, x) \/ Has(last, x)
    BY <1>1, <1>2, <1>5, <2>2, Joining
  <2> QED BY <1>2, <1>5, <2>2, <2>3 DEF p, last
<1>6. CASE Branch \in {"refresh", "relocate"}
  <2>1. p = <<"index", "sign">>
    BY <1>6 DEF Plan
  <2>2. /\ InTurn(p, Branch) /\ \A x : Has(p, x) => x \in {"index", "sign"}
        /\ \A i \in DOMAIN p : Rank(Branch)[p[i]] < 6
    BY <1>6, <2>1 DEF InTurn, Rank, Has
  <2> HIDE DEF p, last
  <2>3. InTurn(p \o last, Branch) /\ \A x : Has(p \o last, x) <=> Has(p, x) \/ Has(last, x)
    BY <1>1, <1>2, <2>2, Joining
  <2> QED BY <1>2, <1>6, <2>2, <2>3 DEF p, last
<1>7. CASE Branch = "keep"
  <2>1. p = <<"index">> \o Missing
    BY <1>7 DEF Plan
  <2>2. /\ InTurn(p, "keep") /\ \A x : Has(p, x) => x \in {"index", "transcript", "minutes"}
        /\ \A i \in DOMAIN p : Rank("keep")[p[i]] < 6
    BY <2>1, MissingInTurn
  <2>3. \A r \in Resources : Has(p, Named(r)) => cur[r] = 0
    <3>1. <<"index">> \in Seq(Names) /\ \A r : ~Has(<<"index">>, Named(r))
      BY DEF Names, Has, Named
    <3> QED BY <2>1, <3>1, Joined, MissingTyped
  <2>4. \A r : Named(r) # "clean"
    BY DEF Named
  <2> HIDE DEF p, last
  <2>5. InTurn(p \o last, Branch) /\ \A x : Has(p \o last, x) <=> Has(p, x) \/ Has(last, x)
    BY <1>1, <1>2, <1>7, <2>2, Joining
  <2> QED BY <1>2, <1>7, <2>2, <2>3, <2>4, <2>5 DEF p, last
<1> QED BY <1>1, <1>3, <1>4, <1>5, <1>6, <1>7 DEF Branches

(* What is left of a plan comes after what is done.                        *)
LEMMA PoppedInTurn ==
  ASSUME TypeOK, ~Idle, InTurn(scan.todo, scan.do)
  PROVE  LET head == Head(scan.todo)
             tail == Tail(scan.todo)
         IN  /\ head \in Names
             /\ InTurn(tail, scan.do)
             /\ \A x : Has(scan.todo, x) <=> x = head \/ Has(tail, x)
             /\ \A x : Has(tail, x) => /\ x \in Names
                                       /\ Rank(scan.do)[head] < Rank(scan.do)[x]
<1> DEFINE q == scan.todo
           tail == Tail(q)
<1>1. q \in Seq(Names) /\ q # <<>>
  BY AtWork DEF Scans, Idle
<1> HIDE DEF q
<1>2. /\ tail \in Seq(Names) /\ Len(q) \in Nat \ {0} /\ Len(tail) = Len(q) - 1
      /\ DOMAIN q = 1 .. Len(q) /\ DOMAIN tail = 1 .. Len(q) - 1
      /\ \A i \in 1 .. Len(q) - 1 : tail[i] = q[i + 1]
      /\ Head(q) = q[1]
  BY <1>1
<1> HIDE DEF tail
<1>3. /\ \A i \in DOMAIN tail : i + 1 \in DOMAIN q /\ i + 1 > 1 /\ tail[i] = q[i + 1]
      /\ \A i \in DOMAIN q : i = 1 \/ (i - 1 \in DOMAIN tail /\ tail[i - 1] = q[i])
      /\ 1 \in DOMAIN q
  BY <1>2
<1>4. q[1] \in Names
  BY <1>1, <1>3
<1>5. InTurn(tail, scan.do)
  <2> SUFFICES ASSUME NEW i \in DOMAIN tail, NEW j \in DOMAIN tail, i < j
               PROVE  Rank(scan.do)[tail[i]] < Rank(scan.do)[tail[j]]
    BY DEF InTurn
  <2>1. i + 1 < j + 1
    BY <1>2
  <2> QED BY <1>3, <2>1 DEF InTurn, q
<1>6. \A x : Has(q, x) <=> x = q[1] \/ Has(tail, x)
  BY <1>3 DEF Has
<1>7. \A i \in DOMAIN tail : Rank(scan.do)[q[1]] < Rank(scan.do)[tail[i]]
  BY <1>3 DEF InTurn, q
<1>8. \A x : Has(tail, x) => /\ x \in Names
                             /\ Rank(scan.do)[q[1]] < Rank(scan.do)[x]
  BY <1>2, <1>7 DEF Has
<1> QED BY <1>2, <1>4, <1>5, <1>6, <1>8 DEF q, tail

----------------------------------------------------------------------------
(* What a step that only adds keeps of the parts.                          *)

Firming ==
    /\ disk' = disk
    /\ \A r \in Resources : Firmer(ver[r], ver'[r]) /\ (cur[r] # 0 => cur'[r] # 0)
FineStays ==
    \A r \in Resources : disk.new = None /\ FineAt(ver[r], cur[r], disk[r]) =>
                             FineAt(ver'[r], cur'[r], disk[r])
NoOrphan == \A r \in Resources : cur'[r] = 0 => cur[r] = 0 /\ (ver[r] = <<>> => ver'[r] = <<>>)
DraftsRemain == \A r \in Resources : DraftAt(ver[r], cur[r]) => DraftAt(ver'[r], cur'[r])
SameWork ==
    /\ ~Idle' => /\ ~Idle /\ scan'.do = scan.do /\ scan'.sig = scan.sig
                 /\ scan'.t = scan.t /\ scan'.m = scan.m /\ (scan.over => scan'.over)
    /\ \A x \in {"sign", "transcript", "minutes"} :
          Has(scan'.todo, x) <=> Has(scan.todo, x)

(* Texts no draft needs stay as tables grow firmer.                        *)
LEMMA FirmerFirm ==
  ASSUME NEW V, NEW one \in Seq(V), NEW two \in Seq(V), Firmer(one, two), NEW x
  PROVE  /\ FirmIn(one, x) => FirmIn(two, x)
         /\ \A n \in 0 .. Len(one) : FileAt(one, n, x) => FileAt(two, n, x)
<1>1. /\ DOMAIN one = 1 .. Len(one) /\ DOMAIN two = 1 .. Len(two)
      /\ Len(one) \in Nat /\ Len(two) \in Nat /\ Len(one) <= Len(two)
  BY DEF Firmer
<1>2. FirmIn(one, x) => FirmIn(two, x)
  BY <1>1 DEF FirmIn, Firmer
<1>3. \A n \in 0 .. Len(one) : FileAt(one, n, x) => FileAt(two, n, x)
  BY <1>1 DEF FileAt, Firmer
<1> QED BY <1>2, <1>3

(* What was told stays true as tables grow firmer.                         *)
LEMMA ToldKept ==
  ASSUME NEW V, NEW one \in Seq(V), NEW two \in Seq(V), Firmer(one, two),
         NEW c, NEW e, NEW r, NEW d, NEW n, NEW k,
         ToldOf(c, r, d, one, n), c[r] \in 0 .. Len(one),
         e[r] = c[r], e.sig = c.sig, c.over => e.over, n # 0 => k # 0,
         ~e.over /\ d.new = None /\ FineAt(one, n, d[r]) => FineAt(two, k, d[r])
  PROVE  ToldOf(e, r, d, two, k)
<1>1. \A x : /\ FirmIn(one, x) => FirmIn(two, x)
             /\ FileAt(one, c[r], x) => FileAt(two, c[r], x)
  BY FirmerFirm
<1> QED BY <1>1 DEF ToldOf

(* The numbers that are kept lie in their tables.                          *)
LEMMA TablesTyped ==
  ASSUME TypeOK, Numbered, NEW r \in Resources
  PROVE  /\ ver[r] \in Seq(Versions(r))
         /\ con # None => con[r] \in 0 .. Len(ver[r])
         /\ answer # None => answer.con[r] \in 0 .. Len(ver[r])
         /\ ~Idle => scan[r] \in 0 .. Len(ver[r])
         /\ cur[r] \in 0 .. Len(ver[r])
<1>1. ver[r] \in Seq(Versions(r)) /\ Len(ver[r]) \in Nat
  BY DEF TypeOK
<1>2. con # None => con[r] \in Nat /\ con[r] <= Len(ver[r])
  BY DEF TypeOK, Numbered, Conflicts, Resources
<1>3. ~Idle => scan[r] \in Nat /\ scan[r] <= Len(ver[r])
  BY AtWork DEF Numbered, Scans, Resources
<1>4. answer # None => answer.con[r] \in Nat /\ answer.con[r] <= Len(ver[r])
  BY DEF TypeOK, Numbered, Answers, Conflicts, Resources
<1>5. cur[r] \in Nat /\ cur[r] <= Len(ver[r])
  BY DEF TypeOK, Numbered
<1> QED BY <1>1, <1>2, <1>3, <1>4, <1>5

(* A text no draft needs is not lost.                                      *)
LEMMA FirmKept ==
  ASSUME TypeOK, TypeOK', Firming, NEW r \in Resources, NEW x, FirmIn(ver[r], x)
  PROVE  FirmIn(ver'[r], x)
<1>1. ver[r] \in Seq(Versions(r)) /\ ver'[r] \in Seq(Versions(r)) /\ Firmer(ver[r], ver'[r])
  BY DEF TypeOK, Firming, FineStays
<1> QED BY <1>1, FirmerFirm

(* The parts of Sound, kept by a step that leaves work and tables in       *)
(* order.                                                                  *)
LEMMA OffersKept ==
  ASSUME TypeOK, Numbered, TypeOK', Firming, FineStays, Offers, con' \in {con, None},
         answer' # None => \/ answer # None /\ answer'.con = answer.con
                           \/ con # None /\ answer'.con = con
  PROVE  Offers'
<1> SUFFICES ASSUME NEW r \in Resources
             PROVE  /\ con' # None => Told(con, r)'
                    /\ answer' # None => Told(answer.con, r)'
  BY DEF Offers
<1>1. /\ ver[r] \in Seq(Versions(r)) /\ ver'[r] \in Seq(Versions(r))
      /\ Firmer(ver[r], ver'[r]) /\ disk' = disk
      /\ cur[r] # 0 => cur'[r] # 0
      /\ disk.new = None /\ FineAt(ver[r], cur[r], disk[r]) =>
            FineAt(ver'[r], cur'[r], disk[r])
  BY DEF TypeOK, Firming, FineStays
<1>2. ASSUME NEW c, ToldOf(c, r, disk, ver[r], cur[r]), c[r] \in 0 .. Len(ver[r])
      PROVE  ToldOf(c, r, disk', ver'[r], cur'[r])
  BY <1>1, <1>2, ToldKept
<1>3. /\ con # None => con[r] \in 0 .. Len(ver[r]) /\ ToldOf(con, r, disk, ver[r], cur[r])
      /\ answer # None => /\ answer.con[r] \in 0 .. Len(ver[r])
                          /\ ToldOf(answer.con, r, disk, ver[r], cur[r])
  BY TablesTyped DEF Offers, Told
<1>4. con' # None => Told(con, r)'
  BY <1>2, <1>3 DEF Told
<1>5. answer' # None => Told(answer.con, r)'
  BY <1>2, <1>3 DEF Told
<1> QED BY <1>4, <1>5

LEMMA CapturesKept ==
  ASSUME TypeOK, Numbered, TypeOK', Firming, SameWork, Captures,
         ~Idle' => scan'.over \/ FineStays
  PROVE  Captures'
<1> SUFFICES ASSUME ~Idle', scan'.do = "capture", NEW r \in Resources
             PROVE  IF Pending(r)' THEN scan'[r] = 0 ELSE Told(scan, r)'
  BY DEF Captures
<1>1. /\ ~Idle /\ scan.do = "capture" /\ scan'[r] = scan[r] /\ scan'.sig = scan.sig
      /\ scan.over => scan'.over
  BY DEF SameWork, Resources
<1>2. Has(scan'.todo, Named(r)) <=> Has(scan.todo, Named(r))
  BY DEF SameWork, Named
<1>3. /\ ver[r] \in Seq(Versions(r)) /\ ver'[r] \in Seq(Versions(r))
      /\ Firmer(ver[r], ver'[r]) /\ disk' = disk
      /\ cur[r] # 0 => cur'[r] # 0
      /\ ~scan'.over /\ disk.new = None /\ FineAt(ver[r], cur[r], disk[r]) =>
            FineAt(ver'[r], cur'[r], disk[r])
  BY DEF TypeOK, Firming, FineStays
<1>4. scan[r] \in 0 .. Len(ver[r])
  BY <1>1, TablesTyped
<1>5. IF Pending(r) THEN scan[r] = 0 ELSE ToldOf(scan, r, disk, ver[r], cur[r])
  BY <1>1 DEF Captures, Told
<1>6. CASE Pending(r)
  BY <1>1, <1>2, <1>5, <1>6 DEF Pending
<1>7. CASE ~Pending(r)
  <2>1. ToldOf(scan', r, disk', ver'[r], cur'[r])
    BY <1>1, <1>3, <1>4, <1>5, <1>7, ToldKept
  <2> QED BY <1>2, <1>7, <2>1 DEF Pending, Told
<1> QED BY <1>6, <1>7

LEMMA ImportsKept ==
  ASSUME TypeOK, TypeOK', Firming, FineStays, SameWork, NoOrphan, Imports, con' \in {con, None},
         sig # disk /\ con = None => sig' # disk
  PROVE  Imports'
<1> SUFFICES ASSUME ~Idle', scan'.do = "import"
             PROVE  Imports'
  BY DEF Imports
<1>1. ~Idle /\ scan.do = "import" /\ scan'.sig = scan.sig /\ disk' = disk
  BY DEF SameWork, Firming
<1>2. \A r \in Resources : cur[r] = 0 => ver[r] = <<>> /\ con = None
  BY <1>1 DEF Imports
<1>3. \A r \in Resources : cur'[r] = 0 => ver'[r] = <<>> /\ con' = None
  BY <1>2 DEF NoOrphan
<1>4. ASSUME ~Pending("t")', scan'.sig = disk', disk'.new = None
      PROVE  /\ Firm("t", disk.t)'
             /\ Fine("t")' \/ (sig' # disk' /\ con' = None)
  <2>1. ~Pending("t")
    BY <1>4 DEF SameWork, Pending, Named
  <2>2. Firm("t", disk.t) /\ (Fine("t") \/ (sig # disk /\ con = None))
    BY <1>1, <1>4, <2>1 DEF Imports
  <2>3. Firm("t", disk.t)'
    BY <1>1, <2>2, FirmKept DEF Firm, Resources
  <2>4. Fine("t") => Fine("t")'
    BY <1>1, <1>4 DEF Fine, FineStays, Resources
  <2> QED BY <1>1, <2>2, <2>3, <2>4
<1> QED BY <1>3, <1>4 DEF Imports

LEMMA LatesKept ==
  ASSUME TypeOK, TypeOK', Firming, SameWork, Lates
  PROVE  Lates'
<1> SUFFICES ASSUME ~Idle', scan'.do \in {"minutes", "late"}, ~Pending("m")',
                    scan'.sig = disk'
             PROVE  Firm("m", disk.new.text)'
  BY DEF Lates
<1>1. /\ ~Idle /\ scan'.do = scan.do /\ scan'.sig = scan.sig /\ disk' = disk
      /\ ~Pending("m")
  BY DEF SameWork, Firming, Pending, Named
<1>2. Firm("m", disk.new.text)
  BY <1>1 DEF Lates
<1> QED BY <1>1, <1>2, FirmKept DEF Firm, Resources

LEMMA KeepsKept ==
  ASSUME SameWork, NoOrphan, DraftsRemain, Keeps, con' \in {con, None}
  PROVE  Keeps'
<1> SUFFICES ASSUME ~Idle', scan'.do = "keep", NEW r \in Resources, Pending(r)',
                    con' # None \/ \E q \in Resources : cur'[q] = 0 /\ ver'[q] # <<>>
             PROVE  \E q \in Resources : DraftAt(ver'[q], cur'[q]) /\ ~Pending(q)'
  BY DEF Keeps
<1>1. /\ ~Idle /\ scan.do = "keep"
      /\ \A q \in Resources : Pending(q)' <=> Pending(q)
  BY DEF SameWork, Pending, Named
<1>2. con # None \/ \E q \in Resources : cur[q] = 0 /\ ver[q] # <<>>
  BY DEF NoOrphan
<1>3. PICK q \in Resources : DraftAt(ver[q], cur[q]) /\ ~Pending(q)
  BY <1>1, <1>2 DEF Keeps
<1> QED BY <1>1, <1>3 DEF DraftsRemain

LEMMA DraftingKept ==
  ASSUME SameWork, NoOrphan, DraftsRemain, Drafting, con' \in {con, None}
  PROVE  Drafting'
<1> SUFFICES ASSUME NEW r \in Resources, cur'[r] = 0,
                    con' # None \/ (~Idle' /\ scan'.do = "capture") \/ ver'[r] # <<>>
             PROVE  \E q \in Resources : DraftAt(ver'[q], cur'[q])
  BY DEF Drafting
<1>1. cur[r] = 0 /\ (con # None \/ (~Idle /\ scan.do = "capture") \/ ver[r] # <<>>)
  BY DEF SameWork, NoOrphan
<1>2. PICK q \in Resources : DraftAt(ver[q], cur[q])
  BY <1>1 DEF Drafting
<1> QED BY <1>2 DEF DraftsRemain

LEMMA AcknowledgedKept ==
  ASSUME TypeOK, TypeOK', Firming, FineStays, SameWork, DraftsRemain, Acknowledged,
         \A r \in Resources : ver[r] = <<>> => ver'[r] = <<>>,
         sig' = sig, con' = con, cut => cut'
  PROVE  Acknowledged'
<1> SUFFICES ASSUME sig' = disk', con' = None, ~cut', ~Underway'
             PROVE  Acknowledged'
  BY DEF Acknowledged
<1>1. disk' = disk /\ sig = disk /\ con = None /\ ~cut
  BY DEF Firming
<1>2. \A r \in Resources : Pending(r)' <=> Pending(r)
  BY DEF SameWork, Pending, Named
<1>3. ~Underway
  <2> SUFFICES ASSUME Underway PROVE Underway'
    OBVIOUS
  <2>1. PICK r \in Resources : Pending(r)
    BY DEF Underway
  <2>2. ~Idle'
    BY <1>2, <2>1 DEF Pending, Has, Idle
  <2> QED BY <1>2, <2>1, <2>2 DEF Underway, SameWork
<1>4. /\ Words
      /\ \/ \E r \in Resources : DraftAt(ver[r], cur[r]) /\ ~Overwrites(r)
         \/ disk.new # None
         \/ \A r \in Resources : Fine(r)
  BY <1>1, <1>3 DEF Acknowledged
<1>5. Words'
  BY <1>1, <1>4, FirmKept DEF Words, Firm, Resources
<1>6. \A r \in Resources : Overwrites(r)' => Overwrites(r)
  BY <1>2 DEF Overwrites, SameWork
<1>7. \A r \in Resources : disk.new = None /\ Fine(r) => Fine(r)'
  BY <1>1 DEF Fine, FineStays
<1> QED BY <1>1, <1>4, <1>5, <1>6, <1>7 DEF Acknowledged, DraftsRemain

(* Texts are made in their order.                                          *)
LEMMA Later ==
  ASSUME TypeOK, left' = left \/ \E what \in {"events", "answers"} : Spend(what)
  PROVE  /\ NextText \in Nat \ {0, 1} /\ NextText' \in Nat /\ NextText <= NextText'
         /\ Spend("events") => NextText' = NextText + 1
<1>1. /\ left \in [events: 0 .. MaxEvents, answers: 0 .. MaxAnswers]
      /\ MaxEvents \in Nat
  BY ExternalAssumption DEF TypeOK
<1>2. left'.events = left.events \/ left'.events = left.events - 1
  BY <1>1 DEF Spend
<1>3. Spend("events") => left'.events = left.events - 1
  BY <1>1 DEF Spend
<1> QED BY <1>1, <1>2, <1>3 DEF NextText

(* New versions are of old texts, or of the next one.                      *)
LEMMA StockKept ==
  ASSUME TypeOK, TypeOK', Stock, Firming,
         left' = left \/ \E what \in {"events", "answers"} : Spend(what),
         \A r \in Resources : \A i \in DOMAIN ver'[r] :
            \/ Holds(r, ver'[r][i].text)
            \/ Old(ver'[r][i].text) /\ FirmIn(ver'[r], ver'[r][i].text)
            \/ Spend("events") /\ ver'[r][i].text = NextText,
         \A i \in DOMAIN ver'["t"] : ver'["t"][i].kind = "draft" => ver'["t"][i].from = None,
         \A i \in DOMAIN ver'["m"] : ver'["m"][i].from # 0 =>
            \/ \E j \in DOMAIN ver["m"] : ver["m"][j].from # 0
            \/ disk.new # None /\ FirmIn(ver'["m"], disk.new.text)
  PROVE  Stock'
<1>1. disk' = disk
  BY DEF Firming
<1>2. \A x : Old(x) => Old(x)' /\ x # NextText
  BY Later DEF Old
<1>3. \A r \in Resources : \A x : Holds(r, x) => Old(x)
  BY DEF Holds, Stock, Texts
<1>4. Texts'
  <2>1. ASSUME NEW r \in Resources, NEW i \in DOMAIN ver'[r]
        PROVE  ver'[r][i].text \in 1 .. NextText' - 1
    <3>1. \A x : Old(x) \/ (Spend("events") /\ x = NextText) => x \in 1 .. NextText' - 1
      BY Later DEF Old
    <3> QED BY <1>3, <2>1, <3>1
  <2>2. /\ \A r \in Resources : Old(disk[r])'
        /\ disk'.new # None => Old(disk.new.text)' /\ Old(disk.new.input)'
    BY <1>1, <1>2 DEF Stock, Texts
  <2> QED BY <2>1, <2>2 DEF Texts, Old
<1>5. ASSUME NEW r \in Resources, NEW x, Old(x), Holds(r, x) => Firm(r, x),
             \E i \in DOMAIN ver'[r] : ver'[r][i].text = x
      PROVE  FirmIn(ver'[r], x)
  <2>1. PICK i \in DOMAIN ver'[r] : ver'[r][i].text = x
    BY <1>5
  <2>2. Holds(r, x) \/ FirmIn(ver'[r], x)
    BY <1>2, <1>5, <2>1
  <2> QED BY <1>5, <2>2, FirmKept DEF Firm
<1>6. Unedited'
  <2>1. ASSUME NEW r \in Resources, Holds(r, disk[r])'
        PROVE  Firm(r, disk[r])'
    BY <1>1, <1>5, <2>1 DEF Stock, Unedited, Texts, Holds, Firm
  <2>2. ASSUME disk'.new # None, Holds("m", disk.new.text)'
        PROVE  Firm("m", disk.new.text)'
    BY <1>1, <1>5, <2>2 DEF Stock, Unedited, Texts, Holds, Firm, Resources
  <2> QED BY <2>1, <2>2 DEF Unedited
<1>7. Origins'
  <2>1. ASSUME NEW i \in DOMAIN ver'["m"], ver'["m"][i].from # 0
        PROVE  disk.new # None /\ FirmIn(ver'["m"], disk.new.text)
    <3>1. CASE \E j \in DOMAIN ver["m"] : ver["m"][j].from # 0
      <4>1. disk.new # None /\ FirmIn(ver["m"], disk.new.text)
        BY <3>1 DEF Stock, Origins, Firm
      <4> QED BY <4>1, FirmKept DEF Resources
    <3> QED BY <2>1, <3>1
  <2> QED BY <1>1, <2>1 DEF Origins, Firm
<1>8. Archived'
  BY <1>1 DEF Stock, Archived, Firming
<1> QED BY <1>4, <1>6, <1>7, <1>8 DEF Stock

(* The tables stay as they are.                                            *)
SameTables == UNCHANGED <<disk, ver, cur>>
LEMMA SameFirming ==
  ASSUME TypeOK, SameTables
  PROVE  Firming /\ FineStays /\ NoOrphan /\ DraftsRemain
<1>1. \A r \in Resources : Len(ver[r]) \in Nat
  BY DEF TypeOK
<1> QED BY <1>1 DEF SameTables, Firming, FineStays, NoOrphan, DraftsRemain, Firmer

(* No version changes.                                                     *)
LEMMA StockSame ==
  ASSUME TypeOK, TypeOK', Stock, SameTables,
         left' = left \/ \E what \in {"events", "answers"} : Spend(what)
  PROVE  Stock'
<1>1. \A r \in Resources : \A i \in DOMAIN ver'[r] : Holds(r, ver'[r][i].text)
  BY DEF SameTables, Holds
<1>2. /\ \A i \in DOMAIN ver'["t"] : ver'["t"][i].kind = "draft" => ver'["t"][i].from = None
      /\ \A i \in DOMAIN ver'["m"] : ver'["m"][i].from # 0 =>
            \E j \in DOMAIN ver["m"] : ver["m"][j].from # 0
  BY DEF SameTables, Stock, Origins
<1> QED BY <1>1, <1>2, SameFirming, StockKept

(* No source is remembered anew.                                           *)
LEMMA SourcesKept ==
  ASSUME TypeOK, TypeOK', Sources, disk' = disk, Paired',
         left' = left \/ \E what \in {"events", "answers"} : Spend(what),
         \A s \in Disks : Remembered(s)' => Remembered(s),
         ~Idle' => ~Idle /\ scan'.sig = scan.sig
  PROVE  Sources'
<1>1. \A s \in Disks : Behind(s) => Behind(s)'
  <2>1. ASSUME NEW s \in Disks, Behind(s) PROVE Behind(s)'
    <3>1. s.t \in Nat /\ s.m \in Nat /\ (s.new # None => s.new.text \in Nat)
      BY DEF Disks
    <3> QED BY <2>1, <3>1, Later DEF Behind
  <2> QED BY <2>1
<1>2. Earlier'
  BY <1>1 DEF Sources, Earlier
<1>3. disk \in Disks
  BY DEF TypeOK
<1>4. Newest'
  <2>1. ASSUME ~Idle', Remembered(disk)' PROVE scan'.sig = disk'
    <3>1. Remembered(disk)
      BY <1>3, <2>1 DEF Remembered
    <3> QED BY <2>1, <3>1 DEF Sources, Newest
  <2> QED BY <2>1 DEF Newest
<1> QED BY <1>2, <1>4 DEF Sources

----------------------------------------------------------------------------
(* Steps that leave row, conflict and work as they are.                    *)

(* A step of a scan done is a step less in its plan.                       *)
LEMMA PlannedPopped ==
  ASSUME Inv, Planned, ~Idle, scan'.todo = Tail(scan.todo), scan'.do = scan.do,
         disk.new # None => disk'.new # None
  PROVE  /\ Planned'
         /\ Head(scan.todo) \notin {"sign", "transcript", "minutes"} =>
               \A x \in {"sign", "transcript", "minutes"} :
                  Has(scan'.todo, x) <=> Has(scan.todo, x)
         /\ \A x : Has(scan.todo, x) <=> x = Head(scan.todo) \/ Has(scan'.todo, x)
         /\ ~Has(scan'.todo, Head(scan.todo))
<1>1. InTurn(scan.todo, scan.do)
  BY DEF Planned
<1>2. /\ Head(scan.todo) \in Names
      /\ InTurn(scan'.todo, scan'.do)
      /\ \A x : Has(scan.todo, x) <=> x = Head(scan.todo) \/ Has(scan'.todo, x)
      /\ \A x : Has(scan'.todo, x) => /\ x \in Names
                       /\ Rank(scan.do)[Head(scan.todo)] < Rank(scan.do)[x]
  BY <1>1, PoppedInTurn DEF Inv
<1>3. ~Has(scan'.todo, Head(scan.todo))
  <2>1. Rank(scan.do)[Head(scan.todo)] \in Nat
    BY <1>2 DEF Rank, Names
  <2> QED BY <1>2, <2>1
<1>4. scan.do = "import" /\ Has(scan'.todo, "sign") => Has(scan'.todo, "transcript")
  <2>1. ASSUME scan.do = "import", Has(scan'.todo, "sign") PROVE Head(scan.todo) # "transcript"
    <3>1. Rank("import")["transcript"] = 3 /\ Rank("import")["sign"] = 1
      BY DEF Rank
    <3> QED BY <1>2, <2>1, <3>1
  <2> QED BY <1>2, <2>1 DEF Planned, Pending, Named
<1>5. scan.do = "import" /\ Has(scan'.todo, "transcript") => Has(scan'.todo, "minutes")
  <2>1. ASSUME scan.do = "import", Has(scan'.todo, "transcript") PROVE Head(scan.todo) # "minutes"
    <3>1. Rank("import")["transcript"] = 3 /\ Rank("import")["minutes"] = 4
      BY DEF Rank
    <3> QED BY <1>2, <2>1, <3>1
  <2> QED BY <1>2, <2>1 DEF Planned, Pending, Named
<1>6. Planned'
  BY <1>2, <1>4, <1>5 DEF Planned, Pending, Named
<1> QED BY <1>2, <1>3, <1>6

(* A step that leaves row, conflict and work as they are.                  *)
LEMMA CalmStep ==
  ASSUME Inv, Inv', Sound, Stock', Planned', Paired',
         Firming, FineStays, NoOrphan, DraftsRemain, SameWork,
         \A r \in Resources : ver[r] = <<>> => ver'[r] = <<>>,
         left' = left \/ \E what \in {"events", "answers"} : Spend(what),
         sig' = sig, con' = con, cut => cut',
         answer' # None => \/ answer # None /\ answer'.con = answer.con
                           \/ con # None /\ answer'.con = con
  PROVE  Sound'
<1> USE DEF Inv, Sound
<1>1. Sources'
  <2>1. \A s \in Disks : Remembered(s)' => Remembered(s)
    BY DEF Remembered, SameWork
  <2> QED BY <2>1, SourcesKept DEF Firming, SameWork
<1>2. Offers' /\ Captures' /\ Imports' /\ Lates'
  BY OffersKept, CapturesKept, ImportsKept, LatesKept DEF Firming
<1>3. Keeps' /\ Drafting' /\ Acknowledged'
  BY KeepsKept, DraftingKept, AcknowledgedKept
<1> QED BY <1>1, <1>2, <1>3

(* The scan is not touched.                                                *)
LEMMA ScanAsIs ==
  ASSUME scan' = scan, disk' = disk, Planned
  PROVE  SameWork /\ Planned'
BY DEF SameWork, Planned, Idle, Pending

(* What the user does with a conflict reads it first.                      *)
LEMMA AnswerSound ==
  ASSUME Inv, Inv', Sound, NEW do \in {"keep", "replace"}, Answer(do)
  PROVE  Sound'
<1>1. /\ answer' = [do |-> do, con |-> con, cur |-> cur, sig |-> None] /\ con # None
      /\ UNCHANGED <<disk, sig, ver, cur, con, scan, cut>> /\ Spend("answers")
  BY DEF Answer, database
<1>2. Paired' /\ SameTables
  BY <1>1 DEF Paired, SameTables
<1> QED BY <1>1, <1>2, SameFirming, StockSame, ScanAsIs, CalmStep DEF Inv, Sound, SameTables

LEMMA CheckSourceSound ==
  ASSUME Inv, Inv', Sound, CheckSource
  PROVE  Sound'
<1>1. /\ answer # None /\ answer' = IF SourceAsNamed THEN [answer EXCEPT !.sig = disk] ELSE None
      /\ UNCHANGED <<disk, sig, ver, cur, con, scan, cut, left>>
  BY DEF CheckSource, database
<1>2. answer' # None => answer'.con = answer.con /\ answer'.sig = answer.con.sig
  BY <1>1, Answering DEF SourceAsNamed, Answers
<1>3. Paired' /\ SameTables
  BY <1>1, <1>2 DEF Sound, Sources, Paired, SameTables
<1> QED BY <1>1, <1>2, <1>3, SameFirming, StockSame, ScanAsIs, CalmStep DEF Inv, Sound, SameTables

(* A step of a scan that changes nothing the parts speak of.               *)
LEMMA ForwardSound ==
  ASSUME Inv, Inv', Sound, ~Idle,
         Head(scan.todo) \notin {"sign", "transcript", "minutes"}, Go(scan),
         UNCHANGED <<disk, sig, ver, cur, con, answer, cut, left>>
  PROVE  Sound'
<1>1. /\ scan'.todo = Tail(scan.todo) /\ scan'.do = scan.do /\ scan'.sig = scan.sig
      /\ scan'.t = scan.t /\ scan'.m = scan.m /\ scan'.over = scan.over
  BY Popped DEF Inv
<1>2. Planned' /\ SameWork
  BY <1>1, PlannedPopped DEF Sound, SameWork
<1>3. Paired' /\ SameTables
  BY DEF Sound, Sources, Paired, SameTables
<1> QED BY <1>2, <1>3, SameFirming, StockSame, CalmStep DEF Inv, Sound, SameTables

LEMMA CleanSound ==
  ASSUME Inv, Inv', Sound, Clean
  PROVE  Sound'
<1>1. /\ Step("clean") /\ scan' = NoScan
      /\ UNCHANGED <<disk, sig, ver, cur, con, answer, cut, left>>
  BY DEF Clean
<1>2. ~Idle /\ Head(scan.todo) = "clean" /\ Idle'
  BY <1>1 DEF Step, Idle, NoScan
<1>3. \A x \in {"sign", "transcript", "minutes"} : ~Has(scan.todo, x) /\ ~Has(scan'.todo, x)
  <2>1. \A do : \A x \in {"sign", "transcript", "minutes"} :
            ~(Rank(do)["clean"] < Rank(do)[x]) /\ x # "clean"
    BY DEF Rank
  <2>2. \A x \in {"sign", "transcript", "minutes"} : ~Has(scan.todo, x)
    BY <1>2, <2>1, PoppedInTurn DEF Sound, Planned, Inv
  <2> QED BY <1>1, <2>2 DEF NoScan, Has
<1>4. SameWork /\ Planned'
  BY <1>2, <1>3 DEF SameWork, Planned
<1>5. Paired' /\ SameTables
  BY <1>1 DEF Sound, Sources, Paired, SameTables
<1> QED BY <1>1, <1>4, <1>5, SameFirming, StockSame, CalmStep DEF Inv, Sound, SameTables

(* A draft is saved.                                                       *)
LEMMA PutSound ==
  ASSUME Inv, Inv', Sound, Spend("events"), NEW r \in Resources, NEW v \in Versions(r),
         v.kind = "draft", ver[r] # <<>>, Put(r, v),
         v.text = NextText \/ Holds(r, v.text),
         r = "t" => v.from = None,
         r = "m" => v.from = 0 \/ \E i \in DOMAIN ver[r] : ver[r][i].from # 0
  PROVE  Sound'
<1> USE DEF Inv
<1>1. /\ ver' = [ver EXCEPT ![r] = Append(ver[r], v)]
      /\ cur' = [cur EXCEPT ![r] = Len(ver[r]) + 1]
      /\ UNCHANGED <<disk, rows, home, sig, con, scan, answer, cut>>
  BY DEF Put
<1>2. /\ \A q \in Resources : ver[q] \in Seq(Versions(q)) /\ Len(ver[q]) \in Nat
      /\ ver'[r] = Append(ver[r], v) /\ cur'[r] = Len(ver[r]) + 1
      /\ \A q \in Resources : q # r => ver'[q] = ver[q] /\ cur'[q] = cur[q]
  <2>1. \A q \in Resources : ver[q] \in Seq(Versions(q)) /\ Len(ver[q]) \in Nat
    BY DEF TypeOK
  <2>2. /\ ver'[r] = Append(ver[r], v) /\ cur'[r] = Len(ver[r]) + 1
        /\ \A q \in Resources : q # r => ver'[q] = ver[q]
    BY <1>1 DEF TypeOK
  <2>3. \A q \in Resources : q # r => cur'[q] = cur[q]
    BY <1>1 DEF TypeOK
  <2> QED BY <2>1, <2>2, <2>3
<1>3. /\ Len(ver'[r]) = Len(ver[r]) + 1
      /\ DOMAIN ver'[r] = 1 .. Len(ver[r]) + 1 /\ DOMAIN ver[r] = 1 .. Len(ver[r])
      /\ \A i \in 1 .. Len(ver[r]) : ver'[r][i] = ver[r][i]
      /\ ver'[r][Len(ver[r]) + 1] = v /\ ver'[r] # <<>>
  BY <1>2
<1>4. \A i \in DOMAIN ver'[r] : \/ i \in DOMAIN ver[r] /\ ver'[r][i] = ver[r][i]
                                \/ ver'[r][i] = v
  BY <1>2, <1>3
<1>5. DraftAt(ver'[r], cur'[r]) /\ cur'[r] # 0
  BY <1>2, <1>3 DEF DraftAt
<1>6. Firming
  BY <1>1, <1>2, <1>3, <1>5 DEF Firming, Firmer
<1>7. FineStays
  BY <1>2, <1>5 DEF FineStays, FineAt
<1>8. NoOrphan /\ DraftsRemain
  BY <1>2, <1>5 DEF NoOrphan, DraftsRemain
<1>9. Stock'
  <2>1. ASSUME NEW q \in Resources, NEW i \in DOMAIN ver'[q]
        PROVE  \/ Holds(q, ver'[q][i].text)
               \/ Spend("events") /\ ver'[q][i].text = NextText
    BY <1>2, <1>4, <2>1 DEF Holds
  <2>2. ASSUME NEW i \in DOMAIN ver'["t"], ver'["t"][i].kind = "draft"
        PROVE  ver'["t"][i].from = None
    BY <1>2, <1>4, <2>2 DEF Sound, Stock, Origins, Resources
  <2>3. ASSUME NEW i \in DOMAIN ver'["m"], ver'["m"][i].from # 0
        PROVE  \E j \in DOMAIN ver["m"] : ver["m"][j].from # 0
    BY <1>2, <1>4, <2>3 DEF Resources
  <2> QED BY <1>6, <2>1, <2>2, <2>3, StockKept DEF Sound
<1>10. SameWork /\ Planned' /\ Paired'
  BY <1>1, ScanAsIs DEF Sound, Sources, Paired
<1>11. \A q \in Resources : ver[q] = <<>> => ver'[q] = <<>>
  BY <1>2
<1> QED BY <1>1, <1>6, <1>7, <1>8, <1>9, <1>10, <1>11, CalmStep

(* The three ways to a draft.                                              *)
LEMMA SaveDraftSound ==
  ASSUME Inv, Inv', Sound, NEW r \in Resources, SaveDraft(r)
  PROVE  Sound'
<1> DEFINE v == Version("draft", NextText, cur[r], From(r, Current(r)))
<1>1. cur[r] # 0 /\ Spend("events") /\ Put(r, v)
  BY DEF SaveDraft
<1>2. /\ cur[r] \in 1 .. Len(ver[r]) /\ cur[r] \in Nat
      /\ Current(r) \in Versions(r)
  BY <1>1, CurrentTyped DEF Inv, TypeOK
<1>3. NextText \in Nat
  BY <1>1, TextTyped DEF Inv
<1>4. v \in Versions(r) /\ v.kind = "draft"
  BY <1>2, <1>3, DraftTyped
<1>5. ver[r] # <<>> /\ cur[r] \in DOMAIN ver[r]
  BY <1>2 DEF Inv, TypeOK
<1>6. v.text = NextText /\ v.from = IF r = "m" THEN ver[r][cur[r]].from ELSE None
  BY DEF Version, From, Current
<1> HIDE DEF v
<1> QED BY <1>1, <1>4, <1>5, <1>6, PutSound

LEMMA RollbackSound ==
  ASSUME Inv, Inv', Sound, NEW r \in Resources, Rollback(r)
  PROVE  Sound'
<1>1. PICK i \in DOMAIN ver[r] :
        /\ Spend("events")
        /\ Put(r, Version("draft", ver[r][i].text, i, From(r, ver[r][i])))
  BY DEF Rollback
<1>2. ver[r] \in Seq(Versions(r))
  BY DEF Inv, TypeOK
<1>3. ver[r][i] \in Versions(r) /\ i \in Nat /\ ver[r] # <<>>
  BY <1>1, <1>2
<1>4. ver[r][i].text \in Nat
  BY <1>3 DEF Versions
<1> DEFINE v == Version("draft", ver[r][i].text, i, From(r, ver[r][i]))
<1>5. v \in Versions(r) /\ v.kind = "draft"
  BY <1>3, <1>4, DraftTyped
<1>6. Spend("events") /\ Put(r, v)
  BY <1>1
<1>7. /\ v.text = ver[r][i].text /\ v.from = IF r = "m" THEN ver[r][i].from ELSE None
      /\ Holds(r, v.text)
  BY DEF Version, From, Holds
<1> HIDE DEF v
<1> QED BY <1>3, <1>5, <1>6, <1>7, PutSound

LEMMA EditSegmentsSound ==
  ASSUME Inv, Inv', Sound, EditSegments
  PROVE  Sound'
<1> USE DEF Inv
<1> DEFINE n == cur["t"]
           w == [ver["t"][n] EXCEPT !.text = NextText]
<1>1. /\ IsDraft("t") /\ Spend("events") /\ "t" \in Resources
      /\ ver' = [ver EXCEPT !["t"][n].text = NextText]
      /\ UNCHANGED <<disk, rows, home, sig, cur, con, scan, answer, cut>>
  BY DEF EditSegments, Resources
<1>2. n \in 1 .. Len(ver["t"]) /\ ver["t"][n] \in Versions("t")
      /\ ver["t"][n].kind = "draft" /\ ver["t"] \in Seq(Versions("t"))
  BY <1>1, CurrentTyped DEF IsDraft, Current, TypeOK
<1>3. w.kind = "draft" /\ w.text = NextText /\ w.from = ver["t"][n].from
  BY <1>2 DEF Versions
<1>4. /\ ver'["t"] = [ver["t"] EXCEPT ![n] = w] /\ ver'["m"] = ver["m"]
  BY <1>1, <1>2 DEF TypeOK, Resources
<1> HIDE DEF w
<1>5. /\ Len(ver'["t"]) = Len(ver["t"]) /\ DOMAIN ver'["t"] = DOMAIN ver["t"]
      /\ ver'["t"][n] = w /\ Len(ver["t"]) \in Nat /\ n \in DOMAIN ver["t"]
      /\ \A i \in DOMAIN ver["t"] : i # n => ver'["t"][i] = ver["t"][i]
      /\ DOMAIN ver["t"] = 1 .. Len(ver["t"])
  BY <1>2, <1>4
<1> HIDE DEF n
<1>6. Len(ver["m"]) \in Nat /\ n = cur["t"]
  BY DEF TypeOK, Resources, n
<1>7. Firming
  BY <1>1, <1>2, <1>4, <1>5, <1>6 DEF Firming, Firmer, Resources
<1>8. FineStays
  BY <1>1, <1>2, <1>3, <1>4, <1>5, <1>6 DEF FineStays, FineAt, DraftAt, Resources
<1>9. DraftsRemain
  BY <1>1, <1>2, <1>3, <1>4, <1>5, <1>6 DEF DraftsRemain, DraftAt, Resources
<1>10. \A q \in Resources : ver[q] = <<>> => ver'[q] = <<>>
  BY <1>2, <1>4, <1>5 DEF Resources
<1>11. NoOrphan
  BY <1>1, <1>10 DEF NoOrphan
<1>12. Stock'
  <2>1. ASSUME NEW q \in Resources, NEW i \in DOMAIN ver'[q]
        PROVE  \/ Holds(q, ver'[q][i].text)
               \/ Spend("events") /\ ver'[q][i].text = NextText
    BY <1>1, <1>3, <1>4, <1>5, <2>1 DEF Holds, Resources
  <2>2. ASSUME NEW i \in DOMAIN ver'["t"], ver'["t"][i].kind = "draft"
        PROVE  ver'["t"][i].from = None
    BY <1>2, <1>3, <1>5, <2>2 DEF Sound, Stock, Origins
  <2>3. ASSUME NEW i \in DOMAIN ver'["m"], ver'["m"][i].from # 0
        PROVE  \E j \in DOMAIN ver["m"] : ver["m"][j].from # 0
    BY <1>4, <2>3
  <2> QED BY <1>7, <1>1, <2>1, <2>2, <2>3, StockKept DEF Sound
<1>13. SameWork /\ Planned' /\ Paired'
  BY <1>1, ScanAsIs DEF Sound, Sources, Paired
<1> QED BY <1>1, <1>7, <1>8, <1>9, <1>10, <1>11, <1>12, <1>13, CalmStep

----------------------------------------------------------------------------
(* The scan but for its files.                                             *)

(* The steps of a scan.                                                    *)
LEMMA IndexSound ==
  ASSUME Inv, Inv', Sound, Index
  PROVE  Sound'
<1> USE DEF Inv, Sound
<1>1. /\ Step("index")
      /\ UNCHANGED <<disk, home, sig, ver, cur, con, answer, cut, left>>
  BY DEF Index
<1>2. ~Idle /\ scan \in Scans /\ Head(scan.todo) = "index"
  BY <1>1, AtWork DEF Step, Idle
<1>3. CASE scan.do # "minutes"
  <2>1. Go(scan)
    BY <1>3 DEF Index, Go
  <2> QED BY <1>1, <1>2, <2>1, ForwardSound
<1>4. CASE scan.do = "minutes"
  <2> DEFINE last == IF Fits /\ scan.draft THEN "open" ELSE "sign"
  <2>1. scan' = [scan EXCEPT !.do = IF Fits THEN "minutes" ELSE "late",
                             !.todo = <<"minutes", last, "clean">>]
    BY <1>4 DEF Index, Regeneration
  <2>2. last \in {"open", "sign"} /\ (last = "open" => Fits)
    OBVIOUS
  <2> HIDE DEF last
  <2>3. /\ scan'.todo = <<"minutes", last, "clean">> /\ scan'.sig = scan.sig
        /\ scan'.do = IF Fits THEN "minutes" ELSE "late"
    BY <1>2, <2>1 DEF Scans
  <2>4. scan'.do \in {"minutes", "late"} /\ Pending("m")' /\ disk.new # None
    BY <1>2, <1>4, <2>3 DEF Pending, Has, Named, Planned
  <2>5. InTurn(scan'.todo, scan'.do)
    BY <2>2, <2>3, <2>4 DEF InTurn, Rank
  <2>6. /\ ~Has(scan'.todo, "transcript")
        /\ Has(scan'.todo, "open") => scan'.do = "minutes"
    BY <2>2, <2>3 DEF Has
  <2>7. Planned'
    BY <1>1, <2>4, <2>5, <2>6 DEF Planned
  <2>8. SameTables /\ Paired'
    BY <1>1 DEF SameTables, Sources, Paired
  <2>9. Stock' /\ Offers'
    BY <1>1, <2>8, SameFirming, StockSame, OffersKept
  <2>10. Sources'
    <3>1. \A s \in Disks : Remembered(s)' => Remembered(s)
      BY <1>1, <1>2, <2>3 DEF Remembered
    <3> QED BY <1>1, <1>2, <2>3, <2>8, <3>1, SourcesKept
  <2>11. Captures' /\ Imports' /\ Lates' /\ Keeps'
    BY <2>4 DEF Captures, Imports, Lates, Keeps
  <2>12. Drafting'
    BY <1>1, <2>4 DEF Drafting
  <2>13. Acknowledged'
    <3>1. ~Underway /\ ~Underway' /\ \A r \in Resources : ~Overwrites(r)'
      BY <1>4, <2>4 DEF Underway, Overwrites
    <3>2. sig = disk /\ con = None /\ ~cut => Words
      BY <3>1 DEF Acknowledged
    <3> QED BY <1>1, <2>4, <3>1, <3>2 DEF Acknowledged, Words, Firm
  <2> QED BY <2>7, <2>9, <2>10, <2>11, <2>12, <2>13
<1> QED BY <1>3, <1>4

LEMMA LookSound ==
  ASSUME Inv, Inv', Sound, Look
  PROVE  Sound'
<1> USE DEF Inv, Sound
<1> DEFINE todo == Plan[Branch] \o <<"clean">>
<1>1. /\ Idle /\ UNCHANGED <<disk, sig, ver, cur, con, answer, cut, left>>
      /\ scan' = [todo |-> todo, do |-> Branch, sig |-> disk, saw |-> cur,
                  draft |-> IsDraft("m"), over |-> FALSE, t |-> 0, m |-> 0]
  BY DEF Look, database
<1>2. /\ scan'.todo = todo /\ scan'.do = Branch /\ scan'.sig = disk
      /\ scan'.t = 0 /\ scan'.m = 0
  BY <1>1
<1>3. /\ InTurn(todo, Branch)
      /\ Has(todo, "sign") => Branch \in {"import", "refresh", "relocate"}
      /\ Has(todo, "open") => Branch = "capture"
      /\ Branch \in {"import", "capture"} =>
            Has(todo, "transcript") /\ Has(todo, "minutes")
      /\ Branch = "minutes" => Has(todo, "minutes")
      /\ Branch \in {"refresh", "relocate"} =>
            ~Has(todo, "transcript") /\ ~Has(todo, "minutes")
      /\ \A r \in Resources : Branch = "keep" /\ Has(todo, Named(r)) => cur[r] = 0
  BY PlanInTurn
<1>4. Branch \in Branches \ {"late"}
  BY PlanTyped
<1>5. /\ Branch = "minutes" => disk.new # None
      /\ Branch = "capture" => Drafted \/ disk.new # None
      /\ Branch = "import" => sig = None \/ ~Drafted
  BY DEF Branch
<1>6. Drafted <=> \E r \in Resources : DraftAt(ver[r], cur[r])
  BY DEF Drafted, IsDraft, DraftAt, Current, Resources
<1> HIDE DEF todo
<1>7. Planned'
  BY <1>1, <1>2, <1>3, <1>4, <1>5 DEF Planned, Pending, Named
<1>8. SameTables /\ Paired'
  BY <1>1 DEF SameTables, Sources, Paired
<1>9. Stock' /\ Offers'
  BY <1>1, <1>8, SameFirming, StockSame, OffersKept
<1>10. Sources'
  <2>1. Behind(disk)
    <3>1. NextText \in Nat
      BY <1>1, Later
    <3>2. disk.t < NextText /\ disk.m < NextText /\ (disk.new # None => disk.new.text < NextText)
      BY <3>1 DEF Stock, Texts, Old, Resources
    <3>3. disk.w \in Nat
      BY DEF TypeOK, Disks
    <3> QED BY <3>2, <3>3 DEF Behind
  <2>2. \A s \in Disks : Behind(s)' <=> Behind(s)
    BY <1>1 DEF Behind, NextText
  <2>3. \A s \in Disks : Remembered(s)' => Remembered(s) \/ s = disk
    BY <1>1, <1>2 DEF Remembered
  <2>4. Earlier'
    BY <2>1, <2>2, <2>3 DEF Sources, Earlier
  <2> QED BY <1>1, <1>2, <1>8, <2>4 DEF Sources, Newest
<1>11. Captures'
  BY <1>2, <1>3 DEF Captures, Pending, Named, Resources
<1>12. Imports'
  <2>1. ASSUME Branch = "import", NEW r \in Resources, cur[r] = 0
        PROVE  ver[r] = <<>> /\ con = None
    BY <1>5, <1>6, <2>1 DEF SignedFirst, Drafting
  <2> QED BY <1>1, <1>2, <1>3, <2>1 DEF Imports, Pending, Named
<1>13. Lates'
  BY <1>2, <1>3, <1>4 DEF Lates, Pending, Named
<1>14. \A r \in Resources : Branch = "keep" /\ Pending(r)' => cur[r] = 0
  BY <1>2, <1>3 DEF Pending
<1>15. Keeps'
  <2> SUFFICES ASSUME Branch = "keep", NEW r \in Resources, Pending(r)',
                      con # None \/ \E q \in Resources : cur[q] = 0 /\ ver[q] # <<>>
               PROVE  \E q \in Resources : DraftAt(ver[q], cur[q]) /\ ~Pending(q)'
    BY <1>1, <1>2 DEF Keeps
  <2>1. PICK q \in Resources : DraftAt(ver[q], cur[q])
    BY <1>14 DEF Drafting
  <2> QED BY <1>14, <2>1 DEF DraftAt
<1>16. Drafting'
  BY <1>1, <1>2, <1>5, <1>6 DEF Drafting, Stock, Archived
<1>17. Acknowledged'
  <2>1. ~Underway
    BY <1>1 DEF Underway
  <2>2. \A r \in Resources : DraftAt(ver[r], cur[r]) => ~Overwrites(r)'
    BY <1>2, <1>14 DEF DraftAt, Overwrites
  <2>3. sig = disk /\ con = None /\ ~cut =>
           /\ Words
           /\ \/ \E r \in Resources : DraftAt(ver[r], cur[r])
              \/ disk.new # None
              \/ \A r \in Resources : Fine(r)
    BY <2>1 DEF Acknowledged
  <2>4. (Words' <=> Words) /\ \A r \in Resources : Fine(r)' <=> Fine(r)
    BY <1>1 DEF Words, Firm, Fine
  <2> QED BY <1>1, <2>2, <2>3, <2>4 DEF Acknowledged
<1> QED BY <1>7, <1>9, <1>10, <1>11, <1>12, <1>13, <1>15, <1>16, <1>17

LEMMA SignSound ==
  ASSUME Inv, Inv', Sound, Sign
  PROVE  Sound'
<1> USE DEF Inv, Sound
<1>1. /\ Step("sign") /\ sig' = scan.sig /\ Go(scan)
      /\ cut' = (cut \/ (scan.do \in {"refresh", "relocate"} /\ ~Shown(scan.sig)))
      /\ UNCHANGED <<disk, ver, cur, con, answer, left>>
  BY DEF Sign
<1>2. ~Idle /\ scan \in Scans /\ Head(scan.todo) = "sign" /\ Has(scan.todo, "sign")
  <2>1. ~Idle /\ scan \in Scans /\ Head(scan.todo) = "sign"
    BY <1>1, AtWork DEF Step, Idle
  <2> QED BY <2>1, PoppedInTurn DEF Planned
<1>3. /\ scan'.todo = Tail(scan.todo) /\ scan'.do = scan.do /\ scan'.sig = scan.sig
  BY <1>1, <1>2, Popped
<1>4. /\ Planned' /\ ~Has(scan'.todo, "sign")
      /\ \A x : Has(scan.todo, x) <=> x = "sign" \/ Has(scan'.todo, x)
  BY <1>1, <1>2, <1>3, PlannedPopped
<1>5. /\ scan.do \notin {"keep", "capture"}
      /\ \A r \in Resources : Pending(r)' <=> Pending(r)
      /\ scan.do = "import" => Pending("t")
  BY <1>2, <1>4 DEF Planned, Pending, Named
<1>6. scan.do \in {"minutes", "late"} => ~Pending("m")
  <2>1. ASSUME scan.do \in {"minutes", "late"}, Pending("m") PROVE FALSE
    <3>1. Has(scan'.todo, "minutes")
      BY <1>5, <2>1 DEF Pending, Named, Resources
    <3>2. Rank(scan.do)["sign"] < Rank(scan.do)["minutes"]
      BY <1>2, <1>3, <3>1, PoppedInTurn DEF Planned
    <3> QED BY <2>1, <3>2 DEF Rank
  <2> QED BY <2>1
<1>7. SameTables /\ Paired'
  BY <1>1 DEF SameTables, Sources, Paired
<1>8. Stock' /\ Offers'
  BY <1>1, <1>7, SameFirming, StockSame, OffersKept
<1>9. Sources'
  <2>1. \A s \in Disks : Remembered(s)' => Remembered(s)
    BY <1>1, <1>2, <1>3 DEF Remembered
  <2> QED BY <1>1, <1>2, <1>3, <1>7, <2>1, SourcesKept
<1>10. Captures' /\ Keeps'
  BY <1>3, <1>5 DEF Captures, Keeps
<1>11. Imports'
  BY <1>1, <1>2, <1>3, <1>5, "t" \in Resources DEF Imports, Resources
<1>12. Lates'
  BY <1>1, <1>2, <1>3, <1>5, "m" \in Resources DEF Lates, Firm, Resources
<1>13. Drafting'
  BY <1>1, <1>2, <1>3, <1>5 DEF Drafting
<1>14. Acknowledged'
  <2> SUFFICES ASSUME sig' = disk', con' = None, ~cut', ~Underway'
               PROVE  Acknowledged'
    BY DEF Acknowledged
  <2>1. /\ scan.sig = disk /\ con = None /\ ~cut
        /\ \A r \in Resources : ~Overwrites(r)'
    BY <1>1, <1>3, <1>5 DEF Overwrites
  <2>2. scan.do # "import"
    <3>1. scan.do = "import" => Underway'
      BY <1>3, <1>4, <1>5 DEF Underway, Pending, Has, Idle, Resources
    <3> QED BY <3>1
  <2>3. CASE scan.do \in {"minutes", "late"}
    <3>1. disk.new # None /\ Firm("m", disk.new.text)
      BY <1>2, <1>6, <2>1, <2>3 DEF Planned, Lates
    <3> QED BY <1>1, <3>1 DEF Acknowledged, Words, Firm
  <2>4. CASE scan.do \in {"refresh", "relocate"}
    <3>1. /\ HoldsWords(disk)
          /\ Drafted \/ disk.new # None
             \/ \A r \in Resources : cur[r] # 0 => Current(r).text = disk[r]
      BY <1>1, <2>1, <2>4 DEF Shown
    <3>2. Words
      BY <3>1 DEF HoldsWords, Words, Stock, Unedited, Resources
    <3>3. \/ \E r \in Resources : DraftAt(ver[r], cur[r])
          \/ disk.new # None
          \/ \A r \in Resources : Fine(r)
      BY <3>1 DEF Drafted, IsDraft, DraftAt, Current, Fine, FineAt, Resources
    <3>4. (Words' <=> Words) /\ \A r \in Resources : Fine(r)' <=> Fine(r)
      BY <1>1 DEF Words, Firm, Fine
    <3> QED BY <1>1, <2>1, <3>2, <3>3, <3>4 DEF Acknowledged
  <2> QED BY <1>2, <1>5, <2>2, <2>3, <2>4 DEF Scans, Branches
<1> QED BY <1>4, <1>8, <1>9, <1>10, <1>11, <1>12, <1>13, <1>14

LEMMA OpenSound ==
  ASSUME Inv, Inv', Sound, OpenConflict
  PROVE  Sound'
<1> USE DEF Inv, Sound
<1> DEFINE id == IF con # None THEN con.id ELSE left.answers
<1>1. /\ Step("open") /\ Go(scan) /\ con' = Opened(id)
      /\ UNCHANGED <<disk, rows, home, sig, ver, cur, answer, left>>
  BY DEF OpenConflict
<1>2. ~Idle /\ scan \in Scans /\ Head(scan.todo) = "open" /\ Has(scan.todo, "open")
  <2>1. ~Idle /\ scan \in Scans /\ Head(scan.todo) = "open"
    BY <1>1, AtWork DEF Step, Idle
  <2> QED BY <2>1, PoppedInTurn DEF Planned
<1>3. /\ con' \in Conflicts /\ con'.t = scan.t /\ con'.m = scan.m /\ con'.id = id
      /\ con'.sig = scan.sig /\ con'.over = scan.over
  <2>1. con' = [id |-> id, sig |-> scan.sig, t |-> scan.t, m |-> scan.m, over |-> scan.over]
    BY <1>1 DEF Opened
  <2>2. id \in Nat
    BY DEF TypeOK, Conflicts
  <2> HIDE DEF id
  <2> QED BY <1>2, <2>1, <2>2 DEF Conflicts, Scans
<1>4. con' # None
  BY <1>3, ExternalAssumption
<1>5. /\ scan'.todo = Tail(scan.todo) /\ scan'.do = scan.do /\ scan'.sig = scan.sig
      /\ scan'.t = scan.t /\ scan'.m = scan.m /\ scan'.over = scan.over
  BY <1>1, <1>2, Popped
<1>6. Planned' /\ SameWork
  BY <1>1, <1>2, <1>5, PlannedPopped DEF SameWork
<1>7. scan.do \in {"capture", "minutes"}
  BY <1>2 DEF Planned
<1>8. \A r \in Resources : ~Pending(r)
  <2>1. ASSUME NEW r \in Resources, Pending(r) PROVE FALSE
    <3>1. Named(r) \in {"transcript", "minutes"}
      BY DEF Named
    <3>2. Has(Tail(scan.todo), Named(r))
      BY <1>2, <2>1, <3>1, PoppedInTurn DEF Planned, Pending
    <3>3. Rank(scan.do)["open"] < Rank(scan.do)[Named(r)]
      BY <1>2, <3>2, PoppedInTurn DEF Planned
    <3> QED BY <1>7, <3>1, <3>3 DEF Rank
  <2> QED BY <2>1
<1>9. scan.do = "minutes" => disk.new # None /\ \A r \in Resources : cur[r] # 0
  BY <1>2 DEF Planned, Stock, Archived
<1>10. SameTables /\ Paired'
  BY <1>1, <1>3, <1>4 DEF SameTables, Sources, Paired
<1>11. Stock' /\ Firming /\ FineStays
  BY <1>1, <1>10, SameFirming, StockSame
<1>12. Sources'
  <2>1. \A s \in Disks : Remembered(s)' => Remembered(s)
    BY <1>1, <1>2, <1>3, <1>5 DEF Remembered
  <2> QED BY <1>1, <1>2, <1>5, <1>10, <2>1, SourcesKept
<1>13. Offers'
  <2>1. ASSUME NEW r \in Resources PROVE ToldOf(con', r, disk, ver[r], cur[r])
    <3>1. con'[r] = scan[r]
      BY <1>3 DEF Resources
    <3>2. CASE scan.do = "capture"
      <4>1. ToldOf(scan, r, disk, ver[r], cur[r])
        BY <1>2, <1>8, <3>2 DEF Captures, Told
      <4> QED BY <1>3, <3>1, <4>1 DEF ToldOf
    <3>3. CASE scan.do = "minutes"
      <4>1. scan.sig = disk => FirmIn(ver["m"], disk.new.text)
        BY <1>2, <1>8, <3>3, "m" \in Resources DEF Lates, Firm, Resources
      <4> QED BY <1>3, <1>9, <3>3, <4>1 DEF ToldOf
    <3> QED BY <1>7, <3>2, <3>3
  <2> QED BY <1>1, <2>1 DEF Offers, Told
<1>14. Captures' /\ Lates'
  BY <1>6, <1>11, CapturesKept, LatesKept
<1>15. Imports' /\ Keeps'
  BY <1>5, <1>7 DEF Imports, Keeps
<1>16. Drafting'
  BY <1>1, <1>2, <1>5, <1>7, <1>9 DEF Drafting
<1>17. Acknowledged'
  BY <1>4 DEF Acknowledged
<1> QED BY <1>6, <1>11, <1>12, <1>13, <1>14, <1>15, <1>16, <1>17

LEMMA StopSound ==
  ASSUME Inv, Inv', Sound, Vanished \/ Fail
  PROVE  Sound'
<1> USE DEF Inv, Sound
<1>1. /\ ~Idle /\ scan' = NoScan /\ cut' = (cut \/ Unread)
      /\ UNCHANGED <<disk, sig, ver, cur, con>> /\ answer' \in {answer, None}
      /\ left' = left \/ \E what \in {"events", "answers"} : Spend(what)
  BY DEF Vanished, Fail, Stop, database
<1>2. Idle'
  BY <1>1 DEF Idle, NoScan
<1>3. SameTables /\ Paired'
  BY <1>1 DEF SameTables, Sources, Paired
<1>4. Stock' /\ Offers'
  BY <1>1, <1>3, SameFirming, StockSame, OffersKept
<1>5. Sources'
  <2>1. \A s \in Disks : Remembered(s)' => Remembered(s)
    BY <1>1, <1>2 DEF Remembered
  <2> QED BY <1>1, <1>2, <1>3, <2>1, SourcesKept
<1>6. Planned' /\ Captures' /\ Imports' /\ Lates' /\ Keeps'
  BY <1>2 DEF Planned, Captures, Imports, Lates, Keeps
<1>7. Drafting'
  BY <1>1, <1>2 DEF Drafting
<1>8. Acknowledged'
  <2> SUFFICES ASSUME sig' = disk', con' = None, ~cut'
               PROVE  Acknowledged'
    BY DEF Acknowledged
  <2>1. /\ sig = disk /\ con = None /\ ~cut /\ ~Unread
        /\ \A r \in Resources : ~Overwrites(r)'
    BY <1>1, <1>2 DEF Overwrites
  <2>2. (Words' <=> Words) /\ \A r \in Resources : Fine(r)' <=> Fine(r)
    BY <1>1 DEF Words, Firm, Fine
  <2>3. CASE ~Underway
    BY <1>1, <2>1, <2>2, <2>3 DEF Acknowledged
  <2>4. CASE Underway
    <3>1. /\ scan.do = "import" /\ ~Has(scan.todo, "sign")
          /\ Pending("m")
      BY <1>1, <2>4 DEF Underway, Planned, Resources
    <3>2. \A x : Contains(scan.todo, x) <=> Has(scan.todo, x)
      <4>1. scan.todo \in Seq(Names)
        BY <1>1, AtWork DEF Scans
      <4> QED BY <4>1 DEF Contains, Has
    <3>3. \A r \in Resources : Pending(r) => cur[r] = 0 /\ ver[r] = <<>>
      <4>1. \A r \in Resources : Pending(r) => cur[r] = 0
        <5>1. \A r \in Resources : [t |-> "transcript", m |-> "minutes"][r] = Named(r)
          BY DEF Resources, Named
        <5> QED BY <2>1, <3>1, <3>2, <5>1 DEF Unread, Pending
      <4> QED BY <1>1, <3>1, <4>1 DEF Imports
    <3>4. disk.new = None
      BY <3>1, <3>3 DEF Stock, Archived, Resources
    <3>5. ~Pending("t") => Firm("t", disk.t) /\ Fine("t")
      <4>1. scan.sig = disk
        BY <1>1, <2>1 DEF Sources, Newest, Remembered
      <4> QED BY <1>1, <2>1, <3>1, <3>4, <4>1 DEF Imports
    <3>6. Words
      BY <3>1, <3>3, <3>4, <3>5 DEF Words, Resources
    <3>7. \A r \in Resources : Fine(r)
      BY <3>1, <3>3, <3>5 DEF Fine, FineAt, Resources
    <3> QED BY <2>2, <3>6, <3>7 DEF Acknowledged
  <2> QED BY <2>3, <2>4
<1> QED BY <1>4, <1>5, <1>6, <1>7, <1>8

----------------------------------------------------------------------------
(* Answers and publications.                                               *)

(* The answers are written.                                                *)
LEMMA KeepDraftSound ==
  ASSUME Inv, Inv', Sound, KeepDraft
  PROVE  Sound'
<1> USE DEF Inv, Sound
<1>1. /\ answer # None /\ answer.sig # None /\ sig' = answer.sig
      /\ con' = Resolved /\ answer' = None /\ cut' = (cut \/ ~Drafted)
      /\ UNCHANGED <<disk, rows, home, ver, cur, scan, left>>
  BY DEF KeepDraft
<1>2. /\ con # None /\ con' = None /\ sig' = answer.con.sig
  BY <1>1 DEF Resolved, Sources, Paired
<1>3. SameTables /\ Paired' /\ SameWork /\ Planned'
  BY <1>1, ScanAsIs DEF SameTables, Paired
<1>4. Stock' /\ Firming /\ FineStays /\ NoOrphan /\ DraftsRemain
  BY <1>1, <1>3, SameFirming, StockSame
<1>5. Sources'
  <2>1. \A s \in Disks : Remembered(s)' => Remembered(s)
    BY <1>1, <1>2 DEF Remembered, Idle
  <2> QED BY <1>1, <1>3, <2>1, SourcesKept DEF Idle
<1>6. Offers'
  BY <1>1, <1>2 DEF Offers
<1>7. Captures' /\ Imports' /\ Lates' /\ Keeps' /\ Drafting'
  BY <1>2, <1>3, <1>4, CapturesKept, ImportsKept, LatesKept, KeepsKept, DraftingKept
<1>8. Acknowledged'
  <2> SUFFICES ASSUME sig' = disk', con' = None, ~cut', ~Underway'
               PROVE  Acknowledged'
    BY DEF Acknowledged
  <2>1. \A r \in Resources : ToldOf(answer.con, r, disk, ver[r], cur[r])
    BY <1>1 DEF Offers, Told
  <2>2. Words
    BY <1>1, <1>2, <2>1 DEF ToldOf, Words, Firm, Resources
  <2>3. PICK q \in Resources : DraftAt(ver[q], cur[q])
    BY <1>1 DEF Drafted, IsDraft, DraftAt, Current, Resources
  <2>4. \E r \in Resources : DraftAt(ver[r], cur[r]) /\ ~Overwrites(r)
    <3>1. CASE Overwrites(q)
      BY <1>2, <3>1 DEF Overwrites, Keeps
    <3> QED BY <2>3, <3>1
  <2>5. (Words' <=> Words) /\ \A r \in Resources : Overwrites(r)' <=> Overwrites(r)
    BY <1>1 DEF Words, Firm, Overwrites, Idle, Pending
  <2> QED BY <1>1, <2>2, <2>4, <2>5 DEF Acknowledged
<1> QED BY <1>3, <1>4, <1>5, <1>6, <1>7, <1>8

(* What gives way is no draft any more, and all else of it stays.          *)
LEMMA GivenWay ==
  ASSUME Inv, answer # None, NEW r \in Resources
  PROVE  LET table == GiveWay(r) IN
         /\ DOMAIN table = DOMAIN ver[r] /\ Len(table) = Len(ver[r])
         /\ \A i \in DOMAIN ver[r] :
              /\ table[i].text = ver[r][i].text /\ table[i].from = ver[r][i].from
              /\ table[i].kind = "draft" => ver[r][i].kind = "draft"
         /\ answer.con[r] = 0 => table = ver[r]
<1> DEFINE n == answer.cur[r]
           w == [ver[r][n] EXCEPT !.kind = "replaced"]
           table == GiveWay(r)
<1>1. ver[r] \in Seq(Versions(r))
  BY DEF Inv, TypeOK
<1>2. CASE table = ver[r]
  BY <1>2
<1>3. CASE table # ver[r]
  <2>1. n # 0 /\ table = [ver[r] EXCEPT ![n] = w] /\ answer.con[r] # 0
    BY <1>3 DEF GiveWay
  <2>2. n \in 1 .. Len(ver[r])
    <3>1. n \in Nat /\ n <= Len(ver[r]) /\ Len(ver[r]) \in Nat
      BY <1>1, Answering DEF Answers, Inv, Numbered
    <3> QED BY <2>1, <3>1
  <2>3. ver[r][n] \in Versions(r) /\ n \in DOMAIN ver[r]
    BY <1>1, <2>2
  <2>4. w.kind # "draft" /\ w.text = ver[r][n].text /\ w.from = ver[r][n].from
    BY <2>3 DEF Versions
  <2> HIDE DEF w, n, table
  <2>5. DOMAIN table = DOMAIN ver[r] /\ Len(table) = Len(ver[r])
    BY <1>1, <2>1
  <2>6. \A i \in DOMAIN ver[r] : table[i] = IF i = n THEN w ELSE ver[r][i]
    BY <1>1, <2>1, <2>3
  <2>7. \A i \in DOMAIN ver[r] :
              /\ table[i].text = ver[r][i].text /\ table[i].from = ver[r][i].from
              /\ table[i].kind = "draft" => ver[r][i].kind = "draft"
    BY <2>4, <2>6
  <2> QED BY <2>1, <2>5, <2>7 DEF table
<1> QED BY <1>2, <1>3

LEMMA ReplaceDraftSound ==
  ASSUME Inv, Inv', Sound, ReplaceDraft
  PROVE  Sound'
<1> USE DEF Inv, Sound
<1>1. /\ answer # None
      /\ \A r \in Resources : /\ ver'[r] = GiveWay(r)
                              /\ cur'[r] = IF answer.con[r] # 0 THEN answer.con[r] ELSE cur[r]
      /\ sig' = answer.con.sig /\ con' = Resolved /\ answer' = None
      /\ scan' = IF Idle THEN scan ELSE [scan EXCEPT !.over = TRUE]
      /\ cut' = (cut \/ answer.con.over)
      /\ UNCHANGED <<disk, rows, home, left>>
  BY DEF ReplaceDraft
<1>2. con # None /\ con' = None
  BY <1>1 DEF Resolved, Sources, Paired
<1>3. \A r \in Resources :
        /\ DOMAIN ver'[r] = DOMAIN ver[r] /\ Len(ver'[r]) = Len(ver[r])
        /\ \A i \in DOMAIN ver[r] :
             /\ ver'[r][i].text = ver[r][i].text /\ ver'[r][i].from = ver[r][i].from
             /\ ver'[r][i].kind = "draft" => ver[r][i].kind = "draft"
        /\ answer.con[r] = 0 => ver'[r] = ver[r]
  BY <1>1, GivenWay
<1>4. \A r \in Resources : /\ DOMAIN ver[r] = 1 .. Len(ver[r]) /\ Len(ver[r]) \in Nat
                           /\ answer.con[r] \in 0 .. Len(ver[r])
                           /\ ToldOf(answer.con, r, disk, ver[r], cur[r])
  BY <1>1, TablesTyped DEF TypeOK, Offers, Told
<1>5. \A r \in Resources : cur'[r] # 0
  BY <1>1, <1>4 DEF ToldOf
<1>6. Firming
  BY <1>1, <1>3, <1>4, <1>5 DEF Firming, Firmer
<1>7. /\ ~Idle' => /\ ~Idle /\ scan'.do = scan.do /\ scan'.sig = scan.sig
                   /\ scan'.t = scan.t /\ scan'.m = scan.m /\ scan'.over
      /\ scan'.todo = scan.todo
  BY <1>1, AtWork DEF Scans, Idle
<1>8. SameWork
  BY <1>7 DEF SameWork
<1>9. Planned' /\ Paired'
  BY <1>1, <1>7 DEF Planned, Pending, Paired
<1>10. Stock'
  <2>1. ASSUME NEW r \in Resources, NEW i \in DOMAIN ver'[r]
        PROVE  Holds(r, ver'[r][i].text)
    BY <1>3, <2>1 DEF Holds
  <2>2. ASSUME NEW i \in DOMAIN ver'["t"], ver'["t"][i].kind = "draft"
        PROVE  ver'["t"][i].from = None
    BY <1>3, <2>2, "t" \in Resources DEF Stock, Origins, Resources
  <2>3. ASSUME NEW i \in DOMAIN ver'["m"], ver'["m"][i].from # 0
        PROVE  \E j \in DOMAIN ver["m"] : ver["m"][j].from # 0
    BY <1>3, <2>3, "m" \in Resources DEF Resources
  <2> QED BY <1>1, <1>6, <2>1, <2>2, <2>3, StockKept
<1>11. Sources'
  <2>1. \A s \in Disks : Remembered(s)' => Remembered(s)
    BY <1>1, <1>2, <1>7 DEF Remembered
  <2> QED BY <1>1, <1>7, <1>9, <2>1, SourcesKept
<1>12. Offers'
  BY <1>1, <1>2 DEF Offers
<1>13. Captures' /\ Lates'
  BY <1>6, <1>7, <1>8, CapturesKept, LatesKept
<1>14. Keeps' /\ Drafting'
  BY <1>2, <1>5 DEF Keeps, Drafting
<1>15. \A r \in Resources : disk.new = None => FirmIn(ver'[r], disk[r]) \/ sig' # disk
  BY <1>1, <1>4, <1>6, FirmKept DEF ToldOf
<1>16. ASSUME NEW r \in Resources, disk.new = None, sig' = disk, answer.con[r] # 0
       PROVE  Fine(r)'
  <2>1. FileAt(ver[r], answer.con[r], disk[r])
    BY <1>1, <1>4, <1>16 DEF ToldOf
  <2>2. answer.con[r] \in DOMAIN ver[r]
    BY <1>4, <1>16
  <2>3. ver'[r][cur'[r]].text = disk[r]
    BY <1>1, <1>3, <1>16, <2>1, <2>2 DEF FileAt
  <2> QED BY <1>1, <2>3 DEF Fine, FineAt
<1>17. ASSUME NEW r \in Resources, answer.con[r] = 0, Fine(r)
       PROVE  Fine(r)'
  BY <1>1, <1>3, <1>17 DEF Fine
<1>18. Imports'
  <2> SUFFICES ASSUME ~Idle', scan'.do = "import"
               PROVE  Imports'
    BY DEF Imports
  <2>1. ~Idle /\ scan.do = "import" /\ scan'.sig = scan.sig
        /\ (Pending("t")' <=> Pending("t"))
    BY <1>7 DEF Pending
  <2>2. ASSUME ~Pending("t"), scan.sig = disk, disk.new = None
        PROVE  /\ Firm("t", disk.t)'
               /\ Fine("t")' \/ (sig' # disk' /\ con' = None)
    <3>1. Firm("t", disk.t) /\ Fine("t")
      BY <1>2, <2>1, <2>2 DEF Imports
    <3>2. Firm("t", disk.t)'
      BY <1>1, <1>6, <3>1, FirmKept, "t" \in Resources DEF Firm, Resources
    <3>3. "t" \in Resources
      BY DEF Resources
    <3>4. Fine("t")' \/ sig' # disk
      BY <1>16, <1>17, <2>2, <3>1, <3>3
    <3> QED BY <1>1, <1>2, <3>2, <3>4
  <2> QED BY <1>1, <1>5, <2>1, <2>2 DEF Imports
<1>19. Acknowledged'
  <2> SUFFICES ASSUME sig' = disk', ~cut'
               PROVE  Acknowledged'
    BY DEF Acknowledged
  <2>1. answer.con.sig = disk /\ ~answer.con.over /\ disk' = disk
    BY <1>1
  <2>2. CASE disk.new # None
    <3>1. FirmIn(ver["m"], disk.new.text) /\ "m" \in Resources
      BY <1>4, <2>1, <2>2 DEF ToldOf, Resources
    <3>2. FirmIn(ver'["m"], disk.new.text)
      BY <1>6, <3>1, FirmKept
    <3> QED BY <2>1, <2>2, <3>2 DEF Acknowledged, Words, Firm
  <2>3. CASE disk.new = None
    <3>1. \A r \in Resources : FirmIn(ver'[r], disk[r])
      BY <1>1, <1>15, <2>1, <2>3
    <3>2. \A r \in Resources : Fine(r)'
      <4>1. ASSUME NEW r \in Resources, answer.con[r] = 0 PROVE Fine(r)
        BY <1>4, <2>1, <2>3, <4>1 DEF ToldOf, Fine
      <4> QED BY <1>1, <1>16, <1>17, <2>1, <2>3, <4>1
    <3> QED BY <2>1, <2>3, <3>1, <3>2 DEF Acknowledged, Words, Firm
  <2> QED BY <2>2, <2>3
<1> QED BY <1>9, <1>10, <1>11, <1>12, <1>13, <1>14, <1>18, <1>19

(* A publication makes the current versions the source.                    *)
LEMMA PublishSound ==
  ASSUME Inv, Inv', Sound, Publish
  PROVE  Sound'
<1> USE DEF Inv, Sound
<1>1. /\ Idle /\ con = None /\ \A r \in Resources : cur[r] # 0
      /\ disk' = Published /\ sig' = Published /\ Regenerated
      /\ ver' = [r \in Resources |->
                    [ver[r] EXCEPT ![cur[r]].kind = "published"]]
      /\ cut' = FALSE /\ UNCHANGED <<home, cur, con, scan, answer, left>>
  BY DEF Publish
<1>2. answer = None /\ Idle'
  BY <1>1 DEF Sources, Paired, Idle
<1>3. \A r \in Resources : /\ cur[r] \in DOMAIN ver[r] /\ DOMAIN ver[r] = 1 .. Len(ver[r])
                           /\ ver[r][cur[r]] \in Versions(r) /\ ver[r] \in Seq(Versions(r))
  BY <1>1, CurrentTyped DEF Current, TypeOK
<1>4. /\ disk'.t = ver["t"][cur["t"]].text /\ disk'.m = ver["m"][cur["m"]].text
      /\ disk'.root = "archive" /\ disk'.new = disk.new /\ disk'.w = disk.w
      /\ disk'.dir = disk.dir /\ disk' \in Disks /\ disk.w \in Nat
  BY <1>1 DEF Published, Current, TypeOK, Disks
<1>5. \A r \in Resources : disk'[r] = ver[r][cur[r]].text
  BY <1>4 DEF Resources
<1>6. \A r \in Resources :
        /\ DOMAIN ver'[r] = DOMAIN ver[r]
        /\ \A i \in DOMAIN ver[r] :
             /\ ver'[r][i].text = ver[r][i].text /\ ver'[r][i].from = ver[r][i].from
             /\ i # cur[r] => ver'[r][i].kind = ver[r][i].kind
        /\ ver'[r][cur[r]].kind = "published"
  <2> SUFFICES ASSUME NEW r \in Resources
               PROVE  /\ DOMAIN ver'[r] = DOMAIN ver[r]
                      /\ \A i \in DOMAIN ver[r] :
                           /\ ver'[r][i].text = ver[r][i].text /\ ver'[r][i].from = ver[r][i].from
                           /\ i # cur[r] => ver'[r][i].kind = ver[r][i].kind
                      /\ ver'[r][cur[r]].kind = "published"
    OBVIOUS
  <2> DEFINE w == [ver[r][cur[r]] EXCEPT !.kind = "published"]
  <2>1. w.kind = "published" /\ w.text = ver[r][cur[r]].text /\ w.from = ver[r][cur[r]].from
    BY <1>3 DEF Versions
  <2>2. ver'[r] = [ver[r] EXCEPT ![cur[r]] = w]
    BY <1>1, <1>3
  <2> HIDE DEF w
  <2>3. DOMAIN ver'[r] = DOMAIN ver[r]
        /\ \A i \in DOMAIN ver[r] : ver'[r][i] = IF i = cur[r] THEN w ELSE ver[r][i]
    BY <1>3, <2>2
  <2> QED BY <1>3, <2>1, <2>3
<1>7. \A r \in Resources : FirmIn(ver'[r], disk'[r])
  BY <1>3, <1>5, <1>6 DEF FirmIn
<1>8. \A r \in Resources : \A x : FirmIn(ver[r], x) => FirmIn(ver'[r], x)
  <2>1. ASSUME NEW r \in Resources, NEW x, FirmIn(ver[r], x) PROVE FirmIn(ver'[r], x)
    <3>1. PICK i \in DOMAIN ver[r] : ver[r][i].kind # "draft" /\ ver[r][i].text = x
      BY <2>1 DEF FirmIn
    <3>2. i \in DOMAIN ver'[r] /\ ver'[r][i].kind # "draft" /\ ver'[r][i].text = x
      BY <1>6, <3>1
    <3> QED BY <3>2 DEF FirmIn
  <2> QED BY <2>1
<1>9. NextText' = NextText /\ NextText \in Nat
  BY <1>1, Later DEF NextText
<1>10. Stock'
  <2>1. Texts'
    BY <1>3, <1>4, <1>5, <1>6, <1>9 DEF Stock, Texts, Old
  <2>2. Unedited'
    <3>1. ASSUME disk'.new # None, Holds("m", disk.new.text)' PROVE Firm("m", disk.new.text)'
      <4>1. Holds("m", disk.new.text)
        BY <1>4, <1>6, <3>1, "m" \in Resources DEF Holds, Resources
      <4> QED BY <1>4, <1>8, <3>1, <4>1, "m" \in Resources DEF Stock, Unedited, Firm, Resources
    <3> QED BY <1>7, <3>1 DEF Unedited, Firm
  <2>3. Origins'
    <3>1. ASSUME NEW i \in DOMAIN ver'["t"], ver'["t"][i].kind = "draft"
          PROVE  ver'["t"][i].from = None
      BY <1>3, <1>6, <3>1, "t" \in Resources DEF Stock, Origins, Resources
    <3>2. ASSUME NEW i \in DOMAIN ver'["m"], ver'["m"][i].from # 0
          PROVE  disk'.new # None /\ FirmIn(ver'["m"], disk'.new.text)
      BY <1>4, <1>6, <1>8, <3>2, "m" \in Resources DEF Stock, Origins, Firm, Resources
    <3> QED BY <3>1, <3>2 DEF Origins, Firm
  <2>4. Archived'
    BY <1>1, <1>4 DEF Archived
  <2> QED BY <2>1, <2>2, <2>3, <2>4 DEF Stock
<1>11. Sources'
  <2>1. Behind(disk)'
    BY <1>4, <1>9, <1>10, "t" \in Resources, "m" \in Resources
       DEF Behind, Stock, Texts, Old, Resources
  <2>2. \A s \in Disks : Remembered(s)' => s = disk'
    BY <1>1, <1>2 DEF Remembered
  <2>3. Earlier'
    BY <2>1, <2>2 DEF Earlier, Behind
  <2> QED BY <1>1, <1>2, <2>3 DEF Sources, Newest, Paired
<1>12. Offers' /\ Captures' /\ Imports' /\ Lates' /\ Keeps' /\ Planned'
  BY <1>1, <1>2 DEF Offers, Captures, Imports, Lates, Keeps, Planned
<1>13. Drafting'
  BY <1>1 DEF Drafting
<1>14. Acknowledged'
  <2>1. Words'
    <3>1. ASSUME disk.new # None PROVE FirmIn(ver'["m"], disk.new.text)
      <4>1. ver["m"][cur["m"]].from # 0 /\ cur["m"] \in DOMAIN ver["m"]
        BY <1>1, <1>3, <3>1 DEF Regenerated, Current, Stock, Texts, Old, Resources
      <4>2. FirmIn(ver["m"], disk.new.text)
        BY <4>1 DEF Stock, Origins, Firm
      <4> QED BY <1>8, <4>2 DEF Resources
    <3> QED BY <1>4, <1>7, <3>1 DEF Words, Firm
  <2>2. \A r \in Resources : Fine(r)'
    BY <1>1, <1>3, <1>5, <1>6 DEF Fine, FineAt
  <2> QED BY <2>1, <2>2 DEF Acknowledged
<1> QED BY <1>10, <1>11, <1>12, <1>13, <1>14

----------------------------------------------------------------------------
(* The files, and how the scan stores them.                                *)

(* What changes on the disk is behind nothing anybody remembers.           *)
LEMMA FileSound ==
  ASSUME Inv, Inv', Sound, Spend("events"), Touch, disk' \in Disks, ~Behind(disk'),
         \A r \in Resources : disk'[r] \in {disk[r], NextText},
         disk'.root = disk.root, disk.w <= disk'.w,
         disk'.dir = "hidden" => disk.dir = "hidden",
         \/ disk'.new = disk.new
         \/ /\ disk.new = None /\ disk.root = "archive" /\ disk'.new # None
            /\ disk'.new.text = NextText /\ Old(disk'.new.input)
  PROVE  Sound'
<1> USE DEF Inv, Sound
<1>1. UNCHANGED <<sig, ver, cur, con, scan, answer, cut>>
  BY DEF Touch, database
<1>2. /\ NextText \in Nat \ {0, 1} /\ NextText' = NextText + 1
      /\ ~Old(NextText)
      /\ \A x : Old(x) \/ x = NextText => x \in 1 .. NextText' - 1
  BY Later DEF Old
<1>3. Stock'
  <2>1. Texts'
    <3>1. \A r \in Resources : /\ disk'[r] \in 1 .. NextText' - 1
                               /\ \A i \in DOMAIN ver[r] : ver[r][i].text \in 1 .. NextText' - 1
      BY <1>1, <1>2 DEF Stock, Texts
    <3>2. disk'.new # None => /\ disk'.new.text \in 1 .. NextText' - 1
                              /\ disk'.new.input \in 1 .. NextText' - 1
      BY <1>1, <1>2 DEF Stock, Texts
    <3> QED BY <1>1, <3>1, <3>2 DEF Texts, Old
  <2>2. Unedited'
    <3>1. \A r \in Resources : ~Holds(r, NextText)
      <4>1. \A r \in Resources : \A x : Holds(r, x) => Old(x)
        BY DEF Holds, Stock, Texts
      <4> QED BY <1>2, <4>1
    <3>2. \A r \in Resources : Holds(r, disk'[r]) => Firm(r, disk'[r])
      BY <3>1 DEF Stock, Unedited
    <3>3. disk'.new # None /\ Holds("m", disk'.new.text) => Firm("m", disk'.new.text)
      BY <3>1 DEF Stock, Unedited, Resources
    <3> QED BY <1>1, <3>2, <3>3 DEF Unedited, Holds, Firm
  <2>3. Origins'
    BY <1>1 DEF Stock, Origins, Firm
  <2>4. Archived'
    BY <1>1 DEF Stock, Archived
  <2> QED BY <2>1, <2>2, <2>3, <2>4 DEF Stock
<1>4. /\ \A s : Remembered(s)' <=> Remembered(s)
      /\ ~Remembered(disk')
  BY <1>1 DEF Remembered, Idle, Sources, Earlier
<1>5. /\ sig # disk' /\ (con # None => con.sig # disk')
      /\ answer # None => answer.con.sig # disk'
      /\ ~Idle => scan.sig # disk'
  BY <1>4 DEF Remembered
<1>6. Sources'
  <2>1. \A s \in Disks : Behind(s) => Behind(s)'
    <3>1. ASSUME NEW s \in Disks, Behind(s) PROVE Behind(s)'
      <4>1. /\ s.t \in Nat /\ s.m \in Nat /\ s.w \in Nat
            /\ s.new # None => s.new.text \in Nat
            /\ disk.w \in Nat /\ disk'.w \in Nat
        BY DEF Disks, TypeOK
      <4> QED BY <1>2, <3>1, <4>1 DEF Behind
    <3> QED BY <3>1
  <2>2. Earlier' /\ Paired'
    BY <1>1, <1>4, <2>1 DEF Sources, Earlier, Paired
  <2>3. ~Remembered(disk)'
    BY <1>4, <1>5, <1>1 DEF Remembered, Idle
  <2> QED BY <2>2, <2>3 DEF Sources, Newest
<1>7. \A r \in Resources : \A c :
        c.sig # disk' /\ ToldOf(c, r, disk, ver[r], cur[r]) => ToldOf(c, r, disk', ver[r], cur[r])
  BY DEF ToldOf
<1>8. Offers' /\ Captures'
  BY <1>1, <1>5, <1>7 DEF Offers, Captures, Told, Idle, Pending
<1>9. Planned'
  BY <1>1 DEF Planned, Idle, Pending
<1>10. Imports' /\ Lates'
  BY <1>1, <1>5 DEF Imports, Lates, Idle
<1>11. Keeps' /\ Drafting'
  BY <1>1 DEF Keeps, Drafting, Idle, Pending
<1>12. Acknowledged'
  BY <1>1, <1>5 DEF Acknowledged
<1> QED BY <1>3, <1>6, <1>8, <1>9, <1>10, <1>11, <1>12

(* What others do to the files.                                            *)
LEMMA FilesSound ==
  ASSUME Inv, Inv', Sound, \/ \E r \in Resources : EditFile(r)
                           \/ WhisperArrives \/ Promote \/ MinutesArrive
  PROVE  Sound'
<1> USE DEF Inv
<1>1. Spend("events") /\ Touch /\ disk \in Disks /\ disk' \in Disks
  BY DEF EditFile, WhisperArrives, Promote, MinutesArrive, TypeOK
<1>2. NextText \in Nat \ {0, 1} /\ disk.w \in Nat
  BY <1>1, Later DEF Disks
<1>3. ASSUME NEW r \in Resources, EditFile(r) PROVE Sound'
  <2>1. disk' = [disk EXCEPT ![r] = NextText]
    BY <1>3 DEF EditFile
  <2>2. /\ \A q \in Resources : disk'[q] = IF q = r THEN NextText ELSE disk[q]
        /\ disk'.root = disk.root /\ disk'.w = disk.w
        /\ disk'.dir = disk.dir /\ disk'.new = disk.new
    BY <1>1, <2>1 DEF Disks, Resources
  <2>3. ~Behind(disk')
    BY <1>2, <2>2 DEF Behind, Resources
  <2> QED BY <1>1, <1>2, <2>2, <2>3, FileSound
<1>4. ASSUME WhisperArrives PROVE Sound'
  <2>1. disk.root = "draft" /\ disk' = [disk EXCEPT !.w = disk.w + 1]
    BY <1>4 DEF WhisperArrives
  <2>2. /\ \A q \in Resources : disk'[q] = disk[q]
        /\ disk'.root = disk.root /\ disk'.w = disk.w + 1
        /\ disk'.dir = disk.dir /\ disk'.new = disk.new
    BY <1>1, <2>1 DEF Disks, Resources
  <2>3. ~Behind(disk')
    BY <1>2, <2>1, <2>2 DEF Behind
  <2> QED BY <1>1, <1>2, <2>2, <2>3, FileSound
<1>5. ASSUME Promote PROVE Sound'
  <2>1. disk.dir = "hidden" /\ disk' = [disk EXCEPT !.dir = "visible"]
    BY <1>5 DEF Promote
  <2>2. /\ \A q \in Resources : disk'[q] = disk[q]
        /\ disk'.root = disk.root /\ disk'.w = disk.w
        /\ disk'.dir = "visible" /\ disk'.new = disk.new
    BY <1>1, <2>1 DEF Disks, Resources
  <2>3. ~Behind(disk')
    BY <2>1, <2>2 DEF Behind
  <2> QED BY <1>1, <1>2, <2>2, <2>3, FileSound
<1>6. ASSUME MinutesArrive PROVE Sound'
  <2>1. PICK v \in Range(ver["t"]) :
          disk' = [disk EXCEPT !.new = [text |-> NextText, input |-> v.text]]
    BY <1>6 DEF MinutesArrive
  <2>2. disk.root = "archive" /\ disk.new = None
    BY <1>6 DEF MinutesArrive
  <2>3. Old(v.text)
    <3>1. PICK i \in DOMAIN ver["t"] : ver["t"][i] = v
      BY <2>1 DEF Range
    <3> QED BY <3>1, "t" \in Resources DEF Sound, Stock, Texts, Resources
  <2>4. /\ \A q \in Resources : disk'[q] = disk[q]
        /\ disk'.root = disk.root /\ disk'.w = disk.w /\ disk'.dir = disk.dir
        /\ disk'.new = [text |-> NextText, input |-> v.text]
    BY <1>1, <2>1 DEF Disks, Resources
  <2>5. disk'.new # None
    <3>1. v.text \in Nat
      BY <1>2, <2>3 DEF Old
    <3> QED BY <1>2, <2>4, <3>1, ExternalAssumption
  <2>6. ~Behind(disk')
    BY <1>2, <2>4, <2>5 DEF Behind
  <2> QED BY <1>1, <1>2, <2>2, <2>3, <2>4, <2>5, <2>6, FileSound
<1> QED BY <1>3, <1>4, <1>5, <1>6

(* What storing a file makes of the tables and of the scan.                *)
LEMMA Taken ==
  ASSUME Inv, NEW r \in Resources, NEW file \in Versions(r), Step(Named(r)), Take(r, file)
  PROVE  /\ ~Idle /\ scan \in Scans /\ Head(scan.todo) = Named(r)
         /\ UNCHANGED <<disk, sig, con, answer, left>>
         /\ \A q \in Resources : /\ Len(ver[q]) <= Len(ver'[q])
                                 /\ \A i \in DOMAIN ver[q] : ver'[q][i] = ver[q][i]
                                 /\ q # r => /\ ver'[q] = ver[q] /\ cur'[q] = cur[q]
                                             /\ scan'[q] = scan[q]
         /\ \A i \in DOMAIN ver'[r] : i \in DOMAIN ver[r] \/ ver'[r][i] = file
         /\ Id(r, file) \in DOMAIN ver'[r] /\ Id(r, file) \in Nat \ {0}
         /\ Same(r, ver'[r][Id(r, file)], file)
         /\ scan'.todo = Tail(scan.todo) /\ scan'.do = scan.do
         /\ scan'.sig = scan.sig /\ scan'.over = scan.over
         /\ scan'[r] = IF scan.do = "minutes" \/ (scan.do = "capture" /\ Changed(r, file))
                       THEN Id(r, file) ELSE scan[r]
         /\ cur'[r] = IF scan.do \in {"capture", "late"} \/ (scan.do = "minutes" /\ scan.draft)
                      THEN cur[r] ELSE Id(r, file)
<1> USE DEF Inv
<1> DEFINE n == Id(r, file)
           put == scan.do = "minutes" \/ (scan.do = "capture" /\ Changed(r, file))
           kept == scan.do \in {"capture", "late"} \/ (scan.do = "minutes" /\ scan.draft)
<1>1. /\ ~Idle /\ scan \in Scans /\ Head(scan.todo) = Named(r)
      /\ UNCHANGED <<disk, sig, con, answer, left>>
  BY AtWork DEF Step, Idle, Take
<1>2. /\ ver' = Stored(r, file)
      /\ cur' = IF kept THEN cur ELSE [cur EXCEPT ![r] = n]
      /\ Go(IF put THEN [scan EXCEPT ![r] = n] ELSE scan)
  BY DEF Take
<1>3. /\ \A q \in Resources : /\ ver'[q] \in Seq(Versions(q)) /\ Len(ver[q]) <= Len(ver'[q])
                              /\ \A i \in DOMAIN ver[q] : ver'[q][i] = ver[q][i]
      /\ n \in 1 .. Len(ver'[r]) /\ Same(r, ver'[r][n], file)
  BY <1>2, StoredFile
<1>4. n \in DOMAIN ver'[r] /\ n \in Nat \ {0}
  BY <1>3
<1>5. /\ \A q \in Resources : q # r => ver'[q] = ver[q]
      /\ ver'[r] = ver[r] \/ ver'[r] = Append(ver[r], file)
  BY <1>2 DEF Stored, TypeOK
<1>6. \A i \in DOMAIN ver'[r] : i \in DOMAIN ver[r] \/ ver'[r][i] = file
  <2>1. ver[r] \in Seq(Versions(r))
    BY DEF TypeOK
  <2> QED BY <1>5, <2>1
<1> HIDE DEF n, put, kept
<1>7. cur'[r] = (IF kept THEN cur[r] ELSE n) /\ \A q \in Resources : q # r => cur'[q] = cur[q]
  BY <1>2 DEF TypeOK
<1>8. /\ scan'.todo = Tail(scan.todo) /\ scan'.do = scan.do
      /\ scan'.sig = scan.sig /\ scan'.over = scan.over
      /\ scan'[r] = IF put THEN n ELSE scan[r]
      /\ \A q \in Resources : q # r => scan'[q] = scan[q]
  <2>1. CASE ~put
    BY <1>1, <1>2, <2>1, Popped DEF Resources
  <2>2. CASE put /\ r = "t"
    BY <1>1, <1>2, <2>2 DEF Go, Scans, Resources
  <2>3. CASE put /\ r = "m"
    BY <1>1, <1>2, <2>3 DEF Go, Scans, Resources
  <2> QED BY <2>1, <2>2, <2>3 DEF Resources
<1> QED BY <1>1, <1>3, <1>4, <1>5, <1>6, <1>7, <1>8 DEF n, put, kept

(* A file stored: a version no draft needs, and what is shown unless a     *)
(* draft is kept.                                                          *)
LEMMA TakeSound ==
  ASSUME Inv, Inv', Sound, NEW r \in Resources, NEW file \in Versions(r),
         Step(Named(r)), Take(r, file), file.kind # "draft",
         file.text = IF r = "m" /\ disk.new # None THEN disk.new.text ELSE disk[r],
         r = "t" => file.from # None,
         r = "m" /\ file.from # 0 => disk.new # None,
         cut => cut' \/ (r = "m" /\ scan.do = "import")
  PROVE  Sound'
<1> USE DEF Inv, Sound
<1> DEFINE n == Id(r, file)
           kept == scan.do \in {"capture", "late"} \/ (scan.do = "minutes" /\ scan.draft)
<1>1. /\ ~Idle /\ scan \in Scans /\ Head(scan.todo) = Named(r)
      /\ UNCHANGED <<disk, sig, con, answer, left>>
      /\ scan'.todo = Tail(scan.todo) /\ scan'.do = scan.do
      /\ scan'.sig = scan.sig /\ scan'.over = scan.over
  BY Taken
<1>2. \A q \in Resources : /\ Len(ver[q]) <= Len(ver'[q])
                           /\ \A i \in DOMAIN ver[q] : ver'[q][i] = ver[q][i]
                           /\ q # r => /\ ver'[q] = ver[q] /\ cur'[q] = cur[q]
                                       /\ scan'[q] = scan[q]
  BY Taken
<1>3. /\ \A i \in DOMAIN ver'[r] : i \in DOMAIN ver[r] \/ ver'[r][i] = file
      /\ n \in DOMAIN ver'[r] /\ n \in Nat \ {0} /\ Same(r, ver'[r][n], file)
  BY Taken
<1>4. cur'[r] = IF kept THEN cur[r] ELSE n
  BY Taken
<1>5. scan'[r] = IF scan.do = "minutes" \/ (scan.do = "capture" /\ Changed(r, file))
                 THEN n ELSE scan[r]
  BY Taken
<1> HIDE DEF n, kept
<1>6. \A q \in Resources : /\ DOMAIN ver[q] = 1 .. Len(ver[q]) /\ Len(ver[q]) \in Nat
                           /\ cur[q] \in 0 .. Len(ver[q])
                           /\ ver[q] \in Seq(Versions(q)) /\ ver'[q] \in Seq(Versions(q))
  BY TablesTyped DEF TypeOK
<1>7. ver'[r][n].text = file.text /\ ver'[r][n].kind # "draft"
  <2>1. CASE r = "t"
    BY <1>2, <1>3, <2>1 DEF Same, Stock, Origins
  <2>2. CASE r = "m"
    BY <1>3, <2>2 DEF Same
  <2> QED BY <1>3, <2>1, <2>2 DEF Same, Resources
<1>8. FirmIn(ver'[r], file.text)
  BY <1>3, <1>7 DEF FirmIn
<1>9. \A q \in Resources : cur[q] # 0 => cur'[q] # 0
  BY <1>2, <1>3, <1>4
<1>10. Firming
  BY <1>1, <1>2, <1>6, <1>9 DEF Firming, Firmer
<1>11. /\ Planned'
       /\ \A q \in Resources : Pending(q)' <=> Pending(q) /\ q # r
       /\ Pending(r) /\ scan.do \notin {"refresh", "relocate"}
       /\ scan.do = "import" => ~Has(scan.todo, "sign") /\ ~Has(scan'.todo, "sign")
  <2>1. /\ Planned' /\ \A x : Has(scan.todo, x) <=> x = Named(r) \/ Has(scan'.todo, x)
        /\ ~Has(scan'.todo, Named(r))
    BY <1>1, PlannedPopped
  <2>2. \A q \in Resources : Named(q) = Named(r) <=> q = r
    BY DEF Named, Resources
  <2>3. ASSUME scan.do = "import", Has(scan.todo, "sign") PROVE FALSE
    <3>1. Has(Tail(scan.todo), "sign")
      BY <1>1, <2>1, <2>3 DEF Named
    <3>2. Rank(scan.do)[Named(r)] < Rank(scan.do)["sign"]
      BY <1>1, <3>1, PoppedInTurn DEF Planned
    <3> QED BY <2>3, <3>2 DEF Rank, Named
  <2>4. scan.do \notin {"refresh", "relocate"}
    BY <1>1, <2>1 DEF Planned, Pending, Resources
  <2> QED BY <2>1, <2>2, <2>3, <2>4 DEF Pending
<1>12. disk.new # None => \A q \in Resources : cur[q] # 0
  BY DEF Stock, Archived
<1>13. scan.do \in {"minutes", "late"} => disk.new # None
  BY <1>1 DEF Planned
<1>14. ~kept => cur'[r] = n /\ cur'[r] # 0
  BY <1>3, <1>4
<1>15. FineStays
  <2>1. disk.new = None => FineAt(ver'[r], n, disk[r])
    BY <1>7 DEF FineAt
  <2>2. FineAt(ver[r], cur[r], disk[r]) => FineAt(ver'[r], cur[r], disk[r])
    BY <1>2, <1>6 DEF FineAt, DraftAt
  <2> QED BY <1>2, <1>4, <2>1, <2>2 DEF FineStays
<1>16. Stock'
  <2>1. ASSUME NEW q \in Resources, NEW i \in DOMAIN ver'[q]
        PROVE  \/ Holds(q, ver'[q][i].text)
               \/ Old(ver'[q][i].text) /\ FirmIn(ver'[q], ver'[q][i].text)
    <3>1. Old(file.text)
      BY DEF Stock, Texts
    <3>2. i \in DOMAIN ver[q] \/ (q = r /\ ver'[q][i] = file)
      BY <1>2, <1>3, <2>1
    <3> QED BY <1>2, <1>8, <3>1, <3>2 DEF Holds
  <2>2. ASSUME NEW i \in DOMAIN ver'["t"], ver'["t"][i].kind = "draft"
        PROVE  ver'["t"][i].from = None
    BY <1>2, <1>3, <2>2, "t" \in Resources DEF Stock, Origins, Resources
  <2>3. ASSUME NEW i \in DOMAIN ver'["m"], ver'["m"][i].from # 0
        PROVE  \/ \E j \in DOMAIN ver["m"] : ver["m"][j].from # 0
               \/ disk.new # None /\ FirmIn(ver'["m"], disk.new.text)
    BY <1>2, <1>3, <1>8, <2>3, "m" \in Resources DEF Resources
  <2> QED BY <1>1, <1>10, <2>1, <2>2, <2>3, StockKept
<1>17. Sources' /\ Offers'
  <2>1. Paired'
    BY <1>1 DEF Sources, Paired
  <2>2. \A s \in Disks : Remembered(s)' => Remembered(s)
    BY <1>1 DEF Remembered
  <2> QED BY <1>1, <1>10, <1>15, <2>1, <2>2, SourcesKept, OffersKept
<1>18. Captures'
  <2> SUFFICES ASSUME scan.do = "capture", NEW q \in Resources
               PROVE  IF Pending(q)' THEN scan'[q] = 0 ELSE Told(scan, q)'
    BY <1>1 DEF Captures
  <2>1. IF Pending(q) THEN scan[q] = 0 ELSE ToldOf(scan, q, disk, ver[q], cur[q])
    BY <1>1 DEF Captures, Told
  <2>2. CASE q # r
    <3>1. ToldOf(scan, q, disk, ver[q], cur[q]) => ToldOf(scan', q, disk', ver'[q], cur'[q])
      BY <1>1, <1>2, <2>2 DEF ToldOf
    <3> QED BY <1>2, <1>11, <2>1, <2>2, <3>1 DEF Told
  <2>3. CASE q = r
    <3>1. scan'[r] = IF Changed(r, file) THEN n ELSE 0
      BY <1>5, <1>11, <2>1, <2>3
    <3>2. ~Changed(r, file) => /\ cur[r] # 0
                               /\ FineAt(ver[r], cur[r], file.text)
      BY DEF Changed, IsDraft, Current, FineAt, DraftAt
    <3>3. disk.new = None => file.text = disk[r] /\ FileAt(ver'[r], scan'[r], disk[r])
      BY <1>7, <3>1 DEF FileAt
    <3>4. ~Changed(r, file) /\ disk.new = None => FineAt(ver'[r], cur'[r], disk[r])
      BY <1>15, <3>2, <3>3 DEF FineStays
    <3>5. disk.new # None /\ r = "m" => FirmIn(ver'[r], disk.new.text)
      BY <1>8
    <3>6. scan'[r] = 0 => ~Changed(r, file) /\ cur'[r] # 0
      BY <1>3, <1>9, <3>1, <3>2
    <3>7. ToldOf(scan', r, disk', ver'[r], cur'[r])
      BY <1>1, <1>8, <3>3, <3>4, <3>5, <3>6 DEF ToldOf
    <3> QED BY <1>11, <2>3, <3>7 DEF Told
  <2> QED BY <2>2, <2>3
<1>19. Imports'
  <2> SUFFICES ASSUME scan.do = "import" PROVE Imports'
    BY <1>1 DEF Imports
  <2>1. ~kept
    BY DEF kept
  <2>2. \A q \in Resources : cur'[q] = 0 => ver'[q] = <<>> /\ con' = None
    BY <1>1, <1>2, <1>14, <2>1 DEF Imports
  <2>3. ASSUME ~Pending("t")', scan'.sig = disk', disk'.new = None
        PROVE  Firm("t", disk.t)' /\ (Fine("t")' \/ (sig' # disk' /\ con' = None))
    <3>1. CASE r = "t"
      BY <1>1, <1>7, <1>8, <1>14, <2>1, <2>3, <3>1 DEF Firm, Fine, FineAt
    <3>2. CASE r = "m"
      BY <1>1, <1>2, <1>11, <2>3, <3>2, "t" \in Resources DEF Imports, Firm, Fine, Resources
    <3> QED BY <3>1, <3>2 DEF Resources
  <2> QED BY <2>2, <2>3 DEF Imports
<1>20. Lates'
  <2> SUFFICES ASSUME scan.do \in {"minutes", "late"}, ~Pending("m")', scan'.sig = disk'
               PROVE  Firm("m", disk.new.text)'
    BY <1>1 DEF Lates
  <2>1. CASE r = "m"
    BY <1>1, <1>8, <1>13, <2>1 DEF Firm
  <2>2. CASE r = "t"
    BY <1>1, <1>2, <1>11, <2>2, "m" \in Resources DEF Lates, Firm, Resources
  <2> QED BY <2>1, <2>2 DEF Resources
<1>21. ASSUME scan.do = "keep",
              con # None \/ \E q \in Resources : cur[q] = 0 /\ ver[q] # <<>>
       PROVE  \E q \in Resources : DraftAt(ver[q], cur[q]) /\ ~Pending(q) /\ q # r
  BY <1>1, <1>11, <1>21 DEF Keeps
<1>22. Keeps'
  <2> SUFFICES ASSUME scan.do = "keep",
                      con' # None \/ \E q \in Resources : cur'[q] = 0 /\ ver'[q] # <<>>
               PROVE  \E q \in Resources : DraftAt(ver'[q], cur'[q]) /\ ~Pending(q)'
    BY <1>1 DEF Keeps
  <2>1. ~kept
    BY DEF kept
  <2>2. con # None \/ \E q \in Resources : cur[q] = 0 /\ ver[q] # <<>>
    BY <1>1, <1>2, <1>14, <2>1
  <2> QED BY <1>2, <1>11, <1>21, <2>2
<1>23. kept => \A q \in Resources : DraftAt(ver[q], cur[q]) => DraftAt(ver'[q], cur'[q])
  BY <1>2, <1>4, <1>6 DEF DraftAt
<1>24. Drafting'
  <2> SUFFICES ASSUME NEW q \in Resources, cur'[q] = 0,
                      con # None \/ scan.do = "capture" \/ ver'[q] # <<>>
               PROVE  \E p \in Resources : DraftAt(ver'[p], cur'[p])
    BY <1>1 DEF Drafting
  <2>1. cur[q] = 0 /\ disk.new = None
    BY <1>9, <1>12
  <2>2. scan.do \notin {"minutes", "late", "refresh", "relocate"}
    BY <1>11, <1>13, <2>1
  <2>3. CASE scan.do = "capture"
    BY <1>1, <1>23, <2>1, <2>3 DEF Drafting, kept
  <2>4. CASE scan.do # "capture"
    <3>1. ~kept /\ q # r
      BY <1>14, <2>2, <2>4 DEF kept
    <3>2. con # None \/ ver[q] # <<>>
      BY <1>2, <2>4, <3>1
    <3>3. scan.do = "keep"
      BY <1>1, <2>1, <2>2, <2>4, <3>2 DEF Imports, Scans, Branches
    <3> QED BY <1>2, <1>21, <2>1, <3>2, <3>3
  <2> QED BY <2>3, <2>4
<1>25. ASSUME Words PROVE Words'
  <2>1. CASE disk.new # None
    BY <1>1, <1>10, <1>25, <2>1, FirmKept, "m" \in Resources DEF Words, Firm, Resources
  <2>2. CASE disk.new = None
    <3>1. ASSUME NEW q \in Resources, ver'[q] # <<>> PROVE FirmIn(ver'[q], disk[q])
      BY <1>2, <1>8, <1>25, <2>2, <3>1 DEF Words, Firm
    <3> QED BY <1>1, <2>2, <3>1 DEF Words, Firm
  <2> QED BY <2>1, <2>2
<1>26. Acknowledged'
  <2> SUFFICES ASSUME sig = disk, con = None, ~cut', ~Underway'
               PROVE  /\ Words'
                      /\ \/ \E q \in Resources : DraftAt(ver'[q], cur'[q]) /\ ~Overwrites(q)'
                         \/ disk'.new # None
                         \/ \A q \in Resources : Fine(q)'
    BY <1>1 DEF Acknowledged
  <2>1. CASE scan.do # "import"
    <3>1. /\ Words
          /\ \/ \E q \in Resources : DraftAt(ver[q], cur[q]) /\ ~Overwrites(q)
             \/ disk.new # None
             \/ \A q \in Resources : Fine(q)
      BY <2>1 DEF Acknowledged, Underway
    <3>2. \A q \in Resources : Overwrites(q)' => Overwrites(q)
      BY <1>1, <1>11 DEF Overwrites
    <3>3. disk.new = None /\ (\A q \in Resources : Fine(q)) => \A q \in Resources : Fine(q)'
      BY <1>1, <1>15 DEF Fine, FineStays
    <3>4. ASSUME disk.new = None, NEW q \in Resources, DraftAt(ver[q], cur[q]), ~Overwrites(q)
          PROVE  DraftAt(ver'[q], cur'[q]) /\ ~Overwrites(q)'
      <4>1. CASE q # r
        BY <1>2, <3>2, <3>4, <4>1
      <4>2. CASE q = r
        <5>1. scan.do = "capture"
          BY <1>1, <1>11, <1>13, <2>1, <3>4, <4>2 DEF Overwrites, Scans, Branches
        <5> QED BY <1>23, <3>2, <3>4, <5>1 DEF kept
      <4> QED BY <4>1, <4>2
    <3> QED BY <1>1, <1>25, <3>1, <3>3, <3>4
  <2>2. CASE scan.do = "import"
    <3>1. \A q \in Resources : ~Pending(q)'
      BY <1>1, <1>11, <2>2 DEF Underway, Pending, Has, Idle
    <3>2. r = "m"
      BY <1>1, <1>11, <2>2, <3>1 DEF Planned, Resources
    <3>3. CASE disk.new # None
      BY <1>1, <1>8, <3>2, <3>3 DEF Words, Firm
    <3>4. CASE disk.new = None
      <4>1. scan.sig = disk /\ ~Pending("t")
        BY <1>1, <1>11, <3>1, <3>2, "t" \in Resources DEF Sources, Newest, Remembered, Resources
      <4>2. Firm("t", disk.t) /\ Fine("t")
        BY <1>1, <2>2, <3>4, <4>1 DEF Imports
      <4>3. Firm("t", disk.t)' /\ Fine("t")'
        BY <1>1, <1>2, <3>2, <4>2, "t" \in Resources DEF Firm, Fine, Resources
      <4>4. Firm("m", disk.m)' /\ Fine("m")'
        BY <1>1, <1>7, <1>8, <1>14, <2>2, <3>2, <3>4 DEF Firm, Fine, FineAt, kept
      <4>5. \A q \in Resources : q = "t" \/ q = "m"
        BY DEF Resources
      <4>6. \A q \in Resources : FirmIn(ver'[q], disk[q]) /\ Fine(q)'
        BY <1>1, <4>3, <4>4, <4>5 DEF Firm
      <4> QED BY <1>1, <3>4, <4>6 DEF Words, Firm
    <3> QED BY <3>3, <3>4
  <2> QED BY <2>1, <2>2
<1> QED BY <1>11, <1>16, <1>17, <1>18, <1>19, <1>20, <1>22, <1>24, <1>26

----------------------------------------------------------------------------
(* Both files are stored the same way.                                     *)
LEMMA StoreSound ==
  ASSUME Inv, Inv', Sound, StoreTranscript \/ ImportMinutes
  PROVE  Sound'
<1>1. ~Idle /\ TranscriptFile \in Versions("t") /\ MinutesFile \in Versions("m")
  <2>1. ~Idle
    BY DEF StoreTranscript, ImportMinutes, Step, Idle
  <2> QED BY <2>1, FilesTyped DEF Inv
<1>2. CASE StoreTranscript
  <2>1. /\ Step(Named("t")) /\ Take("t", TranscriptFile) /\ cut' = cut /\ "t" \in Resources
    BY <1>2 DEF StoreTranscript, Named, Resources
  <2>2. /\ TranscriptFile.kind # "draft" /\ TranscriptFile.text = disk["t"]
        /\ TranscriptFile.from # None
    BY ExternalAssumption DEF TranscriptFile, Version, Inv, TypeOK, Disks
  <2> HIDE DEF TranscriptFile
  <2> QED BY <1>1, <2>1, <2>2, TakeSound
<1>3. CASE ImportMinutes
  <2>1. /\ Step(Named("m")) /\ Take("m", MinutesFile) /\ "m" \in Resources
        /\ cut => cut' \/ scan.do = "import"
    BY <1>3 DEF ImportMinutes, Named, Resources
  <2>2. /\ MinutesFile.kind # "draft"
        /\ MinutesFile.text = IF disk.new # None THEN disk.new.text ELSE disk["m"]
        /\ MinutesFile.from # 0 => disk.new # None
    BY DEF MinutesFile, Version
  <2> QED BY <1>1, <2>1, <2>2, TakeSound
<1> QED BY <1>2, <1>3

LEMMA SoundInit == Init => Sound
<1> SUFFICES ASSUME Init PROVE Sound
  OBVIOUS
<1>1. /\ disk.root = "draft" /\ disk.t = 1 /\ disk.m = 1 /\ disk.new = None
      /\ disk \in Disks
  BY DEF Init, Disks, Dirs
<1>2. /\ \A r \in Resources : ver[r] = <<>> /\ cur[r] = 0 /\ disk[r] = 1
      /\ sig = None /\ con = None /\ answer = None /\ Idle
  BY <1>1 DEF Init, Idle, NoScan, Resources
<1>3. NextText = 2 /\ Old(1)
  <2>1. left.events = MaxEvents /\ MaxEvents \in Nat
    BY ExternalAssumption DEF Init
  <2>2. NextText = 2
    BY <2>1 DEF NextText
  <2> QED BY <2>2 DEF Old
<1>4. Stock
  <2>1. Texts
    BY <1>1, <1>2, <1>3 DEF Texts
  <2>2. Unedited
    BY <1>1, <1>2 DEF Unedited, Holds
  <2>3. Origins
    BY <1>2 DEF Origins, Resources
  <2>4. Archived
    BY <1>1 DEF Archived
  <2> QED BY <2>1, <2>2, <2>3, <2>4 DEF Stock
<1>5. sig # disk /\ \A s \in Disks : ~Remembered(s)
  BY <1>1, <1>2, ExternalAssumption DEF Remembered
<1>6. Sources
  BY <1>2, <1>5 DEF Sources, Earlier, Newest, Paired
<1>7. Planned /\ Offers /\ Captures /\ Imports /\ Lates /\ Keeps
  BY <1>2 DEF Planned, Offers, Captures, Imports, Lates, Keeps
<1>8. Drafting /\ Acknowledged
  BY <1>2, <1>5 DEF Drafting, Acknowledged
<1> QED BY <1>4, <1>6, <1>7, <1>8 DEF Sound

LEMMA StillSound ==
  ASSUME Sound, UNCHANGED vars
  PROVE  Sound'
<1> USE DEF Sound
<1>1. UNCHANGED <<disk, rows, home, sig, ver, cur, con, scan, answer, cut, left>>
  BY DEF vars
<1>2. NextText' = NextText
  BY <1>1 DEF NextText
<1>3. Texts'
  BY <1>1, <1>2 DEF Stock, Texts, Old
<1>4. Unedited' /\ Origins' /\ Archived'
  BY <1>1 DEF Stock, Unedited, Origins, Archived, Holds, Firm
<1>5. Sources'
  BY <1>1, <1>2 DEF Sources, Earlier, Newest, Paired, Remembered, Behind, Idle
<1>6. Planned' /\ Offers' /\ Captures' /\ Imports' /\ Lates' /\ Keeps' /\ Drafting'
  BY <1>1 DEF Planned, Offers, Captures, Imports, Lates, Keeps, Drafting, Told, Pending, Idle,
              Firm, Fine
<1>7. Acknowledged'
  BY <1>1 DEF Acknowledged, Words, Underway, Overwrites, Pending, Idle, Firm, Fine
<1> QED BY <1>3, <1>4, <1>5, <1>6, <1>7 DEF Stock

LEMMA SoundStep == Inv /\ Sound /\ [Next]_vars => Sound'
<1> SUFFICES ASSUME Inv, Sound, [Next]_vars PROVE Sound'
  OBVIOUS
<1>1. Inv'
  BY InvStep
<1>2. CASE UNCHANGED vars
  BY <1>2, StillSound
<1>3. CASE StoreTranscript \/ ImportMinutes
  BY <1>1, <1>3, StoreSound
<1>4. CASE Look \/ Index \/ Sign \/ OpenConflict \/ Clean \/ Vanished \/ Fail
  BY <1>1, <1>4, LookSound, IndexSound, SignSound, OpenSound, CleanSound, StopSound
<1>5. ASSUME NEW r \in Resources, SaveDraft(r) \/ Rollback(r)
      PROVE  Sound'
  BY <1>1, <1>5, SaveDraftSound, RollbackSound
<1>6. CASE \/ \E r \in Resources : EditFile(r)
           \/ WhisperArrives \/ Promote \/ MinutesArrive
  BY <1>1, <1>6, FilesSound
<1>7. CASE EditSegments \/ Publish
  BY <1>1, <1>7, EditSegmentsSound, PublishSound
<1>8. ASSUME NEW do \in {"keep", "replace"}, Answer(do)
      PROVE  Sound'
  BY <1>1, <1>8, AnswerSound
<1>9. CASE CheckSource \/ KeepDraft \/ ReplaceDraft
  BY <1>1, <1>9, CheckSourceSound, KeepDraftSound, ReplaceDraftSound
<1> QED BY <1>2, <1>3, <1>4, <1>5, <1>6, <1>7, <1>8, <1>9 DEF Next, ScanStep

LEMMA SoundShows == Inv /\ Sound => UpToDate
<1> SUFFICES ASSUME Inv, Sound, Idle, con = None, sig = disk, ~cut,
                    \A r \in Resources : cur[r] # 0
             PROVE  Shown(disk)
  BY DEF UpToDate
<1>1. /\ Words
      /\ \/ \E r \in Resources : DraftAt(ver[r], cur[r])
         \/ disk.new # None
         \/ \A r \in Resources : Fine(r)
  BY DEF Sound, Acknowledged, Underway
<1>2. \A r \in Resources : ver[r] # <<>>
  <2>1. \A r \in Resources : cur[r] \in 1 .. Len(ver[r])
    BY CurrentTyped DEF Inv
  <2> QED BY <2>1 DEF Inv, TypeOK
<1>3. HoldsWords(disk)
  BY <1>1, <1>2 DEF HoldsWords, Words, Firm, FirmIn, Holds, Resources
<1>4. \/ Drafted
      \/ disk.new # None
      \/ \A r \in Resources : Current(r).text = disk[r]
  BY <1>1 DEF Drafted, IsDraft, Current, DraftAt, Fine, FineAt, Resources
<1> QED BY <1>3, <1>4 DEF Shown

(* When a source is acknowledged and nothing is open, its words are        *)
(* versions, and are what is shown unless the user has a draft             *)
(* (_import_meeting, resolve_conflict, publish_meeting), but for what cut  *)
(* excepts.                                                                *)
THEOREM ShownUpToDate == Spec => []UpToDate
<1>1. Inv /\ [Next]_vars => Inv'
  BY InvStep
<1> QED BY <1>1, InvInit, SoundInit, SoundStep, SoundShows, PTL DEF Spec

=============================================================================
