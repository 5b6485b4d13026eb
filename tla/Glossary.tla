------------------------------ MODULE Glossary ------------------------------
(***************************************************************************)
(* The dictionary of the workbench: its terms edited by hand, wrong        *)
(* spellings suggested by corrected minutes (glossary.py), words mined     *)
(* from the materials of a project (glossary_mining.py), and the snapshot  *)
(* file the relay reads.                                                   *)
(*                                                                         *)
(* A request is served by a thread of the pool: one SQLite transaction,    *)
(* then, as a rule, rewrite_snapshot, which reads the dictionary and       *)
(* replaces the file outside of it.  A mining pass computes outside a      *)
(* transaction too, and writes only if a signature of what it read is      *)
(* still the same.                                                         *)
(*                                                                         *)
(* Abstracted: one project, one mined word "Term" with its misheard        *)
(* spellings "Wrongs"; the evidence of a word, hence what a pass finds     *)
(* among the words not excluded; the undo window of 600 s (an undo may     *)
(* always still come, or never).  All terms count as confirmed.            *)
(***************************************************************************)
EXTENDS Integers, Sequences, FiniteSets, FiniteSetsExt

CONSTANTS
    Term,             \* the word the materials are full of
    Wrongs,           \* spellings it is misheard as
    Pairs,            \* suggestions: <<wrong, correct>>
    Project,          \* the project mined
    Public,           \* project_id NULL
    Null,
    Threads,          \* threads serving requests
    MaxTerms,         \* bound: terms ever made
    MaxExtra,         \* bound: terms made, edited, merged or deleted by hand, and restarts
    MaxOps,           \* bound: transactions that write terms or answers
    MaxPasses         \* bound: mining passes

Words == Wrongs \cup {Term}
Base == Null          \* the row of the word itself, wrong = ''
Rows == Wrongs \cup {Base}
(* A row of glossary_terms.                                                *)
TermRow == [text : Words, aliases : SUBSET Words, also : SUBSET Words,
            proj : {Project, Public}, auto : BOOLEAN, upd : Nat]

ASSUME GlossaryAssumption ==
    /\ Term \notin Wrongs /\ Null \notin Words \cup TermRow /\ Project # Public
    /\ Pairs \subseteq Words \X Words
    /\ {MaxTerms, MaxExtra, MaxOps, MaxPasses} \subseteq Nat

VARIABLES
    terms,            \* glossary_terms by id, Null once deleted
    sugg,             \* glossary_suggestions
    cand,             \* glossary_candidates of Project and Term
    pass,             \* the mining pass under way
    thread,           \* what each thread still has to do
    version,          \* how often the content of the dictionary changed
    snap,             \* the snapshot file: the version of the dictionary it shows
    newest,           \* the latest version ever written to the file (observed only)
    ops,              \* transactions that wrote terms or answers: the clock
    extra, passes     \* counters of the bounds

db == <<terms, sugg, cand>>
files == <<version, snap, newest>>
bounds == <<extra, passes>>
glossaryVars == <<db, pass, thread, files, ops, bounds>>

-----------------------------------------------------------------------------
(* The tables.                                                             *)

Now == ops + 1
Live == {i \in DOMAIN terms : terms[i] # Null}
WithText(word) == {i \in Live : terms[i].text = word}
IdOf(word) == Max({0} \cup WithText(word))      \* term is UNIQUE; 0: there is none
Names(i) == {terms[i].text} \cup terms[i].also
NewTerm(word, aliases, also, p, auto) ==
    [text |-> word, aliases |-> aliases, also |-> also, proj |-> p, auto |-> auto, upd |-> Now]
Entry(t) == [text |-> t.text, aliases |-> t.aliases, also |-> t.also, proj |-> t.proj]
Content(ts) == {Entry(ts[i]) : i \in {j \in DOMAIN ts : ts[j] # Null}}

Unanswered(st) == [st |-> st, term |-> 0, undo |-> Null, at |-> 0]
Answered(r) == cand[r].st \in {"accepted", "rejected"}

NoPass == [pc |-> "off", sig |-> Null, rows |-> <<>>]
Idle == [pc |-> "idle"]
Query == [pc |-> "query"]

GlossaryInit ==
    /\ terms = <<>>
    /\ sugg = [p \in Pairs |-> [st |-> "none", term |-> 0, wrong |-> Null]]
    /\ cand = [r \in Rows |-> Unanswered("none")]
    /\ pass = NoPass
    /\ thread = [w \in Threads |-> Idle]
    /\ version = 0 /\ snap = 0 /\ newest = 0
    /\ ops = 0 /\ extra = 0 /\ passes = 0

(* What _check_names refuses for term i (0: one not made yet) about to be  *)
(* "t", of whose aliases "fresh" are new.                                  *)
Clash(i, t, fresh, others) ==
    \/ t.aliases \cap t.also # {}
    \/ t.text \in t.aliases
    \/ others /\ \E j \in Live \ {i} : t.also \cap (Names(j) \cup terms[j].aliases) # {}
    \/ \E j \in Live \ {i} : terms[j].proj \in {Public, t.proj} /\ fresh \cap Names(j) # {}
Duplicate(i, word) == \E j \in Live \ {i} : terms[j].text = word

(* One transaction of thread w that leaves the term table "ts".            *)
Commit(w, ts, rewrite) ==
    /\ ops < MaxOps /\ ops' = Now
    /\ terms' = ts
    /\ version' = IF Content(ts) = Content(terms) THEN version ELSE version + 1
    /\ thread' = [thread EXCEPT ![w] = IF rewrite THEN Query ELSE Idle]
    /\ UNCHANGED <<pass, snap, newest, passes>>
OnlySuggestions == UNCHANGED <<terms, cand, pass, thread, files, ops, bounds>>
Free(w) == thread[w] = Idle
Extra == extra < MaxExtra /\ extra' = extra + 1
Removed(ts, i) == [ts EXCEPT ![i] = Null]
AliasesOf(ts, i, as) == [ts EXCEPT ![i].aliases = as, ![i].upd = Now]

-----------------------------------------------------------------------------
(* Terms edited by hand.                                                   *)

CreateTerm(w) == \E word \in Words, as \in SUBSET Wrongs, p \in {Project, Public} :
    LET t == NewTerm(word, as, {}, p, FALSE) IN
    /\ Free(w) /\ Extra /\ Len(terms) < MaxTerms
    /\ ~Duplicate(0, word) /\ ~Clash(0, t, as, TRUE)
    /\ Commit(w, Append(terms, t), TRUE)
    /\ UNCHANGED <<sugg, cand>>

(* A request for one change of a term: text, aliases, also or project.     *)
Edits(t) ==
    {[t EXCEPT !.text = x] : x \in Words}
        \cup {[t EXCEPT !.aliases = as] : as \in SUBSET Wrongs}
        \cup {[t EXCEPT !.also = s \ {t.text}] : s \in {{}} \cup {{x} : x \in Words}}
        \cup {[t EXCEPT !.proj = p] : p \in {Project, Public}}
Checked(i, t) ==
    /\ ~Duplicate(i, t.text)
    /\ [t EXCEPT !.proj = terms[i].proj] # terms[i] =>
           ~Clash(i, t, t.aliases \ terms[i].aliases, t.also # terms[i].also)

UpdateTerm(w) == \E i \in Live : \E t \in Edits(terms[i]) :
    /\ Free(w) /\ Extra /\ t # terms[i] /\ Checked(i, t)
    /\ Commit(w, [terms EXCEPT ![i] = [t EXCEPT !.upd = Now]], TRUE)
    /\ UNCHANGED <<sugg, cand>>

(* A term that exists already is given what was typed for the new one:     *)
(* read first, then update_term with the lists read and the additions.     *)
ReadForMerge(w) == \E i \in Live, a \in Wrongs :
    /\ Free(w) /\ Extra /\ a # terms[i].text
    /\ thread' = [thread EXCEPT ![w] =
           [pc |-> "merge", id |-> i, aliases |-> terms[i].aliases \cup {a},
            also |-> terms[i].also]]
    /\ UNCHANGED <<db, pass, files, ops, passes>>

Merged(t, m, p) == [t EXCEPT !.aliases = m.aliases, !.also = m.also \ {t.text}, !.proj = p,
                             !.upd = Now]
MergeIntoTerm(w) ==
    LET m == thread[w] IN
    /\ m.pc = "merge"
    /\ IF m.id \in Live
       THEN \E p \in {terms[m.id].proj, Public} :
              LET t == Merged(terms[m.id], m, p) IN
              IF Clash(m.id, t, t.aliases \ terms[m.id].aliases, TRUE)
              THEN Commit(w, terms, FALSE)
              ELSE Commit(w, [terms EXCEPT ![m.id] = t], TRUE)
       ELSE Commit(w, terms, FALSE)
    /\ UNCHANGED <<sugg, cand, extra>>

DeleteTerm(w) == \E i \in Live :
    /\ Free(w) /\ Extra
    /\ Commit(w, Removed(terms, i), TRUE)
    /\ UNCHANGED <<sugg, cand>>

-----------------------------------------------------------------------------
(* Suggestions from corrected minutes.                                     *)

Suggestion(p, st, i, word) == [sugg EXCEPT ![p] = [st |-> st, term |-> i, wrong |-> word]]

AddSuggestion == \E p \in Pairs :
    /\ sugg[p].st = "none"
    /\ LET i == IdOf(p[2]) IN i # 0 => p[1] \notin terms[i].aliases
    /\ sugg' = Suggestion(p, "pending", 0, Null)
    /\ OnlySuggestions

ConfirmSuggestion(w) == \E p \in Pairs, q \in {Project, Public} :
    LET word == p[1]
        i == IdOf(p[2])
        new == NewTerm(p[2], {word}, {}, IF i = 0 THEN q ELSE terms[i].proj, TRUE)
        known == i # 0 /\ word \in terms[i].aliases IN
    /\ Free(w) /\ sugg[p].st = "pending"
    /\ i # 0 => q = terms[i].proj
    /\ ~Clash(i, new, IF known THEN {} ELSE {word}, FALSE)
    /\ IF i = 0
       THEN /\ Len(terms) < MaxTerms
            /\ Commit(w, Append(terms, new), TRUE)
            /\ sugg' = Suggestion(p, "confirmed", Len(terms) + 1, word)
       ELSE /\ Commit(w, IF known THEN terms
                         ELSE AliasesOf(terms, i, terms[i].aliases \cup {word}), TRUE)
            /\ sugg' = Suggestion(p, "confirmed", i, IF known THEN Null ELSE word)
    /\ UNCHANGED <<cand, extra>>

TakenBack(i, word) ==
    LET left == terms[i].aliases \ {word} IN
    IF terms[i].auto /\ left = {} /\ terms[i].also = {}
    THEN Removed(terms, i) ELSE AliasesOf(terms, i, left)

UndoConfirmSuggestion(w) == \E p \in Pairs :
    /\ Free(w) /\ sugg[p].st = "confirmed"
    /\ sugg' = Suggestion(p, "pending", 0, Null)
    /\ Commit(w, IF sugg[p].term \in Live /\ sugg[p].wrong # Null
                 THEN TakenBack(sugg[p].term, sugg[p].wrong) ELSE terms, TRUE)
    /\ UNCHANGED <<cand, extra>>

RejectSuggestion == \E p \in Pairs :
    /\ sugg[p].st = "pending"
    /\ sugg' = Suggestion(p, "rejected", 0, Null)
    /\ OnlySuggestions

RestoreSuggestion == \E p \in Pairs :
    /\ sugg[p].st = "rejected"
    /\ sugg' = Suggestion(p, "pending", 0, Null)
    /\ OnlySuggestions

-----------------------------------------------------------------------------
(* A mining pass.                                                          *)

(* signatures: terms of the project and public ones, with their last       *)
(* change, and how many rows are answered.                                 *)
Signature ==
    LET last(p) == LET S == {i \in Live : terms[i].proj = p} IN
                   <<Cardinality(S), Max({0} \cup {terms[i].upd : i \in S})>>
    IN <<last(Project), last(Public), Cardinality({r \in Rows : Answered(r)})>>

(* What a pass may find, by what it excludes: rows -> their status, all of *)
(* one rank.  A word in the dictionary is only searched for spellings.     *)
Known == UNION {Names(i) \cup terms[i].aliases : i \in Live}
Excluded == Known \cup {p[2] : p \in {q \in Pairs : sugg[q].st \in {"pending", "confirmed"}}}
Findable ==
    LET heard == Wrongs \ Known IN
    IF \E r \in Rows : Answered(r) THEN {{}}
    ELSE IF IdOf(Term) # 0 THEN SUBSET heard
    ELSE IF Term \in Excluded THEN {{}}
    ELSE {{}} \cup {{Base} \cup s : s \in SUBSET heard}

ForgetDeletedTerms ==
    cand' = [r \in Rows |->
        IF cand[r].st = "accepted" /\ cand[r].term # 0 /\ cand[r].term \notin Live
        THEN [cand[r] EXCEPT !.st = "rejected", !.undo = Null] ELSE cand[r]]

(* The pass begins: forgets what was deleted, then takes the signature.    *)
BeginPass ==
    /\ pass.pc = "off" /\ passes < MaxPasses /\ passes' = passes + 1
    /\ ForgetDeletedTerms
    /\ pass' = [NoPass EXCEPT !.pc = "compute", !.sig = Signature]
    /\ UNCHANGED <<terms, sugg, thread, files, ops, extra>>

Compute == \E found \in Findable, st \in {"pending", "dropped"} :
    /\ pass.pc = "compute"
    /\ pass' = [pass EXCEPT !.pc = "write", !.rows = [r \in found |-> st]]
    /\ UNCHANGED <<db, thread, files, ops, bounds>>

(* Busy, past its deadline, or something read has changed since: nothing   *)
(* is written.                                                             *)
AbandonPass ==
    /\ pass.pc # "off" /\ pass' = NoPass
    /\ UNCHANGED <<db, thread, files, ops, bounds>>

(* What is found is put beside what was, unless answered; what was shown   *)
(* and is not found any more is dropped.                                   *)
Upserted(r) ==
    IF r \in DOMAIN pass.rows
    THEN IF cand[r].st \in {"none", "pending", "dropped"} THEN pass.rows[r] ELSE cand[r].st
    ELSE IF cand[r].st = "pending" THEN "dropped" ELSE cand[r].st

WritePass ==
    /\ pass.pc = "write" /\ pass' = NoPass
    /\ pass.sig = Signature
    /\ cand' = [r \in Rows |-> [cand[r] EXCEPT !.st = Upserted(r)]]
    /\ UNCHANGED <<terms, sugg, thread, files, ops, bounds>>

-----------------------------------------------------------------------------
(* Answers to the word found, and their undo.                              *)

Shown == \E r \in Rows : cand[r].st \notin {"none", "dropped"}
PendingRows(only) == {r \in Rows : cand[r].st = "pending" /\ (only = Null \/ r \in {Base, only})}

(* _wrong_taken: a spelling used by a term already (by term i: as a name). *)
WrongTaken(word, i) == \E j \in Live :
    word \in Names(j) \cup (IF j = i THEN {} ELSE terms[j].aliases)

Answer(rows, refused, i, undo) ==
    cand' = [r \in Rows |->
        IF r \notin rows THEN cand[r]
        ELSE [st |-> IF r \in refused THEN "rejected" ELSE "accepted",
              term |-> i, undo |-> undo, at |-> Now]]

(* "was": the aliases of the term before the answer (observed only).       *)
UndoOf(created, added, upd, was) ==
    [created |-> created, aliases |-> added, upd |-> upd, was |-> was]

KnownWord(rows, added) == Base \in rows             \* (a slip: see Already)
Already(rows, added) == Base \in rows /\ added = {}

AcceptKnown(w, i, rows, refused) ==
    LET usable == {x \in rows \ (refused \cup {Base}) : ~WrongTaken(x, i)}
        added == usable \ terms[i].aliases IN
    /\ IF rows \ (refused \cup {Base}) = {} THEN Base \in rows
       ELSE usable # {} \/ Base \in rows
    /\ Commit(w, IF added = {} THEN terms ELSE AliasesOf(terms, i, terms[i].aliases \cup added),
              ~Already(rows, added))
    /\ Answer(rows, refused, i, UndoOf(FALSE, added, IF added = {} THEN terms[i].upd ELSE Now,
                                       terms[i].aliases))

AcceptNew(w, rows, refused) ==
    LET usable == {x \in rows \ (refused \cup {Base}) : ~WrongTaken(x, 0)} IN
    /\ Len(terms) < MaxTerms
    /\ Commit(w, Append(terms, NewTerm(Term, usable, {}, Project, FALSE)), TRUE)
    /\ Answer(rows, refused, Len(terms) + 1, UndoOf(TRUE, usable, Now, {}))

(* Accepted on the page of the project, less the spellings refused, or on  *)
(* the page of a meeting, which shows one spelling only.                   *)
Accept(w) == \E refused \in SUBSET Wrongs, only \in Rows :
    LET rows == PendingRows(only) IN
    /\ Free(w) /\ Shown /\ rows # {}
    /\ refused \subseteq rows
    /\ IF IdOf(Term) # 0 THEN AcceptKnown(w, IdOf(Term), rows, refused)
       ELSE AcceptNew(w, rows, refused)
    /\ UNCHANGED <<sugg, extra>>

Reject(w) ==
    LET rows == PendingRows(Null) IN
    /\ Free(w) /\ rows # {}
    /\ Answer(rows, rows, 0, UndoOf(FALSE, {}, 0, {}))
    /\ Commit(w, terms, FALSE)
    /\ UNCHANGED <<sugg, extra>>

(* The last answer is undone; a term changed since refuses.                *)
Decided == {r \in Rows : cand[r].at # 0 /\ cand[r].undo # Null}
Latest == Max({cand[r].at : r \in Decided})
LastRows == {r \in Rows : Answered(r) /\ cand[r].at = Latest}
UnchangedIfMade(i, info) == info.created => terms[i].upd = info.upd   \* (a slip)
Unchanged(i, info) == terms[i].upd = info.upd
TermUndone(i, info) ==
    IF info.created THEN Removed(terms, i)
    ELSE AliasesOf(terms, i, terms[i].aliases \ info.aliases)

Undo(w) ==
    /\ Free(w) /\ Decided # {} /\ \E r \in Rows : Answered(r)
    /\ LET gone == {r \in LastRows : cand[r].st = "accepted" /\ cand[r].term \in Live
                                       /\ (cand[r].undo.created \/ cand[r].undo.aliases # {})} IN
       IF gone = {} THEN Commit(w, terms, FALSE)
       ELSE LET r == CHOOSE x \in gone : TRUE IN
            /\ Unchanged(cand[r].term, cand[r].undo)
            /\ Commit(w, TermUndone(cand[r].term, cand[r].undo), TRUE)
    /\ cand' = [r \in Rows |->
           IF r \in LastRows THEN Unanswered("pending") ELSE cand[r]]
    /\ UNCHANGED <<sugg, extra>>

-----------------------------------------------------------------------------
(* rewrite_snapshot, and the restart of the process.                       *)

ReadDictionary(w) ==
    /\ thread[w].pc = "query"
    /\ thread' = [thread EXCEPT ![w] = [pc |-> "replace", shows |-> version]]
    /\ UNCHANGED <<db, pass, files, ops, bounds>>

ReplaceFile(w) ==
    /\ thread[w].pc = "replace"
    /\ snap' = thread[w].shows
    /\ newest' = Max({newest, snap'})
    /\ thread' = [thread EXCEPT ![w] = Idle]
    /\ UNCHANGED <<db, pass, version, ops, bounds>>

(* After a restart the file is written once before the first request.      *)
Restart ==
    /\ Extra
    /\ \E w \in Threads : thread' = [v \in Threads |-> IF v = w THEN Query ELSE Idle]
    /\ pass' = NoPass
    /\ UNCHANGED <<db, files, ops, passes>>

GlossaryNext ==
    \/ \E w \in Threads :
        \/ CreateTerm(w) \/ UpdateTerm(w) \/ ReadForMerge(w) \/ MergeIntoTerm(w) \/ DeleteTerm(w)
        \/ ConfirmSuggestion(w) \/ UndoConfirmSuggestion(w)
        \/ Accept(w) \/ Reject(w) \/ Undo(w)
        \/ ReadDictionary(w) \/ ReplaceFile(w)
    \/ AddSuggestion \/ RejectSuggestion \/ RestoreSuggestion
    \/ BeginPass \/ Compute \/ AbandonPass \/ WritePass \/ Restart

GlossarySpec == GlossaryInit /\ [][GlossaryNext]_glossaryVars

-----------------------------------------------------------------------------
(* A term, a suggestion and a row of the tables are well formed.           *)
GlossaryTypeOK ==
    /\ \A i \in Live : terms[i] \in TermRow
    /\ \A p \in Pairs : sugg[p].st \in {"none", "pending", "confirmed", "rejected"}
    /\ \A r \in Rows :
         /\ cand[r].st \in {"none", "pending", "dropped", "accepted", "rejected"}
         /\ Answered(r) <=> cand[r].at # 0
    /\ \A i, j \in Live : terms[i].text = terms[j].text => i = j

(* The relay reads what the dictionary holds: once no thread has a file to *)
(* write and no older file replaced a newer one, the snapshot is the       *)
(* dictionary, whichever operations rewrote it and whichever were found    *)
(* not to need it, and through restarts (glossary.py:1210-1255).           *)
Quiet == \A w \in Threads : thread[w].pc \in {"idle", "merge"}
SnapshotIsCurrent == GlossaryTypeOK /\ (Quiet /\ snap = newest => snap = version)

(* The undo of an accepted word leaves the term as it was before: gone, if *)
(* the answer made it, else with the spellings it had, although requests   *)
(* of other threads work on the same term (glossary_mining.py:2334-2397).  *)
GivenBack(r) ==
    LET i == cand[r].term  info == cand[r].undo IN
    i \in Live => IF info.created THEN terms'[i] = Null
                  ELSE info.aliases = {} \/ (terms'[i] # Null /\ terms'[i].aliases = info.was)
UndoGivesBack == [][\A r \in Rows :
    cand[r].st = "accepted" /\ cand'[r].st = "pending" => GivenBack(r)]_glossaryVars
=============================================================================
