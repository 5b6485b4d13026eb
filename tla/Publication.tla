---------------------------- MODULE Publication ----------------------------
(***************************************************************************)
(* What publishing a meeting promises: the archive shows the last          *)
(* publication, a publication takes effect in one step, and it holds the   *)
(* draft of that very instant.  PublishJournal, with its directories,      *)
(* journal, failures and restarts, implements this.                        *)
(***************************************************************************)
EXTENDS Naturals

CONSTANTS Tokens,   \* publications
          Nothing   \* the archive before the first publication of a new meeting
VARIABLES draft,    \* the version the user is editing
          shown,    \* the publication the archive holds
          holds     \* the version each publication was made of, 0 for none yet

vars == <<draft, shown, holds>>

Init ==
    /\ draft = 1
    /\ shown \notin Tokens
    /\ holds = [t \in Tokens |-> 0]

Edit ==
    /\ draft' = draft + 1
    /\ UNCHANGED <<shown, holds>>

\* A publication replaces what the archive shows by the draft as it is now.
Publish(t) ==
    /\ holds[t] = 0
    /\ shown' = t
    /\ holds' = [holds EXCEPT ![t] = draft]
    /\ UNCHANGED draft

Next == Edit \/ \E t \in Tokens : Publish(t)

Spec == Init /\ [][Next]_vars
=============================================================================
