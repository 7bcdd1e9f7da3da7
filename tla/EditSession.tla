----------------------------- MODULE EditSession -----------------------------
(***************************************************************************)
(* What the header of the web UI promises about configuration edits        *)
(* (features/nso/Header.jsx): an edit is accepted or refused, "Commit" and *)
(* "Revert" act at once on every edit accepted before they were pressed,   *)
(* and an edit never leaves the session in another way than these, or the  *)
(* end of the session.  Which transaction holds an edit is not part of it. *)
(***************************************************************************)
EXTENDS FiniteSets

CONSTANTS Edits

VARIABLES fate,      \* what has become of each edit
          operation, \* the operation of the header in progress
          covered    \* the edits it was pressed for and has not acted on

Fates == {"new", "open", "running", "dropped", "refused"}

Open == {e \in Edits : fate[e] = "open"}

SetFate(S, f) == fate' = [e \in Edits |-> IF e \in S THEN f ELSE fate[e]]

Outcome == IF operation = "commit" THEN "running" ELSE "dropped"

Init ==
  /\ fate = [e \in Edits |-> "new"]
  /\ operation = "none"
  /\ covered = {}

\* An edit reaches the candidate configuration, or is refused.
Decide(e) ==
  /\ fate[e] = "new"
  /\ \E f \in {"open", "refused"} : SetFate({e}, f)
  /\ UNCHANGED <<operation, covered>>

Press(op) ==
  /\ operation = "none"
  /\ operation' = op
  /\ covered' = Open
  /\ UNCHANGED fate

\* The operation acts once, on all the edits it covers and possibly on some
\* that were accepted after it was pressed.
Act ==
  /\ operation \in {"commit", "revert"}
  /\ \E S \in SUBSET Open :
       /\ covered \subseteq S
       /\ SetFate(S, Outcome)
  /\ operation' = "acted"
  /\ covered' = {}

\* It may be refused, and then moves no edit.
Refuse ==
  /\ operation \in {"commit", "revert"}
  /\ operation' = "refused"
  /\ UNCHANGED <<fate, covered>>

\* It ends when it has acted, was refused, or had nothing to act on.
Finish ==
  /\ operation # "none"
  /\ operation = "refused" \/ covered = {}
  /\ operation' = "none"
  /\ covered' = {}
  /\ UNCHANGED fate

\* The page is left while requests are on their way: the server may still
\* take edits, and then act on the edits the operation covers, or not.
Leave ==
  \E A \in SUBSET {e \in Edits : fate[e] = "new"} : \E S \in SUBSET (Open \cup A) :
    /\ S # {} => operation \in {"commit", "revert"} /\ covered \subseteq S
    /\ fate' = [e \in Edits |-> IF e \in S THEN Outcome
                                ELSE IF e \in A THEN "open" ELSE fate[e]]
    /\ operation' = "none"
    /\ covered' = {}

Next ==
  \/ \E e \in Edits : Decide(e)
  \/ \E op \in {"commit", "revert"} : Press(op)
  \/ Act \/ Refuse \/ Finish \/ Leave

Spec == Init /\ [][Next]_<<fate, operation, covered>>
==============================================================================
