----------------------------- MODULE Relocation -----------------------------
(***************************************************************************)
(* What a merge of two folders promises of each file it plans to transfer, *)
(* whatever the system calls in between: the proven content is always in   *)
(* the source folder or elsewhere, a file is reported as moved or skipped  *)
(* only while its content is elsewhere, and a report is given once.  The   *)
(* rest of the machine may put files anywhere: its steps raise edits and   *)
(* are not the merge's doing.                                              *)
(***************************************************************************)
EXTENDS Naturals

CONSTANT Files

VARIABLES
  where,    \* the places that hold the proven content of a file
  report,   \* "none" before the plan, "open", then what the merge reported
  edits     \* changes by the rest of the machine

Places == {"source", "elsewhere"}

Init ==
  /\ where \in [Files -> SUBSET Places]
  /\ report = [f \in Files |-> "none"]
  /\ edits = 0

\* The plan proves f by a full read, of the source unless the rest of the
\* machine put another folder in its place.
Prove(f) ==
  /\ report[f] = "none"
  /\ report' = [report EXCEPT ![f] = "open"]
  /\ \E w \in SUBSET Places :
       /\ edits = 0 => "source" \in w
       /\ where' = [where EXCEPT ![f] = w]
  /\ UNCHANGED edits

\* Contents of planned files appear elsewhere, and leave the source only when
\* they are there.
Shift ==
  /\ \A f \in Files :
       report[f] # "none" =>
         /\ "elsewhere" \in where[f] => "elsewhere" \in where'[f]
         /\ where[f] # {} => where'[f] # {}
  /\ where' \in [Files -> SUBSET Places]
  /\ UNCHANGED edits

\* f is reported as transferred or skipped only while its content is elsewhere.
Report(f) ==
  /\ report[f] = "open"
  /\ \/ /\ report' \in {[report EXCEPT ![f] = r] : r \in {"moved", "skipped"}}
        /\ "elsewhere" \in where'[f]
     \/ report' = [report EXCEPT ![f] = "failed"]
  /\ Shift

Disturb ==
  /\ edits' = edits + 1
  /\ where' \in [Files -> SUBSET Places]
  /\ UNCHANGED report

Next ==
  \/ \E f \in Files : Prove(f) \/ Report(f)
  \/ Shift /\ UNCHANGED report
  \/ Disturb

vars == <<where, report, edits>>

Spec == Init /\ [][Next]_vars
=============================================================================
