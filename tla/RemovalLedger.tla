---------------------------- MODULE RemovalLedger ----------------------------
(***************************************************************************)
(* What the journal of removals promises to the instances that share it:   *)
(* every update is atomic.  An operation is added once, with a new name;   *)
(* an item is marked restored in the journal as it is then; nothing else   *)
(* changes, and only the oldest operations are ever dropped.               *)
(***************************************************************************)
EXTENDS RemovalJournal

VARIABLE journal

Init == ValidStore(journal)

\* append_operation, as one step: the operation added is the newest of the
\* journal that results.
Add ==
  /\ journal' # <<>>
  /\ ~Known(journal, Last(journal').id)
  /\ Storable(Append(journal, Last(journal')))
  /\ journal' = Bound(Append(journal, Last(journal')))

\* The journal part of restore_item, as one step.
Restore ==
  \E k \in DOMAIN journal : \E p \in DOMAIN journal[k].items :
    /\ Listed(journal, journal[k].id, p)
    /\ HasProof(journal[k].items[p])
    /\ Storable(MarkRestored(journal, journal[k].id, p))
    /\ journal' = Bound(MarkRestored(journal, journal[k].id, p))

Next == Add \/ Restore

Spec == Init /\ [][Next]_journal
=============================================================================
