--------------------------- MODULE RemovalJournal ---------------------------
(***************************************************************************)
(* The journal of removals as a value: a sequence of operations, oldest    *)
(* first, each with the items one call of to_trash handled.  What the file *)
(* history.json may hold, and how an operation enters it and an item of    *)
(* one becomes restored.                                                   *)
(*                                                                         *)
(* Times, error texts and kinds are left out.  The statuses "pending",     *)
(* "missing" and "skipped", which no code of the program writes, are too.  *)
(***************************************************************************)
EXTENDS Naturals, FiniteSets, FiniteSetsExt, SequencesExt

CONSTANTS
  Paths,          \* original paths of removed items
  Nothing,        \* an absent field, an empty directory entry
  MaxOperations,  \* MAX_OPERATIONS
  MaxWeight       \* MAX_TOTAL_ITEMS and MAX_HISTORY_BYTES, see Weight

ASSUME JournalAssumption ==
  /\ MaxOperations \in Nat \ {0}
  /\ MaxWeight \in Nat

\* An item counts one, and one more for the fields that a restore adds.
Weight(op) == MapThenSumSet(LAMBDA p : IF op.items[p].status = "restored"
                                         THEN 2 ELSE 1,
                            DOMAIN op.items)

WeightOf(ops) == MapThenSumSet(LAMBDA k : Weight(ops[k]), DOMAIN ops)

Fits(ops) == Len(ops) <= MaxOperations /\ WeightOf(ops) <= MaxWeight

\* The operations from the k-th on.
Since(ops, k) == SubSeq(ops, k, Len(ops))

\* _bound refuses a journal whose newest operation is too large by itself.
Storable(ops) == WeightOf(Since(ops, Len(ops))) <= MaxWeight

\* Mutant: one operation too many is kept.
BoundLoose(ops) ==
  Since(ops, Min({k \in DOMAIN ops : Len(Since(ops, k)) <= MaxOperations + 1}))

\* _bound: the oldest operations go until the rest fits.
Bound(ops) == Since(ops, Min({k \in DOMAIN ops : Fits(Since(ops, k))}))

Known(ops, id) == \E k \in DOMAIN ops : ops[k].id = id

Place(ops, id) == CHOOSE k \in DOMAIN ops : ops[k].id = id

\* The item a restore names, when the journal has it and it says where in the
\* Trash the object is.
Listed(ops, id, p) ==
  /\ Known(ops, id)
  /\ LET op == ops[Place(ops, id)]
     IN  p \in DOMAIN op.items /\ op.items[p].bin # Nothing

Item(ops, id, p) == ops[Place(ops, id)].items[p]

\* can_restore_automatically, and the refusal of a legacy record.
HasProof(item) == item.id # Nothing \/ item.digest # Nothing

\* restore_item's update of the journal it has read.
MarkRestored(ops, id, p) ==
  LET k     == Place(ops, id)
      items == [ops[k].items EXCEPT ![p].status = "restored"]
      whole == \A q \in DOMAIN items : items[q].status = "restored"
  IN  [ops EXCEPT ![k].items = items,
                  ![k].status = IF whole THEN "restored" ELSE "partial"]

\* to_trash's operation for these items.
Operation(id, items) ==
  LET failed == {p \in DOMAIN items : items[p].status = "failed"}
  IN  [id     |-> id,
       items  |-> items,
       status |-> IF failed = {} THEN "completed"
                  ELSE IF failed = DOMAIN items THEN "failed" ELSE "partial"]

\* _validate_store accepts the file.
ValidStore(ops) ==
  /\ Fits(ops)
  /\ \A j, k \in DOMAIN ops : ops[j].id = ops[k].id => j = k
  /\ \A k \in DOMAIN ops :
       ops[k].status = "restored" =>
         \A p \in DOMAIN ops[k].items : ops[k].items[p].status = "restored"
=============================================================================
